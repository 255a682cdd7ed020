----------------------------- MODULE MCDataFlow -----------------------------
(***************************************************************************)
(* Instances of DataFlow: a contract A that receives the transaction, a    *)
(* contract B, a contract C that a transaction creates, a precompiled      *)
(* contract P.  A program is a chain of steps with a few operations each:  *)
(* one moves data in memory and on the stack, one passes it to a callee    *)
(* and back, one through storage, balances and codes, with re-entrancy.    *)
(***************************************************************************)
EXTENDS DataFlow

CONSTANTS A, B, C, P

\* Words of two units: the first word, the second, both, and a range across.
W0 == <<0, 2>>
W1 == <<2, 2>>
W01 == <<0, 4>>
Across == <<1, 2>>
Nothing == <<0, 0>>

Op(name) == [name |-> name, n |-> 0]
OpN(name, n) == [name |-> name, n |-> n]
OpAt(name, n, a) == [name |-> name, n |-> n, at |-> a]
OpOn(name, n, span) == [name |-> name, n |-> n, span |-> span]
Copy(name, dest, from) == [name |-> name, n |-> 0, into |-> dest, from |-> from]
CodeTo(n, a, span) == [name |-> "CODECOPY", n |-> n, at |-> a, span |-> span]
CallOf(name, a, n, args, into) ==
  [name |-> name, n |-> n, to |-> 0, at |-> a, args |-> args, into |-> into]
\* The account called comes from the stack too.
CallTo(name, a, n) ==
  [name |-> name, n |-> n, to |-> 1, at |-> a, args |-> Nothing, into |-> Nothing]

Values == {OpN("SLOAD", 0), Op("PUSH")}
Uses == {OpN("JUMP", 1), OpN("SSTORE", 1), OpOn("LOG", 1, W1)}

InMemory ==
  LET stores == {OpOn("MSTORE", 1, s) : s \in {W0, W1, <<0, 1>>, <<2, 1>>, Across}}
      loads  == {OpOn("MLOAD", 0, W0), OpOn("MLOAD", 0, W1), OpOn("MLOAD", 0, Across),
                 OpOn("KECCAK256", 0, W01), OpOn("KECCAK256", 0, W0)}
      main   == <<Values, {OpN("DUP", 1), Op("PUSH")},
                  {OpN("SWAP", 1), OpN("PURE", 2), OpN("PURE", 1)},
                  stores, Values \cup {OpN("DUP", 1)}, stores, loads,
                  {OpN("SWAP", 1), OpN("DUP", 2), Op("POP"), OpN("PURE", 2)},
                  {OpN("JUMP", 1), OpOn("LOG", 1, W1), OpOn("LOG", 0, W0), OpN("JUMP", 2)}>>
  IN  [a \in Accounts |-> IF a = A THEN main ELSE << >>]

ByCall ==
  LET main   == <<Values, {OpOn("MSTORE", 1, s) : s \in {W0, W1}},
                  {CallOf(k, a, 0, args, into) :
                     k \in {"CALL", "DELEGATECALL", "STATICCALL"}, a \in {B, P},
                     args \in {W1, W01, Across}, into \in {W0, W1, Across, Nothing}}
                   \cup {CallOf("CREATE", C, 0, args, Nothing) : args \in {W0, W1}},
                  {OpOn("MLOAD", 0, W0), OpOn("MLOAD", 0, W1),
                   Copy("RETURNDATACOPY", W1, 0), Copy("RETURNDATACOPY", W0, 2),
                   Copy("RETURNDATACOPY", W0, 1)},
                  {OpOn("LOG", 0, W0), OpOn("LOG", 0, W1), OpN("JUMP", 1), OpN("JUMP", 2)}>>
      callee == <<{OpOn("CALLDATALOAD", 0, W0), OpOn("CALLDATALOAD", 0, W1), Op("PUSH")},
                  {OpOn("MSTORE", 1, W0), OpOn("MSTORE", 1, W1), OpN("JUMP", 1)},
                  {Copy("CALLDATACOPY", W1, 0), Copy("CALLDATACOPY", W0, 2),
                   Copy("CALLDATACOPY", W0, 1), Copy("CALLDATACOPY", Across, 1), Copy("CALLDATACOPY", <<2, 0>>, 1), OpN("SLOAD", 0)},
                  {OpOn(k, 0, s) : k \in {"RETURN", "REVERT"}, s \in {W1, W01, Across}}
                    \cup {OpN("SSTORE", 0)}>>
  IN  [a \in Accounts |-> CASE a = A -> main [] a \in {B, C} -> callee [] OTHER -> << >>]

OnChain ==
  LET main   == <<Values, {OpN("SSTORE", 0), CallOf("CALL", P, 1, Nothing, Nothing),
                           CallOf("CALL", B, 0, Nothing, Nothing),
                           CallOf("CREATE", C, 1, Nothing, Nothing),
                           CallOf("CREATE", C, 0, Nothing, Nothing),
                           CallOf("CALLCODE", B, 1, Nothing, Nothing)},
                  {CallOf("CALL", B, 0, Nothing, Nothing), CallTo("DELEGATECALL", B, 0)}
                    \cup {Op("SELFBALANCE"), OpAt("BALANCE", 1, P), OpAt("BALANCE", 1, C)},
                  {OpN("SLOAD", 0), OpN("SLOAD", 1), OpAt("EXTCODESIZE", 1, C),
                   OpAt("EXTCODESIZE", 1, B), CodeTo(1, C, W0), OpAt("BALANCE", 1, B)},
                  {OpN("JUMP", 1), OpOn("LOG", 0, W0)}>>
      callee == <<{OpN("SLOAD", 0), Op("PUSH"), Op("CALLVALUE"), Op("SELFBALANCE"), Op("CODESIZE")},
                  {OpN("SSTORE", 0), OpAt("SELFDESTRUCT", 0, A), OpAt("SELFDESTRUCT", 1, A),
                   CallOf("CALL", A, 0, Nothing, Nothing), CodeTo(0, B, W0)},
                  {OpN("SLOAD", 0), OpOn("RETURN", 0, W0)},
                  {OpN("JUMP", 1), Op("INVALID")}>>
      new    == <<{OpN("SLOAD", 0), Op("PUSH")},
                  {OpOn("MSTORE", 1, W0), OpN("SSTORE", 0), CallOf("CALL", P, 1, Nothing, Nothing)},
                  {OpOn("RETURN", 0, W0), OpAt("SELFDESTRUCT", 0, A)}>>
  IN  [a \in Accounts |->
         CASE a = A -> main [] a = B -> callee [] a = C -> new [] OTHER -> << >>]

MCPrograms == {InMemory, ByCall, OnChain}

MCAnalyzers ==
  {{<<"SLOAD", A>>}, {<<"SLOAD", B>>}, {<<"BALANCE", B>>}, {<<"CODE", B>>},
   {<<"CALLDATALOAD", B>>, <<"CALLDATACOPY", B>>}, {<<"PUSH", A>>}, {<<"PUSH", C>>},
   {<<op, a>> : op \in {"CALLVALUE", "DUP", "MSTORE", "SSTORE", "CREATE", "RETURN", "SELFDESTRUCT"}, a \in {B, C}},
   {<<"CREATE", A>>}}
=============================================================================
