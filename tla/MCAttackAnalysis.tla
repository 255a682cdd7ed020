-------------------------- MODULE MCAttackAnalysis --------------------------
(***************************************************************************)
(* Instances of AttackAnalysis: a contract A that receives the victim's    *)
(* transaction, a contract B that it calls, an account P without code.     *)
(* One program has branches that merge, one a loop, one calls.             *)
(***************************************************************************)
EXTENDS AttackAnalysis

CONSTANTS A, B, P

JumpTo(pcs)   == [tail |-> "jump", single |-> FALSE, next |-> pcs, to |-> {},
                  pays |-> {0}, value |-> FALSE]
CallTo(as)    == [JumpTo({}) EXCEPT !.tail = "call", !.to = as]
FallOn        == [JumpTo({}) EXCEPT !.tail = "fall"]
End(tail)     == [JumpTo({}) EXCEPT !.tail = tail]
Alone(b)      == [b EXCEPT !.single = TRUE]
Pay(b, given) == [b EXCEPT !.pays = given]
Send(as, given) == [Pay(CallTo(as), given) EXCEPT !.value = TRUE]

\* A branch that pays the same, more or nothing; a common payment; another branch.
Branching ==
  [a \in {A} |-> <<JumpTo({2, 3}), Pay(JumpTo({4}), {1}), JumpTo({2, 4}),
                   Pay(JumpTo({5, 6}), {1, 2}), Pay(End("return"), {0, 1}), End("revert")>>]

\* A loop with payments, over blocks of one operation and blocks without a tail.
Looping ==
  [a \in {A} |-> <<FallOn, Pay(JumpTo({2, 3}), {1}), Alone(JumpTo({2, 4})),
                   Alone(FallOn), JumpTo({6, 2}), Alone(End("return"))>>]

\* Calls that pay, to a contract that may fail and to an account without code.
Calling ==
  [a \in {A, B} |->
     IF a = A THEN <<Send({B, P}, {1, 2}), JumpTo({3, 5}), CallTo({B}),
                     Alone(CallTo({B, P})), End("return")>>
     ELSE <<JumpTo({2, 3}), Pay(End("return"), {1}), End("revert")>>]

MCPrograms == {Branching, Looping, Calling}
=============================================================================
