----------------------------- MODULE TxSummary -----------------------------
(***************************************************************************)
(* The summary of one transaction: TxSummaryTracer                         *)
(* (analysis/summary/summary_tracer.go), which follows the execution, and  *)
(* the overall defs, uses and profits of its calls                         *)
(* (analysis/summary/summary.go).                                          *)
(*                                                                         *)
(* The EVM is external: contracts store, load, read balances, call, emit   *)
(* the events of the transfers they make, return and revert in any order.  *)
(* Each contract has one storage slot.  A call's data is a list of         *)
(* segments with the nested calls between them; the overall values are     *)
(* folds over that list, done as the execution proceeds: "done" is the     *)
(* fold up to the current segment, "data" the current segment.             *)
(***************************************************************************)
EXTENDS Profits, Sequences

CONSTANTS
  Sender,     \* tx.From()
  Contracts,  \* accounts that may be called
  Values,     \* values of slots
  Amounts,    \* amounts of Ether sent along with calls
  Emitted,    \* token transfers that contracts may make
  Fortune,    \* what every account holds of every fungible asset at first
  MaxCalls,   \* bound on open calls
  MaxOps      \* bound on the steps of the transaction

ASSUME SummaryAssumption ==
  /\ Sender \in Accounts /\ Contracts \subseteq Accounts
  /\ 0 \in Values /\ Values \subseteq Int
  /\ Amounts \subseteq Nat
  /\ Emitted \subseteq {t \in Transfer : t.asset # Ether}
  /\ Fortune \in Nat /\ MaxCalls \in Nat /\ MaxOps \in Nat

Holdings == Accounts \X Fungibles
Slots    == {"slot"} \X Accounts
Balances == {"balance"} \X Accounts
Variables == Slots \cup Balances

World == [held : [Holdings -> Int],
          owner : [Collections \X Tokens -> Accounts \cup {Null}],
          slot : [Accounts -> Values],
          written : SUBSET Accounts]

VARIABLES
  world,    \* the state of the chain, and the slots the transaction has
            \* written in calls that are not reverted
  tx,       \* receiver and value of the transaction, the world before it
  calls,    \* the calls that are open, the outermost first
  defined,  \* t.defs: the variables that were ever defined
  clear,    \* slots read while no write of this transaction was in effect
  lossy,    \* whether compacting a call's profits dropped tokens
  summary,  \* Summary, with its overall values, once there is one
  ops       \* steps so far

vars == <<world, tx, calls, defined, clear, lossy, summary, ops>>

NoData == [profits |-> Empty, defs |-> Empty, uses |-> Empty]
None   == [ended |-> FALSE, ok |-> FALSE, profits |-> Empty,
           defs |-> Empty, uses |-> Empty]

---------------------------------------------------------------------------
\* The world.

Delta(t, k) ==
  (IF k = <<t.to, t.asset>> THEN t.amount ELSE 0)
    - (IF k = <<t.from, t.asset>> THEN t.amount ELSE 0)

Apply(w, t) ==
  IF t.asset \in Collections
  THEN [w EXCEPT !.owner[<<t.asset, t.token>>] = t.to]
  ELSE [w EXCEPT !.held = [k \in Holdings |-> w.held[k] + Delta(t, k)]]

Possible(w, t) ==
  IF t.asset \in Collections THEN w.owner[<<t.asset, t.token>>] = t.from
  ELSE t.from # Null => w.held[<<t.from, t.asset>>] >= t.amount

AToken == CHOOSE t \in Tokens : TRUE

EtherTransfer(a, b, n) ==
  [asset |-> Ether, from |-> a, to |-> b, amount |-> n, token |-> AToken]

BalanceOf(w, a) == w.held[<<a, Ether>>]

---------------------------------------------------------------------------
\* Data of calls.

\* A bug that would keep the first definition.
OverrideAbsent(vs, ws) ==
  [v \in DOMAIN vs \cup DOMAIN ws |-> IF v \in DOMAIN vs THEN vs[v] ELSE ws[v]]

\* AddWithOverride and AddIfAbsent of lists of variables.
Override(vs, ws) ==
  [v \in DOMAIN vs \cup DOMAIN ws |-> IF v \in DOMAIN ws THEN ws[v] ELSE vs[v]]
IfAbsent(vs, ws) == Override(ws, vs)

Variable(v, value) == [w \in {v} |-> value]

\* Two adjoining parts of the list of a call, as one.
Fold(d, e) ==
  [profits |-> Add(d.profits, e.profits),
   defs    |-> Override(d.defs, e.defs),
   uses    |-> IfAbsent(d.uses, e.uses)]

\* Bug: forgetting that the call has failed.
OverallAnyway(c, ok) ==
  LET whole == Fold(c.done, c.data)
  IN  [whole EXCEPT !.profits = Compact(@)]

\* OverallProfits, OverallDefs and OverallUses: a failed call exposes its
\* uses only, profits are compacted.
Overall(c, ok) ==
  LET whole == Fold(c.done, c.data)
  IN  IF ok THEN [whole EXCEPT !.profits = Compact(@)]
      ELSE [whole EXCEPT !.profits = Empty, !.defs = Empty]

\* Compacting drops profits with tokens, as many given as received.
Loses(c, ok) ==
  ok /\ LET ps == Fold(c.done, c.data).profits
        IN  \E k \in DOMAIN ps : Zero(ps[k]) /\ ps[k].give # {}

Top == calls[Len(calls)]
Below == SubSeq(calls, 1, Len(calls) - 1)

\* A bug that would record every read.
UseAnyway(v, value) == Variable(v, value)

\* Uses are added unless the variable has been defined.
UseOf(v, value) == IF v \in defined THEN Empty ELSE Variable(v, value)

WithUse(d, v, value) == [d EXCEPT !.uses = IfAbsent(@, UseOf(v, value))]
WithDef(d, v, value) == [d EXCEPT !.defs = Override(@, Variable(v, value))]
WithTransfer(d, t)   == [d EXCEPT !.profits = AddTransfer(@, t)]

SetTop(d) == calls' = [calls EXCEPT ![Len(calls)].data = d]

Running == calls # << >> /\ ops < MaxOps

---------------------------------------------------------------------------
Fresh == [held    |-> [k \in Holdings |-> Fortune],
          owner   |-> [t \in Collections \X Tokens |-> Null],
          slot    |-> [a \in Accounts |-> 0],
          written |-> {}]

\* TransactionStart.  The EVM has moved the value when the first call runs.
Init ==
  /\ \E to \in Contracts, n \in Amounts :
       /\ tx = [to |-> to, value |-> n, before |-> Fresh]
       /\ world = Apply(Fresh, EtherTransfer(Sender, to, n))
       /\ calls = << [self |-> to, done |-> NoData, data |-> NoData,
                      before |-> Apply(Fresh, EtherTransfer(Sender, to, n))] >>
  /\ defined = {} /\ clear = {} /\ lossy = FALSE /\ summary = None /\ ops = 0

\* SSTORE.
Store(n) ==
  LET a == Top.self
  IN  /\ Running
      /\ world' = [world EXCEPT !.slot[a] = n, !.written = @ \cup {a}]
      /\ SetTop(WithDef(Top.data, <<"slot", a>>, n))
      /\ defined' = defined \cup {<<"slot", a>>}
      /\ ops' = ops + 1
      /\ UNCHANGED <<tx, clear, lossy, summary>>

\* SLOAD.
Load ==
  LET a == Top.self
  IN  /\ Running
      /\ SetTop(WithUse(Top.data, <<"slot", a>>, world.slot[a]))
      /\ clear' = clear \cup ({a} \ world.written)
      /\ ops' = ops + 1
      /\ UNCHANGED <<world, tx, defined, lossy, summary>>

\* BALANCE and SELFBALANCE.
ReadBalance(a) ==
  /\ Running
  /\ SetTop(WithUse(Top.data, <<"balance", a>>, BalanceOf(world, a)))
  /\ ops' = ops + 1
  /\ UNCHANGED <<world, tx, defined, clear, lossy, summary>>

\* LOG: a transfer of tokens, and the event that tells of it.
Log(t) ==
  /\ Running /\ Possible(world, t)
  /\ world' = Apply(world, t)
  /\ SetTop(WithTransfer(Top.data, t))
  /\ ops' = ops + 1
  /\ UNCHANGED <<tx, defined, clear, lossy, summary>>

\* CALL with or without value, DELEGATECALL in the context of the caller.
\* The EVM moves the value, then CaptureEnter opens the summary of the call;
\* it adds the value to balances once more.
Open(op, to, n) ==
  LET from   == Top.self
      data   == IF op = "CALL" /\ n > 0
                THEN WithUse(Top.data, <<"balance", from>>, BalanceOf(world, from))
                ELSE Top.data
      moved  == Apply(world, EtherTransfer(from, to, n))
      gets   == WithDef(NoData, <<"balance", to>>, BalanceOf(moved, to) + n)
      both   == WithDef(gets, <<"balance", from>>, BalanceOf(moved, from) - n)
      first  == IF n > 0 THEN WithTransfer(both, EtherTransfer(from, to, n)) ELSE NoData
  IN  /\ world' = moved
      /\ calls' = Append([calls EXCEPT ![Len(calls)].done = Fold(@, data),
                                       ![Len(calls)].data = NoData],
                         [self   |-> IF op = "DELEGATECALL" THEN from ELSE to,
                          done   |-> NoData, data |-> first, before |-> world])
      /\ defined' = IF n > 0 THEN defined \cup {<<"balance", to>>, <<"balance", from>>}
                    ELSE defined

Enter(op, to, n) ==
  /\ Running /\ Len(calls) < MaxCalls
  /\ n =< BalanceOf(world, Top.self)
  /\ op = "DELEGATECALL" => n = 0
  /\ Open(op, to, n)
  /\ ops' = ops + 1
  /\ UNCHANGED <<tx, clear, lossy, summary>>

\* CALL that the EVM refuses: the balance is too low.
Refuse(n) ==
  /\ Running /\ n > BalanceOf(world, Top.self)
  /\ SetTop(WithUse(Top.data, <<"balance", Top.self>>, BalanceOf(world, Top.self)))
  /\ ops' = ops + 1
  /\ UNCHANGED <<world, tx, defined, clear, lossy, summary>>

\* CaptureExit: the call returns to its caller, or reverts.
Exit(ok) ==
  LET n == Len(calls) - 1
  IN  /\ Len(calls) > 1
      /\ world' = IF ok THEN world ELSE Top.before
      /\ calls' = [Below EXCEPT ![n].done = Fold(@, Overall(Top, ok))]
      /\ lossy' = (lossy \/ Loses(Top, ok))
      /\ UNCHANGED <<tx, defined, clear, summary, ops>>

\* TransactionEnd: the value of the transaction itself is recorded last.
Final(ok) ==
  LET n      == tx.value
      used   == WithUse(Top.data, <<"balance", Sender>>, BalanceOf(world, Sender) - n)
      gives  == WithDef(used, <<"balance", Sender>>, BalanceOf(world, Sender))
      both   == WithDef(gives, <<"balance", tx.to>>, BalanceOf(world, tx.to))
      all    == WithTransfer(both, EtherTransfer(Sender, tx.to, n))
  IN  IF ok /\ n > 0 THEN [Top EXCEPT !.data = all] ELSE Top

Original(v) == IF v[1] = "slot" THEN tx.before.slot[v[2]] ELSE BalanceOf(tx.before, v[2])

\* The outermost OverallDefs leaves out variables that have not changed.
Changed(vs) == Restrict(vs, {v \in DOMAIN vs : vs[v] # Original(v)})

End(ok) ==
  /\ Len(calls) = 1
  /\ LET o == Overall(Final(ok), ok)
     IN  summary' = [ended |-> TRUE, ok |-> ok, profits |-> o.profits,
                     defs |-> Changed(o.defs), uses |-> o.uses]
  /\ calls' = << >>
  /\ world' = IF ok THEN world ELSE tx.before
  /\ UNCHANGED <<tx, defined, clear, lossy, ops>>

Next ==
  \/ \E n \in Values : Store(n)
  \/ Load
  \/ \E a \in Accounts : ReadBalance(a)
  \/ \E t \in Emitted : Log(t)
  \/ \E op \in {"CALL", "DELEGATECALL"}, to \in Contracts, n \in Amounts : Enter(op, to, n)
  \/ \E n \in Amounts : Refuse(n)
  \/ \E ok \in BOOLEAN : Exit(ok) \/ End(ok)

Spec == Init /\ [][Next]_vars

---------------------------------------------------------------------------
IsVariables(vs) == DOMAIN vs \subseteq Variables /\ vs \in [DOMAIN vs -> Int]
IsData(d) == IsProfits(d.profits) /\ IsVariables(d.defs) /\ IsVariables(d.uses)

\* Every variable keeps its type; the profits of a summary are compact.
TypeOK ==
  /\ world \in World
  /\ tx.to \in Contracts /\ tx.value \in Amounts /\ tx.before = Fresh
  /\ calls \in Seq({calls[i] : i \in DOMAIN calls})
  /\ \A i \in DOMAIN calls :
       /\ DOMAIN calls[i] = {"self", "done", "data", "before"}
       /\ calls[i].self \in Accounts /\ calls[i].before \in World
       /\ IsData(calls[i].done) /\ IsData(calls[i].data)
  /\ defined \subseteq Variables /\ clear \subseteq Accounts
  /\ lossy \in BOOLEAN /\ IsData(summary)
  /\ \A k \in DOMAIN summary.profits : ~ Zero(summary.profits[k])
  /\ ops \in 0..MaxOps

TokensOf(w, a, c) == Cardinality({t \in Tokens : w.owner[<<c, t>>] = a})

FungiblesExact ==
  \A h \in Holdings :
    WorthAt(summary.profits, h) = world.held[h] - tx.before.held[h]

TokensExact ==
  \A a \in Accounts, c \in Collections :
    WorthAt(summary.profits, <<a, c>>)
      = TokensOf(world, a, c) - TokensOf(tx.before, a, c)

\* The profits of a summary (OverallProfits, summary.go:280) are exactly what
\* the accounts have gained and lost, whatever calls were nested and reverted;
\* for token collections as long as no call's profits with tokens were dropped
\* by Compact, which takes as many tokens received as given for none.
ProfitsAreHoldings ==
  summary.ended => FungiblesExact /\ (lossy \/ TokensExact)

\* The slots a summary says were defined (OverallDefs, summary.go:187) are those
\* the transaction has changed, with the values it has left in them.
DefsAreChanges ==
  summary.ended =>
    \A a \in Accounts :
      IF world.slot[a] = tx.before.slot[a] THEN <<"slot", a>> \notin DOMAIN summary.defs
      ELSE /\ <<"slot", a>> \in DOMAIN summary.defs
           /\ summary.defs[<<"slot", a>>] = world.slot[a]

\* A slot among the uses (OverallUses, summary.go:253) has the value it had
\* before the transaction: no use is recorded of what the transaction itself
\* wrote, reverted or not.
UsesAreOriginal ==
  summary.ended =>
    \A a \in Accounts :
      <<"slot", a>> \in DOMAIN summary.uses =>
        summary.uses[<<"slot", a>>] = tx.before.slot[a]

\* "only add def-clear uses" (summary_tracer.go:109), "the overall def-clear
\* read variables" (summary.go:251): a slot that was read while no write to it
\* was in effect is among the uses.
DefClearUses ==
  summary.ended => \A a \in clear : <<"slot", a>> \in DOMAIN summary.uses
=============================================================================
