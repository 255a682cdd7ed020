------------------------------ MODULE Profits ------------------------------
(***************************************************************************)
(* What accounts gain and lose: analysis/summary/profit.go, and the part   *)
(* of transfer.go that turns a transfer into profits.                      *)
(*                                                                         *)
(* A profit belongs to an account and an asset.  Assets are fungible       *)
(* (Ether, an ERC20 or ERC777 contract, one id of an ERC1155 contract),    *)
(* with an amount, or a collection (an ERC721 contract), with the sets of  *)
(* tokens received and given.  Add merges what can be merged, so that a    *)
(* slice built with Add has one profit for an account and an asset:  a     *)
(* Profits slice is a function from such keys to profits.                  *)
(***************************************************************************)
EXTENDS Integers, FiniteSets, Functions

CONSTANTS
  Accounts,     \* beneficiaries
  Fungibles,    \* assets with an amount
  Collections,  \* ERC721 contracts
  Tokens,       \* token ids of the collections
  Ether,        \* the fungible asset that transactions themselves move
  Null          \* the zero address, which mints and burns

ASSUME AssetsAssumption ==
  /\ Ether \in Fungibles
  /\ Fungibles \cap Collections = {}
  /\ Null \notin Accounts
  /\ IsFiniteSet(Tokens)

Assets == Fungibles \cup Collections
Keys   == Accounts \X Assets
Profit == [amount : Int, receive : SUBSET Tokens, give : SUBSET Tokens]

Nothing == [amount |-> 0, receive |-> {}, give |-> {}]
Empty   == [k \in {} |-> Nothing]

IsProfits(ps) == DOMAIN ps \subseteq Keys /\ ps \in [DOMAIN ps -> Profit]

\* What Cmp, Zero and Positive look at:  tokens of a collection count alike.
Worth(p) == p.amount + Cardinality(p.receive) - Cardinality(p.give)
Zero(p)  == Worth(p) = 0

\* The worth of a key, zero for a profit that is not there.
WorthAt(ps, k) == IF k \in DOMAIN ps THEN Worth(ps[k]) ELSE 0

\* Merging: amounts add up; a token received cancels one given before, then
\* a token given cancels one received.  Duplicates are ignored.
Merge(p, q) ==
  LET received == p.receive \cup (q.receive \ p.give)
      given    == p.give \ q.receive
  IN  [amount  |-> p.amount + q.amount,
       receive |-> received \ q.give,
       give    |-> given \cup (q.give \ received)]

\* Add of the profits of another slice: merged with the profit of the same
\* key, or appended.
Add(ps, qs) ==
  [k \in DOMAIN ps \cup DOMAIN qs |->
     IF k \notin DOMAIN qs THEN ps[k]
     ELSE IF k \notin DOMAIN ps THEN qs[k] ELSE Merge(ps[k], qs[k])]

\* A call of Add whose result is dropped.  Merges are written into the slice
\* in place, but what is appended is lost, and so is every merge after an
\* append that moved the slice: some of the common keys are merged.
DroppedAdd(ps, qs) ==
  LET common == DOMAIN ps \cap DOMAIN qs
  IN  {[k \in DOMAIN ps |-> IF k \in M THEN Merge(ps[k], qs[k]) ELSE ps[k]] :
         M \in {M \in SUBSET common :
                  DOMAIN qs \subseteq DOMAIN ps => M = common}}

Compact(ps) == Restrict(ps, {k \in DOMAIN ps : ~ Zero(ps[k])})

ProfitsOf(ps, a) == Restrict(ps, {k \in DOMAIN ps : k[1] = a})

---------------------------------------------------------------------------
\* Comparison.

Sign(n) == IF n > 0 THEN 1 ELSE IF n < 0 THEN -1 ELSE 0

\* A bug that would compare common assets only.
ComparisonsOfCommon(ps, qs) ==
  {Sign(Worth(ps[k]) - Worth(qs[k])) : k \in DOMAIN ps \cap DOMAIN qs}

\* How the profits of one side compare with those of the other, each with
\* the profit of its key or with zero.  An empty side is one ZeroProfit, which
\* is comparable with every profit; since all comparisons of the opposite
\* direction must agree, which one it meets makes no difference.
Comparisons(ps, qs) ==
  IF ps = Empty
  THEN {Sign(0 - Worth(qs[k])) : k \in DOMAIN qs}
  ELSE {Sign(Worth(ps[k]) - WorthAt(qs, k)) : k \in DOMAIN ps}

NotComparable == 2

\* innerCmp: zero results do not count, the others must agree.
InnerCmp(ps, qs) ==
  LET signs == Comparisons(ps, qs) \ {0}
  IN  IF signs = {} THEN 0
      ELSE IF signs = {-1, 1} THEN NotComparable
      ELSE CHOOSE s \in signs : TRUE

\* A bug that would look from one side only.
CmpOneWay(ps, qs) == InnerCmp(Compact(ps), Compact(qs))

Cmp(ps, qs) ==
  LET result  == InnerCmp(Compact(ps), Compact(qs))
      reverse == InnerCmp(Compact(qs), Compact(ps))
  IN  IF NotComparable \notin {result, reverse} /\ result = -reverse
      THEN result ELSE NotComparable

---------------------------------------------------------------------------
\* Transfers.

Transfer ==
  [asset : Fungibles, from : Accounts \cup {Null}, to : Accounts \cup {Null},
   amount : Nat, token : Tokens]
  \cup
  [asset : Collections, from : Accounts \cup {Null}, to : Accounts \cup {Null},
   amount : {0}, token : Tokens]

Given(t) ==
  IF t.asset \in Collections THEN [Nothing EXCEPT !.give = {t.token}]
  ELSE [Nothing EXCEPT !.amount = 0 - t.amount]

Received(t) ==
  IF t.asset \in Collections THEN [Nothing EXCEPT !.receive = {t.token}]
  ELSE [Nothing EXCEPT !.amount = t.amount]

\* Nothing, or one transfer to oneself, moves nothing; a token transfer is
\* never zero.
ZeroTransfer(t) ==
  t.asset \in Fungibles /\ (t.amount = 0 \/ t.from = t.to)

Single(a, asset, p) == [k \in {<<a, asset>>} |-> p]

\* The profits of a transfer, added one after the other: the sender's unless
\* tokens are minted, the receiver's unless they are burnt.
AddTransfer(ps, t) ==
  LET sent == IF t.from = Null THEN ps
              ELSE Add(ps, Single(t.from, t.asset, Given(t)))
  IN  IF ZeroTransfer(t) THEN ps
      ELSE IF t.to = Null THEN sent
      ELSE Add(sent, Single(t.to, t.asset, Received(t)))
=============================================================================
