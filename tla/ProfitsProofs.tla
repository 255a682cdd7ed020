--------------------------- MODULE ProfitsProofs ---------------------------
(***************************************************************************)
(* What merging, adding, compacting and comparing profits means; that      *)
(* CheckOracle reports attacks only and passes over no clear one; and that *)
(* the summary of a transaction accounts for what the transaction has      *)
(* changed.  All for any accounts, assets, transfers and contracts.        *)
(***************************************************************************)
EXTENDS Oracle, TxSummary, FiniteSetTheorems, SequenceTheorems, TLAPS

---------------------------------------------------------------------------
(* Profits.                                                                *)

LEMMA NothingType == Nothing \in Profit
  BY DEF Nothing, Profit

LEMMA WorthType == ASSUME NEW p \in Profit PROVE Worth(p) \in Int
  <1>1. IsFiniteSet(p.receive) /\ IsFiniteSet(p.give)
    BY AssetsAssumption, FS_Subset DEF Profit
  <1>2. Cardinality(p.receive) \in Nat /\ Cardinality(p.give) \in Nat
    BY <1>1, FS_CardinalityType
  <1> QED
    BY <1>2 DEF Worth, Profit

LEMMA MergeType ==
  ASSUME NEW p \in Profit, NEW q \in Profit PROVE Merge(p, q) \in Profit
  BY DEF Merge, Profit

LEMMA AddType ==
  ASSUME NEW ps, NEW qs, IsProfits(ps), IsProfits(qs)
  PROVE  IsProfits(Add(ps, qs))
  BY MergeType DEF IsProfits, Add

LEMMA RestrictType ==
  ASSUME NEW ps, IsProfits(ps), NEW K \in SUBSET DOMAIN ps
  PROVE  IsProfits(Restrict(ps, K)) /\ DOMAIN Restrict(ps, K) = K
  BY DEF IsProfits, Restrict

LEMMA WorthAtType ==
  ASSUME NEW ps, IsProfits(ps), NEW k PROVE WorthAt(ps, k) \in Int
  BY WorthType DEF IsProfits, WorthAt

\* What is left out when slices are compacted is worth nothing.
LEMMA CompactProperties ==
  ASSUME NEW ps, IsProfits(ps)
  PROVE  /\ IsProfits(Compact(ps))
         /\ \A k \in DOMAIN Compact(ps) : ~ Zero(Compact(ps)[k])
         /\ \A k : WorthAt(Compact(ps), k) = WorthAt(ps, k)
  <1> DEFINE K == {k \in DOMAIN ps : ~ Zero(ps[k])}
  <1>1. IsProfits(Compact(ps)) /\ DOMAIN Compact(ps) = K
    BY RestrictType DEF Compact
  <1>2. \A k \in K : Compact(ps)[k] = ps[k]
    BY DEF Compact, Restrict
  <1> QED
    BY <1>1, <1>2 DEF WorthAt, Zero

LEMMA ProfitsOfProperties ==
  ASSUME NEW ps, IsProfits(ps), NEW a
  PROVE  /\ IsProfits(ProfitsOf(ps, a))
         /\ \A k : WorthAt(ProfitsOf(ps, a), k)
                     = IF k[1] = a THEN WorthAt(ps, k) ELSE 0
  <1> DEFINE K == {k \in DOMAIN ps : k[1] = a}
  <1>1. IsProfits(ProfitsOf(ps, a)) /\ DOMAIN ProfitsOf(ps, a) = K
    BY RestrictType DEF ProfitsOf
  <1>2. \A k \in K : ProfitsOf(ps, a)[k] = ps[k]
    BY DEF ProfitsOf, Restrict
  <1> QED
    BY <1>1, <1>2 DEF WorthAt

---------------------------------------------------------------------------
\* What innerCmp says, in one direction.
LEMMA InnerMeaning ==
  ASSUME NEW ps, NEW qs, IsProfits(ps), IsProfits(qs),
         NEW s \in {-1, 1}, InnerCmp(ps, qs) = s
  PROVE  /\ s \in Comparisons(ps, qs) /\ 0 - s \notin Comparisons(ps, qs)
         /\ \A k \in DOMAIN ps : 0 - s # Sign(Worth(ps[k]) - WorthAt(qs, k))
  <1> DEFINE signs == Comparisons(ps, qs) \ {0}
  <1>1. Comparisons(ps, qs) \subseteq {-1, 0, 1}
    BY DEF Comparisons, Sign
  <1>2. signs # {} /\ signs # {-1, 1} /\ s = CHOOSE x \in signs : TRUE
    BY DEF InnerCmp, NotComparable
  <1>3. s \in signs
    BY <1>2
  <1>4. 0 - s \notin Comparisons(ps, qs)
    BY <1>1, <1>2, <1>3
  <1>5. ASSUME NEW k \in DOMAIN ps
        PROVE  0 - s # Sign(Worth(ps[k]) - WorthAt(qs, k))
    <2>1. ps # Empty
      BY <1>5 DEF Empty
    <2> QED
      BY <1>4, <1>5, <2>1 DEF Comparisons
  <1> QED
    BY <1>3, <1>4, <1>5

\* Compact profits that compare as more are more in some asset and less in
\* none.
LEMMA CompactMeaning ==
  ASSUME NEW ps, NEW qs, IsProfits(ps), IsProfits(qs),
         InnerCmp(ps, qs) = 1, InnerCmp(qs, ps) = -1
  PROVE  /\ \A k \in Keys : WorthAt(ps, k) >= WorthAt(qs, k)
         /\ \E k \in Keys : WorthAt(ps, k) > WorthAt(qs, k)
  <1>0. \A k : WorthAt(ps, k) \in Int /\ WorthAt(qs, k) \in Int
    BY WorthAtType
  <1>1. /\ 1 \in Comparisons(ps, qs)
        /\ \A k \in DOMAIN ps : -1 # Sign(Worth(ps[k]) - WorthAt(qs, k))
    BY InnerMeaning
  <1>2. \A k \in DOMAIN qs : 1 # Sign(Worth(qs[k]) - WorthAt(ps, k))
    <2> DEFINE m == -1
    <2>1. m \in {-1, 1} /\ 0 - m = 1 /\ InnerCmp(qs, ps) = m
      OBVIOUS
    <2> HIDE DEF m
    <2>2. \A k \in DOMAIN qs : 0 - m # Sign(Worth(qs[k]) - WorthAt(ps, k))
      BY <2>1, InnerMeaning
    <2> QED
      BY <2>1, <2>2
  <1>3. ASSUME NEW k \in Keys PROVE WorthAt(ps, k) >= WorthAt(qs, k)
    <2>1. CASE k \in DOMAIN ps
      BY <1>0, <1>1, <2>1 DEF Sign, WorthAt
    <2>2. CASE k \in DOMAIN qs
      BY <1>0, <1>2, <2>2 DEF Sign, WorthAt
    <2>3. CASE k \notin DOMAIN ps /\ k \notin DOMAIN qs
      BY <2>3 DEF WorthAt
    <2> QED
      BY <2>1, <2>2, <2>3
  <1>4. \E k \in Keys : WorthAt(ps, k) > WorthAt(qs, k)
    <2>1. CASE ps = Empty
      <3>1. PICK k \in DOMAIN qs : Sign(0 - Worth(qs[k])) = 1
        BY <1>1, <2>1 DEF Comparisons
      <3>2. k \in Keys /\ WorthAt(qs, k) = Worth(qs[k]) /\ WorthAt(ps, k) = 0
        BY <2>1, <3>1 DEF WorthAt, IsProfits, Empty
      <3> QED
        BY <1>0, <3>1, <3>2 DEF Sign
    <2>2. CASE ps # Empty
      <3>1. PICK k \in DOMAIN ps : Sign(Worth(ps[k]) - WorthAt(qs, k)) = 1
        BY <1>1, <2>2 DEF Comparisons
      <3>2. k \in Keys /\ WorthAt(ps, k) = Worth(ps[k])
        BY <3>1 DEF WorthAt, IsProfits
      <3> QED
        BY <1>0, <3>1, <3>2 DEF Sign
    <2> QED
      BY <2>1, <2>2
  <1> QED
    BY <1>3, <1>4

\* Profits compare as more (profit.go:151-194) only if they are more in some
\* asset and less in none; nothing is weighed against anything else.
THEOREM CmpIsDominance ==
  ASSUME NEW ps, NEW qs, IsProfits(ps), IsProfits(qs),
         Cmp(ps, qs) = 1 \/ Cmp(qs, ps) = -1
  PROVE  /\ \A k \in Keys : WorthAt(ps, k) >= WorthAt(qs, k)
         /\ \E k \in Keys : WorthAt(ps, k) > WorthAt(qs, k)
  <1> DEFINE pc == Compact(ps)
             qc == Compact(qs)
  <1>1. /\ IsProfits(pc) /\ \A k : WorthAt(pc, k) = WorthAt(ps, k)
        /\ IsProfits(qc) /\ \A k : WorthAt(qc, k) = WorthAt(qs, k)
    BY CompactProperties
  <1>2. ASSUME NEW x, NEW y
        PROVE  InnerCmp(x, y) \in {-1, 0, 1, NotComparable}
    <2>1. Comparisons(x, y) \subseteq {-1, 0, 1}
      BY DEF Comparisons, Sign
    <2> DEFINE signs == Comparisons(x, y) \ {0}
    <2>2. signs # {} => (CHOOSE s \in signs : TRUE) \in signs
      OBVIOUS
    <2> QED
      BY <2>1, <2>2 DEF InnerCmp
  <1>3. InnerCmp(pc, qc) = 1 /\ InnerCmp(qc, pc) = -1
    BY <1>2 DEF Cmp, NotComparable
  <1> HIDE DEF pc, qc
  <1>4. /\ \A k \in Keys : WorthAt(pc, k) >= WorthAt(qc, k)
        /\ \E k \in Keys : WorthAt(pc, k) > WorthAt(qc, k)
    BY <1>1, <1>3, CompactMeaning
  <1> QED
    BY <1>1, <1>4

\* The same for the profits of one account.
LEMMA AccountCmp ==
  ASSUME NEW ps, NEW qs, IsProfits(ps), IsProfits(qs), NEW a \in Accounts,
         \/ Cmp(ProfitsOf(ps, a), ProfitsOf(qs, a)) = 1
         \/ Cmp(ProfitsOf(qs, a), ProfitsOf(ps, a)) = -1
  PROVE  /\ \A x \in Assets : WorthAt(ps, <<a, x>>) >= WorthAt(qs, <<a, x>>)
         /\ \E x \in Assets : WorthAt(ps, <<a, x>>) > WorthAt(qs, <<a, x>>)
  <1> DEFINE pa == ProfitsOf(ps, a)
             qa == ProfitsOf(qs, a)
  <1>1. /\ IsProfits(pa) /\ IsProfits(qa)
        /\ \A k : WorthAt(pa, k) = IF k[1] = a THEN WorthAt(ps, k) ELSE 0
        /\ \A k : WorthAt(qa, k) = IF k[1] = a THEN WorthAt(qs, k) ELSE 0
    BY ProfitsOfProperties
  <1> HIDE DEF pa, qa
  <1>2. /\ \A k \in Keys : WorthAt(pa, k) >= WorthAt(qa, k)
        /\ \E k \in Keys : WorthAt(pa, k) > WorthAt(qa, k)
    BY <1>1, CmpIsDominance DEF pa, qa
  <1>3. ASSUME NEW x \in Assets
        PROVE  WorthAt(ps, <<a, x>>) >= WorthAt(qs, <<a, x>>)
    BY <1>1, <1>2 DEF Keys
  <1>4. PICK k \in Keys : WorthAt(pa, k) > WorthAt(qa, k)
    BY <1>2
  <1>5. k[1] = a /\ k = <<a, k[2]>> /\ k[2] \in Assets
    BY <1>1, <1>4 DEF Keys
  <1> QED
    BY <1>1, <1>3, <1>4, <1>5

\* The comparisons of two sides when every profit of the one exceeds the other's.
LEMMA AllAbove ==
  ASSUME NEW ps, NEW qs, IsProfits(ps), IsProfits(qs), DOMAIN ps \cup DOMAIN qs # {},
         \A k \in DOMAIN ps \cup DOMAIN qs : WorthAt(ps, k) > WorthAt(qs, k)
  PROVE  InnerCmp(ps, qs) = 1 /\ InnerCmp(qs, ps) = -1
  <1>1. \A k : WorthAt(ps, k) \in Int /\ WorthAt(qs, k) \in Int
    BY WorthAtType
  <1>2. /\ ps = Empty <=> DOMAIN ps = {}
        /\ qs = Empty <=> DOMAIN qs = {}
    BY DEF IsProfits, Empty
  <1>3. Comparisons(ps, qs) = {1}
    <2>1. CASE ps = Empty
      <3>1. \A k \in DOMAIN qs : Sign(0 - Worth(qs[k])) = 1
        <4> TAKE k \in DOMAIN qs
        <4>1. WorthAt(ps, k) = 0 /\ WorthAt(qs, k) = Worth(qs[k]) /\ WorthAt(ps, k) > WorthAt(qs, k)
          BY <1>2, <2>1 DEF WorthAt
        <4>2. Worth(qs[k]) \in Int /\ 0 - Worth(qs[k]) > 0
          BY <1>1, <4>1
        <4> QED
          BY <4>2 DEF Sign
      <3>2. DOMAIN qs # {}
        BY <1>2, <2>1
      <3> QED
        BY <2>1, <3>1, <3>2 DEF Comparisons
    <2>2. CASE ps # Empty
      <3>1. \A k \in DOMAIN ps : Sign(Worth(ps[k]) - WorthAt(qs, k)) = 1
        <4> TAKE k \in DOMAIN ps
        <4>1. WorthAt(ps, k) = Worth(ps[k]) /\ WorthAt(ps, k) > WorthAt(qs, k)
          BY DEF WorthAt
        <4>2. Worth(ps[k]) - WorthAt(qs, k) > 0
          BY <1>1, <4>1
        <4> QED
          BY <4>2 DEF Sign
      <3> QED
        BY <1>2, <2>2, <3>1 DEF Comparisons
    <2> QED
      BY <2>1, <2>2
  <1>4. Comparisons(qs, ps) = {-1}
    <2>1. CASE qs = Empty
      <3>1. \A k \in DOMAIN ps : Sign(0 - Worth(ps[k])) = -1
        <4> TAKE k \in DOMAIN ps
        <4>1. WorthAt(qs, k) = 0 /\ WorthAt(ps, k) = Worth(ps[k]) /\ WorthAt(ps, k) > WorthAt(qs, k)
          BY <1>2, <2>1 DEF WorthAt
        <4>2. Worth(ps[k]) \in Int /\ 0 - Worth(ps[k]) < 0
          BY <1>1, <4>1
        <4> QED
          BY <4>2 DEF Sign
      <3>2. DOMAIN ps # {}
        BY <1>2, <2>1
      <3> QED
        BY <2>1, <3>1, <3>2 DEF Comparisons
    <2>2. CASE qs # Empty
      <3>1. \A k \in DOMAIN qs : Sign(Worth(qs[k]) - WorthAt(ps, k)) = -1
        <4> TAKE k \in DOMAIN qs
        <4>1. WorthAt(qs, k) = Worth(qs[k]) /\ WorthAt(ps, k) > WorthAt(qs, k)
          BY DEF WorthAt
        <4>2. /\ Worth(qs[k]) - WorthAt(ps, k) \in Int
              /\ Worth(qs[k]) - WorthAt(ps, k) < 0
          BY <1>1, <4>1
        <4> QED
          BY <4>2 DEF Sign
      <3> QED
        BY <1>2, <2>2, <3>1 DEF Comparisons
    <2> QED
      BY <2>1, <2>2
  <1> QED
    BY <1>3, <1>4 DEF InnerCmp

LEMMA Negated == ASSUME NEW n \in Int PROVE -n = 0 - n
  OBVIOUS

\* Cmp recognises a side that exceeds the other in every profit that counts.
LEMMA CmpOfAllAbove ==
  ASSUME NEW ps, NEW qs, IsProfits(ps), IsProfits(qs),
         DOMAIN Compact(ps) \cup DOMAIN Compact(qs) # {},
         \A k \in DOMAIN Compact(ps) \cup DOMAIN Compact(qs) : WorthAt(ps, k) > WorthAt(qs, k)
  PROVE  Cmp(ps, qs) = 1 /\ Cmp(qs, ps) = -1
  <1> DEFINE result == InnerCmp(Compact(ps), Compact(qs))
             reverse == InnerCmp(Compact(qs), Compact(ps))
  <1>1. result = 1 /\ reverse = -1
    BY CompactProperties, AllAbove
  <1> HIDE DEF result, reverse
  <1>2. result = -reverse /\ reverse = -result /\ result # 2 /\ reverse # 2
    <2>1. result \in Int /\ reverse \in Int /\ reverse = 0 - 1
      BY <1>1
    <2>2. result = 0 - reverse /\ reverse = 0 - result /\ result # 2 /\ reverse # 2
      BY <1>1, <2>1
    <2> QED
      BY <2>1, <2>2, Negated
  <1>3. Cmp(ps, qs) = result /\ Cmp(qs, ps) = reverse
    BY <1>2 DEF Cmp, NotComparable, result, reverse
  <1> QED
    BY <1>1, <1>3

\* For an account: more in every asset it has to do with on either side.
LEMMA AccountAllAbove ==
  ASSUME NEW ps, NEW qs, IsProfits(ps), IsProfits(qs), NEW a \in Accounts,
         LET touched == {x \in Assets : <<a, x>> \in DOMAIN Compact(ps) \cup DOMAIN Compact(qs)}
         IN  /\ touched # {}
             /\ \A x \in touched : WorthAt(ps, <<a, x>>) > WorthAt(qs, <<a, x>>)
  PROVE  /\ Cmp(ProfitsOf(ps, a), ProfitsOf(qs, a)) = 1
         /\ Cmp(ProfitsOf(qs, a), ProfitsOf(ps, a)) = -1
  <1> DEFINE pa == ProfitsOf(ps, a)
             qa == ProfitsOf(qs, a)
             touched == {x \in Assets : <<a, x>> \in DOMAIN Compact(ps) \cup DOMAIN Compact(qs)}
  <1>1. /\ IsProfits(pa) /\ IsProfits(qa)
        /\ \A x : WorthAt(pa, <<a, x>>) = WorthAt(ps, <<a, x>>)
        /\ \A x : WorthAt(qa, <<a, x>>) = WorthAt(qs, <<a, x>>)
    BY ProfitsOfProperties
  <1>2. ASSUME NEW rs, IsProfits(rs)
        PROVE  DOMAIN Compact(ProfitsOf(rs, a)) = {k \in DOMAIN Compact(rs) : k[1] = a}
    BY DEF Compact, ProfitsOf, Restrict, IsProfits
  <1>3. ASSUME NEW k, k \in DOMAIN Compact(ps) \cup DOMAIN Compact(qs), k[1] = a
        PROVE  \E x \in touched : k = <<a, x>>
    <2>1. k \in Keys
      BY <1>3 DEF Compact, Restrict, IsProfits
    <2>2. k = <<a, k[2]>> /\ k[2] \in Assets
      BY <1>3, <2>1 DEF Keys
    <2> QED
      BY <1>3, <2>2
  <1>4. \A x \in touched : <<a, x>> \in DOMAIN Compact(pa) \cup DOMAIN Compact(qa)
    BY <1>2
  <1>5. \A k \in DOMAIN Compact(pa) \cup DOMAIN Compact(qa) : WorthAt(pa, k) > WorthAt(qa, k)
    <2> TAKE k \in DOMAIN Compact(pa) \cup DOMAIN Compact(qa)
    <2>1. PICK x \in touched : k = <<a, x>>
      BY <1>2, <1>3
    <2> QED
      BY <1>1, <2>1
  <1>6. DOMAIN Compact(pa) \cup DOMAIN Compact(qa) # {}
    BY <1>4
  <1> HIDE DEF pa, qa
  <1> QED
    BY <1>1, <1>5, <1>6, CmpOfAllAbove DEF pa, qa

\* What transfers have to be for profits and the world to keep their types.
IsTransfer(t) ==
  /\ t.asset \in Assets /\ t.amount \in Int
  /\ t.from \in Accounts \cup {Null} /\ t.to \in Accounts \cup {Null}
  /\ t.asset \in Collections => t.token \in Tokens

LEMMA SingleType ==
  ASSUME NEW a \in Accounts, NEW x \in Assets, NEW p \in Profit
  PROVE  IsProfits(Single(a, x, p))
  BY DEF IsProfits, Single, Keys

LEMMA AddTransferType ==
  ASSUME NEW ps, IsProfits(ps), NEW t, IsTransfer(t)
  PROVE  IsProfits(AddTransfer(ps, t))
  <1>1. Given(t) \in Profit /\ Received(t) \in Profit
    BY DEF Given, Received, IsTransfer, Profit, Nothing
  <1> DEFINE sent == IF t.from = Null THEN ps ELSE Add(ps, Single(t.from, t.asset, Given(t)))
  <1>2. t.from # Null => IsProfits(Single(t.from, t.asset, Given(t)))
    BY <1>1, SingleType DEF IsTransfer
  <1>3. t.to # Null => IsProfits(Single(t.to, t.asset, Received(t)))
    BY <1>1, SingleType DEF IsTransfer
  <1>4. IsProfits(sent)
    BY <1>2, AddType
  <1>5. AddTransfer(ps, t) = IF ZeroTransfer(t) THEN ps
                             ELSE IF t.to = Null THEN sent
                             ELSE Add(sent, Single(t.to, t.asset, Received(t)))
    BY DEF AddTransfer
  <1> HIDE DEF sent
  <1>6. t.to # Null => IsProfits(Add(sent, Single(t.to, t.asset, Received(t))))
    BY <1>3, <1>4, AddType
  <1> QED
    BY <1>4, <1>5, <1>6

LEMMA TransferIsTransfer ==
  ASSUME NEW t \in Transfer PROVE IsTransfer(t)
  BY AssetsAssumption DEF Transfer, IsTransfer, Assets

---------------------------------------------------------------------------
(* The oracle.                                                             *)

\* Every variable of the oracle keeps its type (OracleTypeOK).
THEOREM OracleTypeCorrect == OracleSpec => []OracleTypeOK
  <1>1. OracleInit => OracleTypeOK
    <2> SUFFICES ASSUME OracleInit PROVE OracleTypeOK
      OBVIOUS
    <2>1. IsProfits(Empty) /\ DOMAIN Empty = {}
      BY DEF IsProfits, Empty
    <2>2. \A s \in Summaries : overall[s] = Empty
      BY DEF OracleInit
    <2>3. DOMAIN overall = Summaries /\ made \in 0 .. MaxTransfers
      BY OracleAssumption DEF OracleInit
    <2>4. verdict = Pending
      BY DEF OracleInit
    <2> QED
      BY <2>1, <2>2, <2>3, <2>4 DEF OracleTypeOK, Summaries
  <1>2. OracleTypeOK /\ [OracleNext]_oracleVars => OracleTypeOK'
    <2> SUFFICES ASSUME OracleTypeOK, [OracleNext]_oracleVars PROVE OracleTypeOK'
      OBVIOUS
    <2>1. ASSUME NEW s \in Summaries, NEW t \in Transfers, Make(s, t)
          PROVE  OracleTypeOK'
      <3> DEFINE added == AddTransfer(overall[s], t)
      <3>1. IsProfits(added)
        BY OracleAssumption, TransferIsTransfer, AddTransferType DEF OracleTypeOK
      <3>2. /\ IsProfits(Compact(added))
            /\ \A k \in DOMAIN Compact(added) : ~ Zero(Compact(added)[k])
        BY <3>1, CompactProperties
      <3>3. overall' = [overall EXCEPT ![s] = Compact(added)]
        BY <2>1 DEF Make
      <3> HIDE DEF added
      <3>4. /\ DOMAIN overall' = Summaries
            /\ \A r \in Summaries : /\ IsProfits(overall'[r])
                                    /\ \A k \in DOMAIN overall'[r] : ~ Zero(overall'[r][k])
        BY <3>2, <3>3 DEF OracleTypeOK
      <3>5. ~ triple' => overall'["profit"] = Empty /\ overall'["profitAsIf"] = Empty
        BY <2>1, <3>3 DEF OracleTypeOK, Make, Summaries
      <3>6. made' \in 0 .. MaxTransfers
        BY <2>1, OracleAssumption DEF OracleTypeOK, Make
      <3> QED
        BY <2>1, <3>4, <3>5, <3>6 DEF OracleTypeOK, Make
    <2>2. CASE Check
      <3>1. verdict' \in {Pending, Missed}
                            \cup {Attack(a, v) : a \in Attackers, v \in Victims}
        BY <2>2 DEF Check, Gaining, Losing
      <3> QED
        BY <2>2, <3>1 DEF OracleTypeOK, Check
    <2>3. CASE UNCHANGED oracleVars
      BY <2>3 DEF OracleTypeOK, oracleVars
    <2> QED
      BY <2>1, <2>2, <2>3 DEF OracleNext
  <1> QED
    BY <1>1, <1>2, PTL DEF OracleSpec

\* A pair that is reported is an attack (ReportedIsAttack): CheckOracle never
\* reports an attacker that loses in any asset, or a victim that gains in one.
THEOREM ReportedIsAttackHolds == OracleSpec => []ReportedIsAttack
  <1>1. OracleInit => ReportedIsAttack
    BY DEF OracleInit, ReportedIsAttack, Pending
  <1>2. OracleTypeOK /\ ReportedIsAttack /\ [OracleNext]_oracleVars => ReportedIsAttack'
    <2> SUFFICES ASSUME OracleTypeOK, ReportedIsAttack, [OracleNext]_oracleVars
                 PROVE  ReportedIsAttack'
      OBVIOUS
    <2>1. ASSUME NEW s \in Summaries, NEW t \in Transfers, Make(s, t)
          PROVE  ReportedIsAttack'
      BY <2>1 DEF Make, Pending, ReportedIsAttack
    <2>2. CASE Check
      <3> SUFFICES ASSUME verdict'.state = "attack", ~ triple
                   PROVE  ReportedIsAttack'
        BY <2>2 DEF Check, ReportedIsAttack
      <3>1. PICK a \in Gaining(overall["attack"]), v \in Losing :
                   verdict' = Attack(a, v)
        BY <2>2 DEF Check, AttackTxProfits, Missed
      <3>2. a \in Accounts /\ v \in Accounts
        BY <3>1, OracleAssumption DEF Gaining, Losing
      <3>3. \A s \in Summaries : IsProfits(overall[s])
        BY DEF OracleTypeOK
      <3>4. /\ \A x \in Assets : WorthAt(overall["attack"], <<a, x>>)
                                   >= WorthAt(overall["attackAsIf"], <<a, x>>)
            /\ \E x \in Assets : WorthAt(overall["attack"], <<a, x>>)
                                   > WorthAt(overall["attackAsIf"], <<a, x>>)
        BY <3>1, <3>2, <3>3, AccountCmp
           DEF Gaining, AttackTxAsIfProfits, Summaries
      <3>5. /\ \A x \in Assets : WorthAt(overall["victimAsIf"], <<v, x>>)
                                   >= WorthAt(overall["victim"], <<v, x>>)
            /\ \E x \in Assets : WorthAt(overall["victimAsIf"], <<v, x>>)
                                   > WorthAt(overall["victim"], <<v, x>>)
        BY <3>1, <3>2, <3>3, AccountCmp DEF Losing, Summaries
      <3>6. \A k : GainOf("profit", "profitAsIf", k) = 0
        BY DEF OracleTypeOK, GainOf, WorthAt, Empty
      <3>7. \A k : /\ WorthAt(overall["attack"], k) \in Int
                  /\ WorthAt(overall["attackAsIf"], k) \in Int
                  /\ WorthAt(overall["victim"], k) \in Int
                  /\ WorthAt(overall["victimAsIf"], k) \in Int
        BY <3>3, WorthAtType DEF Summaries
      <3>8. ASSUME NEW x
            PROVE  /\ AttackGain(a, x) = WorthAt(overall["attack"], <<a, x>>)
                                           - WorthAt(overall["attackAsIf"], <<a, x>>)
                   /\ VictimGain(v, x) = WorthAt(overall["victim"], <<v, x>>)
                                           - WorthAt(overall["victimAsIf"], <<v, x>>)
        <4>1. GainOf("profit", "profitAsIf", <<a, x>>) = 0
          BY <3>6
        <4>2. GainOf("attack", "attackAsIf", <<a, x>>) \in Int
          BY <3>7 DEF GainOf
        <4> QED
          BY <4>1, <4>2 DEF AttackGain, VictimGain, GainOf
      <3>9. ASSUME NEW x \in Assets
            PROVE  /\ AttackGain(a, x) >= 0 /\ VictimGain(v, x) =< 0
                   /\ WorthAt(overall["attack"], <<a, x>>)
                        > WorthAt(overall["attackAsIf"], <<a, x>>)
                      => AttackGain(a, x) > 0
                   /\ WorthAt(overall["victimAsIf"], <<v, x>>)
                        > WorthAt(overall["victim"], <<v, x>>)
                      => VictimGain(v, x) < 0
        <4> DEFINE p == WorthAt(overall["attack"], <<a, x>>)
                   q == WorthAt(overall["attackAsIf"], <<a, x>>)
                   r == WorthAt(overall["victim"], <<v, x>>)
                   s == WorthAt(overall["victimAsIf"], <<v, x>>)
        <4>1. p \in Int /\ q \in Int /\ r \in Int /\ s \in Int
          BY <3>7
        <4>2. p >= q /\ s >= r
          BY <3>4, <3>5
        <4>3. AttackGain(a, x) = p - q /\ VictimGain(v, x) = r - s
          BY <3>8
        <4> HIDE DEF p, q, r, s
        <4>4. p - q >= 0 /\ r - s =< 0 /\ (p > q => p - q > 0) /\ (s > r => r - s < 0)
          BY <4>1, <4>2
        <4> QED
          BY <4>3, <4>4 DEF p, q, r, s
      <3>10. /\ \E x \in Assets : AttackGain(a, x) > 0
             /\ \E x \in Assets : VictimGain(v, x) < 0
        BY <3>4, <3>5, <3>9
      <3>11. /\ verdict'.attacker = a /\ verdict'.victim = v
             /\ overall' = overall /\ triple' = triple
        BY <2>2, <3>1 DEF Attack, Check
      <3> QED
        BY <3>9, <3>10, <3>11
           DEF ReportedIsAttack, AttackGain, VictimGain, GainOf
    <2>3. CASE UNCHANGED oracleVars
      BY <2>3 DEF ReportedIsAttack, oracleVars, AttackGain, VictimGain, GainOf
    <2> QED
      BY <2>1, <2>2, <2>3 DEF OracleNext
  <1> QED
    BY <1>1, <1>2, OracleTypeCorrect, PTL DEF OracleSpec

\* An account that is clearly better off is compared so, whichever way round.
LEMMA ClearlyMoreCmp ==
  ASSUME OracleTypeOK, NEW real \in Summaries, NEW asIf \in Summaries, NEW a \in Accounts,
         ClearlyMore(real, asIf, a)
  PROVE  /\ Cmp(ProfitsOf(overall[real], a), ProfitsOf(overall[asIf], a)) = 1
         /\ Cmp(ProfitsOf(overall[asIf], a), ProfitsOf(overall[real], a)) = -1
  <1> DEFINE ps == overall[real]
             qs == overall[asIf]
  <1>1. IsProfits(ps) /\ IsProfits(qs)
    BY DEF OracleTypeOK
  <1>2. DOMAIN Compact(ps) = DOMAIN ps /\ DOMAIN Compact(qs) = DOMAIN qs
    BY DEF OracleTypeOK, Compact, Restrict
  <1>3. {x \in Assets : <<a, x>> \in DOMAIN Compact(ps) \cup DOMAIN Compact(qs)}
          = Touched(real, asIf, a)
    BY <1>2 DEF Touched
  <1>4. \A x \in Touched(real, asIf, a) : WorthAt(ps, <<a, x>>) > WorthAt(qs, <<a, x>>)
    <2> TAKE x \in Touched(real, asIf, a)
    <2>1. WorthAt(ps, <<a, x>>) \in Int /\ WorthAt(qs, <<a, x>>) \in Int
      BY <1>1, WorthAtType
    <2>2. WorthAt(ps, <<a, x>>) - WorthAt(qs, <<a, x>>) > 0
      BY DEF ClearlyMore, GainOf
    <2> QED
      BY <2>1, <2>2
  <1>5. Touched(real, asIf, a) # {}
    BY DEF ClearlyMore
  <1> HIDE DEF ps, qs
  <1> QED
    BY <1>1, <1>3, <1>4, <1>5, AccountAllAbove DEF ps, qs

\* A pair that is passed over is not a clear attack (MissedIsUnclear): CheckOracle
\* never misses an attacker that gains, with a victim that loses, in every asset
\* they have to do with.
THEOREM MissedIsUnclearHolds == OracleSpec => []MissedIsUnclear
  <1>1. OracleInit => MissedIsUnclear
    BY DEF OracleInit, MissedIsUnclear, Pending, Missed
  <1>2. OracleTypeOK /\ MissedIsUnclear /\ [OracleNext]_oracleVars => MissedIsUnclear'
    <2> SUFFICES ASSUME OracleTypeOK, MissedIsUnclear, [OracleNext]_oracleVars
                 PROVE  MissedIsUnclear'
      OBVIOUS
    <2>1. ASSUME NEW s \in Summaries, NEW t \in Transfers, Make(s, t)
          PROVE  MissedIsUnclear'
      BY <2>1 DEF Make, Pending, Missed, MissedIsUnclear
    <2>2. CASE Check
      <3> SUFFICES ASSUME verdict' = Missed, ~ triple,
                          NEW a \in Attackers, NEW v \in Victims,
                          ClearlyMore("attack", "attackAsIf", a),
                          ClearlyMore("victimAsIf", "victim", v)
                   PROVE  FALSE
        BY <2>2 DEF Check, MissedIsUnclear, ClearlyMore, Touched, GainOf
      <3>1. Gaining(overall["attack"]) = {} \/ Losing = {}
        BY <2>2 DEF Check, AttackTxProfits, Missed, Attack
      <3>2. a \in Accounts /\ v \in Accounts
        BY OracleAssumption
      <3>3. a \in Gaining(overall["attack"])
        BY <3>2, ClearlyMoreCmp DEF Gaining, AttackTxAsIfProfits, Summaries
      <3>4. v \in Losing
        BY <3>2, ClearlyMoreCmp DEF Losing, Summaries
      <3> QED
        BY <3>1, <3>3, <3>4
    <2>3. CASE UNCHANGED oracleVars
      BY <2>3 DEF MissedIsUnclear, oracleVars, ClearlyMore, Touched, GainOf
    <2> QED
      BY <2>1, <2>2, <2>3 DEF OracleNext
  <1> QED
    BY <1>1, <1>2, OracleTypeCorrect, PTL DEF OracleSpec

---------------------------------------------------------------------------
(* Profits as changes of holdings.                                         *)

\* The profit of a key, nothing for one that is not there.
At(ps, k) == IF k \in DOMAIN ps THEN ps[k] ELSE Nothing

\* What an account holds of an asset in a world.
HeldAt(w, k) == IF k[2] \in Fungibles THEN w.held[k] ELSE 0
Owned(w, k) ==
  IF k[2] \in Collections THEN {t \in Tokens : w.owner[<<k[2], t>>] = k[1]} ELSE {}

\* The profit that takes a holding of n and the tokens S to m and U.
Change(n, S, m, U) == [amount |-> m - n, receive |-> U \ S, give |-> S \ U]

Moved(ps, w, u, k) == At(ps, k) = Change(HeldAt(w, k), Owned(w, k), HeldAt(u, k), Owned(u, k))

LEMMA ChangeType ==
  ASSUME NEW n \in Int, NEW S \in SUBSET Tokens, NEW m \in Int, NEW U \in SUBSET Tokens
  PROVE  Change(n, S, m, U) \in Profit
  BY DEF Change, Profit

LEMMA NoChange ==
  ASSUME NEW n \in Int, NEW S \in SUBSET Tokens, NEW m \in Int, NEW U \in SUBSET Tokens
  PROVE  Change(n, S, m, U) = Nothing <=> n = m /\ S = U
  <1> DEFINE p == Change(n, S, m, U)
  <1>1. /\ p.amount = m - n /\ p.receive = U \ S /\ p.give = S \ U
        /\ p = [amount |-> m - n, receive |-> U \ S, give |-> S \ U]
    BY DEF Change
  <1>2. Nothing.amount = 0 /\ Nothing.receive = {} /\ Nothing.give = {}
    BY DEF Nothing
  <1>3. ASSUME p = Nothing PROVE n = m /\ S = U
    <2>1. m - n = 0
      BY <1>1, <1>2, <1>3
    <2>2. U \ S = {} /\ S \ U = {}
      BY <1>1, <1>2, <1>3
    <2> QED
      BY <2>1, <2>2
  <1>4. ASSUME n = m, S = U PROVE p = Nothing
    <2>1. m - n = 0 /\ U \ S = {} /\ S \ U = {}
      BY <1>4
    <2> QED
      BY <1>1, <2>1 DEF Nothing
  <1> QED
    BY <1>3, <1>4

\* Merging two changes is the change from the first state to the last.
LEMMA MergeChanges ==
  ASSUME NEW n \in Int, NEW S \in SUBSET Tokens, NEW m \in Int, NEW U \in SUBSET Tokens,
         NEW k \in Int, NEW V \in SUBSET Tokens
  PROVE  Merge(Change(n, S, m, U), Change(m, U, k, V)) = Change(n, S, k, V)
  <1> DEFINE p == Change(n, S, m, U)
             q == Change(m, U, k, V)
             received == p.receive \cup (q.receive \ p.give)
             given    == p.give \ q.receive
  <1>1. /\ p.amount = m - n /\ p.receive = U \ S /\ p.give = S \ U
        /\ q.amount = k - m /\ q.receive = V \ U /\ q.give = U \ V
    BY DEF Change
  <1>2. p.amount + q.amount = k - n
    BY <1>1
  <1>3. received = (U \cup V) \ S
    BY <1>1
  <1>4. received \ q.give = V \ S
    BY <1>1, <1>3
  <1>5. given \cup (q.give \ received) = S \ V
    BY <1>1, <1>3
  <1> QED
    BY <1>2, <1>4, <1>5 DEF Merge, Change

LEMMA AddChanges ==
  ASSUME NEW ps, NEW qs, NEW x,
         NEW n \in Int, NEW S \in SUBSET Tokens, NEW m \in Int, NEW U \in SUBSET Tokens,
         NEW k \in Int, NEW V \in SUBSET Tokens,
         At(ps, x) = Change(n, S, m, U), At(qs, x) = Change(m, U, k, V)
  PROVE  At(Add(ps, qs), x) = Change(n, S, k, V)
  <1>1. CASE x \in DOMAIN ps /\ x \in DOMAIN qs
    <2>1. At(Add(ps, qs), x) = Merge(At(ps, x), At(qs, x))
      BY <1>1 DEF At, Add
    <2> QED
      BY <2>1, MergeChanges
  <1>2. CASE x \notin DOMAIN qs
    <2>1. At(Add(ps, qs), x) = At(ps, x) /\ At(qs, x) = Nothing
      BY <1>2 DEF At, Add
    <2>2. Change(m, U, k, V) = Nothing <=> m = k /\ U = V
      BY NoChange
    <2> QED
      BY <2>1, <2>2
  <1>3. CASE x \notin DOMAIN ps /\ x \in DOMAIN qs
    <2>1. At(Add(ps, qs), x) = At(qs, x) /\ At(ps, x) = Nothing
      BY <1>3 DEF At, Add
    <2>2. Change(n, S, m, U) = Nothing <=> n = m /\ S = U
      BY NoChange
    <2> QED
      BY <2>1, <2>2
  <1> QED
    BY <1>1, <1>2, <1>3

\* Compacting leaves a change as it is, or finds it without any effect, or
\* drops tokens.
LEMMA CompactChange ==
  ASSUME NEW ps, IsProfits(ps), NEW x,
         NEW n \in Int, NEW S \in SUBSET Tokens, NEW m \in Int, NEW U \in SUBSET Tokens,
         n = m \/ S = U,
         At(ps, x) = Change(n, S, m, U)
  PROVE  \/ At(Compact(ps), x) = Change(n, S, m, U)
         \/ x \in DOMAIN ps /\ Zero(ps[x]) /\ ps[x].give # {}
  <1> DEFINE K == {k \in DOMAIN ps : ~ Zero(ps[k])}
  <1>1. DOMAIN Compact(ps) = K /\ \A k \in K : Compact(ps)[k] = ps[k]
    BY DEF Compact, Restrict
  <1>2. CASE x \in K
    BY <1>1, <1>2 DEF At
  <1>3. CASE x \notin DOMAIN ps
    BY <1>1, <1>3 DEF At
  <1>4. CASE x \in DOMAIN ps /\ Zero(ps[x]) /\ ps[x].give = {}
    <2>1. ps[x] = Change(n, S, m, U) /\ ps[x] \in Profit
      BY <1>4 DEF At, IsProfits
    <2>2. /\ ps[x].amount = m - n /\ ps[x].receive = U \ S /\ ps[x].give = S \ U
      BY <2>1 DEF Change
    <2>3. IsFiniteSet(U \ S)
      BY AssetsAssumption, FS_Subset
    <2>4. Cardinality(U \ S) \in Nat /\ Cardinality({}) = 0 /\ (Cardinality(U \ S) = 0 <=> U \ S = {})
      BY <2>3, FS_CardinalityType, FS_EmptySet
    <2>5. (m - n) + Cardinality(U \ S) - 0 = 0
      BY <1>4, <2>2, <2>4 DEF Zero, Worth
    <2>7. S \ U = {}
      BY <1>4, <2>2
    <2>6. m = n /\ U \ S = {}
      <3>1. CASE n = m
        <4>1. Cardinality(U \ S) = 0
          BY <2>4, <2>5, <3>1
        <4> QED
          BY <2>4, <4>1, <3>1
      <3>2. CASE S = U
        <4>1. U \ S = {}
          BY <3>2
        <4>2. m - n = 0
          BY <2>4, <2>5, <4>1
        <4> QED
          BY <4>1, <4>2
      <3> QED
        BY <3>1, <3>2
    <2>8. At(Compact(ps), x) = Nothing
      BY <1>1, <1>4 DEF At
    <2> QED
      BY <2>6, <2>7, <2>8, NoChange
  <1> QED
    BY <1>2, <1>3, <1>4

\* What a change is worth.
LEMMA WorthOfChange ==
  ASSUME NEW n \in Int, NEW S \in SUBSET Tokens, NEW m \in Int, NEW U \in SUBSET Tokens
  PROVE  Worth(Change(n, S, m, U)) = (m - n) + Cardinality(U) - Cardinality(S)
  <1>1. IsFiniteSet(S) /\ IsFiniteSet(U) /\ IsFiniteSet(U \ S) /\ IsFiniteSet(S \ U) /\ IsFiniteSet(S \cap U)
    BY AssetsAssumption, FS_Subset
  <1>2. /\ Cardinality(S) \in Nat /\ Cardinality(U) \in Nat
        /\ Cardinality(U \ S) \in Nat /\ Cardinality(S \ U) \in Nat
        /\ Cardinality(S \cap U) \in Nat
    BY <1>1, FS_CardinalityType
  <1>3. /\ Cardinality(U \ S) = Cardinality(U) - Cardinality(U \cap S)
        /\ Cardinality(S \ U) = Cardinality(S) - Cardinality(S \cap U)
    BY <1>1, FS_Difference
  <1>4. U \cap S = S \cap U
    OBVIOUS
  <1>5. Cardinality(U \ S) - Cardinality(S \ U) = Cardinality(U) - Cardinality(S)
    <2>1. \A a, b, c \in Int : (a - c) - (b - c) = a - b
      OBVIOUS
    <2>2. Cardinality(U \ S) = Cardinality(U) - Cardinality(S \cap U)
      BY <1>3, <1>4
    <2> QED
      BY <1>2, <1>3, <2>1, <2>2
  <1>6. Worth(Change(n, S, m, U)) = (m - n) + Cardinality(U \ S) - Cardinality(S \ U)
    BY DEF Worth, Change
  <1> QED
    BY <1>2, <1>5, <1>6

LEMMA WorthAtIsWorth ==
  ASSUME NEW ps, NEW k PROVE WorthAt(ps, k) = Worth(At(ps, k))
  <1>1. Cardinality({}) = 0
    BY FS_EmptySet
  <1> QED
    BY <1>1 DEF WorthAt, At, Worth, Nothing

---------------------------------------------------------------------------
(* Worlds and transfers.                                                   *)

LEMMA KeyParts ==
  ASSUME NEW k \in Keys
  PROVE  /\ k = <<k[1], k[2]>> /\ k[1] \in Accounts /\ k[2] \in Assets /\ k[1] # Null
         /\ k[2] \in Collections <=> k[2] \notin Fungibles
         /\ k[2] \in Fungibles <=> k \in Holdings
  BY AssetsAssumption DEF Keys, Assets, Holdings

LEMMA WorldParts ==
  ASSUME NEW w \in World
  PROVE  /\ w.held \in [Holdings -> Int]
         /\ w.owner \in [Collections \X Tokens -> Accounts \cup {Null}]
         /\ w.slot \in [Accounts -> Values]
         /\ w.written \in SUBSET Accounts
  BY DEF World

LEMMA HoldingType ==
  ASSUME NEW w \in World, NEW k \in Keys
  PROVE  HeldAt(w, k) \in Int /\ Owned(w, k) \in SUBSET Tokens
  BY KeyParts, WorldParts DEF HeldAt, Owned

LEMMA ApplyType ==
  ASSUME NEW w \in World, NEW t, IsTransfer(t)
  PROVE  Apply(w, t) \in World /\ Apply(w, t).slot = w.slot
  <1>1. CASE t.asset \in Collections
    <2>1. [w.owner EXCEPT ![<<t.asset, t.token>>] = t.to] \in [Collections \X Tokens -> Accounts \cup {Null}]
      BY <1>1, WorldParts DEF IsTransfer
    <2>2. Apply(w, t) = [held |-> w.held, owner |-> [w.owner EXCEPT ![<<t.asset, t.token>>] = t.to],
                         slot |-> w.slot, written |-> w.written]
      BY <1>1 DEF Apply, World
    <2> QED
      BY <2>1, <2>2, WorldParts DEF World
  <1>2. CASE t.asset \notin Collections
    <2>0. ASSUME NEW k \in Holdings PROVE w.held[k] + Delta(t, k) \in Int
      BY WorldParts DEF Delta, IsTransfer
    <2>1. [k \in Holdings |-> w.held[k] + Delta(t, k)] \in [Holdings -> Int]
      BY <2>0
    <2>2. Apply(w, t) = [held |-> [k \in Holdings |-> w.held[k] + Delta(t, k)], owner |-> w.owner,
                         slot |-> w.slot, written |-> w.written]
      BY <1>2 DEF Apply, World
    <2> QED
      BY <2>1, <2>2, WorldParts DEF World
  <1> QED
    BY <1>1, <1>2

\* A transfer of a fungible asset moves amounts.
LEMMA ApplyFungible ==
  ASSUME NEW w \in World, NEW t, IsTransfer(t), t.asset \notin Collections, NEW k \in Keys
  PROVE  /\ HeldAt(Apply(w, t), k) =
              (HeldAt(w, k) - (IF k = <<t.from, t.asset>> THEN t.amount ELSE 0))
                 + (IF k = <<t.to, t.asset>> THEN t.amount ELSE 0)
         /\ Owned(Apply(w, t), k) = Owned(w, k)
  <1>1. Apply(w, t).owner = w.owner
    BY DEF Apply, World
  <1>2. CASE k[2] \in Fungibles
    <2>1. k \in Holdings
      BY <1>2, KeyParts
    <2>2. Apply(w, t).held[k] = w.held[k] + Delta(t, k)
      BY <2>1 DEF Apply, World
    <2>3. w.held[k] \in Int /\ t.amount \in Int
      BY <2>1, WorldParts DEF IsTransfer
    <2> QED
      BY <1>1, <1>2, <2>2, <2>3 DEF HeldAt, Owned, Delta
  <1>3. CASE k[2] \notin Fungibles
    <2>1. k # <<t.from, t.asset>> /\ k # <<t.to, t.asset>>
      BY <1>3 DEF IsTransfer, Assets
    <2> QED
      BY <1>1, <1>3, <2>1 DEF HeldAt, Owned
  <1> QED
    BY <1>2, <1>3

\* A transfer of a token moves it.
LEMMA ApplyToken ==
  ASSUME NEW w \in World, NEW t, IsTransfer(t), t.asset \in Collections, Possible(w, t), NEW k \in Keys
  PROVE  /\ HeldAt(Apply(w, t), k) = HeldAt(w, k)
         /\ Owned(Apply(w, t), k) =
              (Owned(w, k) \ (IF k = <<t.from, t.asset>> THEN {t.token} ELSE {}))
                 \cup (IF k = <<t.to, t.asset>> THEN {t.token} ELSE {})
         /\ k = <<t.from, t.asset>> => t.token \in Owned(w, k)
         /\ k = <<t.to, t.asset>> /\ k # <<t.from, t.asset>> => t.token \notin Owned(w, k)
  <1>1. Apply(w, t).held = w.held
    BY DEF Apply, World
  <1>2. Apply(w, t).owner = [w.owner EXCEPT ![<<t.asset, t.token>>] = t.to]
    BY DEF Apply, World
  <1>3. w.owner[<<t.asset, t.token>>] = t.from
    BY DEF Possible
  <1>4. k = <<k[1], k[2]>>
    BY KeyParts
  <1>5. t.token \in Tokens /\ <<t.asset, t.token>> \in DOMAIN w.owner
    BY WorldParts DEF IsTransfer
  <1>6. CASE k[2] = t.asset
    <2>1. /\ Owned(w, k) = {x \in Tokens : w.owner[<<k[2], x>>] = k[1]}
          /\ Owned(Apply(w, t), k) = {x \in Tokens : Apply(w, t).owner[<<k[2], x>>] = k[1]}
      BY <1>6 DEF Owned
    <2>2. \A x \in Tokens : Apply(w, t).owner[<<k[2], x>>]
                              = IF x = t.token THEN t.to ELSE w.owner[<<k[2], x>>]
      BY <1>2, <1>5, <1>6, WorldParts
    <2>3. \A y : k = <<y, t.asset>> <=> k[1] = y
      BY <1>4, <1>6
    <2> QED
      BY <1>1, <1>3, <1>5, <1>6, <2>1, <2>2, <2>3 DEF HeldAt
  <1>7. CASE k[2] # t.asset
    <2>1. k # <<t.from, t.asset>> /\ k # <<t.to, t.asset>>
      BY <1>7
    <2>2. \A x : Apply(w, t).owner[<<k[2], x>>] = w.owner[<<k[2], x>>] \/ <<k[2], x>> \notin DOMAIN w.owner
      BY <1>2, <1>7
    <2>3. Owned(Apply(w, t), k) = Owned(w, k)
      BY <2>2, WorldParts DEF Owned
    <2> QED
      BY <1>1, <2>1, <2>3 DEF HeldAt
  <1> QED
    BY <1>6, <1>7

LEMMA AtSingle ==
  ASSUME NEW a, NEW x, NEW p, NEW k
  PROVE  At(Single(a, x, p), k) = IF k = <<a, x>> THEN p ELSE Nothing
  BY DEF At, Single

LEMMA GivenIsChange ==
  ASSUME NEW t, IsTransfer(t), NEW n \in Int, NEW S \in SUBSET Tokens
  PROVE  /\ t.asset \notin Collections => Given(t) = Change(n, S, n - t.amount, S)
         /\ t.asset \in Collections /\ t.token \in S => Given(t) = Change(n, S, n, S \ {t.token})
         /\ t.asset \notin Collections => Received(t) = Change(n, S, n + t.amount, S)
         /\ t.asset \in Collections /\ t.token \notin S => Received(t) = Change(n, S, n, S \cup {t.token})
  <1>1. /\ (n - t.amount) - n = 0 - t.amount /\ (n + t.amount) - n = t.amount /\ n - n = 0
        /\ S \ S = {}
    BY DEF IsTransfer
  <1>2. ASSUME t.token \in S
        PROVE  (S \ {t.token}) \ S = {} /\ S \ (S \ {t.token}) = {t.token}
    BY <1>2
  <1>3. ASSUME t.token \notin S
        PROVE  (S \cup {t.token}) \ S = {t.token} /\ S \ (S \cup {t.token}) = {}
    BY <1>3
  <1> QED
    BY <1>1, <1>2, <1>3 DEF Given, Received, Nothing, Change

\* Adding a possible transfer to profits takes them to the world after it.
LEMMA TransferChange ==
  ASSUME NEW w \in World, NEW t, IsTransfer(t), Possible(w, t) \/ t.asset \notin Collections,
         NEW k \in Keys, NEW ps, NEW n \in Int, NEW S \in SUBSET Tokens,
         At(ps, k) = Change(n, S, HeldAt(w, k), Owned(w, k))
  PROVE  At(AddTransfer(ps, t), k) = Change(n, S, HeldAt(Apply(w, t), k), Owned(Apply(w, t), k))
  <1> DEFINE isFrom == k = <<t.from, t.asset>>
             isTo   == k = <<t.to, t.asset>>
             token  == t.asset \in Collections
             H      == HeldAt(w, k)
             O      == Owned(w, k)
             m      == IF token THEN H ELSE H - (IF isFrom THEN t.amount ELSE 0)
             U      == IF token THEN O \ (IF isFrom THEN {t.token} ELSE {}) ELSE O
             h      == HeldAt(Apply(w, t), k)
             V      == Owned(Apply(w, t), k)
             sent   == IF t.from = Null THEN ps ELSE Add(ps, Single(t.from, t.asset, Given(t)))
  <1>1. H \in Int /\ O \in SUBSET Tokens /\ h \in Int /\ V \in SUBSET Tokens
    BY HoldingType, ApplyType
  <1>2. m \in Int /\ U \in SUBSET Tokens /\ t.amount \in Int
    BY <1>1 DEF IsTransfer
  <1>3. /\ t.from = Null => ~ isFrom
        /\ t.to = Null => ~ isTo
    BY KeyParts
  <1>4. isFrom => Given(t) = Change(H, O, m, U)
    <2>1. CASE token
      <3>1. isFrom => t.token \in O /\ m = H /\ U = O \ {t.token}
        BY <2>1, ApplyToken
      <3> HIDE DEF m, U, H, O
      <3>2. t.token \in O => Given(t) = Change(H, O, H, O \ {t.token})
        BY <1>1, <2>1, GivenIsChange
      <3> QED
        BY <3>1, <3>2
    <2>2. CASE ~ token
      <3>1. isFrom => m = H - t.amount /\ U = O
        BY <2>2
      <3> HIDE DEF m, U, H, O
      <3>2. Given(t) = Change(H, O, H - t.amount, O)
        BY <1>1, <2>2, GivenIsChange
      <3> QED
        BY <3>1, <3>2
    <2> QED
      BY <2>1, <2>2
  <1>5. isTo => Received(t) = Change(m, U, h, V)
    <2>1. CASE token
      <3>1. isTo => t.token \notin U /\ V = U \cup {t.token} /\ h = m
        BY <2>1, ApplyToken
      <3> HIDE DEF m, U, h, V
      <3>2. t.token \notin U => Received(t) = Change(m, U, m, U \cup {t.token})
        BY <1>2, <2>1, GivenIsChange
      <3> QED
        BY <3>1, <3>2
    <2>2. CASE ~ token
      <3>1. isTo => V = U /\ h = m + t.amount
        BY <2>2, ApplyFungible
      <3> HIDE DEF m, U, h, V
      <3>2. Received(t) = Change(m, U, m + t.amount, U)
        BY <1>2, <2>2, GivenIsChange
      <3> QED
        BY <3>1, <3>2
    <2> QED
      BY <2>1, <2>2
  <1>6. ~ isFrom => m = H /\ U = O
    BY <1>1
  <1>7. ~ isTo => h = m /\ V = U
    <2>1. CASE token
      BY <2>1, ApplyToken
    <2>2. CASE ~ token
      BY <1>2, <2>2, ApplyFungible
    <2> QED
      BY <2>1, <2>2
  <1> HIDE DEF m, U, h, V, H, O
  <1>8. At(ps, k) = Change(n, S, H, O)
    BY DEF H, O
  <1>9. At(sent, k) = Change(n, S, m, U)
    <2>1. CASE t.from = Null
      BY <1>3, <1>6, <1>8, <2>1
    <2>2. CASE t.from # Null
      <3> DEFINE qs == Single(t.from, t.asset, Given(t))
      <3>1. At(qs, k) = IF isFrom THEN Given(t) ELSE Nothing
        BY AtSingle
      <3>2. At(qs, k) = Change(H, O, m, U)
        BY <1>1, <1>2, <1>4, <1>6, <3>1, NoChange
      <3>3. sent = Add(ps, qs)
        BY <2>2
      <3> HIDE DEF qs
      <3>4. At(Add(ps, qs), k) = Change(n, S, m, U)
        BY <1>1, <1>2, <1>8, <3>2, AddChanges
      <3> QED
        BY <3>3, <3>4
    <2> QED
      BY <2>1, <2>2
  <1>10. CASE ~ ZeroTransfer(t)
    <2>1. CASE t.to = Null
      <3>1. AddTransfer(ps, t) = sent
        BY <1>10, <2>1 DEF AddTransfer
      <3> HIDE DEF sent
      <3> QED
        BY <1>3, <1>7, <1>9, <2>1, <3>1 DEF h, V
    <2>2. CASE t.to # Null
      <3> DEFINE rs == Single(t.to, t.asset, Received(t))
      <3>1. At(rs, k) = IF isTo THEN Received(t) ELSE Nothing
        BY AtSingle
      <3>2. At(rs, k) = Change(m, U, h, V)
        BY <1>1, <1>2, <1>5, <1>7, <3>1, NoChange
      <3>3. AddTransfer(ps, t) = Add(sent, rs)
        BY <1>10, <2>2 DEF AddTransfer
      <3> HIDE DEF rs, sent
      <3>4. At(Add(sent, rs), k) = Change(n, S, h, V)
        BY <1>1, <1>2, <1>9, <3>2, AddChanges
      <3> QED
        BY <3>3, <3>4 DEF h, V
    <2> QED
      BY <2>1, <2>2
  <1>11. CASE ZeroTransfer(t)
    <2>1. AddTransfer(ps, t) = ps
      BY <1>11 DEF AddTransfer
    <2>2. ~ token
      BY <1>11, AssetsAssumption DEF ZeroTransfer
    <2>3. t.amount = 0 \/ isFrom = isTo
      BY <1>11 DEF ZeroTransfer
    <2>4. V = O /\ h = (H - (IF isFrom THEN t.amount ELSE 0)) + (IF isTo THEN t.amount ELSE 0)
      BY <2>2, ApplyFungible DEF V, O, h, H
    <2>5. h = H
      BY <1>1, <1>2, <2>3, <2>4
    <2> QED
      BY <1>8, <2>1, <2>4, <2>5 DEF h, V
  <1> QED
    BY <1>10, <1>11

---------------------------------------------------------------------------
(* Data of calls.                                                          *)

ProfitLists   == UNION {[K -> Profit] : K \in SUBSET Keys}
VariableLists == UNION {[V -> Int] : V \in SUBSET Variables}

Data == [profits : ProfitLists, defs : VariableLists, uses : VariableLists]

Call == [self : Accounts, done : Data, data : Data, before : World]

LEMMA ProfitList == ASSUME NEW ps PROVE ps \in ProfitLists <=> IsProfits(ps)
  <1>1. ASSUME ps \in ProfitLists PROVE IsProfits(ps)
    BY <1>1 DEF ProfitLists, IsProfits
  <1>2. ASSUME IsProfits(ps) PROVE ps \in ProfitLists
    BY <1>2 DEF ProfitLists, IsProfits
  <1> QED
    BY <1>1, <1>2

LEMMA VariableList == ASSUME NEW vs PROVE vs \in VariableLists <=> IsVariables(vs)
  <1>1. ASSUME vs \in VariableLists PROVE IsVariables(vs)
    BY <1>1 DEF VariableLists, IsVariables
  <1>2. ASSUME IsVariables(vs) PROVE vs \in VariableLists
    BY <1>2 DEF VariableLists, IsVariables
  <1> QED
    BY <1>1, <1>2

\* The value of a slot, as definitions say and as it was.
SlotMoved(vs, w, u, a) ==
  u.slot[a] = IF <<"slot", a>> \in DOMAIN vs THEN vs[<<"slot", a>>] ELSE w.slot[a]

\* The data of a call, or of a part of it, tells how the world u has come of
\* the world w; with l, nothing is said of tokens.
Follows(d, w, u, l) ==
  /\ \A k \in Keys : (l /\ k[2] \in Collections) \/ Moved(d.profits, w, u, k)
  /\ \A a \in Accounts : SlotMoved(d.defs, w, u, a)

LEMMA OverrideType ==
  ASSUME NEW vs \in VariableLists, NEW ws \in VariableLists
  PROVE  /\ Override(vs, ws) \in VariableLists
         /\ DOMAIN Override(vs, ws) = DOMAIN vs \cup DOMAIN ws
         /\ \A v \in DOMAIN Override(vs, ws) :
              Override(vs, ws)[v] = IF v \in DOMAIN ws THEN ws[v] ELSE vs[v]
  <1>1. IsVariables(vs) /\ IsVariables(ws)
    BY VariableList
  <1>2. IsVariables(Override(vs, ws))
    BY <1>1 DEF IsVariables, Override
  <1> QED
    BY <1>2, VariableList DEF Override

LEMMA VariableType ==
  ASSUME NEW v \in Variables, NEW n \in Int
  PROVE  /\ Variable(v, n) \in VariableLists /\ DOMAIN Variable(v, n) = {v} /\ Variable(v, n)[v] = n
         /\ UseOf(v, n) \in VariableLists
         /\ DOMAIN UseOf(v, n) = IF v \in defined THEN {} ELSE {v}
         /\ v \notin defined => UseOf(v, n)[v] = n
  <1>1. IsVariables(Variable(v, n)) /\ DOMAIN Variable(v, n) = {v} /\ Variable(v, n)[v] = n
    BY DEF IsVariables, Variable
  <1>2. IsVariables(Empty) /\ DOMAIN Empty = {}
    BY DEF IsVariables, Empty
  <1> QED
    BY <1>1, <1>2, VariableList DEF UseOf

LEMMA EmptyTypes ==
  /\ Empty \in ProfitLists /\ Empty \in VariableLists /\ DOMAIN Empty = {}
  /\ NoData \in Data
  <1>1. IsVariables(Empty) /\ IsProfits(Empty) /\ DOMAIN Empty = {}
    BY DEF IsVariables, IsProfits, Empty
  <1> QED
    BY <1>1, ProfitList, VariableList DEF NoData, Data

LEMMA FoldType ==
  ASSUME NEW d \in Data, NEW e \in Data PROVE Fold(d, e) \in Data
  <1>1. /\ d.profits \in ProfitLists /\ d.defs \in VariableLists /\ d.uses \in VariableLists
        /\ e.profits \in ProfitLists /\ e.defs \in VariableLists /\ e.uses \in VariableLists
    BY DEF Data
  <1>2. Add(d.profits, e.profits) \in ProfitLists
    BY <1>1, ProfitList, AddType
  <1>3. Override(d.defs, e.defs) \in VariableLists /\ IfAbsent(d.uses, e.uses) \in VariableLists
    BY <1>1, OverrideType DEF IfAbsent
  <1> QED
    BY <1>2, <1>3 DEF Fold, Data

LEMMA FollowsFold ==
  ASSUME NEW d \in Data, NEW e \in Data, NEW w \in World, NEW v \in World, NEW u \in World,
         NEW l, Follows(d, w, v, l), Follows(e, v, u, l)
  PROVE  Follows(Fold(d, e), w, u, l)
  <1>1. ASSUME NEW k \in Keys, ~ (l /\ k[2] \in Collections)
        PROVE  Moved(Fold(d, e).profits, w, u, k)
    <2>1. Moved(d.profits, w, v, k) /\ Moved(e.profits, v, u, k)
      BY <1>1 DEF Follows
    <2>2. /\ HeldAt(w, k) \in Int /\ Owned(w, k) \in SUBSET Tokens
          /\ HeldAt(v, k) \in Int /\ Owned(v, k) \in SUBSET Tokens
          /\ HeldAt(u, k) \in Int /\ Owned(u, k) \in SUBSET Tokens
      BY HoldingType
    <2>3. Moved(Add(d.profits, e.profits), w, u, k)
      BY <2>1, <2>2, AddChanges DEF Moved
    <2> QED
      BY <2>3 DEF Fold
  <1>2. ASSUME NEW a \in Accounts PROVE SlotMoved(Fold(d, e).defs, w, u, a)
    <2>1. SlotMoved(d.defs, w, v, a) /\ SlotMoved(e.defs, v, u, a)
      BY DEF Follows
    <2>2. d.defs \in VariableLists /\ e.defs \in VariableLists
      BY DEF Data
    <2>3. SlotMoved(Override(d.defs, e.defs), w, u, a)
      <3> DEFINE x == <<"slot", a>>
                 o == Override(d.defs, e.defs)
      <3>1. DOMAIN o = DOMAIN d.defs \cup DOMAIN e.defs
        BY <2>2, OverrideType
      <3>0. \A y \in DOMAIN o : o[y] = IF y \in DOMAIN e.defs THEN e.defs[y] ELSE d.defs[y]
        BY <2>2, OverrideType
      <3>2. x \in DOMAIN o => o[x] = IF x \in DOMAIN e.defs THEN e.defs[x] ELSE d.defs[x]
        BY <3>0
      <3>3. /\ v.slot[a] = IF x \in DOMAIN d.defs THEN d.defs[x] ELSE w.slot[a]
            /\ u.slot[a] = IF x \in DOMAIN e.defs THEN e.defs[x] ELSE v.slot[a]
        BY <2>1 DEF SlotMoved
      <3> HIDE DEF x, o
      <3>4. u.slot[a] = IF x \in DOMAIN o THEN o[x] ELSE w.slot[a]
        BY <3>1, <3>2, <3>3
      <3> QED
        BY <3>4 DEF SlotMoved, x, o
    <2> QED
      BY <2>3 DEF Fold
  <1> QED
    BY <1>1, <1>2 DEF Follows

LEMMA FollowsNothing ==
  ASSUME NEW w \in World, NEW l PROVE Follows(NoData, w, w, l)
  <1>1. ASSUME NEW k \in Keys PROVE Moved(Empty, w, w, k)
    <2>1. HeldAt(w, k) \in Int /\ Owned(w, k) \in SUBSET Tokens
      BY HoldingType
    <2>2. At(Empty, k) = Nothing
      BY EmptyTypes DEF At
    <2> QED
      BY <2>1, <2>2, NoChange DEF Moved
  <1>2. ASSUME NEW a \in Accounts PROVE SlotMoved(Empty, w, w, a)
    BY EmptyTypes DEF SlotMoved
  <1> QED
    BY <1>1, <1>2 DEF Follows, NoData

LEMMA FollowsWeaken ==
  ASSUME NEW d, NEW w, NEW u, NEW l, NEW m, l => m, Follows(d, w, u, l)
  PROVE  Follows(d, w, u, m)
  BY DEF Follows

LEMMA UseFollows ==
  ASSUME NEW d \in Data, NEW v \in Variables, NEW n \in Int
  PROVE  /\ WithUse(d, v, n) \in Data
         /\ WithUse(d, v, n).profits = d.profits /\ WithUse(d, v, n).defs = d.defs
         /\ WithUse(d, v, n).uses = IfAbsent(d.uses, UseOf(v, n))
         /\ \A w, u, l : Follows(d, w, u, l) => Follows(WithUse(d, v, n), w, u, l)
  <1>1. d.profits \in ProfitLists /\ d.defs \in VariableLists /\ d.uses \in VariableLists
    BY DEF Data
  <1>2. IfAbsent(d.uses, UseOf(v, n)) \in VariableLists
    BY <1>1, VariableType, OverrideType DEF IfAbsent
  <1>3. WithUse(d, v, n) = [profits |-> d.profits, defs |-> d.defs, uses |-> IfAbsent(d.uses, UseOf(v, n))]
    BY DEF WithUse, Data
  <1> QED
    BY <1>1, <1>2, <1>3 DEF Data, Follows

LEMMA DefParts ==
  ASSUME NEW d \in Data, NEW v \in Variables, NEW n \in Int
  PROVE  /\ WithDef(d, v, n) \in Data
         /\ WithDef(d, v, n).profits = d.profits /\ WithDef(d, v, n).uses = d.uses
         /\ DOMAIN WithDef(d, v, n).defs = DOMAIN d.defs \cup {v}
         /\ \A x \in DOMAIN WithDef(d, v, n).defs :
              WithDef(d, v, n).defs[x] = IF x = v THEN n ELSE d.defs[x]
  <1>1. d.profits \in ProfitLists /\ d.defs \in VariableLists /\ d.uses \in VariableLists
    BY DEF Data
  <1> DEFINE q == Variable(v, n)
             o == Override(d.defs, q)
  <1>2. /\ o \in VariableLists /\ DOMAIN o = DOMAIN d.defs \cup {v}
        /\ \A x \in DOMAIN o : o[x] = IF x = v THEN n ELSE d.defs[x]
    <2>1. q \in VariableLists /\ DOMAIN q = {v} /\ q[v] = n
      BY VariableType
    <2> HIDE DEF q
    <2>2. /\ o \in VariableLists /\ DOMAIN o = DOMAIN d.defs \cup DOMAIN q
          /\ \A x \in DOMAIN o : o[x] = IF x \in DOMAIN q THEN q[x] ELSE d.defs[x]
      BY <1>1, <2>1, OverrideType
    <2> HIDE DEF o
    <2> QED
      BY <2>1, <2>2
  <1>3. WithDef(d, v, n) = [profits |-> d.profits, defs |-> o, uses |-> d.uses]
    BY DEF WithDef, Data
  <1> HIDE DEF o
  <1> QED
    BY <1>1, <1>2, <1>3 DEF Data

\* A definition of a slot follows a write of it, one of a balance nothing.
LEMMA SlotDefFollows ==
  ASSUME NEW d \in Data, NEW a \in Accounts, NEW n \in Int, NEW w, NEW u, NEW l, NEW x,
         x.held = u.held, x.owner = u.owner,
         \A b \in Accounts : x.slot[b] = IF b = a THEN n ELSE u.slot[b],
         Follows(d, w, u, l)
  PROVE  Follows(WithDef(d, <<"slot", a>>, n), w, x, l)
  <1> DEFINE e == WithDef(d, <<"slot", a>>, n)
  <1>1. <<"slot", a>> \in Variables
    BY DEF Variables, Slots
  <1>2. /\ e.profits = d.profits
        /\ DOMAIN e.defs = DOMAIN d.defs \cup {<<"slot", a>>}
        /\ \A y \in DOMAIN e.defs : e.defs[y] = IF y = <<"slot", a>> THEN n ELSE d.defs[y]
    BY <1>1, DefParts
  <1> HIDE DEF e
  <1>3. ASSUME NEW k \in Keys, ~ (l /\ k[2] \in Collections) PROVE Moved(e.profits, w, x, k)
    BY <1>2, <1>3 DEF Follows, Moved, HeldAt, Owned
  <1>4. ASSUME NEW b \in Accounts PROVE SlotMoved(e.defs, w, x, b)
    <2>1. SlotMoved(d.defs, w, u, b)
      BY DEF Follows
    <2>2. <<"slot", b>> = <<"slot", a>> <=> b = a
      OBVIOUS
    <2> QED
      BY <1>2, <2>1, <2>2 DEF SlotMoved
  <1>5. Follows(e, w, x, l)
    BY <1>3, <1>4 DEF Follows
  <1> QED
    BY <1>5 DEF e

LEMMA BalanceDefFollows ==
  ASSUME NEW d \in Data, NEW a \in Accounts, NEW n \in Int, NEW w, NEW u, NEW l, Follows(d, w, u, l)
  PROVE  Follows(WithDef(d, <<"balance", a>>, n), w, u, l)
  <1> DEFINE e == WithDef(d, <<"balance", a>>, n)
  <1>1. <<"balance", a>> \in Variables
    BY DEF Variables, Balances
  <1>2. /\ e.profits = d.profits
        /\ DOMAIN e.defs = DOMAIN d.defs \cup {<<"balance", a>>}
        /\ \A y \in DOMAIN e.defs : e.defs[y] = IF y = <<"balance", a>> THEN n ELSE d.defs[y]
    BY <1>1, DefParts
  <1> HIDE DEF e
  <1>3. ASSUME NEW k \in Keys, ~ (l /\ k[2] \in Collections) PROVE Moved(e.profits, w, u, k)
    BY <1>2, <1>3 DEF Follows
  <1>4. ASSUME NEW b \in Accounts PROVE SlotMoved(e.defs, w, u, b)
    <2>1. SlotMoved(d.defs, w, u, b)
      BY DEF Follows
    <2>2. <<"slot", b>> # <<"balance", a>>
      OBVIOUS
    <2> QED
      BY <1>2, <2>1, <2>2 DEF SlotMoved
  <1>5. Follows(e, w, u, l)
    BY <1>3, <1>4 DEF Follows
  <1> QED
    BY <1>5 DEF e

LEMMA TransferFollows ==
  ASSUME NEW d \in Data, NEW w \in World, NEW u \in World, NEW l, NEW t, IsTransfer(t),
         Possible(u, t) \/ t.asset \notin Collections, Follows(d, w, u, l)
  PROVE  Follows(WithTransfer(d, t), w, Apply(u, t), l)
  <1>1. /\ WithTransfer(d, t).profits = AddTransfer(d.profits, t)
        /\ WithTransfer(d, t).defs = d.defs
    BY DEF WithTransfer, Data
  <1>2. ASSUME NEW k \in Keys, ~ (l /\ k[2] \in Collections)
        PROVE  Moved(WithTransfer(d, t).profits, w, Apply(u, t), k)
    <2>1. Moved(d.profits, w, u, k)
      BY <1>2 DEF Follows
    <2>2. HeldAt(w, k) \in Int /\ Owned(w, k) \in SUBSET Tokens
      BY HoldingType
    <2>3. Moved(AddTransfer(d.profits, t), w, Apply(u, t), k)
      BY <2>1, <2>2, TransferChange DEF Moved
    <2> QED
      BY <1>1, <2>3
  <1>3. ASSUME NEW a \in Accounts PROVE SlotMoved(WithTransfer(d, t).defs, w, Apply(u, t), a)
    BY <1>1, ApplyType DEF Follows, SlotMoved
  <1> QED
    BY <1>2, <1>3 DEF Follows

LEMMA TransferData ==
  ASSUME NEW d \in Data, NEW t, IsTransfer(t)
  PROVE  /\ WithTransfer(d, t) \in Data
         /\ WithTransfer(d, t).uses = d.uses /\ WithTransfer(d, t).defs = d.defs
  <1>1. d.profits \in ProfitLists /\ d.defs \in VariableLists /\ d.uses \in VariableLists
    BY DEF Data
  <1>2. AddTransfer(d.profits, t) \in ProfitLists
    BY <1>1, ProfitList, AddTransferType
  <1>3. WithTransfer(d, t) = [profits |-> AddTransfer(d.profits, t), defs |-> d.defs, uses |-> d.uses]
    BY DEF WithTransfer, Data
  <1> QED
    BY <1>1, <1>2, <1>3 DEF Data

\* The overall values of a call: they follow its execution, except where
\* compacting drops tokens, and nothing if it has failed.
LEMMA OverallParts ==
  ASSUME NEW c \in Call, NEW ok \in BOOLEAN
  PROVE  /\ Overall(c, ok) \in Data
         /\ Overall(c, ok).uses = Fold(c.done, c.data).uses
         /\ ok => /\ Overall(c, ok).profits = Compact(Fold(c.done, c.data).profits)
                  /\ Overall(c, ok).defs = Fold(c.done, c.data).defs
         /\ ~ ok => Overall(c, ok).profits = Empty /\ Overall(c, ok).defs = Empty
  <1> DEFINE whole == Fold(c.done, c.data)
  <1>1. whole \in Data
    BY FoldType DEF Call
  <1> HIDE DEF whole
  <1>2. whole.profits \in ProfitLists /\ whole.defs \in VariableLists /\ whole.uses \in VariableLists
    BY <1>1 DEF Data
  <1>3. Compact(whole.profits) \in ProfitLists
    BY <1>2, ProfitList, CompactProperties
  <1>4. Overall(c, ok) = [profits |-> IF ok THEN Compact(whole.profits) ELSE Empty,
                          defs    |-> IF ok THEN whole.defs ELSE Empty,
                          uses    |-> whole.uses]
    BY <1>1 DEF Overall, whole, Data
  <1>5. Overall(c, ok) \in Data
    BY <1>2, <1>3, <1>4, EmptyTypes DEF Data
  <1> QED
    BY <1>4, <1>5 DEF whole

LEMMA OverallFollows ==
  ASSUME NEW c \in Call, NEW w \in World, NEW u \in World, NEW l, NEW m,
         l => m, Loses(c, TRUE) => m, Follows(Fold(c.done, c.data), w, u, l)
  PROVE  Follows(Overall(c, TRUE), w, u, m)
  <1> DEFINE whole == Fold(c.done, c.data)
             ps    == whole.profits
  <1>1. whole \in Data
    BY FoldType DEF Call
  <1>2. IsProfits(ps)
    BY <1>1, ProfitList DEF Data
  <1>3. Loses(c, TRUE) <=> \E k \in DOMAIN ps : Zero(ps[k]) /\ ps[k].give # {}
    BY DEF Loses
  <1>4. Overall(c, TRUE).profits = Compact(ps) /\ Overall(c, TRUE).defs = whole.defs
    BY OverallParts
  <1>5. ASSUME NEW k \in Keys, ~ (m /\ k[2] \in Collections)
        PROVE  Moved(Compact(ps), w, u, k)
    <2>1. Moved(ps, w, u, k)
      BY <1>5 DEF Follows
    <2>2. /\ HeldAt(w, k) \in Int /\ Owned(w, k) \in SUBSET Tokens
          /\ HeldAt(u, k) \in Int /\ Owned(u, k) \in SUBSET Tokens
      BY HoldingType
    <2>3. /\ k[2] \notin Collections => Owned(w, k) = {} /\ Owned(u, k) = {}
          /\ k[2] \in Collections => HeldAt(w, k) = 0 /\ HeldAt(u, k) = 0
      BY AssetsAssumption DEF Owned, HeldAt
    <2>4. At(ps, k) = Change(HeldAt(w, k), Owned(w, k), HeldAt(u, k), Owned(u, k))
      BY <2>1 DEF Moved
    <2>5. ASSUME k \in DOMAIN ps, Zero(ps[k]), ps[k].give # {} PROVE FALSE
      <3>1. Loses(c, TRUE)
        BY <1>3, <2>5
      <3>2. k[2] \notin Collections
        BY <1>5, <3>1
      <3>3. ps[k].give = Owned(w, k) \ Owned(u, k)
        BY <2>4, <2>5 DEF At, Change
      <3> QED
        BY <2>3, <2>5, <3>2, <3>3
    <2> HIDE DEF ps
    <2>6. At(Compact(ps), k) = Change(HeldAt(w, k), Owned(w, k), HeldAt(u, k), Owned(u, k))
      BY <1>2, <2>2, <2>3, <2>4, <2>5, CompactChange
    <2> QED
      BY <2>6 DEF Moved
  <1>6. ASSUME NEW a \in Accounts PROVE SlotMoved(whole.defs, w, u, a)
    BY DEF Follows
  <1> QED
    BY <1>4, <1>5, <1>6 DEF Follows

LEMMA FailureFollows ==
  ASSUME NEW c \in Call, NEW w \in World, NEW l
  PROVE  Follows(Overall(c, FALSE), w, w, l)
  <1>1. Overall(c, FALSE).profits = NoData.profits /\ Overall(c, FALSE).defs = NoData.defs
    BY OverallParts DEF NoData
  <1> QED
    BY <1>1, FollowsNothing DEF Follows

---------------------------------------------------------------------------
(* The open calls.                                                         *)

\* The uses of slots have the values the slots had at first.
Zeros(vs) == \A a \in Accounts : <<"slot", a>> \in DOMAIN vs => vs[<<"slot", a>>] = 0

\* The world when the part of a call that its data tells of has ended: that
\* before the call it has made, or the present one.
After(cs, w, i) == IF i = Len(cs) THEN w ELSE cs[i + 1].before

\* What is done and the current segment of a call follow its execution.
Frame(c, u, l) ==
  \E mid \in World : Follows(c.done, c.before, mid, l) /\ Follows(c.data, mid, u, l)

\* The open calls, in the present world, with l if tokens have been dropped,
\* when the variables D were ever defined.
StackOK(cs, w, l, D) ==
  /\ cs \in Seq(Call) /\ w \in World
  /\ \A i \in 1..Len(cs) : Frame(cs[i], After(cs, w, i), l)
  /\ \A i \in 1..Len(cs) : i # Len(cs) => cs[i].data = NoData
  /\ \A i \in 1..Len(cs) : Zeros(cs[i].done.uses) /\ Zeros(cs[i].data.uses)
  /\ \A a \in Accounts : <<"slot", a>> \notin D =>
       w.slot[a] = 0 /\ \A i \in 1..Len(cs) : cs[i].before.slot[a] = 0

LEMMA CallParts ==
  ASSUME NEW cs \in Seq(Call)
  PROVE  /\ Len(cs) \in Nat /\ DOMAIN cs = 1..Len(cs)
         /\ \A i \in 1..Len(cs) :
              /\ cs[i] \in Call /\ cs[i].self \in Accounts /\ cs[i].before \in World
              /\ cs[i].done \in Data /\ cs[i].data \in Data
  <1>1. \A i \in 1..Len(cs) : cs[i] \in Call
    BY ElementOfSeq
  <1> QED
    BY <1>1, LenProperties DEF Call

LEMMA ZerosOverride ==
  ASSUME NEW vs \in VariableLists, NEW ws \in VariableLists, Zeros(vs), Zeros(ws)
  PROVE  Zeros(Override(vs, ws)) /\ Zeros(IfAbsent(vs, ws))
  <1>1. ASSUME NEW xs \in VariableLists, NEW ys \in VariableLists, Zeros(xs), Zeros(ys)
        PROVE  Zeros(Override(xs, ys))
    <2> DEFINE o == Override(xs, ys)
    <2>1. /\ DOMAIN o = DOMAIN xs \cup DOMAIN ys
          /\ \A v \in DOMAIN o : o[v] = IF v \in DOMAIN ys THEN ys[v] ELSE xs[v]
      BY OverrideType
    <2> HIDE DEF o
    <2>2. Zeros(o)
      BY <1>1, <2>1 DEF Zeros
    <2> QED
      BY <2>2 DEF o
  <1> QED
    BY <1>1 DEF IfAbsent

LEMMA ZerosFold ==
  ASSUME NEW d \in Data, NEW e \in Data, Zeros(d.uses), Zeros(e.uses)
  PROVE  Zeros(Fold(d, e).uses)
  <1>1. d.uses \in VariableLists /\ e.uses \in VariableLists
    BY DEF Data
  <1> QED
    BY <1>1, ZerosOverride DEF Fold

\* The current call goes on.
LEMMA TopChanges ==
  ASSUME NEW cs, NEW w, NEW l, NEW D, StackOK(cs, w, l, D), cs # << >>,
         NEW d \in Data, NEW x \in World, NEW E, D \subseteq E,
         \A m \in World : Follows(cs[Len(cs)].data, m, w, l) => Follows(d, m, x, l),
         Zeros(d.uses),
         \A a \in Accounts : <<"slot", a>> \notin E => x.slot[a] = w.slot[a]
  PROVE  StackOK([cs EXCEPT ![Len(cs)].data = d], x, l, E)
  <1> DEFINE n == Len(cs)
             ds == [cs EXCEPT ![n].data = d]
             top == [cs[n] EXCEPT !.data = d]
  <1>1. cs \in Seq(Call)
    BY DEF StackOK
  <1>2. n \in Nat /\ n # 0 /\ n \in 1..n
    BY <1>1, CallParts, EmptySeq
  <1>3. cs[n] \in Call /\ \A i \in 1..n : cs[i] \in Call
    BY <1>1, <1>2, CallParts
  <1>4. /\ top \in Call /\ top.done = cs[n].done /\ top.data = d /\ top.before = cs[n].before
    BY <1>3 DEF Call
  <1>5. ds = [cs EXCEPT ![n] = top]
    OBVIOUS
  <1> HIDE DEF n, top
  <1>6. ds \in Seq(Call) /\ Len(ds) = n /\ \A i \in 1..n : ds[i] = IF i = n THEN top ELSE cs[i]
    <2>1. n \in 1..Len(cs) /\ top \in Call /\ Len(cs) = n
      BY <1>2, <1>4 DEF n
    <2> QED
      BY <1>1, <1>5, <2>1, ExceptSeq
  <1> HIDE DEF ds
  <1>7. ASSUME NEW i \in 1..n PROVE Frame(ds[i], After(ds, x, i), l)
    <2>1. Frame(cs[i], After(cs, w, i), l)
      BY DEF StackOK, n
    <2>2. CASE i = n
      <3>1. After(cs, w, n) = w /\ After(ds, x, n) = x
        BY <1>6 DEF After, n
      <3>2. PICK mid \in World : Follows(cs[n].done, cs[n].before, mid, l) /\ Follows(cs[n].data, mid, w, l)
        BY <2>1, <2>2, <3>1 DEF Frame
      <3>3. Follows(d, mid, x, l)
        BY <3>2 DEF n
      <3>4. Frame(top, x, l)
        BY <1>4, <3>2, <3>3 DEF Frame
      <3> QED
        BY <1>6, <2>2, <3>1, <3>4
    <2>3. CASE i # n
      <3>1. i + 1 \in 1..n /\ ds[i] = cs[i]
        BY <1>2, <1>6, <2>3
      <3>2. ds[i + 1].before = cs[i + 1].before
        BY <1>4, <1>6, <3>1
      <3>3. After(ds, x, i) = After(cs, w, i)
        BY <1>6, <2>3, <3>2 DEF After, n
      <3> QED
        BY <2>1, <3>1, <3>3
    <2> QED
      BY <2>2, <2>3
  <1>8. ASSUME NEW i \in 1..n, i # n PROVE ds[i].data = NoData
    BY <1>6, <1>8 DEF StackOK, n
  <1>9. ASSUME NEW i \in 1..n PROVE Zeros(ds[i].done.uses) /\ Zeros(ds[i].data.uses)
    BY <1>2, <1>4, <1>6 DEF StackOK, n
  <1>10. ASSUME NEW a \in Accounts, <<"slot", a>> \notin E
         PROVE  x.slot[a] = 0 /\ \A i \in 1..n : ds[i].before.slot[a] = 0
    <2>1. w.slot[a] = 0 /\ \A i \in 1..n : cs[i].before.slot[a] = 0
      BY <1>10 DEF StackOK, n
    <2> QED
      BY <1>2, <1>4, <1>6, <1>10, <2>1
  <1>11. StackOK(ds, x, l, E)
    BY <1>6, <1>7, <1>8, <1>9, <1>10 DEF StackOK
  <1> QED
    BY <1>11 DEF ds, n

\* The callers when a call is made, or has closed.
Opened(cs, d) == [cs EXCEPT ![Len(cs)].done = Fold(@, d), ![Len(cs)].data = NoData]
Closed(cs, o) == [SubSeq(cs, 1, Len(cs) - 1) EXCEPT ![Len(cs) - 1].done = Fold(@, o)]

\* The current call makes a call.
LEMMA CallOpens ==
  ASSUME NEW cs, NEW w, NEW l, NEW D, StackOK(cs, w, l, D), cs # << >>,
         NEW d \in Data, \A m \in World : Follows(cs[Len(cs)].data, m, w, l) => Follows(d, m, w, l),
         Zeros(d.uses),
         NEW c \in Call, c.before = w, c.done = NoData, Zeros(c.data.uses),
         NEW x \in World, x.slot = w.slot, Follows(c.data, w, x, l),
         NEW E, D \subseteq E
  PROVE  /\ Opened(cs, d) \in Seq(Call) /\ Len(Opened(cs, d)) = Len(cs)
         /\ Opened(cs, d)[1].before = cs[1].before
         /\ StackOK(Append(Opened(cs, d), c), x, l, E)
  <1> DEFINE n     == Len(cs)
             lower == [cs[n] EXCEPT !.done = Fold(@, d), !.data = NoData]
             ds    == Opened(cs, d)
             es    == Append(ds, c)
  <1>1. cs \in Seq(Call) /\ w \in World
    BY DEF StackOK
  <1>2. n \in Nat /\ n # 0 /\ n \in 1..n /\ DOMAIN cs = 1..n
    BY <1>1, CallParts, EmptySeq
  <1>3. cs[n] \in Call /\ \A i \in 1..n : cs[i] \in Call
    BY <1>1, <1>2, CallParts
  <1>4. /\ cs[n].done \in Data /\ cs[n].data \in Data /\ cs[n].before \in World
        /\ Fold(cs[n].done, d) \in Data
    BY <1>3, FoldType DEF Call
  <1>5. /\ lower \in Call /\ lower.done = Fold(cs[n].done, d) /\ lower.data = NoData
        /\ lower.before = cs[n].before
    BY <1>3, <1>4, EmptyTypes DEF Call
  <1>6. ds = [cs EXCEPT ![n] = lower]
    BY <1>2, <1>3 DEF Call, Opened
  <1> HIDE DEF n, lower
  <1>7. ds \in Seq(Call) /\ Len(ds) = n /\ \A i \in 1..n : ds[i] = IF i = n THEN lower ELSE cs[i]
    BY <1>1, <1>2, <1>5, <1>6, ExceptSeq DEF n
  <1> HIDE DEF ds
  <1>8. /\ es \in Seq(Call) /\ Len(es) = n + 1 /\ es[n + 1] = c
        /\ \A i \in 1..n : es[i] = IF i = n THEN lower ELSE cs[i]
    BY <1>7, AppendProperties
  <1> HIDE DEF es
  <1>9. ASSUME NEW i \in 1..(n + 1) PROVE Frame(es[i], After(es, x, i), l)
    <2>1. CASE i = n + 1
      <3>1. After(es, x, i) = x /\ es[i] = c
        BY <1>8, <2>1 DEF After
      <3>2. Follows(NoData, w, w, l)
        BY <1>1, FollowsNothing
      <3> QED
        BY <1>1, <3>1, <3>2 DEF Frame
    <2>2. CASE i = n
      <3>1. After(es, x, i) = w /\ es[i] = lower
        <4>1. i # Len(es) /\ es[i + 1] = c
          BY <1>2, <1>8, <2>2
        <4>2. After(es, x, i) = es[i + 1].before
          BY <4>1 DEF After
        <4>3. es[n] = lower
          BY <1>2, <1>8
        <4> QED
          BY <2>2, <4>1, <4>2, <4>3
      <3>2. Frame(cs[n], After(cs, w, n), l) /\ After(cs, w, n) = w
        <4>1. After(cs, w, n) = w
          BY DEF After, n
        <4>2. \A j \in 1..n : Frame(cs[j], After(cs, w, j), l)
          BY DEF StackOK, n
        <4> QED
          BY <1>2, <4>1, <4>2
      <3>3. PICK mid \in World : Follows(cs[n].done, cs[n].before, mid, l) /\ Follows(cs[n].data, mid, w, l)
        BY <3>2 DEF Frame
      <3>4. Follows(d, mid, w, l)
        BY <3>3 DEF n
      <3>5. Follows(Fold(cs[n].done, d), cs[n].before, w, l)
        BY <1>1, <1>4, <3>3, <3>4, FollowsFold
      <3>6. Follows(NoData, w, w, l)
        BY <1>1, FollowsNothing
      <3> QED
        BY <1>1, <1>5, <3>1, <3>5, <3>6 DEF Frame
    <2>3. CASE i # n /\ i # n + 1
      <3>1. i \in 1..n /\ i + 1 \in 1..n /\ es[i] = cs[i]
        BY <1>2, <1>8, <2>3
      <3>2. es[i + 1].before = cs[i + 1].before
        BY <1>5, <1>8, <3>1
      <3>3. After(es, x, i) = After(cs, w, i)
        BY <1>8, <2>3, <3>2 DEF After, n
      <3>4. Frame(cs[i], After(cs, w, i), l)
        BY <3>1 DEF StackOK, n
      <3> QED
        BY <3>1, <3>3, <3>4
    <2> QED
      BY <2>1, <2>2, <2>3
  <1>10. ASSUME NEW i \in 1..(n + 1), i # n + 1 PROVE es[i].data = NoData
    <2>1. i \in 1..n
      BY <1>2, <1>10
    <2>2. i # n => cs[i].data = NoData
      BY <2>1 DEF StackOK, n
    <2> QED
      BY <1>5, <1>8, <2>1, <2>2
  <1>11. ASSUME NEW i \in 1..(n + 1) PROVE Zeros(es[i].done.uses) /\ Zeros(es[i].data.uses)
    <2>1. CASE i = n + 1
      BY <1>8, <2>1, EmptyTypes DEF NoData, Zeros
    <2>2. CASE i = n
      <3>1. Zeros(cs[n].done.uses)
        BY <1>2, Zenon DEF StackOK, n
      <3>2. Zeros(Fold(cs[n].done, d).uses)
        BY <1>4, <3>1, ZerosFold
      <3>3. Zeros(NoData.uses)
        BY EmptyTypes DEF NoData, Zeros
      <3>4. es[i] = lower
        BY <1>2, <1>8, <2>2
      <3>5. Zeros(lower.done.uses) /\ Zeros(lower.data.uses)
        BY <1>5, <3>2, <3>3
      <3> QED
        BY <3>4, <3>5
    <2>3. CASE i # n /\ i # n + 1
      <3>1. i \in 1..n
        BY <1>2, <2>3
      <3> QED
        BY <1>8, <2>3, <3>1 DEF StackOK, n
    <2> QED
      BY <2>1, <2>2, <2>3
  <1>12. ASSUME NEW a \in Accounts, <<"slot", a>> \notin E
         PROVE  x.slot[a] = 0 /\ \A i \in 1..(n + 1) : es[i].before.slot[a] = 0
    <2>1. w.slot[a] = 0 /\ \A i \in 1..n : cs[i].before.slot[a] = 0
      BY <1>12 DEF StackOK, n
    <2>2. \A i \in 1..(n + 1) : i \in 1..n \/ i = n + 1
      BY <1>2
    <2> QED
      BY <1>2, <1>5, <1>8, <2>1, <2>2
  <1>13. StackOK(es, x, l, E)
    BY <1>8, <1>9, <1>10, <1>11, <1>12 DEF StackOK
  <1>14. ds[1].before = cs[1].before
    BY <1>2, <1>5, <1>7
  <1> QED
    BY <1>7, <1>13, <1>14 DEF ds, es, n

\* The current call returns to its caller, or fails.
LEMMA CallCloses ==
  ASSUME NEW cs, NEW w, NEW l, NEW D, StackOK(cs, w, l, D), Len(cs) > 1,
         NEW o \in Data, Zeros(o.uses),
         NEW x \in World, NEW m, l => m, Follows(o, cs[Len(cs)].before, x, m),
         \A a \in Accounts : <<"slot", a>> \notin D => x.slot[a] = 0
  PROVE  /\ Closed(cs, o) # << >>
         /\ Closed(cs, o)[1].before = cs[1].before
         /\ StackOK(Closed(cs, o), x, m, D)
  <1> DEFINE n     == Len(cs) - 1
             below == SubSeq(cs, 1, n)
             lower == [cs[n] EXCEPT !.done = Fold(@, o)]
             ds    == Closed(cs, o)
  <1>0. ds = [below EXCEPT ![n].done = Fold(@, o)]
    BY DEF Closed
  <1> HIDE DEF ds
  <1>1. cs \in Seq(Call) /\ w \in World
    BY DEF StackOK
  <1>2. /\ n \in Nat /\ n # 0 /\ n \in 1..n /\ Len(cs) = n + 1
        /\ \A i \in 1..n : i \in 1..Len(cs) /\ i # Len(cs)
    <2>1. Len(cs) \in Nat
      BY <1>1, CallParts
    <2>2. n \in Nat /\ n # 0 /\ Len(cs) = n + 1
      BY <2>1
    <2> HIDE DEF n
    <2> QED
      BY <2>2
  <1> HIDE DEF n
  <1>3. cs[n] \in Call /\ \A i \in 1..n : cs[i] \in Call
    <2>1. \A i \in 1..Len(cs) : cs[i] \in Call
      BY <1>1, CallParts
    <2> QED
      BY <1>2, <2>1
  <1>4. /\ cs[n].done \in Data /\ cs[n].data = NoData /\ cs[n].before \in World
        /\ Fold(cs[n].done, o) \in Data
    <2>1. \A i \in 1..Len(cs) : i # Len(cs) => cs[i].data = NoData
      BY DEF StackOK
    <2>2. cs[n].data = NoData
      BY <1>2, <2>1
    <2>3. cs[n].done \in Data /\ cs[n].before \in World
      BY <1>3 DEF Call
    <2> QED
      BY <2>2, <2>3, FoldType
  <1>5. /\ lower \in Call /\ lower.done = Fold(cs[n].done, o) /\ lower.data = NoData
        /\ lower.before = cs[n].before
    BY <1>3, <1>4, EmptyTypes DEF Call
  <1>6. below \in Seq(Call) /\ Len(below) = n /\ \A i \in 1..n : below[i] = cs[i]
    <2>1. 1 \in Int /\ n \in Int /\ 1 =< n
      BY <1>2
    <2>2. /\ below \in Seq(Call) /\ Len(below) = IF 1 <= n THEN n - 1 + 1 ELSE 0
          /\ \A i \in 1..(n - 1 + 1) : below[i] = cs[1 + i - 1]
      BY <1>3, <2>1, SubSeqProperties
    <2>3. n - 1 + 1 = n /\ \A i \in 1..n : 1 + i - 1 = i
      BY <2>1
    <2> HIDE DEF below
    <2> QED
      BY <2>1, <2>2, <2>3
  <1> HIDE DEF below
  <1>7. ds = [below EXCEPT ![n] = lower]
    BY <1>0, <1>2, <1>6
  <1> HIDE DEF lower
  <1>8. ds \in Seq(Call) /\ Len(ds) = n /\ \A i \in 1..n : ds[i] = IF i = n THEN lower ELSE cs[i]
    BY <1>2, <1>5, <1>6, <1>7, ExceptSeq
  <1>9. ASSUME NEW i \in 1..n PROVE Frame(ds[i], After(ds, x, i), m)
    <2>1. Frame(cs[i], After(cs, w, i), l)
      BY <1>2 DEF StackOK
    <2>2. CASE i = n
      <3>1. After(ds, x, i) = x /\ ds[i] = lower /\ After(cs, w, i) = cs[n + 1].before
        BY <1>2, <1>8, <2>2 DEF After
      <3>2. PICK mid \in World : /\ Follows(cs[n].done, cs[n].before, mid, l)
                                 /\ Follows(NoData, mid, cs[n + 1].before, l)
        BY <1>4, <2>1, <2>2, <3>1 DEF Frame
      <3>3. /\ Follows(cs[n].done, cs[n].before, mid, m)
            /\ Follows(NoData, mid, cs[n + 1].before, m)
        BY <3>2, FollowsWeaken
      <3>4. cs[n + 1].before \in World
        BY <1>1, <1>2, CallParts
      <3>5. Follows(o, cs[n + 1].before, x, m)
        BY <1>2
      <3>6. Follows(Fold(NoData, o), mid, x, m)
        BY <3>3, <3>4, <3>5, EmptyTypes, FollowsFold
      <3>7. Follows(o, mid, x, m)
        <4>1. Fold(NoData, o).profits = o.profits
          <5>1. o.profits \in [DOMAIN o.profits -> Profit]
            BY ProfitList DEF Data, IsProfits
          <5>2. Add(Empty, o.profits) = o.profits
            BY <5>1, EmptyTypes DEF Add
          <5> QED
            BY <5>2 DEF Fold, NoData
        <4>2. Fold(NoData, o).defs = o.defs
          <5>1. o.defs \in [DOMAIN o.defs -> Int]
            BY VariableList DEF Data, IsVariables
          <5>2. Override(Empty, o.defs) = o.defs
            BY <5>1, EmptyTypes DEF Override
          <5> QED
            BY <5>2 DEF Fold, NoData
        <4> QED
          BY <3>6, <4>1, <4>2 DEF Follows
      <3>8. Follows(Fold(cs[n].done, o), cs[n].before, x, m)
        BY <1>4, <3>3, <3>7, FollowsFold
      <3>9. Follows(NoData, x, x, m)
        BY FollowsNothing
      <3> QED
        BY <1>5, <3>1, <3>8, <3>9 DEF Frame
    <2>3. CASE i # n
      <3>1. i + 1 \in 1..n /\ ds[i] = cs[i] /\ i # n + 1
        BY <1>2, <1>8, <2>3
      <3>2. ds[i + 1].before = cs[i + 1].before
        BY <1>5, <1>8, <3>1
      <3>3. After(ds, x, i) = After(cs, w, i)
        BY <1>2, <1>8, <2>3, <3>1, <3>2 DEF After
      <3>4. PICK mid \in World : /\ Follows(cs[i].done, cs[i].before, mid, l)
                                 /\ Follows(cs[i].data, mid, After(cs, w, i), l)
        BY <2>1 DEF Frame
      <3>5. /\ Follows(cs[i].done, cs[i].before, mid, m)
            /\ Follows(cs[i].data, mid, After(cs, w, i), m)
        BY <3>4, FollowsWeaken
      <3> QED
        BY <3>1, <3>3, <3>5 DEF Frame
    <2> QED
      BY <2>2, <2>3
  <1>10. ASSUME NEW i \in 1..n, i # n PROVE ds[i].data = NoData
    BY <1>2, <1>8, <1>10 DEF StackOK
  <1>11. ASSUME NEW i \in 1..n PROVE Zeros(ds[i].done.uses) /\ Zeros(ds[i].data.uses)
    <2>1. Zeros(cs[i].done.uses) /\ Zeros(cs[i].data.uses)
      BY <1>2 DEF StackOK
    <2>2. CASE i = n
      <3>1. Zeros(Fold(cs[n].done, o).uses)
        BY <1>4, <2>1, <2>2, ZerosFold
      <3>2. Zeros(NoData.uses)
        BY EmptyTypes DEF NoData, Zeros
      <3> QED
        BY <1>5, <1>8, <2>2, <3>1, <3>2
    <2>3. CASE i # n
      BY <1>8, <2>1, <2>3
    <2> QED
      BY <2>2, <2>3
  <1>12. ASSUME NEW a \in Accounts, <<"slot", a>> \notin D
         PROVE  x.slot[a] = 0 /\ \A i \in 1..n : ds[i].before.slot[a] = 0
    <2>1. \A i \in 1..n : cs[i].before.slot[a] = 0
      BY <1>2, <1>12 DEF StackOK
    <2> QED
      BY <1>2, <1>5, <1>8, <1>12, <2>1
  <1>13. StackOK(ds, x, m, D)
    BY <1>8, <1>9, <1>10, <1>11, <1>12 DEF StackOK
  <1>14. ds[1].before = cs[1].before /\ ds # << >>
    <2>1. Len(<< >>) = 0
      BY EmptySeq
    <2> QED
      BY <1>2, <1>5, <1>8, <2>1
  <1> QED
    BY <1>13, <1>14 DEF ds

---------------------------------------------------------------------------
(* The steps of a transaction.                                             *)

\* The world when the first call starts.
Paid == Apply(Fresh, EtherTransfer(Sender, tx.to, tx.value))

Typed ==
  /\ tx.to \in Contracts /\ tx.value \in Amounts /\ tx.before = Fresh
  /\ defined \subseteq Variables /\ clear \subseteq Accounts
  /\ lossy \in BOOLEAN /\ IsData(summary)
  /\ \A k \in DOMAIN summary.profits : ~ Zero(summary.profits[k])
  /\ ops \in 0..MaxOps

\* What is open accounts for the world, and what has ended for its changes.
Accounted ==
  /\ Typed
  /\ StackOK(calls, world, lossy, defined)
  /\ calls # << >> => calls[1].before = Paid
  /\ summary.ended => calls = << >>
  /\ ProfitsAreHoldings /\ DefsAreChanges /\ UsesAreOriginal

LEMMA EtherIsTransfer ==
  ASSUME NEW a \in Accounts, NEW b \in Accounts, NEW n \in Int
  PROVE  /\ IsTransfer(EtherTransfer(a, b, n)) /\ EtherTransfer(a, b, n).asset = Ether
         /\ EtherTransfer(a, b, n).asset \notin Collections
         /\ EtherTransfer(a, b, n).from = a /\ EtherTransfer(a, b, n).to = b
         /\ EtherTransfer(a, b, n).amount = n
  BY AssetsAssumption DEF EtherTransfer, IsTransfer, Assets

LEMMA FreshType == Fresh \in World /\ \A a \in Accounts : Fresh.slot[a] = 0
  BY SummaryAssumption DEF Fresh, World

LEMMA PaidType ==
  ASSUME Typed PROVE Paid \in World /\ Paid.slot = Fresh.slot
  <1>1. Sender \in Accounts /\ tx.to \in Accounts /\ tx.value \in Int
    <2>1. Sender \in Accounts /\ Contracts \subseteq Accounts /\ Amounts \subseteq Nat
      BY SummaryAssumption
    <2>2. tx.to \in Contracts /\ tx.value \in Amounts
      BY DEF Typed
    <2>3. tx.value \in Nat
      BY <2>1, <2>2
    <2>4. tx.to \in Accounts
      BY <2>1, <2>2
    <2> QED
      BY <2>1, <2>3, <2>4
  <1> QED
    BY <1>1, EtherIsTransfer, FreshType, ApplyType DEF Paid

\* A transfer of nothing changes nothing.
LEMMA NothingFollows ==
  ASSUME NEW d \in Data, NEW w \in World, NEW u \in World, NEW l, NEW t, IsTransfer(t),
         t.asset \notin Collections, t.amount = 0, Follows(d, w, u, l)
  PROVE  Follows(d, w, Apply(u, t), l)
  <1>1. ZeroTransfer(t)
    BY DEF ZeroTransfer, IsTransfer, Assets
  <1>2. WithTransfer(d, t) = d
    BY <1>1 DEF WithTransfer, AddTransfer, Data
  <1>3. Follows(WithTransfer(d, t), w, Apply(u, t), l)
    BY TransferFollows
  <1> QED
    BY <1>2, <1>3

LEMMA UseZeros ==
  ASSUME NEW d \in Data, Zeros(d.uses), NEW v \in Variables, NEW n \in Int,
         v[1] = "slot" /\ v \notin defined => n = 0
  PROVE  Zeros(WithUse(d, v, n).uses)
  <1>1. d.uses \in VariableLists /\ UseOf(v, n) \in VariableLists
    BY VariableType DEF Data
  <1>2. ASSUME NEW a \in Accounts, <<"slot", a>> \in DOMAIN UseOf(v, n)
        PROVE  UseOf(v, n)[<<"slot", a>>] = 0
    <2>0. /\ DOMAIN UseOf(v, n) = IF v \in defined THEN {} ELSE {v}
          /\ v \notin defined => UseOf(v, n)[v] = n
      BY VariableType
    <2>1. <<"slot", a>> = v /\ v \notin defined
      BY <1>2, <2>0
    <2>2. v[1] = "slot"
      BY <2>1
    <2> QED
      BY <2>0, <2>1, <2>2
  <1>3. Zeros(UseOf(v, n))
    BY <1>2 DEF Zeros
  <1> QED
    BY <1>1, <1>3, ZerosOverride, UseFollows

LEMMA BalanceUse ==
  ASSUME NEW d \in Data, Zeros(d.uses), NEW a \in Accounts, NEW n \in Int
  PROVE  /\ WithUse(d, <<"balance", a>>, n) \in Data
         /\ Zeros(WithUse(d, <<"balance", a>>, n).uses)
         /\ \A w, u, l : Follows(d, w, u, l) => Follows(WithUse(d, <<"balance", a>>, n), w, u, l)
  <1> DEFINE v == <<"balance", a>>
  <1>1. v \in Variables /\ v[1] # "slot"
    BY DEF Variables, Balances
  <1> HIDE DEF v
  <1>2. Zeros(WithUse(d, v, n).uses) /\ WithUse(d, v, n) \in Data
    BY <1>1, UseZeros, UseFollows
  <1>3. \A w, u, l : Follows(d, w, u, l) => Follows(WithUse(d, v, n), w, u, l)
    BY <1>1, UseFollows
  <1> QED
    BY <1>2, <1>3 DEF v

LEMMA BalanceDef ==
  ASSUME NEW d \in Data, NEW a \in Accounts, NEW n \in Int
  PROVE  /\ WithDef(d, <<"balance", a>>, n) \in Data
         /\ WithDef(d, <<"balance", a>>, n).uses = d.uses
         /\ \A w, u, l : Follows(d, w, u, l) => Follows(WithDef(d, <<"balance", a>>, n), w, u, l)
  <1>1. <<"balance", a>> \in Variables
    BY DEF Variables, Balances
  <1>2. \A w, u, l : Follows(d, w, u, l) => Follows(WithDef(d, <<"balance", a>>, n), w, u, l)
    BY BalanceDefFollows
  <1> QED
    BY <1>1, <1>2, DefParts

LEMMA BalanceType ==
  ASSUME NEW w \in World, NEW a \in Accounts PROVE BalanceOf(w, a) \in Int
  BY WorldParts, AssetsAssumption DEF BalanceOf, Holdings

LEMMA TopParts ==
  ASSUME StackOK(calls, world, lossy, defined), calls # << >>
  PROVE  /\ Top \in Call /\ Top.self \in Accounts /\ Top.data \in Data /\ Top.done \in Data
         /\ Top.before \in World /\ world \in World
         /\ Zeros(Top.data.uses) /\ Zeros(Top.done.uses)
         /\ Frame(Top, world, lossy)
         /\ Len(calls) \in 1..Len(calls) /\ Len(calls) \in Nat \ {0}
         /\ calls \in Seq(Call)
  <1>1. calls \in Seq(Call) /\ world \in World
    BY DEF StackOK
  <1>2. Len(calls) \in 1..Len(calls) /\ Len(calls) \in Nat \ {0}
    BY <1>1, EmptySeq
  <1>3. /\ Top \in Call /\ Top.self \in Accounts /\ Top.data \in Data /\ Top.done \in Data
        /\ Top.before \in World
    BY <1>1, <1>2, CallParts DEF Top
  <1>4. Zeros(Top.data.uses) /\ Zeros(Top.done.uses) /\ Frame(Top, world, lossy)
    BY <1>2 DEF StackOK, Top, After
  <1> QED
    BY <1>1, <1>2, <1>3, <1>4

\* While calls are open, the invariant is about them only.
LEMMA OpenKeeps ==
  ASSUME Accounted, calls # << >>, UNCHANGED <<tx, summary>>,
         StackOK(calls', world', lossy', defined'), calls'[1].before = calls[1].before,
         defined' \subseteq Variables, clear' \subseteq Accounts, lossy' \in BOOLEAN,
         ops' \in 0..MaxOps
  PROVE  Accounted'
  <1>1. ~ summary.ended
    BY DEF Accounted
  <1>2. Typed'
    BY DEF Accounted, Typed, IsData
  <1>3. Paid' = Paid
    BY DEF Paid
  <1>4. ~ summary'.ended
    BY <1>1
  <1>5. ProfitsAreHoldings' /\ DefsAreChanges' /\ UsesAreOriginal'
    BY <1>4 DEF ProfitsAreHoldings, DefsAreChanges, UsesAreOriginal
  <1> QED
    BY <1>2, <1>3, <1>4, <1>5 DEF Accounted

\* Steps of the current call.
LEMMA TopKeeps ==
  ASSUME Accounted, Running, NEW d \in Data, SetTop(d), ops' = ops + 1,
         UNCHANGED <<tx, lossy, summary>>, world' \in World,
         defined \subseteq defined', defined' \subseteq Variables, clear' \subseteq Accounts,
         \A m \in World : Follows(Top.data, m, world, lossy) => Follows(d, m, world', lossy),
         Zeros(d.uses),
         \A a \in Accounts : <<"slot", a>> \notin defined' => world'.slot[a] = world.slot[a]
  PROVE  Accounted'
  <1>1. StackOK(calls, world, lossy, defined) /\ calls # << >>
    BY DEF Accounted, Running
  <1>2. calls' = [calls EXCEPT ![Len(calls)].data = d]
    BY DEF SetTop
  <1>3. StackOK([calls EXCEPT ![Len(calls)].data = d], world', lossy, defined')
    BY <1>1, TopChanges DEF Top
  <1>4. calls'[1].before = calls[1].before
    <2>1. calls \in Seq(Call) /\ Len(calls) \in Nat \ {0}
      BY <1>1, TopParts
    <2>2. DOMAIN calls = 1..Len(calls) /\ calls[1] \in Call
      BY <2>1, CallParts
    <2> QED
      BY <1>2, <2>1, <2>2 DEF Call
  <1>5. ops' \in 0..MaxOps
    BY SummaryAssumption DEF Accounted, Typed, Running
  <1>6. lossy' \in BOOLEAN
    BY DEF Accounted, Typed
  <1>7. StackOK(calls', world', lossy', defined')
    BY <1>2, <1>3
  <1> QED
    BY <1>1, <1>4, <1>5, <1>6, <1>7, OpenKeeps

LEMMA InitAccounted == Init => Accounted
  <1> SUFFICES ASSUME Init PROVE Accounted
    OBVIOUS
  <1>1. PICK to \in Contracts, n \in Amounts :
          /\ tx = [to |-> to, value |-> n, before |-> Fresh]
          /\ world = Apply(Fresh, EtherTransfer(Sender, to, n))
          /\ calls = << [self |-> to, done |-> NoData, data |-> NoData,
                         before |-> Apply(Fresh, EtherTransfer(Sender, to, n))] >>
    BY DEF Init
  <1>2. defined = {} /\ clear = {} /\ lossy = FALSE /\ summary = None /\ ops = 0
    BY DEF Init
  <1>3. Typed
    <2>1. tx.to \in Contracts /\ tx.value \in Amounts /\ tx.before = Fresh
      BY <1>1
    <2>2. IsData(summary) /\ \A k \in DOMAIN summary.profits : ~ Zero(summary.profits[k])
      BY <1>2, EmptyTypes, ProfitList, VariableList DEF None, IsData
    <2>3. ops \in 0..MaxOps
      <3>1. MaxOps \in Nat
        BY SummaryAssumption
      <3> QED
        BY <1>2, <3>1
    <2> QED
      BY <1>2, <2>1, <2>2, <2>3 DEF Typed
  <1>4. world = Paid
    BY <1>1 DEF Paid
  <1>5. Paid \in World /\ \A a \in Accounts : Paid.slot[a] = 0
    BY <1>3, FreshType, PaidType
  <1> DEFINE c == [self |-> to, done |-> NoData, data |-> NoData, before |-> Paid]
  <1>6. calls = << c >>
    BY <1>1, <1>4
  <1>7. c \in Call /\ c.done = NoData /\ c.data = NoData /\ c.before = Paid
    BY <1>5, EmptyTypes, SummaryAssumption DEF Call
  <1> HIDE DEF c
  <1>8. calls \in Seq(Call) /\ Len(calls) = 1 /\ calls[1] = c /\ calls # << >>
    BY <1>6, <1>7
  <1>9. Follows(NoData, Paid, Paid, lossy)
    BY <1>5, FollowsNothing
  <1>10. \A i \in 1..Len(calls) : i = 1
    BY <1>8
  <1>11. Frame(c, Paid, lossy) /\ After(calls, world, 1) = Paid
    BY <1>4, <1>5, <1>7, <1>8, <1>9 DEF Frame, After
  <1>12. Zeros(NoData.uses)
    BY EmptyTypes DEF NoData, Zeros
  <1>13. StackOK(calls, world, lossy, defined)
    BY <1>4, <1>5, <1>7, <1>8, <1>10, <1>11, <1>12 DEF StackOK
  <1>14. ~ summary.ended
    BY <1>2 DEF None
  <1> QED
    BY <1>3, <1>7, <1>8, <1>13, <1>14 DEF Accounted, ProfitsAreHoldings, DefsAreChanges, UsesAreOriginal

LEMMA StoreAccounted ==
  ASSUME Accounted, NEW n \in Values, Store(n) PROVE Accounted'
  <1> DEFINE a == Top.self
             d == WithDef(Top.data, <<"slot", a>>, n)
  <1>1. /\ Running /\ world' = [world EXCEPT !.slot[a] = n, !.written = @ \cup {a}]
        /\ SetTop(d) /\ defined' = defined \cup {<<"slot", a>>} /\ ops' = ops + 1
        /\ UNCHANGED <<tx, clear, lossy, summary>>
    BY DEF Store
  <1>2. StackOK(calls, world, lossy, defined) /\ calls # << >>
    BY <1>1 DEF Accounted, Running
  <1>3. a \in Accounts /\ Top.data \in Data /\ Zeros(Top.data.uses) /\ world \in World
    BY <1>2, TopParts
  <1>4. n \in Int /\ <<"slot", a>> \in Variables
    BY <1>3, SummaryAssumption DEF Variables, Slots
  <1>5. d \in Data /\ d.uses = Top.data.uses
    BY <1>3, <1>4, DefParts
  <1> HIDE DEF a
  <1>6. /\ world' \in World /\ world'.held = world.held /\ world'.owner = world.owner
        /\ \A b \in Accounts : world'.slot[b] = IF b = a THEN n ELSE world.slot[b]
    <2>1. world' = [held |-> world.held, owner |-> world.owner, slot |-> [world.slot EXCEPT ![a] = n],
                    written |-> world.written \cup {a}]
      BY <1>1, <1>3 DEF World
    <2>2. [world.slot EXCEPT ![a] = n] \in [Accounts -> Values]
      BY <1>3, WorldParts
    <2> QED
      BY <1>3, <2>1, <2>2, WorldParts DEF World
  <1>7. ASSUME NEW m \in World, Follows(Top.data, m, world, lossy) PROVE Follows(d, m, world', lossy)
    BY <1>3, <1>4, <1>6, <1>7, SlotDefFollows
  <1>8. \A b \in Accounts : <<"slot", b>> \notin defined' => world'.slot[b] = world.slot[b]
    BY <1>1, <1>6
  <1>9. defined \subseteq defined' /\ defined' \subseteq Variables /\ clear' \subseteq Accounts
    BY <1>1, <1>4 DEF Accounted, Typed
  <1> HIDE DEF d
  <1> QED
    BY <1>1, <1>3, <1>5, <1>6, <1>7, <1>8, <1>9, TopKeeps

LEMMA LoadAccounted ==
  ASSUME Accounted, Load PROVE Accounted'
  <1> DEFINE a == Top.self
             v == <<"slot", a>>
             d == WithUse(Top.data, v, world.slot[a])
  <1>1. /\ Running /\ SetTop(d) /\ clear' = clear \cup ({a} \ world.written) /\ ops' = ops + 1
        /\ UNCHANGED <<world, tx, defined, lossy, summary>>
    BY DEF Load
  <1>2. StackOK(calls, world, lossy, defined) /\ calls # << >>
    BY <1>1 DEF Accounted, Running
  <1>3. a \in Accounts /\ Top.data \in Data /\ Zeros(Top.data.uses) /\ world \in World
    BY <1>2, TopParts
  <1>4. v \in Variables /\ world.slot[a] \in Int
    BY <1>3, WorldParts, SummaryAssumption DEF Variables, Slots
  <1>5. v \notin defined => world.slot[a] = 0
    BY <1>2, <1>3 DEF StackOK
  <1> HIDE DEF v, a
  <1>6. d \in Data /\ Zeros(d.uses)
    BY <1>3, <1>4, <1>5, UseFollows, UseZeros
  <1>7. \A m \in World : Follows(Top.data, m, world, lossy) => Follows(d, m, world, lossy)
    BY <1>3, <1>4, UseFollows
  <1>8. defined \subseteq defined' /\ defined' \subseteq Variables /\ clear' \subseteq Accounts
    BY <1>1, <1>3 DEF Accounted, Typed
  <1> HIDE DEF d
  <1> QED
    BY <1>1, <1>3, <1>6, <1>7, <1>8, TopKeeps

\* Reading a balance, by itself or because a call cannot pay.
LEMMA BalanceReadAccounted ==
  ASSUME Accounted, Running, NEW a \in Accounts,
         SetTop(WithUse(Top.data, <<"balance", a>>, BalanceOf(world, a))), ops' = ops + 1,
         UNCHANGED <<world, tx, defined, clear, lossy, summary>>
  PROVE  Accounted'
  <1> DEFINE d == WithUse(Top.data, <<"balance", a>>, BalanceOf(world, a))
  <1>2. StackOK(calls, world, lossy, defined) /\ calls # << >>
    BY DEF Accounted, Running
  <1>3. Top.data \in Data /\ Zeros(Top.data.uses) /\ world \in World
    BY <1>2, TopParts
  <1>4. BalanceOf(world, a) \in Int
    BY <1>3, BalanceType
  <1>5. d \in Data /\ Zeros(d.uses)
    BY <1>3, <1>4, BalanceUse
  <1>6. \A m \in World : Follows(Top.data, m, world, lossy) => Follows(d, m, world, lossy)
    BY <1>3, <1>4, BalanceUse
  <1>7. defined \subseteq defined' /\ defined' \subseteq Variables /\ clear' \subseteq Accounts
    BY DEF Accounted, Typed
  <1>8. SetTop(d)
    OBVIOUS
  <1> HIDE DEF d
  <1> QED
    BY <1>3, <1>5, <1>6, <1>7, <1>8, TopKeeps

LEMMA LogAccounted ==
  ASSUME Accounted, NEW t \in Emitted, Log(t) PROVE Accounted'
  <1> DEFINE d == WithTransfer(Top.data, t)
  <1>1. /\ Running /\ Possible(world, t) /\ world' = Apply(world, t) /\ SetTop(d) /\ ops' = ops + 1
        /\ UNCHANGED <<tx, defined, clear, lossy, summary>>
    BY DEF Log
  <1>2. StackOK(calls, world, lossy, defined) /\ calls # << >>
    BY <1>1 DEF Accounted, Running
  <1>3. Top.data \in Data /\ Zeros(Top.data.uses) /\ world \in World
    BY <1>2, TopParts
  <1>4. IsTransfer(t)
    <2>1. t \in Transfer
      BY SummaryAssumption
    <2> QED
      BY <2>1, TransferIsTransfer
  <1>5. d \in Data /\ d.uses = Top.data.uses
    BY <1>3, <1>4, TransferData
  <1>6. world' \in World /\ world'.slot = world.slot
    BY <1>1, <1>3, <1>4, ApplyType
  <1>7. ASSUME NEW m \in World, Follows(Top.data, m, world, lossy) PROVE Follows(d, m, world', lossy)
    BY <1>1, <1>3, <1>4, <1>7, TransferFollows
  <1>8. defined \subseteq defined' /\ defined' \subseteq Variables /\ clear' \subseteq Accounts
    BY <1>1 DEF Accounted, Typed
  <1> HIDE DEF d
  <1> QED
    BY <1>1, <1>3, <1>5, <1>6, <1>7, <1>8, TopKeeps

LEMMA EnterAccounted ==
  ASSUME Accounted, NEW op \in {"CALL", "DELEGATECALL"}, NEW to \in Contracts, NEW n \in Amounts,
         Enter(op, to, n)
  PROVE  Accounted'
  <1> DEFINE from  == Top.self
             t     == EtherTransfer(from, to, n)
             data  == IF op = "CALL" /\ n > 0
                      THEN WithUse(Top.data, <<"balance", from>>, BalanceOf(world, from))
                      ELSE Top.data
             moved == Apply(world, t)
             gets  == WithDef(NoData, <<"balance", to>>, BalanceOf(moved, to) + n)
             both  == WithDef(gets, <<"balance", from>>, BalanceOf(moved, from) - n)
             first == IF n > 0 THEN WithTransfer(both, t) ELSE NoData
             c     == [self |-> IF op = "DELEGATECALL" THEN from ELSE to,
                       done |-> NoData, data |-> first, before |-> world]
  <1>1. /\ Running /\ world' = moved
        /\ calls' = Append(Opened(calls, data), c)
        /\ defined' = IF n > 0 THEN defined \cup {<<"balance", to>>, <<"balance", from>>} ELSE defined
        /\ ops' = ops + 1 /\ UNCHANGED <<tx, clear, lossy, summary>>
    BY DEF Enter, Open, Opened
  <1>2. StackOK(calls, world, lossy, defined) /\ calls # << >>
    BY <1>1 DEF Accounted, Running
  <1>3. /\ from \in Accounts /\ Top.data \in Data /\ Zeros(Top.data.uses) /\ world \in World
        /\ calls \in Seq(Call) /\ Len(calls) \in Nat \ {0}
    BY <1>2, TopParts
  <1>4. to \in Accounts /\ n \in Int
    <2>1. Contracts \subseteq Accounts /\ Amounts \subseteq Nat
      BY SummaryAssumption
    <2>2. n \in Nat
      BY <2>1
    <2> QED
      BY <2>1, <2>2
  <1> HIDE DEF from
  <1>5. IsTransfer(t) /\ t.asset \notin Collections /\ t.amount = n
    BY <1>3, <1>4, EtherIsTransfer
  <1> HIDE DEF t
  <1>6. moved \in World /\ moved.slot = world.slot
    BY <1>3, <1>5, ApplyType
  <1> HIDE DEF moved
  <1>7. /\ data \in Data /\ Zeros(data.uses)
        /\ \A m \in World : Follows(Top.data, m, world, lossy) => Follows(data, m, world, lossy)
    <2>1. BalanceOf(world, from) \in Int
      BY <1>3, BalanceType
    <2> QED
      BY <1>3, <2>1, BalanceUse
  <1>8. /\ first \in Data /\ Zeros(first.uses) /\ Follows(first, world, moved, lossy)
    <2>1. NoData \in Data /\ Zeros(NoData.uses) /\ Follows(NoData, world, world, lossy)
      BY <1>3, EmptyTypes, FollowsNothing DEF NoData, Zeros
    <2>2. CASE n > 0
      <3>1. BalanceOf(moved, to) + n \in Int /\ BalanceOf(moved, from) - n \in Int
        BY <1>3, <1>4, <1>6, BalanceType
      <3>3. gets \in Data /\ gets.uses = NoData.uses /\ Follows(gets, world, world, lossy)
        BY <1>4, <2>1, <3>1, BalanceDef
      <3> HIDE DEF gets
      <3>4. both \in Data /\ both.uses = NoData.uses /\ Follows(both, world, world, lossy)
        BY <1>3, <3>1, <3>3, BalanceDef
      <3> HIDE DEF both
      <3>5. WithTransfer(both, t) \in Data /\ WithTransfer(both, t).uses = NoData.uses
        BY <1>5, <3>4, TransferData
      <3>6. Follows(WithTransfer(both, t), world, Apply(world, t), lossy)
        BY <1>3, <1>5, <3>4, TransferFollows
      <3> QED
        BY <2>1, <2>2, <3>5, <3>6 DEF moved
    <2>3. CASE ~ n > 0
      <3>1. n = 0
        <4>1. n \in Nat
          BY SummaryAssumption
        <4> QED
          BY <2>3, <4>1
      <3>2. Follows(NoData, world, Apply(world, t), lossy)
        BY <1>3, <1>5, <2>1, <3>1, NothingFollows
      <3> QED
        BY <2>1, <2>3, <3>2 DEF moved
    <2> QED
      BY <2>2, <2>3
  <1> HIDE DEF data, first
  <1>9. c \in Call /\ c.before = world /\ c.done = NoData /\ c.data = first
    BY <1>3, <1>4, <1>8, EmptyTypes DEF Call
  <1> HIDE DEF c
  <1>10. defined \subseteq defined' /\ defined' \subseteq Variables
    BY <1>1, <1>3, <1>4 DEF Accounted, Typed, Variables, Balances
  <1> DEFINE ds == Opened(calls, data)
  <1>11. /\ ds \in Seq(Call) /\ Len(ds) = Len(calls) /\ ds[1].before = calls[1].before
         /\ StackOK(Append(ds, c), moved, lossy, defined')
    <2>1. PICK E : E = defined'
      OBVIOUS
    <2>3. defined \subseteq E
      BY <1>10, <2>1
    <2>4. \A m \in World : Follows(calls[Len(calls)].data, m, world, lossy) => Follows(data, m, world, lossy)
      BY <1>7 DEF Top
    <2>5. Zeros(c.data.uses) /\ Follows(c.data, world, moved, lossy)
      BY <1>8, <1>9
    <2>6. /\ ds \in Seq(Call) /\ Len(ds) = Len(calls) /\ ds[1].before = calls[1].before
          /\ StackOK(Append(ds, c), moved, lossy, E)
      BY <1>2, <1>6, <1>7, <1>9, <2>3, <2>4, <2>5, CallOpens
    <2> QED
      BY <2>1, <2>6
  <1> HIDE DEF ds
  <1>12. calls'[1].before = calls[1].before
    <2>1. calls' = Append(ds, c)
      BY <1>1 DEF ds
    <2>2. 1 \in 1..Len(ds)
      BY <1>3, <1>11
    <2>3. Append(ds, c)[1] = ds[1]
      BY <1>9, <1>11, <2>2, AppendProperties
    <2> QED
      BY <1>11, <2>1, <2>3
  <1>13. StackOK(calls', world', lossy', defined')
    BY <1>1, <1>11 DEF ds
  <1>14. ops' \in 0..MaxOps
    BY <1>1, SummaryAssumption DEF Accounted, Typed, Running
  <1>15. clear' \subseteq Accounts /\ lossy' \in BOOLEAN
    BY <1>1 DEF Accounted, Typed
  <1> QED
    BY <1>1, <1>2, <1>10, <1>12, <1>13, <1>14, <1>15, OpenKeeps

LEMMA ExitAccounted ==
  ASSUME Accounted, NEW ok \in BOOLEAN, Exit(ok) PROVE Accounted'
  <1> DEFINE n == Len(calls) - 1
             o == Overall(Top, ok)
             m == lossy \/ Loses(Top, ok)
  <1>1. /\ Len(calls) > 1 /\ world' = IF ok THEN world ELSE Top.before
        /\ calls' = Closed(calls, o)
        /\ lossy' = m
        /\ UNCHANGED <<tx, defined, clear, summary, ops>>
    BY DEF Exit, Below, Closed
  <1>2. StackOK(calls, world, lossy, defined)
    BY DEF Accounted
  <1>3. calls # << >>
    BY <1>1, EmptySeq
  <1>4. /\ Top \in Call /\ Top.data \in Data /\ Top.done \in Data /\ Top.before \in World
        /\ Zeros(Top.data.uses) /\ Zeros(Top.done.uses) /\ Frame(Top, world, lossy) /\ world \in World
        /\ Len(calls) \in 1..Len(calls)
    BY <1>2, <1>3, TopParts
  <1>5. o \in Data /\ Zeros(o.uses)
    BY <1>4, OverallParts, ZerosFold
  <1>6. world' \in World
    BY <1>1, <1>4
  <1>7. \A a \in Accounts : <<"slot", a>> \notin defined => world'.slot[a] = 0
    BY <1>1, <1>2, <1>4 DEF StackOK, Top
  <1>9. PICK lost \in BOOLEAN : lost = m
    BY DEF Loses
  <1>9a. /\ lossy' = lost /\ (lossy => lost) /\ (Loses(Top, ok) => lost)
    BY <1>1, <1>9
  <1> HIDE DEF m
  <1>8. Follows(o, Top.before, world', lost)
    <2>1. CASE ok
      <3>1. PICK mid \in World : Follows(Top.done, Top.before, mid, lossy) /\ Follows(Top.data, mid, world, lossy)
        BY <1>4 DEF Frame
      <3>2. Follows(Fold(Top.done, Top.data), Top.before, world, lossy)
        BY <1>4, <3>1, FollowsFold
      <3>4. ok = TRUE
        BY <2>1
      <3>5. (lossy => lost) /\ (Loses(Top, TRUE) => lost)
        BY <1>9a, <3>4
      <3>3. Follows(Overall(Top, TRUE), Top.before, world, lost)
        BY <1>4, <3>2, <3>5, OverallFollows
      <3> QED
        BY <1>1, <3>3, <3>4
    <2>2. CASE ~ ok
      <3>1. Follows(Overall(Top, FALSE), Top.before, Top.before, lost)
        BY <1>4, FailureFollows
      <3>2. ok = FALSE
        BY <2>2
      <3> QED
        BY <1>1, <3>1, <3>2
    <2> QED
      BY <2>1, <2>2
  <1> HIDE DEF o
  <1>10. PICK x \in World : x = world'
    BY <1>6
  <1>11. /\ Closed(calls, o) # << >> /\ Closed(calls, o)[1].before = calls[1].before
         /\ StackOK(Closed(calls, o), x, lost, defined)
    <2>2. Follows(o, calls[Len(calls)].before, x, lost)
      BY <1>8, <1>10 DEF Top
    <2>3. \A a \in Accounts : <<"slot", a>> \notin defined => x.slot[a] = 0
      BY <1>7, <1>10
    <2>4. Len(calls) > 1 /\ (lossy => lost)
      BY <1>1, <1>9a
    <2> QED
      BY <1>2, <1>5, <2>2, <2>3, <2>4, CallCloses
  <1>11a. StackOK(calls', world', lossy', defined') /\ calls'[1].before = calls[1].before
    BY <1>1, <1>9a, <1>10, <1>11
  <1>12. defined' \subseteq Variables /\ clear' \subseteq Accounts /\ lossy' \in BOOLEAN /\ ops' \in 0..MaxOps
    BY <1>1, <1>9a DEF Accounted, Typed
  <1> QED
    BY <1>1, <1>3, <1>11a, <1>12, OpenKeeps

\* The call whose overall values the summary has.
LEMMA FinalFollows ==
  ASSUME Accounted, Len(calls) = 1, NEW ok \in BOOLEAN
  PROVE  LET c == Final(ok)
         IN  /\ c \in Call /\ Zeros(Fold(c.done, c.data).uses)
             /\ ok => Follows(Fold(c.done, c.data), Paid,
                              IF tx.value > 0
                              THEN Apply(world, EtherTransfer(Sender, tx.to, tx.value)) ELSE world,
                              lossy)
  <1> DEFINE n     == tx.value
             t     == EtherTransfer(Sender, tx.to, n)
             used  == WithUse(Top.data, <<"balance", Sender>>, BalanceOf(world, Sender) - n)
             gives == WithDef(used, <<"balance", Sender>>, BalanceOf(world, Sender))
             both  == WithDef(gives, <<"balance", tx.to>>, BalanceOf(world, tx.to))
             all   == WithTransfer(both, t)
             c     == Final(ok)
  <1>1. StackOK(calls, world, lossy, defined) /\ calls # << >> /\ Typed
    BY EmptySeq DEF Accounted
  <1>2. /\ Top \in Call /\ Top.data \in Data /\ Top.done \in Data
        /\ Zeros(Top.data.uses) /\ Zeros(Top.done.uses) /\ Frame(Top, world, lossy) /\ world \in World
    BY <1>1, TopParts
  <1>3. Top.before = Paid /\ Paid \in World
    BY <1>1, PaidType DEF Accounted, Top
  <1>4. Sender \in Accounts /\ tx.to \in Accounts /\ n \in Int
    <2>1. Sender \in Accounts /\ Contracts \subseteq Accounts /\ Amounts \subseteq Nat
      BY SummaryAssumption
    <2>2. tx.to \in Contracts /\ n \in Amounts
      BY <1>1 DEF Typed
    <2>3. n \in Nat
      BY <2>1, <2>2
    <2>4. tx.to \in Accounts
      BY <2>1, <2>2
    <2> QED
      BY <2>1, <2>3, <2>4
  <1>5. PICK mid \in World : Follows(Top.done, Paid, mid, lossy) /\ Follows(Top.data, mid, world, lossy)
    BY <1>2, <1>3 DEF Frame
  <1> HIDE DEF n
  <1>6. IsTransfer(t) /\ t.asset \notin Collections
    BY <1>4, EtherIsTransfer
  <1> HIDE DEF t
  <1>7. /\ BalanceOf(world, Sender) \in Int /\ BalanceOf(world, tx.to) \in Int
        /\ BalanceOf(world, Sender) - n \in Int
    BY <1>2, <1>4, BalanceType
  <1>9. used \in Data /\ Zeros(used.uses) /\ Follows(used, mid, world, lossy)
    BY <1>2, <1>4, <1>5, <1>7, BalanceUse
  <1> HIDE DEF used
  <1>10. gives \in Data /\ Zeros(gives.uses) /\ Follows(gives, mid, world, lossy)
    BY <1>4, <1>7, <1>9, BalanceDef
  <1> HIDE DEF gives
  <1>11. both \in Data /\ Zeros(both.uses) /\ Follows(both, mid, world, lossy)
    BY <1>4, <1>7, <1>10, BalanceDef
  <1> HIDE DEF both
  <1>12. all \in Data /\ Zeros(all.uses) /\ Follows(all, mid, Apply(world, t), lossy)
    BY <1>2, <1>6, <1>11, TransferData, TransferFollows
  <1> HIDE DEF all
  <1>13. c = IF ok /\ n > 0 THEN [Top EXCEPT !.data = all] ELSE Top
    BY DEF Final, all, both, gives, used, t, n
  <1> HIDE DEF c
  <1>14. c \in Call /\ c.done = Top.done /\ c.data = IF ok /\ n > 0 THEN all ELSE Top.data
    BY <1>2, <1>12, <1>13 DEF Call
  <1>15. c.data \in Data /\ Zeros(c.data.uses)
    BY <1>2, <1>12, <1>14
  <1>16. Zeros(Fold(c.done, c.data).uses)
    BY <1>2, <1>14, <1>15, ZerosFold
  <1>17. Apply(world, t) \in World
    BY <1>2, <1>6, ApplyType
  <1>18. ASSUME ok PROVE Follows(Fold(c.done, c.data), Paid, IF n > 0 THEN Apply(world, t) ELSE world, lossy)
    <2> DEFINE u == IF n > 0 THEN Apply(world, t) ELSE world
    <2>1. u \in World
      BY <1>2, <1>17
    <2>2. Follows(c.data, mid, u, lossy)
      BY <1>5, <1>12, <1>14, <1>18
    <2> HIDE DEF u
    <2>3. Follows(Fold(c.done, c.data), Paid, u, lossy)
      BY <1>2, <1>3, <1>5, <1>14, <1>15, <2>1, <2>2, FollowsFold
    <2> QED
      BY <2>3 DEF u
  <1> QED
    BY <1>14, <1>16, <1>18 DEF c, t, n

\* Where the value of the transaction is moved when it starts or when it
\* ends, the changes are the same.
LEMMA SameChanges ==
  ASSUME Typed, NEW w \in World, NEW k \in Keys
  PROVE  LET t == EtherTransfer(Sender, tx.to, tx.value)
             u == IF tx.value > 0 THEN Apply(w, t) ELSE w
         IN  /\ u \in World /\ u.slot = w.slot
             /\ HeldAt(u, k) - HeldAt(Paid, k) = HeldAt(w, k) - HeldAt(Fresh, k)
             /\ Owned(u, k) = Owned(w, k) /\ Owned(Paid, k) = Owned(Fresh, k)
  <1> DEFINE n == tx.value
             t == EtherTransfer(Sender, tx.to, n)
             u == IF n > 0 THEN Apply(w, t) ELSE w
             out == IF k = <<t.from, t.asset>> THEN t.amount ELSE 0
             in  == IF k = <<t.to, t.asset>> THEN t.amount ELSE 0
  <1>1. Sender \in Accounts /\ tx.to \in Accounts /\ n \in Nat
    <2>1. Sender \in Accounts /\ Contracts \subseteq Accounts /\ Amounts \subseteq Nat
      BY SummaryAssumption
    <2>2. tx.to \in Contracts /\ n \in Amounts
      BY DEF Typed
    <2>3. n \in Nat
      BY <2>1, <2>2
    <2>4. tx.to \in Accounts
      BY <2>1, <2>2
    <2> QED
      BY <2>1, <2>3, <2>4
  <1>2. IsTransfer(t) /\ t.asset \notin Collections /\ t.amount = n
    BY <1>1, EtherIsTransfer
  <1>3. Fresh \in World /\ Paid = Apply(Fresh, t)
    BY FreshType DEF Paid
  <1> HIDE DEF n, t
  <1>4. Apply(w, t) \in World /\ Apply(w, t).slot = w.slot
    BY <1>2, ApplyType
  <1>5. /\ HeldAt(Apply(w, t), k) = (HeldAt(w, k) - out) + in
        /\ Owned(Apply(w, t), k) = Owned(w, k)
    BY <1>2, ApplyFungible
  <1>6. /\ HeldAt(Paid, k) = (HeldAt(Fresh, k) - out) + in
        /\ Owned(Paid, k) = Owned(Fresh, k)
    BY <1>2, <1>3, ApplyFungible
  <1>7. out \in Int /\ in \in Int /\ (~ n > 0 => out = 0 /\ in = 0)
    BY <1>1, <1>2
  <1>8. HeldAt(w, k) \in Int /\ HeldAt(Fresh, k) \in Int
    BY <1>3, HoldingType
  <1> HIDE DEF out, in
  <1>9. CASE n > 0
    <2>1. u = Apply(w, t)
      BY <1>9
    <2>2. HeldAt(u, k) - HeldAt(Paid, k) = HeldAt(w, k) - HeldAt(Fresh, k)
      BY <1>5, <1>6, <1>7, <1>8, <2>1
    <2> QED
      BY <1>4, <1>5, <1>6, <2>1, <2>2 DEF n, t
  <1>10. CASE ~ n > 0
    <2>1. u = w
      BY <1>10
    <2>2. HeldAt(Paid, k) = HeldAt(Fresh, k)
      BY <1>6, <1>7, <1>8, <1>10
    <2> QED
      BY <1>6, <2>1, <2>2 DEF n, t
  <1> QED
    BY <1>9, <1>10

LEMMA ProfitsExact ==
  ASSUME Typed, NEW w \in World, NEW ps, IsProfits(ps), NEW l,
         \A k \in Keys : (l /\ k[2] \in Collections)
                           \/ Moved(ps, Paid, IF tx.value > 0
                                              THEN Apply(w, EtherTransfer(Sender, tx.to, tx.value))
                                              ELSE w, k)
  PROVE  /\ \A h \in Holdings : WorthAt(ps, h) = w.held[h] - tx.before.held[h]
         /\ ~ l => \A a \in Accounts, c \in Collections :
                     WorthAt(ps, <<a, c>>) = TokensOf(w, a, c) - TokensOf(tx.before, a, c)
  <1> DEFINE u == IF tx.value > 0 THEN Apply(w, EtherTransfer(Sender, tx.to, tx.value)) ELSE w
             N(v, k) == Cardinality(Owned(v, k))
  <1>1. tx.before = Fresh /\ Fresh \in World /\ Paid \in World
    BY FreshType, PaidType DEF Typed
  <1>2. ASSUME NEW k \in Keys, ~ (l /\ k[2] \in Collections)
        PROVE  /\ WorthAt(ps, k) = (HeldAt(w, k) - HeldAt(Fresh, k)) + N(w, k) - N(Fresh, k)
               /\ HeldAt(w, k) \in Int /\ HeldAt(Fresh, k) \in Int
               /\ N(w, k) \in Int /\ N(Fresh, k) \in Int
    <2>1. /\ u \in World
          /\ HeldAt(u, k) - HeldAt(Paid, k) = HeldAt(w, k) - HeldAt(Fresh, k)
          /\ Owned(u, k) = Owned(w, k) /\ Owned(Paid, k) = Owned(Fresh, k)
      BY SameChanges
    <2>2. Moved(ps, Paid, u, k)
      BY <1>2
    <2> HIDE DEF u
    <2>3. /\ HeldAt(Paid, k) \in Int /\ Owned(Paid, k) \in SUBSET Tokens
          /\ HeldAt(u, k) \in Int /\ Owned(u, k) \in SUBSET Tokens
          /\ HeldAt(w, k) \in Int /\ Owned(w, k) \in SUBSET Tokens
          /\ HeldAt(Fresh, k) \in Int /\ Owned(Fresh, k) \in SUBSET Tokens
      BY <1>1, <2>1, HoldingType
    <2>4. WorthAt(ps, k) = Worth(Change(HeldAt(Paid, k), Owned(Paid, k), HeldAt(u, k), Owned(u, k)))
      BY <2>2, WorthAtIsWorth DEF Moved
    <2>5. WorthAt(ps, k) = (HeldAt(u, k) - HeldAt(Paid, k)) + N(u, k) - N(Paid, k)
      BY <2>3, <2>4, WorthOfChange
    <2>6. N(u, k) = N(w, k) /\ N(Paid, k) = N(Fresh, k)
      BY <2>1
    <2>7. IsFiniteSet(Owned(w, k)) /\ IsFiniteSet(Owned(Fresh, k))
      BY <2>3, AssetsAssumption, FS_Subset
    <2>8. N(w, k) \in Nat /\ N(Fresh, k) \in Nat
      BY <2>7, FS_CardinalityType
    <2> HIDE DEF N
    <2> QED
      BY <2>1, <2>3, <2>5, <2>6, <2>8
  <1>3. ASSUME NEW h \in Holdings PROVE WorthAt(ps, h) = w.held[h] - tx.before.held[h]
    <2>1. h \in Keys /\ h[2] \in Fungibles /\ h[2] \notin Collections
      BY AssetsAssumption DEF Holdings, Keys, Assets
    <2>2. Owned(w, h) = {} /\ Owned(Fresh, h) = {}
      BY <2>1 DEF Owned
    <2>3. N(w, h) = 0 /\ N(Fresh, h) = 0
      BY <2>2, FS_EmptySet
    <2>4. HeldAt(w, h) = w.held[h] /\ HeldAt(Fresh, h) = tx.before.held[h]
      BY <1>1, <2>1 DEF HeldAt
    <2> HIDE DEF N
    <2> QED
      BY <1>2, <2>1, <2>3, <2>4
  <1>4. ASSUME ~ l, NEW a \in Accounts, NEW c \in Collections
        PROVE  WorthAt(ps, <<a, c>>) = TokensOf(w, a, c) - TokensOf(tx.before, a, c)
    <2> DEFINE k == <<a, c>>
    <2>1. k \in Keys /\ k[2] \in Collections /\ k[2] \notin Fungibles /\ k[1] = a /\ k[2] = c
      BY AssetsAssumption DEF Keys, Assets
    <2> HIDE DEF k
    <2>2. HeldAt(w, k) = 0 /\ HeldAt(Fresh, k) = 0
      BY <2>1 DEF HeldAt
    <2>3. /\ Owned(w, k) = {t \in Tokens : w.owner[<<c, t>>] = a}
          /\ Owned(Fresh, k) = {t \in Tokens : Fresh.owner[<<c, t>>] = a}
      BY <2>1 DEF Owned
    <2>4. N(w, k) = TokensOf(w, a, c) /\ N(Fresh, k) = TokensOf(tx.before, a, c)
      BY <1>1, <2>3 DEF TokensOf
    <2> HIDE DEF N
    <2>5. WorthAt(ps, k) = TokensOf(w, a, c) - TokensOf(tx.before, a, c)
      BY <1>2, <1>4, <2>1, <2>2, <2>4
    <2> QED
      BY <2>5 DEF k
  <1> QED
    BY <1>3, <1>4

LEMMA ChangedParts ==
  ASSUME NEW vs \in VariableLists
  PROVE  /\ IsVariables(Changed(vs))
         /\ DOMAIN Changed(vs) = {v \in DOMAIN vs : vs[v] # Original(v)}
         /\ \A v \in DOMAIN Changed(vs) : Changed(vs)[v] = vs[v]
  <1>1. IsVariables(vs)
    BY VariableList
  <1> DEFINE K == {v \in DOMAIN vs : vs[v] # Original(v)}
  <1>2. Changed(vs) = [v \in K |-> vs[v]]
    BY DEF Changed, Restrict
  <1>3. K \subseteq DOMAIN vs /\ \A v \in K : vs[v] \in Int
    BY <1>1 DEF IsVariables
  <1> HIDE DEF K
  <1>4. IsVariables(Changed(vs)) /\ DOMAIN Changed(vs) = K /\ \A v \in K : Changed(vs)[v] = vs[v]
    BY <1>1, <1>2, <1>3 DEF IsVariables
  <1> QED
    BY <1>4 DEF K

\* The transaction is over.
LEMMA EndAccounted ==
  ASSUME Accounted, NEW ok \in BOOLEAN, End(ok) PROVE Accounted'
  <1> DEFINE c     == Final(ok)
             whole == Fold(c.done, c.data)
             o     == Overall(c, ok)
             u     == IF tx.value > 0 THEN Apply(world, EtherTransfer(Sender, tx.to, tx.value)) ELSE world
  <1>1. /\ Len(calls) = 1 /\ calls' = << >> /\ world' = IF ok THEN world ELSE tx.before
        /\ summary' = [ended |-> TRUE, ok |-> ok, profits |-> o.profits,
                       defs |-> Changed(o.defs), uses |-> o.uses]
        /\ UNCHANGED <<tx, defined, clear, lossy, ops>>
    BY DEF End
  <1>2. Typed /\ StackOK(calls, world, lossy, defined) /\ world \in World
    BY DEF Accounted, StackOK
  <1>3. tx.before = Fresh /\ tx' = tx
    BY <1>1, <1>2 DEF Typed
  <1>4. c \in Call /\ Zeros(whole.uses)
    BY <1>1, FinalFollows
  <1>4a. ok => Follows(whole, Paid, u, lossy)
    BY <1>1, FinalFollows
  <1>5. /\ o \in Data /\ o.uses = whole.uses
        /\ ok => o.profits = Compact(whole.profits) /\ o.defs = whole.defs
        /\ ~ ok => o.profits = Empty /\ o.defs = Empty
    BY <1>4, OverallParts
  <1>6. whole \in Data
    BY <1>4, FoldType DEF Call
  <1> HIDE DEF c, whole, o
  <1>7. o.profits \in ProfitLists /\ o.defs \in VariableLists /\ o.uses \in VariableLists
    BY <1>5 DEF Data
  <1>8. IsProfits(whole.profits) /\ whole.defs \in VariableLists
    BY <1>6, ProfitList DEF Data
  <1>9. /\ summary'.ended /\ summary'.profits = o.profits /\ summary'.uses = o.uses
        /\ summary'.defs = Changed(o.defs)
    BY <1>1
  <1>10. Typed'
    <2>1. IsData(summary')
      BY <1>7, <1>9, ProfitList, VariableList, ChangedParts DEF IsData
    <2>2. \A k \in DOMAIN o.profits : ~ Zero(o.profits[k])
      <3>1. CASE ok
        BY <1>5, <1>8, <3>1, CompactProperties
      <3>2. CASE ~ ok
        BY <1>5, <3>2, EmptyTypes
      <3> QED
        BY <3>1, <3>2
    <2>3. \A k \in DOMAIN summary'.profits : ~ Zero(summary'.profits[k])
      BY <1>9, <2>2
    <2>4. IsData(summary)'
      BY <2>1 DEF IsData
    <2> QED
      BY <1>1, <1>2, <2>3, <2>4 DEF Typed
  <1>11. world' \in World /\ \A a \in Accounts : <<"slot", a>> \notin defined => world'.slot[a] = 0
    BY <1>1, <1>2, <1>3, FreshType DEF StackOK
  <1>12. StackOK(calls', world', lossy', defined')
    <2>1. calls' \in Seq(Call) /\ Len(calls') = 0
      BY <1>1, EmptySeq
    <2>2. \A i \in 1..Len(calls') : FALSE
      BY <2>1
    <2> QED
      BY <1>1, <1>11, <2>1, <2>2 DEF StackOK
  <1>13. ProfitsAreHoldings'
    <2>1. CASE ok
      <3>1. /\ \A h \in Holdings : WorthAt(whole.profits, h) = world.held[h] - tx.before.held[h]
            /\ ~ lossy => \A a \in Accounts, x \in Collections :
                 WorthAt(whole.profits, <<a, x>>) = TokensOf(world, a, x) - TokensOf(tx.before, a, x)
        <4>1. \A k \in Keys : (lossy /\ k[2] \in Collections) \/ Moved(whole.profits, Paid, u, k)
          BY <1>4a, <2>1 DEF Follows
        <4> QED
          BY <1>2, <1>8, <4>1, ProfitsExact
      <3>2. \A k : WorthAt(summary'.profits, k) = WorthAt(whole.profits, k)
        BY <1>5, <1>8, <1>9, <2>1, CompactProperties
      <3>3. world' = world /\ lossy' = lossy
        BY <1>1, <2>1
      <3>4. FungiblesExact'
        BY <1>3, <3>1, <3>2, <3>3 DEF FungiblesExact
      <3>5. lossy' \/ TokensExact'
        BY <1>3, <3>1, <3>2, <3>3 DEF TokensExact, TokensOf
      <3> QED
        BY <3>4, <3>5 DEF ProfitsAreHoldings
    <2>2. CASE ~ ok
      <3>1. \A k : WorthAt(summary'.profits, k) = 0
        BY <1>5, <1>9, <2>2, EmptyTypes DEF WorthAt
      <3>2. world' = tx'.before /\ world' = Fresh
        BY <1>1, <1>3, <2>2
      <3>3. FungiblesExact'
        <4>1. \A h \in Holdings : Fresh.held[h] \in Int
          BY FreshType, WorldParts
        <4> QED
          BY <3>1, <3>2, <4>1 DEF FungiblesExact
      <3>4. TokensExact'
        <4>1. ASSUME NEW a \in Accounts, NEW x \in Collections
              PROVE  TokensOf(Fresh, a, x) - TokensOf(Fresh, a, x) = 0
          <5>1. {t \in Tokens : Fresh.owner[<<x, t>>] = a} \in SUBSET Tokens
            OBVIOUS
          <5>2. IsFiniteSet({t \in Tokens : Fresh.owner[<<x, t>>] = a})
            BY <5>1, AssetsAssumption, FS_Subset
          <5>3. TokensOf(Fresh, a, x) \in Nat
            BY <5>2, FS_CardinalityType DEF TokensOf
          <5> QED
            BY <5>3
        <4>2. \A a \in Accounts, x \in Collections :
                TokensOf(world', a, x) - TokensOf(tx'.before, a, x) = 0
          BY <3>2, <4>1
        <4> QED
          BY <3>1, <4>2 DEF TokensExact, TokensOf
      <3> QED
        BY <3>3, <3>4 DEF ProfitsAreHoldings
    <2> QED
      BY <2>1, <2>2
  <1>14. DefsAreChanges'
    <2> SUFFICES ASSUME NEW a \in Accounts
                 PROVE  IF world'.slot[a] = tx'.before.slot[a]
                        THEN <<"slot", a>> \notin DOMAIN summary'.defs
                        ELSE /\ <<"slot", a>> \in DOMAIN summary'.defs
                             /\ summary'.defs[<<"slot", a>>] = world'.slot[a]
      BY DEF DefsAreChanges
    <2> DEFINE v == <<"slot", a>>
    <2>1. /\ DOMAIN summary'.defs = {x \in DOMAIN o.defs : o.defs[x] # Original(x)}
          /\ \A x \in DOMAIN summary'.defs : summary'.defs[x] = o.defs[x]
      <3>1. /\ DOMAIN Changed(o.defs) = {x \in DOMAIN o.defs : o.defs[x] # Original(x)}
            /\ \A x \in DOMAIN Changed(o.defs) : Changed(o.defs)[x] = o.defs[x]
        BY <1>7, ChangedParts
      <3> QED
        BY <1>9, <3>1
    <2>2. Original(v) = Fresh.slot[a] /\ tx'.before.slot[a] = Fresh.slot[a]
      BY <1>3 DEF Original
    <2>3. CASE ok
      <3>1. SlotMoved(whole.defs, Paid, u, a)
        BY <1>4a, <2>3 DEF Follows
      <3>2. Paid.slot = Fresh.slot
        BY <1>2, PaidType
      <3>3. u.slot = world.slot
        <4>1. Sender \in Accounts /\ tx.to \in Accounts /\ tx.value \in Int
          <5>1. Sender \in Accounts /\ Contracts \subseteq Accounts /\ Amounts \subseteq Nat
            BY SummaryAssumption
          <5>2. tx.to \in Contracts /\ tx.value \in Amounts
            BY <1>2 DEF Typed
          <5>3. tx.value \in Nat
            BY <5>1, <5>2
          <5>4. tx.to \in Accounts
            BY <5>1, <5>2
          <5> QED
            BY <5>1, <5>3, <5>4
        <4>2. Apply(world, EtherTransfer(Sender, tx.to, tx.value)).slot = world.slot
          BY <1>2, <4>1, EtherIsTransfer, ApplyType
        <4> QED
          BY <4>2
      <3>4. world'.slot[a] = IF v \in DOMAIN o.defs THEN o.defs[v] ELSE Fresh.slot[a]
        BY <1>1, <1>5, <2>3, <3>1, <3>2, <3>3 DEF SlotMoved
      <3> HIDE DEF v
      <3>5. IF world'.slot[a] = tx'.before.slot[a] THEN v \notin DOMAIN summary'.defs
            ELSE v \in DOMAIN summary'.defs /\ summary'.defs[v] = world'.slot[a]
        BY <2>1, <2>2, <3>4
      <3> QED
        BY <3>5 DEF v
    <2>4. CASE ~ ok
      <3>1. DOMAIN summary'.defs = {}
        BY <1>5, <2>1, <2>4, EmptyTypes
      <3>2. world' = tx'.before
        BY <1>1, <1>3, <2>4
      <3> QED
        BY <3>1, <3>2
    <2> QED
      BY <2>3, <2>4
  <1>15. UsesAreOriginal'
    <2>1. Zeros(summary'.uses) /\ tx'.before = Fresh
      BY <1>3, <1>4, <1>5, <1>9
    <2> QED
      BY <2>1, FreshType DEF UsesAreOriginal, Zeros
  <1> QED
    BY <1>1, <1>10, <1>12, <1>13, <1>14, <1>15 DEF Accounted

\* Every step keeps the accounts.
LEMMA StepAccounted == Accounted /\ [Next]_vars => Accounted'
  <1> SUFFICES ASSUME Accounted, [Next]_vars PROVE Accounted'
    OBVIOUS
  <1>1. ASSUME NEW n \in Values, Store(n) PROVE Accounted'
    BY <1>1, StoreAccounted
  <1>2. CASE Load
    BY <1>2, LoadAccounted
  <1>3. ASSUME NEW a \in Accounts, ReadBalance(a) PROVE Accounted'
    BY <1>3, BalanceReadAccounted DEF ReadBalance
  <1>4. ASSUME NEW t \in Emitted, Log(t) PROVE Accounted'
    BY <1>4, LogAccounted
  <1>5. ASSUME NEW op \in {"CALL", "DELEGATECALL"}, NEW to \in Contracts, NEW n \in Amounts,
               Enter(op, to, n)
        PROVE  Accounted'
    BY <1>5, EnterAccounted
  <1>6. ASSUME NEW n \in Amounts, Refuse(n) PROVE Accounted'
    <2>1. /\ Running /\ SetTop(WithUse(Top.data, <<"balance", Top.self>>, BalanceOf(world, Top.self)))
          /\ ops' = ops + 1 /\ UNCHANGED <<world, tx, defined, clear, lossy, summary>>
      BY <1>6 DEF Refuse
    <2>2. Top.self \in Accounts
      BY <2>1, TopParts DEF Accounted, Running
    <2>3. PICK a \in Accounts : a = Top.self
      BY <2>2
    <2> QED
      BY <2>1, <2>3, BalanceReadAccounted
  <1>7. ASSUME NEW ok \in BOOLEAN, Exit(ok) PROVE Accounted'
    BY <1>7, ExitAccounted
  <1>8. ASSUME NEW ok \in BOOLEAN, End(ok) PROVE Accounted'
    BY <1>8, EndAccounted
  <1>9. CASE UNCHANGED vars
    <2>1. Typed'
      BY <1>9 DEF Accounted, Typed, IsData, vars
    <2>2. Paid' = Paid
      BY <1>9 DEF Paid, vars
    <2>3. ProfitsAreHoldings' /\ DefsAreChanges' /\ UsesAreOriginal'
      BY <1>9 DEF Accounted, vars, ProfitsAreHoldings, FungiblesExact, TokensExact, TokensOf,
                  DefsAreChanges, UsesAreOriginal
    <2>4. StackOK(calls', world', lossy', defined')
      BY <1>9 DEF Accounted, vars
    <2> QED
      BY <1>9, <2>1, <2>2, <2>3, <2>4 DEF Accounted, vars
  <1> QED
    BY <1>1, <1>2, <1>3, <1>4, <1>5, <1>6, <1>7, <1>8, <1>9 DEF Next

\* At every moment, what each open call has recorded accounts for what has
\* happened in it.
THEOREM SummaryInvariance == Spec => []Accounted
  BY InitAccounted, StepAccounted, PTL DEF Spec

\* Every variable of the tracer keeps its type.
THEOREM SummaryTypeCorrect == Spec => []TypeOK
  <1>1. Accounted => TypeOK
    <2> SUFFICES ASSUME Accounted PROVE TypeOK
      OBVIOUS
    <2>1. calls \in Seq(Call) /\ world \in World /\ Typed
      BY DEF Accounted, StackOK
    <2>2. Len(calls) \in Nat /\ DOMAIN calls = 1..Len(calls) /\ \A i \in 1..Len(calls) : calls[i] \in Call
      BY <2>1, CallParts
    <2>3. ASSUME NEW i \in DOMAIN calls
          PROVE  /\ DOMAIN calls[i] = {"self", "done", "data", "before"}
                 /\ calls[i].self \in Accounts /\ calls[i].before \in World
                 /\ IsData(calls[i].done) /\ IsData(calls[i].data)
      <3>1. calls[i] \in Call
        BY <2>2
      <3>2. /\ calls[i].self \in Accounts /\ calls[i].before \in World
            /\ calls[i].done \in Data /\ calls[i].data \in Data
        BY <3>1 DEF Call
      <3>3. DOMAIN calls[i] = {"self", "done", "data", "before"}
        BY <3>1 DEF Call
      <3> QED
        BY <3>2, <3>3, ProfitList, VariableList DEF Data, IsData
    <2>4. calls \in Seq({calls[i] : i \in DOMAIN calls})
      BY <2>1, <2>2
    <2> QED
      BY <2>1, <2>3, <2>4 DEF TypeOK, Typed
  <1> QED
    BY <1>1, SummaryInvariance, PTL

\* The profits of a summary are what the accounts have gained and lost.
THEOREM ProfitsAreHoldingsHolds == Spec => []ProfitsAreHoldings
  <1>1. Accounted => ProfitsAreHoldings
    BY DEF Accounted
  <1> QED
    BY <1>1, SummaryInvariance, PTL

\* The slots a summary says were defined are those that have changed.
THEOREM DefsAreChangesHolds == Spec => []DefsAreChanges
  <1>1. Accounted => DefsAreChanges
    BY DEF Accounted
  <1> QED
    BY <1>1, SummaryInvariance, PTL

\* The slots a summary says were used have the values they had before.
THEOREM UsesAreOriginalHolds == Spec => []UsesAreOriginal
  <1>1. Accounted => UsesAreOriginal
    BY DEF Accounted
  <1> QED
    BY <1>1, SummaryInvariance, PTL
=============================================================================
