------------------------------- MODULE Oracle -------------------------------
(***************************************************************************)
(* AttackSearcher.CheckOracle of dataset/searcher.go:  is this pair, or    *)
(* triple, of transactions an attack?  The profits of attackers and        *)
(* victims in the order of the chain are compared with those they would    *)
(* have made without the attack.                                           *)
(*                                                                         *)
(* What each of the six summaries reports is built transfer by transfer;   *)
(* Check is the call, made once, at any moment.                            *)
(***************************************************************************)
EXTENDS Profits

CONSTANTS
  Attackers, Victims,  \* the two lists given to CheckOracle
  Transfers,           \* transfers the transactions may make
  MaxTransfers         \* bound on the transfers of all summaries together

ASSUME OracleAssumption ==
  /\ Attackers \subseteq Accounts /\ Victims \subseteq Accounts
  /\ Attackers \cap Victims = {}
  /\ Transfers \subseteq Transfer
  /\ MaxTransfers \in Nat

Summaries == {"attack", "victim", "profit",
              "attackAsIf", "victimAsIf", "profitAsIf"}

VARIABLES
  overall,  \* OverallProfits of each summary
  triple,   \* whether there is a profit transaction
  made,     \* transfers made
  verdict   \* what CheckOracle returns, with the accounts of its report

oracleVars == <<overall, triple, made, verdict>>

Pending == [state |-> "pending", attacker |-> Null, victim |-> Null]
Missed  == [state |-> "missed", attacker |-> Null, victim |-> Null]
Attack(a, v) == [state |-> "attack", attacker |-> a, victim |-> v]

OracleInit ==
  /\ overall = [s \in Summaries |-> Empty]
  /\ triple \in BOOLEAN
  /\ made = 0
  /\ verdict = Pending

\* One more transfer of a transaction.
Make(s, t) ==
  /\ verdict = Pending /\ made < MaxTransfers
  /\ s \in {"profit", "profitAsIf"} => triple
  /\ overall' = [overall EXCEPT ![s] = Compact(AddTransfer(@, t))]
  /\ made' = made + 1
  /\ UNCHANGED <<triple, verdict>>

\* The profits the attacker is said to make: those of the attack, and, as far
\* as the dropped result of Add leaves them, those of the profit transaction.
AttackTxProfits ==
  IF triple THEN DroppedAdd(overall["attack"], overall["profit"])
  ELSE {overall["attack"]}

AttackTxAsIfProfits ==
  IF triple THEN Add(overall["attackAsIf"], overall["profitAsIf"])
  ELSE overall["attackAsIf"]

\* The attackers that gain more in the attack.
Gaining(attackTxProfits) ==
  {a \in Attackers : Cmp(ProfitsOf(attackTxProfits, a),
                         ProfitsOf(AttackTxAsIfProfits, a)) = 1}

\* The victims that lose more.
Losing ==
  {v \in Victims : Cmp(ProfitsOf(overall["victim"], v),
                       ProfitsOf(overall["victimAsIf"], v)) = -1}

Check ==
  /\ verdict = Pending
  /\ \E ps \in AttackTxProfits :
       \/ /\ Gaining(ps) = {} \/ Losing = {}
          /\ verdict' = Missed
       \/ \E a \in Gaining(ps), v \in Losing : verdict' = Attack(a, v)
  /\ UNCHANGED <<overall, triple, made>>

OracleNext == Check \/ \E s \in Summaries, t \in Transfers : Make(s, t)

OracleSpec == OracleInit /\ [][OracleNext]_oracleVars

---------------------------------------------------------------------------
\* What is true of the transactions, whatever the oracle makes of it.

\* What an account gains through the attack in one asset: the attack and the
\* profit transaction together against the same two without the attack.
GainOf(real, asIf, k) ==
  WorthAt(overall[real], k) - WorthAt(overall[asIf], k)

AttackGain(a, asset) ==
  GainOf("attack", "attackAsIf", <<a, asset>>)
    + GainOf("profit", "profitAsIf", <<a, asset>>)

VictimGain(v, asset) == GainOf("victim", "victimAsIf", <<v, asset>>)

\* Every variable of the oracle keeps its type; in particular overall profits
\* are compact, as OverallProfits leaves them (summary.go:307).
OracleTypeOK ==
  /\ DOMAIN overall = Summaries
  /\ \A s \in Summaries :
        /\ IsProfits(overall[s])
        /\ \A k \in DOMAIN overall[s] : ~ Zero(overall[s][k])
  /\ ~ triple => overall["profit"] = Empty /\ overall["profitAsIf"] = Empty
  /\ made \in 0..MaxTransfers
  /\ verdict \in {Pending, Missed} \cup {Attack(a, v) : a \in Attackers, v \in Victims}

\* A pair that is reported is an attack: the attacker of the report gains in
\* some asset and loses in none, the victim loses in some and gains in none.
\* Nothing is weighed against anything else (searcher.go:180-199).
ReportedIsAttack ==
  (verdict.state = "attack" /\ ~ triple) =>
    LET a == verdict.attacker
        v == verdict.victim
    IN  /\ \A x \in Assets : AttackGain(a, x) >= 0 /\ VictimGain(v, x) =< 0
        /\ \E x \in Assets : AttackGain(a, x) > 0
        /\ \E x \in Assets : VictimGain(v, x) < 0

\* The assets in which an account gains or loses anything at all in one of
\* the two runs.
Touched(real, asIf, a) ==
  {x \in Assets : <<a, x>> \in DOMAIN overall[real] \cup DOMAIN overall[asIf]}

\* An account is clearly better off in the first run than in the second:
\* in every asset it touches.
ClearlyMore(real, asIf, a) ==
  /\ Touched(real, asIf, a) # {}
  /\ \A x \in Touched(real, asIf, a) : GainOf(real, asIf, <<a, x>>) > 0

\* A pair that is passed over is not a clear attack: no attacker gains, with a
\* victim losing, in every asset either has to do with.  (An attacker that
\* gains in one asset and stays even in another may be passed over.)
MissedIsUnclear ==
  (verdict = Missed /\ ~ triple) =>
    ~ \E a \in Attackers, v \in Victims :
        /\ ClearlyMore("attack", "attackAsIf", a)
        /\ ClearlyMore("victimAsIf", "victim", v)

\* The profits of the profit transaction count: a triple is an attack exactly
\* as far as the sums of both of the attacker's transactions say so ("attacker
\* gains more profits in the attack", searcher.go:181).
ProfitTxCounts ==
  verdict = Missed =>
    \/ Gaining(IF triple THEN Add(overall["attack"], overall["profit"])
               ELSE overall["attack"]) = {}
    \/ Losing = {}
=============================================================================
