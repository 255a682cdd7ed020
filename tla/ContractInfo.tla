---------------------------- MODULE ContractInfo ----------------------------
(***************************************************************************)
(* Whether the contracts a transaction invokes have published source code.  *)
(* For each record of a block computeTxRecords starts a goroutine that asks *)
(* ContractInfoProvider.IsVerified for one contract after the other, each   *)
(* with a timeout of its own, and sets SomeContractsNonVerified at the      *)
(* first that is not; Search skips such victims.  The provider asks         *)
(* TroubEth once per contract, with the context of whoever came first, and  *)
(* hands the answer to the others through an event.Feed.                    *)
(***************************************************************************)
EXTENDS Naturals, Sequences, FiniteSets

CONSTANTS
  Records, Contracts,
  Nobody,
  Invoked,      \* Invoked[r]: the contracts record r asks for, in order
  Published,    \* the contracts that are verified on Etherscan
  Outages,      \* the service may answer with a status other than 200 or 404
  Unreachable   \* requests may fail

ASSUME InvokedAssumption == Invoked \in [Records -> Seq(Contracts)]
ASSUME PublishedAssumption == Published \subseteq Contracts
ASSUME ServiceAssumption == Outages \in BOOLEAN /\ Unreachable \in BOOLEAN
ASSUME NobodyAssumption == Nobody \notin Records

VARIABLES
  pc,        \* record -> "next", "calling", "waiting", "answered", "done"
  at,        \* record -> index of the contract it asks for
  expired,   \* record -> its context of one second is done
  result,    \* record -> the answer to the call in progress
  flag,      \* record -> SomeContractsNonVerified
  tasks,     \* isVerifiedTasks: the contracts that have a feed
  query,     \* contract -> "none", "asked", "sending", "sent"
  asker,     \* contract -> the record whose context the query uses
  cancelled, \* the contracts with the context of their query done
  answer,    \* contract -> what TroubEth.IsVerified returned
  inbox,     \* contract -> subscribers, not yet part of a Send
  receivers  \* contract -> subscribers the Send in progress has not reached

vars == <<pc, at, expired, result, flag, tasks, query, asker, cancelled, answer,
          inbox, receivers>>
caller == <<at, expired, flag>>
request == <<tasks, query, asker, answer>>
provider == <<request, cancelled>>

Answers == {"none", "true", "false", "error"}

TypeOK ==
  /\ pc \in [Records -> {"next", "calling", "waiting", "answered", "done"}]
  /\ at \in [Records -> Nat]
  /\ \A r \in Records :
       /\ at[r] \in 1 .. Len(Invoked[r]) + 1
       /\ pc[r] \in {"calling", "waiting", "answered"} => at[r] <= Len(Invoked[r])
  /\ expired \in [Records -> BOOLEAN] /\ flag \in [Records -> BOOLEAN]
  /\ result \in [Records -> Answers]
  /\ tasks \subseteq Contracts
  /\ query \in [Contracts -> {"none", "asked", "sending", "sent"}]
  /\ asker \in [Contracts -> Records \cup {Nobody}] /\ cancelled \subseteq Contracts
  /\ answer \in [Contracts -> Answers]
  /\ inbox \in [Contracts -> SUBSET Records] /\ receivers \in [Contracts -> SUBSET Records]

Init ==
  /\ pc = [r \in Records |-> "next"] /\ at = [r \in Records |-> 1]
  /\ expired = [r \in Records |-> FALSE] /\ flag = [r \in Records |-> FALSE]
  /\ result = [r \in Records |-> "none"]
  /\ tasks = {} /\ query = [c \in Contracts |-> "none"]
  /\ asker = [c \in Contracts |-> Nobody] /\ cancelled = {}
  /\ answer = [c \in Contracts |-> "none"]
  /\ inbox = [c \in Contracts |-> {}] /\ receivers = [c \in Contracts |-> {}]

Contract(r) == Invoked[r][at[r]]

-----------------------------------------------------------------------------
(* The goroutine of a record.                                              *)

Ask(c, r) ==
  /\ tasks' = tasks \cup {c}
  /\ query' = [query EXCEPT ![c] = "asked"]
  /\ asker' = [asker EXCEPT ![c] = r]
  /\ UNCHANGED answer

\* Mutated form: a contract whose query has been answered is asked for again.
LoadOrAskAgain(c, r) ==
  IF query[c] \in {"asked", "sending"} THEN UNCHANGED request ELSE Ask(c, r)

\* LoadOrStore of a feed, and the goroutine that asks if there was none.
LoadOrAsk(c, r) == IF c \in tasks THEN UNCHANGED request ELSE Ask(c, r)

\* The call of IsVerified for the next contract, with a new context.
Call(r) ==
  /\ pc[r] = "next" /\ at[r] <= Len(Invoked[r])
  /\ pc' = [pc EXCEPT ![r] = "calling"]
  /\ expired' = [expired EXCEPT ![r] = FALSE]
  /\ LoadOrAsk(Contract(r), r)
  /\ UNCHANGED <<at, result, flag, cancelled, inbox, receivers>>

Subscribe(r) ==
  /\ pc[r] = "calling"
  /\ pc' = [pc EXCEPT ![r] = "waiting"]
  /\ inbox' = [inbox EXCEPT ![Contract(r)] = @ \cup {r}]
  /\ UNCHANGED <<caller, result, provider, receivers>>

\* The context of the call in progress is done, and with it that of the query
\* the call has started.
Cancel(r) ==
  /\ expired' = [expired EXCEPT ![r] = TRUE]
  /\ cancelled' = IF asker[Contract(r)] = r THEN cancelled \cup {Contract(r)} ELSE cancelled

Expire(r) ==
  /\ pc[r] \in {"calling", "waiting"} /\ ~expired[r]
  /\ Cancel(r)
  /\ UNCHANGED <<pc, at, result, flag, request, inbox, receivers>>

\* Mutated form: a Send in progress is not left.
LeaveInbox(r) ==
  /\ inbox' = [inbox EXCEPT ![Contract(r)] = @ \ {r}]
  /\ UNCHANGED receivers

Unsubscribe(r) ==
  /\ inbox' = [inbox EXCEPT ![Contract(r)] = @ \ {r}]
  /\ receivers' = [receivers EXCEPT ![Contract(r)] = @ \ {r}]

\* The select takes the context.
GiveUp(r) ==
  /\ pc[r] = "waiting" /\ expired[r]
  /\ pc' = [pc EXCEPT ![r] = "answered"]
  /\ result' = [result EXCEPT ![r] = "error"]
  /\ Unsubscribe(r)
  /\ UNCHANGED <<caller, provider>>

\* Mutated form: an error counts against the contract.
ExactlyTrue(r) == result[r] = "true"

\* "be conservative": an error counts as verified.
Verified(r) == result[r] \in {"true", "error"}

\* Back in the loop: cancel, and the next contract, or the flag and break.
Conclude(r) ==
  /\ pc[r] = "answered"
  /\ Cancel(r)
  /\ result' = [result EXCEPT ![r] = "none"]
  /\ IF Verified(r)
     THEN /\ at' = [at EXCEPT ![r] = @ + 1]
          /\ pc' = [pc EXCEPT ![r] = "next"]
          /\ UNCHANGED flag
     ELSE /\ flag' = [flag EXCEPT ![r] = TRUE]
          /\ pc' = [pc EXCEPT ![r] = "done"]
          /\ UNCHANGED at
  /\ UNCHANGED <<request, inbox, receivers>>

Finish(r) ==
  /\ pc[r] = "next" /\ at[r] > Len(Invoked[r])
  /\ pc' = [pc EXCEPT ![r] = "done"]
  /\ UNCHANGED <<caller, result, provider, inbox, receivers>>

-----------------------------------------------------------------------------
(* The goroutine of a contract.                                            *)

\* TroubEth.IsVerified: status 200 is true, every other status false.
Reply(c) ==
  {IF c \in Published THEN "true" ELSE "false"} \cup (IF Outages THEN {"false"} ELSE {})

\* No answer: the service is not reached, or the context of the query is done.
Failure(c) == IF Unreachable \/ c \in cancelled THEN {"error"} ELSE {}

\* The answer, and the beginning of Send.
IsVerified(c) ==
  /\ query[c] = "asked"
  /\ \E v \in Reply(c) \cup Failure(c) : answer' = [answer EXCEPT ![c] = v]
  /\ query' = [query EXCEPT ![c] = "sending"]
  /\ receivers' = [receivers EXCEPT ![c] = inbox[c]]
  /\ inbox' = [inbox EXCEPT ![c] = {}]
  /\ UNCHANGED <<pc, caller, result, tasks, asker, cancelled>>

\* Feed.Send reaches a subscriber that is at its select.
Deliver(c, r) ==
  /\ query[c] = "sending" /\ r \in receivers[c]
  /\ pc[r] = "waiting" /\ Contract(r) = c
  /\ receivers' = [receivers EXCEPT ![c] = @ \ {r}]
  /\ pc' = [pc EXCEPT ![r] = "answered"]
  /\ result' = [result EXCEPT ![r] = answer[c]]
  /\ UNCHANGED <<caller, provider, inbox>>

EndSend(c) ==
  /\ query[c] = "sending" /\ receivers[c] = {}
  /\ query' = [query EXCEPT ![c] = "sent"]
  /\ UNCHANGED <<pc, caller, result, tasks, asker, cancelled, answer, inbox, receivers>>

-----------------------------------------------------------------------------

Record(r) ==
  Call(r) \/ Subscribe(r) \/ Expire(r) \/ GiveUp(r) \/ Conclude(r) \/ Finish(r)
Task(c) == IsVerified(c) \/ EndSend(c) \/ \E r \in Records : Deliver(c, r)
Next == (\E r \in Records : Record(r)) \/ (\E c \in Contracts : Task(c))

\* A context expires, the selects and the goroutines are scheduled, and the
\* request to the service ends with its context.
Fairness == /\ \A r \in Records : WF_vars(Record(r))
            /\ \A c \in Contracts : WF_vars(Task(c))

Spec == Init /\ [][Next]_vars
FairSpec == Spec /\ Fairness

-----------------------------------------------------------------------------
(* Safety.                                                                 *)

\* A Send waits for every subscriber, so a subscriber that is not at its select, or
\* waits for another contract, would block it: whoever is subscribed to a feed, or
\* part of a Send in progress, waits for that contract, and is not counted twice.
SubscribersWait ==
  \A c \in Contracts :
    /\ inbox[c] \cap receivers[c] = {}
    /\ \A r \in inbox[c] \cup receivers[c] : pc[r] = "waiting" /\ Contract(r) = c

\* A record is flagged only if the service has denied one of its contracts,
\* whoever asked, and whether that call has timed out or not.
FlaggedOnDenial == \A r \in Records : flag[r] => answer[Contract(r)] = "false"

\* The service is asked once for a contract, and its answer is kept by whoever got
\* it: no two records of the process can be told different things.
OneRequest ==
  [][\A c \in Contracts : answer[c] # "none" => answer'[c] = answer[c] /\ query'[c] # "asked"]_vars

\* "skip if we know for sure contracts invoked by the victim tx is not verified"
\* (searcher.go line 377).
KnownForSure == \A r \in Records : flag[r] => Contract(r) \notin Published

(* Liveness.                                                               *)

\* The goroutines end: a Send is not blocked by callers that have gone, and a
\* caller that missed the Send does not stay.
GoroutinesEnd ==
  /\ \A r \in Records : <>(pc[r] = "done")
  /\ \A c \in Contracts : query[c] = "asked" ~> query[c] = "sent"
=============================================================================
