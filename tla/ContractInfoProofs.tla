------------------------- MODULE ContractInfoProofs -------------------------
(***************************************************************************)
(* Proofs about ContractInfo, for any records, contracts and orders.        *)
(***************************************************************************)
EXTENDS ContractInfo, TLAPS

\* A contract has a feed once it has been asked for, and an answer once its query
\* is over.
QueryOK ==
  \A c \in Contracts :
    /\ query[c] = "none" <=> c \notin tasks
    /\ answer[c] = "none" <=> query[c] \in {"none", "asked"}
    /\ receivers[c] # {} => query[c] = "sending"

\* What a call returns is the answer of its contract or an error, and a flagged
\* record has stopped at the contract that was denied.
ResultOK ==
  \A r \in Records :
    /\ result[r] = "false" => pc[r] = "answered" /\ answer[Contract(r)] = "false"
    /\ pc[r] = "answered" => result[r] # "none"
    /\ flag[r] => pc[r] = "done" /\ at[r] <= Len(Invoked[r]) /\ answer[Contract(r)] = "false"

\* Without outages only unpublished contracts are denied.
DenialOK ==
  ~Outages => \A c \in Contracts : answer[c] = "false" => c \notin Published

IInv == TypeOK /\ SubscribersWait /\ QueryOK /\ ResultOK /\ DenialOK

-----------------------------------------------------------------------------

\* The contract a record asks for.
LEMMA ContractType ==
  ASSUME TypeOK, NEW r \in Records,
         \/ pc[r] \in {"calling", "waiting", "answered"}
         \/ pc[r] = "next" /\ at[r] <= Len(Invoked[r])
  PROVE  at[r] \in 1 .. Len(Invoked[r]) /\ Contract(r) \in Contracts
  <1>1. Invoked[r] \in Seq(Contracts)
    BY InvokedAssumption
  <1>2. at[r] \in 1 .. Len(Invoked[r])
    BY <1>1 DEF TypeOK
  <1> QED
    BY <1>1, <1>2 DEF Contract

\* The inductive invariant holds initially.
LEMMA InitInvariant == Init => IInv
  <1> SUFFICES ASSUME Init PROVE IInv
    OBVIOUS
  <1>1. TypeOK
    BY InvokedAssumption, NobodyAssumption DEF Init, TypeOK, Answers
  <1>2. SubscribersWait /\ QueryOK /\ ResultOK /\ DenialOK
    BY DEF Init, SubscribersWait, QueryOK, ResultOK, DenialOK
  <1> QED
    BY <1>1, <1>2 DEF IInv

\* A record asks for its next contract.
LEMMA CallKeeps ==
  ASSUME IInv, NEW r \in Records, Call(r)
  PROVE  IInv'
  <1>0. at[r] \in 1 .. Len(Invoked[r]) /\ Contract(r) \in Contracts
    BY ContractType DEF IInv, Call
  <1>1. TypeOK'
    <2>1. CASE Contract(r) \in tasks
      BY <1>0, <2>1 DEF IInv, TypeOK, Answers, Call, LoadOrAsk, request
    <2>2. CASE Contract(r) \notin tasks
      <3>1. /\ pc' = [pc EXCEPT ![r] = "calling"] /\ expired' = [expired EXCEPT ![r] = FALSE]
            /\ tasks' = tasks \cup {Contract(r)}
            /\ query' = [query EXCEPT ![Contract(r)] = "asked"]
            /\ asker' = [asker EXCEPT ![Contract(r)] = r]
            /\ UNCHANGED <<at, result, flag, cancelled, answer, inbox, receivers>>
        BY <2>2 DEF Call, LoadOrAsk, Ask
      <3> QED
        BY <1>0, <3>1 DEF IInv, TypeOK
    <2> QED
      BY <2>1, <2>2
  <1>2. SubscribersWait'
    BY <1>0 DEF IInv, TypeOK, SubscribersWait, ResultOK, QueryOK, Call, LoadOrAsk, Ask, request, Contract
  <1>3. QueryOK'
    BY <1>0 DEF IInv, TypeOK, QueryOK, Call, LoadOrAsk, Ask, request
  <1>4. ResultOK'
    BY <1>0 DEF IInv, TypeOK, ResultOK, QueryOK, SubscribersWait, Call, LoadOrAsk, Ask, request, Contract
  <1>5. DenialOK'
    BY <1>0 DEF IInv, TypeOK, DenialOK, QueryOK, Call, LoadOrAsk, Ask, request
  <1> QED
    BY <1>1, <1>2, <1>3, <1>4, <1>5 DEF IInv

\* A record subscribes to the feed of its contract.
LEMMA SubscribeKeeps ==
  ASSUME IInv, NEW r \in Records, Subscribe(r)
  PROVE  IInv'
  <1>0. at[r] \in 1 .. Len(Invoked[r]) /\ Contract(r) \in Contracts
    BY ContractType DEF IInv, Subscribe
  <1>1. TypeOK'
    BY <1>0 DEF IInv, TypeOK, Answers, Subscribe, caller, provider, request
  <1>2. SubscribersWait'
    BY <1>0 DEF IInv, TypeOK, SubscribersWait, ResultOK, QueryOK, Subscribe, caller, provider, request, Contract
  <1>3. QueryOK'
    BY <1>0 DEF IInv, TypeOK, QueryOK, Subscribe, caller, provider, request
  <1>4. ResultOK'
    BY <1>0 DEF IInv, TypeOK, ResultOK, QueryOK, SubscribersWait, Subscribe, caller, provider, request, Contract
  <1>5. DenialOK'
    BY <1>0 DEF IInv, TypeOK, DenialOK, QueryOK, Subscribe, caller, provider, request
  <1> QED
    BY <1>1, <1>2, <1>3, <1>4, <1>5 DEF IInv

\* A context expires.
LEMMA ExpireKeeps ==
  ASSUME IInv, NEW r \in Records, Expire(r)
  PROVE  IInv'
  <1>0. at[r] \in 1 .. Len(Invoked[r]) /\ Contract(r) \in Contracts
    BY ContractType DEF IInv, Expire
  <1>1. TypeOK'
    BY <1>0 DEF IInv, TypeOK, Answers, Expire, Cancel, request
  <1>2. SubscribersWait'
    BY <1>0 DEF IInv, TypeOK, SubscribersWait, ResultOK, QueryOK, Expire, Cancel, request, Contract
  <1>3. QueryOK'
    BY <1>0 DEF IInv, TypeOK, QueryOK, Expire, Cancel, request
  <1>4. ResultOK'
    BY <1>0 DEF IInv, TypeOK, ResultOK, QueryOK, SubscribersWait, Expire, Cancel, request, Contract
  <1>5. DenialOK'
    BY <1>0 DEF IInv, TypeOK, DenialOK, QueryOK, Expire, Cancel, request
  <1> QED
    BY <1>1, <1>2, <1>3, <1>4, <1>5 DEF IInv

\* A record unsubscribes, and answers itself with an error.
LEMMA GiveUpKeeps ==
  ASSUME IInv, NEW r \in Records, GiveUp(r)
  PROVE  IInv'
  <1>0. at[r] \in 1 .. Len(Invoked[r]) /\ Contract(r) \in Contracts
    BY ContractType DEF IInv, GiveUp
  <1>1. TypeOK'
    BY <1>0 DEF IInv, TypeOK, Answers, GiveUp, Unsubscribe, caller, provider, request
  <1>2. SubscribersWait'
    BY <1>0 DEF IInv, TypeOK, SubscribersWait, ResultOK, QueryOK, GiveUp, Unsubscribe, caller, provider, request, Contract
  <1>3. QueryOK'
    BY <1>0 DEF IInv, TypeOK, QueryOK, GiveUp, Unsubscribe, caller, provider, request
  <1>4. ResultOK'
    BY <1>0 DEF IInv, TypeOK, ResultOK, QueryOK, SubscribersWait, GiveUp, Unsubscribe, caller, provider, request, Contract
  <1>5. DenialOK'
    BY <1>0 DEF IInv, TypeOK, DenialOK, QueryOK, GiveUp, Unsubscribe, caller, provider, request
  <1> QED
    BY <1>1, <1>2, <1>3, <1>4, <1>5 DEF IInv

\* A record draws its conclusion from an answer.
LEMMA ConcludeKeeps ==
  ASSUME IInv, NEW r \in Records, Conclude(r)
  PROVE  IInv'
  <1>0. at[r] \in 1 .. Len(Invoked[r]) /\ Contract(r) \in Contracts
    BY ContractType DEF IInv, Conclude
  <1>1. TypeOK'
    <2>1. Len(Invoked[r]) \in Nat /\ at[r] + 1 \in 1 .. Len(Invoked[r]) + 1
      BY <1>0, InvokedAssumption
    <2>2. CASE Verified(r)
      <3>1. /\ pc' = [pc EXCEPT ![r] = "next"] /\ at' = [at EXCEPT ![r] = at[r] + 1]
            /\ expired' = [expired EXCEPT ![r] = TRUE]
            /\ result' = [result EXCEPT ![r] = "none"]
            /\ cancelled' \subseteq Contracts
            /\ UNCHANGED <<flag, request, inbox, receivers>>
        BY <1>0, <2>2 DEF IInv, TypeOK, Conclude, Cancel
      <3> QED
        BY <1>0, <2>1, <3>1 DEF IInv, TypeOK, Answers, request
    <2>3. CASE ~Verified(r)
      BY <1>0, <2>3 DEF IInv, TypeOK, Answers, Conclude, Cancel, request
    <2> QED
      BY <2>2, <2>3
  <1>2. SubscribersWait'
    BY <1>0 DEF IInv, TypeOK, SubscribersWait, ResultOK, QueryOK, Conclude, Cancel, Verified, request, Contract
  <1>3. QueryOK'
    BY <1>0 DEF IInv, TypeOK, QueryOK, Conclude, Cancel, Verified, request
  <1>4. ResultOK'
    <2>1. pc[r] = "answered" /\ UNCHANGED answer
      BY DEF Conclude, request
    <2>2. CASE Verified(r)
      BY <1>0, <2>1, <2>2 DEF IInv, TypeOK, ResultOK, Conclude, Contract
    <2>3. CASE ~Verified(r)
      <3>1. result[r] = "false" /\ answer[Contract(r)] = "false"
        BY <2>1, <2>3 DEF IInv, TypeOK, ResultOK, Verified, Answers
      <3> QED
        BY <1>0, <2>1, <2>3, <3>1 DEF IInv, TypeOK, ResultOK, Conclude, Contract
    <2> QED
      BY <2>2, <2>3
  <1>5. DenialOK'
    BY <1>0 DEF IInv, TypeOK, DenialOK, QueryOK, Conclude, Cancel, Verified, request
  <1> QED
    BY <1>1, <1>2, <1>3, <1>4, <1>5 DEF IInv

\* A record has no contract left.
LEMMA FinishKeeps ==
  ASSUME IInv, NEW r \in Records, Finish(r)
  PROVE  IInv'
  <1>1. TypeOK'
    BY DEF IInv, TypeOK, Answers, Finish, caller, provider, request
  <1>2. SubscribersWait'
    BY DEF IInv, TypeOK, SubscribersWait, ResultOK, QueryOK, Finish, caller, provider, request, Contract
  <1>3. QueryOK'
    BY DEF IInv, TypeOK, QueryOK, Finish, caller, provider, request
  <1>4. ResultOK'
    BY DEF IInv, TypeOK, ResultOK, QueryOK, SubscribersWait, Finish, caller, provider, request, Contract
  <1>5. DenialOK'
    BY DEF IInv, TypeOK, DenialOK, QueryOK, Finish, caller, provider, request
  <1> QED
    BY <1>1, <1>2, <1>3, <1>4, <1>5 DEF IInv

\* The service answers.
LEMMA IsVerifiedKeeps ==
  ASSUME IInv, NEW c \in Contracts, IsVerified(c)
  PROVE  IInv'
  <1>1. TypeOK'
    BY DEF IInv, TypeOK, Answers, IsVerified, Reply, Failure, caller
  <1>2. SubscribersWait'
    BY DEF IInv, TypeOK, SubscribersWait, ResultOK, QueryOK, IsVerified, Reply, Failure, caller, Contract
  <1>3. QueryOK'
    BY DEF IInv, TypeOK, QueryOK, IsVerified, Reply, Failure, caller
  <1>4. ResultOK'
    BY DEF IInv, TypeOK, ResultOK, QueryOK, SubscribersWait, IsVerified, Reply, Failure, caller, Contract
  <1>5. DenialOK'
    BY DEF IInv, TypeOK, DenialOK, QueryOK, IsVerified, Reply, Failure, caller
  <1> QED
    BY <1>1, <1>2, <1>3, <1>4, <1>5 DEF IInv

\* A subscriber gets the answer.
LEMMA DeliverKeeps ==
  ASSUME IInv, NEW c \in Contracts, NEW r \in Records, Deliver(c, r)
  PROVE  IInv'
  <1>1. TypeOK'
    BY DEF IInv, TypeOK, Answers, Deliver, caller, provider, request
  <1>2. SubscribersWait'
    BY DEF IInv, TypeOK, SubscribersWait, ResultOK, QueryOK, Deliver, caller, provider, request, Contract
  <1>3. QueryOK'
    BY DEF IInv, TypeOK, QueryOK, Deliver, caller, provider, request
  <1>4. ResultOK'
    BY DEF IInv, TypeOK, ResultOK, QueryOK, SubscribersWait, Deliver, caller, provider, request, Contract
  <1>5. DenialOK'
    BY DEF IInv, TypeOK, DenialOK, QueryOK, Deliver, caller, provider, request
  <1> QED
    BY <1>1, <1>2, <1>3, <1>4, <1>5 DEF IInv

\* A Send is over.
LEMMA EndSendKeeps ==
  ASSUME IInv, NEW c \in Contracts, EndSend(c)
  PROVE  IInv'
  <1>1. TypeOK'
    BY DEF IInv, TypeOK, Answers, EndSend, caller
  <1>2. SubscribersWait'
    BY DEF IInv, TypeOK, SubscribersWait, ResultOK, QueryOK, EndSend, caller, Contract
  <1>3. QueryOK'
    BY DEF IInv, TypeOK, QueryOK, EndSend, caller
  <1>4. ResultOK'
    BY DEF IInv, TypeOK, ResultOK, QueryOK, SubscribersWait, EndSend, caller, Contract
  <1>5. DenialOK'
    BY DEF IInv, TypeOK, DenialOK, QueryOK, EndSend, caller
  <1> QED
    BY <1>1, <1>2, <1>3, <1>4, <1>5 DEF IInv

-----------------------------------------------------------------------------

\* Every step keeps the inductive invariant.
LEMMA NextInvariant == IInv /\ [Next]_vars => IInv'
  <1> SUFFICES ASSUME IInv, [Next]_vars PROVE IInv'
    OBVIOUS
  <1>1. CASE UNCHANGED vars
    <2>1. UNCHANGED <<pc, at, expired, result, flag, tasks, query, asker, cancelled,
                      answer, inbox, receivers>>
      BY <1>1 DEF vars
    <2> QED
      BY <2>1 DEF IInv, TypeOK, SubscribersWait, QueryOK, ResultOK, DenialOK, Contract
  <1>2. ASSUME NEW r \in Records, Record(r) PROVE IInv'
    BY <1>2, CallKeeps, SubscribeKeeps, ExpireKeeps, GiveUpKeeps, ConcludeKeeps, FinishKeeps
       DEF Record
  <1>3. ASSUME NEW c \in Contracts, Task(c) PROVE IInv'
    BY <1>3, IsVerifiedKeeps, EndSendKeeps, DeliverKeeps DEF Task
  <1> QED
    BY <1>1, <1>2, <1>3 DEF Next

\* The inductive invariant of the provider and its callers always holds.
THEOREM Invariance == Spec => []IInv
  <1> QED
    BY InitInvariant, NextInvariant, PTL DEF Spec

\* Every variable keeps its type.
THEOREM TypeCorrect == Spec => []TypeOK
  <1>1. IInv => TypeOK
    BY DEF IInv
  <1> QED
    BY <1>1, Invariance, PTL

\* Feeds and Sends know only records that wait for their contract: no Send of
\* event.Feed is blocked by a caller that has gone.
THEOREM SubscribersWaitHolds == Spec => []SubscribersWait
  <1>1. IInv => SubscribersWait
    BY DEF IInv
  <1> QED
    BY <1>1, Invariance, PTL

\* A record is flagged SomeContractsNonVerified only if the service denied one of
\* its contracts.
THEOREM FlaggedOnDenialHolds == Spec => []FlaggedOnDenial
  <1>1. IInv => FlaggedOnDenial
    BY DEF IInv, ResultOK, FlaggedOnDenial
  <1> QED
    BY <1>1, Invariance, PTL

\* If the service answers 404 for unpublished contracts only, victims are skipped
\* only when one of their contracts is unpublished.
THEOREM KnownForSureWithoutOutages == ~Outages => (Spec => []KnownForSure)
  <1> SUFFICES ASSUME ~Outages PROVE Spec => []KnownForSure
    OBVIOUS
  <1>1. IInv => KnownForSure
    <2> SUFFICES ASSUME IInv, NEW r \in Records, flag[r] PROVE Contract(r) \notin Published
      BY DEF KnownForSure
    <2>1. at[r] \in 1 .. Len(Invoked[r]) /\ answer[Contract(r)] = "false"
      BY InvokedAssumption DEF IInv, TypeOK, ResultOK
    <2>2. Contract(r) \in Contracts
      BY <2>1, InvokedAssumption DEF Contract
    <2> QED
      BY <2>1, <2>2 DEF IInv, DenialOK
  <1> QED
    BY <1>1, Invariance, PTL

\* No step asks for a contract a second time or changes an answer.
THEOREM OneRequestHolds == Spec => OneRequest
  <1>1. IInv /\ [Next]_vars =>
          [\A c \in Contracts : answer[c] # "none" => answer'[c] = answer[c] /\ query'[c] # "asked"]_vars
    <2> SUFFICES ASSUME IInv, Next, NEW c \in Contracts, answer[c] # "none"
                 PROVE  answer'[c] = answer[c] /\ query'[c] # "asked"
      OBVIOUS
    <2>1. query[c] \in {"sending", "sent"} /\ c \in tasks
      BY DEF IInv, TypeOK, QueryOK
    <2>2. ASSUME NEW r \in Records, Record(r)
          PROVE  answer'[c] = answer[c] /\ query'[c] # "asked"
      <3>1. CASE Call(r)
        <4>1. CASE UNCHANGED request
          BY <2>1, <4>1 DEF request
        <4>2. CASE Contract(r) \notin tasks /\ Ask(Contract(r), r)
          BY <2>1, <4>2 DEF IInv, TypeOK, Ask
        <4> QED
          BY <3>1, <4>1, <4>2 DEF Call, LoadOrAsk
      <3>2. CASE ~Call(r)
        BY <2>1, <2>2, <3>2
           DEF Record, Subscribe, Expire, GiveUp, Conclude, Finish, provider, request
      <3> QED
        BY <3>1, <3>2
    <2>3. ASSUME NEW d \in Contracts, Task(d)
          PROVE  answer'[c] = answer[c] /\ query'[c] # "asked"
      BY <2>1, <2>3 DEF IInv, TypeOK, Task, IsVerified, EndSend, Deliver, provider, request
    <2> QED
      BY <2>2, <2>3 DEF Next
  <1> QED
    BY <1>1, Invariance, PTL DEF Spec, OneRequest
=============================================================================
