---------------------------- MODULE BatcherProofs ----------------------------
(***************************************************************************)
(* Proofs about Batcher, for every set of operations, callers and batch    *)
(* IDs and every bound.                                                    *)
(***************************************************************************)
EXTENDS Batcher, TLAPS

(* Adds and removes are operations.                                        *)
LEMMA OpsFact == AddOps \subseteq Ops /\ RemoveOps \subseteq Ops
BY DEF Ops

----------------------------------------------------------------------------
(* What each part of the system leaves alone.                              *)

(* A claim step (Karpenter and the API server) touches only the claims.    *)
LEMMA ClaimFrame ==
  ASSUME NEW op \in Ops, ClaimNext(op)
  PROVE  UNCHANGED <<callerVars, queueVars, senderVars, trackVars, pollVars,
                     resumeVars, brokerVars, missed, faults>>
BY DEF ClaimNext, DeleteDone, DeleteClaim, DeletePending, NodeJoins

(* The status poller and the failure handler never touch the callers, the  *)
(* queue, the sender, batchresume or the broker.                           *)
LEMMA PollerFrame ==
  ASSUME PollerNext
  PROVE  UNCHANGED <<callerVars, queueVars, senderVars, stamp, cancels,
                     resumeVars, brokerVars>>
BY DEF PollerNext, PollTick, PollEmpty, PollResults, PollSkip, PollBatch, PollFails,
       PollTooOld, Handle, HandleFails, DropBatch, claimVars

(* batchresume touches only the tracked batches and its own list.          *)
LEMMA ResumeFrame ==
  ASSUME ResumeNext
  PROVE  UNCHANGED <<callerVars, queueVars, senderVars, claim, stamp, cancels,
                     succeeded, pollVars, brokerVars>>
BY DEF ResumeNext, ResumeList, ResumeListFails, ResumeAddBatch, claimVars,
       trackVars

(* The broker touches none of the provider's memory.                       *)
LEMMA BrokerFrame ==
  ASSUME BrokerNext
  PROVE  UNCHANGED <<callerVars, queueVars, senderVars, trackVars, pollVars,
                     resumeVars, claim, stamp, missed>>
BY DEF BrokerNext, BrokerRun, BrokerSucceed, BrokerFail, BrokerExpire, BrokerStep,
       CancelOperation, CancelFails, IndexExpire, claimVars

(* A call only touches its own state, the queue and the claim it launches. *)
LEMMA CallerFrame ==
  ASSUME NEW c \in Callers, CallerNext(c) \/ \E op \in Ops : Call(c, op)
  PROVE  UNCHANGED <<senderVars, trackVars, pollVars, resumeVars, brokerVars,
                     missed, cancels>>
BY DEF CallerNext, Call, EnqueueCheck, EnqueueInsert, Abandon, Return, claimVars

(* The sender touches the callers it resolves, the queue, the tracked      *)
(* batches and, through its RPC, the broker.                               *)
LEMMA SenderFrame ==
  ASSUME SenderNext
  PROVE  UNCHANGED <<claimVars, succeeded, pollVars, resumeVars>>
BY DEF SenderNext, Collect, SendFails, Register, Send, Resolve, trackVars

----------------------------------------------------------------------------
(* Which fields mean something in which step of a caller, the sender, the  *)
(* poller and batchresume; TypeOK is not inductive without it.             *)
CallerShape ==
  \A c \in Callers :
    /\ cPC[c] = "idle" <=> cOp[c] = NoOp
    /\ cRes[c] # NoBatch => cPC[c] = "resolved"

StepShape ==
  /\ sPC = "register" => sBatch \in BatchIds
  /\ pPC = "reply" => pBatch \in BatchIds
  /\ pPC # "handle" => failed = {}
  /\ rPC = "start" => toResume = Nothing

WellFormed == TypeOK /\ CallerShape /\ StepShape

(* Type correctness of the batcher.                                        *)
LEMMA WellFormedInvariant == Spec => []WellFormed
<1> USE BatcherAssumption, OpsFact DEF Live, States
<1>1. Init => WellFormed
  BY DEF Init, ProcessInit, WellFormed, TypeOK, CallerShape, StepShape, Nothing, NoReply
<1>2. WellFormed /\ [Next]_vars => WellFormed'
  <2> SUFFICES ASSUME WellFormed, [Next]_vars PROVE WellFormed'
    OBVIOUS
  <2> USE DEF callerVars, claimVars, queueVars, senderVars, trackVars, pollVars,
              resumeVars, brokerVars
  <2>1. ASSUME NEW c \in Callers, NEW op \in Ops, Call(c, op) PROVE WellFormed'
    BY <2>1 DEF WellFormed, TypeOK, CallerShape, StepShape, Call
  <2>2. ASSUME NEW c \in Callers, EnqueueCheck(c) PROVE WellFormed'
    <3>1. TypeOK'
      <4>1. CASE cOp[c] \in inFlight
        BY <2>2, <4>1 DEF WellFormed, TypeOK, EnqueueCheck
      <4>2. CASE cOp[c] \notin inFlight
        BY <2>2, <4>2 DEF WellFormed, TypeOK, EnqueueCheck
      <4> QED
        BY <4>1, <4>2
    <3>2. CallerShape'
      BY <2>2 DEF WellFormed, TypeOK, CallerShape, EnqueueCheck
    <3>3. StepShape'
      BY <2>2 DEF WellFormed, TypeOK, StepShape, EnqueueCheck
    <3> QED
      BY <3>1, <3>2, <3>3 DEF WellFormed
  <2>3. ASSUME NEW c \in Callers, EnqueueInsert(c) PROVE WellFormed'
    <3>1. cOp[c] \in Ops
      BY <2>3 DEF WellFormed, TypeOK, CallerShape, EnqueueInsert
    <3>2. queue' \in Seq(Ops) /\ Len(queue') <= QueueCap
      <4>1. CASE queue' = queue
        BY <4>1 DEF WellFormed, TypeOK
      <4>2. CASE queue' = Append(queue, cOp[c]) /\ Len(queue) < QueueCap
        BY <3>1, <4>2 DEF WellFormed, TypeOK
      <4> QED
        BY <2>3, <4>1, <4>2 DEF EnqueueInsert
    <3>3. pending' \in [Ops -> SUBSET Callers]
      <4>1. pending[cOp[c]] \cup {c} \in SUBSET Callers
        BY <3>1 DEF WellFormed, TypeOK
      <4>2. \E w \in SUBSET Callers : pending' = [pending EXCEPT ![cOp[c]] = w]
        BY <2>3, <4>1 DEF EnqueueInsert, RollBack
      <4>3. pending \in [Ops -> SUBSET Callers]
        BY DEF WellFormed, TypeOK
      <4> QED
        BY <4>2, <4>3
    <3>4. cPC' \in [Callers -> {"idle", "called", "checked", "waiting", "resolved"}]
      BY <2>3 DEF WellFormed, TypeOK, EnqueueInsert
    <3>5. TypeOK'
      BY <2>3, <3>2, <3>3, <3>4 DEF WellFormed, TypeOK, EnqueueInsert
    <3>6. CallerShape'
      BY <2>3 DEF WellFormed, TypeOK, CallerShape, EnqueueInsert
    <3>7. StepShape'
      BY <2>3 DEF WellFormed, TypeOK, StepShape, EnqueueInsert
    <3> QED
      BY <3>5, <3>6, <3>7 DEF WellFormed
  <2>4. ASSUME NEW c \in Callers, Abandon(c) PROVE WellFormed'
    BY <2>4 DEF WellFormed, TypeOK, CallerShape, StepShape, Abandon, Fault
  <2>5. ASSUME NEW c \in Callers, Return(c) PROVE WellFormed'
    <3>1. TypeOK'
      <4>1. claim' \in [Ops -> {"wanted", "launched", "deleting", "done"}]
        <5>1. \/ claim' = claim
              \/ claim' = [claim EXCEPT ![cOp[c]] = "launched"]
              \/ claim' = [claim EXCEPT ![cOp[c]] = claim[cOp[c]]]
          BY <2>5 DEF Return
        <5>2. claim \in [Ops -> {"wanted", "launched", "deleting", "done"}]
          BY DEF WellFormed, TypeOK
        <5> QED
          BY <5>1, <5>2
      <4>2. stamp' \in [Ops -> BatchIds \cup {NoBatch}]
        BY <2>5 DEF WellFormed, TypeOK, Return
      <4> QED
        BY <2>5, <4>1, <4>2 DEF WellFormed, TypeOK, Return
    <3>2. CallerShape'
      BY <2>5 DEF WellFormed, TypeOK, CallerShape, Return
    <3>3. StepShape'
      BY <2>5 DEF WellFormed, TypeOK, StepShape, Return
    <3> QED
      BY <3>1, <3>2, <3>3 DEF WellFormed
  <2>6. ASSUME NEW op \in Ops, DeleteDone(op) PROVE WellFormed'
    BY <2>6 DEF WellFormed, TypeOK, CallerShape, StepShape, DeleteDone
  <2>7. ASSUME NEW op \in Ops, DeleteClaim(op) PROVE WellFormed'
    BY <2>7 DEF WellFormed, TypeOK, CallerShape, StepShape, DeleteClaim
  <2>8. ASSUME NEW op \in Ops, DeletePending(op) PROVE WellFormed'
    BY <2>8 DEF WellFormed, TypeOK, CallerShape, StepShape, DeletePending
  <2>9. ASSUME NEW op \in Ops, NodeJoins(op) PROVE WellFormed'
    BY <2>9 DEF WellFormed, TypeOK, CallerShape, StepShape, NodeJoins
  <2>10. ASSUME NEW op \in Ops, Resolve(op) PROVE WellFormed'
    BY <2>10 DEF WellFormed, TypeOK, CallerShape, StepShape, Resolve, ResolvePending, Waiters
  <2>11. ASSUME NEW op \in Ops, Handle(op) PROVE WellFormed'
    BY <2>11 DEF WellFormed, TypeOK, CallerShape, StepShape, Handle
  <2>12. ASSUME NEW op \in Ops, HandleFails(op) PROVE WellFormed'
    BY <2>12 DEF WellFormed, TypeOK, CallerShape, StepShape, HandleFails, Fault
  <2>13. ASSUME NEW op \in Ops, BrokerRun(op) PROVE WellFormed'
    BY <2>13 DEF WellFormed, TypeOK, CallerShape, StepShape, BrokerRun, BrokerStep
  <2>14. ASSUME NEW op \in Ops, BrokerSucceed(op) PROVE WellFormed'
    BY <2>14 DEF WellFormed, TypeOK, CallerShape, StepShape, BrokerSucceed, BrokerStep
  <2>15. ASSUME NEW op \in Ops, BrokerFail(op) PROVE WellFormed'
    BY <2>15 DEF WellFormed, TypeOK, CallerShape, StepShape, BrokerFail, BrokerStep, Fault
  <2>16. ASSUME NEW op \in Ops, BrokerExpire(op) PROVE WellFormed'
    BY <2>16 DEF WellFormed, TypeOK, CallerShape, StepShape, BrokerExpire, BrokerStep, Fault
  <2>17. ASSUME NEW op \in Ops, CancelOperation(op) PROVE WellFormed'
    BY <2>17 DEF WellFormed, TypeOK, CallerShape, StepShape, CancelOperation
  <2>18. ASSUME NEW op \in Ops, CancelFails(op) PROVE WellFormed'
    BY <2>18 DEF WellFormed, TypeOK, CallerShape, StepShape, CancelFails, Fault
  <2>19. ASSUME NEW b \in BatchIds, Send(b) PROVE WellFormed'
    BY <2>19 DEF WellFormed, TypeOK, CallerShape, StepShape, Send, Fresh, Accepted, Partition, InHand
  <2>20. ASSUME NEW b \in BatchIds, PollSkip(b) PROVE WellFormed'
    BY <2>20 DEF WellFormed, TypeOK, CallerShape, StepShape, PollSkip
  <2>21. ASSUME NEW b \in BatchIds, PollBatch(b) PROVE WellFormed'
    BY <2>21 DEF WellFormed, TypeOK, CallerShape, StepShape, PollBatch
  <2>22. ASSUME NEW b \in BatchIds, PollFails(b) PROVE WellFormed'
    BY <2>22 DEF WellFormed, TypeOK, CallerShape, StepShape, PollFails, Fault
  <2>23. ASSUME NEW b \in BatchIds, PollTooOld(b) PROVE WellFormed'
    BY <2>23 DEF WellFormed, TypeOK, CallerShape, StepShape, PollTooOld, Fault, DropBatch, ExpiredItems, ClearInFlight
  <2>24. ASSUME NEW b \in BatchIds, ResumeAddBatch(b) PROVE WellFormed'
    <3>1. rPC # "start"
      BY <2>24 DEF WellFormed, TypeOK, StepShape, ResumeAddBatch, Nothing
    <3>2. TypeOK'
      <4>1. CASE b \in Tracked
        BY <2>24, <4>1 DEF WellFormed, TypeOK, ResumeAddBatch
      <4>2. CASE b \notin Tracked
        <5>1. toResume[b] \subseteq Ops /\ 0 \in 0..(MaxEmptyPolls - 1)
          BY DEF WellFormed, TypeOK
        <5>2. RegisterBatch(b, toResume[b])
          BY <2>24, <4>2 DEF ResumeAddBatch
        <5>3. /\ items' \in [BatchIds -> SUBSET Ops] /\ inFlight' \subseteq Ops
              /\ emptyPolls' \in [BatchIds -> 0..(MaxEmptyPolls - 1)]
              /\ opBatch' \in [Ops -> BatchIds \cup {NoBatch}]
          BY <5>1, <5>2 DEF RegisterBatch, WellFormed, TypeOK
        <5> QED
          BY <2>24, <5>3 DEF WellFormed, TypeOK, ResumeAddBatch
      <4> QED
        BY <4>1, <4>2
    <3>3. CallerShape'
      BY <2>24 DEF WellFormed, TypeOK, CallerShape, ResumeAddBatch
    <3>4. StepShape'
      BY <2>24, <3>1 DEF WellFormed, TypeOK, StepShape, ResumeAddBatch
    <3> QED
      BY <3>1, <3>2, <3>3, <3>4 DEF WellFormed
  <2>25. ASSUME NEW b \in BatchIds, IndexExpire(b) PROVE WellFormed'
    BY <2>25 DEF WellFormed, TypeOK, CallerShape, StepShape, IndexExpire, Fault
  <2>26. ASSUME Collect PROVE WellFormed'
    BY <2>26 DEF WellFormed, TypeOK, CallerShape, StepShape, Collect
  <2>27. ASSUME SendFails PROVE WellFormed'
    <3>1. rec' \in [Ops -> States]
      BY <2>27 DEF WellFormed, TypeOK, SendFails, Accepted, Rejected
    <3>2. TypeOK'
      BY <2>27, <3>1 DEF WellFormed, TypeOK, SendFails, Fault, Partition, InHand
    <3>3. CallerShape'
      BY <2>27 DEF WellFormed, TypeOK, CallerShape, SendFails
    <3>4. StepShape'
      BY <2>27 DEF WellFormed, TypeOK, StepShape, SendFails
    <3> QED
      BY <3>1, <3>2, <3>3, <3>4 DEF WellFormed
  <2>28. ASSUME Register PROVE WellFormed'
    BY <2>28 DEF WellFormed, TypeOK, CallerShape, StepShape, Register, RegisterBatch
  <2>29. ASSUME PollTick PROVE WellFormed'
    BY <2>29 DEF WellFormed, TypeOK, CallerShape, StepShape, PollTick, Tracked
  <2>30. ASSUME PollEmpty PROVE WellFormed'
    <3>1. pBatch \in BatchIds /\ emptyPolls[pBatch] \in 0..(MaxEmptyPolls - 1)
      BY <2>30 DEF WellFormed, TypeOK, StepShape, PollEmpty
    <3>2. emptyPolls' \in [BatchIds -> 0..(MaxEmptyPolls - 1)]
      <4>1. CASE Unknown(emptyPolls[pBatch] + 1)
        <5>1. 0 \in 0..(MaxEmptyPolls - 1)
          OBVIOUS
        <5>2. emptyPolls' = [emptyPolls EXCEPT ![pBatch] = 0]
          BY <2>30, <4>1 DEF PollEmpty, DropBatch
        <5> QED
          BY <5>1, <5>2 DEF WellFormed, TypeOK
      <4>2. CASE ~Unknown(emptyPolls[pBatch] + 1)
        BY <2>30, <3>1, <4>2 DEF WellFormed, TypeOK, PollEmpty, Unknown
      <4> QED
        BY <4>1, <4>2
    <3>3. TypeOK'
      <4>1. /\ items' \in [BatchIds -> SUBSET Ops] /\ inFlight' \subseteq Ops
            /\ opBatch' \in [Ops -> BatchIds \cup {NoBatch}]
            /\ failed' \subseteq Ops /\ succeeded' = succeeded
            /\ pPC' \in {"idle", "reply", "handle"} /\ pBatch' = NoBatch
        <5>1. CASE DropBatch(pBatch)
          BY <2>30, <3>1, <5>1
          DEF WellFormed, TypeOK, PollEmpty, DropBatch, ExpiredItems, ClearInFlight
        <5>2. CASE UNCHANGED <<items, inFlight, opBatch, succeeded, failed>> /\ pPC' = "idle"
          BY <2>30, <5>2 DEF WellFormed, TypeOK, PollEmpty
        <5> QED
          BY <2>30, <5>1, <5>2 DEF PollEmpty
      <4> QED
        BY <2>30, <3>2, <4>1 DEF WellFormed, TypeOK, PollEmpty
    <3>4. CallerShape'
      BY <2>30 DEF WellFormed, TypeOK, CallerShape, PollEmpty
    <3>5. StepShape'
      BY <2>30, <3>1 DEF WellFormed, TypeOK, StepShape, PollEmpty, DropBatch
    <3> QED
      BY <3>1, <3>2, <3>3, <3>4, <3>5 DEF WellFormed
  <2>31. ASSUME PollResults PROVE WellFormed'
    BY <2>31 DEF WellFormed, TypeOK, CallerShape, StepShape, PollResults, Completed, Reported, Prune, Fault, NoReply
  <2>32. ASSUME ResumeList PROVE WellFormed'
    BY <2>32 DEF WellFormed, TypeOK, CallerShape, StepShape, ResumeList
  <2>33. ASSUME ResumeListFails PROVE WellFormed'
    BY <2>33 DEF WellFormed, TypeOK, CallerShape, StepShape, ResumeListFails, Fault
  <2>34. ASSUME Crash PROVE WellFormed'
    BY <2>34 DEF WellFormed, TypeOK, CallerShape, StepShape, Crash, Fault, Nothing, NoReply
  <2>35. ASSUME Settled PROVE WellFormed'
    BY <2>35 DEF WellFormed, TypeOK, CallerShape, StepShape, Settled, vars
  <2>36. CASE UNCHANGED vars
    BY <2>36 DEF WellFormed, TypeOK, CallerShape, StepShape, vars
  <2> QED
    BY <2>1, <2>2, <2>3, <2>4, <2>5, <2>6, <2>7, <2>8, <2>9, <2>10, <2>11, <2>12, <2>13, <2>14, <2>15, <2>16, <2>17, <2>18, <2>19, <2>20, <2>21, <2>22, <2>23, <2>24, <2>25, <2>26, <2>27, <2>28, <2>29, <2>30, <2>31, <2>32, <2>33, <2>34, <2>35, <2>36
    DEF Next, CallerNext, ClaimNext, SenderNext, PollerNext, ResumeNext, BrokerNext
<1> QED
  BY <1>1, <1>2, PTL DEF Spec

(* Type correctness of the batcher, for every instance.                    *)
THEOREM TypeCorrect == Spec => []TypeOK
<1>1. WellFormed => TypeOK
  BY DEF WellFormed
<1> QED
  BY <1>1, WellFormedInvariant, PTL

----------------------------------------------------------------------------
(* Waiters and items.                                                      *)

Elements(q) == {q[i] : i \in DOMAIN q}

NoRepeats(q) == \A i, j \in DOMAIN q : q[i] = q[j] => i = j

(* Queueing an operation that is not queued adds just this one.            *)
LEMMA AppendElements ==
  ASSUME NEW S, NEW q \in Seq(S), NEW e \in S
  PROVE  /\ Elements(Append(q, e)) = Elements(q) \cup {e}
         /\ NoRepeats(q) /\ e \notin Elements(q) => NoRepeats(Append(q, e))
<1> DEFINE r == Append(q, e)
<1>1. /\ DOMAIN q = 1..Len(q) /\ DOMAIN r = 1..(Len(q) + 1) /\ Len(q) \in Nat
      /\ \A i \in 1..Len(q) : r[i] = q[i]
      /\ r[Len(q) + 1] = e
  OBVIOUS
<1>2. Elements(r) = Elements(q) \cup {e}
  <2>1. ASSUME NEW x \in Elements(r) PROVE x \in Elements(q) \cup {e}
    BY <1>1, <2>1 DEF Elements
  <2>2. ASSUME NEW x \in Elements(q) PROVE x \in Elements(r)
    BY <1>1, <2>2 DEF Elements
  <2>3. e \in Elements(r)
    BY <1>1 DEF Elements
  <2> QED
    BY <2>1, <2>2, <2>3
<1>3. NoRepeats(q) /\ e \notin Elements(q) => NoRepeats(r)
  BY <1>1 DEF NoRepeats, Elements
<1> QED
  BY <1>2, <1>3

(* Receiving from the queue removes just its head.                         *)
LEMMA TailElements ==
  ASSUME NEW S, NEW q \in Seq(S), q # <<>>, NoRepeats(q)
  PROVE  /\ Head(q) \in Elements(q)
         /\ Elements(Tail(q)) = Elements(q) \ {Head(q)}
         /\ NoRepeats(Tail(q))
<1> DEFINE r == Tail(q)
<1>1. /\ DOMAIN q = 1..Len(q) /\ DOMAIN r = 1..(Len(q) - 1)
      /\ Len(q) \in Nat \ {0} /\ Head(q) = q[1]
      /\ \A i \in 1..(Len(q) - 1) : r[i] = q[i + 1]
  OBVIOUS
<1>2. Head(q) \in Elements(q)
  BY <1>1 DEF Elements
<1>3. NoRepeats(r)
  BY <1>1 DEF NoRepeats
<1>4. ASSUME NEW x \in Elements(r) PROVE x \in Elements(q) \ {Head(q)}
  <2>1. PICK i \in 1..(Len(q) - 1) : x = q[i + 1]
    BY <1>1, <1>4 DEF Elements
  <2> QED
    BY <1>1, <2>1 DEF Elements, NoRepeats
<1>5. ASSUME NEW x \in Elements(q) \ {Head(q)} PROVE x \in Elements(r)
  <2>1. PICK i \in 1..Len(q) : x = q[i]
    BY <1>1, <1>5 DEF Elements
  <2>2. i - 1 \in 1..(Len(q) - 1) /\ x = r[i - 1]
    BY <1>1, <1>5, <2>1
  <2> QED
    BY <1>1, <2>2 DEF Elements
<1> QED
  BY <1>2, <1>3, <1>4, <1>5

(* The inductive invariant behind the two properties: what the sender is   *)
(* resolving is part of what it collected.                                 *)
Waiting == part \subseteq batch /\ NoStrandedWaiter /\ OneItemPerPending

(* Waiting only depends on the callers' steps, the queue and the sender.   *)
LEMMA WaitingFrame ==
  ASSUME Waiting, UNCHANGED <<cPC, cOp, queue, pending, batch, part>>
  PROVE  Waiting'
BY DEF Waiting, NoStrandedWaiter, OneItemPerPending, Queued

(* A caller that does not start to wait, and leaves queue and pending      *)
(* alone, keeps Waiting.                                                   *)
LEMMA WaitingKept ==
  ASSUME Waiting, UNCHANGED <<queue, pending, batch, part>>,
         \A c \in Callers : cPC'[c] = "waiting" => cPC[c] = "waiting" /\ cOp'[c] = cOp[c]
  PROVE  Waiting'
BY DEF Waiting, NoStrandedWaiter, OneItemPerPending, Queued

(* Waiting is kept by enqueueItem's insertion under pendingMu.             *)
LEMMA WaitingInsert ==
  ASSUME WellFormed, Waiting, NEW c \in Callers, EnqueueInsert(c)
  PROVE  Waiting'
<1> USE BatcherAssumption
<1> DEFINE op == cOp[c]
<1>1. op \in Ops /\ cPC[c] = "checked" /\ queue \in Seq(Ops) /\ cOp' = cOp
  BY DEF WellFormed, TypeOK, CallerShape, EnqueueInsert
<1>2. UNCHANGED <<batch, part>> /\ pending \in [Ops -> SUBSET Callers]
      /\ cPC \in [Callers -> {"idle", "called", "checked", "waiting", "resolved"}]
  BY DEF EnqueueInsert, senderVars, WellFormed, TypeOK
<1>3. CASE pending[op] # {} /\ queue' = queue
  <2>1. /\ pending' = [pending EXCEPT ![op] = @ \cup {c}]
        /\ cPC' = [cPC EXCEPT ![c] = "waiting"]
    BY <1>3 DEF EnqueueInsert
  <2>2. op \in Queued \cup batch
    BY <1>1, <1>3 DEF Waiting, OneItemPerPending
  <2> QED
    BY <1>1, <1>2, <1>3, <2>1, <2>2
    DEF Waiting, NoStrandedWaiter, OneItemPerPending, Queued
<1>4. CASE pending[op] = {} /\ queue' = Append(queue, op)
  <2>1. /\ pending' = [pending EXCEPT ![op] = {c}]
        /\ cPC' = [cPC EXCEPT ![c] = "waiting"]
    <3>1. queue' # queue
      BY <1>1, <1>4
    <3> QED
      BY <1>4, <3>1 DEF EnqueueInsert
  <2>2. op \notin Elements(queue) /\ op \notin batch
    BY <1>1, <1>4 DEF Waiting, OneItemPerPending, Queued, Elements
  <2>3. Elements(queue') = Elements(queue) \cup {op} /\ NoRepeats(queue')
    <3>1. NoRepeats(queue)
      BY DEF Waiting, OneItemPerPending, NoRepeats
    <3> QED
      BY <1>1, <1>4, <2>2, <3>1, AppendElements
  <2>4. Queued' = Queued \cup {op}
    BY <2>3 DEF Queued, Elements
  <2>5. NoStrandedWaiter'
    <3> SUFFICES ASSUME NEW d \in Callers, cPC'[d] = "waiting"
                 PROVE  d \in pending'[cOp[d]] /\ cOp[d] \in Queued' \cup batch'
      BY <1>1 DEF NoStrandedWaiter
    <3>1. CASE d = c
      BY <1>1, <1>2, <2>1, <2>4, <3>1
    <3>2. CASE d # c
      <4>1. cPC[d] = "waiting"
        BY <1>2, <2>1, <3>2
      <4>2. d \in pending[cOp[d]] /\ cOp[d] \in Queued \cup batch
        BY <4>1 DEF Waiting, NoStrandedWaiter
      <4>3. cOp[d] # op
        BY <1>4, <4>2
      <4>4. pending'[cOp[d]] = pending[cOp[d]]
        BY <1>2, <2>1, <4>3
      <4> QED
        BY <1>2, <2>4, <4>2, <4>4
    <3> QED
      BY <3>1, <3>2
  <2>6. OneItemPerPending'
    <3>1. \A i, j \in DOMAIN queue' : queue'[i] = queue'[j] => i = j
      BY <2>3 DEF NoRepeats
    <3>2. (Queued \cap batch)' = {}
      BY <1>2, <2>2, <2>4 DEF Waiting, OneItemPerPending
    <3>3. \A o \in Ops : pending'[o] # {} <=> o \in Queued' \cup batch'
      BY <1>1, <1>2, <2>1, <2>4 DEF Waiting, OneItemPerPending
    <3> QED
      BY <3>1, <3>2, <3>3 DEF OneItemPerPending
  <2> QED
    BY <1>2, <2>5, <2>6 DEF Waiting
<1>5. CASE pending[op] = {} /\ queue' = queue
  <2>1. /\ pending' = [pending EXCEPT ![op] = {}]
        /\ cPC' = [cPC EXCEPT ![c] = "resolved"]
    <3>1. queue' # Append(queue, op)
      BY <1>1, <1>5
    <3> QED
      BY <1>5, <3>1 DEF EnqueueInsert, RollBack
  <2>2. pending' = pending
    BY <1>2, <1>5, <2>1
  <2> QED
    BY <1>1, <1>2, <1>5, <2>1, <2>2, WaitingKept
<1> QED
  BY <1>3, <1>4, <1>5 DEF EnqueueInsert

(* Waiting is kept when collectBatch moves an item to the sender.          *)
LEMMA WaitingCollect ==
  ASSUME WellFormed, Waiting, Collect
  PROVE  Waiting'
<1>1. queue \in Seq(Ops) /\ queue # <<>> /\ NoRepeats(queue)
  BY DEF WellFormed, TypeOK, Collect, Waiting, OneItemPerPending, NoRepeats
<1>2. /\ Head(queue) \in Elements(queue) /\ NoRepeats(Tail(queue))
      /\ Elements(Tail(queue)) = Elements(queue) \ {Head(queue)}
  BY <1>1, TailElements
<1>3. /\ Queued' = Queued \ {Head(queue)} /\ Head(queue) \in Queued
      /\ batch' = batch \cup {Head(queue)}
      /\ UNCHANGED <<cPC, cOp, pending, part>>
  BY <1>2 DEF Collect, Queued, Elements, callerVars
<1>4. OneItemPerPending'
  <2>1. \A i, j \in DOMAIN queue' : queue'[i] = queue'[j] => i = j
    BY <1>2 DEF NoRepeats, Collect
  <2>2. Queued' \cap batch' = {}
    BY <1>3 DEF Waiting, OneItemPerPending
  <2>3. \A op \in Ops : pending'[op] # {} <=> op \in Queued' \cup batch'
    BY <1>3 DEF Waiting, OneItemPerPending
  <2> QED
    BY <2>1, <2>2, <2>3 DEF OneItemPerPending
<1> QED
  BY <1>3, <1>4 DEF Waiting, NoStrandedWaiter

(* Waiting is kept when resolvePending answers an operation's waiters.     *)
LEMMA WaitingResolve ==
  ASSUME WellFormed, Waiting, NEW op \in Ops, Resolve(op)
  PROVE  Waiting'
<1>1. /\ op \in batch /\ op \notin Queued
      /\ part' = part \ {op} /\ batch' = batch \ {op} /\ queue' = queue /\ cOp' = cOp
      /\ pending \in [Ops -> SUBSET Callers] /\ pending' = [pending EXCEPT ![op] = {}]
      /\ cPC' = [c \in Callers |-> IF c \in Waiters(op) THEN "resolved" ELSE cPC[c]]
  BY DEF Resolve, ResolvePending, Waiting, OneItemPerPending, WellFormed, TypeOK
<1>2. NoStrandedWaiter'
  <2> SUFFICES ASSUME NEW c \in Callers, cPC'[c] = "waiting"
               PROVE  c \in pending'[cOp[c]] /\ cOp[c] \in Queued \cup batch'
    BY <1>1 DEF NoStrandedWaiter, Queued
  <2>1. /\ cPC[c] = "waiting" /\ c \notin Waiters(op)
        /\ c \in pending[cOp[c]] /\ cOp[c] \in Queued \cup batch
    BY <1>1 DEF Waiting, NoStrandedWaiter
  <2>2. cOp[c] # op
    BY <2>1 DEF Waiters
  <2> QED
    BY <1>1, <2>1, <2>2
<1>3. OneItemPerPending'
  BY <1>1 DEF Waiting, OneItemPerPending, Queued
<1> QED
  BY <1>1, <1>2, <1>3 DEF Waiting

(* Waiting is kept by every step.                                         *)
LEMMA WaitingInvariant == Spec => []Waiting
<1> USE BatcherAssumption
<1>1. Init => Waiting
  BY DEF Init, ProcessInit, Waiting, NoStrandedWaiter, OneItemPerPending, Queued
<1>2. WellFormed /\ Waiting /\ [Next]_vars => Waiting'
  <2> SUFFICES ASSUME WellFormed, Waiting, [Next]_vars PROVE Waiting'
    OBVIOUS
  <2> USE DEF callerVars, queueVars, senderVars
  <2>1. ASSUME NEW c \in Callers, NEW op \in Ops, Call(c, op) PROVE Waiting'
    BY <2>1, WaitingKept DEF Call, WellFormed, TypeOK
  <2>2. ASSUME NEW c \in Callers, EnqueueCheck(c) PROVE Waiting'
    BY <2>2, WaitingKept DEF EnqueueCheck, WellFormed, TypeOK
  <2>3. ASSUME NEW c \in Callers, EnqueueInsert(c) PROVE Waiting'
    BY <2>3, WaitingInsert
  <2>4. ASSUME NEW c \in Callers, Abandon(c) PROVE Waiting'
    BY <2>4, WaitingKept DEF Abandon, WellFormed, TypeOK
  <2>5. ASSUME NEW c \in Callers, Return(c) PROVE Waiting'
    BY <2>5, WaitingKept DEF Return, WellFormed, TypeOK
  <2>6. ASSUME Collect PROVE Waiting'
    BY <2>6, WaitingCollect
  <2>7. ASSUME SendFails \/ \E b \in BatchIds : Send(b) PROVE Waiting'
    BY <2>7 DEF Send, SendFails, InHand, Partition, Waiting, NoStrandedWaiter,
                OneItemPerPending, Queued
  <2>8. ASSUME Register PROVE Waiting'
    BY <2>8, WaitingFrame DEF Register
  <2>9. ASSUME NEW op \in Ops, Resolve(op) PROVE Waiting'
    BY <2>9, WaitingResolve
  <2>10. ASSUME Crash PROVE Waiting'
    BY <2>10 DEF Crash, Waiting, NoStrandedWaiter, OneItemPerPending, Queued
  <2>11. ASSUME \/ PollerNext \/ ResumeNext \/ BrokerNext \/ Settled \/ UNCHANGED vars
                \/ \E op \in Ops : ClaimNext(op)
         PROVE  Waiting'
    <3>1. UNCHANGED <<cPC, cOp, queue, pending, batch, part>>
      BY <2>11, PollerFrame, ResumeFrame, BrokerFrame, ClaimFrame DEF Settled, vars
    <3> QED
      BY <3>1, WaitingFrame
  <2> QED
    BY <2>1, <2>2, <2>3, <2>4, <2>5, <2>6, <2>7, <2>8, <2>9, <2>10, <2>11
    DEF Next, CallerNext, SenderNext
<1> QED
  BY <1>1, <1>2, WellFormedInvariant, PTL DEF Spec

(* Nobody who calls Create() or Delete() is left hanging: the waiter list  *)
(* of every waiting caller has an item that will resolve it.               *)
THEOREM NoWaiterLost == Spec => []NoStrandedWaiter
<1>1. Waiting => NoStrandedWaiter
  BY DEF Waiting
<1> QED
  BY <1>1, WaitingInvariant, PTL

(* Deduplication: between enqueueItem and resolvePending an operation has  *)
(* one item, in the queue or with the sender, exactly while it has waiters,*)
(* through abandoned calls, rollbacks of a full queue and failed sends.    *)
THEOREM ItemsAreUnique == Spec => []OneItemPerPending
<1>1. Waiting => OneItemPerPending
  BY DEF Waiting
<1> QED
  BY <1>1, WaitingInvariant, PTL

----------------------------------------------------------------------------
(* What Delete() believes about the broker.                                *)

(* SucceededSound is not inductive: the answer in the poller's hands must  *)
(* be true as well, and stay true until it is applied.                     *)
AnswersTrue ==
  /\ SucceededSound
  /\ \A op \in Ops : reply[op] = "succeeded" => rec[op] = "succeeded"

(* Nothing takes SUCCEEDED back.                                           *)
LEMMA SucceededForGood ==
  ASSUME WellFormed, [Next]_vars, NEW o \in Ops, rec[o] = "succeeded"
  PROVE  rec'[o] = "succeeded"
<1> USE OpsFact
<1>0. rec \in [Ops -> States]
  BY DEF WellFormed, TypeOK
<1>1. ASSUME BrokerNext PROVE rec'[o] = "succeeded"
  BY <1>0, <1>1 DEF BrokerNext, BrokerRun, BrokerSucceed, BrokerFail, BrokerExpire,
    BrokerStep, CancelOperation, CancelFails, IndexExpire, brokerVars
<1>2. ASSUME NEW b \in BatchIds, Send(b) PROVE rec'[o] = "succeeded"
  BY <1>0, <1>2 DEF Send, Accepted, Live
<1>3. ASSUME SendFails PROVE rec'[o] = "succeeded"
  BY <1>0, <1>3 DEF SendFails, Accepted, Rejected, Live
<1>4. ASSUME \/ Collect \/ Register \/ \E op \in Ops : Resolve(op)
             \/ \E c \in Callers : CallerNext(c) \/ \E op \in Ops : Call(c, op)
             \/ \E op \in Ops : ClaimNext(op)
             \/ PollerNext \/ ResumeNext \/ Crash \/ Settled \/ UNCHANGED vars
      PROVE  rec' = rec
  BY <1>4, CallerFrame, ClaimFrame, PollerFrame, ResumeFrame
  DEF Collect, Register, Resolve, Crash, Settled, vars, brokerVars
<1> QED
  BY <1>1, <1>2, <1>3, <1>4 DEF Next, SenderNext

(* AnswersTrue is kept by every step, the late application included.       *)
LEMMA AnswersInvariant == Spec => []AnswersTrue
<1>1. Init => AnswersTrue
  BY DEF Init, ProcessInit, AnswersTrue, SucceededSound, NoReply
<1>2. WellFormed /\ AnswersTrue /\ [Next]_vars => AnswersTrue'
  <2> SUFFICES ASSUME WellFormed, AnswersTrue, [Next]_vars PROVE AnswersTrue'
    OBVIOUS
  <2>1. \A o \in Ops : rec[o] = "succeeded" => rec'[o] = "succeeded"
    BY SucceededForGood
  <2>2. ASSUME NEW b \in BatchIds, PollBatch(b) PROVE AnswersTrue'
    <3>1. reply' = [op \in Ops |-> IF op \in index[b] THEN rec[op] ELSE "none"]
          /\ succeeded' = succeeded
      BY <2>2 DEF PollBatch, trackVars
    <3> QED
      BY <2>1, <3>1 DEF AnswersTrue, SucceededSound, WellFormed, TypeOK
  <2>3. ASSUME PollResults PROVE AnswersTrue'
    <3>1. reply' = NoReply /\ succeeded' \subseteq succeeded \cup Completed
      BY <2>3 DEF PollResults
    <3>2. \A o \in Completed : o \in Ops /\ reply[o] = "succeeded"
      BY <2>3 DEF Completed, Reported, PollResults, WellFormed, TypeOK, StepShape
    <3> QED
      BY <2>1, <3>1, <3>2 DEF AnswersTrue, SucceededSound, NoReply, WellFormed, TypeOK
  <2>4. ASSUME Crash PROVE AnswersTrue'
    BY <2>4 DEF Crash, AnswersTrue, SucceededSound, NoReply
  <2>5. ASSUME \/ \E c \in Callers : CallerNext(c) \/ \E op \in Ops : Call(c, op)
               \/ \E op \in Ops : ClaimNext(op)
               \/ SenderNext \/ ResumeNext \/ BrokerNext \/ Settled \/ UNCHANGED vars
               \/ PollTick \/ PollEmpty \/ \E op \in Ops : Handle(op) \/ HandleFails(op)
               \/ \E b \in BatchIds : PollSkip(b) \/ PollFails(b) \/ PollTooOld(b)
        PROVE  AnswersTrue'
    <3>1. UNCHANGED <<succeeded, reply>>
      BY <2>5, CallerFrame, ClaimFrame, SenderFrame, ResumeFrame, BrokerFrame
      DEF Settled, vars, trackVars, pollVars, PollTick, PollEmpty, DropBatch, Handle,
          HandleFails, PollSkip, PollFails, PollTooOld
    <3> QED
      BY <2>1, <3>1 DEF AnswersTrue, SucceededSound, WellFormed, TypeOK
  <2> QED
    BY <2>2, <2>3, <2>4, <2>5 DEF Next, PollerNext
<1> QED
  BY <1>1, <1>2, WellFormedInvariant, PTL DEF Spec

(* Delete() reports an instance gone only when the broker has removed it:  *)
(* the batcher's Succeeded never runs ahead of the broker.                 *)
THEOREM SucceededIsSound == Spec => []SucceededSound
<1>1. AnswersTrue => SucceededSound
  BY DEF AnswersTrue
<1> QED
  BY <1>1, AnswersInvariant, PTL

----------------------------------------------------------------------------
(* Suppression and tracking.                                               *)

(* Between the ACK and registerAndAck the new batch ID is known to nobody  *)
(* else, so registering it overwrites nothing.  That no caller can be      *)
(* answered with it in the meantime follows from InFlightTracked.          *)
SenderFresh ==
  sPC = "register" =>
    /\ items[sBatch] = {} /\ toResume[sBatch] = {}
    /\ \A op \in Ops : stamp[op] # sBatch
    /\ \A c \in Callers : cRes[c] # sBatch

Suppression == InFlightTracked /\ SenderFresh

(* Registering a batch under an ID that tracks nothing.                    *)
LEMMA RegisterTracks ==
  ASSUME WellFormed, InFlightTracked, NEW b \in BatchIds, NEW ops \in SUBSET Ops,
         items[b] = {}, RegisterBatch(b, ops)
  PROVE  InFlightTracked'
<1>1. /\ items \in [BatchIds -> SUBSET Ops] /\ items' = [items EXCEPT ![b] = ops]
      /\ inFlight' = inFlight \cup ops /\ inFlight \subseteq Ops
      /\ opBatch' = [op \in Ops |-> IF op \in ops THEN b ELSE opBatch[op]]
  BY DEF RegisterBatch, WellFormed, TypeOK
<1> SUFFICES ASSUME NEW op \in inFlight \cup ops
             PROVE  opBatch'[op] \in BatchIds /\ op \in items'[opBatch'[op]]
  BY <1>1 DEF InFlightTracked
<1>2. CASE op \in ops
  BY <1>1, <1>2
<1>3. CASE op \notin ops
  <2>1. op \in Ops /\ opBatch'[op] = opBatch[op]
    BY <1>1, <1>3
  <2>2. opBatch[op] \in BatchIds /\ op \in items[opBatch[op]]
    BY <1>3 DEF InFlightTracked
  <2>3. opBatch[op] # b
    BY <2>2
  <2> QED
    BY <1>1, <2>1, <2>2, <2>3
<1> QED
  BY <1>2, <1>3

(* Giving up a batch releases everything it held.                          *)
LEMMA DropTracks ==
  ASSUME WellFormed, InFlightTracked, NEW b \in BatchIds, DropBatch(b)
  PROVE  InFlightTracked'
<1>1. /\ items \in [BatchIds -> SUBSET Ops] /\ items' = [items EXCEPT ![b] = {}]
      /\ inFlight' = inFlight \ items[b] /\ inFlight \subseteq Ops
      /\ opBatch' = [op \in Ops |-> IF op \in items[b] THEN NoBatch ELSE opBatch[op]]
  BY DEF DropBatch, ClearInFlight, WellFormed, TypeOK
<1> SUFFICES ASSUME NEW op \in inFlight \ items[b]
             PROVE  opBatch'[op] \in BatchIds /\ op \in items'[opBatch'[op]]
  BY <1>1 DEF InFlightTracked
<1>2. op \in Ops /\ opBatch'[op] = opBatch[op]
  BY <1>1
<1>3. opBatch[op] \in BatchIds /\ op \in items[opBatch[op]]
  BY DEF InFlightTracked
<1>4. opBatch[op] # b
  BY <1>3
<1> QED
  BY <1>1, <1>2, <1>3, <1>4

(* A real answer takes terminal operations out of the batch and, whichever *)
(* batch they were last sent in, out of the in-flight set.                 *)
LEMMA ResultsTrack ==
  ASSUME WellFormed, InFlightTracked, PollResults
  PROVE  InFlightTracked'
<1> DEFINE over == Completed \cup Reported("failed")
<1>1. /\ items \in [BatchIds -> SUBSET Ops] /\ pBatch \in BatchIds
      /\ items' = [items EXCEPT ![pBatch] = @ \ over]
      /\ inFlight' = inFlight \ over /\ opBatch' = opBatch
  BY DEF PollResults, WellFormed, TypeOK, StepShape
<1> SUFFICES ASSUME NEW op \in inFlight, op \notin over
             PROVE  opBatch[op] \in BatchIds /\ op \in items'[opBatch[op]]
  BY <1>1 DEF InFlightTracked
<1>2. opBatch[op] \in BatchIds /\ op \in items[opBatch[op]]
  BY DEF InFlightTracked
<1> HIDE DEF over
<1> QED
  BY <1>1, <1>2

(* A step that leaves tracking alone, hands nobody a new batch ID and does *)
(* not start a registration.                                               *)
LEMMA SuppressionKept ==
  ASSUME Suppression, UNCHANGED <<items, inFlight, opBatch>>,
         sPC' = "register" => /\ sPC = "register" /\ sBatch' = sBatch
                              /\ toResume'[sBatch] = {}
                              /\ \A op \in Ops : stamp'[op] # sBatch
                              /\ \A c \in Callers : cRes'[c] # sBatch
  PROVE  Suppression'
BY DEF Suppression, InFlightTracked, SenderFresh

(* A call: the in-flight short cut answers with a tracked batch, which is  *)
(* not the one being registered.                                           *)
LEMMA SuppressionCaller ==
  ASSUME WellFormed, Suppression, NEW c \in Callers,
         CallerNext(c) \/ \E op \in Ops : Call(c, op)
  PROVE  Suppression'
<1> USE BatcherAssumption
<1>1. UNCHANGED <<sPC, sBatch, items, inFlight, opBatch, toResume>>
  BY CallerFrame DEF senderVars, trackVars, resumeVars
<1> SUFFICES ASSUME sPC = "register"
             PROVE  /\ \A op \in Ops : stamp'[op] # sBatch
                    /\ \A d \in Callers : cRes'[d] # sBatch
  BY <1>1, SuppressionKept DEF Suppression, SenderFresh
<1>2. /\ items[sBatch] = {} /\ sBatch \in BatchIds
      /\ \A op \in Ops : stamp[op] # sBatch
      /\ \A d \in Callers : cRes[d] # sBatch
  BY DEF Suppression, SenderFresh, WellFormed, StepShape
<1>3. /\ cRes \in [Callers -> BatchIds \cup {NoBatch}]
      /\ stamp \in [Ops -> BatchIds \cup {NoBatch}] /\ NoBatch # sBatch
  BY <1>2 DEF WellFormed, TypeOK
<1>4. CASE EnqueueCheck(c)
  <2>1. stamp' = stamp
    BY <1>4 DEF EnqueueCheck, claimVars
  <2>2. CASE cOp[c] \in inFlight /\ cRes' = [cRes EXCEPT ![c] = opBatch[cOp[c]]]
    <3>1. opBatch[cOp[c]] # sBatch
      BY <1>2, <2>2 DEF Suppression, InFlightTracked
    <3> QED
      BY <1>2, <1>3, <2>1, <2>2, <3>1
  <2>3. CASE cRes' = cRes
    BY <1>2, <2>1, <2>3
  <2> QED
    BY <1>4, <2>2, <2>3 DEF EnqueueCheck
<1>5. CASE Return(c)
  <2>1. cRes' = [cRes EXCEPT ![c] = NoBatch]
    BY <1>5 DEF Return
  <2>2. stamp' = stamp \/ stamp' = [stamp EXCEPT ![cOp[c]] = cRes[c]]
    BY <1>5 DEF Return
  <2> QED
    BY <1>2, <1>3, <2>1, <2>2
<1>6. CASE EnqueueInsert(c) \/ Abandon(c) \/ \E op \in Ops : Call(c, op)
  BY <1>2, <1>6 DEF EnqueueInsert, Abandon, Call, claimVars
<1> QED
  BY <1>4, <1>5, <1>6 DEF CallerNext

(* Suppression is kept by the sender, registerAndAck included.             *)
LEMMA SuppressionSender ==
  ASSUME WellFormed, Suppression, SenderNext
  PROVE  Suppression'
<1> USE BatcherAssumption
<1>0. UNCHANGED <<stamp, toResume>>
  BY SenderFrame DEF claimVars, resumeVars
<1>1. ASSUME NEW b \in BatchIds, Send(b) PROVE Suppression'
  <2>1. UNCHANGED <<items, inFlight, opBatch, cRes>> /\ sBatch' = b
    BY <1>1 DEF Send, trackVars, callerVars
  <2>2. /\ items[b] = {} /\ toResume[b] = {}
        /\ \A op \in Ops : stamp[op] # b
        /\ \A c \in Callers : cRes[c] # b
    BY <1>1 DEF Send, Fresh
  <2> QED
    BY <1>0, <2>1, <2>2 DEF Suppression, InFlightTracked, SenderFresh
<1>2. ASSUME Register PROVE Suppression'
  <2>1. /\ sBatch \in BatchIds /\ items[sBatch] = {} /\ part \in SUBSET Ops
        /\ RegisterBatch(sBatch, part) /\ sPC' = "resolve"
    BY <1>2 DEF Register, Suppression, SenderFresh, WellFormed, TypeOK, StepShape
  <2>2. InFlightTracked'
    BY <2>1, RegisterTracks DEF Suppression
  <2> QED
    BY <2>1, <2>2 DEF Suppression, SenderFresh
<1>3. ASSUME Collect PROVE Suppression'
  BY <1>0, <1>3, SuppressionKept DEF Collect, trackVars, callerVars
<1>4. ASSUME SendFails PROVE Suppression'
  BY <1>4, SuppressionKept DEF SendFails, trackVars
<1>5. ASSUME NEW op \in Ops, Resolve(op) PROVE Suppression'
  <2>1. UNCHANGED <<items, inFlight, opBatch>> /\ sPC' # "register"
    BY <1>5 DEF Resolve, trackVars
  <2> QED
    BY <2>1, SuppressionKept
<1> QED
  BY <1>1, <1>2, <1>3, <1>4, <1>5 DEF SenderNext

(* Suppression is kept by the poller's answers and dropped batches.        *)
LEMMA SuppressionPoller ==
  ASSUME WellFormed, Suppression, PollerNext
  PROVE  Suppression'
<1>1. UNCHANGED <<sPC, sBatch, stamp, toResume, cRes>>
  BY PollerFrame DEF senderVars, resumeVars, callerVars
<1>2. InFlightTracked' /\ (\A b \in BatchIds : items[b] = {} => items'[b] = {})
  <2>1. ASSUME NEW b \in BatchIds, DropBatch(b)
        PROVE  InFlightTracked' /\ \A x \in BatchIds : items[x] = {} => items'[x] = {}
    BY <2>1, DropTracks DEF Suppression, DropBatch, WellFormed, TypeOK
  <2>2. CASE PollResults
    BY <2>2, ResultsTrack DEF Suppression, PollResults, WellFormed, TypeOK
  <2>3. CASE PollEmpty
    <3>1. pBatch \in BatchIds
      BY <2>3 DEF PollEmpty, WellFormed, StepShape
    <3>2. CASE UNCHANGED <<items, inFlight, opBatch>>
      BY <3>2 DEF Suppression, InFlightTracked
    <3> QED
      BY <2>1, <2>3, <3>1, <3>2 DEF PollEmpty
  <2>4. CASE \E b \in BatchIds : PollTooOld(b)
    BY <2>1, <2>4 DEF PollTooOld
  <2>5. CASE UNCHANGED trackVars
    BY <2>5 DEF trackVars, Suppression, InFlightTracked
  <2> QED
    BY <2>2, <2>3, <2>4, <2>5
    DEF PollerNext, PollTick, PollSkip, PollBatch, PollFails, Handle, HandleFails
<1> QED
  BY <1>1, <1>2 DEF Suppression, SenderFresh, WellFormed, StepShape

(* Suppression is kept by batchresume, which skips tracked batches.        *)
LEMMA SuppressionResume ==
  ASSUME WellFormed, Suppression, ResumeNext
  PROVE  Suppression'
<1> USE BatcherAssumption, OpsFact
<1>1. UNCHANGED <<sPC, sBatch, stamp, cRes>>
  BY ResumeFrame DEF senderVars, callerVars
<1>2. ASSUME ResumeList PROVE Suppression'
  <2>1. sPC = "register" => sBatch \in BatchIds /\ \A op \in AddOps : stamp[op] # sBatch
    BY DEF Suppression, SenderFresh, WellFormed, StepShape
  <2>2. toResume' = [b \in BatchIds |-> {op \in AddOps : Resumable(op, b)}]
    BY <1>2 DEF ResumeList
  <2>3. sPC = "register" => toResume'[sBatch] = {}
    BY <2>1, <2>2 DEF Resumable
  <2> QED
    BY <1>1, <1>2, <2>3, SuppressionKept DEF ResumeList, trackVars, Suppression, SenderFresh
<1>3. ASSUME ResumeListFails PROVE Suppression'
  BY <1>1, <1>3, SuppressionKept DEF ResumeListFails, trackVars, Suppression, SenderFresh
<1>4. ASSUME NEW b \in BatchIds, ResumeAddBatch(b) PROVE Suppression'
  <2>1. /\ toResume[b] # {} /\ toResume[b] \in SUBSET Ops
        /\ toResume' = [toResume EXCEPT ![b] = {}]
        /\ toResume \in [BatchIds -> SUBSET AddOps] /\ items \in [BatchIds -> SUBSET Ops]
    BY <1>4 DEF ResumeAddBatch, WellFormed, TypeOK
  <2>2. /\ InFlightTracked'
        /\ items' = items \/ items' = [items EXCEPT ![b] = toResume[b]]
    <3>1. CASE RegisterBatch(b, toResume[b]) /\ b \notin Tracked
      BY <2>1, <3>1, RegisterTracks DEF Tracked, Suppression, RegisterBatch
    <3>2. CASE UNCHANGED <<items, inFlight, opBatch>>
      BY <3>2 DEF Suppression, InFlightTracked
    <3> QED
      BY <1>4, <3>1, <3>2 DEF ResumeAddBatch
  <2>3. sPC = "register" => /\ b # sBatch /\ sBatch \in BatchIds
                            /\ items[sBatch] = {} /\ toResume[sBatch] = {}
    BY <2>1 DEF Suppression, SenderFresh, WellFormed, StepShape
  <2>4. sPC = "register" => items'[sBatch] = {} /\ toResume'[sBatch] = {}
    BY <2>1, <2>2, <2>3
  <2> QED
    BY <1>1, <2>2, <2>4 DEF Suppression, SenderFresh
<1> QED
  BY <1>2, <1>3, <1>4 DEF ResumeNext

(* Suppression is kept by every step.                                     *)
LEMMA SuppressionInvariant == Spec => []Suppression
<1>1. Init => Suppression
  BY DEF Init, ProcessInit, Suppression, InFlightTracked, SenderFresh
<1>2. WellFormed /\ Suppression /\ [Next]_vars => Suppression'
  <2> SUFFICES ASSUME WellFormed, Suppression, [Next]_vars PROVE Suppression'
    OBVIOUS
  <2>1. ASSUME NEW op \in Ops, ClaimNext(op) PROVE Suppression'
    <3>1. UNCHANGED <<items, inFlight, opBatch, sPC, sBatch, toResume, cRes>>
      BY <2>1, ClaimFrame DEF trackVars, senderVars, resumeVars, callerVars
    <3>2. sPC = "register" => \A o \in Ops : stamp'[o] # sBatch
      <4>1. stamp' = stamp \/ stamp' = [stamp EXCEPT ![op] = NoBatch]
        BY <2>1 DEF ClaimNext, DeleteDone, DeleteClaim, DeletePending, NodeJoins
      <4> QED
        BY <4>1, BatcherAssumption
        DEF Suppression, SenderFresh, WellFormed, TypeOK, StepShape
    <3> QED
      BY <3>1, <3>2, SuppressionKept DEF Suppression, SenderFresh
  <2>2. ASSUME BrokerNext \/ Settled \/ UNCHANGED vars PROVE Suppression'
    <3>1. UNCHANGED <<items, inFlight, opBatch, sPC, sBatch, toResume, cRes, stamp>>
      BY <2>2, BrokerFrame
      DEF trackVars, senderVars, resumeVars, callerVars, claimVars, Settled, vars
    <3> QED
      BY <3>1 DEF Suppression, SenderFresh, InFlightTracked
  <2>3. ASSUME Crash PROVE Suppression'
    BY <2>3 DEF Crash, Suppression, SenderFresh, InFlightTracked
  <2> QED
    BY <2>1, <2>2, <2>3, SuppressionCaller, SuppressionSender, SuppressionPoller,
       SuppressionResume DEF Next
<1> QED
  BY <1>1, <1>2, WellFormedInvariant, PTL DEF Spec

(* Duplicate suppression cannot outlive the tracking that ends it: while   *)
(* Delete() and Create() are answered "in flight", the poller follows a    *)
(* batch that holds the operation.                                         *)
THEOREM SuppressionEnds == Spec => []InFlightTracked
<1>1. Suppression => InFlightTracked
  BY DEF Suppression
<1> QED
  BY <1>1, SuppressionInvariant, PTL

=============================================================================
