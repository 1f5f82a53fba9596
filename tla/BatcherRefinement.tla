-------------------------- MODULE BatcherRefinement --------------------------
(***************************************************************************)
(* Batcher implements NodeOperations, for every set of operations, callers *)
(* and batch IDs and every bound: proof of the refinement that batcher_live*)
(* checks on an instance.  Two invariants carry it.  SucceededSound        *)
(* (BatcherProofs) makes the release of a removal right; Known makes the   *)
(* launch and the giving up of an add right.                               *)
(***************************************************************************)
EXTENDS BatcherProofs

(* The operations the broker has a record of.                              *)
Heard == {op \in Ops : rec[op] # "absent"}

(* Whatever the batcher follows, resumes or reports, whatever a caller or  *)
(* a claim was told a batch ID for, the broker has heard of.               *)
Known ==
  /\ \A b \in BatchIds : items[b] \subseteq Heard /\ toResume[b] \subseteq Heard
  /\ inFlight \subseteq Heard /\ failed \subseteq Heard
  /\ sBatch # NoBatch => part \subseteq Heard
  /\ \A c \in Callers : cRes[c] # NoBatch => cOp[c] \in Heard
  /\ \A op \in Ops : stamp[op] # NoBatch => op \in Heard

(* The broker forgets no operation.                                        *)
LEMMA HeardForGood ==
  ASSUME WellFormed, [Next]_vars
  PROVE  Heard \subseteq Heard'
<1> USE OpsFact
<1>0. rec \in [Ops -> States]
  BY DEF WellFormed, TypeOK
<1> SUFFICES ASSUME NEW o \in Ops, rec[o] # "absent" PROVE rec'[o] # "absent"
  BY DEF Heard
<1>1. ASSUME BrokerNext PROVE rec'[o] # "absent"
  BY <1>0, <1>1 DEF BrokerNext, BrokerRun, BrokerSucceed, BrokerFail, BrokerExpire,
    BrokerStep, CancelOperation, CancelFails, IndexExpire, brokerVars
<1>2. ASSUME NEW b \in BatchIds, Send(b) PROVE rec'[o] # "absent"
  BY <1>0, <1>2 DEF Send, Accepted, Live
<1>3. ASSUME SendFails PROVE rec'[o] # "absent"
  BY <1>0, <1>3 DEF SendFails, Accepted, Rejected, Live
<1>4. ASSUME \/ Collect \/ Register \/ \E op \in Ops : Resolve(op)
             \/ \E c \in Callers : CallerNext(c) \/ \E op \in Ops : Call(c, op)
             \/ \E op \in Ops : ClaimNext(op)
             \/ PollerNext \/ ResumeNext \/ Crash \/ Settled \/ UNCHANGED vars
      PROVE  rec' = rec
  BY <1>4, CallerFrame, ClaimFrame, PollerFrame, ResumeFrame
  DEF Collect, Register, Resolve, Crash, Settled, vars, brokerVars
<1> QED
  BY <1>1, <1>2, <1>3, <1>4 DEF Next, SenderNext

(* Known in two halves: what the batcher tracks, and what it has told.     *)
KnownTracks ==
  /\ \A b \in BatchIds : items[b] \subseteq Heard /\ toResume[b] \subseteq Heard
  /\ inFlight \subseteq Heard /\ failed \subseteq Heard

KnownTold ==
  /\ sBatch # NoBatch => part \subseteq Heard
  /\ \A c \in Callers : cRes[c] # NoBatch => cOp[c] \in Heard
  /\ \A op \in Ops : stamp[op] # NoBatch => op \in Heard

LEMMA KnownHalves == Known <=> KnownTracks /\ KnownTold
BY DEF Known, KnownTracks, KnownTold

(* Registering a batch the broker has heard of.                            *)
LEMMA RegisterKnown ==
  ASSUME WellFormed, KnownTracks, Heard \subseteq Heard', NEW b \in BatchIds,
         NEW ops \in SUBSET Heard, RegisterBatch(b, ops), failed' = failed,
         \A d \in BatchIds : toResume'[d] \subseteq toResume[d]
  PROVE  KnownTracks'
<1>1. /\ items \in [BatchIds -> SUBSET Ops] /\ items' = [items EXCEPT ![b] = ops]
      /\ inFlight' = inFlight \cup ops
  BY DEF RegisterBatch, WellFormed, TypeOK
<1> QED
  BY <1>1 DEF KnownTracks

(* Giving up a batch: its items become failures.                           *)
LEMMA DropKnown ==
  ASSUME WellFormed, KnownTracks, Heard \subseteq Heard', NEW b \in BatchIds,
         DropBatch(b), toResume' = toResume
  PROVE  KnownTracks'
<1>1. /\ items \in [BatchIds -> SUBSET Ops] /\ items' = [items EXCEPT ![b] = {}]
      /\ inFlight' = inFlight \ items[b] /\ failed' = items[b]
  BY DEF DropBatch, ClearInFlight, ExpiredItems, WellFormed, TypeOK
<1> QED
  BY <1>1 DEF KnownTracks

(* A step of the sender, the poller, batchresume or the others keeps what  *)
(* is tracked known.                                                       *)
LEMMA TracksKnown ==
  ASSUME WellFormed, Known, [Next]_vars
  PROVE  KnownTracks'
<1> USE OpsFact, BatcherAssumption
<1>0. Heard \subseteq Heard' /\ KnownTracks /\ KnownTold
  BY HeardForGood, KnownHalves
<1>1. ASSUME Register PROVE KnownTracks'
  <2>1. sBatch \in BatchIds /\ sBatch # NoBatch /\ part \in SUBSET Heard
    BY <1>0, <1>1 DEF Register, WellFormed, StepShape, KnownTold
  <2>2. failed' = failed /\ toResume' = toResume /\ RegisterBatch(sBatch, part)
    BY <1>1 DEF Register, pollVars, resumeVars
  <2> QED
    BY <1>0, <2>1, <2>2, RegisterKnown
<1>2. ASSUME NEW b \in BatchIds, ResumeAddBatch(b) PROVE KnownTracks'
  <2>1. toResume \in [BatchIds -> SUBSET AddOps] /\ toResume' = [toResume EXCEPT ![b] = {}]
        /\ failed' = failed
    BY <1>2 DEF ResumeAddBatch, pollVars, WellFormed, TypeOK
  <2>2. CASE UNCHANGED <<items, inFlight>>
    BY <1>0, <2>1, <2>2 DEF KnownTracks
  <2>3. CASE RegisterBatch(b, toResume[b])
    <3>1. toResume[b] \in SUBSET Heard
      BY <1>0 DEF KnownTracks
    <3>2. \A d \in BatchIds : toResume'[d] \subseteq toResume[d]
      BY <2>1
    <3> QED
      BY <1>0, <2>1, <2>3, <3>1, <3>2, RegisterKnown
  <2> QED
    BY <1>2, <2>2, <2>3 DEF ResumeAddBatch
<1>3. ASSUME ResumeList \/ ResumeListFails PROVE KnownTracks'
  <2>1. UNCHANGED <<items, inFlight, failed>>
    BY <1>3 DEF ResumeList, ResumeListFails, trackVars, pollVars
  <2>2. \/ toResume' = toResume
        \/ toResume' = [b \in BatchIds |-> {op \in AddOps : Resumable(op, b)}]
    BY <1>3 DEF ResumeList, ResumeListFails
  <2>3. \A b \in BatchIds : {op \in AddOps : Resumable(op, b)} \subseteq Heard
    BY <1>0 DEF Resumable, KnownTold
  <2> QED
    BY <1>0, <2>1, <2>2, <2>3 DEF KnownTracks
<1>4. ASSUME NEW b \in BatchIds, DropBatch(b), PollerNext PROVE KnownTracks'
  BY <1>0, <1>4, DropKnown, PollerFrame DEF resumeVars
<1>5. ASSUME PollResults PROVE KnownTracks'
  <2>1. pBatch \in BatchIds /\ items \in [BatchIds -> SUBSET Ops]
    BY <1>5 DEF PollResults, WellFormed, TypeOK, StepShape
  <2>2. /\ items' = [items EXCEPT ![pBatch] = @ \ (Completed \cup Reported("failed"))]
        /\ inFlight' \subseteq inFlight /\ failed' = Reported("failed")
        /\ toResume' = toResume
    BY <1>5 DEF PollResults, resumeVars
  <2>3. Reported("failed") \subseteq items[pBatch]
    BY DEF Reported
  <2> QED
    BY <1>0, <2>1, <2>2, <2>3 DEF KnownTracks
<1>6. ASSUME PollEmpty PROVE KnownTracks'
  <2>1. CASE DropBatch(pBatch)
    BY <1>4, <1>6, <2>1 DEF PollEmpty, PollerNext, WellFormed, StepShape
  <2>2. CASE UNCHANGED <<items, inFlight, failed>>
    BY <1>0, <1>6, <2>2 DEF PollEmpty, resumeVars, KnownTracks
  <2> QED
    BY <1>6, <2>1, <2>2 DEF PollEmpty
<1>7. ASSUME NEW b \in BatchIds, PollTooOld(b) PROVE KnownTracks'
  BY <1>4, <1>7 DEF PollTooOld, PollerNext
<1>8. ASSUME NEW op \in Ops, Handle(op) \/ HandleFails(op) PROVE KnownTracks'
  <2>1. UNCHANGED <<items, inFlight, toResume>> /\ failed' \subseteq failed
    BY <1>8 DEF Handle, HandleFails, trackVars, resumeVars
  <2> QED
    BY <1>0, <2>1 DEF KnownTracks
<1>9. ASSUME Crash PROVE KnownTracks'
  BY <1>9 DEF Crash, KnownTracks, Nothing
<1>10. ASSUME \/ \E c \in Callers : CallerNext(c) \/ \E op \in Ops : Call(c, op)
              \/ \E op \in Ops : ClaimNext(op)
              \/ Collect \/ SendFails \/ \E b \in BatchIds : Send(b)
              \/ \E op \in Ops : Resolve(op)
              \/ BrokerNext \/ Settled \/ UNCHANGED vars \/ PollTick
              \/ \E b \in BatchIds : PollSkip(b) \/ PollBatch(b) \/ PollFails(b)
       PROVE  KnownTracks'
  <2>1. UNCHANGED <<items, inFlight, toResume, failed>>
    BY <1>10, CallerFrame, ClaimFrame, BrokerFrame
    DEF Collect, SendFails, Send, Resolve, Settled, vars, trackVars, pollVars, resumeVars,
        PollTick, PollSkip, PollBatch, PollFails
  <2> QED
    BY <1>0, <2>1 DEF KnownTracks
<1> QED
  BY <1>1, <1>2, <1>3, <1>5, <1>6, <1>7, <1>8, <1>9, <1>10
  DEF Next, SenderNext, PollerNext, ResumeNext

(* ... and what callers and claims have been told.                         *)
LEMMA ToldKnown ==
  ASSUME WellFormed, Known, [Next]_vars
  PROVE  KnownTold'
<1> USE OpsFact, BatcherAssumption
<1>0. Heard \subseteq Heard' /\ KnownTracks /\ KnownTold
  BY HeardForGood, KnownHalves
<1>1. /\ cRes \in [Callers -> BatchIds \cup {NoBatch}] /\ cOp \in [Callers -> Ops \cup {NoOp}]
      /\ stamp \in [Ops -> BatchIds \cup {NoBatch}]
  BY DEF WellFormed, TypeOK
<1>2. ASSUME NEW c \in Callers, NEW op \in Ops, Call(c, op) PROVE KnownTold'
  <2>1. cRes[c] = NoBatch
    BY <1>2 DEF Call, WellFormed, CallerShape
  <2>2. UNCHANGED <<sBatch, part, stamp, cRes>> /\ cOp' = [cOp EXCEPT ![c] = op]
    BY <1>2 DEF Call, senderVars, claimVars
  <2> QED
    BY <1>0, <1>1, <2>1, <2>2 DEF KnownTold
<1>3. ASSUME NEW c \in Callers, EnqueueCheck(c) PROVE KnownTold'
  <2>1. UNCHANGED <<sBatch, part, stamp, cOp>>
    BY <1>3 DEF EnqueueCheck, senderVars, claimVars
  <2>2. CASE cRes' = cRes
    BY <1>0, <2>1, <2>2 DEF KnownTold
  <2>3. CASE cOp[c] \in inFlight /\ cRes' = [cRes EXCEPT ![c] = opBatch[cOp[c]]]
    BY <1>0, <1>1, <2>1, <2>3 DEF KnownTold, KnownTracks
  <2> QED
    BY <1>3, <2>2, <2>3 DEF EnqueueCheck
<1>4. ASSUME NEW c \in Callers, EnqueueInsert(c) PROVE KnownTold'
  <2>1. UNCHANGED <<sBatch, part, stamp, cOp, cRes>>
    BY <1>4 DEF EnqueueInsert, senderVars, claimVars
  <2> QED
    BY <1>0, <2>1 DEF KnownTold
<1>5. ASSUME NEW c \in Callers, Abandon(c) PROVE KnownTold'
  <2>1. cRes[c] = NoBatch
    BY <1>5 DEF Abandon, WellFormed, CallerShape
  <2>2. UNCHANGED <<sBatch, part, stamp, cRes>> /\ cOp' = [cOp EXCEPT ![c] = NoOp]
    BY <1>5 DEF Abandon, senderVars, claimVars
  <2> QED
    BY <1>0, <1>1, <2>1, <2>2 DEF KnownTold
<1>6. ASSUME NEW c \in Callers, Return(c) PROVE KnownTold'
  <2>1. /\ UNCHANGED <<sBatch, part>> /\ cOp' = [cOp EXCEPT ![c] = NoOp]
        /\ cRes' = [cRes EXCEPT ![c] = NoBatch]
    BY <1>6 DEF Return, senderVars
  <2>2. \/ stamp' = stamp
        \/ cRes[c] # NoBatch /\ stamp' = [stamp EXCEPT ![cOp[c]] = cRes[c]]
    BY <1>6 DEF Return
  <2>3. \A op \in Ops : stamp'[op] # NoBatch => op \in Heard
    BY <1>0, <1>1, <2>2 DEF KnownTold
  <2> QED
    BY <1>0, <1>1, <2>1, <2>3 DEF KnownTold
<1>7. ASSUME NEW op \in Ops, ClaimNext(op) PROVE KnownTold'
  <2>1. UNCHANGED <<sBatch, part, cOp, cRes>>
    BY <1>7, ClaimFrame DEF senderVars, callerVars
  <2>2. stamp' = stamp \/ stamp' = [stamp EXCEPT ![op] = NoBatch]
    BY <1>7 DEF ClaimNext, DeleteDone, DeleteClaim, DeletePending, NodeJoins
  <2> QED
    BY <1>0, <1>1, <2>1, <2>2 DEF KnownTold
<1>8. ASSUME NEW b \in BatchIds, Send(b) PROVE KnownTold'
  <2>1. UNCHANGED <<cOp, cRes, stamp>> /\ part' = Partition /\ rec' = Accepted(Partition)
    BY <1>8 DEF Send, InHand, callerVars, claimVars
  <2>2. Partition \subseteq Heard'
    <3>1. Partition \subseteq Ops
      BY DEF Partition, WellFormed, TypeOK
    <3>2. \A o \in Partition : rec'[o] # "absent"
      BY <2>1, <3>1 DEF Accepted, Live
    <3> QED
      BY <3>1, <3>2 DEF Heard
  <2> QED
    BY <1>0, <2>1, <2>2 DEF KnownTold
<1>9. ASSUME SendFails PROVE KnownTold'
  <2>1. UNCHANGED <<cOp, cRes, stamp>> /\ sBatch' = NoBatch
    BY <1>9 DEF SendFails, callerVars, claimVars
  <2> QED
    BY <1>0, <2>1 DEF KnownTold
<1>10. ASSUME NEW op \in Ops, Resolve(op) PROVE KnownTold'
  <2>1. /\ UNCHANGED <<cOp, stamp>> /\ op \in part /\ part' = part \ {op}
        /\ sBatch' \in {sBatch, NoBatch}
        /\ cRes' = [c \in Callers |-> IF c \in Waiters(op) THEN sBatch ELSE cRes[c]]
    BY <1>10 DEF Resolve, ResolvePending, claimVars
  <2>2. \A c \in Waiters(op) : cOp[c] = op
    BY DEF Waiters
  <2>3. \A c \in Callers : cRes'[c] # NoBatch => cOp'[c] \in Heard
    BY <1>0, <2>1, <2>2 DEF KnownTold
  <2> QED
    BY <1>0, <2>1, <2>3 DEF KnownTold
<1>11. ASSUME Crash PROVE KnownTold'
  <2>1. /\ sBatch' = NoBatch /\ cRes' = [c \in Callers |-> NoBatch] /\ stamp' = stamp
    BY <1>11 DEF Crash, claimVars
  <2> QED
    BY <1>0, <2>1 DEF KnownTold
<1>12. ASSUME \/ Collect \/ Register \/ PollerNext \/ ResumeNext \/ BrokerNext \/ Settled
              \/ UNCHANGED vars
       PROVE  KnownTold'
  <2>1. UNCHANGED <<sBatch, part, cOp, cRes, stamp>>
    BY <1>12, PollerFrame, ResumeFrame, BrokerFrame
    DEF Collect, Register, Settled, vars, callerVars, claimVars, senderVars
  <2> QED
    BY <1>0, <2>1 DEF KnownTold
<1> QED
  BY <1>2, <1>3, <1>4, <1>5, <1>6, <1>7, <1>8, <1>9, <1>10, <1>11, <1>12
  DEF Next, CallerNext, SenderNext

LEMMA KnownInvariant == Spec => []Known
<1>1. Init => Known
  BY DEF Init, ProcessInit, Known, Nothing
<1>2. WellFormed /\ Known /\ [Next]_vars => Known'
  <2> SUFFICES ASSUME WellFormed, Known, [Next]_vars PROVE Known'
    OBVIOUS
  <2>1. KnownTracks' /\ KnownTold'
    BY TracksKnown, ToldKnown
  <2> QED
    BY <2>1 DEF Known, KnownTracks, KnownTold
<1> QED
  BY <1>1, <1>2, WellFormedInvariant, PTL DEF Spec

----------------------------------------------------------------------------
(* The steps, through the refinement mapping.                              *)

(* A step that touches neither the claims nor the broker's records.        *)
LEMMA PromiseStutters ==
  ASSUME UNCHANGED <<claim, rec>>
  PROVE  UNCHANGED <<Phase, Outcome>>
BY DEF Phase, Outcome

(* One claim moves and the broker does not.                                *)
LEMMA PhaseMoves ==
  ASSUME claim \in [Ops -> {"wanted", "launched", "deleting", "done"}],
         NEW op \in Ops, NEW v \in {"launched", "deleting", "done"},
         claim' = [claim EXCEPT ![op] = v], rec' = rec
  PROVE  Promise!Moves(op, IF v = "launched" THEN "launched" ELSE "closed")
<1> DEFINE to == IF v = "launched" THEN "launched" ELSE "closed"
<1>1. Outcome' = Outcome
  BY DEF Outcome
<1>2. \A o \in Ops : Phase'[o] = IF o = op THEN to ELSE Phase[o]
  BY DEF Phase
<1>3. Phase' = [o \in Ops |-> Phase'[o]] /\ Phase = [o \in Ops |-> Phase[o]]
  BY DEF Phase
<1>4. Phase' = [Phase EXCEPT ![op] = to]
  BY <1>2, <1>3
<1> QED
  BY <1>1, <1>4 DEF Promise!Moves

(* A claim under deletion or gone has a closed phase already.              *)
LEMMA ClosedStays ==
  ASSUME claim \in [Ops -> {"wanted", "launched", "deleting", "done"}],
         NEW op \in Ops, claim[op] = "deleting", claim' = [claim EXCEPT ![op] = "done"],
         rec' = rec
  PROVE  UNCHANGED <<Phase, Outcome>>
<1>1. \A o \in Ops : Phase'[o] = Phase[o]
  BY DEF Phase
<1>2. Phase' = [o \in Ops |-> Phase'[o]] /\ Phase = [o \in Ops |-> Phase[o]]
  BY DEF Phase
<1> QED
  BY <1>1, <1>2 DEF Outcome

(* The broker's records move as Progress allows.                           *)
LEMMA OutcomeWorks ==
  ASSUME rec \in [Ops -> States], rec' \in [Ops -> States], claim' = claim,
         \A op \in Ops :
           \/ rec'[op] = rec[op]
           \/ rec[op] \in {"absent", "failed"} /\ rec'[op] \in {"accepted", "failed"}
           \/ rec[op] \in {"accepted", "running"} /\ rec'[op] \in {"running", "succeeded", "failed"}
  PROVE  Promise!Work
<1>1. Phase' = Phase
  BY DEF Phase
<1>2. Outcome' \in [Ops -> {"unknown", "taken", "succeeded", "failed"}]
  BY DEF Outcome, States, Live
<1>3. \A op \in Ops :
        Outcome'[op] = Outcome[op] \/ <<Outcome[op], Outcome'[op]>> \in Promise!Progress
  BY DEF Outcome, States, Live, Promise!Progress
<1> QED
  BY <1>1, <1>2, <1>3 DEF Promise!Work, Promise!Operations, Ops

(* Every step of the batcher, of its callers and of the broker is a step   *)
(* of the promise, or none of its business.                                *)
LEMMA StepKeepsPromise ==
  ASSUME WellFormed, SucceededSound, Known, [Next]_vars
  PROVE  [Promise!Next]_<<Phase, Outcome>>
<1> USE OpsFact
<1> DEFINE Kept == [Promise!Next]_<<Phase, Outcome>>
<1>0. /\ claim \in [Ops -> {"wanted", "launched", "deleting", "done"}]
      /\ rec \in [Ops -> States] /\ AddOps \cup RemoveOps = Ops
  BY DEF WellFormed, TypeOK, Ops
<1>1. \A op \in Ops : /\ claim[op] = "wanted" => Phase[op] = "open"
                      /\ claim[op] = "launched" => Phase[op] = "launched"
                      /\ op \in Heard => Outcome[op] # "unknown"
                      /\ rec[op] = "succeeded" => Outcome[op] = "succeeded"
  BY <1>0 DEF Phase, Outcome, Heard, States, Live
<1>2. ASSUME UNCHANGED <<claim, rec>> PROVE Kept
  BY <1>2, PromiseStutters
<1>3. ASSUME Promise!Work PROVE Kept
  BY <1>3 DEF Promise!Next
<1>4. ASSUME NEW c \in Callers, Return(c) PROVE Kept
  <2> DEFINE op == cOp[c]
  <2>1. op \in Ops /\ rec' = rec
    BY <1>4 DEF Return, brokerVars, WellFormed, CallerShape, TypeOK
  <2>2. CASE op \in AddOps /\ cRes[c] # NoBatch /\ claim[op] = "wanted"
    <3>1. claim' = [claim EXCEPT ![op] = "launched"]
      BY <1>4, <2>2 DEF Return
    <3>2. Promise!Moves(op, "launched")
      BY <1>0, <2>1, <3>1, PhaseMoves
    <3>3. op \in Heard
      BY <2>2 DEF Known
    <3>4. Promise!Launch(op)
      BY <1>1, <2>1, <2>2, <3>2, <3>3 DEF Promise!Launch
    <3> QED
      BY <1>0, <2>1, <3>4 DEF Promise!Next, Promise!Operations
  <2>3. CASE ~(op \in AddOps /\ cRes[c] # NoBatch /\ claim[op] = "wanted")
    <3>1. claim' = claim
      BY <1>0, <1>4, <2>1, <2>3 DEF Return
    <3> QED
      BY <1>2, <2>1, <3>1
  <2> QED
    BY <2>2, <2>3
<1>5. ASSUME NEW op \in Ops, DeleteDone(op) PROVE Kept
  <2>1. /\ op \in RemoveOps /\ claim[op] = "wanted" /\ rec[op] = "succeeded"
        /\ claim' = [claim EXCEPT ![op] = "done"] /\ rec' = rec
    BY <1>5 DEF DeleteDone, brokerVars, SucceededSound
  <2>2. Promise!Moves(op, "closed")
    BY <1>0, <2>1, PhaseMoves
  <2>3. Promise!Release(op)
    BY <1>1, <2>1, <2>2 DEF Promise!Release
  <2> QED
    BY <1>0, <2>3 DEF Promise!Next, Promise!Operations
<1>6. ASSUME NEW op \in AddOps, claim[op] = "launched", rec' = rec, NEW v \in {"deleting", "done"},
             claim' = [claim EXCEPT ![op] = v]
      PROVE  Kept
  <2>1. Promise!Moves(op, "closed")
    BY <1>0, <1>6, PhaseMoves
  <2>2. Promise!End(op)
    BY <1>1, <1>6, <2>1 DEF Promise!End
  <2> QED
    BY <1>0, <2>2 DEF Promise!Next, Promise!Operations
<1>7. ASSUME NEW op \in Ops, DeleteClaim(op) \/ NodeJoins(op) PROVE Kept
  BY <1>6, <1>7 DEF DeleteClaim, NodeJoins, brokerVars
<1>8. ASSUME NEW op \in Ops, DeletePending(op) PROVE Kept
  BY <1>0, <1>8, ClosedStays DEF DeletePending, brokerVars
<1>9. ASSUME NEW op \in Ops, Handle(op) PROVE Kept
  <2>1. op \in failed /\ op \in Heard /\ rec' = rec
    BY <1>9 DEF Handle, brokerVars, Known
  <2>2. CASE op \in AddOps /\ claim[op] = "wanted"
    <3>1. claim' = [claim EXCEPT ![op] = "deleting"]
      BY <1>9, <2>2 DEF Handle
    <3>2. Promise!Moves(op, "closed")
      BY <1>0, <2>1, <3>1, PhaseMoves
    <3>3. Promise!GiveUp(op)
      BY <1>1, <2>1, <2>2, <3>2 DEF Promise!GiveUp
    <3> QED
      BY <1>0, <3>3 DEF Promise!Next, Promise!Operations
  <2>3. CASE op \in AddOps /\ claim[op] = "launched"
    <3>1. claim' = [claim EXCEPT ![op] = "deleting"]
      BY <1>9, <2>3 DEF Handle
    <3> QED
      BY <1>6, <2>1, <2>3, <3>1
  <2>4. CASE ~(op \in AddOps /\ claim[op] \in {"wanted", "launched"})
    <3>1. claim' = claim
      BY <1>0, <1>9, <2>4 DEF Handle
    <3> QED
      BY <1>2, <2>1, <3>1
  <2> QED
    BY <2>2, <2>3, <2>4
<1>10. ASSUME \/ SendFails \/ \E b \in BatchIds : Send(b)
       PROVE  Kept
  <2>1. claim' = claim /\ rec' \in {rec, Rejected(Partition), Accepted(Partition)}
    BY <1>10 DEF Send, SendFails, claimVars
  <2>2. rec' \in [Ops -> States]
    BY <1>0, <2>1 DEF Rejected, Accepted, States, Live
  <2>3. \A op \in Ops : \/ rec'[op] = rec[op]
                        \/ /\ rec[op] \in {"absent", "failed"}
                           /\ rec'[op] \in {"accepted", "failed"}
    BY <1>0, <2>1 DEF Rejected, Accepted, States, Live
  <2> QED
    BY <1>0, <1>3, <2>1, <2>2, <2>3, OutcomeWorks
<1>11. ASSUME BrokerNext PROVE Kept
  <2>1. claim' = claim
    BY <1>11, BrokerFrame
  <2>2. rec' \in [Ops -> States]
    BY <1>0, <1>11 DEF BrokerNext, BrokerRun, BrokerSucceed, BrokerFail, BrokerExpire,
      BrokerStep, CancelOperation, CancelFails, IndexExpire, brokerVars, States, Live
  <2>3. \A op \in Ops : \/ rec'[op] = rec[op]
                        \/ /\ rec[op] \in {"accepted", "running"}
                           /\ rec'[op] \in {"running", "succeeded", "failed"}
    BY <1>0, <1>11 DEF BrokerNext, BrokerRun, BrokerSucceed, BrokerFail, BrokerExpire,
      BrokerStep, CancelOperation, CancelFails, IndexExpire, brokerVars
  <2> QED
    BY <1>0, <1>3, <2>1, <2>2, <2>3, OutcomeWorks
<1>12. ASSUME \/ \E c \in Callers : \/ EnqueueCheck(c) \/ EnqueueInsert(c) \/ Abandon(c)
                                    \/ \E op \in Ops : Call(c, op)
              \/ Collect \/ Register \/ \E op \in Ops : Resolve(op) \/ HandleFails(op)
              \/ PollTick \/ PollEmpty \/ PollResults
              \/ \E b \in BatchIds : PollSkip(b) \/ PollBatch(b) \/ PollFails(b) \/ PollTooOld(b)
              \/ ResumeNext \/ Crash \/ Settled \/ UNCHANGED vars
       PROVE  Kept
  <2>1. UNCHANGED <<claim, rec>>
    BY <1>12, ResumeFrame
    DEF EnqueueCheck, EnqueueInsert, Abandon, Call, Collect, Register, Resolve, HandleFails,
        PollTick, PollEmpty, PollResults, PollSkip, PollBatch, PollFails, PollTooOld, Crash,
        Settled, vars, claimVars, brokerVars
  <2> QED
    BY <1>2, <2>1
<1> QED
  BY <1>4, <1>5, <1>7, <1>8, <1>9, <1>10, <1>11, <1>12
  DEF Next, CallerNext, ClaimNext, SenderNext, PollerNext

(* The batcher implements NodeOperations: Create() reports an add launched *)
(* only once the broker has it, the failure handler gives up only adds the *)
(* broker has heard of, and Delete() reports an instance gone only when    *)
(* the broker finished its removal, through retries, lost ACKs, given-up   *)
(* batches, failed calls and restarts, for every instance.                 *)
THEOREM ImplementsNodeOperations == Spec => KeepsPromise
<1>1. Init => Promise!Init
  <2> SUFFICES ASSUME Init PROVE Promise!Init
    OBVIOUS
  <2>1. claim \in [Ops -> {"wanted", "done"}] /\ rec = [op \in Ops |-> "absent"]
    BY DEF Init
  <2>2. Phase \in [Ops -> {"open", "closed"}] /\ Outcome = [op \in Ops |-> "unknown"]
    BY <2>1 DEF Phase, Outcome
  <2> QED
    BY <2>2 DEF Promise!Init, Promise!Operations, Ops
<1>2. WellFormed /\ SucceededSound /\ Known /\ [Next]_vars => [Promise!Next]_<<Phase, Outcome>>
  BY StepKeepsPromise
<1> QED
  BY <1>1, <1>2, WellFormedInvariant, SucceededIsSound, KnownInvariant, PTL
  DEF Spec, KeepsPromise, Promise!Spec

=============================================================================
