--------------------------- MODULE BatcherTracking ---------------------------
(***************************************************************************)
(* Proofs about the batch IDs of Batcher, for every set of operations,     *)
(* callers and batch IDs and every bound: an ACK names a batch that        *)
(* carries the operation, the poller loses no item, and a launched add is  *)
(* followed, reported or resumed through every restart.                    *)
(***************************************************************************)
EXTENDS BatcherRefinement

----------------------------------------------------------------------------
(* What the batcher remembers about a batch ID is what the broker was sent *)
(* under it: AckIsTrue with the sets the answers are taken from, which are *)
(* the tracked batches, the ones to resume, and the partition in hand.     *)
Carried ==
  /\ \A b \in BatchIds : \A op \in items[b] \cup toResume[b] : SentIn(op, b)
  /\ sBatch # NoBatch => \A op \in part : SentIn(op, sBatch)

Truthful == Carried /\ AckIsTrue

(* Only a Send records a new index for a batch ID.                         *)
LEMMA SentForGood ==
  ASSUME WellFormed, [Next]_vars, NEW op \in Ops, NEW b \in BatchIds, SentIn(op, b),
         index'[b] = index[b] \/ index'[b] = {}
  PROVE  SentIn(op, b)'
<1>1. op \in Heard'
  BY HeardForGood DEF SentIn, Heard
<1> QED
  BY <1>1 DEF SentIn, Heard

(* Every step but a Send leaves the index alone or lets an entry expire.   *)
LEMMA IndexFrame ==
  ASSUME WellFormed, [Next]_vars, ~(\E b \in BatchIds : Send(b)), NEW d \in BatchIds
  PROVE  index'[d] = index[d] \/ index'[d] = {}
<1>0. index \in [BatchIds -> SUBSET Ops]
  BY DEF WellFormed, TypeOK
<1>1. ASSUME BrokerNext PROVE index'[d] = index[d] \/ index'[d] = {}
  BY <1>0, <1>1 DEF BrokerNext, BrokerRun, BrokerSucceed, BrokerFail, BrokerExpire,
    BrokerStep, CancelOperation, CancelFails, IndexExpire, brokerVars
<1>2. ASSUME \/ Collect \/ Register \/ SendFails \/ \E op \in Ops : Resolve(op)
             \/ \E c \in Callers : CallerNext(c) \/ \E op \in Ops : Call(c, op)
             \/ \E op \in Ops : ClaimNext(op)
             \/ PollerNext \/ ResumeNext \/ Crash \/ Settled \/ UNCHANGED vars
      PROVE  index' = index
  BY <1>2, CallerFrame, ClaimFrame, PollerFrame, ResumeFrame
  DEF Collect, Register, SendFails, Resolve, Crash, Settled, vars, brokerVars
<1> QED
  BY <1>1, <1>2 DEF Next, SenderNext

(* The poller drops the batch it polled, or one that is too old.           *)
GivesUp(b) == PollerNext /\ DropBatch(b) /\ (b = pBatch \/ InitialDelayOver(b))

(* The steps that change which operations a batch ID tracks.               *)
LEMMA ItemsMove ==
  ASSUME WellFormed, [Next]_vars
  PROVE  \/ items' = items
         \/ Register \/ PollResults \/ Crash
         \/ \E b \in BatchIds : ResumeAddBatch(b) \/ GivesUp(b)
<1>1. ASSUME PollerNext
      PROVE  \/ items' = items \/ PollResults \/ \E b \in BatchIds : GivesUp(b)
  <2>1. CASE PollEmpty
    BY <1>1, <2>1 DEF PollEmpty, GivesUp, WellFormed, StepShape
  <2>2. CASE \E b \in BatchIds : PollTooOld(b)
    BY <1>1, <2>2 DEF PollTooOld, GivesUp
  <2>3. CASE UNCHANGED trackVars
    BY <2>3 DEF trackVars
  <2> QED
    BY <1>1, <2>1, <2>2, <2>3
    DEF PollerNext, PollTick, PollSkip, PollBatch, PollFails, Handle, HandleFails
<1>2. ASSUME \/ Collect \/ SendFails \/ \E b \in BatchIds : Send(b)
             \/ \E op \in Ops : Resolve(op)
             \/ \E c \in Callers : CallerNext(c) \/ \E op \in Ops : Call(c, op)
             \/ \E op \in Ops : ClaimNext(op)
             \/ BrokerNext \/ ResumeList \/ ResumeListFails \/ Settled \/ UNCHANGED vars
      PROVE  items' = items
  BY <1>2, CallerFrame, ClaimFrame, BrokerFrame
  DEF Collect, SendFails, Send, Resolve, ResumeList, ResumeListFails, Settled, vars,
      trackVars
<1> QED
  BY <1>1, <1>2 DEF Next, SenderNext, ResumeNext

(* A batch ID gains operations only when it is registered or resumed.      *)
LEMMA ItemsGrow ==
  ASSUME WellFormed, [Next]_vars, NEW b \in BatchIds, NEW op \in items'[b]
  PROVE  \/ op \in items[b]
         \/ Register /\ b = sBatch /\ op \in part
         \/ ResumeAddBatch(b) /\ op \in toResume[b]
<1>0. items \in [BatchIds -> SUBSET Ops]
  BY DEF WellFormed, TypeOK
<1>1. CASE Register
  BY <1>0, <1>1 DEF Register, RegisterBatch
<1>2. CASE PollResults
  BY <1>0, <1>2 DEF PollResults
<1>3. CASE Crash
  BY <1>3 DEF Crash, Nothing
<1>4. ASSUME NEW d \in BatchIds, ResumeAddBatch(d)
      PROVE  \/ op \in items[b]
             \/ ResumeAddBatch(b) /\ op \in toResume[b]
  BY <1>0, <1>4 DEF ResumeAddBatch, RegisterBatch
<1>5. ASSUME NEW d \in BatchIds, GivesUp(d) PROVE op \in items[b]
  BY <1>0, <1>5 DEF GivesUp, DropBatch
<1> QED
  BY <1>1, <1>2, <1>3, <1>4, <1>5, ItemsMove

(* batchresume takes its batches from the stamps and from nowhere else.    *)
LEMMA ToResumeGrow ==
  ASSUME WellFormed, [Next]_vars, NEW b \in BatchIds, NEW op \in toResume'[b]
  PROVE  op \in toResume[b] \/ (ResumeList /\ op \in AddOps /\ Resumable(op, b))
<1>0. toResume \in [BatchIds -> SUBSET AddOps]
  BY DEF WellFormed, TypeOK
<1>1. CASE ResumeList
  BY <1>1 DEF ResumeList
<1>2. ASSUME NEW d \in BatchIds, ResumeAddBatch(d) PROVE op \in toResume[b]
  BY <1>0, <1>2 DEF ResumeAddBatch
<1>3. CASE Crash
  BY <1>3 DEF Crash, Nothing
<1>4. CASE \/ ResumeListFails \/ SenderNext \/ PollerNext \/ BrokerNext
           \/ \E c \in Callers : CallerNext(c) \/ \E o \in Ops : Call(c, o)
           \/ \E o \in Ops : ClaimNext(o)
           \/ Settled \/ UNCHANGED vars
  <2>1. toResume' = toResume
    BY <1>4, CallerFrame, ClaimFrame, BrokerFrame, PollerFrame, SenderFrame
    DEF ResumeListFails, Settled, vars, resumeVars
  <2> QED
    BY <2>1
<1> QED
  BY <1>1, <1>2, <1>3, <1>4 DEF Next, ResumeNext

(* A caller holds a batch ID because the in-flight short cut or the sender *)
(* gave it to this call.                                                   *)
LEMMA AckGrow ==
  ASSUME WellFormed, [Next]_vars, NEW c \in Callers, cRes'[c] # NoBatch
  PROVE  /\ cOp'[c] = cOp[c] /\ cOp[c] \in Ops
         /\ \/ cRes'[c] = cRes[c]
            \/ /\ EnqueueCheck(c) /\ cOp[c] \in inFlight
               /\ cRes'[c] = opBatch[cOp[c]]
            \/ Resolve(cOp[c]) /\ cRes'[c] = sBatch
<1> USE BatcherAssumption, OpsFact
<1> DEFINE Goal == /\ cOp'[c] = cOp[c] /\ cOp[c] \in Ops
                   /\ \/ cRes'[c] = cRes[c]
                      \/ /\ EnqueueCheck(c) /\ cOp[c] \in inFlight
                         /\ cRes'[c] = opBatch[cOp[c]]
                      \/ Resolve(cOp[c]) /\ cRes'[c] = sBatch
<1>0. /\ cRes \in [Callers -> BatchIds \cup {NoBatch}] /\ cOp \in [Callers -> Ops \cup {NoOp}]
      /\ \A d \in Callers : cRes[d] # NoBatch => cOp[d] \in Ops /\ cPC[d] = "resolved"
      /\ \A d \in Callers : cPC[d] \in {"called", "checked", "waiting"} =>
           cRes[d] = NoBatch /\ cOp[d] \in Ops
  BY DEF WellFormed, TypeOK, CallerShape
<1>1. ASSUME NEW d \in Callers, NEW op \in Ops, Call(d, op) PROVE Goal
  BY <1>0, <1>1 DEF Call
<1>2. ASSUME NEW d \in Callers, EnqueueCheck(d) PROVE Goal
  <2>1. cOp' = cOp /\ cPC[d] = "called"
    BY <1>2 DEF EnqueueCheck
  <2>2. CASE cOp[d] \in inFlight /\ cRes' = [cRes EXCEPT ![d] = opBatch[cOp[d]]]
    BY <1>0, <1>2, <2>1, <2>2
  <2>3. CASE cRes' = cRes
    BY <1>0, <2>1, <2>3
  <2> QED
    BY <1>2, <2>2, <2>3 DEF EnqueueCheck
<1>3. ASSUME NEW d \in Callers, EnqueueInsert(d) \/ Abandon(d) \/ Return(d) PROVE Goal
  BY <1>0, <1>3 DEF EnqueueInsert, Abandon, Return
<1>4. ASSUME NEW op \in Ops, Resolve(op) PROVE Goal
  <2>1. /\ cOp' = cOp
        /\ cRes' = [d \in Callers |-> IF d \in Waiters(op) THEN sBatch ELSE cRes[d]]
    BY <1>4 DEF Resolve, ResolvePending
  <2>2. c \in Waiters(op) => cOp[c] = op
    BY DEF Waiters
  <2> QED
    BY <1>0, <1>4, <2>1, <2>2
<1>5. ASSUME \/ Collect \/ SendFails \/ Register \/ \E b \in BatchIds : Send(b)
             \/ PollerNext \/ ResumeNext \/ BrokerNext \/ Settled \/ UNCHANGED vars
             \/ \E op \in Ops : ClaimNext(op)
      PROVE  Goal
  <2>1. UNCHANGED <<cOp, cRes>>
    BY <1>5, PollerFrame, ResumeFrame, BrokerFrame, ClaimFrame
    DEF Collect, SendFails, Register, Send, Settled, vars, callerVars
  <2> QED
    BY <1>0, <2>1
<1>6. ASSUME Crash PROVE Goal
  BY <1>6 DEF Crash
<1> QED
  BY <1>1, <1>2, <1>3, <1>4, <1>5, <1>6 DEF Next, CallerNext, SenderNext

(* A claim is stamped by the Create() that launches it and by no one else. *)
LEMMA StampGrow ==
  ASSUME WellFormed, [Next]_vars, NEW op \in Ops, stamp'[op] # NoBatch
  PROVE  \/ stamp'[op] = stamp[op]
         \/ \E c \in Callers : /\ Return(c) /\ cOp[c] = op /\ cRes[c] # NoBatch
                               /\ stamp'[op] = cRes[c]
<1>0. stamp \in [Ops -> BatchIds \cup {NoBatch}]
  BY DEF WellFormed, TypeOK
<1>1. ASSUME NEW c \in Callers, Return(c)
      PROVE  \/ stamp'[op] = stamp[op]
             \/ cOp[c] = op /\ cRes[c] # NoBatch /\ stamp'[op] = cRes[c]
  BY <1>0, <1>1 DEF Return
<1>2. ASSUME NEW o \in Ops, ClaimNext(o) PROVE stamp'[op] = stamp[op]
  BY <1>0, <1>2 DEF ClaimNext, DeleteDone, DeleteClaim, DeletePending, NodeJoins
<1>3. ASSUME \/ \E c \in Callers : \/ EnqueueCheck(c) \/ EnqueueInsert(c) \/ Abandon(c)
                                   \/ \E o \in Ops : Call(c, o)
             \/ SenderNext \/ PollerNext \/ ResumeNext \/ BrokerNext \/ Crash \/ Settled
             \/ UNCHANGED vars
      PROVE  stamp' = stamp
  BY <1>3, SenderFrame, PollerFrame, ResumeFrame, BrokerFrame
  DEF EnqueueCheck, EnqueueInsert, Abandon, Call, Crash, Settled, vars, claimVars
<1> QED
  BY <1>1, <1>2, <1>3 DEF Next, CallerNext

(* A Send gives the sender its batch ID; the partition then only shrinks.  *)
LEMMA PartFrame ==
  ASSUME WellFormed, [Next]_vars, ~(\E b \in BatchIds : Send(b)), sBatch' # NoBatch
  PROVE  sBatch' = sBatch /\ part' \subseteq part
<1>1. ASSUME \/ Collect \/ Register \/ PollerNext \/ ResumeNext \/ BrokerNext \/ Settled
             \/ UNCHANGED vars \/ \E op \in Ops : ClaimNext(op)
             \/ \E c \in Callers : CallerNext(c) \/ \E op \in Ops : Call(c, op)
      PROVE  UNCHANGED <<sBatch, part>>
  BY <1>1, CallerFrame, ClaimFrame, PollerFrame, ResumeFrame, BrokerFrame
  DEF Collect, Register, Settled, vars, senderVars
<1>2. ASSUME NEW op \in Ops, Resolve(op) PROVE sBatch' = sBatch /\ part' \subseteq part
  BY <1>2 DEF Resolve
<1>3. ASSUME SendFails \/ Crash PROVE sBatch' = NoBatch
  BY <1>3 DEF SendFails, Crash
<1> QED
  BY <1>1, <1>2, <1>3 DEF Next, SenderNext

(* An ACK comes from a set of Carried, so both are kept together.          *)
LEMMA TruthfulStep ==
  ASSUME WellFormed, Suppression, Truthful, [Next]_vars
  PROVE  Truthful'
<1> USE BatcherAssumption, OpsFact
<1>0. /\ items \in [BatchIds -> SUBSET Ops] /\ toResume \in [BatchIds -> SUBSET AddOps]
      /\ cRes \in [Callers -> BatchIds \cup {NoBatch}] /\ part \subseteq Ops
      /\ stamp \in [Ops -> BatchIds \cup {NoBatch}] /\ sBatch \in BatchIds \cup {NoBatch}
      /\ index \in [BatchIds -> SUBSET Ops]
      /\ \A c \in Callers : cRes[c] # NoBatch => cOp[c] \in Ops
  BY DEF WellFormed, TypeOK, CallerShape
<1>1. ASSUME NEW b \in BatchIds, Send(b) PROVE Truthful'
  <2>1. /\ UNCHANGED <<items, toResume, cRes, cOp, stamp>>
        /\ sBatch' = b /\ part' = Partition /\ rec' = Accepted(Partition)
        /\ index' = [index EXCEPT ![b] = Partition]
        /\ items[b] = {} /\ toResume[b] = {}
        /\ \A op \in Ops : stamp[op] # b
        /\ \A c \in Callers : cRes[c] # b
    BY <1>1 DEF Send, InHand, Fresh, callerVars, claimVars, trackVars, resumeVars
  <2>2. \A d \in BatchIds \ {b} : \A op \in Ops : SentIn(op, d) => SentIn(op, d)'
    <3> SUFFICES ASSUME NEW d \in BatchIds \ {b}, NEW op \in Ops, SentIn(op, d)
                 PROVE  SentIn(op, d)'
      OBVIOUS
    <3>1. index'[d] = index[d]
      BY <1>0, <2>1
    <3> QED
      BY <3>1, SentForGood
  <2>3. \A op \in part' : SentIn(op, b)'
    <3>1. Partition \subseteq Ops
      BY DEF Partition, WellFormed, TypeOK
    <3>2. \A op \in Partition : rec'[op] # "absent"
      BY <2>1, <3>1 DEF Accepted, Live
    <3> QED
      BY <1>0, <2>1, <3>2 DEF SentIn
  <2>4. Carried'
    BY <1>0, <2>1, <2>2, <2>3 DEF Carried, Truthful
  <2>5. AckIsTrue'
    BY <1>0, <2>1, <2>2 DEF AckIsTrue, Truthful
  <2> QED
    BY <2>4, <2>5 DEF Truthful
<1>2. CASE ~(\E b \in BatchIds : Send(b))
  <2>1. \A b \in BatchIds : \A op \in Ops : SentIn(op, b) => SentIn(op, b)'
    BY <1>2, IndexFrame, SentForGood
  <2>2. \A b \in BatchIds : \A op \in items'[b] : SentIn(op, b)'
    <3> SUFFICES ASSUME NEW b \in BatchIds, NEW op \in items'[b] PROVE SentIn(op, b)'
      OBVIOUS
    <3>1. CASE op \in items[b]
      BY <1>0, <2>1, <3>1 DEF Truthful, Carried
    <3>2. CASE b = sBatch /\ op \in part
      BY <1>0, <2>1, <3>2 DEF Truthful, Carried
    <3>3. CASE op \in toResume[b]
      BY <1>0, <2>1, <3>3 DEF Truthful, Carried
    <3> QED
      BY <3>1, <3>2, <3>3, ItemsGrow
  <2>3. \A b \in BatchIds : \A op \in toResume'[b] : SentIn(op, b)'
    <3> SUFFICES ASSUME NEW b \in BatchIds, NEW op \in toResume'[b] PROVE SentIn(op, b)'
      OBVIOUS
    <3>1. CASE op \in toResume[b]
      BY <1>0, <2>1, <3>1 DEF Truthful, Carried
    <3>2. CASE op \in AddOps /\ Resumable(op, b)
      BY <2>1, <3>2 DEF Truthful, AckIsTrue, Resumable
    <3> QED
      BY <3>1, <3>2, ToResumeGrow
  <2>4. ASSUME sBatch' # NoBatch, NEW op \in part' PROVE SentIn(op, sBatch)'
    <3>1. sBatch' = sBatch /\ part' \subseteq part
      BY <1>2, <2>4, PartFrame
    <3>2. op \in Ops /\ sBatch \in BatchIds /\ SentIn(op, sBatch)
      BY <1>0, <2>4, <3>1 DEF Truthful, Carried
    <3> QED
      BY <2>1, <3>1, <3>2 DEF SentIn
  <2>5. ASSUME NEW c \in Callers, cRes'[c] # NoBatch PROVE SentIn(cOp[c], cRes[c])'
    <3>1. cOp'[c] = cOp[c] /\ cOp[c] \in Ops
      BY <2>5, AckGrow
    <3>2. cRes'[c] \in BatchIds /\ SentIn(cOp[c], cRes'[c])
      <4>1. CASE cRes'[c] = cRes[c]
        BY <1>0, <2>5, <4>1 DEF Truthful, AckIsTrue
      <4>2. CASE cOp[c] \in inFlight /\ cRes'[c] = opBatch[cOp[c]]
        BY <4>2 DEF Suppression, InFlightTracked, Truthful, Carried
      <4>3. CASE Resolve(cOp[c]) /\ cRes'[c] = sBatch
        BY <1>0, <2>5, <4>3 DEF Resolve, Truthful, Carried
      <4> QED
        BY <2>5, <4>1, <4>2, <4>3, AckGrow
    <3> QED
      BY <2>1, <3>1, <3>2 DEF SentIn
  <2>6. ASSUME NEW op \in Ops, stamp'[op] # NoBatch PROVE SentIn(op, stamp[op])'
    <3>1. stamp'[op] \in BatchIds /\ SentIn(op, stamp'[op])
      BY <1>0, <2>6, StampGrow DEF Truthful, AckIsTrue
    <3> QED
      BY <2>1, <3>1 DEF SentIn
  <2> QED
    BY <2>2, <2>3, <2>4, <2>5, <2>6 DEF Truthful, Carried, AckIsTrue
<1> QED
  BY <1>1, <1>2

(* The contract of an ACK, for every instance: a caller told "queued" and  *)
(* a claim stamped with a batch ID name a batch the broker took that       *)
(* operation in.  batchresume polls by that stamp after a restart, so a    *)
(* wrong one would follow somebody else's nodes.                           *)
THEOREM AcksAreTrue == Spec => []AckIsTrue
<1>1. Init => Truthful
  BY DEF Init, ProcessInit, Truthful, Carried, AckIsTrue, Nothing
<1>2. WellFormed /\ Suppression /\ Truthful /\ [Next]_vars => Truthful'
  BY TruthfulStep
<1>3. Truthful => AckIsTrue
  BY DEF Truthful
<1> QED
  BY <1>1, <1>2, <1>3, WellFormedInvariant, SuppressionInvariant, PTL DEF Spec

----------------------------------------------------------------------------
(* The poller loses no item, for every instance: an operation leaves the   *)
(* last batch that tracks it only as recorded SUCCEEDED or as a failure    *)
(* to be reported.  Registering cannot overwrite a tracked batch because   *)
(* of SenderFresh, resuming because it skips tracked ones.                 *)
THEOREM NoItemLost == Spec => ItemsAccountedFor
<1>1. ASSUME WellFormed, Suppression, [Next]_vars
      PROVE  [Crash \/ TrackedOps \ TrackedOps' \subseteq succeeded' \cup failed']_vars
  <2>0. items \in [BatchIds -> SUBSET Ops]
    BY <1>1 DEF WellFormed, TypeOK
  <2> DEFINE Kept(op) == op \in TrackedOps' \/ op \in succeeded' \cup failed'
  <2> SUFFICES ASSUME ~Crash, NEW b \in BatchIds, NEW op \in items[b] PROVE Kept(op)
    BY DEF TrackedOps
  <2>1. CASE op \in items'[b]
    BY <2>1 DEF TrackedOps
  <2>2. CASE op \notin items'[b] /\ items' # items
    <3>1. CASE Register
      <4>1. sBatch \in BatchIds /\ items[sBatch] = {} /\ items' = [items EXCEPT ![sBatch] = part]
        BY <1>1, <3>1 DEF Register, RegisterBatch, Suppression, SenderFresh, WellFormed, StepShape
      <4> QED
        BY <2>0, <2>2, <4>1
    <3>2. CASE PollResults
      <4>1. /\ pBatch \in BatchIds
            /\ items' = [items EXCEPT ![pBatch] = @ \ (Completed \cup Reported("failed"))]
            /\ failed' = Reported("failed") /\ Completed \subseteq succeeded'
        BY <1>1, <3>2 DEF PollResults, WellFormed, StepShape
      <4> QED
        BY <2>0, <2>2, <4>1
    <3>3. ASSUME NEW d \in BatchIds, ResumeAddBatch(d) PROVE Kept(op)
      <4>1. items' = items \/ (items[d] = {} /\ items' = [items EXCEPT ![d] = toResume[d]])
        BY <3>3 DEF ResumeAddBatch, RegisterBatch, Tracked
      <4> QED
        BY <2>0, <2>2, <4>1
    <3>4. ASSUME NEW d \in BatchIds, GivesUp(d) PROVE Kept(op)
      <4>1. items' = [items EXCEPT ![d] = {}] /\ failed' = items[d]
        BY <3>4 DEF GivesUp, DropBatch, ExpiredItems
      <4> QED
        BY <2>0, <2>2, <4>1
    <3> QED
      BY <1>1, <2>2, <3>1, <3>2, <3>3, <3>4, ItemsMove
  <2> QED
    BY <2>1, <2>2
<1> QED
  BY <1>1, WellFormedInvariant, SuppressionInvariant, PTL DEF Spec, ItemsAccountedFor

----------------------------------------------------------------------------
(* The fate of an add is settled as far as the batcher goes: the machine   *)
(* exists, or the failure is being reported or was swallowed by an API     *)
(* error, or the claim is on its way out.                                  *)
Settling(op) ==
  \/ rec[op] = "succeeded" \/ op \in failed \/ op \in missed
  \/ claim[op] \notin {"wanted", "launched"}

Followed(op, b) == op \in items[b] \/ Settling(op)

(* A claim has a batch-id annotation once it is launched and not before.   *)
StampedWhenLaunched ==
  \A op \in AddOps : /\ stamp[op] # NoBatch => claim[op] # "wanted"
                     /\ claim[op] = "launched" => stamp[op] # NoBatch

(* An add acknowledged to a caller is followed until the caller returns.   *)
AckedFollowed ==
  \A c \in Callers : cRes[c] # NoBatch /\ cOp[c] \in AddOps => Followed(cOp[c], cRes[c])

(* A stamped add is followed or about to be resumed; before the list of a  *)
(* restarted batchresume its batch is complete or not tracked at all.      *)
StampedFollowed ==
  \A op \in AddOps : stamp[op] # NoBatch =>
    \/ Followed(op, stamp[op])
    \/ rPC = "start" /\ items[stamp[op]] = {}
    \/ rPC = "done" /\ op \in toResume[stamp[op]]

(* batchresume skips a tracked batch, so that batch must be complete.      *)
ResumedFollowed ==
  \A b \in BatchIds : \A op \in toResume[b] : items[b] = {} \/ Followed(op, b)

(* The poller keeps its hands off the batch being acknowledged.            *)
HandsOff ==
  sBatch # NoBatch =>
    /\ sPC \in {"register", "resolve"} /\ pBatch # sBatch
    /\ sPC = "resolve" => part \subseteq items[sBatch]

NotForgotten ==
  /\ StampedWhenLaunched /\ AckedFollowed /\ StampedFollowed
  /\ ResumedFollowed /\ HandsOff

(* What is settled stays settled until a crash.                            *)
LEMMA SettlingStays ==
  ASSUME WellFormed, [Next]_vars, ~Crash, NEW op \in AddOps, Settling(op)
  PROVE  Settling(op)'
<1> USE OpsFact
<1>0. /\ claim \in [Ops -> {"wanted", "launched", "deleting", "done"}] /\ op \in Ops
      /\ pPC # "handle" => failed = {}
  BY DEF WellFormed, TypeOK, StepShape
<1>1. CASE rec[op] = "succeeded"
  BY <1>0, <1>1, SucceededForGood DEF Settling
<1>2. CASE op \in missed
  <2>1. missed \subseteq missed'
    <3>1. ASSUME PollerNext PROVE missed \subseteq missed'
      BY <3>1 DEF PollerNext, PollTick, PollEmpty, PollResults, PollSkip, PollBatch,
        PollFails, PollTooOld, Handle, HandleFails, claimVars
    <3>2. ASSUME ResumeNext PROVE missed \subseteq missed'
      BY <3>2 DEF ResumeNext, ResumeList, ResumeListFails, ResumeAddBatch, claimVars
    <3>3. ASSUME \/ SenderNext \/ BrokerNext \/ \E o \in Ops : ClaimNext(o)
                 \/ \E c \in Callers : CallerNext(c) \/ \E o \in Ops : Call(c, o)
                 \/ Settled \/ UNCHANGED vars
          PROVE  missed' = missed
      BY <3>3, SenderFrame, BrokerFrame, ClaimFrame, CallerFrame DEF Settled, vars, claimVars
    <3> QED
      BY <3>1, <3>2, <3>3 DEF Next
  <2> QED
    BY <1>2, <2>1 DEF Settling
<1>3. CASE claim[op] \notin {"wanted", "launched"}
  <2>1. ASSUME NEW c \in Callers, Return(c) PROVE claim'[op] \notin {"wanted", "launched"}
    BY <1>0, <1>3, <2>1 DEF Return
  <2>2. ASSUME NEW o \in Ops, ClaimNext(o) PROVE claim'[op] \notin {"wanted", "launched"}
    BY <1>0, <1>3, <2>2 DEF ClaimNext, DeleteDone, DeleteClaim, DeletePending, NodeJoins
  <2>3. ASSUME NEW o \in Ops, Handle(o) PROVE claim'[op] \notin {"wanted", "launched"}
    BY <1>0, <1>3, <2>3 DEF Handle
  <2>4. ASSUME \/ \E c \in Callers : \/ EnqueueCheck(c) \/ EnqueueInsert(c) \/ Abandon(c)
                                     \/ \E o \in Ops : Call(c, o)
               \/ SenderNext \/ ResumeNext \/ BrokerNext \/ Settled \/ UNCHANGED vars
               \/ PollTick \/ PollEmpty \/ PollResults \/ \E o \in Ops : HandleFails(o)
               \/ \E b \in BatchIds : PollSkip(b) \/ PollBatch(b) \/ PollFails(b) \/ PollTooOld(b)
        PROVE  claim' = claim
    BY <2>4, SenderFrame, ResumeFrame, BrokerFrame
    DEF EnqueueCheck, EnqueueInsert, Abandon, Call, PollTick, PollEmpty, PollResults,
        HandleFails, PollSkip, PollBatch, PollFails, PollTooOld, Settled, vars, claimVars
  <2> QED
    BY <1>3, <2>1, <2>2, <2>3, <2>4 DEF Settling, Next, CallerNext, PollerNext
<1>4. CASE op \in failed /\ claim[op] \in {"wanted", "launched"}
  <2>1. ASSUME NEW o \in Ops, Handle(o)
        PROVE  op \in failed' \/ claim'[op] \notin {"wanted", "launched"}
    BY <1>0, <1>4, <2>1 DEF Handle
  <2>2. ASSUME NEW o \in Ops, HandleFails(o) PROVE op \in failed' \/ op \in missed'
    BY <1>4, <2>2 DEF HandleFails
  <2>3. ASSUME \/ PollTick \/ PollEmpty \/ PollResults
               \/ \E b \in BatchIds : PollSkip(b) \/ PollBatch(b) \/ PollFails(b) \/ PollTooOld(b)
        PROVE  FALSE
    BY <1>0, <1>4, <2>3
    DEF PollTick, PollEmpty, PollResults, PollSkip, PollBatch, PollFails, PollTooOld
  <2>4. ASSUME \/ \E c \in Callers : CallerNext(c) \/ \E o \in Ops : Call(c, o)
               \/ \E o \in Ops : ClaimNext(o)
               \/ SenderNext \/ ResumeNext \/ BrokerNext \/ Settled \/ UNCHANGED vars
        PROVE  failed' = failed
    BY <2>4, CallerFrame, ClaimFrame, SenderFrame, ResumeFrame, BrokerFrame
    DEF Settled, vars, pollVars
  <2> QED
    BY <1>4, <2>1, <2>2, <2>3, <2>4 DEF Settling, Next, PollerNext
<1> QED
  BY <1>1, <1>2, <1>3, <1>4 DEF Settling

(* What is followed stays followed until a crash: it leaves its batch as   *)
(* succeeded or as a failure to report.                                    *)
LEMMA FollowedStays ==
  ASSUME WellFormed, Suppression, AnswersTrue, [Next]_vars, ~Crash,
         NEW op \in AddOps, NEW b \in BatchIds, Followed(op, b)
  PROVE  Followed(op, b)'
<1> USE OpsFact
<1>0. items \in [BatchIds -> SUBSET Ops] /\ op \in Ops
  BY DEF WellFormed, TypeOK
<1>1. CASE Settling(op)
  BY <1>1, SettlingStays DEF Followed
<1>2. CASE op \in items'[b]
  BY <1>2 DEF Followed
<1>3. CASE op \in items[b] /\ op \notin items'[b]
  <2>1. CASE Register
    BY <1>0, <1>3, <2>1
    DEF Register, RegisterBatch, Suppression, SenderFresh, WellFormed, StepShape
  <2>2. CASE PollResults
    <3>1. /\ items' = [items EXCEPT ![pBatch] = @ \ (Completed \cup Reported("failed"))]
          /\ failed' = Reported("failed") /\ rec' = rec
      BY <2>2 DEF PollResults, brokerVars
    <3>2. op \in Completed \/ op \in failed'
      BY <1>0, <1>3, <3>1
    <3>3. op \in Completed => rec[op] = "succeeded"
      BY <1>0 DEF Completed, Reported, AnswersTrue
    <3> QED
      BY <3>1, <3>2, <3>3 DEF Followed, Settling
  <2>3. ASSUME NEW d \in BatchIds, ResumeAddBatch(d) PROVE FALSE
    BY <1>0, <1>3, <2>3 DEF ResumeAddBatch, RegisterBatch, Tracked
  <2>4. ASSUME NEW d \in BatchIds, GivesUp(d) PROVE op \in failed'
    BY <1>0, <1>3, <2>4 DEF GivesUp, DropBatch, ExpiredItems
  <2> QED
    BY <1>3, <2>1, <2>2, <2>3, <2>4, ItemsMove DEF Followed, Settling
<1> QED
  BY <1>1, <1>2, <1>3 DEF Followed

(* batchresume lists once per process.                                     *)
LEMMA ResumeMoves ==
  ASSUME WellFormed, [Next]_vars, ~Crash
  PROVE  \/ rPC' = rPC
         \/ rPC = "start" /\ rPC' = "done" /\ (ResumeList \/ ResumeListFails)
<1>1. ASSUME ResumeNext
      PROVE  \/ rPC' = rPC
             \/ rPC = "start" /\ rPC' = "done" /\ (ResumeList \/ ResumeListFails)
  BY <1>1 DEF ResumeNext, ResumeList, ResumeListFails, ResumeAddBatch
<1>2. ASSUME \/ \E c \in Callers : CallerNext(c) \/ \E op \in Ops : Call(c, op)
             \/ \E op \in Ops : ClaimNext(op)
             \/ SenderNext \/ PollerNext \/ BrokerNext \/ Settled \/ UNCHANGED vars
      PROVE  rPC' = rPC
  BY <1>2, CallerFrame, ClaimFrame, SenderFrame, PollerFrame, BrokerFrame
  DEF Settled, vars, resumeVars
<1> QED
  BY <1>1, <1>2 DEF Next

(* A claim is stamped in the step that launches it and keeps the stamp     *)
(* until it is done.                                                       *)
LEMMA StampStep ==
  ASSUME WellFormed, StampedWhenLaunched, [Next]_vars
  PROVE  StampedWhenLaunched'
<1> USE OpsFact, BatcherAssumption
<1>0. /\ claim \in [Ops -> {"wanted", "launched", "deleting", "done"}]
      /\ stamp \in [Ops -> BatchIds \cup {NoBatch}]
  BY DEF WellFormed, TypeOK
<1>1. ASSUME NEW c \in Callers, Return(c) PROVE StampedWhenLaunched'
  BY <1>0, <1>1 DEF Return, StampedWhenLaunched
<1>2. ASSUME NEW o \in Ops, ClaimNext(o) PROVE StampedWhenLaunched'
  BY <1>0, <1>2
  DEF ClaimNext, DeleteDone, DeleteClaim, DeletePending, NodeJoins, StampedWhenLaunched
<1>3. ASSUME NEW o \in Ops, Handle(o) PROVE StampedWhenLaunched'
  BY <1>0, <1>3 DEF Handle, StampedWhenLaunched
<1>4. ASSUME \/ \E c \in Callers : \/ EnqueueCheck(c) \/ EnqueueInsert(c) \/ Abandon(c)
                                   \/ \E o \in Ops : Call(c, o)
             \/ SenderNext \/ ResumeNext \/ BrokerNext \/ Crash \/ Settled \/ UNCHANGED vars
             \/ PollTick \/ PollEmpty \/ PollResults \/ \E o \in Ops : HandleFails(o)
             \/ \E b \in BatchIds : PollSkip(b) \/ PollBatch(b) \/ PollFails(b) \/ PollTooOld(b)
      PROVE  StampedWhenLaunched'
  <2>1. UNCHANGED <<claim, stamp>>
    BY <1>4, SenderFrame, ResumeFrame, BrokerFrame
    DEF EnqueueCheck, EnqueueInsert, Abandon, Call, PollTick, PollEmpty, PollResults,
        HandleFails, PollSkip, PollBatch, PollFails, PollTooOld, Crash, Settled, vars, claimVars
  <2> QED
    BY <2>1 DEF StampedWhenLaunched
<1> QED
  BY <1>1, <1>2, <1>3, <1>4 DEF Next, CallerNext, PollerNext

(* The poller's steps on the batch in the sender's hands.                  *)
LEMMA HandsOffStep ==
  ASSUME WellFormed, Suppression, HandsOff, [Next]_vars
  PROVE  HandsOff'
<1> USE BatcherAssumption
<1>0. /\ items \in [BatchIds -> SUBSET Ops] /\ part \subseteq Ops
      /\ sBatch \in BatchIds \cup {NoBatch} /\ pBatch \in BatchIds \cup {NoBatch}
  BY DEF WellFormed, TypeOK
<1>1. ASSUME NEW b \in BatchIds, Send(b) PROVE HandsOff'
  <2>1. sBatch' = b /\ sPC' = "register" /\ pBatch' = pBatch /\ b # pBatch
    BY <1>1 DEF Send, Fresh, pollVars
  <2> QED
    BY <2>1 DEF HandsOff
<1>2. ASSUME ~(\E b \in BatchIds : Send(b)), sBatch' # NoBatch
      PROVE  /\ sPC' \in {"register", "resolve"} /\ pBatch' # sBatch'
             /\ sPC' = "resolve" => part' \subseteq items'[sBatch']
  <2>1. sBatch' = sBatch /\ part' \subseteq part /\ sBatch \in BatchIds
    BY <1>0, <1>2, PartFrame
  <2>2. /\ sPC \in {"register", "resolve"} /\ pBatch # sBatch
        /\ sPC = "resolve" => part \subseteq items[sBatch]
        /\ sPC = "register" => items[sBatch] = {}
    BY <1>2, <2>1 DEF HandsOff, Suppression, SenderFresh
  <2>3. sPC' = sPC \/ Register
    <3>1. ASSUME NEW op \in Ops, Resolve(op) PROVE sPC' = sPC
      BY <1>2, <3>1 DEF Resolve
    <3>2. ASSUME SendFails \/ Crash PROVE FALSE
      BY <1>2, <3>2 DEF SendFails, Crash
    <3>3. ASSUME \/ Collect \/ PollerNext \/ ResumeNext \/ BrokerNext \/ Settled
                 \/ UNCHANGED vars \/ \E op \in Ops : ClaimNext(op)
                 \/ \E c \in Callers : CallerNext(c) \/ \E op \in Ops : Call(c, op)
          PROVE  sPC' = sPC
      BY <3>3, CallerFrame, ClaimFrame, PollerFrame, ResumeFrame, BrokerFrame
      DEF Collect, Settled, vars, senderVars
    <3> QED
      BY <1>2, <3>1, <3>2, <3>3 DEF Next, SenderNext
  <2>4. pBatch' # sBatch
    <3>1. ASSUME NEW b \in BatchIds, PollBatch(b) PROVE b # sBatch /\ pBatch' = b
      BY <2>2, <3>1 DEF PollBatch, Tracked, InitialDelayOver
    <3>2. ASSUME PollEmpty \/ PollResults \/ Crash PROVE pBatch' = NoBatch
      BY <3>2 DEF PollEmpty, PollResults, Crash
    <3>3. ASSUME \/ PollTick \/ \E op \in Ops : Handle(op) \/ HandleFails(op)
                 \/ \E b \in BatchIds : PollSkip(b) \/ PollFails(b) \/ PollTooOld(b)
          PROVE  pBatch' = pBatch
      BY <3>3 DEF PollTick, Handle, HandleFails, PollSkip, PollFails, PollTooOld
    <3>4. ASSUME \/ SenderNext \/ ResumeNext \/ BrokerNext \/ Settled
                 \/ UNCHANGED vars \/ \E op \in Ops : ClaimNext(op)
                 \/ \E c \in Callers : CallerNext(c) \/ \E op \in Ops : Call(c, op)
          PROVE  pBatch' = pBatch
      BY <3>4, CallerFrame, ClaimFrame, SenderFrame, ResumeFrame, BrokerFrame
      DEF Settled, vars, pollVars
    <3> QED
      BY <2>1, <2>2, <3>1, <3>2, <3>3, <3>4 DEF Next, PollerNext
  <2>5. ASSUME sPC' = "resolve" PROVE part' \subseteq items'[sBatch]
    <3>1. CASE Register
      BY <1>0, <2>1, <3>1 DEF Register, RegisterBatch
    <3>2. CASE sPC = "resolve" /\ ~Register
      <4>1. part \subseteq items[sBatch]
        BY <2>2, <3>2
      <4>2. CASE PollResults
        BY <1>0, <2>1, <2>2, <4>1, <4>2 DEF PollResults
      <4>3. ASSUME NEW d \in BatchIds, GivesUp(d) PROVE part' \subseteq items'[sBatch]
        <5>1. d # sBatch /\ items' = [items EXCEPT ![d] = {}]
          BY <2>2, <3>2, <4>3 DEF GivesUp, DropBatch, InitialDelayOver
        <5> QED
          BY <1>0, <2>1, <4>1, <5>1
      <4>4. ASSUME NEW d \in BatchIds, ResumeAddBatch(d) PROVE part' \subseteq items'[sBatch]
        <5>1. items' = items \/ (items[d] = {} /\ items' = [items EXCEPT ![d] = toResume[d]])
          BY <4>4 DEF ResumeAddBatch, RegisterBatch, Tracked
        <5> QED
          BY <1>0, <2>1, <4>1, <5>1
      <4>5. CASE items' = items
        BY <2>1, <4>1, <4>5
      <4>6. ~Crash
        BY <1>2 DEF Crash
      <4> QED
        BY <3>2, <4>2, <4>3, <4>4, <4>5, <4>6, ItemsMove
    <3> QED
      BY <2>3, <2>5, <3>1, <3>2
  <2> QED
    BY <2>1, <2>2, <2>3, <2>4, <2>5 DEF Register
<1> QED
  BY <1>1, <1>2 DEF HandsOff

(* An acknowledged add stays followed in the hands of its caller.          *)
LEMMA AckedStep ==
  ASSUME WellFormed, Suppression, AnswersTrue, NotForgotten, [Next]_vars, ~Crash
  PROVE  AckedFollowed'
<1> USE BatcherAssumption
<1> SUFFICES ASSUME NEW c \in Callers, cRes'[c] # NoBatch, cOp'[c] \in AddOps
             PROVE  Followed(cOp[c], cRes[c])'
  BY DEF AckedFollowed
<1>0. cOp'[c] = cOp[c] /\ cOp[c] \in AddOps
  BY AckGrow
<1>1. cRes'[c] \in BatchIds /\ Followed(cOp[c], cRes'[c])
  <2>1. CASE cRes'[c] = cRes[c]
    BY <1>0, <2>1 DEF NotForgotten, AckedFollowed, WellFormed, TypeOK
  <2>2. CASE cOp[c] \in inFlight /\ cRes'[c] = opBatch[cOp[c]]
    BY <2>2 DEF Suppression, InFlightTracked, Followed
  <2>3. CASE Resolve(cOp[c]) /\ cRes'[c] = sBatch
    BY <2>3 DEF Resolve, NotForgotten, HandsOff, Followed, WellFormed, TypeOK
  <2> QED
    BY <2>1, <2>2, <2>3, AckGrow
<1>2. Followed(cOp[c], cRes'[c]) => \A b \in BatchIds : b = cRes'[c] => Followed(cOp[c], b)'
  BY <1>0, FollowedStays
<1> QED
  BY <1>0, <1>1, <1>2 DEF Followed, Settling

(* A batch nobody tracks stays so until it is registered or resumed.       *)
LEMMA EmptyStays ==
  ASSUME WellFormed, Suppression, [Next]_vars, NEW b \in BatchIds, items[b] = {},
         toResume[b] = {} \/ ~ResumeAddBatch(b), ~Register \/ b # sBatch
  PROVE  items'[b] = {}
<1>1. ~ResumeAddBatch(b)
  BY DEF ResumeAddBatch
<1> QED
  BY <1>1, ItemsGrow

(* A stamped add: followed, or waiting for batchresume.                    *)
LEMMA StampedStep ==
  ASSUME WellFormed, Suppression, AnswersTrue, NotForgotten, [Next]_vars, ~Crash
  PROVE  StampedFollowed'
<1> USE BatcherAssumption, OpsFact
<1> SUFFICES ASSUME NEW op \in AddOps, stamp'[op] # NoBatch
             PROVE  \/ Followed(op, stamp[op])'
                    \/ rPC' = "start" /\ items'[stamp'[op]] = {}
                    \/ rPC' = "done" /\ op \in toResume'[stamp'[op]]
  BY DEF StampedFollowed
<1>0. /\ stamp \in [Ops -> BatchIds \cup {NoBatch}] /\ op \in Ops
      /\ toResume \in [BatchIds -> SUBSET AddOps] /\ items \in [BatchIds -> SUBSET Ops]
      /\ cRes \in [Callers -> BatchIds \cup {NoBatch}] /\ rPC \in {"start", "done"}
      /\ claim \in [Ops -> {"wanted", "launched", "deleting", "done"}]
      /\ rPC = "start" => toResume = Nothing
  BY DEF WellFormed, TypeOK, StepShape
<1>1. ASSUME NEW b \in BatchIds, stamp'[op] = b, Followed(op, b)
      PROVE  Followed(op, stamp[op])'
  <2>1. Followed(op, b)'
    BY <1>1, FollowedStays
  <2> QED
    BY <1>1, <2>1 DEF Followed, Settling
<1>2. CASE stamp'[op] # stamp[op]
  <2>1. PICK c \in Callers : cOp[c] = op /\ cRes[c] # NoBatch /\ stamp'[op] = cRes[c]
    BY <1>2, StampGrow
  <2>2. cRes[c] \in BatchIds /\ Followed(op, cRes[c])
    BY <1>0, <2>1 DEF NotForgotten, AckedFollowed
  <2> QED
    BY <1>1, <2>1, <2>2
<1>3. ASSUME NEW b \in BatchIds, stamp'[op] = b, stamp[op] = b, rPC = "start", items[b] = {}
      PROVE  \/ Followed(op, stamp[op])'
             \/ rPC' = "start" /\ items'[b] = {}
             \/ rPC' = "done" /\ op \in toResume'[b]
  <2>1. CASE rPC' = rPC
    <3>1. toResume[b] = {}
      BY <1>0, <1>3 DEF Nothing
    <3>2. ~Register \/ b # sBatch
      BY <1>0, <1>3 DEF Register, Suppression, SenderFresh
    <3> QED
      BY <1>3, <2>1, <3>1, <3>2, EmptyStays
  <2>2. claim[op] # "wanted"
    BY <1>3 DEF NotForgotten, StampedWhenLaunched
  <2>3. CASE rPC' = "done" /\ ResumeList
    <3>1. claim' = claim /\ toResume' = [d \in BatchIds |-> {o \in AddOps : Resumable(o, d)}]
      BY <2>3 DEF ResumeList, claimVars
    <3>2. claim[op] = "launched" => op \in toResume'[b]
      BY <1>3, <3>1 DEF Resumable
    <3> QED
      BY <1>0, <2>2, <2>3, <3>1, <3>2 DEF Followed, Settling
  <2>4. CASE rPC' = "done" /\ ResumeListFails
    BY <1>0, <2>2, <2>4 DEF ResumeListFails, Followed, Settling
  <2> QED
    BY <2>1, <2>3, <2>4, ResumeMoves
<1>4. ASSUME NEW b \in BatchIds, stamp'[op] = b, rPC = "done", op \in toResume[b]
      PROVE  \/ Followed(op, stamp[op])'
             \/ rPC' = "done" /\ op \in toResume'[b]
  <2>1. rPC' = "done"
    BY <1>4, ResumeMoves
  <2>2. ASSUME ResumeAddBatch(b) PROVE op \in items'[b] \/ Followed(op, b)
    <3>1. CASE b \in Tracked
      BY <1>4, <3>1 DEF Tracked, NotForgotten, ResumedFollowed
    <3>2. CASE b \notin Tracked
      BY <1>0, <1>4, <2>2, <3>2 DEF ResumeAddBatch, RegisterBatch
    <3> QED
      BY <3>1, <3>2
  <2>3. ASSUME op \notin toResume'[b] PROVE ResumeAddBatch(b)
    <3>1. ASSUME NEW d \in BatchIds, ResumeAddBatch(d) PROVE d = b
      BY <1>0, <1>4, <2>3, <3>1 DEF ResumeAddBatch
    <3>2. ASSUME \/ SenderNext \/ PollerNext \/ BrokerNext
                 \/ \E c \in Callers : CallerNext(c) \/ \E o \in Ops : Call(c, o)
                 \/ \E o \in Ops : ClaimNext(o)
                 \/ Settled \/ UNCHANGED vars \/ ResumeListFails
          PROVE  FALSE
      <4>1. toResume' = toResume
        BY <3>2, CallerFrame, ClaimFrame, BrokerFrame, PollerFrame, SenderFrame
        DEF ResumeListFails, Settled, vars, resumeVars
      <4> QED
        BY <1>4, <2>3, <4>1
    <3>3. ~ResumeList
      BY <1>4 DEF ResumeList
    <3> QED
      BY <3>1, <3>2, <3>3 DEF Next, ResumeNext
  <2>4. op \in items'[b] => Followed(op, stamp[op])'
    BY <1>4 DEF Followed
  <2> QED
    BY <1>1, <1>4, <2>1, <2>2, <2>3, <2>4
<1>5. CASE stamp'[op] = stamp[op]
  BY <1>0, <1>1, <1>3, <1>4, <1>5 DEF NotForgotten, StampedFollowed
<1> QED
  BY <1>2, <1>5

(* A batch to be resumed is complete if it is tracked.                     *)
LEMMA ResumedStep ==
  ASSUME WellFormed, Suppression, AnswersTrue, NotForgotten, [Next]_vars, ~Crash
  PROVE  ResumedFollowed'
<1> USE BatcherAssumption, OpsFact
<1> SUFFICES ASSUME NEW b \in BatchIds, NEW op \in toResume'[b]
             PROVE  items'[b] = {} \/ Followed(op, b)'
  BY DEF ResumedFollowed
<1>0. toResume \in [BatchIds -> SUBSET AddOps] /\ items \in [BatchIds -> SUBSET Ops]
  BY DEF WellFormed, TypeOK
<1>1. CASE op \in toResume[b]
  <2>1. op \in AddOps
    BY <1>0, <1>1
  <2>2. CASE items[b] = {}
    <3>1. ~ResumeAddBatch(b)
      BY <1>0 DEF ResumeAddBatch
    <3>2. ~Register \/ b # sBatch
      BY <1>1 DEF Register, Suppression, SenderFresh
    <3> QED
      BY <2>2, <3>1, <3>2, EmptyStays
  <2>3. CASE Followed(op, b)
    BY <2>1, <2>3, FollowedStays
  <2> QED
    BY <1>1, <2>2, <2>3 DEF NotForgotten, ResumedFollowed
<1>2. CASE ResumeList /\ op \in AddOps /\ Resumable(op, b)
  <2>1. items' = items /\ rPC = "start" /\ stamp[op] = b
    BY <1>2 DEF ResumeList, Resumable, trackVars
  <2>2. items[b] = {} \/ Followed(op, b)
    BY <1>2, <2>1 DEF NotForgotten, StampedFollowed
  <2> QED
    BY <1>2, <2>1, <2>2, FollowedStays
<1> QED
  BY <1>1, <1>2, ToResumeGrow

(* A crash: what was stamped is resumed from the claims, which survive it. *)
LEMMA CrashStep ==
  ASSUME WellFormed, NotForgotten, Crash
  PROVE  AckedFollowed' /\ StampedFollowed' /\ ResumedFollowed'
<1>1. /\ cRes' = [c \in Callers |-> NoBatch] /\ items' = Nothing /\ toResume' = Nothing
      /\ rPC' = "start" /\ stamp' = stamp
  BY DEF Crash, claimVars
<1>2. AckedFollowed' /\ ResumedFollowed'
  BY <1>1 DEF AckedFollowed, ResumedFollowed, Nothing
<1>3. StampedFollowed'
  BY <1>1, OpsFact DEF StampedFollowed, Nothing, WellFormed, TypeOK
<1> QED
  BY <1>2, <1>3

(* A launched add, for which Create() is never called again, is not        *)
(* forgotten, for every instance: through given-up batches, failed polls,  *)
(* expired indices and restarts it has succeeded, or is tracked, or is     *)
(* being reported or resumed, unless the code logged an API error.         *)
THEOREM LaunchedAddsFollowed == Spec => []LaunchedAddNotForgotten
<1> USE BatcherAssumption, OpsFact
<1>1. Init => NotForgotten
  BY DEF Init, ProcessInit, NotForgotten, StampedWhenLaunched, AckedFollowed,
    StampedFollowed, ResumedFollowed, HandsOff, Nothing
<1>2. WellFormed /\ Suppression /\ AnswersTrue /\ NotForgotten /\ [Next]_vars => NotForgotten'
  <2> SUFFICES ASSUME WellFormed, Suppression, AnswersTrue, NotForgotten, [Next]_vars
               PROVE  NotForgotten'
    OBVIOUS
  <2>1. StampedWhenLaunched' /\ HandsOff'
    BY StampStep, HandsOffStep DEF NotForgotten
  <2>2. AckedFollowed' /\ StampedFollowed' /\ ResumedFollowed'
    BY AckedStep, StampedStep, ResumedStep, CrashStep
  <2> QED
    BY <2>1, <2>2 DEF NotForgotten
<1>3. WellFormed /\ NotForgotten => LaunchedAddNotForgotten
  <2> SUFFICES ASSUME WellFormed, NotForgotten, NEW op \in AddOps, claim[op] = "launched"
               PROVE  \/ rec[op] = "succeeded" \/ op \in failed \/ op \in missed
                      \/ rPC = "start"
                      \/ \E b \in BatchIds : op \in items[b] \/ op \in toResume[b]
    BY DEF LaunchedAddNotForgotten
  <2>1. stamp[op] # NoBatch /\ stamp[op] \in BatchIds
    BY DEF NotForgotten, StampedWhenLaunched, WellFormed, TypeOK
  <2> QED
    BY <2>1 DEF NotForgotten, StampedFollowed, Followed, Settling
<1> QED
  BY <1>1, <1>2, <1>3, WellFormedInvariant, SuppressionInvariant, AnswersInvariant, PTL
  DEF Spec

=============================================================================
