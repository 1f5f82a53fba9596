------------------------------- MODULE Batcher -------------------------------
(***************************************************************************)
(* The NodeBatcher of pkg/rafay/batcher.go: Create()/Delete() callers put  *)
(* node operations on a bounded queue, one sender goroutine ships them to  *)
(* the edge-broker in batches, one poller goroutine follows every batch    *)
(* until its operations are terminal, and after a restart the batchresume  *)
(* controller hands the poller the add batches recorded on NodeClaims.     *)
(*                                                                         *)
(* A step is one critical section of NodeBatcher.mu or pendingMu, or one   *)
(* RPC.  The broker, Karpenter and the API server are external: they are   *)
(* modelled by what the code relies on.                                    *)
(***************************************************************************)
EXTENDS Naturals, Sequences, FiniteSets

CONSTANTS
  AddOps,         \* operation IDs of node adds (NodeClaim UIDs)
  RemoveOps,      \* operation IDs of node removes (UID + "-remove")
  Callers,        \* concurrent Create()/Delete() calls
  BatchIds,       \* broker batch IDs (UUIDs; an ID nobody refers to is fresh)
  NoBatch, NoOp,  \* "no batch ID" (also: an error result) and "no operation"
  QueueCap,       \* batchItemQueueBuffer
  MaxBatchSize,   \* maxBatchSize
  MaxEmptyPolls,  \* maxConsecutiveEmptyPolls
  FaultKinds,     \* the faults of the environment that may happen
  MaxFaults,      \* bound on the number of faults in a behaviour
  MaxOpen         \* bound on the number of NodeClaims in a behaviour

Ops == AddOps \cup RemoveOps

ASSUME BatcherAssumption ==
  /\ AddOps \cap RemoveOps = {}
  /\ NoBatch \notin BatchIds
  /\ NoOp \notin Ops
  /\ QueueCap \in Nat /\ MaxBatchSize \in Nat \ {0}
  /\ MaxEmptyPolls \in Nat \ {0} /\ MaxFaults \in Nat /\ MaxOpen \in Nat

VARIABLES
  cPC, cOp, cRes,     \* a caller: its step, operation and received result
  claim, stamp,       \* the NodeClaim behind an operation; its batch-id annotation
  missed,             \* adds whose failure signal an API error has swallowed
  cancels,            \* cancel calls to the broker not yet served
  queue, pending,     \* NodeBatcher.queue; pending: op -> waiting callers
  sPC, batch, part, sBatch, \* sender: step, collected items, partition in hand, its ID
  items, emptyPolls,  \* inProgress: batch -> items ({} = not tracked), emptyPolls
  inFlight, opBatch, succeeded,
  pPC, todo, pBatch, reply, failed, \* poller: step, sweep, batch, answer, failures to report
  rPC, toResume,      \* batchresume: step, batches still to hand over
  rec, index,         \* broker: record per operation, operations per batch ID
  faults              \* number of faults so far

callerVars == <<cPC, cOp, cRes>>
claimVars  == <<claim, stamp, missed, cancels>>
queueVars  == <<queue, pending>>
senderVars == <<sPC, batch, part, sBatch>>
trackVars  == <<items, emptyPolls, inFlight, opBatch, succeeded>>
pollVars   == <<pPC, todo, pBatch, reply, failed>>
resumeVars == <<rPC, toResume>>
brokerVars == <<rec, index>>
vars == <<callerVars, claimVars, queueVars, senderVars, trackVars, pollVars,
          resumeVars, brokerVars, faults>>

Live == {"accepted", "running", "succeeded"}
States == Live \cup {"absent", "failed"}

(* The type of every variable: in particular the queue stays within its    *)
(* buffer and the empty-poll count below the limit that drops a batch.     *)
TypeOK ==
  /\ cPC \in [Callers -> {"idle", "called", "checked", "waiting", "resolved"}]
  /\ cOp \in [Callers -> Ops \cup {NoOp}]
  /\ cRes \in [Callers -> BatchIds \cup {NoBatch}]
  /\ claim \in [Ops -> {"wanted", "launched", "deleting", "done"}]
  /\ stamp \in [Ops -> BatchIds \cup {NoBatch}]
  /\ missed \subseteq AddOps /\ cancels \subseteq AddOps
  /\ queue \in Seq(Ops) /\ Len(queue) <= QueueCap
  /\ pending \in [Ops -> SUBSET Callers]
  /\ sPC \in {"collect", "send", "register", "resolve"}
  /\ batch \subseteq Ops /\ part \subseteq Ops
  /\ sBatch \in BatchIds \cup {NoBatch}
  /\ items \in [BatchIds -> SUBSET Ops]
  /\ emptyPolls \in [BatchIds -> 0..(MaxEmptyPolls - 1)]
  /\ inFlight \subseteq Ops /\ succeeded \subseteq Ops
  /\ opBatch \in [Ops -> BatchIds \cup {NoBatch}]
  /\ pPC \in {"idle", "reply", "handle"}
  /\ todo \subseteq BatchIds /\ pBatch \in BatchIds \cup {NoBatch}
  /\ reply \in [Ops -> States \cup {"none"}]
  /\ failed \subseteq Ops
  /\ rPC \in {"start", "done"} /\ toResume \in [BatchIds -> SUBSET AddOps]
  /\ rec \in [Ops -> States] /\ index \in [BatchIds -> SUBSET Ops]
  /\ faults \in 0..MaxFaults

NoReply == [op \in Ops |-> "none"]
Nothing == [b \in BatchIds |-> {}]

(* A fresh process: NewNodeBatcher, batchresume about to run.              *)
ProcessInit ==
  /\ cPC = [c \in Callers |-> "idle"]
  /\ cOp = [c \in Callers |-> NoOp]
  /\ cRes = [c \in Callers |-> NoBatch]
  /\ queue = <<>> /\ pending = [op \in Ops |-> {}]
  /\ sPC = "collect" /\ batch = {} /\ part = {} /\ sBatch = NoBatch
  /\ items = Nothing /\ emptyPolls = [b \in BatchIds |-> 0]
  /\ inFlight = {} /\ succeeded = {}
  /\ opBatch = [op \in Ops |-> NoBatch]
  /\ pPC = "idle" /\ todo = {} /\ pBatch = NoBatch /\ reply = NoReply /\ failed = {}
  /\ rPC = "start" /\ toResume = Nothing

(* An add has a NodeClaim to launch, a remove one that is terminating, if  *)
(* there is a claim at all; the broker has heard of none of them.          *)
Init ==
  /\ ProcessInit
  /\ claim \in [Ops -> {"wanted", "done"}]
  /\ Cardinality({op \in Ops : claim[op] = "wanted"}) <= MaxOpen
  /\ stamp = [op \in Ops |-> NoBatch]
  /\ missed = {} /\ cancels = {}
  /\ rec = [op \in Ops |-> "absent"] /\ index = Nothing
  /\ faults = 0

(* The environment does something bad, within the bound.                   *)
Fault(kind) ==
  /\ kind \in FaultKinds /\ faults < MaxFaults
  /\ faults' = faults + 1

Tracked == {b \in BatchIds : items[b] # {}}

----------------------------------------------------------------------------
(* Callers: CloudProvider.Create and Delete.                               *)

(* Delete of a removal the poller has seen SUCCEEDED: NodeClaimNotFound,   *)
(* on which Karpenter releases the finalizer.                              *)
DeleteDone(op) ==
  /\ op \in RemoveOps /\ claim[op] = "wanted" /\ op \in succeeded
  /\ claim' = [claim EXCEPT ![op] = "done"]
  /\ UNCHANGED <<callerVars, stamp, missed, cancels, queueVars, senderVars,
                 trackVars, pollVars, resumeVars, brokerVars, faults>>

(* Create, or Delete past its Succeeded check, about to call enqueueItem.  *)
Call(c, op) ==
  /\ cPC[c] = "idle" /\ claim[op] = "wanted"
  /\ op \in RemoveOps => op \notin succeeded
  /\ cPC' = [cPC EXCEPT ![c] = "called"]
  /\ cOp' = [cOp EXCEPT ![c] = op]
  /\ UNCHANGED <<cRes, claimVars, queueVars, senderVars, trackVars, pollVars,
                 resumeVars, brokerVars, faults>>

(* enqueueItem under mu: an operation in flight at the broker is answered  *)
(* at once with the batch it travels in.                                   *)
EnqueueCheck(c) ==
  /\ cPC[c] = "called"
  /\ \/ /\ cOp[c] \in inFlight
        /\ cPC' = [cPC EXCEPT ![c] = "resolved"]
        /\ cRes' = [cRes EXCEPT ![c] = opBatch[cOp[c]]]
     \/ /\ cOp[c] \notin inFlight
        /\ cPC' = [cPC EXCEPT ![c] = "checked"]
        /\ UNCHANGED cRes
  /\ UNCHANGED <<cOp, claimVars, queueVars, senderVars, trackVars, pollVars,
                 resumeVars, brokerVars, faults>>

(* Seeded fault: a full queue leaves the pending entry behind.             *)
KeepEntry(c) == pending' = [pending EXCEPT ![cOp[c]] = {c}]

(* A full queue: the entry just made for the caller is rolled back.        *)
RollBack(c) == pending' = [pending EXCEPT ![cOp[c]] = {}]

(* enqueueItem under pendingMu: join the waiters of a queued operation,    *)
(* or queue it; a full queue answers with an error and leaves no entry.    *)
EnqueueInsert(c) ==
  LET op == cOp[c] IN
  /\ cPC[c] = "checked"
  /\ \/ /\ pending[op] # {}
        /\ pending' = [pending EXCEPT ![op] = @ \cup {c}]
        /\ cPC' = [cPC EXCEPT ![c] = "waiting"]
        /\ UNCHANGED queue
     \/ /\ pending[op] = {} /\ Len(queue) < QueueCap
        /\ pending' = [pending EXCEPT ![op] = {c}]
        /\ queue' = Append(queue, op)
        /\ cPC' = [cPC EXCEPT ![c] = "waiting"]
     \/ /\ pending[op] = {} /\ Len(queue) >= QueueCap
        /\ RollBack(c)
        /\ cPC' = [cPC EXCEPT ![c] = "resolved"]
        /\ UNCHANGED queue
  /\ UNCHANGED <<cOp, cRes, claimVars, senderVars, trackVars, pollVars,
                 resumeVars, brokerVars, faults>>

(* The call's context ends while it waits; its channel stays in pending.   *)
Abandon(c) ==
  /\ cPC[c] = "waiting" /\ Fault("abandon")
  /\ cPC' = [cPC EXCEPT ![c] = "idle"]
  /\ cOp' = [cOp EXCEPT ![c] = NoOp]
  /\ UNCHANGED <<cRes, claimVars, queueVars, senderVars, trackVars, pollVars,
                 resumeVars, brokerVars>>

(* The call consumes its result.  A successful Create makes the claim      *)
(* Launched, with the pending ProviderID and the batch-id annotation; a    *)
(* failed one, and every Delete, is simply called again.                   *)
Return(c) ==
  LET op == cOp[c]
      launches == op \in AddOps /\ cRes[c] # NoBatch /\ claim[op] # "done" IN
  /\ cPC[c] = "resolved"
  /\ \/ /\ launches
        /\ claim' = [claim EXCEPT ![op] = IF @ = "wanted" THEN "launched" ELSE @]
        /\ stamp' = [stamp EXCEPT ![op] = cRes[c]]
     \/ ~launches /\ UNCHANGED <<claim, stamp>>
  /\ cPC' = [cPC EXCEPT ![c] = "idle"]
  /\ cOp' = [cOp EXCEPT ![c] = NoOp]
  /\ cRes' = [cRes EXCEPT ![c] = NoBatch]
  /\ UNCHANGED <<missed, cancels, queueVars, senderVars, trackVars, pollVars,
                 resumeVars, brokerVars, faults>>

(* Somebody deletes a launched claim before its node has joined (a user,   *)
(* or Karpenter's registration timeout).                                   *)
DeleteClaim(op) ==
  /\ op \in AddOps /\ claim[op] = "launched"
  /\ claim' = [claim EXCEPT ![op] = "deleting"]
  /\ UNCHANGED <<callerVars, stamp, missed, cancels, queueVars, senderVars,
                 trackVars, pollVars, resumeVars, brokerVars, faults>>

(* Delete of a claim whose node has not joined: NodeClaimNotFound, after a *)
(* fire-and-forget Cancel of the add unless the claim never got an ID.     *)
DeletePending(op) ==
  /\ op \in AddOps /\ claim[op] = "deleting"
  /\ \A c \in Callers : cOp[c] # op
  /\ claim' = [claim EXCEPT ![op] = "done"]
  /\ stamp' = [stamp EXCEPT ![op] = NoBatch]
  /\ cancels' = IF stamp[op] = NoBatch THEN cancels ELSE cancels \cup {op}
  /\ UNCHANGED <<callerVars, missed, queueVars, senderVars, trackVars, pollVars,
                 resumeVars, brokerVars, faults>>

(* The machine of a launched claim joins; NodeProviderIDController binds it. *)
NodeJoins(op) ==
  /\ op \in AddOps /\ claim[op] = "launched" /\ rec[op] = "succeeded"
  /\ claim' = [claim EXCEPT ![op] = "done"]
  /\ stamp' = [stamp EXCEPT ![op] = NoBatch]
  /\ UNCHANGED <<callerVars, missed, cancels, queueVars, senderVars, trackVars,
                 pollVars, resumeVars, brokerVars, faults>>

----------------------------------------------------------------------------
(* The batchSender goroutine.                                              *)

Waiters(op) == {c \in pending[op] : cPC[c] = "waiting" /\ cOp[c] = op}

(* Seeded fault: the results are delivered and the entry stays.            *)
ResolveAndKeep(op, r) ==
  /\ cPC' = [c \in Callers |-> IF c \in Waiters(op) THEN "resolved" ELSE cPC[c]]
  /\ cRes' = [c \in Callers |-> IF c \in Waiters(op) THEN r ELSE cRes[c]]
  /\ UNCHANGED pending

(* resolvePending: drop the pending entry, hand every waiter the result r  *)
(* (NoBatch is an error).  An abandoned channel is written, and not read.  *)
ResolvePending(op, r) ==
  /\ pending' = [pending EXCEPT ![op] = {}]
  /\ cPC' = [c \in Callers |-> IF c \in Waiters(op) THEN "resolved" ELSE cPC[c]]
  /\ cRes' = [c \in Callers |-> IF c \in Waiters(op) THEN r ELSE cRes[c]]

(* Seeded fault: an operation sent again keeps naming its first batch.     *)
RegisterKeepingFirst(b, ops) ==
  /\ items' = [items EXCEPT ![b] = ops]
  /\ emptyPolls' = [emptyPolls EXCEPT ![b] = 0]
  /\ inFlight' = inFlight \cup ops
  /\ opBatch' = [op \in Ops |-> IF op \in ops /\ opBatch[op] = NoBatch THEN b ELSE opBatch[op]]

(* The batch under one ID becomes tracked and its operations in flight:    *)
(* the critical section of registerAndAck and of ResumeAddBatch.           *)
RegisterBatch(b, ops) ==
  /\ items' = [items EXCEPT ![b] = ops]
  /\ emptyPolls' = [emptyPolls EXCEPT ![b] = 0]
  /\ inFlight' = inFlight \cup ops
  /\ opBatch' = [op \in Ops |-> IF op \in ops THEN b ELSE opBatch[op]]

(* A UUID nobody holds.                                                    *)
Fresh(b) ==
  /\ b # sBatch /\ b # pBatch /\ b \notin todo
  /\ items[b] = {} /\ toResume[b] = {}
  /\ \A op \in Ops : stamp[op] # b
  /\ \A c \in Callers : cRes[c] # b

(* collectBatch receives one item; maxBatchSize ends the collection.       *)
Collect ==
  /\ sPC = "collect" /\ queue # <<>>
  /\ Cardinality(batch) < MaxBatchSize
  /\ batch' = batch \cup {Head(queue)}
  /\ queue' = Tail(queue)
  /\ UNCHANGED <<callerVars, claimVars, pending, sPC, part, sBatch, trackVars,
                 pollVars, resumeVars, brokerVars, faults>>

(* sendBatch: the adds go first, the removes as a batch of their own.      *)
Partition == IF batch \cap AddOps # {} THEN batch \cap AddOps ELSE batch

(* Seeded fault: the whole collection is acknowledged with its first part. *)
WholeBatch == batch

(* The items sendAddBatch/sendRemoveBatch go on to acknowledge or to fail. *)
InHand == Partition

(* The broker takes a batch: an unknown or FAILED operation is queued, one *)
(* already ACCEPTED, RUNNING or SUCCEEDED keeps its record.                *)
Accepted(ops) ==
  [op \in Ops |-> IF op \in ops /\ rec[op] \notin Live THEN "accepted" ELSE rec[op]]

(* A broker whose queue is full fails the operations it would have queued. *)
Rejected(ops) ==
  [op \in Ops |-> IF op \in ops /\ rec[op] \notin Live THEN "failed" ELSE rec[op]]

(* The window is over or the batch full: SendBatch / SendBatchRemove gets  *)
(* the ACK for the partition.                                              *)
Send(b) ==
  /\ sPC \in {"collect", "send"} /\ batch # {} /\ Fresh(b)
  /\ part' = InHand /\ sBatch' = b /\ sPC' = "register"
  /\ rec' = Accepted(Partition)
  /\ index' = [index EXCEPT ![b] = Partition]
  /\ UNCHANGED <<callerVars, claimVars, queueVars, batch, trackVars, pollVars,
                 resumeVars, faults>>

(* The send errs: it never arrived, it was rejected, or only the ACK is    *)
(* lost (the index of a batch ID nobody learns cannot be observed).        *)
SendFails ==
  /\ sPC \in {"collect", "send"} /\ batch # {} /\ Fault("send")
  /\ part' = InHand /\ sBatch' = NoBatch /\ sPC' = "resolve"
  /\ rec' \in {rec, Rejected(Partition), Accepted(Partition)}
  /\ UNCHANGED <<callerVars, claimVars, queueVars, batch, trackVars, pollVars,
                 resumeVars, index>>

(* registerAndAck under mu.                                                *)
Register ==
  /\ sPC = "register" /\ sPC' = "resolve"
  /\ RegisterBatch(sBatch, part)
  /\ UNCHANGED <<callerVars, claimVars, queueVars, batch, part, sBatch, succeeded,
                 pollVars, resumeVars, brokerVars, faults>>

(* One iteration of the resolvePending loop of registerAndAck (sBatch is   *)
(* the batch ID) or of failBatchSend (sBatch is NoBatch).                  *)
Resolve(op) ==
  /\ sPC = "resolve" /\ op \in part
  /\ ResolvePending(op, sBatch)
  /\ part' = part \ {op} /\ batch' = batch \ {op}
  /\ \/ part' # {} /\ UNCHANGED <<sPC, sBatch>>
     \/ /\ part' = {} /\ sBatch' = NoBatch
        /\ sPC' = IF batch' = {} THEN "collect" ELSE "send"
  /\ UNCHANGED <<cOp, claimVars, queue, trackVars, pollVars, resumeVars,
                 brokerVars, faults>>

----------------------------------------------------------------------------
(* The statusPoller goroutine.                                             *)

(* Seeded fault: a dropped batch leaves its operations in flight.          *)
KeepInFlight(ops) == UNCHANGED <<inFlight, opBatch>>

(* clearInFlightLocked.                                                    *)
ClearInFlight(ops) ==
  /\ inFlight' = inFlight \ ops
  /\ opBatch' = [op \in Ops |-> IF op \in ops THEN NoBatch ELSE opBatch[op]]

(* pollAll: the sweep covers the batches tracked now.                      *)
PollTick ==
  /\ pPC = "idle" /\ todo = {} /\ Tracked # {}
  /\ todo' = Tracked
  /\ UNCHANGED <<callerVars, claimVars, queueVars, senderVars, trackVars, pPC,
                 pBatch, reply, failed, resumeVars, brokerVars, faults>>

(* initialDelay (120s) outlasts the sender's resolve loop on the batch.    *)
InitialDelayOver(b) == ~(sPC = "resolve" /\ sBatch = b)

(* pollBatch returns at once: no longer tracked, or too early.             *)
PollSkip(b) ==
  /\ pPC = "idle" /\ b \in todo
  /\ b \notin Tracked \/ ~InitialDelayOver(b)
  /\ todo' = todo \ {b}
  /\ UNCHANGED <<callerVars, claimVars, queueVars, senderVars, trackVars, pPC,
                 pBatch, reply, failed, resumeVars, brokerVars, faults>>

(* PollBatchStatus: the broker answers with the state of each operation in *)
(* the batch's index, or with nothing for a batch it does not know.        *)
PollBatch(b) ==
  /\ pPC = "idle" /\ b \in todo /\ b \in Tracked /\ InitialDelayOver(b)
  /\ pPC' = "reply" /\ pBatch' = b
  /\ reply' = [op \in Ops |-> IF op \in index[b] THEN rec[op] ELSE "none"]
  /\ todo' = todo \ {b}
  /\ UNCHANGED <<callerVars, claimVars, queueVars, senderVars, trackVars, failed,
                 resumeVars, brokerVars, faults>>

(* PollBatchStatus errs: the batch is left for the next sweep.             *)
PollFails(b) ==
  /\ pPC = "idle" /\ b \in todo /\ b \in Tracked /\ InitialDelayOver(b)
  /\ Fault("poll")
  /\ todo' = todo \ {b}
  /\ UNCHANGED <<callerVars, claimVars, queueVars, senderVars, trackVars, pPC,
                 pBatch, reply, failed, resumeVars, brokerVars>>

(* Seeded fault: failItems is not called for a dropped batch.              *)
ExpiredSilently(b) == {}

(* failItems: the items of a dropped batch are reported as failures.       *)
ExpiredItems(b) == items[b]

(* A batch the poller gives up: every item is treated as FAILED.           *)
DropBatch(b) ==
  /\ items' = [items EXCEPT ![b] = {}]
  /\ emptyPolls' = [emptyPolls EXCEPT ![b] = 0]
  /\ ClearInFlight(items[b])
  /\ failed' = ExpiredItems(b) /\ pPC' = "handle"
  /\ UNCHANGED succeeded

(* The batch is older than maxBatchAge.                                    *)
PollTooOld(b) ==
  /\ pPC = "idle" /\ b \in todo /\ b \in Tracked /\ InitialDelayOver(b)
  /\ Fault("age")
  /\ DropBatch(b)
  /\ todo' = todo \ {b}
  /\ UNCHANGED <<callerVars, claimVars, queueVars, senderVars, pBatch, reply,
                 resumeVars, brokerVars>>

(* Seeded fault: one empty answer too many is tolerated.                   *)
UnknownLate(n) == n > MaxEmptyPolls

(* So many empty answers in a row mark the batch unknown at the broker.    *)
Unknown(n) == n >= MaxEmptyPolls

(* An empty answer: maxConsecutiveEmptyPolls of them drop the batch.       *)
PollEmpty ==
  /\ pPC = "reply" /\ reply = NoReply
  /\ \/ /\ Unknown(emptyPolls[pBatch] + 1)
        /\ DropBatch(pBatch)
     \/ /\ ~Unknown(emptyPolls[pBatch] + 1)
        /\ emptyPolls' = [emptyPolls EXCEPT ![pBatch] = @ + 1]
        /\ pPC' = "idle"
        /\ UNCHANGED <<items, inFlight, opBatch, succeeded, failed>>
  /\ pBatch' = NoBatch
  /\ UNCHANGED <<callerVars, claimVars, queueVars, senderVars, todo, reply,
                 resumeVars, brokerVars, faults>>

(* The items of the polled batch the answer reports in a state.            *)
Reported(state) == {op \in items[pBatch] : reply[op] = state}

(* Seeded fault: every terminal state counts as completed.                 *)
Terminal == Reported("succeeded") \cup Reported("failed")

(* The operations recorded in succeeded.                                   *)
Completed == Reported("succeeded")

(* Entries of succeeded past succeededRetention are pruned on the way.     *)
Prune(old) == IF old = {} THEN UNCHANGED faults ELSE Fault("prune")

(* A real answer: SUCCEEDED is recorded, FAILED is handed to the handler,  *)
(* both leave the in-flight set, the others stay with the batch.           *)
PollResults ==
  LET ok == Completed  bad == Reported("failed") IN
  /\ pPC = "reply" /\ reply # NoReply
  /\ \E old \in SUBSET (succeeded \ ok) :
       Prune(old) /\ succeeded' = (succeeded \cup ok) \ old
  /\ items' = [items EXCEPT ![pBatch] = @ \ (ok \cup bad)]
  /\ emptyPolls' = [emptyPolls EXCEPT ![pBatch] = 0]
  /\ inFlight' = inFlight \ (ok \cup bad)
  /\ failed' = bad
  /\ pPC' = IF bad = {} THEN "idle" ELSE "handle"
  /\ pBatch' = NoBatch /\ reply' = NoReply
  /\ UNCHANGED <<callerVars, claimVars, queueVars, senderVars, opBatch, todo,
                 resumeVars, brokerVars>>

(* The failure handler (NewBatchFailureHandler): the NodeClaim of a failed *)
(* add that is still waiting for its node is deleted; removes only log.    *)
Handle(op) ==
  /\ pPC = "handle" /\ op \in failed
  /\ claim' = [claim EXCEPT ![op] =
       IF op \in AddOps /\ @ \in {"wanted", "launched"} THEN "deleting" ELSE @]
  /\ failed' = failed \ {op}
  /\ pPC' = IF failed' = {} THEN "idle" ELSE "handle"
  /\ UNCHANGED <<callerVars, stamp, missed, cancels, queueVars, senderVars,
                 trackVars, todo, pBatch, reply, resumeVars, brokerVars, faults>>

(* The handler's List or Delete errs: logged, and never tried again.       *)
HandleFails(op) ==
  /\ pPC = "handle" /\ op \in failed \cap AddOps /\ Fault("api")
  /\ missed' = missed \cup {op}
  /\ failed' = failed \ {op}
  /\ pPC' = IF failed' = {} THEN "idle" ELSE "handle"
  /\ UNCHANGED <<callerVars, claim, stamp, cancels, queueVars, senderVars,
                 trackVars, todo, pBatch, reply, resumeVars, brokerVars>>

----------------------------------------------------------------------------
(* batchresume.Start, once per process.                                    *)

(* Seeded fault: claims that have no ProviderID yet are taken for pending. *)
ResumableUnlaunched(op, b) == claim[op] = "wanted" /\ stamp[op] = b

(* A claim that still waits for its node, is not deleting and was sent in  *)
(* batch b.                                                                *)
Resumable(op, b) == claim[op] = "launched" /\ stamp[op] = b

(* The uncached List: the pending claims, grouped by batch.                *)
ResumeList ==
  /\ rPC = "start" /\ rPC' = "done"
  /\ toResume' = [b \in BatchIds |-> {op \in AddOps : Resumable(op, b)}]
  /\ UNCHANGED <<callerVars, claimVars, queueVars, senderVars, trackVars, pollVars,
                 brokerVars, faults>>

(* The List errs: nothing is resumed, the adds fall back on Karpenter's    *)
(* registration timeout.                                                   *)
ResumeListFails ==
  /\ rPC = "start" /\ rPC' = "done" /\ Fault("api")
  /\ missed' = missed \cup {op \in AddOps : claim[op] = "launched"}
  /\ UNCHANGED <<callerVars, claim, stamp, cancels, queueVars, senderVars, trackVars,
                 pollVars, toResume, brokerVars>>

(* ResumeAddBatch: a batch already tracked is left alone.                  *)
ResumeAddBatch(b) ==
  /\ toResume[b] # {}
  /\ \/ b \in Tracked /\ UNCHANGED <<items, emptyPolls, inFlight, opBatch>>
     \/ b \notin Tracked /\ RegisterBatch(b, toResume[b])
  /\ toResume' = [toResume EXCEPT ![b] = {}]
  /\ UNCHANGED <<callerVars, claimVars, queueVars, senderVars, succeeded, pollVars,
                 rPC, brokerVars, faults>>

----------------------------------------------------------------------------
(* The edge-broker.                                                        *)

BrokerStep(op, from, to) ==
  /\ rec[op] = from /\ rec' = [rec EXCEPT ![op] = to]
  /\ UNCHANGED <<callerVars, claimVars, queueVars, senderVars, trackVars, pollVars,
                 resumeVars, index>>

BrokerRun(op)     == BrokerStep(op, "accepted", "running") /\ UNCHANGED faults
BrokerSucceed(op) == BrokerStep(op, "running", "succeeded") /\ UNCHANGED faults
BrokerFail(op)    == BrokerStep(op, "running", "failed") /\ Fault("fail")
\* The record of an operation nobody started expires.
BrokerExpire(op)  == BrokerStep(op, "accepted", "failed") /\ Fault("ttl")

(* The 90-minute batch index expires: the batch ID is unknown from now on. *)
IndexExpire(b) ==
  /\ index[b] # {} /\ Fault("index")
  /\ index' = [index EXCEPT ![b] = {}]
  /\ UNCHANGED <<callerVars, claimVars, queueVars, senderVars, trackVars, pollVars,
                 resumeVars, rec>>

(* NodeBatcher.Cancel's goroutine: only an ACCEPTED operation is cancelled. *)
CancelOperation(op) ==
  /\ op \in cancels /\ cancels' = cancels \ {op}
  /\ rec' = [rec EXCEPT ![op] = IF @ = "accepted" THEN "failed" ELSE @]
  /\ UNCHANGED <<callerVars, claim, stamp, missed, queueVars, senderVars, trackVars,
                 pollVars, resumeVars, index, faults>>

CancelFails(op) ==
  /\ op \in cancels /\ cancels' = cancels \ {op} /\ Fault("cancel")
  /\ UNCHANGED <<callerVars, claim, stamp, missed, queueVars, senderVars, trackVars,
                 pollVars, resumeVars, brokerVars>>

----------------------------------------------------------------------------
(* The process stops and starts again: its memory is gone.                 *)
Crash ==
  /\ Fault("crash")
  /\ cPC' = [c \in Callers |-> "idle"]
  /\ cOp' = [c \in Callers |-> NoOp]
  /\ cRes' = [c \in Callers |-> NoBatch]
  /\ queue' = <<>> /\ pending' = [op \in Ops |-> {}]
  /\ sPC' = "collect" /\ batch' = {} /\ part' = {} /\ sBatch' = NoBatch
  /\ items' = Nothing /\ emptyPolls' = [b \in BatchIds |-> 0]
  /\ inFlight' = {} /\ succeeded' = {}
  /\ opBatch' = [op \in Ops |-> NoBatch]
  /\ pPC' = "idle" /\ todo' = {} /\ pBatch' = NoBatch /\ reply' = NoReply /\ failed' = {}
  /\ rPC' = "start" /\ toResume' = Nothing
  /\ UNCHANGED <<claimVars, brokerVars>>

(* Every claim is settled and the batcher is at rest.                      *)
Settled ==
  /\ \A op \in Ops : claim[op] = "done"
  /\ Tracked = {} /\ todo = {} /\ cancels = {}
  /\ \A c \in Callers : cPC[c] = "idle"
  /\ UNCHANGED vars

CallerNext(c) == EnqueueCheck(c) \/ EnqueueInsert(c) \/ Abandon(c) \/ Return(c)

ClaimNext(op) == DeleteDone(op) \/ DeleteClaim(op) \/ DeletePending(op) \/ NodeJoins(op)

SenderNext ==
  \/ Collect \/ SendFails \/ Register
  \/ \E b \in BatchIds : Send(b)
  \/ \E op \in Ops : Resolve(op)

PollerNext ==
  \/ PollTick \/ PollEmpty \/ PollResults
  \/ \E b \in BatchIds : PollSkip(b) \/ PollBatch(b) \/ PollFails(b) \/ PollTooOld(b)
  \/ \E op \in Ops : Handle(op) \/ HandleFails(op)

ResumeNext ==
  ResumeList \/ ResumeListFails \/ \E b \in BatchIds : ResumeAddBatch(b)

BrokerNext ==
  \/ \E op \in Ops : \/ BrokerRun(op) \/ BrokerSucceed(op) \/ BrokerFail(op)
                      \/ BrokerExpire(op) \/ CancelOperation(op) \/ CancelFails(op)
  \/ \E b \in BatchIds : IndexExpire(b)

Next ==
  \/ \E c \in Callers : CallerNext(c) \/ \E op \in Ops : Call(c, op)
  \/ \E op \in Ops : ClaimNext(op)
  \/ SenderNext \/ PollerNext \/ ResumeNext \/ BrokerNext \/ Crash \/ Settled

Spec == Init /\ [][Next]_vars

----------------------------------------------------------------------------
(* Safety.                                                                 *)

Queued == {queue[i] : i \in DOMAIN queue}

(* No Create()/Delete() can hang: a caller that waits is on the waiter     *)
(* list of its operation, and an item that will resolve this list is in    *)
(* the queue or in the sender's hands (enqueueItem's rollback,             *)
(* resolvePending's remove-before-deliver order).                          *)
NoStrandedWaiter ==
  \A c \in Callers : cPC[c] = "waiting" =>
    c \in pending[cOp[c]] /\ cOp[c] \in Queued \cup batch

(* Deduplication: an operation with waiters has exactly one item between   *)
(* enqueueItem and resolvePending, and an item always has waiters.         *)
OneItemPerPending ==
  /\ \A i, j \in DOMAIN queue : queue[i] = queue[j] => i = j
  /\ Queued \cap batch = {}
  /\ \A op \in Ops : pending[op] # {} <=> op \in Queued \cup batch

(* Suppression never outlives tracking: an in-flight operation belongs to  *)
(* the tracked batch opBatch names, so the poller will release it.  An     *)
(* operation in flight that no batch holds would have every later Delete() *)
(* answered "queued" and never sent again.                                 *)
InFlightTracked ==
  \A op \in inFlight : opBatch[op] \in BatchIds /\ op \in items[opBatch[op]]

(* Succeeded, on which Delete() reports the instance gone, is only ever    *)
(* true of an operation the broker really finished, however late the       *)
(* answer is applied.                                                      *)
SucceededSound == \A op \in succeeded : rec[op] = "succeeded"

SentIn(op, b) == rec[op] # "absent" /\ (index[b] = {} \/ op \in index[b])

(* The contract of an ACK: a caller told "queued", and a claim stamped     *)
(* with a batch ID, name a batch the broker took that operation in, also   *)
(* when the answer came from the in-flight short cut.                      *)
AckIsTrue ==
  /\ \A c \in Callers : cRes[c] # NoBatch => SentIn(cOp[c], cRes[c])
  /\ \A op \in Ops : stamp[op] # NoBatch => SentIn(op, stamp[op])

(* A launched add, which nobody will ever call Create() for again, is not  *)
(* forgotten across restarts: it succeeded, or a batch tracks it, or its   *)
(* failure is being reported, or batchresume is about to resume it.  Only  *)
(* an API error that the code logs and drops breaks the chain.             *)
LaunchedAddNotForgotten ==
  \A op \in AddOps : claim[op] = "launched" =>
    \/ rec[op] = "succeeded" \/ op \in failed \/ op \in missed \/ rPC = "start"
    \/ \E b \in BatchIds : op \in items[b] \/ op \in toResume[b]

TrackedOps == UNION {items[b] : b \in BatchIds}

(* The poller never loses an item silently: an operation leaves the last   *)
(* batch that tracks it only as recorded SUCCEEDED or as a failure to be   *)
(* reported (a crash apart).                                               *)
ItemsAccountedFor ==
  [][Crash \/ TrackedOps \ TrackedOps' \subseteq succeeded' \cup failed']_vars

(* The refinement mapping: a claim under deletion is as good as closed,    *)
(* the broker's queue and its work look the same from outside.             *)
Phase ==
  [op \in Ops |-> CASE claim[op] = "wanted"   -> "open"
                    [] claim[op] = "launched" -> "launched"
                    [] OTHER                  -> "closed"]

Outcome ==
  [op \in Ops |-> CASE rec[op] = "absent"                 -> "unknown"
                    [] rec[op] \in {"accepted", "running"} -> "taken"
                    [] OTHER                              -> rec[op]]

Promise == INSTANCE NodeOperations
  WITH Adds <- AddOps, Removes <- RemoveOps, phase <- Phase, outcome <- Outcome

(* The batcher implements what Karpenter is promised: Create() returns a   *)
(* launched claim only for an add the broker took, Delete() reports an     *)
(* instance gone only when its removal is finished, through retries, lost  *)
(* ACKs, given-up batches and restarts.                                    *)
KeepsPromise == Promise!Spec

----------------------------------------------------------------------------
(* Liveness.  The goroutines run, Karpenter keeps calling, the broker      *)
(* works its queue off; faults are bounded by MaxFaults.                   *)
Fairness ==
  /\ \A c \in Callers : WF_vars(EnqueueCheck(c) \/ EnqueueInsert(c) \/ Return(c))
  /\ \A op \in Ops :
       /\ SF_vars(\E c \in Callers : Call(c, op))
       /\ WF_vars(DeleteDone(op)) /\ WF_vars(DeletePending(op))
       /\ WF_vars(op \in missed /\ DeleteClaim(op))
       /\ WF_vars(NodeJoins(op))
       /\ WF_vars(BrokerRun(op) \/ BrokerSucceed(op))
  /\ WF_vars(Collect \/ (\E b \in BatchIds : Send(b)) \/ Register
                     \/ (\E op \in Ops : Resolve(op)))
  /\ WF_vars(PollTick \/ PollEmpty \/ PollResults \/ (\E op \in Ops : Handle(op))
             \/ (\E b \in BatchIds : PollSkip(b) \/ PollBatch(b)))
  /\ WF_vars(ResumeList \/ \E b \in BatchIds : ResumeAddBatch(b))

FairSpec == Spec /\ Fairness

(* Every Create()/Delete() that waits gets an answer.                      *)
WaiterAnswered == \A c \in Callers : cPC[c] = "waiting" ~> cPC[c] # "waiting"

(* A terminating NodeClaim is eventually released: Delete() reports its    *)
(* instance gone, through lost ACKs, failed removals, forgotten batches,   *)
(* pruned results and restarts.                                            *)
RemoveConverges == \A op \in RemoveOps : claim[op] = "wanted" ~> claim[op] = "done"

(* A launched add whose operation is FAILED at the broker does not keep    *)
(* its NodeClaim pending for ever.                                         *)
FailedAddReaped ==
  \A op \in AddOps :
    claim[op] = "launched" /\ rec[op] = "failed" ~> claim[op] # "launched"

=============================================================================
