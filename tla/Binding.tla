------------------------------- MODULE Binding -------------------------------
(***************************************************************************)
(* Which NodeClaim owns which machine.  Four parts of the provider read    *)
(* and write this relation, each in a read-decide-write cycle of its own:  *)
(*                                                                         *)
(*   - NodeProviderIDController (pkg/controllers/nodeproviderid) binds a   *)
(*     pending claim to a node that has joined;                            *)
(*   - the adoption controller (pkg/controllers/nodeadoption) makes a      *)
(*     claim for a node that has none;                                     *)
(*   - CloudProvider.Delete and findNodeProviderID (pkg/cloudprovider)     *)
(*     choose the node to remove for a deleted claim;                      *)
(*   - the batch failure handler deletes the claim of a failed add.        *)
(*                                                                         *)
(* Nodes come from the informer cache (cache), claims from the API server. *)
(* A node is named by its provider ID: the platform and BuildProviderID    *)
(* render the same one.  One NodePool; its SKUs are in Matches.            *)
(***************************************************************************)
EXTENDS Naturals, FiniteSets

CONSTANTS
  Claims, Nodes,  \* NodeClaims and worker nodes of the pool that may ever exist
  Old,            \* the nodes that are there before Karpenter runs
  NoID, Pending,  \* provider IDs: "" and rafay://pending/<uid>
  NoClaim,
  Matches,        \* <<c, n>>: n carries the nodepoolname and a sku_name c accepts
  Adoptable,      \* nodes that pass the control-plane, SKU and validateAdoptable tests
  Stamps,         \* does the platform set spec.providerID when a node joins?
  Collects,       \* does Karpenter's garbage collection run?
  MaxClock,       \* bound on the seconds that CreationTimestamps tell apart
  MaxFaults       \* bound on API errors and failed operations

ASSUME BindingAssumption ==
  /\ Old \subseteq Nodes /\ Adoptable \subseteq Nodes
  /\ Matches \subseteq Claims \X Nodes
  /\ NoID \notin Nodes /\ Pending \notin Nodes /\ NoID # Pending
  /\ NoClaim \notin Claims /\ Stamps \subseteq BOOLEAN /\ Collects \in BOOLEAN
  /\ MaxClock \in Nat /\ MaxFaults \in Nat

VARIABLES
  life, pid, adopt, born,      \* NodeClaims: status.providerID, adoption annotation, age
  order,                       \* the broker's add operation of a claim
  node, joined, builtFor,      \* Node objects, their age, the claim a machine is for
  cache,                       \* the informer cache's copy of the nodes
  pClaim, pUsed,               \* NodeProviderIDController: claim in hand, usedIDs
  aPC, aView, aNode,           \* adoption: step, nodes still to take, node in hand
  dUsed,                       \* Delete: usedIDs of a findNodeProviderID under way
  remove, removed,             \* the remove operation of a claim: its node, SUCCEEDED
  hClaim,                      \* failure handler: the claim it is about to delete
  registered,                  \* claims whose node Karpenter has registered
  clock, faults

claimVars == <<life, pid, adopt, born>>
nodeVars  == <<node, joined, builtFor>>
pVars     == <<pClaim, pUsed>>
aVars     == <<aPC, aView, aNode>>
dVars     == <<dUsed, remove, removed>>
kVars     == <<hClaim, registered>>
vars == <<claimVars, order, nodeVars, cache, pVars, aVars, dVars, kVars, clock, faults>>

\* A node object: its state, whether spec.providerID is set, the registered label.
NodeObject == [st: {"none", "joined", "ready", "gone"}, id: BOOLEAN, reg: BOOLEAN]
Absent == [st |-> "none", id |-> FALSE, reg |-> FALSE]
NotSearching == {NoID}   \* the value of dUsed outside findNodeProviderID

(* The type of every variable: a remove always names a real node, never    *)
(* the pending ID.                                                         *)
TypeOK ==
  /\ life \in [Claims -> {"none", "live", "deleting", "gone"}]
  /\ pid \in [Claims -> Nodes \cup {NoID, Pending}]
  /\ adopt \in [Claims -> Nodes \cup {NoID}]
  /\ born \in [Claims -> 0..MaxClock]
  /\ order \in [Claims -> {"none", "sent", "built", "failed", "over"}]
  /\ node \in [Nodes -> NodeObject] /\ joined \in [Nodes -> 0..MaxClock]
  /\ builtFor \in [Nodes -> Claims \cup {NoClaim}]
  /\ cache \in [Nodes -> NodeObject]
  /\ pClaim \in Claims \cup {NoClaim} /\ pUsed \subseteq Nodes
  /\ aPC \in {"idle", "nodes", "loop", "create"} /\ aView \in [Nodes -> NodeObject]
  /\ aNode \in Nodes \cup {NoID}
  /\ dUsed \in [Claims -> (SUBSET Nodes) \cup {NotSearching}]
  /\ remove \in [Claims -> Nodes \cup {NoID}] /\ removed \subseteq Claims
  /\ hClaim \in Claims \cup {NoClaim} /\ registered \subseteq Claims
  /\ clock \in 0..MaxClock /\ faults \in 0..MaxFaults

Init ==
  /\ life = [c \in Claims |-> "none"] /\ pid = [c \in Claims |-> NoID]
  /\ adopt = [c \in Claims |-> NoID] /\ born = [c \in Claims |-> 0]
  /\ order = [c \in Claims |-> "none"]
  /\ node \in [Nodes -> NodeObject]
  /\ \A n \in Nodes : IF n \in Old THEN node[n].st = "ready" /\ ~node[n].reg
                                   ELSE node[n] = Absent
  /\ joined = [n \in Nodes |-> 0] /\ builtFor = [n \in Nodes |-> NoClaim]
  /\ cache = [n \in Nodes |-> Absent]
  /\ pClaim = NoClaim /\ pUsed = {}
  /\ aPC = "idle" /\ aView = [n \in Nodes |-> Absent] /\ aNode = NoID
  /\ dUsed = [c \in Claims |-> NotSearching]
  /\ remove = [c \in Claims |-> NoID] /\ removed = {}
  /\ hClaim = NoClaim /\ registered = {} /\ clock = 0 /\ faults = 0

Fault == faults < MaxFaults /\ faults' = faults + 1

Exists(c) == life[c] \in {"live", "deleting"}

(* Seeded fault: claims under deletion no longer count.                    *)
UsedByLive(except) == {pid[c] : c \in {d \in Claims \ except : life[d] = "live"}} \cap Nodes

\* The provider IDs that the status of some claim but the excepted ones carries.
UsedIDs(except) == {pid[c] : c \in {d \in Claims \ except : Exists(d)}} \cap Nodes

\* The test nodeproviderid and findNodeProviderID share: right labels, created after.
Suits(c, n) == <<c, n>> \in Matches /\ joined[n] > born[c]

----------------------------------------------------------------------------
(* Karpenter and the platform.                                             *)

Tick ==
  /\ clock < MaxClock /\ clock' = clock + 1
  /\ UNCHANGED <<claimVars, order, nodeVars, cache, pVars, aVars, dVars, kVars, faults>>

(* Karpenter scales out.                                                   *)
NewClaim(c) ==
  /\ life[c] = "none"
  /\ life' = [life EXCEPT ![c] = "live"] /\ born' = [born EXCEPT ![c] = clock]
  /\ UNCHANGED <<pid, adopt, order, nodeVars, cache, pVars, aVars, dVars, kVars, clock,
                 faults>>

(* Create gets the broker's ACK for the add ...                            *)
CreateSends(c) ==
  /\ life[c] = "live" /\ pid[c] = NoID /\ adopt[c] = NoID /\ order[c] = "none"
  /\ order' = [order EXCEPT ![c] = "sent"]
  /\ UNCHANGED <<claimVars, nodeVars, cache, pVars, aVars, dVars, kVars, clock, faults>>

(* ... and its result, the pending ID, reaches the claim's status, which   *)
(* may have been marked for deletion meanwhile.                            *)
CreateLaunches(c) ==
  /\ Exists(c) /\ pid[c] = NoID /\ order[c] # "none"
  /\ pid' = [pid EXCEPT ![c] = Pending]
  /\ UNCHANGED <<life, adopt, born, order, nodeVars, cache, pVars, aVars, dVars, kVars,
                 clock, faults>>

(* Create of an adopted claim makes no broker call; the same delay.        *)
CreateAdopted(c) ==
  /\ Exists(c) /\ pid[c] = NoID /\ adopt[c] # NoID
  /\ pid' = [pid EXCEPT ![c] = adopt[c]]
  /\ UNCHANGED <<life, adopt, born, order, nodeVars, cache, pVars, aVars, dVars, kVars,
                 clock, faults>>

(* The machine of an add joins; builtFor remembers a claim that waits for  *)
(* it.  Building takes longer than the resolution of a timestamp.          *)
NodeJoins(c, n) ==
  /\ order[c] = "sent" /\ node[n].st = "none" /\ <<c, n>> \in Matches /\ clock > born[c]
  /\ order' = [order EXCEPT ![c] = "built"]
  /\ \E stamped \in Stamps :
       node' = [node EXCEPT ![n] = [st |-> "joined", id |-> stamped, reg |-> FALSE]]
  /\ joined' = [joined EXCEPT ![n] = clock]
  /\ builtFor' = [builtFor EXCEPT ![n] = IF pid[c] = Pending THEN c ELSE NoClaim]
  /\ UNCHANGED <<claimVars, cache, pVars, aVars, dVars, kVars, clock, faults>>

NodeReady(n) ==
  /\ node[n].st = "joined" /\ node' = [node EXCEPT ![n].st = "ready"]
  /\ UNCHANGED <<claimVars, order, joined, builtFor, cache, pVars, aVars, dVars, kVars,
                 clock, faults>>

CacheSync(n) ==
  /\ cache[n] # node[n] /\ cache' = [cache EXCEPT ![n] = node[n]]
  /\ UNCHANGED <<claimVars, order, nodeVars, pVars, aVars, dVars, kVars, clock, faults>>

(* A user or Karpenter (consolidation, registration timeout) deletes it.   *)
DeleteClaim(c) ==
  /\ life[c] = "live" /\ life' = [life EXCEPT ![c] = "deleting"]
  /\ UNCHANGED <<pid, adopt, born, order, nodeVars, cache, pVars, aVars, dVars, kVars,
                 clock, faults>>

(* Seeded fault: List() compares the first part of an ID with the cluster. *)
ListedInCluster == {}

(* CloudProvider.List: every cached node with a rafay:// ID.               *)
Listed == {n \in Nodes : cache[n].st \in {"joined", "ready"} /\ cache[n].id}

(* Karpenter finds the node of a claim by its ID, in the cache.            *)
Registers(c) ==
  /\ Collects /\ life[c] = "live" /\ c \notin registered
  /\ pid[c] \in Nodes /\ cache[pid[c]].id
  /\ registered' = registered \cup {c}
  /\ UNCHANGED <<claimVars, order, nodeVars, cache, pVars, aVars, dVars, hClaim, clock,
                 faults>>

(* Karpenter's garbage collection deletes a registered claim whose ID is   *)
(* not in List().                                                          *)
GarbageCollects(c) ==
  /\ c \in registered /\ life[c] = "live" /\ pid[c] \notin Listed
  /\ life' = [life EXCEPT ![c] = "deleting"]
  /\ UNCHANGED <<pid, adopt, born, order, nodeVars, cache, pVars, aVars, dVars, kVars,
                 clock, faults>>

----------------------------------------------------------------------------
(* NodeProviderIDController.Reconcile, one at a time.  It starts from a    *)
(* cached claim; a stale copy only makes the final patch conflict.         *)

ProviderList(c) ==
  /\ pClaim = NoClaim /\ life[c] = "live" /\ pid[c] = Pending
  /\ pClaim' = c /\ pUsed' = UsedIDs({})
  /\ UNCHANGED <<claimVars, order, nodeVars, cache, aVars, dVars, kVars, clock, faults>>

(* Seeded fault: only nodes that adoption has marked registered are seen.  *)
RegisteredChoice ==
  {n \in Nodes : cache[n].reg /\ cache[n].id /\ n \notin pUsed /\ Suits(pClaim, n)}

ProviderChoice ==
  {n \in Nodes : /\ cache[n].st \in {"joined", "ready"} /\ cache[n].id
                 /\ n \notin pUsed /\ Suits(pClaim, n)}

(* Seeded fault: the patch goes through without the optimistic lock.       *)
NoLock == life[pClaim] # "gone"

(* The claim is still as it was when the reconcile read it.                *)
OptimisticLock == life[pClaim] = "live" /\ pid[pClaim] = Pending

(* The patch; a conflict or a deleted claim ends the reconcile.            *)
ProviderPatch(n) ==
  /\ pClaim # NoClaim /\ n \in ProviderChoice
  /\ \/ OptimisticLock /\ pid' = [pid EXCEPT ![pClaim] = n]
     \/ ~OptimisticLock /\ UNCHANGED pid
  /\ pClaim' = NoClaim /\ pUsed' = {}
  /\ UNCHANGED <<life, adopt, born, order, nodeVars, cache, aVars, dVars, kVars, clock,
                 faults>>

(* No node yet: requeue in 30 seconds.                                     *)
ProviderWaits ==
  /\ pClaim # NoClaim /\ ProviderChoice = {}
  /\ pClaim' = NoClaim /\ pUsed' = {}
  /\ UNCHANGED <<claimVars, order, nodeVars, cache, aVars, dVars, kVars, clock, faults>>

----------------------------------------------------------------------------
(* The adoption controller's Reconcile of the pool, one at a time.         *)

(* The nodes are listed first, from the cache ...                          *)
AdoptNodes ==
  /\ aPC = "idle" /\ aPC' = "nodes" /\ aView' = cache
  /\ UNCHANGED <<claimVars, order, nodeVars, cache, pVars, aNode, dVars, kVars, clock,
                 faults>>

\* The IDs that claims speak for, in their status or their annotation.
ClaimedIDs == UsedIDs({}) \cup ({adopt[c] : c \in {d \in Claims : Exists(d)}} \ {NoID})

\* The scale-outs that wait for their node.
PendingClaims == {c \in Claims : life[c] = "live" /\ pid[c] = Pending}

(* Seeded fault: the age test is the wrong way round.                      *)
ClaimedByYounger(n) == \E c \in PendingClaims : <<c, n>> \in Matches /\ joined[n] < born[c]

(* Some scale-out could be waiting for this node.                          *)
ClaimedByPendingClaim(n) == \E c \in PendingClaims : Suits(c, n)

Eligible(n) ==
  /\ aView[n].st = "ready" /\ n \in Adoptable
  /\ aView[n].id => n \notin ClaimedIDs
  /\ ~ClaimedByPendingClaim(n)

(* ... then the claims, from the API server: this settles which of the     *)
(* nodes the loop takes.                                                   *)
AdoptClaims ==
  /\ aPC = "nodes" /\ aPC' = "loop"
  /\ aView' = [n \in Nodes |-> IF Eligible(n) THEN aView[n] ELSE Absent]
  /\ UNCHANGED <<claimVars, order, nodeVars, cache, pVars, aNode, dVars, kVars, clock,
                 faults>>

ToAdopt == {n \in Nodes : aView[n] # Absent}

(* Seeded fault: prepareNode patches whatever is there now.                *)
PatchAnyway(n) == node[n].st = "ready"

(* The node is still as it was when the cache saw it.                      *)
NodeLock(n) == node[n] = aView[n]

Prepared == [st |-> "ready", id |-> TRUE, reg |-> TRUE]

(* prepareNode: set the provider ID and the registered label, if needed.   *)
AdoptPrepare(n) ==
  /\ aPC = "loop" /\ n \in ToAdopt
  /\ \/ aView[n] = Prepared /\ UNCHANGED node
     \/ aView[n] # Prepared /\ NodeLock(n) /\ node' = [node EXCEPT ![n] = Prepared]
  /\ aPC' = "create" /\ aNode' = n
  /\ UNCHANGED <<claimVars, order, joined, builtFor, cache, pVars, aView, dVars,
                 kVars, clock, faults>>

(* prepareNode errs, in a conflict or at the API server: next node.        *)
AdoptPrepareFails(n) ==
  /\ aPC = "loop" /\ n \in ToAdopt /\ aView[n] # Prepared
  /\ \/ ~NodeLock(n) /\ UNCHANGED faults
     \/ NodeLock(n) /\ Fault
  /\ aView' = [aView EXCEPT ![n] = Absent]
  /\ UNCHANGED <<claimVars, order, nodeVars, cache, pVars, aPC, aNode, dVars, kVars, clock>>

(* The NodeClaim is created, annotated with the node's ID.                 *)
AdoptCreate(c) ==
  /\ aPC = "create" /\ life[c] = "none" /\ <<c, aNode>> \in Matches
  /\ life' = [life EXCEPT ![c] = "live"] /\ born' = [born EXCEPT ![c] = clock]
  /\ adopt' = [adopt EXCEPT ![c] = aNode]
  /\ aView' = [aView EXCEPT ![aNode] = Absent]
  /\ aPC' = "loop" /\ aNode' = NoID
  /\ UNCHANGED <<pid, order, nodeVars, cache, pVars, dVars, kVars, clock, faults>>

(* Creating it errs (or Claims is used up): the node stays prepared.       *)
AdoptCreateFails ==
  /\ aPC = "create"
  /\ \/ Fault
     \/ UNCHANGED faults /\ \A c \in Claims : life[c] # "none" \/ <<c, aNode>> \notin Matches
  /\ aView' = [aView EXCEPT ![aNode] = Absent]
  /\ aPC' = "loop" /\ aNode' = NoID
  /\ UNCHANGED <<claimVars, order, nodeVars, cache, pVars, dVars, kVars, clock>>

AdoptEnds ==
  /\ aPC = "loop" /\ ToAdopt = {} /\ aPC' = "idle"
  /\ UNCHANGED <<claimVars, order, nodeVars, cache, pVars, aView, aNode, dVars, kVars,
                 clock, faults>>

----------------------------------------------------------------------------
(* CloudProvider.Delete, called until it reports the instance gone.        *)

Gone(c) == life' = [life EXCEPT ![c] = "gone"]

(* The remove has SUCCEEDED, or the claim never got an ID: not found.      *)
DeleteReleases(c) ==
  /\ life[c] = "deleting" /\ (c \in removed \/ pid[c] = NoID)
  /\ Gone(c)
  /\ UNCHANGED <<pid, adopt, born, order, nodeVars, cache, pVars, aVars, dVars, kVars,
                 clock, faults>>

(* Seeded fault: the ID of the claim goes out, not the one looked up.      *)
RemoveAsKnown(c, n) == remove' = [remove EXCEPT ![c] = pid[c]]

(* The remove goes to the broker; one in flight is not replaced.           *)
EnqueueRemove(c, n) == remove' = [remove EXCEPT ![c] = IF @ = NoID THEN n ELSE @]

DeleteBound(c) ==
  /\ life[c] = "deleting" /\ pid[c] \in Nodes /\ c \notin removed /\ remove[c] = NoID
  /\ EnqueueRemove(c, pid[c])
  /\ UNCHANGED <<claimVars, order, nodeVars, cache, pVars, aVars, dUsed, removed, kVars,
                 clock, faults>>

(* findNodeProviderID of a claim that still has the pending ID: the IDs    *)
(* the other claims use ...                                                *)
FindList(c) ==
  /\ life[c] = "deleting" /\ pid[c] = Pending /\ c \notin removed
  /\ dUsed[c] = NotSearching
  /\ dUsed' = [dUsed EXCEPT ![c] = UsedIDs({c})]
  /\ UNCHANGED <<claimVars, order, nodeVars, cache, pVars, aVars, remove, removed, kVars,
                 clock, faults>>

FindChoice(c) ==
  {n \in Nodes : /\ node[n].st \in {"joined", "ready"} /\ node[n].id
                 /\ n \notin dUsed[c] /\ Suits(c, n)}

(* ... then the nodes, uncached: the first that suits is removed.          *)
FindNode(c, n) ==
  /\ dUsed[c] # NotSearching /\ n \in FindChoice(c)
  /\ EnqueueRemove(c, n)
  /\ dUsed' = [dUsed EXCEPT ![c] = NotSearching]
  /\ UNCHANGED <<claimVars, order, nodeVars, cache, pVars, aVars, removed, kVars, clock,
                 faults>>

(* None, or a List that errs: the add is cancelled, if it has not started, *)
(* and the claim released.                                                 *)
FindNothing(c) ==
  /\ dUsed[c] # NotSearching
  /\ \/ FindChoice(c) = {} /\ UNCHANGED faults
     \/ FindChoice(c) # {} /\ Fault
  /\ \/ order[c] = "sent" /\ order' = [order EXCEPT ![c] = "over"]
     \/ UNCHANGED order
  /\ Gone(c)
  /\ dUsed' = [dUsed EXCEPT ![c] = NotSearching]
  /\ UNCHANGED <<pid, adopt, born, nodeVars, cache, pVars, aVars, remove, removed, kVars,
                 clock>>

(* The broker takes the machine down.                                      *)
RemoveSucceeds(c) ==
  /\ remove[c] # NoID /\ c \notin removed
  /\ node' = [node EXCEPT ![remove[c]].st = "gone"]
  /\ removed' = removed \cup {c}
  /\ UNCHANGED <<claimVars, order, joined, builtFor, cache, pVars, aVars, dUsed, remove,
                 kVars, clock, faults>>

(* The remove fails; Delete is called again and sends another.             *)
RemoveFails(c) ==
  /\ remove[c] # NoID /\ c \notin removed /\ Fault
  /\ remove' = [remove EXCEPT ![c] = NoID]
  /\ UNCHANGED <<claimVars, order, nodeVars, cache, pVars, aVars, dUsed, removed, kVars,
                 clock>>

----------------------------------------------------------------------------
(* The failure handler.                                                    *)

AddFails(c) ==
  /\ order[c] = "sent" /\ Fault
  /\ order' = [order EXCEPT ![c] = "failed"]
  /\ UNCHANGED <<claimVars, nodeVars, cache, pVars, aVars, dVars, kVars, clock>>

(* The uncached List: a claim that waits for its node is to be deleted.    *)
HandlerList(c) ==
  /\ hClaim = NoClaim /\ order[c] = "failed"
  /\ order' = [order EXCEPT ![c] = "over"]
  /\ hClaim' = IF life[c] = "live" /\ pid[c] \in {NoID, Pending} THEN c ELSE NoClaim
  /\ UNCHANGED <<claimVars, nodeVars, cache, pVars, aVars, dVars, registered, clock, faults>>

(* The Delete carries no precondition on what the List saw.                *)
HandlerDelete ==
  /\ hClaim # NoClaim /\ hClaim' = NoClaim
  /\ life' = [life EXCEPT ![hClaim] = IF @ = "live" THEN "deleting" ELSE @]
  /\ UNCHANGED <<pid, adopt, born, order, nodeVars, cache, pVars, aVars, dVars, registered,
                 clock, faults>>

----------------------------------------------------------------------------
KarpenterNext(c) ==
  \/ NewClaim(c) \/ CreateSends(c) \/ CreateLaunches(c) \/ CreateAdopted(c)
  \/ DeleteClaim(c) \/ Registers(c) \/ GarbageCollects(c)
  \/ \E n \in Nodes : NodeJoins(c, n)

ProviderNext == ProviderWaits \/ \E n \in Nodes : ProviderPatch(n)

AdoptNext ==
  \/ AdoptNodes \/ AdoptClaims \/ AdoptCreateFails \/ AdoptEnds
  \/ \E n \in Nodes : AdoptPrepare(n) \/ AdoptPrepareFails(n)
  \/ \E c \in Claims : AdoptCreate(c)

DeleteNext(c) ==
  \/ DeleteReleases(c) \/ DeleteBound(c) \/ FindList(c) \/ FindNothing(c)
  \/ \E n \in Nodes : FindNode(c, n)

BrokerNext(c) == RemoveSucceeds(c) \/ RemoveFails(c) \/ AddFails(c)

Next ==
  \/ Tick \/ ProviderNext \/ AdoptNext \/ HandlerDelete
  \/ \E n \in Nodes : NodeReady(n) \/ CacheSync(n)
  \/ \E c \in Claims : \/ KarpenterNext(c) \/ ProviderList(c) \/ DeleteNext(c)
                       \/ BrokerNext(c) \/ HandlerList(c)

Spec == Init /\ [][Next]_vars

----------------------------------------------------------------------------
(* Safety.                                                                 *)

ScaleOut(c) == Exists(c) /\ adopt[c] = NoID

(* NodeProviderIDController never gives one node to two scale-outs, though *)
(* its view of the nodes is stale and claims change while it decides: one  *)
(* reconcile at a time and an uncached usedIDs are enough.                 *)
OneScaleOutPerNode ==
  \A c, d \in Claims :
    ScaleOut(c) /\ ScaleOut(d) /\ pid[c] \in Nodes /\ pid[c] = pid[d] => c = d

(* The adoption controller never makes two claims for one node, though it  *)
(* may see the node as it was before the last pass prepared it.            *)
OneAdoptionPerNode ==
  \A c, d \in Claims :
    Exists(c) /\ Exists(d) /\ adopt[c] # NoID /\ adopt[c] = adopt[d] => c = d

(* Adoption does not take the machine a launched scale-out waits for, also *)
(* when claim and node change during the pass: nodes are listed before     *)
(* claims (claimedByPendingClaim).                                         *)
MachineNotRobbed ==
  \A c, d \in Claims : \A n \in Nodes :
    builtFor[n] = c /\ life[c] = "live" /\ pid[c] = Pending => ~(Exists(d) /\ adopt[d] = n)

(* A launched claim under deletion keeps its ID: Delete, which may just    *)
(* have told Karpenter that a pending claim has no instance, is not        *)
(* overtaken by a patch decided before the deletion.  (The result of a     *)
(* Create that was under way may still give such a claim its first ID.)    *)
DeletingKeepsID ==
  [][\A c \in Claims : life[c] = "deleting" /\ pid[c] # NoID => pid'[c] = pid[c]]_vars

(* "An empty List() is dangerous": garbage collection never deletes the    *)
(* claim of a node that is in the cluster, though List() reads a cache and *)
(* adoption sets provider IDs the cache has yet to see.                    *)
CollectionSparesNodes ==
  [][\A c \in Claims :
       GarbageCollects(c) => node[pid[c]].st \notin {"joined", "ready"}]_vars

Owned(n) == \E c \in Claims : Exists(c) /\ n \in {pid[c], adopt[c]}

(* What the doc comments of both controllers set out to prevent: two       *)
(* NodeClaims for one machine.                                             *)
OneOwner ==
  \A c, d \in Claims :
    Exists(c) /\ Exists(d) /\ {pid[c], adopt[c]} \cap {pid[d], adopt[d]} \cap Nodes # {}
      => c = d

(* What the comment on findNodeProviderID says its usedIDs check prevents: *)
(* Delete() selecting a node assigned to another NodeClaim.                *)
RemoveSparesOthers ==
  [][\A c, d \in Claims :
       remove[c] = NoID /\ remove'[c] # NoID /\ d # c /\ life[d] = "live"
         => pid[d] # remove'[c]]_vars

----------------------------------------------------------------------------
(* Liveness.  The controllers run (work queue, watches, resync), Karpenter *)
(* launches its live claims, caches catch up.  Nobody has to delete a      *)
(* claim, and no result has to reach one under deletion.                   *)
Fairness ==
  /\ \A c \in Claims : /\ SF_vars(ProviderList(c))
                       /\ WF_vars(/\ life[c] = "live"
                                  /\ CreateSends(c) \/ CreateLaunches(c) \/ CreateAdopted(c))
  /\ \A n \in Nodes : WF_vars(CacheSync(n))
  /\ WF_vars(ProviderNext) /\ WF_vars(AdoptNext)

FairSpec == Spec /\ Fairness

(* A ready node without an owner that adoption leaves to a scale-out.      *)
Skipped(n) == node[n].st = "ready" /\ ~Owned(n) /\ ClaimedByPendingClaim(n)

(* Between the two controllers no ready node falls through: it gets an     *)
(* owner or is removed.  When the bound on Claims is used up, adoption can *)
(* make none, but no scale-out that the node suits is left waiting either: *)
(* with SkippedNodeIsBound as a consequence, for nodes that join with an   *)
(* ID.                                                                     *)
NodeOwned ==
  \A n \in Adoptable :
    node[n].st = "ready" ~>
      \/ Owned(n) \/ node[n].st # "ready"
      \/ /\ \A c \in Claims : life[c] # "none" \/ <<c, n>> \notin Matches
         /\ ~Skipped(n)

(* What the adoption controller relies on when it skips a node: "the       *)
(* NodeProviderIDController will bind this one to that NodeClaim".  A      *)
(* skipped node is bound to some claim, or no claim waits for it any more. *)
SkippedNodeIsBound == \A n \in Nodes : Skipped(n) ~> ~Skipped(n)

=============================================================================
