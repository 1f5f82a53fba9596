------------------------------- MODULE Launch -------------------------------
(***************************************************************************)
(* From a RafayNodeClass to a launched NodeClaim.  Three parts read the    *)
(* class, from a cache that lags, while it is edited:                      *)
(*                                                                         *)
(*   - the readiness controller (pkg/controllers/rafaynodeclass) validates *)
(*     it and writes its Ready condition;                                  *)
(*   - CloudProvider.Create (pkg/cloudprovider) converts its entries to    *)
(*     instance types, selects one and sends the add; called again after a *)
(*     lost result, it selects again, but the operation keeps its SKU;     *)
(*   - the adoption controller (pkg/controllers/nodeadoption) makes claims *)
(*     for running nodes, which Create must accept and leave as they are.  *)
(*                                                                         *)
(* One NodeClass and one NodePool.  Quantities are numbers or Bad, a node  *)
(* selector requirement is a set of values it includes or excludes.        *)
(* Architecture stands for the operating system too: both are treated      *)
(* alike.  The batcher is reduced to the SKU an operation travels with     *)
(* (see Batcher), the node race of adoption is left to Binding.            *)
(***************************************************************************)
EXTENDS Naturals, Sequences

CONSTANTS
  Claims, Nodes,  \* NodeClaims of the pool, running nodes to adopt
  None,           \* "" or nil: no name, zone, label, node or operation
  Bad,            \* a quantity that does not parse
  ClassName,      \* name of the RafayNodeClass (legacy: of its only SKU)
  DefaultZone,    \* "default"
  Specs,          \* the spec.instanceTypes an editor may write
  Pools,          \* what the NodePool's template may be: requirements, zone label
  Demands,        \* requirements and requests of scale-out claims
  Labels,         \* node -> its sku_name and architecture labels
  ZoneLabels,     \* node -> its zone label, or None
  MaxEdits,       \* bound on edits of the class
  MaxFaults       \* bound on lost results and API errors

\* An entry of spec.instanceTypes; a quantity that does not parse is Bad.
Entries ==
  [name: STRING \cup {None}, cpu: Nat \cup {Bad}, mem: Nat \cup {Bad},
   gpu: Nat \cup {None, Bad}, zone: STRING \cup {None}, archs: SUBSET STRING]

\* Karpenter names the instance types a claim may be launched as.
NamesTypes(d) ==
  "type" \in DOMAIN d.reqs /\ d.reqs["type"].in /\ None \notin d.reqs["type"].vals

ASSUME LaunchAssumption ==
  /\ None \notin Nodes /\ Labels \in [Nodes -> [sku: STRING, arch: STRING]]
  /\ ZoneLabels \in [Nodes -> STRING \cup {None}]
  /\ Specs \subseteq Seq(Entries) /\ \A d \in Demands : NamesTypes(d)
  /\ None \notin [sku: STRING \cup {None}, gen: Nat]
  /\ MaxEdits \in Nat /\ MaxFaults \in Nat

VARIABLES
  class,   \* the RafayNodeClass: spec, generation, Ready condition, deletion
  cache,   \* the informer's copy of it
  dirty,   \* the class is on the controller's work queue
  work,    \* the copy the readiness reconcile works on
  pool,    \* the NodePool's template: reqs, and the zone label among its labels
  claim,   \* NodeClaims
  order,   \* the add operation of a claim: its SKU
  zone,    \* zone label of the nodes
  faults

classVars == <<class, cache, dirty, work>>
vars == <<classVars, pool, claim, order, zone, faults>>

NoClaim == [st |-> "none", demand |-> None, node |-> None, sku |-> None,
            zone |-> None, gen |-> 0]

Fault == faults < MaxFaults /\ faults' = faults + 1

----------------------------------------------------------------------------
(* Instance types.  An entry of a spec is a record of name, cpu, mem (GiB),*)
(* gpu, zone and the set archs.                                            *)

(* Seeded fault: the accelerator count is not validated.                   *)
ValidCpuMem(spec) ==
  spec # <<>> /\ \A i \in DOMAIN spec :
    spec[i].name # None /\ spec[i].cpu # Bad /\ spec[i].mem # Bad

(* validateNodeClass finds nothing to complain about.                      *)
Valid(spec) ==
  spec # <<>> /\ \A i \in DOMAIN spec :
    /\ spec[i].name # None /\ spec[i].cpu # Bad /\ spec[i].mem # Bad
    /\ spec[i].gpu # None => spec[i].gpu # Bad

(* rafayInstanceTypesToKarpenter: the quantities of an entry parse.        *)
Parses(e) == Bad \notin {e.cpu, e.mem} \cup ({e.gpu} \ {None})

(* getInstanceTypes returns no error: there are entries, they all parse.   *)
Converts(spec) == spec # <<>> /\ \A i \in DOMAIN spec : Parses(spec[i])

ZoneOf(e) == IF e.zone = None THEN DefaultZone ELSE e.zone

\* requirementsToLabels, of the two labels that matter here.
TypeLabels(e) == [sku |-> e.name, zone |-> ZoneOf(e)]

\* The requirements of an instance type and of its one offering.
TypeReqs(e) ==
  [k \in {"type", "zone", "cap"} \cup (IF e.archs = {} THEN {} ELSE {"arch"}) |->
     CASE k = "type" -> {e.name}
       [] k = "zone" -> {ZoneOf(e)}
       [] k = "cap"  -> {"on-demand"}
       [] k = "arch" -> e.archs]

\* The synthetic price, in eighths: 1.0 per vCPU, 0.125 per GiB.
Price(e) == 8 * e.cpu + e.mem

Admits(req, vals) == IF req.in THEN vals \cap req.vals # {} ELSE vals \ req.vals # {}

\* scheduling.Requirements.Compatible, undefined well-known labels allowed.
Intersects(reqs, vals) == \A k \in DOMAIN reqs \cap DOMAIN vals : Admits(reqs[k], vals[k])

Fits(d, e) == d.cpu <= e.cpu /\ d.mem <= e.mem /\ (d.gpu = 0 \/ (e.gpu # None /\ d.gpu <= e.gpu))

(* filterCompatibleInstanceTypes.                                          *)
Compatible(spec, d) ==
  {i \in DOMAIN spec : Intersects(d.reqs, TypeReqs(spec[i])) /\ Fits(d, spec[i])}

(* Seeded fault: the sort is not stable.                                   *)
CheapestOf(spec, d) ==
  {i \in Compatible(spec, d) : \A j \in Compatible(spec, d) : Price(spec[i]) <= Price(spec[j])}

(* The stable sort by price, and its first element.                        *)
Selected(spec, d) ==
  {i \in Compatible(spec, d) : \A j \in Compatible(spec, d) :
     Price(spec[i]) < Price(spec[j]) \/ (Price(spec[i]) = Price(spec[j]) /\ i <= j)}

----------------------------------------------------------------------------
(* Adoption's tests of a node.                                             *)

\* The zone label of an adopted claim: the node's, or else the pool template's.
LabelZone(n) == IF zone[n] = None THEN pool.zone ELSE zone[n]

\* The labels of an adopted claim: wellKnownNodeLabels (what the node carries, the SKU and the
\* capacity type) laid over those of the template.
NodeLabels(n) ==
  [k \in {"type", "cap", "arch"} \cup (IF LabelZone(n) = None THEN {} ELSE {"zone"}) |->
     CASE k = "type" -> {Labels[n].sku}
       [] k = "cap"  -> {"on-demand"}
       [] k = "arch" -> {Labels[n].arch}
       [] k = "zone" -> {LabelZone(n)}]

\* pinInstanceType: the pool's requirements for this one SKU.
Pinned(sku) ==
  [k \in DOMAIN pool.reqs \cup {"type"} |->
     IF k = "type" THEN [in |-> TRUE, vals |-> {sku}] ELSE pool.reqs[k]]

\* The entries of a spec that are the node's SKU; the first one is used.
EntriesOf(spec, n) == {i \in DOMAIN spec : spec[i].name = Labels[n].sku}

(* validateAdoptable: labels against the pool, the SKU's offering against  *)
(* the labels.                                                             *)
Validated(e, n) ==
  LET labels == NodeLabels(n) IN
  /\ \A k \in DOMAIN pool.reqs : k \in DOMAIN labels \/ ~pool.reqs[k].in
  /\ Intersects(pool.reqs, labels)
  /\ \A k \in DOMAIN labels \cap DOMAIN TypeReqs(e) : labels[k] \cap TypeReqs(e)[k] # {}

(* Seeded fault: a SKU the class does not list is adopted all the same.    *)
AnySKU(spec, n) == Converts(spec)

Adoptable(spec, n) ==
  /\ Converts(spec) /\ EntriesOf(spec, n) # {}
  /\ LET i == CHOOSE x \in EntriesOf(spec, n) : \A y \in EntriesOf(spec, n) : x <= y
     IN Validated(spec[i], n)

----------------------------------------------------------------------------
Init ==
  /\ \E s \in Specs : class = [spec |-> s, gen |-> 0, ready |-> FALSE, seen |-> None,
                               deleting |-> FALSE]
  /\ cache = class /\ dirty = TRUE /\ work = None
  /\ pool \in Pools
  /\ claim = [c \in Claims |-> NoClaim] /\ order = [c \in Claims |-> None]
  /\ zone = ZoneLabels /\ faults = 0

(* The node-config controller or a user edits the class, or deletes it.    *)
Edit ==
  /\ class.gen < MaxEdits
  /\ \/ \E s \in Specs \ {class.spec} :
          class' = [class EXCEPT !.spec = s, !.gen = @ + 1]
     \/ ~class.deleting /\ class' = [class EXCEPT !.deleting = TRUE, !.gen = @ + 1]
  /\ UNCHANGED <<cache, dirty, work, pool, claim, order, zone, faults>>

(* The watch has no predicate: every update puts the class on the queue.   *)
CacheSync ==
  /\ cache # class /\ cache' = class /\ dirty' = TRUE
  /\ UNCHANGED <<class, work, pool, claim, order, zone, faults>>

(* Reconcile computes the condition; status.Set compares it, generation    *)
(* included, with the one of the cached copy.                              *)
Reconcile ==
  /\ dirty /\ work = None /\ dirty' = FALSE
  /\ LET new == [cache EXCEPT !.ready = Valid(cache.spec), !.seen = cache.gen]
     IN work' = IF cache.deleting \/ new = cache THEN None ELSE new
  /\ UNCHANGED <<class, cache, pool, claim, order, zone, faults>>

(* The status patch, which carries no lock on the version read.            *)
PatchStatus ==
  /\ work # None /\ work' = None
  /\ class' = [class EXCEPT !.ready = work.ready, !.seen = work.seen]
  /\ UNCHANGED <<cache, dirty, pool, claim, order, zone, faults>>

(* Seeded fault: the error of the patch is swallowed.                      *)
Forgotten == UNCHANGED dirty

(* An error puts the class back on the queue.                              *)
Requeued == dirty' = TRUE

PatchFails ==
  /\ work # None /\ Fault /\ work' = None /\ Requeued
  /\ UNCHANGED <<class, cache, pool, claim, order, zone>>

----------------------------------------------------------------------------
(* Scale-out.                                                              *)

(* Karpenter makes a claim for pods, from a class it has seen ready.       *)
NewClaim(c, d) ==
  /\ claim[c].st = "none" /\ order[c] = None /\ class.ready
  /\ claim' = [claim EXCEPT ![c].st = "new", ![c].demand = d]
  /\ UNCHANGED <<classVars, pool, order, zone, faults>>

(* Seeded fault: the adoption annotation is not looked at.                 *)
ProvisionsAll(c) == TRUE

(* Only a claim without the adoption annotation is sent to the broker.     *)
Provisions(c) == claim[c].node = None

(* Create up to Enqueue: an operation that is queued or known to the       *)
(* broker keeps the SKU of the first call.  The labels of the selected     *)
(* type go with the call and become the claim's when it returns.           *)
CreateSends(c) ==
  /\ claim[c].st = "new" /\ Provisions(c) /\ Converts(cache.spec)
  /\ \E i \in Selected(cache.spec, claim[c].demand) :
       LET sku    == cache.spec[i].name
           labels == TypeLabels(cache.spec[i]) IN
       /\ claim' = [claim EXCEPT ![c].st = "sent", ![c].sku = labels.sku,
                                 ![c].zone = labels.zone, ![c].gen = cache.gen]
       /\ order' = [order EXCEPT ![c] =
            IF @ = None THEN [sku |-> sku, gen |-> cache.gen] ELSE @]
  /\ UNCHANGED <<classVars, pool, zone, faults>>

(* The ACK: the claim is launched.                                         *)
CreateReturns(c) ==
  /\ claim[c].st = "sent" /\ claim' = [claim EXCEPT ![c].st = "launched"]
  /\ UNCHANGED <<classVars, pool, order, zone, faults>>

(* The result is lost (context, restart, lost ACK), or the send failed and *)
(* no operation remains; Create is called again.                           *)
CreateFails(c) ==
  /\ claim[c].st = "sent" /\ Fault
  /\ claim' = [claim EXCEPT ![c].st = "new", ![c].sku = None, ![c].zone = None]
  /\ order' \in {order, [order EXCEPT ![c] = None]}
  /\ UNCHANGED <<classVars, pool, zone>>

(* No compatible instance type: InsufficientCapacityError, on which        *)
(* Karpenter deletes the claim (Delete: no provider ID, nothing to do).    *)
CreateRefuses(c) ==
  /\ claim[c].st = "new" /\ Converts(cache.spec)
  /\ Compatible(cache.spec, claim[c].demand) = {}
  /\ claim' = [claim EXCEPT ![c] = NoClaim]
  /\ UNCHANGED <<classVars, pool, order, zone, faults>>

----------------------------------------------------------------------------
(* Adoption.                                                               *)

Taken(n) == \E c \in Claims : claim[c].node = n

(* adoptedNodeClaim: no requests, the pool's requirements for this SKU,    *)
(* the labels of the template and of the node.                             *)
Adopt(c, n) ==
  /\ claim[c].st = "none" /\ order[c] = None /\ ~Taken(n) /\ Adoptable(cache.spec, n)
  /\ claim' = [claim EXCEPT ![c] =
       [st |-> "new", node |-> n, sku |-> Labels[n].sku, zone |-> LabelZone(n), gen |-> cache.gen,
        demand |-> [reqs |-> Pinned(Labels[n].sku), cpu |-> 0, mem |-> 0, gpu |-> 0]]]
  /\ UNCHANGED <<classVars, pool, order, zone, faults>>

(* Seeded fault: an adopted claim takes the labels of the SKU too.         *)
Overlaid(c, e) == [claim[c] EXCEPT !.st = "launched", !.zone = ZoneOf(e)]

(* Create of an adopted claim leaves its labels alone.                     *)
AsAdopted(c, e) == [claim[c] EXCEPT !.st = "launched"]

CreateAdopted(c) ==
  /\ claim[c].st = "new" /\ claim[c].node # None /\ Converts(cache.spec)
  /\ \E i \in Selected(cache.spec, claim[c].demand) :
       claim' = [claim EXCEPT ![c] = AsAdopted(c, cache.spec[i])]
  /\ UNCHANGED <<classVars, pool, order, zone, faults>>

(* Karpenter's Registration copies the labels of the claim onto its node.  *)
Register(c) ==
  /\ claim[c].st = "launched" /\ claim[c].node # None
  /\ claim' = [claim EXCEPT ![c].st = "registered"]
  /\ zone' = [zone EXCEPT ![claim[c].node] =
       IF claim[c].zone = None THEN @ ELSE claim[c].zone]
  /\ UNCHANGED <<classVars, pool, order, faults>>

----------------------------------------------------------------------------
ClassNext == Edit \/ CacheSync \/ Reconcile \/ PatchStatus \/ PatchFails

ClaimNext(c) ==
  \/ CreateSends(c) \/ CreateReturns(c) \/ CreateFails(c) \/ CreateRefuses(c)
  \/ CreateAdopted(c) \/ Register(c)
  \/ \E d \in Demands : NewClaim(c, d)
  \/ \E n \in Nodes : Adopt(c, n)

Next == ClassNext \/ \E c \in Claims : ClaimNext(c)

Spec == Init /\ [][Next]_vars

----------------------------------------------------------------------------
(* Safety.                                                                 *)

(* The type of every variable; a claim that adopts a node never has an add *)
(* operation at the broker.                                                *)
TypeOK ==
  LET objects == [spec: Specs, gen: 0..MaxEdits, ready: BOOLEAN,
                  seen: 0..MaxEdits \cup {None}, deleting: BOOLEAN] IN
  /\ class \in objects /\ cache \in objects /\ work \in objects \cup {None}
  /\ dirty \in BOOLEAN /\ pool \in Pools
  /\ \A c \in Claims :
       /\ claim[c].st \in {"none", "new", "sent", "launched", "registered"}
       /\ claim[c].node \in Nodes \cup {None} /\ claim[c].gen \in 0..MaxEdits
       /\ claim[c].st = "sent" => order[c] # None
       /\ claim[c].node # None => order[c] = None
  /\ faults \in 0..MaxFaults

(* A class that is Ready for its current spec can be provisioned from:     *)
(* what validateNodeClass accepts, getInstanceTypes converts, also when    *)
(* the condition was computed from a stale copy and patched without lock.  *)
ReadyClassConverts == class.ready /\ class.seen = class.gen => Converts(class.spec)

(* NodeClaimSKUs: the instance-type label, or the legacy convention.       *)
NodeClaimSKUs(c) == {claim[c].sku, ClassName} \ {None}

(* The machine that is built for a launched claim carries a sku_name the   *)
(* claim accepts, however often Create was called, unless the class was    *)
(* edited between the call that sent the operation and the last one.       *)
SkuIdentifiesNode ==
  \A c \in Claims :
    claim[c].st = "launched" /\ claim[c].node = None /\ order[c].gen = claim[c].gen
      => order[c].sku \in NodeClaimSKUs(c)

(* Adoption never replaces the topology of a node that runs workloads, nor *)
(* invents it: the zone label of a node survives claim, Create and         *)
(* Registration, and a node without one gets one only from the labels the  *)
(* user put in the NodePool's template, never the SKU's.                   *)
NodeZoneKept ==
  [][\A n \in Nodes :
       zone'[n] = zone[n] \/ (zone[n] = None /\ zone'[n] = pool.zone)]_vars

----------------------------------------------------------------------------
(* Liveness.  The controllers run and caches catch up.                     *)
Fairness ==
  /\ WF_vars(CacheSync) /\ WF_vars(Reconcile) /\ WF_vars(PatchStatus)
  /\ \A c \in Claims : /\ WF_vars(CreateSends(c) \/ CreateReturns(c) \/ CreateRefuses(c)
                                  \/ CreateAdopted(c))
                       /\ WF_vars(\E n \in Nodes : Adopt(c, n))

FairSpec == Spec /\ Fairness

(* The Ready condition comes to say whether the class is valid, though the *)
(* controller compares with, and patches over, what it read some time ago. *)
ReadyConverges ==
  <>[](class.deleting \/ (class.ready = Valid(class.spec) /\ class.seen = class.gen))

Covered(n) == \E c \in Claims : claim[c].node = n /\ claim[c].st \in {"launched", "registered"}

\* Create sees the SKU's zone, adoption the node's: an exclusion catches only one.
ZoneBlind(n) == LabelZone(n) = None /\ "zone" \in DOMAIN pool.reqs

(* Adoption settles: what it adopts, Create accepts, and no node is        *)
(* claimed and given up for ever (a node that has no zone label, and gets  *)
(* none from the template, in a pool that excludes zones apart).           *)
AdoptionSettles ==
  \A n \in Nodes :
    <>[](\/ ZoneBlind(n) \/ ~Converts(class.spec) \/ Covered(n)
         \/ \A c \in Claims : claim[c].node # n)

=============================================================================
