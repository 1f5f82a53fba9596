------------------------------ MODULE Headroom ------------------------------
(***************************************************************************)
(* The headroom controller (pkg/controllers/headroom): one Deployment of    *)
(* preemptible pause pods per pool of the headroom-policy ConfigMap, sized  *)
(* from the pool's ready nodes, and the garbage collection of Deployments   *)
(* whose pool left the policy.  Reconciles never overlap                    *)
(* (MaxConcurrentReconciles = 1), but the ConfigMap, the nodes and the      *)
(* Deployments change while one runs.  The manager's client reads from      *)
(* caches that follow the API server with a delay, and a pool's nodes are   *)
(* listed some time before its Deployment is written.                       *)
(*                                                                         *)
(* A text is the value of one ConfigMap data key after unmarshalPools: it   *)
(* fails (ok = FALSE), or it yields a policy for each pool it names.  A     *)
(* text whose top-level key is misspelt yields no pools.                    *)
(***************************************************************************)
EXTENDS Integers, Sequences, FiniteSets, FiniteSetsExt

CONSTANTS
    Pools,        \* pool names
    ConfigMaps,   \* contents the ConfigMap may have: texts in candidateKeys order
    Absent,       \* no ConfigMap, no Deployment, no pool in hand
    Alloc,        \* [Pools -> [Resources -> Nat]], allocatable of one node (one SKU per pool)
    MaxReplicas,  \* maxHeadroomReplicas
    MaxReady,     \* bound on the ready nodes of a pool
    MaxChanges,   \* bound on changes of the ConfigMap, the nodes and the Deployments
    MaxFaults     \* bound on failing API calls

Resources == {"cpu", "memory", "gpu"}

\* parsedPoolPolicy: percentages in [0, 100], pod sizes (podCPU and podMemory are at least the
\* minimum, podGPU is 0 unless set), and the replica floor.
Policy == [pct : [Resources -> 0..100], pod : [Resources -> Nat], minPods : Nat]

\* A headroom Deployment: as the controller wrote it, or scaled by hand since, to one more than
\* the cap.
Deployment ==
    [replicas : 0..MaxReplicas, gpu : BOOLEAN, policy : Policy, manual : {FALSE}]
    \cup [replicas : {MaxReplicas + 1}, gpu : BOOLEAN, policy : Policy, manual : {TRUE}]

ASSUME HeadroomAssumption ==
    /\ Alloc \in [Pools -> [Resources -> Nat]]
    /\ MaxReplicas \in Nat /\ MaxReady \in Nat /\ MaxChanges \in Nat /\ MaxFaults \in Nat
    /\ Absent \notin Deployment
    /\ \A cm \in ConfigMaps : DOMAIN cm \subseteq Nat /\ \A i \in DOMAIN cm :
          cm[i].ok => /\ DOMAIN cm[i].pools \subseteq Pools
                      /\ \A p \in DOMAIN cm[i].pools :
                            /\ cm[i].pools[p] \in Policy
                            /\ cm[i].pools[p].pod.cpu > 0
                            /\ cm[i].pools[p].pod.memory > 0

VARIABLES
    configMap,     \* what the API server holds under headroom-policy
    ready,         \* [Pools -> number of ready nodes]
    seenMap,       \* the ConfigMap in the client's cache
    seenReady,     \* [Pools -> number of ready nodes in the client's cache]
    deployments,   \* [Pools -> Deployment], Absent when there is none
    priority,      \* does the PriorityClass exist?
    legacy,        \* are there bare pause pods of the pre-Deployment version?
    phase,         \* where the running reconcile is
    loaded,        \* the policy the running reconcile loaded, [some pools -> Policy]
    todo,          \* pools it has still to reconcile
    pool,          \* the pool whose nodes it has listed, Absent when there is none
    listed,        \* the ready nodes it listed for that pool
    omitted,       \* pools some readable ConfigMap (or none at all) has left out so far
    changes, faults

caches == <<seenMap, seenReady>>
cluster == <<configMap, ready, omitted, changes>>
reconcile == <<phase, loaded, todo, pool, listed>>
vars == <<cluster, caches, deployments, priority, legacy, reconcile, faults>>

-----------------------------------------------------------------------------
(* Parsing *)

NoPools == [p \in {} |-> 0]

Yields(text) == text.ok /\ DOMAIN text.pools # {}

\* parseHeadroomConfig: the pools of the first key that yields any; otherwise an error if some
\* key failed to parse, and no pools if none did.
FirstYielding(cm) == Min({i \in DOMAIN cm : Yields(cm[i])})

Failing(cm) == \E i \in DOMAIN cm : ~cm[i].ok

Unreadable(cm) ==
    /\ cm # Absent
    /\ ~\E i \in DOMAIN cm : Yields(cm[i])
    /\ Failing(cm)

\* loadPools, when it does not fail: a missing ConfigMap is an empty policy.
PoolsOf(cm) ==
    IF cm # Absent /\ \E i \in DOMAIN cm : Yields(cm[i])
    THEN cm[FirstYielding(cm)].pools
    ELSE NoPools

-----------------------------------------------------------------------------
(* Sizing *)

\* Seeded fault: no clamp.
NoCap(n, cap) == n

\* The clamp to maxHeadroomReplicas, before the cast to int32.
AtMost(n, cap) == IF n > cap THEN cap ELSE n

\* Seeded fault: the quotient is rounded down.
Floors(buffer, size) == {buffer \div size}

\* The quotients math.Ceil may see: the fraction pct / 100 is a float64, so a buffer that is an
\* exact multiple of the pod size may come out a rounding error above it.
Ceilings(buffer, size) ==
    LET q == (buffer + size - 1) \div size
    IN  IF buffer % size = 0 THEN {q, q + 1} ELSE {q}

\* ceilDiv, with the buffer and the pod size both scaled by 100.
CeilDiv(buffer, size) ==
    IF size <= 0 \/ buffer <= 0
    THEN {0}
    ELSE {AtMost(n, MaxReplicas) : n \in Ceilings(buffer, size)}

\* Does a resource take part in the buffer?  podCPU and podMemory are always set.
Buffered(policy, res) == policy.pct[res] > 0 /\ policy.pod[res] > 0

\* sumAllocatable over n ready nodes of pool p, times the buffer percentage.
Buffer(p, policy, n, res) == n * Alloc[p][res] * policy.pct[res]

\* The replicas one resource asks for; with no ready nodes the buffer is empty.
Needed(p, policy, n, res) ==
    IF n > 0 /\ Buffered(policy, res)
    THEN CeilDiv(Buffer(p, policy, n, res), 100 * policy.pod[res])
    ELSE {0}

\* desiredReplicas: the maximum over the resources, floored at minPods and clamped.
DesiredReplicas(p, policy, n) ==
    {AtMost(Max({c, m, g, policy.minPods}), MaxReplicas) :
        c \in Needed(p, policy, n, "cpu"),
        m \in Needed(p, policy, n, "memory"),
        g \in Needed(p, policy, n, "gpu")}

\* perPodRequests asks for a GPU only when podGPU is set and a ready node advertises one, which
\* is where its resource name comes from.
RequestsGPU(p, policy, n) == policy.pod["gpu"] > 0 /\ n > 0 /\ Alloc[p]["gpu"] > 0

\* The Deployments CreateOrUpdate may write for pool p: size, requests and the policy's fields.
DeploymentsFor(p, policy, n) ==
    {[replicas |-> k, gpu |-> RequestsGPU(p, policy, n), policy |-> policy, manual |-> FALSE] :
        k \in DesiredReplicas(p, policy, n)}

-----------------------------------------------------------------------------
(* One reconcile *)

LeftOut(cm) == IF Unreadable(cm) THEN {} ELSE Pools \ DOMAIN PoolsOf(cm)

Init ==
    /\ configMap \in ConfigMaps \cup {Absent}
    /\ ready \in [Pools -> 0..MaxReady]
    /\ deployments = [p \in Pools |-> Absent]
    /\ priority \in BOOLEAN
    /\ legacy \in BOOLEAN
    /\ seenMap = configMap /\ seenReady = ready
    /\ phase = "idle" /\ loaded = NoPools /\ todo = {} /\ pool = Absent /\ listed = 0
    /\ omitted = LeftOut(configMap)
    /\ changes = 0 /\ faults = 0

Fault == faults < MaxFaults /\ faults' = faults + 1

\* An API call succeeds.
Works == UNCHANGED faults

\* ensurePriorityClass, whose failure Reconcile tolerates.
EnsurePriorityClass == \/ priority' = TRUE /\ Works
                       \/ Fault /\ UNCHANGED priority

\* Seeded fault: a policy that cannot be read is taken for an empty one.
LoadAnyway ==
    /\ phase' = "pools"
    /\ loaded' = PoolsOf(seenMap)
    /\ todo' = DOMAIN PoolsOf(seenMap)

\* loadPools reads the cached ConfigMap.  An unreadable policy ends the reconcile with an error
\* before any cleanup.
LoadPools ==
    IF Unreadable(seenMap)
    THEN UNCHANGED <<phase, loaded, todo>>
    ELSE /\ phase' = "pools"
         /\ loaded' = PoolsOf(seenMap)
         /\ todo' = DOMAIN PoolsOf(seenMap)

\* The start of Reconcile: the PriorityClass, then the policy.
Start ==
    /\ phase = "idle"
    /\ EnsurePriorityClass
    /\ LoadPools
    /\ UNCHANGED <<cluster, caches, deployments, legacy, pool, listed>>

\* The Get of the ConfigMap fails: the same early return.
StartFails ==
    /\ phase = "idle"
    /\ Fault
    /\ priority' \in {priority, TRUE}
    /\ UNCHANGED <<cluster, caches, deployments, legacy, reconcile>>

\* reconcilePool, the read: the pool's ready nodes, from the cache.
ListNodes(p) ==
    /\ phase = "pools" /\ p \in todo
    /\ phase' = "apply" /\ pool' = p /\ listed' = seenReady[p]
    /\ todo' = todo \ {p}
    /\ UNCHANGED <<cluster, caches, deployments, priority, legacy, loaded, faults>>

\* Seeded fault: a failed List of the nodes is taken for a pool without nodes.
ShrinksOnError(p) ==
    /\ phase = "pools" /\ p \in todo
    /\ Fault
    /\ phase' = "apply" /\ pool' = p /\ listed' = 0
    /\ todo' = todo \ {p}
    /\ UNCHANGED <<cluster, caches, deployments, priority, legacy, loaded>>

\* The List fails.  The error is kept for the end; the other pools go on.
ListNodesFails(p) ==
    /\ phase = "pools" /\ p \in todo
    /\ Fault
    /\ todo' = todo \ {p}
    /\ UNCHANGED <<cluster, caches, deployments, priority, legacy, phase, loaded, pool, listed>>

\* The reconcile of the pool in hand is over.
PoolDone == phase' = "pools" /\ pool' = Absent /\ listed' = 0

\* reconcilePool, the write: CreateOrUpdate of the Deployment sized for the nodes listed before.
ApplyDeployment ==
    /\ phase = "apply"
    /\ PoolDone
    /\ \E d \in DeploymentsFor(pool, loaded[pool], listed) :
          deployments' = [deployments EXCEPT ![pool] = d]
    /\ UNCHANGED <<cluster, caches, priority, legacy, loaded, todo, faults>>

\* CreateOrUpdate writes nothing: an error, among them the conflict of an update made from a
\* stale copy of the Deployment, or a stale copy that needs no update.
ApplyFails ==
    /\ phase = "apply"
    /\ Fault
    /\ PoolDone
    /\ UNCHANGED <<cluster, caches, deployments, priority, legacy, loaded, todo>>

\* cleanupLegacyPods: a failing List or Delete leaves the pods to a later reconcile.
CleanupLegacyPods ==
    /\ phase = "pools" /\ todo = {}
    /\ phase' = "stale"
    /\ \/ legacy' = FALSE /\ Works
       \/ Fault /\ UNCHANGED legacy
    /\ UNCHANGED <<cluster, caches, deployments, priority, loaded, todo, pool, listed>>

Stale == {p \in Pools : deployments[p] # Absent /\ p \notin DOMAIN loaded}

\* cleanupStaleDeployments: delete what the loaded policy does not configure.  A Deployment
\* whose Delete fails stays; a failing List leaves them all.  The reconcile ends.
CleanupStaleDeployments ==
    /\ phase = "stale"
    /\ \E gone \in SUBSET Stale :
          /\ IF gone = Stale THEN Works ELSE Fault
          /\ deployments' = [p \in Pools |-> IF p \in gone THEN Absent ELSE deployments[p]]
    /\ phase' = "idle" /\ loaded' = NoPools
    /\ UNCHANGED <<cluster, caches, priority, legacy, todo, pool, listed>>

-----------------------------------------------------------------------------
(* The cluster around it *)

Change == changes < MaxChanges /\ changes' = changes + 1

EditConfigMap(cm) ==
    /\ Change
    /\ configMap' = cm
    /\ omitted' = omitted \cup LeftOut(cm)
    /\ UNCHANGED <<ready, caches, deployments, priority, legacy, reconcile, faults>>

NodesChange(p) ==
    /\ Change
    /\ \E n \in 0..MaxReady : ready' = [ready EXCEPT ![p] = n]
    /\ UNCHANGED <<configMap, omitted, caches, deployments, priority, legacy, reconcile, faults>>

\* Someone scales a headroom Deployment by hand.
Drift(p) ==
    /\ Change
    /\ deployments[p] # Absent
    /\ deployments' =
          [deployments EXCEPT ![p] = [@ EXCEPT !.replicas = MaxReplicas + 1, !.manual = TRUE]]
    /\ UNCHANGED <<configMap, ready, omitted, caches, priority, legacy, reconcile, faults>>

\* The watch delivers the ConfigMap, or the nodes of a pool, to the client's cache.
ConfigMapSync ==
    /\ seenMap' = configMap
    /\ UNCHANGED <<cluster, seenReady, deployments, priority, legacy, reconcile, faults>>

NodeSync(p) ==
    /\ seenReady' = [seenReady EXCEPT ![p] = ready[p]]
    /\ UNCHANGED <<cluster, seenMap, deployments, priority, legacy, reconcile, faults>>

\* A restart of the controller: it keeps nothing in memory between reconciles.
Restart ==
    /\ Fault
    /\ phase # "idle"
    /\ phase' = "idle" /\ loaded' = NoPools /\ todo' = {} /\ pool' = Absent /\ listed' = 0
    /\ UNCHANGED <<cluster, caches, deployments, priority, legacy>>

Next ==
    \/ Start
    \/ StartFails
    \/ \E p \in Pools : ListNodes(p) \/ ListNodesFails(p)
    \/ ApplyDeployment
    \/ ApplyFails
    \/ CleanupLegacyPods
    \/ CleanupStaleDeployments
    \/ \E cm \in ConfigMaps \cup {Absent} : EditConfigMap(cm)
    \/ \E p \in Pools : NodesChange(p) \/ Drift(p) \/ NodeSync(p)
    \/ ConfigMapSync
    \/ Restart

Spec == Init /\ [][Next]_vars

\* A reconcile follows every event, every error (with backoff) and every resyncInterval, a
\* running one goes on, and the watches deliver.
FairSpec ==
    /\ Spec
    /\ WF_vars(Start)
    /\ WF_vars(\E p \in Pools : ListNodes(p))
    /\ WF_vars(ApplyDeployment)
    /\ WF_vars(CleanupLegacyPods)
    /\ WF_vars(CleanupStaleDeployments)
    /\ WF_vars(ConfigMapSync)
    /\ \A p \in Pools : WF_vars(NodeSync(p))

-----------------------------------------------------------------------------
(* Properties *)

\* The type of every variable.  In it, by the type of a Deployment, what the controller wrote is
\* within the cap; only a manual scale since then exceeds it.
TypeOK ==
    /\ configMap \in ConfigMaps \cup {Absent}
    /\ ready \in [Pools -> 0..MaxReady]
    /\ seenMap \in ConfigMaps \cup {Absent}
    /\ seenReady \in [Pools -> 0..MaxReady]
    /\ deployments \in [Pools -> Deployment \cup {Absent}]
    /\ priority \in BOOLEAN /\ legacy \in BOOLEAN
    /\ phase \in {"idle", "pools", "apply", "stale"}
    /\ DOMAIN loaded \subseteq Pools /\ todo \subseteq DOMAIN loaded
    /\ phase \notin {"pools", "apply"} => todo = {}
    /\ IF phase = "apply" THEN pool \in DOMAIN loaded ELSE pool = Absent
    /\ listed \in 0..MaxReady
    /\ omitted \subseteq Pools
    /\ changes \in 0..MaxChanges /\ faults \in 0..MaxFaults

\* The reference for the size of a pool's buffer with n ready nodes: k pods of the configured
\* size hold the configured share of every buffered resource, and the floor, unless the cap
\* stops them; and k is at most one pod more than that takes.
Sized(p, policy, n, k) ==
    LET holds(j) ==
            /\ j >= policy.minPods
            /\ \A res \in Resources :
                  Buffered(policy, res) => j * 100 * policy.pod[res] >= Buffer(p, policy, n, res)
    IN  /\ k \in 0..MaxReplicas
        /\ holds(k) \/ k = MaxReplicas
        /\ k <= policy.minPods \/ k <= 1 \/ ~holds(k - 2)

\* The controller's job, done: the PriorityClass exists, no bare pods are left, every configured
\* pool has a Deployment of the configured shape and a right size, and no other pool has one.
Settled ==
    /\ priority
    /\ ~legacy
    /\ \A p \in Pools :
          IF p \in DOMAIN PoolsOf(configMap)
          THEN /\ deployments[p] # Absent
               /\ deployments[p].policy = PoolsOf(configMap)[p]
               /\ deployments[p].gpu <=> /\ PoolsOf(configMap)[p].pod["gpu"] > 0
                                         /\ ready[p] > 0 /\ Alloc[p]["gpu"] > 0
               /\ Sized(p, PoolsOf(configMap)[p], ready[p], deployments[p].replicas)
          ELSE deployments[p] = Absent

\* "A YAML typo must NOT read as 'no pools configured'" (parseHeadroomConfig): no Deployment is
\* garbage-collected unless some policy that could be read, or the removal of the ConfigMap,
\* left its pool out, whatever else changes or fails while the reconcile runs.
BrokenPolicyKeepsBuffer ==
    [][\A p \in Pools :
          deployments[p] # Absent /\ deployments'[p] = Absent => p \in omitted]_vars

\* The controller works from what is: its caches have caught up, and the policy and the nodes
\* that a running reconcile has read are still the ones of the cluster.
Current ==
    /\ seenMap = configMap /\ seenReady = ready
    /\ phase # "idle" => loaded = PoolsOf(configMap)
    /\ phase = "apply" => listed = ready[pool]

\* Once the cluster is settled and no stale read is in flight, no reconcile unsettles it: not one
\* whose rounding differs, not one that fails half way, and not the restart that ends it.  A
\* reconcile that listed the nodes before they changed may still unsettle it, which is why the
\* property asks for Current; BufferConverges says that a later reconcile repairs that.
SettledStays ==
    [][Settled /\ Current /\ changes' = changes => (Settled /\ Current)']_vars

\* Once the policy and the nodes stop changing and API calls stop failing, the cluster settles,
\* and stays settled, unless the policy cannot be read: the error of one pool, of one delete or
\* of the PriorityClass is made good by a later reconcile, and none undoes another's work.
BufferConverges == <>[](Unreadable(configMap) \/ Settled)
=============================================================================
