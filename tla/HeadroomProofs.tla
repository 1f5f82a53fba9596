--------------------------- MODULE HeadroomProofs ---------------------------
(***************************************************************************)
(* Proofs about Headroom, for every set of pools, every ConfigMap content, *)
(* every node size and every cap and bound.                                *)
(***************************************************************************)
EXTENDS Headroom, WellFoundedInduction, TLAPS

-----------------------------------------------------------------------------
(* Arithmetic and the operators of the model *)

\* A non-empty set of naturals has a minimum, so that FirstYielding picks a key that yields.
LEMMA MinIsElement ==
  ASSUME NEW T \in SUBSET Nat, T # {}
  PROVE  Min(T) \in T
<1>. DEFINE less == {ss \in Nat \X Nat : ss[1] < ss[2]}
<1>1. IsWellFoundedOn(less, Nat)
  BY NatLessThanWellFounded, Zenon DEF OpToRel
<1>2. PICK x \in T : \A y \in T : ~(<<y, x>> \in less)
  <2>. HIDE DEF less
  <2>. QED BY <1>1, WFMin, Zenon
<1>3. \A y \in T : ~(y < x)
  BY <1>2
<1>4. \A y \in T : x <= y
  BY <1>3
<1>. QED BY <1>4, Zenon DEF Min

\* The maximum over the three resources and the floor is one of them and bounds them all.
LEMMA MaxOfFour ==
  ASSUME NEW a \in Nat, NEW b \in Nat, NEW c \in Nat, NEW d \in Nat
  PROVE  LET m == Max({a, b, c, d})
         IN  m \in {a, b, c, d} /\ m >= a /\ m >= b /\ m >= c /\ m >= d
<1>. DEFINE S == {a, b, c, d}
<1>1. \E x \in S : \A y \in S : x >= y
  <2>1. CASE a >= b /\ a >= c /\ a >= d BY <2>1
  <2>2. CASE b >= a /\ b >= c /\ b >= d BY <2>2
  <2>3. CASE c >= a /\ c >= b /\ c >= d BY <2>3
  <2>4. CASE d >= a /\ d >= b /\ d >= c BY <2>4
  <2>. QED BY <2>1, <2>2, <2>3, <2>4
<1>2. Max(S) \in S /\ \A y \in S : Max(S) >= y
  BY <1>1, Zenon DEF Max
<1>. QED BY <1>2

\* The rounded-up quotient covers the buffer, and one pod less does not.
LEMMA CeilingBounds ==
  ASSUME NEW b \in Nat, NEW s \in Nat \ {0}
  PROVE  LET q == (b + s - 1) \div s
         IN  q \in Nat /\ q * s >= b /\ (q - 1) * s < b
<1>. DEFINE q == (b + s - 1) \div s
<1>1. q \in Int
  OBVIOUS
<1>2. b + s - 1 = s * q + ((b + s - 1) % s) /\ (b + s - 1) % s \in 0..(s - 1)
  OBVIOUS
<1>3. q * s <= b + s - 1 /\ q * s > b - 1
  BY <1>1, <1>2
<1>4. q * s >= b /\ (q - 1) * s < b
  BY <1>1, <1>3
<1>5. q >= 0
  BY <1>1, <1>4
<1>. QED BY <1>1, <1>4, <1>5

\* More pods hold at least as much.
LEMMA MorePodsHoldMore ==
  ASSUME NEW a \in Int, NEW b \in Int, a <= b, NEW s \in Nat
  PROVE  a * s <= b * s
OBVIOUS

\* What ceilDiv returns: within the cap; enough for the buffer unless capped; and when it is
\* not zero, two pods less are not enough.
LEMMA CeilDivBounds ==
  ASSUME NEW b \in Nat, NEW s \in Nat \ {0}, NEW x \in CeilDiv(b, s)
  PROVE  /\ x \in 0..MaxReplicas
         /\ x = MaxReplicas \/ x * s >= b
         /\ x = 0 \/ (x - 2) * s < b
<1>. DEFINE q == (b + s - 1) \div s
<1>1. q \in Nat /\ q * s >= b /\ (q - 1) * s < b
  BY CeilingBounds
<1>. HIDE DEF q
<1>2. MaxReplicas \in Nat
  BY HeadroomAssumption
<1>3. CASE b <= 0
  <2>1. x = 0 /\ b = 0
    BY <1>3 DEF CeilDiv
  <2>. QED BY <2>1, <1>2
<1>4. CASE b > 0
  <2>1. PICK y \in Ceilings(b, s) : x = AtMost(y, MaxReplicas)
    BY <1>4 DEF CeilDiv
  <2>2. y = q \/ y = q + 1
    BY DEF Ceilings, q
  <2>3. x \in 0..MaxReplicas /\ (x = MaxReplicas \/ x >= q) /\ x - 2 <= q - 1
    BY <2>1, <2>2, <1>1, <1>2 DEF AtMost
  <2>4. x >= q => q * s <= x * s
    BY <2>3, <1>1, MorePodsHoldMore
  <2>5. (x - 2) * s <= (q - 1) * s
    BY <2>3, <1>1, MorePodsHoldMore
  <2>6. x = MaxReplicas \/ x * s >= b
    BY <2>3, <2>4, <1>1, <1>2
  <2>7. (x - 2) * s < b
    BY <2>3, <2>5, <1>1, <1>2
  <2>. QED BY <2>3, <2>6, <2>7
<1>. QED BY <1>3, <1>4

\* The fields of a policy.
LEMMA PolicyFields ==
  ASSUME NEW policy \in Policy, NEW res \in Resources
  PROVE  policy.pct[res] \in 0..100 /\ policy.pod[res] \in Nat /\ policy.minPods \in Nat
BY DEF Policy

\* What one resource asks for, in the terms of Sized.
LEMMA NeededBounds ==
  ASSUME NEW p \in Pools, NEW policy \in Policy, NEW n \in Nat, NEW res \in Resources,
         NEW x \in Needed(p, policy, n, res)
  PROVE  /\ x \in 0..MaxReplicas
         /\ \/ x = MaxReplicas
            \/ Buffered(policy, res) => x * 100 * policy.pod[res] >= Buffer(p, policy, n, res)
         /\ \/ x = 0
            \/ /\ Buffered(policy, res)
               /\ (x - 2) * 100 * policy.pod[res] < Buffer(p, policy, n, res)
<1>. DEFINE pod == policy.pod[res]
            buffer == Buffer(p, policy, n, res)
<1>1. policy.pct[res] \in Nat /\ pod \in Nat
  BY PolicyFields
<1>2. Alloc[p][res] \in Nat /\ MaxReplicas \in Nat
  BY HeadroomAssumption
<1>3. buffer \in Nat
  <2>1. n * Alloc[p][res] \in Nat
    BY <1>2
  <2>. QED BY <2>1, <1>1 DEF Buffer
<1>4. n = 0 => buffer = 0
  BY <1>1, <1>2 DEF Buffer
<1>5. CASE n > 0 /\ Buffered(policy, res)
  <2>1. x \in CeilDiv(buffer, 100 * pod)
    BY <1>5 DEF Needed
  <2>2. 100 * pod \in Nat \ {0}
    BY <1>5, <1>1 DEF Buffered
  <2>. HIDE DEF buffer
  <2>3. /\ x \in 0..MaxReplicas
        /\ x = MaxReplicas \/ x * (100 * pod) >= buffer
        /\ x = 0 \/ (x - 2) * (100 * pod) < buffer
    BY <2>1, <2>2, <1>3, CeilDivBounds
  <2>. HIDE DEF pod
  <2>4. x * (100 * pod) = x * 100 * pod /\ (x - 2) * (100 * pod) = (x - 2) * 100 * pod
    BY <2>3, <1>1, <1>2
  <2>5. /\ x \in 0..MaxReplicas
        /\ x = MaxReplicas \/ x * 100 * pod >= buffer
        /\ x = 0 \/ (x - 2) * 100 * pod < buffer
    BY <2>3, <2>4
  <2>. QED BY <2>5, <1>5 DEF buffer, pod
<1>6. CASE ~(n > 0 /\ Buffered(policy, res))
  <2>1. x = 0
    BY <1>6 DEF Needed
  <2>2. Buffered(policy, res) => buffer = 0
    BY <1>6, <1>4
  <2>3. 0 * 100 * pod = 0
    BY <1>1
  <2>. QED BY <2>1, <2>2, <2>3, <1>2
<1>. QED BY <1>5, <1>6
-----------------------------------------------------------------------------
(* Sizing *)

\* Every size that desiredReplicas can return is a right one, by the reference Sized: enough
\* pods for every buffered resource and for the floor unless the cap stops them, and at most
\* one pod too many, for all policies, node counts and node sizes.
THEOREM SizesAreRight ==
  ASSUME NEW p \in Pools, NEW policy \in Policy, NEW n \in Nat,
         NEW k \in DesiredReplicas(p, policy, n)
  PROVE  Sized(p, policy, n, k)
<1>. DEFINE Holds(j) ==
              /\ j >= policy.minPods
              /\ \A res \in Resources :
                    Buffered(policy, res) => j * 100 * policy.pod[res] >= Buffer(p, policy, n, res)
            Enough(j, res) ==
              Buffered(policy, res) => j * 100 * policy.pod[res] >= Buffer(p, policy, n, res)
            Short(j, res) ==
              Buffered(policy, res) /\ j * 100 * policy.pod[res] < Buffer(p, policy, n, res)
<1>1. PICK c \in Needed(p, policy, n, "cpu"), m \in Needed(p, policy, n, "memory"),
           g \in Needed(p, policy, n, "gpu") :
           k = AtMost(Max({c, m, g, policy.minPods}), MaxReplicas)
  <2>. DEFINE Size(c, m, g) == AtMost(Max({c, m, g, policy.minPods}), MaxReplicas)
  <2>1. k \in {Size(c, m, g) : c \in Needed(p, policy, n, "cpu"),
                               m \in Needed(p, policy, n, "memory"),
                               g \in Needed(p, policy, n, "gpu")}
    BY SMT DEF DesiredReplicas, AtMost
  <2>. HIDE DEF Size
  <2>2. \E c \in Needed(p, policy, n, "cpu"), m \in Needed(p, policy, n, "memory"),
           g \in Needed(p, policy, n, "gpu") : k = Size(c, m, g)
    BY <2>1, SMT
  <2>. QED BY <2>2, Zenon DEF Size
<1>2. MaxReplicas \in Nat
  BY HeadroomAssumption
<1>3. policy.minPods \in Nat
  BY PolicyFields DEF Resources
<1>4. /\ c \in 0..MaxReplicas /\ (c = MaxReplicas \/ Enough(c, "cpu"))
      /\ c = 0 \/ Short(c - 2, "cpu")
  BY NeededBounds DEF Resources
<1>5. /\ m \in 0..MaxReplicas /\ (m = MaxReplicas \/ Enough(m, "memory"))
      /\ m = 0 \/ Short(m - 2, "memory")
  BY NeededBounds DEF Resources
<1>6. /\ g \in 0..MaxReplicas /\ (g = MaxReplicas \/ Enough(g, "gpu"))
      /\ g = 0 \/ Short(g - 2, "gpu")
  BY NeededBounds DEF Resources
<1>. DEFINE top == Max({c, m, g, policy.minPods})
<1>7. /\ top \in {c, m, g, policy.minPods}
      /\ top >= c /\ top >= m /\ top >= g /\ top >= policy.minPods
  BY <1>2, <1>3, <1>4, <1>5, <1>6, MaxOfFour
<1>. HIDE DEF top
<1>8. top \in Nat
  BY <1>2, <1>3, <1>4, <1>5, <1>6, <1>7
<1>9. k = AtMost(top, MaxReplicas)
  BY <1>1 DEF top
<1>10. k \in 0..MaxReplicas /\ k <= top /\ (k = MaxReplicas \/ k = top)
  BY <1>2, <1>8, <1>9 DEF AtMost
\* Pods that are enough stay enough when there are more of them, and short when fewer.
<1>11. \A res \in Resources : \A i, j \in Int :
          i <= j => (Enough(i, res) => Enough(j, res)) /\ (Short(j, res) => Short(i, res))
  <2>. SUFFICES ASSUME NEW res \in Resources, NEW i \in Int, NEW j \in Int, i <= j
                PROVE  (Enough(i, res) => Enough(j, res)) /\ (Short(j, res) => Short(i, res))
    OBVIOUS
  <2>. DEFINE pod == policy.pod[res]
              buffer == Buffer(p, policy, n, res)
  <2>1. pod \in Nat /\ policy.pct[res] \in Nat
    BY PolicyFields
  <2>2. buffer \in Nat
    <3>1. Alloc[p][res] \in Nat
      BY HeadroomAssumption
    <3>2. n * Alloc[p][res] \in Nat
      BY <3>1
    <3>. QED BY <3>2, <2>1 DEF Buffer
  <2>. HIDE DEF pod, buffer
  <2>3. i * 100 <= j * 100
    OBVIOUS
  <2>4. i * 100 * pod <= j * 100 * pod
    BY <2>1, <2>3, MorePodsHoldMore
  <2>5. i * 100 * pod \in Int /\ j * 100 * pod \in Int
    BY <2>1
  <2>6. /\ i * 100 * pod >= buffer => j * 100 * pod >= buffer
        /\ j * 100 * pod < buffer => i * 100 * pod < buffer
    BY <2>2, <2>4, <2>5
  <2>. QED BY <2>6 DEF pod, buffer
<1>12. \A res \in Resources : \A j \in Int : ~(Short(j, res) /\ Enough(j, res))
  <2>. SUFFICES ASSUME NEW res \in Resources, NEW j \in Int,
                       Short(j, res), Enough(j, res)
                PROVE  FALSE
    OBVIOUS
  <2>. DEFINE held == j * 100 * policy.pod[res]
              buffer == Buffer(p, policy, n, res)
  <2>1. policy.pod[res] \in Nat /\ policy.pct[res] \in Nat
    BY PolicyFields
  <2>2. Alloc[p][res] \in Nat
    BY HeadroomAssumption
  <2>3. held \in Int
    BY <2>1
  <2>4. buffer \in Int
    BY <2>1, <2>2 DEF Buffer
  <2>5. held >= buffer /\ held < buffer
    OBVIOUS
  <2>. HIDE DEF held, buffer
  <2>. QED BY <2>3, <2>4, <2>5
<1>13. \A j : Holds(j) <=> j >= policy.minPods /\ \A res \in Resources : Enough(j, res)
  OBVIOUS
<1>. HIDE DEF Holds, Enough, Short
<1>14. Holds(k) \/ k = MaxReplicas
  <2>. SUFFICES ASSUME k # MaxReplicas PROVE Holds(k)
    OBVIOUS
  <2>1. /\ k = top /\ k < MaxReplicas /\ k \in Int
        /\ c \in Int /\ m \in Int /\ g \in Int /\ c <= k /\ m <= k /\ g <= k
        /\ c # MaxReplicas /\ m # MaxReplicas /\ g # MaxReplicas
    BY <1>2, <1>4, <1>5, <1>6, <1>7, <1>8, <1>10
  <2>2. Enough(c, "cpu") /\ Enough(m, "memory") /\ Enough(g, "gpu")
    BY <2>1, <1>4, <1>5, <1>6
  <2>3. Enough(k, "cpu") /\ Enough(k, "memory") /\ Enough(k, "gpu")
    BY <2>1, <2>2, <1>11 DEF Resources
  <2>4. k >= policy.minPods
    BY <2>1, <1>7
  <2>. QED BY <2>3, <2>4, <1>13 DEF Resources
<1>15. k <= policy.minPods \/ k <= 1 \/ ~Holds(k - 2)
  <2>. SUFFICES ASSUME k > policy.minPods PROVE ~Holds(k - 2)
    BY <1>3, <1>10
  <2>1. top \in {c, m, g} /\ top > 0 /\ k - 2 <= top - 2 /\ k - 2 \in Int /\ top - 2 \in Int
    BY <1>2, <1>3, <1>7, <1>8, <1>10
  <2>2. PICK res \in Resources : Short(top - 2, res)
    BY <2>1, <1>4, <1>5, <1>6 DEF Resources
  <2>3. Short(k - 2, res)
    BY <2>1, <2>2, <1>11
  <2>4. ~Enough(k - 2, res)
    BY <2>1, <2>3, <1>12
  <2>. QED BY <2>4, <1>13
<1>. QED BY <1>10, <1>14, <1>15 DEF Sized, Holds
\* The Deployments that reconcilePool may write are Deployments of the configured shape and of
\* a right size.
LEMMA WrittenDeployment ==
  ASSUME NEW p \in Pools, NEW policy \in Policy, NEW n \in Nat,
         NEW d \in DeploymentsFor(p, policy, n)
  PROVE  /\ d \in Deployment /\ d # Absent
         /\ d.policy = policy /\ d.gpu = RequestsGPU(p, policy, n)
         /\ Sized(p, policy, n, d.replicas)
<1>1. PICK k \in DesiredReplicas(p, policy, n) :
           d = [replicas |-> k, gpu |-> RequestsGPU(p, policy, n), policy |-> policy,
                manual |-> FALSE]
  BY DEF DeploymentsFor
<1>2. Sized(p, policy, n, k)
  BY SizesAreRight
<1>3. k \in 0..MaxReplicas
  BY <1>2 DEF Sized
<1>4. RequestsGPU(p, policy, n) \in BOOLEAN
  BY DEF RequestsGPU
<1>5. d \in Deployment
  BY <1>1, <1>3, <1>4 DEF Deployment
<1>6. d # Absent
  BY <1>5, HeadroomAssumption
<1>. QED BY <1>1, <1>2, <1>5, <1>6

\* A Deployment scaled by hand is still one.
LEMMA ScaledDeployment ==
  ASSUME NEW d \in Deployment
  PROVE  /\ [d EXCEPT !.replicas = MaxReplicas + 1, !.manual = TRUE] \in Deployment
         /\ [d EXCEPT !.replicas = MaxReplicas + 1, !.manual = TRUE] # Absent
<1>1. [d EXCEPT !.replicas = MaxReplicas + 1, !.manual = TRUE] \in Deployment
  BY DEF Deployment
<1>. QED BY <1>1, HeadroomAssumption

-----------------------------------------------------------------------------
(* The policy a reconcile works from *)

\* loadPools yields policies, for pools.
LEMMA PoolsArePolicies ==
  ASSUME NEW cm \in ConfigMaps \cup {Absent}
  PROVE  /\ DOMAIN PoolsOf(cm) \subseteq Pools
         /\ \A p \in DOMAIN PoolsOf(cm) : PoolsOf(cm)[p] \in Policy
<1>1. CASE cm # Absent /\ \E i \in DOMAIN cm : Yields(cm[i])
  <2>. DEFINE T == {i \in DOMAIN cm : Yields(cm[i])}
  <2>1. T \in SUBSET Nat /\ T # {}
    BY <1>1, HeadroomAssumption
  <2>2. Min(T) \in T
    BY <2>1, MinIsElement
  <2>. DEFINE i == Min(T)
  <2>3. i \in DOMAIN cm /\ cm[i].ok
    BY <2>2 DEF Yields
  <2>4. PoolsOf(cm) = cm[i].pools
    BY <1>1 DEF PoolsOf, FirstYielding
  <2>. HIDE DEF i
  <2>. QED BY <1>1, <2>3, <2>4, HeadroomAssumption
<1>2. CASE ~(cm # Absent /\ \E i \in DOMAIN cm : Yields(cm[i]))
  <2>1. PoolsOf(cm) = NoPools
    BY <1>2 DEF PoolsOf
  <2>. QED BY <2>1 DEF NoPools
<1>. QED BY <1>1, <1>2

\* The empty policy of an idle controller.
LEMMA NoPoolsIsEmpty == DOMAIN NoPools = {}
BY DEF NoPools

\* The inductive invariant.  A reconcile loads its policy from a cache and goes on with it
\* however the ConfigMap changes, so that what it may delete has to be remembered with it: the
\* pools that the cached ConfigMap leaves out, and the ones a running reconcile did not load, are
\* ones that some readable ConfigMap left out.
ReconcileInv ==
  /\ TypeOK
  /\ \A p \in DOMAIN loaded : loaded[p] \in Policy
  /\ LeftOut(configMap) \subseteq omitted
  /\ LeftOut(seenMap) \subseteq omitted
  /\ phase # "idle" => Pools \ DOMAIN loaded \subseteq omitted

\* The bounds of the model.
LEMMA Bounds == MaxReplicas \in Nat /\ MaxReady \in Nat /\ MaxChanges \in Nat /\ MaxFaults \in Nat
BY HeadroomAssumption

\* Only pools are left out.
LEMMA LeftOutArePools == \A cm : LeftOut(cm) \subseteq Pools
BY DEF LeftOut

\* A fault counts within its bound.
LEMMA FaultBound ==
  ASSUME TypeOK, Fault \/ Works
  PROVE  faults' \in 0..MaxFaults
BY Bounds DEF TypeOK, Fault, Works

\* A change of the cluster counts within its bound, and is always seen in the count.
LEMMA ChangeBound ==
  ASSUME TypeOK, Change
  PROVE  changes' \in 0..MaxChanges /\ changes' # changes
BY Bounds DEF TypeOK, Change

\* The invariant holds at the start.
LEMMA InitReconcile == Init => ReconcileInv
<1>. SUFFICES ASSUME Init PROVE ReconcileInv
  OBVIOUS
<1>1. TypeOK
  BY Bounds, NoPoolsIsEmpty, LeftOutArePools DEF Init, TypeOK
<1>. QED BY <1>1, NoPoolsIsEmpty DEF Init, ReconcileInv

\* What the invariant says of the cluster and the caches holds after a step of the controller.
LEMMA ClusterFrame ==
  ASSUME ReconcileInv, UNCHANGED <<cluster, caches>>
  PROVE  /\ configMap' \in ConfigMaps \cup {Absent} /\ seenMap' \in ConfigMaps \cup {Absent}
         /\ ready' \in [Pools -> 0..MaxReady] /\ seenReady' \in [Pools -> 0..MaxReady]
         /\ omitted' \subseteq Pools /\ changes' \in 0..MaxChanges
         /\ (LeftOut(configMap) \subseteq omitted)' /\ (LeftOut(seenMap) \subseteq omitted)'
<1>1. UNCHANGED <<configMap, ready, omitted, changes, seenMap, seenReady>>
  BY DEF cluster, caches
<1>2. LeftOut(configMap)' = LeftOut(configMap) /\ LeftOut(seenMap)' = LeftOut(seenMap)
  BY <1>1 DEF LeftOut, Unreadable, PoolsOf, FirstYielding, Failing
<1>. QED BY <1>1, <1>2 DEF ReconcileInv, TypeOK

\* What the invariant says of the Deployments, the PriorityClass, the old pods and the running
\* reconcile holds after a step of the cluster or of a watch.
LEMMA ReconcileFrame ==
  ASSUME ReconcileInv, UNCHANGED <<priority, legacy, reconcile, faults>>, omitted \subseteq omitted'
  PROVE  /\ priority' \in BOOLEAN /\ legacy' \in BOOLEAN
         /\ phase' \in {"idle", "pools", "apply", "stale"}
         /\ (DOMAIN loaded)' \subseteq Pools /\ todo' \subseteq (DOMAIN loaded)'
         /\ phase' \notin {"pools", "apply"} => todo' = {}
         /\ IF phase' = "apply" THEN pool' \in (DOMAIN loaded)' ELSE pool' = Absent
         /\ listed' \in 0..MaxReady /\ faults' \in 0..MaxFaults
         /\ \A p \in (DOMAIN loaded)' : loaded'[p] \in Policy
         /\ phase' # "idle" => Pools \ (DOMAIN loaded)' \subseteq omitted'
BY DEF ReconcileInv, TypeOK, reconcile

\* Every step keeps the invariant.
LEMMA NextReconcile == ReconcileInv /\ [Next]_vars => ReconcileInv'
<1>. SUFFICES ASSUME ReconcileInv, [Next]_vars PROVE ReconcileInv'
  OBVIOUS
<1>0. TypeOK
  BY DEF ReconcileInv
<1>1. CASE Start
  <2>1. /\ UNCHANGED <<cluster, caches>> /\ UNCHANGED <<deployments, legacy, pool, listed>>
        /\ priority' \in BOOLEAN /\ phase = "idle"
    BY <1>1 DEF Start, EnsurePriorityClass, ReconcileInv, TypeOK
  <2>2. faults' \in 0..MaxFaults
    BY <1>0, <1>1, FaultBound DEF Start, EnsurePriorityClass
  <2>3. CASE Unreadable(seenMap)
    <3>1. UNCHANGED <<phase, loaded, todo>>
      BY <1>1, <2>3 DEF Start, LoadPools
    <3>. QED BY <2>1, <2>2, <3>1, ClusterFrame DEF ReconcileInv, TypeOK
  <2>4. CASE ~Unreadable(seenMap)
    <3>1. phase' = "pools" /\ loaded' = PoolsOf(seenMap) /\ todo' = DOMAIN PoolsOf(seenMap)
      BY <1>1, <2>4 DEF Start, LoadPools
    <3>2. /\ DOMAIN PoolsOf(seenMap) \subseteq Pools
          /\ \A p \in DOMAIN PoolsOf(seenMap) : PoolsOf(seenMap)[p] \in Policy
      BY PoolsArePolicies DEF ReconcileInv, TypeOK
    <3>3. Pools \ DOMAIN PoolsOf(seenMap) \subseteq omitted /\ omitted' = omitted
      BY <2>1, <2>4 DEF LeftOut, ReconcileInv, cluster
    <3>. QED BY <2>1, <2>2, <3>1, <3>2, <3>3, ClusterFrame DEF ReconcileInv, TypeOK
  <2>. QED BY <2>3, <2>4
<1>2. CASE StartFails
  <2>1. /\ UNCHANGED <<cluster, caches>> /\ UNCHANGED <<deployments, legacy, reconcile, omitted>>
        /\ priority' \in BOOLEAN
    BY <1>2 DEF StartFails, ReconcileInv, TypeOK, cluster
  <2>2. faults' \in 0..MaxFaults
    BY <1>0, <1>2, FaultBound DEF StartFails
  <2>. QED BY <2>1, <2>2, ClusterFrame DEF ReconcileInv, TypeOK, reconcile
<1>3. ASSUME NEW p \in Pools, ListNodes(p)
      PROVE  ReconcileInv'
  <2>1. /\ UNCHANGED <<cluster, caches>>
        /\ UNCHANGED <<deployments, priority, legacy, loaded, faults, omitted>>
        /\ phase = "pools" /\ p \in todo /\ todo' = todo \ {p}
        /\ phase' = "apply" /\ pool' = p /\ listed' = seenReady[p]
    BY <1>3 DEF ListNodes, cluster
  <2>. QED BY <2>1, ClusterFrame DEF ReconcileInv, TypeOK
<1>4. ASSUME NEW p \in Pools, ListNodesFails(p)
      PROVE  ReconcileInv'
  <2>1. /\ UNCHANGED <<cluster, caches>>
        /\ UNCHANGED <<deployments, priority, legacy, phase, loaded, pool, listed, omitted>>
        /\ phase = "pools" /\ todo' = todo \ {p}
    BY <1>4 DEF ListNodesFails, cluster
  <2>2. faults' \in 0..MaxFaults
    BY <1>0, <1>4, FaultBound DEF ListNodesFails
  <2>. QED BY <2>1, <2>2, ClusterFrame DEF ReconcileInv, TypeOK
<1>5. CASE ApplyDeployment
  <2>1. /\ UNCHANGED <<cluster, caches>>
        /\ UNCHANGED <<priority, legacy, loaded, todo, faults, omitted>>
        /\ phase = "apply" /\ phase' = "pools" /\ pool' = Absent /\ listed' = 0
    BY <1>5 DEF ApplyDeployment, PoolDone, cluster
  <2>2. PICK d \in DeploymentsFor(pool, loaded[pool], listed) :
             deployments' = [deployments EXCEPT ![pool] = d]
    BY <1>5 DEF ApplyDeployment
  <2>3. pool \in Pools /\ loaded[pool] \in Policy /\ listed \in Nat
    BY <2>1, Bounds DEF ReconcileInv, TypeOK
  <2>4. d \in Deployment
    BY <2>2, <2>3, WrittenDeployment
  <2>5. deployments' \in [Pools -> Deployment \cup {Absent}]
    BY <2>2, <2>4 DEF ReconcileInv, TypeOK
  <2>6. 0 \in 0..MaxReady
    BY Bounds
  <2>. QED BY <2>1, <2>5, <2>6, ClusterFrame DEF ReconcileInv, TypeOK
<1>6. CASE ApplyFails
  <2>1. /\ UNCHANGED <<cluster, caches>>
        /\ UNCHANGED <<deployments, priority, legacy, loaded, todo, omitted>>
        /\ phase = "apply" /\ phase' = "pools" /\ pool' = Absent /\ listed' = 0
    BY <1>6 DEF ApplyFails, PoolDone, cluster
  <2>2. faults' \in 0..MaxFaults
    BY <1>0, <1>6, FaultBound DEF ApplyFails
  <2>3. 0 \in 0..MaxReady
    BY Bounds
  <2>. QED BY <2>1, <2>2, <2>3, ClusterFrame DEF ReconcileInv, TypeOK
<1>7. CASE CleanupLegacyPods
  <2>1. /\ UNCHANGED <<cluster, caches>>
        /\ UNCHANGED <<deployments, priority, loaded, todo, pool, listed, omitted>>
        /\ phase = "pools" /\ todo = {} /\ phase' = "stale" /\ legacy' \in BOOLEAN
    BY <1>7 DEF CleanupLegacyPods, cluster, ReconcileInv, TypeOK
  <2>2. faults' \in 0..MaxFaults
    BY <1>0, <1>7, FaultBound DEF CleanupLegacyPods
  <2>. QED BY <2>1, <2>2, ClusterFrame DEF ReconcileInv, TypeOK
<1>8. CASE CleanupStaleDeployments
  <2>1. /\ UNCHANGED <<cluster, caches>> /\ UNCHANGED <<priority, legacy, todo, pool, listed>>
        /\ phase = "stale" /\ phase' = "idle" /\ loaded' = NoPools
    BY <1>8 DEF CleanupStaleDeployments
  <2>2. PICK gone \in SUBSET Stale :
             /\ IF gone = Stale THEN Works ELSE Fault
             /\ deployments' = [p \in Pools |-> IF p \in gone THEN Absent ELSE deployments[p]]
    BY <1>8 DEF CleanupStaleDeployments
  <2>3. faults' \in 0..MaxFaults
    BY <1>0, <2>2, FaultBound
  <2>4. deployments' \in [Pools -> Deployment \cup {Absent}]
    BY <2>2 DEF ReconcileInv, TypeOK
  <2>. QED BY <2>1, <2>3, <2>4, NoPoolsIsEmpty, ClusterFrame DEF ReconcileInv, TypeOK
<1>9. ASSUME NEW cm \in ConfigMaps \cup {Absent}, EditConfigMap(cm)
      PROVE  ReconcileInv'
  <2>1. /\ UNCHANGED <<ready, deployments, seenMap, seenReady>>
        /\ UNCHANGED <<priority, legacy, reconcile, faults>>
        /\ configMap' = cm /\ omitted' = omitted \cup LeftOut(cm)
    BY <1>9 DEF EditConfigMap, caches
  <2>2. LeftOut(configMap)' = LeftOut(cm) /\ LeftOut(seenMap)' = LeftOut(seenMap)
    BY <2>1 DEF LeftOut, Unreadable, PoolsOf, FirstYielding, Failing
  <2>3. changes' \in 0..MaxChanges
    BY <1>0, <1>9, ChangeBound DEF EditConfigMap
  <2>. QED BY <2>1, <2>2, <2>3, LeftOutArePools, ReconcileFrame DEF ReconcileInv, TypeOK
<1>10. ASSUME NEW p \in Pools, NodesChange(p)
       PROVE  ReconcileInv'
  <2>1. /\ UNCHANGED <<configMap, omitted, deployments, seenMap, seenReady>>
        /\ UNCHANGED <<priority, legacy, reconcile, faults>>
        /\ ready' \in [Pools -> 0..MaxReady]
    BY <1>10 DEF NodesChange, caches, ReconcileInv, TypeOK
  <2>2. LeftOut(configMap)' = LeftOut(configMap) /\ LeftOut(seenMap)' = LeftOut(seenMap)
    BY <2>1 DEF LeftOut, Unreadable, PoolsOf, FirstYielding, Failing
  <2>3. changes' \in 0..MaxChanges
    BY <1>0, <1>10, ChangeBound DEF NodesChange
  <2>. QED BY <2>1, <2>2, <2>3, ReconcileFrame DEF ReconcileInv, TypeOK
<1>11. ASSUME NEW p \in Pools, Drift(p)
       PROVE  ReconcileInv'
  <2>1. /\ UNCHANGED <<configMap, ready, omitted, seenMap, seenReady>>
        /\ UNCHANGED <<priority, legacy, reconcile, faults>>
        /\ deployments[p] \in Deployment
    BY <1>11 DEF Drift, caches, ReconcileInv, TypeOK
  <2>2. deployments' = [deployments EXCEPT ![p] =
                          [deployments[p] EXCEPT !.replicas = MaxReplicas + 1, !.manual = TRUE]]
    BY <1>11 DEF Drift
  <2>3. deployments' \in [Pools -> Deployment \cup {Absent}]
    BY <2>1, <2>2, ScaledDeployment DEF ReconcileInv, TypeOK
  <2>4. LeftOut(configMap)' = LeftOut(configMap) /\ LeftOut(seenMap)' = LeftOut(seenMap)
    BY <2>1 DEF LeftOut, Unreadable, PoolsOf, FirstYielding, Failing
  <2>5. changes' \in 0..MaxChanges
    BY <1>0, <1>11, ChangeBound DEF Drift
  <2>. QED BY <2>1, <2>3, <2>4, <2>5, ReconcileFrame DEF ReconcileInv, TypeOK
<1>12. CASE ConfigMapSync
  <2>1. /\ UNCHANGED <<configMap, ready, omitted, changes, seenReady, deployments>>
        /\ UNCHANGED <<priority, legacy, reconcile, faults>>
        /\ seenMap' = configMap
    BY <1>12 DEF ConfigMapSync, cluster
  <2>2. LeftOut(configMap)' = LeftOut(configMap) /\ LeftOut(seenMap)' = LeftOut(configMap)
    BY <2>1 DEF LeftOut, Unreadable, PoolsOf, FirstYielding, Failing
  <2>. QED BY <2>1, <2>2, ReconcileFrame DEF ReconcileInv, TypeOK
<1>13. ASSUME NEW p \in Pools, NodeSync(p)
       PROVE  ReconcileInv'
  <2>1. /\ UNCHANGED <<configMap, ready, omitted, changes, seenMap, deployments>>
        /\ UNCHANGED <<priority, legacy, reconcile, faults>>
        /\ seenReady' \in [Pools -> 0..MaxReady]
    BY <1>13 DEF NodeSync, cluster, ReconcileInv, TypeOK
  <2>2. LeftOut(configMap)' = LeftOut(configMap) /\ LeftOut(seenMap)' = LeftOut(seenMap)
    BY <2>1 DEF LeftOut, Unreadable, PoolsOf, FirstYielding, Failing
  <2>. QED BY <2>1, <2>2, ReconcileFrame DEF ReconcileInv, TypeOK
<1>14. CASE Restart
  <2>1. /\ UNCHANGED <<cluster, caches>> /\ UNCHANGED <<deployments, priority, legacy>>
        /\ phase' = "idle" /\ loaded' = NoPools /\ todo' = {} /\ pool' = Absent /\ listed' = 0
    BY <1>14 DEF Restart
  <2>2. faults' \in 0..MaxFaults
    BY <1>0, <1>14, FaultBound DEF Restart
  <2>3. 0 \in 0..MaxReady
    BY Bounds
  <2>. QED BY <2>1, <2>2, <2>3, NoPoolsIsEmpty, ClusterFrame DEF ReconcileInv, TypeOK
<1>15. CASE UNCHANGED vars
  <2>1. /\ UNCHANGED <<cluster, caches>> /\ UNCHANGED <<deployments, omitted>>
        /\ UNCHANGED <<priority, legacy, reconcile, faults>>
    BY <1>15 DEF vars, cluster
  <2>. QED BY <2>1, ClusterFrame, ReconcileFrame DEF ReconcileInv, TypeOK
<1>. QED BY <1>1, <1>2, <1>3, <1>4, <1>5, <1>6, <1>7, <1>8, <1>9, <1>10, <1>11, <1>12, <1>13,
            <1>14, <1>15 DEF Next

\* The invariant is one.
LEMMA ReconcileInvariant == Spec => []ReconcileInv
BY InitReconcile, NextReconcile, PTL DEF Spec

\* Every variable keeps its type: a Deployment that a reconcile writes, from whatever policy,
\* node count and rounding, is within the cap.
THEOREM TypeCorrect == Spec => []TypeOK
<1>1. ReconcileInv => TypeOK
  BY DEF ReconcileInv
<1>. QED BY <1>1, ReconcileInvariant, PTL
-----------------------------------------------------------------------------
(* Garbage collection *)

\* No Deployment is collected unless some readable policy, or the removal of the ConfigMap, has
\* left its pool out: a policy that cannot be read never tears a buffer down.
THEOREM BuffersSurviveBrokenPolicies == Spec => BrokenPolicyKeepsBuffer
<1>1. ReconcileInv /\ [Next]_vars =>
        [\A p \in Pools :
            deployments[p] # Absent /\ deployments'[p] = Absent => p \in omitted]_vars
  <2>. SUFFICES ASSUME ReconcileInv, [Next]_vars, NEW p \in Pools,
                       deployments[p] # Absent, deployments'[p] = Absent
                PROVE  p \in omitted
    BY Zenon
  <2>1. deployments' # deployments
    OBVIOUS
  <2>2. CASE ApplyDeployment
    <3>1. PICK d \in DeploymentsFor(pool, loaded[pool], listed) :
               deployments' = [deployments EXCEPT ![pool] = d]
      BY <2>2 DEF ApplyDeployment
    <3>2. pool \in Pools /\ loaded[pool] \in Policy /\ listed \in Nat
      BY <2>2, Bounds DEF ApplyDeployment, ReconcileInv, TypeOK
    <3>3. d # Absent
      BY <3>1, <3>2, WrittenDeployment
    <3>. QED BY <3>1, <3>3 DEF ReconcileInv, TypeOK
  <2>3. CASE CleanupStaleDeployments
    <3>1. phase # "idle" /\ p \in Stale
      BY <2>3 DEF CleanupStaleDeployments
    <3>. QED BY <3>1 DEF Stale, ReconcileInv
  <2>4. ASSUME NEW q \in Pools, Drift(q)
        PROVE  FALSE
    <3>1. deployments[q] \in Deployment
      BY <2>4 DEF Drift, ReconcileInv, TypeOK
    <3>2. deployments' = [deployments EXCEPT ![q] =
                            [deployments[q] EXCEPT !.replicas = MaxReplicas + 1, !.manual = TRUE]]
      BY <2>4 DEF Drift
    <3>. QED BY <3>1, <3>2, ScaledDeployment DEF ReconcileInv, TypeOK
  <2>5. deployments' = deployments \/ CleanupStaleDeployments \/ ApplyDeployment
          \/ \E q \in Pools : Drift(q)
    BY DEF Next, vars, Start, StartFails, ListNodes, ListNodesFails, ApplyFails,
           CleanupLegacyPods, EditConfigMap, NodesChange, ConfigMapSync, NodeSync, Restart
  <2>. QED BY <2>1, <2>2, <2>3, <2>4, <2>5
<1>. QED BY <1>1, ReconcileInvariant, PTL DEF Spec, BrokenPolicyKeepsBuffer

-----------------------------------------------------------------------------
(* Stability of the settled state *)

\* What Settled asks of one pool's Deployment.
PoolSettled(p, d) ==
  IF p \in DOMAIN PoolsOf(configMap)
  THEN /\ d # Absent
       /\ d.policy = PoolsOf(configMap)[p]
       /\ d.gpu <=> RequestsGPU(p, PoolsOf(configMap)[p], ready[p])
       /\ Sized(p, PoolsOf(configMap)[p], ready[p], d.replicas)
  ELSE d = Absent

\* Settled, pool by pool.
LEMMA SettledByPool ==
  Settled <=> priority /\ ~legacy /\ \A p \in Pools : PoolSettled(p, deployments[p])
BY Zenon DEF Settled, PoolSettled, RequestsGPU

\* A step that changes neither the policy nor the nodes leaves a pool settled when it leaves
\* each pool's Deployment alone, or writes a settled one.
LEMMA StillSettled ==
  ASSUME Settled, priority' = TRUE, legacy' = FALSE, UNCHANGED <<configMap, ready>>,
         \A p \in Pools : PoolSettled(p, deployments'[p])
  PROVE  Settled'
<1>1. PoolsOf(configMap)' = PoolsOf(configMap)
  BY DEF PoolsOf, FirstYielding
<1>2. \A p \in Pools :
         IF p \in DOMAIN PoolsOf(configMap)
         THEN /\ deployments'[p] # Absent
              /\ deployments'[p].policy = PoolsOf(configMap)[p]
              /\ deployments'[p].gpu <=> /\ PoolsOf(configMap)[p].pod["gpu"] > 0
                                         /\ ready'[p] > 0 /\ Alloc[p]["gpu"] > 0
              /\ Sized(p, PoolsOf(configMap)[p], ready'[p], deployments'[p].replicas)
         ELSE deployments'[p] = Absent
  BY Zenon DEF PoolSettled, RequestsGPU
<1>. QED BY <1>1, <1>2 DEF Settled

\* Once settled, and with no stale read in flight, the cluster stays settled through every
\* reconcile, through its failures and through restarts; only a change of the policy, of the
\* nodes or by hand unsettles it.
THEOREM SettledIsStable == Spec => SettledStays
<1>1. ReconcileInv /\ [Next]_vars =>
        [Settled /\ Current /\ changes' = changes => (Settled /\ Current)']_vars
  <2>. SUFFICES ASSUME ReconcileInv, Next, Settled, Current, changes' = changes
                PROVE  Settled' /\ Current'
    BY Zenon
  <2>1. priority = TRUE /\ legacy = FALSE /\ \A p \in Pools : PoolSettled(p, deployments[p])
    BY SettledByPool DEF ReconcileInv, TypeOK
  <2>2. ASSUME UNCHANGED <<configMap, ready, deployments, legacy>>, priority' \in {priority, TRUE}
        PROVE  Settled'
    BY <2>1, <2>2, StillSettled
  <2>3. UNCHANGED configMap => PoolsOf(configMap)' = PoolsOf(configMap)
    BY DEF PoolsOf, FirstYielding
  <2>4. ASSUME UNCHANGED <<cluster, caches>>, phase' = "idle" \/ loaded' = PoolsOf(configMap),
               phase' = "apply" => listed' = ready[pool']
        PROVE  Current'
    BY <2>3, <2>4 DEF Current, cluster, caches
  <2>5. phase # "idle" => loaded = PoolsOf(configMap)
    BY DEF Current
  <2>6. CASE Start
    <3>1. Settled'
      BY <2>2, <2>6 DEF Start, EnsurePriorityClass, cluster
    <3>2. phase' = "idle" \/ loaded' = PoolsOf(configMap)
      BY <2>6 DEF Start, LoadPools, Current
    <3>3. UNCHANGED <<cluster, caches>> /\ phase' # "apply"
      BY <2>6 DEF Start, LoadPools
    <3>. QED BY <2>4, <3>1, <3>2, <3>3
  <2>7. CASE StartFails
    <3>1. Settled'
      BY <2>2, <2>7 DEF StartFails, cluster
    <3>2. UNCHANGED <<cluster, caches>> /\ phase' = "idle"
      BY <2>7 DEF StartFails, reconcile
    <3>. QED BY <2>4, <3>1, <3>2
  <2>8. ASSUME NEW p \in Pools, ListNodes(p)
        PROVE  Settled' /\ Current'
    <3>1. Settled'
      BY <2>2, <2>8 DEF ListNodes, cluster
    <3>2. /\ UNCHANGED <<cluster, caches>> /\ loaded' = PoolsOf(configMap)
          /\ pool' = p /\ listed' = seenReady[p]
      BY <2>5, <2>8 DEF ListNodes
    <3>3. seenReady = ready
      BY DEF Current
    <3>. QED BY <2>4, <3>1, <3>2, <3>3
  <2>9. ASSUME NEW p \in Pools, ListNodesFails(p)
        PROVE  Settled' /\ Current'
    <3>1. Settled'
      BY <2>2, <2>9 DEF ListNodesFails, cluster
    <3>2. UNCHANGED <<cluster, caches>> /\ loaded' = PoolsOf(configMap) /\ phase' = "pools"
      BY <2>5, <2>9 DEF ListNodesFails
    <3>. QED BY <2>4, <3>1, <3>2
  <2>10. CASE ApplyDeployment
    <3>1. /\ UNCHANGED <<cluster, caches>> /\ UNCHANGED <<configMap, ready, priority, legacy>>
          /\ phase = "apply" /\ phase' = "pools" /\ loaded' = loaded
      BY <2>10 DEF ApplyDeployment, PoolDone, cluster
    <3>2. PICK d \in DeploymentsFor(pool, loaded[pool], listed) :
               deployments' = [deployments EXCEPT ![pool] = d]
      BY <2>10 DEF ApplyDeployment
    <3>3. pool \in Pools /\ pool \in DOMAIN loaded /\ loaded[pool] \in Policy /\ listed \in Nat
      BY <3>1, Bounds DEF ReconcileInv, TypeOK
    <3>4. loaded = PoolsOf(configMap) /\ listed = ready[pool]
      BY <3>1 DEF Current
    <3>5. /\ d # Absent /\ d.policy = loaded[pool]
          /\ d.gpu = RequestsGPU(pool, loaded[pool], listed)
          /\ Sized(pool, loaded[pool], listed, d.replicas)
      BY <3>2, <3>3, WrittenDeployment
    <3>6. PoolSettled(pool, d)
      BY <3>3, <3>4, <3>5 DEF PoolSettled
    <3>7. \A q \in Pools : deployments'[q] = IF q = pool THEN d ELSE deployments[q]
      BY <3>2 DEF ReconcileInv, TypeOK
    <3>8. \A q \in Pools : PoolSettled(q, deployments'[q])
      BY <2>1, <3>6, <3>7
    <3>9. Settled'
      BY <2>1, <3>1, <3>8, StillSettled
    <3>. QED BY <2>4, <3>1, <3>4, <3>9
  <2>11. CASE ApplyFails
    <3>1. Settled'
      BY <2>2, <2>11 DEF ApplyFails, cluster
    <3>2. UNCHANGED <<cluster, caches>> /\ loaded' = PoolsOf(configMap) /\ phase' = "pools"
      BY <2>5, <2>11 DEF ApplyFails, PoolDone
    <3>. QED BY <2>4, <3>1, <3>2
  <2>12. CASE CleanupLegacyPods
    <3>1. /\ phase = "pools" /\ phase' = "stale" /\ legacy' = FALSE /\ loaded' = loaded
          /\ UNCHANGED <<cluster, caches>> /\ UNCHANGED <<configMap, ready, deployments, priority>>
      BY <2>1, <2>12 DEF CleanupLegacyPods, cluster
    <3>2. Settled'
      BY <2>1, <2>2, <3>1
    <3>. QED BY <2>4, <2>5, <3>1, <3>2
  <2>13. CASE CleanupStaleDeployments
    <3>1. /\ phase = "stale" /\ phase' = "idle"
          /\ UNCHANGED <<cluster, caches>> /\ UNCHANGED <<configMap, ready, legacy, priority>>
      BY <2>13 DEF CleanupStaleDeployments, cluster
    <3>2. loaded = PoolsOf(configMap)
      BY <2>5, <3>1
    <3>3. Stale = {}
      BY <2>1, <3>2 DEF Stale, PoolSettled
    <3>4. \A p \in Pools : deployments'[p] = deployments[p]
      BY <2>13, <3>3 DEF CleanupStaleDeployments
    <3>5. Settled'
      BY <2>1, <3>1, <3>4, StillSettled
    <3>. QED BY <2>4, <3>1, <3>5
  <2>14. CASE Restart
    <3>1. Settled'
      BY <2>2, <2>14 DEF Restart, cluster
    <3>2. UNCHANGED <<cluster, caches>> /\ phase' = "idle"
      BY <2>14 DEF Restart
    <3>. QED BY <2>4, <3>1, <3>2
  \* The watches have nothing new to deliver.
  <2>15. CASE ConfigMapSync
    <3>1. Settled'
      BY <2>2, <2>15 DEF ConfigMapSync, cluster
    <3>2. UNCHANGED <<cluster, caches>> /\ UNCHANGED <<phase, loaded, pool, listed>>
      BY <2>15 DEF ConfigMapSync, Current, caches, reconcile
    <3>. QED BY <2>4, <2>5, <3>1, <3>2 DEF Current
  <2>16. ASSUME NEW p \in Pools, NodeSync(p)
         PROVE  Settled' /\ Current'
    <3>1. Settled'
      BY <2>2, <2>16 DEF NodeSync, cluster
    <3>2. seenReady' = seenReady
      BY <2>16 DEF NodeSync, Current, ReconcileInv, TypeOK
    <3>3. UNCHANGED <<cluster, caches>> /\ UNCHANGED <<phase, loaded, pool, listed>>
      BY <2>16, <3>2 DEF NodeSync, caches, reconcile
    <3>. QED BY <2>4, <2>5, <3>1, <3>3 DEF Current
  <2>17. ~\E cm \in ConfigMaps \cup {Absent} : EditConfigMap(cm)
    BY ChangeBound DEF EditConfigMap, ReconcileInv
  <2>18. ~\E p \in Pools : NodesChange(p) \/ Drift(p)
    BY ChangeBound DEF NodesChange, Drift, ReconcileInv
  <2>. QED BY <2>6, <2>7, <2>8, <2>9, <2>10, <2>11, <2>12, <2>13, <2>14, <2>15, <2>16, <2>17,
              <2>18 DEF Next
<1>. QED BY <1>1, ReconcileInvariant, PTL DEF Spec, SettledStays
=============================================================================
