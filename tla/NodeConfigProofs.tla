-------------------------- MODULE NodeConfigProofs --------------------------
(***************************************************************************)
(* Theorems about NodeConfig, for every catalog and every bound.  All three *)
(* rest on one fact about a running sync: what it no longer has to apply is *)
(* in the cluster as the rendering it fetched.                              *)
(***************************************************************************)
EXTENDS NodeConfig, TLAPS

\* What the running sync took off its list it has applied, and nothing has overwritten it.
AppliedSoFar ==
    response # None =>
        \A o \in ManifestsOf(response) \ todo : cluster[o] = response

Progress == TypeOK /\ AppliedSoFar /\ ClassResolves

\* The objects of a rendering are objects of the model, and a pool's class is one of them.
LEMMA Manifests ==
    ASSUME NEW r \in Renderings
    PROVE  /\ ManifestsOf(r) \subseteq Objects
           /\ \A p \in Pools : Rows[r][p] # None => Rows[r][p] \in ManifestsOf(r) \cap Classes
BY RowsAssumption DEF ManifestsOf, PoolsOf, ClassesOf, Objects

\* An object's turn comes only in a running sync, and it is one of that sync's manifests.
LEMMA TurnRuns ==
    ASSUME TypeOK, NEW o \in Objects, Turn(o)
    PROVE  response \in Renderings /\ response # None /\ o \in ManifestsOf(response)
BY RowsAssumption DEF TypeOK, Turn

\* A pool whose turn it is finds its class applied: the classes come first.
LEMMA ClassFirst ==
    ASSUME Progress, NEW p \in Pools, Turn(p)
    PROVE  \E c \in Classes : Rows[response][p] = c /\ cluster[c] # None
<1>1. response \in Renderings /\ response # None /\ p \in ManifestsOf(response)
  BY TurnRuns DEF Progress, Objects
<1>2. Rows[response][p] # None
  BY <1>1, RowsAssumption DEF ManifestsOf, PoolsOf, ClassesOf
<1>3. Rows[response][p] \in ManifestsOf(response) \cap Classes
  BY <1>1, <1>2, Manifests
<1>4. Rows[response][p] \notin todo
  BY <1>3 DEF Turn
<1> QED
  BY <1>1, <1>3, <1>4 DEF Progress, AppliedSoFar

\* Writing the fetched rendering to an object whose turn it is leaves every pool's class there.
LEMMA ClassStays ==
    ASSUME Progress, NEW o \in Objects, Turn(o),
           cluster' = [cluster EXCEPT ![o] = response]
    PROVE  ClassResolves'
<1>1. response \in Renderings /\ response # None
  BY TurnRuns DEF Progress
<1>2. \A c \in Classes : cluster[c] # None => cluster'[c] # None
  BY <1>1 DEF Progress, TypeOK, Objects
<1>3. ASSUME NEW p \in Pools, cluster'[p] # None
      PROVE  \E c \in Classes : Rows[cluster'[p]][p] = c /\ cluster'[c] # None
  <2>1. CASE p = o
    <3>1. cluster'[p] = response
      BY <2>1 DEF Progress, TypeOK
    <3> QED BY <2>1, <3>1, <1>2, ClassFirst
  <2>2. CASE p # o
    <3>1. cluster'[p] = cluster[p]
      BY <2>2 DEF Progress, TypeOK, Objects
    <3>2. PICK c \in Classes : Rows[cluster[p]][p] = c /\ cluster[c] # None
      BY <1>3, <3>1 DEF Progress, ClassResolves
    <3> QED BY <3>1, <3>2, <1>2
  <2> QED BY <2>1, <2>2
<1> QED BY <1>3 DEF ClassResolves

\* A fresh controller on an empty cluster.
LEMMA ProgressInit == Init => Progress
BY RowsAssumption DEF Init, Progress, TypeOK, AppliedSoFar, ClassResolves, Objects

\* The invariant is kept by every step of the loop and of its environment.
LEMMA ProgressKept ==
    ASSUME Progress, [Next]_vars
    PROVE  Progress'
<1>1. CASE UNCHANGED vars
  BY <1>1 DEF vars, Progress, TypeOK, AppliedSoFar, ClassResolves
<1>2. CASE Skip
  BY <1>2 DEF Skip, vars, Progress, TypeOK, AppliedSoFar, ClassResolves
<1>3. CASE Fetch
  <2>1. catalog \in Renderings /\ ManifestsOf(catalog) # {}
    BY <1>3 DEF Fetch, Applicable, Progress, TypeOK
  <2>2. TypeOK'
    <3>1. todo' # {} /\ todo' \subseteq Objects /\ response' # None
      BY <1>3, <2>1, Manifests, RowsAssumption DEF Fetch
    <3>2. todo' = ManifestsOf(response)'
      BY <1>3 DEF Fetch, ManifestsOf, PoolsOf, ClassesOf
    <3> QED BY <1>3, <2>1, <3>1, <3>2 DEF Fetch, Progress, TypeOK
  <2>3. AppliedSoFar'
    BY <1>3 DEF Fetch, AppliedSoFar, ManifestsOf, PoolsOf, ClassesOf
  <2>4. ClassResolves'
    BY <1>3 DEF Fetch, Progress, ClassResolves
  <2> QED BY <2>2, <2>3, <2>4 DEF Progress
<1>4. ASSUME NEW o \in Objects, Apply(o)
      PROVE  Progress'
  <2>1. response \in Renderings /\ response # None /\ o \in ManifestsOf(response)
    BY <1>4, TurnRuns DEF Apply, Progress
  <2>2. TypeOK'
    BY <1>4, <2>1 DEF Apply, Recorded, Progress, TypeOK, Turn, ManifestsOf, PoolsOf, ClassesOf
  <2>3. AppliedSoFar'
    BY <1>4, <2>1, Manifests
       DEF Apply, Progress, TypeOK, AppliedSoFar, ManifestsOf, PoolsOf, ClassesOf
  <2>4. ClassResolves'
    BY <1>4, ClassStays DEF Apply
  <2> QED BY <2>2, <2>3, <2>4 DEF Progress
<1>5. ASSUME NEW o \in Objects, ApplyFails(o)
      PROVE  Progress'
  <2>1. response \in Renderings /\ response # None
    BY <1>5, TurnRuns DEF ApplyFails, Progress
  <2>2. TypeOK' /\ AppliedSoFar'
    BY <1>5, <2>1, RowsAssumption DEF ApplyFails, Progress, TypeOK, AppliedSoFar
  <2>3. CASE cluster' = cluster
    BY <1>5, <2>2, <2>3 DEF ApplyFails, Progress, ClassResolves
  <2>4. CASE cluster' = [cluster EXCEPT ![o] = response]
    BY <1>5, <2>2, <2>4, ClassStays DEF ApplyFails, Progress
  <2> QED BY <1>5, <2>3, <2>4 DEF ApplyFails
<1>6. CASE Restart
  BY <1>6, RowsAssumption DEF Restart, Progress, TypeOK, AppliedSoFar, ClassResolves
<1>7. CASE CatalogEdit
  BY <1>7, RowsAssumption
     DEF CatalogEdit, Progress, TypeOK, AppliedSoFar, ClassResolves, ManifestsOf, PoolsOf, ClassesOf
<1> QED BY <1>1, <1>2, <1>3, <1>4, <1>5, <1>6, <1>7 DEF Next

-----------------------------------------------------------------------------

\* Every reachable state has the types TypeOK gives, for any catalog: the sync loop holds a
\* response exactly while it has objects left to apply.
THEOREM TypeCorrect == Spec => []TypeOK
<1>1. Progress => TypeOK
  BY DEF Progress
<1> QED BY ProgressInit, ProgressKept, <1>1, PTL DEF Spec

\* No NodePool in the cluster ever names a RafayNodeClass that is not there, whatever patches
\* fail and wherever the controller restarts: the order of applies in sync is enough.
THEOREM PoolsResolve == Spec => []ClassResolves
<1>1. Progress => ClassResolves
  BY DEF Progress
<1> QED BY ProgressInit, ProgressKept, <1>1, PTL DEF Spec

\* sync records a revision only when the cluster holds every manifest of it.
THEOREM RecordIsTrue == Spec => RecordedWhenApplied
<1>1. ASSUME Progress, [Next]_vars
      PROVE  [lastRevision' # lastRevision /\ lastRevision' # None
                => \A o \in ManifestsOf(lastRevision') : cluster'[o] = lastRevision']_vars
  <2>1. SUFFICES ASSUME lastRevision' # lastRevision, lastRevision' # None
                 PROVE  \A o \in ManifestsOf(lastRevision') : cluster'[o] = lastRevision'
    OBVIOUS
  <2>2. PICK x \in Objects : Apply(x) /\ LastOne(x)
    BY <1>1, <2>1 DEF Next, vars, Skip, Fetch, Apply, ApplyFails, Restart, CatalogEdit
  <2>3. response \in Renderings /\ response # None /\ lastRevision' = response
    BY <1>1, <2>1, <2>2, TurnRuns DEF Progress, Apply, Recorded
  <2>4. \A o \in ManifestsOf(response) : o = x \/ cluster[o] = response
    BY <1>1, <2>2, <2>3 DEF Progress, AppliedSoFar, LastOne
  <2>5. \A o \in ManifestsOf(response) : cluster'[o] = response
    BY <1>1, <2>2, <2>3, <2>4, Manifests DEF Apply, Progress, TypeOK
  <2> QED BY <2>3, <2>5
<1> QED BY ProgressInit, ProgressKept, <1>1, PTL DEF Spec, RecordedWhenApplied
=============================================================================
