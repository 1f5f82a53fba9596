----------------------------- MODULE NodeConfig -----------------------------
(***************************************************************************)
(* The node-config controller (pkg/controllers/nodeconfig): a single loop  *)
(* that fetches the cluster's worker-pool catalog from edge-broker, already *)
(* rendered as RafayNodeClass and NodePool manifests, and applies them one  *)
(* by one, classes first.  The revision of the last complete apply is kept  *)
(* in memory only and decides whether a re-sync is skipped.                 *)
(*                                                                         *)
(* A rendering stands for the manifests of one catalog state.  Rows[r][p]   *)
(* is the node class (the SKU) of pool p in rendering r, None when r has no *)
(* such pool; the classes of r are the ones its rows name.                  *)
(***************************************************************************)
EXTENDS Naturals, FiniteSets

CONSTANTS
    Renderings,   \* what the broker may serve, one per catalog state
    Pools,        \* NodePool names
    Classes,      \* RafayNodeClass names
    Rows,         \* [Renderings -> [Pools -> Classes \cup {None}]]
    Unversioned,  \* renderings that carry an empty revision
    Undecodable,  \* renderings with a document decodeManifests rejects
    None,
    Returns,      \* may the catalog go back to a state it already had?
    MaxEdits,     \* bound on catalog edits
    MaxFaults     \* bound on failed patches and restarts

ASSUME RowsAssumption ==
    /\ None \notin Renderings \cup Classes
    /\ Pools \cap Classes = {}
    /\ Rows \in [Renderings -> [Pools -> Classes \cup {None}]]
    /\ Unversioned \subseteq Renderings
    /\ Undecodable \subseteq Renderings
    /\ Returns \in BOOLEAN
    /\ MaxEdits \in Nat /\ MaxFaults \in Nat

Objects == Pools \cup Classes

VARIABLES
    catalog,       \* the rendering edge-broker serves now, None for NotFound
    autoScaling,   \* the compute instance's Auto Scaling toggle
    served,        \* renderings the catalog has had so far
    cluster,       \* [Objects -> rendering applied last], None when absent
    lastRevision,  \* Controller.lastRevision, as the rendering it names
    response,      \* the rendering the running sync fetched, None when idle
    todo,          \* objects the running sync has still to apply
    edits, faults

vars == <<catalog, autoScaling, served, cluster, lastRevision, response, todo,
          edits, faults>>

PoolsOf(r) == {p \in Pools : Rows[r][p] # None}

ClassesOf(r) == {Rows[r][p] : p \in PoolsOf(r)}

ManifestsOf(r) == PoolsOf(r) \cup ClassesOf(r)

InSync(r) == \A o \in ManifestsOf(r) : cluster[o] = r

-----------------------------------------------------------------------------

Init ==
    /\ catalog \in Renderings \cup {None}
    /\ autoScaling \in BOOLEAN
    /\ served = {catalog}
    /\ cluster = [o \in Objects |-> None]
    /\ lastRevision = None
    /\ response = None
    /\ todo = {}
    /\ edits = 0 /\ faults = 0

\* Seeded fault: an empty revision matches the empty one of a fresh process.
UnchangedOrEmpty(r) == r = lastRevision \/ (r \in Unversioned /\ lastRevision = None)

\* The revision check; an empty revision never matches.
Unchanged(r) == r \notin Unversioned /\ r = lastRevision

\* Seeded fault: a catalog without rows is taken for one to apply.
Served(r) == r # None /\ autoScaling /\ ~Unchanged(r) /\ r \notin Undecodable

\* What passes the early returns of sync: the broker has a config (it did not say NotFound),
\* autoscaling is on, the revision is not the one applied last, every document decodes, and
\* there is something to apply.
Applicable(r) ==
    /\ r # None
    /\ autoScaling
    /\ ~Unchanged(r)
    /\ r \notin Undecodable
    /\ ManifestsOf(r) # {}

\* A sync that takes an early return; a fetch that fails is the same step.
Skip == response = None /\ ~Applicable(catalog) /\ UNCHANGED vars

\* The fetch of a sync that goes on to apply.
Fetch ==
    /\ response = None
    /\ Applicable(catalog)
    /\ response' = catalog
    /\ todo' = ManifestsOf(catalog)
    /\ UNCHANGED <<catalog, autoScaling, served, cluster, lastRevision, edits, faults>>

\* Seeded fault: pools and classes in any order.
AnyOrder(o) == o \in todo

\* The order of append(classes, pools...): a pool's turn comes when no class is left.
Turn(o) == o \in todo /\ (o \in Pools => todo \cap Classes = {})

\* Seeded fault: the revision is recorded when the classes are applied.
ClassesDone(o) == todo \cap Classes \subseteq {o}

\* The sync is complete with this object.
LastOne(o) == todo = {o}

Recorded(r) == IF r \in Unversioned THEN None ELSE r

\* apply: server-side apply with forced ownership wins over whatever is stored.  The sync that
\* applies its last object records the revision.
Apply(o) ==
    /\ Turn(o)
    /\ cluster' = [cluster EXCEPT ![o] = response]
    /\ todo' = todo \ {o}
    /\ response' = IF todo' = {} THEN None ELSE response
    /\ lastRevision' = IF LastOne(o) THEN Recorded(response) ELSE lastRevision
    /\ UNCHANGED <<catalog, autoScaling, served, edits, faults>>

\* A patch that returns an error aborts the sync, and the loop retries after its backoff.  The
\* API server refused it, or only its answer was lost.
ApplyFails(o) ==
    /\ Turn(o)
    /\ faults < MaxFaults
    /\ faults' = faults + 1
    /\ cluster' \in {cluster, [cluster EXCEPT ![o] = response]}
    /\ response' = None
    /\ todo' = {}
    /\ UNCHANGED <<catalog, autoScaling, served, lastRevision, edits>>

\* A restart, or a new leader: the in-memory revision is gone.
Restart ==
    /\ faults < MaxFaults
    /\ faults' = faults + 1
    /\ lastRevision' = None
    /\ response' = None
    /\ todo' = {}
    /\ UNCHANGED <<catalog, autoScaling, served, cluster, edits>>

\* The platform's side: a pool is added, resized or dropped, or the toggle is switched.
CatalogEdit ==
    /\ edits < MaxEdits
    /\ edits' = edits + 1
    /\ \E r \in Renderings \cup {None} :
          /\ Returns \/ r \notin served \ {catalog}
          /\ catalog' = r
          /\ served' = served \cup {r}
    /\ autoScaling' \in BOOLEAN
    /\ UNCHANGED <<cluster, lastRevision, response, todo, faults>>

Next ==
    \/ Skip
    \/ Fetch
    \/ \E o \in Objects : Apply(o) \/ ApplyFails(o)
    \/ Restart
    \/ CatalogEdit

Spec == Init /\ [][Next]_vars

\* Start re-syncs after every interval or backoff delay, for ever: a sync that can do something
\* is eventually tried, and a started one goes on.
FairSpec == Spec /\ WF_vars(Fetch) /\ WF_vars(\E o \in Objects : Apply(o))

-----------------------------------------------------------------------------
(* Properties *)

\* The type of every variable; the running sync has work left exactly while it holds a response.
TypeOK ==
    /\ catalog \in Renderings \cup {None}
    /\ autoScaling \in BOOLEAN
    /\ served \subseteq Renderings \cup {None}
    /\ cluster \in [Objects -> Renderings \cup {None}]
    /\ lastRevision \in Renderings \cup {None}
    /\ response \in Renderings \cup {None}
    /\ todo \subseteq Objects
    /\ (response = None) <=> (todo = {})
    /\ response # None => todo \subseteq ManifestsOf(response)
    /\ edits \in 0..MaxEdits
    /\ faults \in 0..MaxFaults

\* Whatever sync was cut short by a failed patch or a restart, and however the catalog moved
\* pools between classes, a NodePool in the cluster names a RafayNodeClass that is there: "a
\* NodePool whose nodeClassRef does not resolve stays NotReady" (sync's order of applies).
ClassResolves ==
    \A p \in Pools : cluster[p] # None =>
        \E c \in Classes : Rows[cluster[p]][p] = c /\ cluster[c] # None

\* A revision is recorded as applied only in a state whose cluster holds every manifest of it:
\* a sync that was interrupted, or overtaken by a restart, leaves no trace that makes the next
\* one skip the rest.
RecordedWhenApplied ==
    [][lastRevision' # lastRevision /\ lastRevision' # None
          => \A o \in ManifestsOf(lastRevision') : cluster'[o] = lastRevision']_vars

\* "A pool added or resized in the catalog reaches the cluster without a restart" (README.md):
\* once the catalog stays at a usable rendering with autoscaling on, the cluster comes to hold
\* it, and keeps it.
CatalogReaches ==
    \A r \in Renderings \ Undecodable :
        <>[](catalog = r /\ autoScaling) => <>[]InSync(r)
=============================================================================
