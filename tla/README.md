# A formal model of karpenter-provider-rafay

TLA+ specifications of the Rafay cloud provider for Karpenter, model-checked with TLC; their safety
properties are also proved, with TLAPS. The provider turns Karpenter's NodeClaims into node operations at the
edge-broker and ties the machines that join the cluster back to their NodeClaims. Little of the
difficulty is in any one function. It lies in goroutines and controllers that each read, decide
and write in separate steps, over caches that lag, RPCs whose answer may get lost, and a process
that may restart anywhere.

All source paths below are relative to the repository root. Short names: *batcher* =
`pkg/rafay/batcher.go`, *cloudprovider* = `pkg/cloudprovider/cloudprovider.go`, and each
controller by its directory under `pkg/controllers/`.

## 1. The system

| Part | State it keeps | Operations | Correct when |
|---|---|---|---|
| NodeBatcher (batcher, `batch_stream.go`) | `queue`, `pending` (under `pendingMu`); `inProgress`, `inFlight`, `opBatch`, `succeeded` (under `mu`) | `Enqueue`, `EnqueueRemove`, `Cancel`, `ResumeAddBatch`, `Succeeded`; the sender and poller goroutines | every call is answered; an operation is never suppressed unless its batch is followed; no outcome is lost; a finished removal is really finished |
| batchresume | none (one-shot at start) | `Start` | a launched add survives a restart |
| CloudProvider | none of its own: NodeClaim status, labels, annotations | `Create`, `Delete`, the batch failure handler; `List`, `GetInstanceTypes` | a terminating claim is released, a failed add is reaped, only the claim's own node is removed; a claim names the SKU that is built for it |
| nodeproviderid | NodeClaim `status.providerID` | `Reconcile` (one at a time) | one node per scale-out |
| nodeadoption | adopted NodeClaims, the nodes' provider ID and `registered` label | `Reconcile` (one at a time) | one claim per node, and no node a scale-out waits for |
| nodeconfig | `lastRevision` in memory; NodePools and RafayNodeClasses in the cluster | `Start`/`sync`/`apply` | the catalog reaches the cluster; pools resolve their class |
| headroom | one Deployment per pool; PriorityClass | `Reconcile` (one at a time) | buffers of the configured size; no buffer torn down by mistake |
| BrokerClient, dialling | one shared gRPC connection (under `mu`) | `SendBatch`, `PollBatchStatus`, `GetKarpenterConfig`, `CancelOperations` through `callBroker`/`callBrokerOnce`; `getConn`, `closeConn` | no connection leaks, every call ends, the client recovers from an outage |
| RafayNodeClass controller | the `Ready` condition of a class | `Reconcile` | Ready means that `Create` can convert the class, and is up to date in the end |
| wiring (`cmd`, `pkg/operator`), API types | - | - | - |

Interactions: Karpenter calls `Create`/`Delete` from several workers. Those calls wait on channels
the sender resolves. The poller calls the failure handler, which deletes NodeClaims, which makes
Karpenter call `Delete`. nodeproviderid, nodeadoption, `Delete` (`findNodeProviderID`) and the
failure handler all read and write the relation between claims and nodes, through a cache for
nodes and uncached reads for claims. The RafayNodeClass controller, `Create` and nodeadoption read
the same class from a cache while nodeconfig or a user edits it. All RPCs go over one connection,
which any of them may close. headroom shares no state with the others.

The hard behaviours, each with the line where it bites, are the `hazards` of `PROJECT.json`.

## 2. Modules

| Module | Models | Notes |
|---|---|---|
| `NodeOperations` | what the batcher and `Create`/`Delete` promise Karpenter | abstract specification |
| `Batcher` | batcher, batchresume, the calling side of `Create`/`Delete`, the failure handler; externally the broker, Karpenter and the API server | the core; implements `NodeOperations` |
| `BatcherProofs` | - | theorems about `Batcher` |
| `BatcherRefinement` | - | `Batcher` implements `NodeOperations`, proved; extends `BatcherProofs` |
| `BatcherTracking` | - | further theorems about `Batcher`; extends `BatcherRefinement` |
| `BrokerConn` | `brokerclient.go`: the shared connection and its callers | |
| `BrokerConnProofs` | - | theorems about `BrokerConn` |
| `Binding` | nodeproviderid, nodeadoption, `Create`/`Delete`/`findNodeProviderID`/`List`, the failure handler's List and Delete | composition of the four writers of the claim-node relation, with Karpenter's garbage collection |
| `BindingProofs` | - | theorems about `Binding` |
| `Launch` | the RafayNodeClass controller, instance-type conversion and choice in `Create`, the checks of nodeadoption | composition of the three readers of a RafayNodeClass |
| `LaunchProofs` | - | theorems about `Launch` |
| `NodeConfig` | nodeconfig | |
| `NodeConfigProofs` | - | theorems about `NodeConfig` |
| `Headroom` | headroom, both files | the policy parser and the arithmetic are operators |
| `HeadroomProofs` | - | theorems about `Headroom` |
| `MCBatcher`, `MCBrokerConn`, `MCBinding`, `MCLaunch`, `MCNodeConfig`, `MCHeadroom` | - | instances for TLC |

Definitions commented "Seeded fault" are variants of the definition below them that a plausible
bug would produce. They are not used by any specification; each one, put in the place of the real
definition, makes TLC violate the property that `PROJECT.json` pairs it with under `mutants`.

### Batcher

A step is one critical section of `mu` or `pendingMu`, or one RPC. A caller goes
`idle -> called -> checked -> waiting -> resolved`: `EnqueueCheck` is the critical section of
`mu`, `EnqueueInsert` the one of `pendingMu`, and anything may happen in between. The sender goes
`collect -> (send ->) register -> resolve`: `Send` is the RPC with its ACK, `Register` the
critical section of `registerAndAck`, `Resolve` one `resolvePending`. `SendFails` covers a call
that never arrived, one the broker rejected, and one of which only the ACK was lost. The poller
takes its sweep's batches in any order (Go's map order), reads an answer in `PollBatch`, applies it
in a later step (`PollEmpty`, `PollResults`), and then calls the failure handler once per failure.
`Crash` empties the process's memory; NodeClaims and the broker stay.

Data is reduced to identities: an operation ID, a batch ID, a state. A tracked batch is
`items[b] # {}`. A claim is `wanted` (add not launched, or removal not finished), `launched`,
`deleting` or `done`.

Assumptions about the parts that are not in the repository, taken from how the code uses them: the
broker keeps one record per operation and does not queue again one that is accepted, running or
succeeded (`Accepted`); it fails the operations of a batch it has no room for (`Rejected`); an
unknown batch ID gets an empty answer; a batch ID is never used twice (`Fresh`). `InitialDelayOver`
says a batch is not polled while the sender is still resolving its callers: the code waits 120 s
before the first poll, and the loop does non-blocking sends only. Without that wait
`registerAndAck` and `pollBatch` would race on one slice (listed as a hazard).

`NodeOperations` is the same system without queue, batches, poller and process: an operation is
unknown, taken, succeeded or failed at the broker, and the claim behind it open, launched or
closed. `Launch` needs the broker to have heard of the add, `Release` needs the removal to have
succeeded. `Promise` instantiates it with the mapping `Phase`, `Outcome`; `KeepsPromise` is its
specification as a property. Everything else `Batcher` does is a stutter or the broker's `Work`.

### BrokerConn

A step is one critical section of `BrokerClient.mu`, or the start or the end of an RPC. `Senders`
call through `callBrokerOnce`, `Readers` through `callBroker`. `conn` is the client's field,
`open` the connections that are dialled and not closed, `cc[p]` the one a call has in hand, which
another call may close at any time. Answers are told apart as far as `shouldRedial` does: success,
Unavailable, anything else. About gRPC the model assumes: dialling is lazy, so it succeeds during
an outage (`pkg/broker/conn.go` uses `grpc.NewClient`); an RPC whose connection is closed locally
ends with Unavailable or Canceled, one started on a closed connection with Canceled.

### Binding

One NodePool, its claims and its nodes. `cache` is the informer cache of nodes, `CacheSync` brings
one node up to date. Each controller's cycle is cut at its reads and writes: nodeproviderid is
`ProviderList` (uncached claims), then `ProviderPatch`/`ProviderWaits` (cached nodes, optimistic
lock); adoption is `AdoptNodes` (cached), `AdoptClaims` (uncached), and per node `AdoptPrepare`
and `AdoptCreate`; `Delete` of a pending claim is `FindList`, then `FindNode`/`FindNothing`. A
node stands for its provider ID. The timestamp guard is a small clock. `Matches` is the pool label
and `NodeClaimSKUs` test, `Adoptable` the control-plane, SKU and `validateAdoptable` tests, which
`Launch` models. `Listed` is `List()`; with `Collects`, Karpenter registers claims and its garbage
collection deletes registered ones that are not listed. The result of a `Create` that was under way
may reach a claim that has been marked for deletion in the meantime (`CreateLaunches`,
`CreateAdopted`).
`Stamps` says whether the platform sets `spec.providerID` on a node that joins. The repository's
README allows for either ("when the platform left it empty"); the scale-out nodes of the runs have
it set, except in `binding_no_id`, and nodes older than Karpenter may or may not.

### Launch

One RafayNodeClass, one NodePool, of which the template's requirements and zone label matter. `class` is the object, `cache` the informer's copy that all
three parts read. The readiness reconcile is cut at its patch: `Reconcile` computes the condition
(with the generation it is about) from the copy, `PatchStatus` writes it over whatever is there,
`PatchFails` puts the class back on the queue. Instance types are records of name, quantities
(a number, or `Bad` for text that does not parse), zone and architectures; `TypeReqs`, `Price`,
`Compatible` and `Selected` are the conversion, the filter and the stable sort of `Create`. A
requirement is a set of values it includes or excludes. `order[c]` is the SKU the broker holds for
an add: `CreateSends` sets it once, a later `Create` of the same claim selects again but cannot
change it. The labels a `Create` will return are taken from its selection (`TypeLabels`). The labels
of an adopting claim are the template's, overlaid by the node's (`LabelZone`). Adoption is `Adoptable` (the SKU's entry, `validateAdoptable`) and `Adopt`; the races
about who owns the node are in `Binding`. Karpenter's requirement algebra (`Admits`, `Intersects`,
`Fits`) and its Registration, which copies labels from claim to node, are external.

### NodeConfig

A rendering stands for all manifests of one catalog state, and for its revision. `Fetch` is a sync
that passes every early return, `Skip` one that does not (a failed fetch changes as little).
`Apply` is one server-side apply; the last one records the revision. `ApplyFails` aborts the sync,
with the patch done or not. `Unversioned` renderings carry an empty revision, `Undecodable` ones a
document `decodeManifests` rejects. Objects are never deleted: `logOrphans` only logs.

### Headroom

A ConfigMap is the sequence of its data keys in `candidateKeys` order, each one unreadable or a
policy per pool. `parseHeadroomConfig`'s rules are `FirstYielding`, `Unreadable` and `PoolsOf`.
Percentages are whole numbers and all arithmetic is exact, scaled by 100; the code's `float64`
fraction may round an exact multiple up, so `Ceilings` allows either result there. The reference
`Sized` is stated without divisions. A pool has one SKU, so that allocatable is the number of ready
nodes times `Alloc`.

The controller reads the ConfigMap and the nodes from caches (`seenMap`, `seenReady`), which
`ConfigMapSync` and `NodeSync` bring up to date. A reconcile is cut where it reads and writes:
`Start` loads the policy, `ListNodes` lists a pool's nodes, `ApplyDeployment` writes the Deployment
sized for that list, so that nodes and policy may change, and change back, in between. A write that
does not happen (an error, the conflict of an update from a stale copy, a stale copy that seems to
need no update) is `ApplyFails`. `manual` tells a Deployment somebody scaled by hand, the only kind
that may exceed the cap. Each of the two cleanups is one step.

## 3. Runs

| Run | Instance | Checks |
|---|---|---|
| `batcher_race` | one add and one remove open together, two calls, two batch IDs, a queue of one, one fault (restart, lost ACK or failed send, abandoned call); 2.5 M states | `InFlightTracked`: a suppressed operation is in a followed batch; `SucceededSound`; `NoStrandedWaiter`, `OneItemPerPending`; `AckIsTrue` |
| `batcher_live` | one claim (an add or a remove), one call, any three of eleven kinds of fault, fairness; 0.17 M | `TypeOK`; `LaunchedAddNotForgotten`; `ItemsAccountedFor`: no item is lost in polling; `KeepsPromise`: the refinement; `WaiterAnswered`, `RemoveConverges`, `FailedAddReaped` |
| `brokerconn` | one sender, two readers, four connections, an outage, dial error or failed RPC, fairness; 0.1 M | `TypeOK`; `NoConnLeaks`: the current connection is the only open one; `FailedConnClosed`: no retry on the connection that failed; `CallReturns`; `Recovers` |
| `binding_safe` | two claims, two nodes, one of them older than Karpenter; 1.9 M | `TypeOK`, `OneScaleOutPerNode`, `OneAdoptionPerNode`, `MachineNotRobbed`, `DeletingKeepsID`, `CollectionSparesNodes` |
| `binding_live` | two claims, one node, one failure, fairness; 0.7 M | `NodeOwned`: also, no node stays skipped for a scale-out that does not take it |
| `launch` | one claim slot, two running nodes, four specs (two equally cheap SKUs, an accelerator, a bad quantity, no name), five pool templates, three edits, two faults, fairness; 1.0 M | `TypeOK`; `ReadyClassConverts`; `SkuIdentifiesNode`; `NodeZoneKept`; `ReadyConverges`; `AdoptionSettles` |
| `nodeconfig_sync` | five catalog states over two pools and two classes, three edits, two failures, fairness; 69 k | `TypeOK`, `ClassResolves`, `RecordedWhenApplied`, `CatalogReaches` |
| `headroom_sync` | two pools of up to one ready node, five policies and none, two changes, two failures, fairness; 0.26 M | `TypeOK`; `BrokenPolicyKeepsBuffer`; `SettledStays`: unless it works from a stale read, no reconcile, failure or restart unsettles a settled cluster; `BufferConverges` |

Four more runs show that a comment or the documentation promises more than the code does:

| Run | Promise | What happens |
|---|---|---|
| `binding_no_id` (one claim, one node, which joins without an ID, no faults) | nodeadoption: the node it skips will be bound by nodeproviderid (`SkippedNodeIsBound`) | nodeproviderid ignores a node with an empty `spec.providerID`, and adoption, which would set it, skips the node; both wait for ever (with the ID set, TLC finds the property to hold, also for two claims) |
| `binding_owner` | nodeproviderid, nodeadoption: never two NodeClaims for one machine (`OneOwner`) | a machine that joins before `Create`'s result reached its claim is adopted; nodeproviderid, which looks only at `status.providerID`, then binds it to the scale-out too |
| `binding_remove` | `findNodeProviderID`: usedIDs keeps `Delete` off nodes assigned to another claim (`RemoveSparesOthers`) | the other claim is bound between the List of claims and the List of nodes |
| `nodeconfig_revert` | README: a catalog edit reaches the cluster (`CatalogReaches`) | after a partial apply of a new revision the catalog goes back to the old one, which `lastRevision` still names: every sync is skipped |

**Bounds and why they are enough.** Two calls are what it takes for every race of `enqueueItem`
(one that joins, one that inserts late), two batch IDs for an operation sent twice and for an
older batch outliving a newer one; `Fresh` recycles an ID nobody refers to, so two do not limit
how many batches a behaviour sends. A queue of one makes it overflow. Three faults allow, for
example, a lost ACK, a restart and a failed answer in one behaviour. `MaxEmptyPolls` is 2 (3 in
the code) so that the count has a value below the limit and one at it. Two claims competing for
one node, or two nodes for one claim, are every pair the binding properties speak of. A clock of
two values tells "before" from "after or same second", which is all the code's guard tells apart.
In `headroom_sync` the cap (4) is both reached and not reached, and the policies take each path
of the parser. One ready node, or none, is enough for a count that drops, is listed, and comes
back before the write; that sizes are right for every count is proved (`SizesAreRight`). Three callers are what it takes for one to close, under a second, the connection
that a third has dialled; four connections leave a fresh one whatever they hold. In `launch` a
spec lists two SKUs of the same price (the tie the stable sort breaks), the pools constrain
nothing, the architecture or the zone, with and without a zone label in the template, and one running node has a zone label and the other none.
Deadlock is checked in every passing run but `launch`, where a claim slot may come to rest.
Symmetry is used only for safety: callers and batch IDs in `Batcher`, claims in `Binding`, all of
which are treated alike.

**Fairness.** Goroutines that can go on do (weak fairness on the caller, the sender, the poller and
batchresume). `Call` is strongly fair because Karpenter calls `Create`/`Delete` again after every
return. An API error that swallows a failure is made good by Karpenter's registration timeout: weak
fairness of `DeleteClaim` on `missed` adds, and of no other claim. The broker works its queue off.
Faults are bounded, never fair. In `Binding` nodeproviderid requeues a pending claim every 30 s
(strong fairness of `ProviderList`, as its one worker may be busy with another claim), adoption
resyncs, caches catch up, Karpenter launches claims that are not under deletion; nothing makes anyone delete a claim, and the
broker owes nothing. In `BrokerConn` an RPC ends by its deadline (`brokerCallTimeout`), outages end
and the loops call again. `Recovers` also assumes that calm moments recur, in which nobody holds a
connection that is closed or about to be. Without that TLC shows an endless cascade with three
callers, each closing the connection under the next; it needs every call to overlap the next, where
real calls are seconds apart and last milliseconds. In `Launch` the informer catches up, the work
queue is served and Karpenter calls `Create`. In `NodeConfig` and `Headroom` the loop runs again
after each interval or backoff, and the watches of `Headroom` deliver. A single run may fail; only the bounded budget keeps failures finite.

## 4. Proofs

Every invariant and every action property of the passing runs, and the refinement, is also a
theorem, for every value of the constants. Only liveness is left to TLC. The assumptions are those
of the `ASSUME` of each module, which TLC evaluates on its instance. Most say that a null value is
not an element of the set it completes and that a bound is a number. `LaunchAssumption` says more:
a class is a sequence of entries, and every demand of Karpenter names instance types, as each
scale-out NodeClaim does; `HeadroomAssumption` says that a policy that parsed has the ranges
`unmarshalPools` enforces. Each inductive invariant was checked by TLC on the module's instance
before it was proved.

### Batcher

`BatcherProofs` proves, for any sets of operations, callers and batch IDs and any bounds, from
`BatcherAssumption` alone:

- `TypeCorrect`: `TypeOK`. Not inductive as it stands: a step uses `cOp`, `sBatch` and `pBatch`
  knowing they are not the null value. `WellFormed` adds which field means something in which
  step (`CallerShape`, `StepShape`).
- `NoWaiterLost` and `ItemsAreUnique`: `NoStrandedWaiter` and `OneItemPerPending`, inductive
  together with `part \subseteq batch` (`Waiting`). The one needs the other: a waiter joins an
  entry trusting it has an item, and the item's removal trusts it is the only one. Lemmas about
  `Append` and `Tail` of a queue without repetitions carry the argument.
- `SucceededIsSound`: `SucceededSound`. The answer in the poller's hands must be true too, and
  stay so until it is applied (`AnswersTrue`), which rests on `SucceededForGood`: nothing takes a
  SUCCEEDED record back.
- `SuppressionEnds`: `InFlightTracked`. Registering a batch overwrites `items[b]`, so the ID must
  not track anything: from the ACK to the registration nobody else learns it (`SenderFresh`).
  That the in-flight short cut does not hand it out follows from `InFlightTracked` itself, so the
  two are proved together (`Suppression`).

`BatcherRefinement` proves `ImplementsNodeOperations`, `Spec => KeepsPromise`, under the same
assumption: the detailed specification implements the abstract one. The release of a removal is
right by `SucceededSound`. The launch and the giving up of an add rest on `Known`: whatever is
tracked, to be resumed, reported as failed, stamped on a claim or answered to a caller, the broker
has heard of (`Heard`), also across a restart, where only the stamps survive, and in the in-flight
short cut. It is preserved because the broker forgets no operation (`HeardForGood`).
`StepKeepsPromise` then maps each action: `Return` to `Launch`, `DeleteDone` to `Release`, the
failure handler to `GiveUp` or `End`, sends and the broker's steps to `Work`, the rest to a stutter.

`BatcherTracking` continues with the batch IDs:

- `AcksAreTrue`: `AckIsTrue`. An answer is taken from the batch in the sender's hands or, in the
  short cut of `enqueueItem`, from what is tracked; a stamp comes from an answer, and what is
  resumed from a stamp. `Carried` says of all these places that the broker was sent the operation
  under that ID, and the cycle is proved at once (`Truthful`). The lemmas `SentForGood` and
  `IndexFrame` say that the broker's index of a batch only expires.
- `NoItemLost`: `ItemsAccountedFor`, an action property. Registering could overwrite a tracked
  batch; `SenderFresh` of `BatcherProofs` rules it out, and for batchresume the check that skips
  a tracked batch. `ItemsMove` reduces the step to the five actions that change what is tracked.
- `LaunchedAddsFollowed`: `LaunchedAddNotForgotten`. After an ACK, an add is followed in turn by
  the sender, the tracked batch, the stamp and batchresume, and each hands over before it lets
  go. `NotForgotten` has one conjunct per hand: a launched add is stamped
  (`StampedWhenLaunched`), an add acknowledged to a caller is followed (`AckedFollowed`), a
  stamped one is followed or to be resumed (`StampedFollowed`), a batch that batchresume will skip
  is complete (`ResumedFollowed`), and the poller does not touch the batch in the sender's hands
  (`HandsOff`, which rests on `InitialDelayOver`).

### Binding

`BindingProofs` proves, for any numbers of claims and nodes, from `BindingAssumption` alone:

- `TypeCorrect` (`TypeOK`) and `DeletingIsFinal` (`DeletingKeepsID`): a patch decided before the
  deletion carries an old resource version. Only the late result of a `Create` changes the ID of a
  claim under deletion, from none to its first one.
- `ScaleOutsKeepApart`: `OneScaleOutPerNode`. The node cache may be arbitrarily stale; what
  matters is that `pUsed`, read uncached, holds every bound ID until the patch
  (`UsedIDsComplete`), because one reconcile runs at a time and nothing else binds a scale-out.
- `AdoptionsKeepApart`: `OneAdoptionPerNode`. An adopted node carries its provider ID
  (`AdoptedPrepared`), so that a pass whose view shows none fails the lock of `prepareNode`; a
  node that the view shows with an ID passed the filter of claimed ones (`LoopSparesAdopted`).
  Both need that a view lags but never invents (`ViewsLag`).
- `ScaleOutsKeepTheirMachine`: `MachineNotRobbed`. A claim has its pending ID before its machine
  joins (`BuiltForSuits`) and from then on can only stop waiting. Nodes are listed before claims,
  so a pass that has the machine in its view finds the claim in its List, and takes no machine
  somebody waits for (`AwaitedSpared`).
- `CollectionIsSafe`: `CollectionSparesNodes`, from `RegisteredSeen`: the cache has shown the ID
  of a registered claim, and it only moves forward.

### Launch

`LaunchProofs` proves, for any claims, nodes, specs, demands and pools, from `LaunchAssumption`:

- `ReadyIsUsable`: `ReadyClassConverts`. The condition may be written from a stale copy, so the
  invariant speaks of all three copies (`ClassInv`): a condition is true of the generation it
  names (`Honest`), and copies of one generation have one spec (`NotNewer`).
- `SkuMatches`: `SkuIdentifiesNode`. The operation was selected from a copy the cache has had, and
  while the cache shows that generation a further `Create` selects the same SKU (`Ordered`).
  This is where the stable sort matters: `SelectedIsUnique`, at most one entry is selected.
- `AdoptionKeepsZones`: `NodeZoneKept`, from `ClaimInv`: an adopting claim carries the zone of
  its node or, if that has none, the template's at every point, so the label copied by
  Registration replaces none and is never the SKU's.
- `TypeCorrect`: `TypeOK`, with `ClaimInv` saying which fields of a claim mean something when.

### Headroom

`HeadroomProofs` proves, for any pools, ConfigMap contents, node sizes and cap, from
`HeadroomAssumption`:

- `SizesAreRight`: every result of `DesiredReplicas` satisfies the division-free reference
  `Sized`, rounding errors, cap and floor included. `CeilingBounds` has the division,
  `CeilDivBounds` and `NeededBounds` carry it to one resource, `MaxOfFour` to the maximum.
- `TypeCorrect` (`TypeOK`) and `BuffersSurviveBrokenPolicies` (`BrokenPolicyKeepsBuffer`): the
  cleanup works from the policy loaded at the start, itself read from a cache, so `ReconcileInv`
  remembers of both that the pools missing there are ones that some readable ConfigMap left out. That the parser picks a key that
  yields needs a minimum of a set of naturals (`MinIsElement`).
- `SettledIsStable`: `SettledStays`, the half of `BufferConverges` that is a safety property. It
  speaks of states in which no stale read is in flight (`Current`), and says that they stay so
  until the next change. It uses `SizesAreRight`: a reconcile may write another size than it finds, but a right one.

### NodeConfig and BrokerConn

`NodeConfigProofs` proves, for any catalog, from `RowsAssumption` alone: `TypeCorrect` (`TypeOK`),
`PoolsResolve` (`ClassResolves`) and `RecordIsTrue` (`RecordedWhenApplied`). The inductive
invariant `Progress` adds `AppliedSoFar`: what the running sync has taken off its list is in the
cluster as it fetched it. So a pool whose turn comes finds its class there, and when the list is
empty the whole rendering is.

`BrokerConnProofs` proves, for any number of callers and connections, from `BrokerConnAssumption`
alone: `TypeCorrect` (`TypeOK`), `ConnectionsDoNotLeak` (`NoConnLeaks`) and `RedialIsFresh`
(`FailedConnClosed`). The three are inductive together: `closeConn` closes the current connection,
not the failed one, and this closes the failed one because no other connection is open.

Only model-checked, because the prover does not handle fairness: the liveness properties
`WaiterAnswered`, `RemoveConverges`, `FailedAddReaped`, `NodeOwned`, `ReadyConverges`,
`AdoptionSettles`, `CatalogReaches`, `BufferConverges`, `CallReturns` and `Recovers`.

## 5. Not modelled

- `CloudProvider.Get` (one lookup, without effect), `IsDrifted`, `RepairPolicies` and the other
  methods that return constants. The string format of provider IDs: a node stands for its ID.
- Operating systems in `Launch`: treated as architectures are. Capacity and allocatable in the
  status of a claim: no property is about them.
- Pod template fields of the headroom Deployment: carried as the policy they come from. The
  comparison of a drifted PriorityClass only logs. Mixed SKUs in one pool are not distinguished.
- Reading certificates and the session ID (I/O), generated types, process wiring. A failure to
  dial, whatever its reason, is a step of `BrokerConn`.
- Two processes at once: leader election is taken to hold.

Known limits of the results:

- The failure handler deletes a claim without a precondition on what it listed (`HandlerDelete` has
  the step): a claim that is bound between the List and the Delete goes, and its node with it. The
  comment on `NewBatchFailureHandler` says that only claims still pending are deleted. No property
  forbids the effect.
- `enqueueItem` releases `mu` between its in-flight check and the insertion, so that one operation
  may be sent in two batches. The comment on `Enqueue` rules this out; the broker deduplicates, and
  `batcher_race` shows that tracking and results stay right.
- `SkuIdentifiesNode` leaves out a claim whose class was edited between two of its `Create` calls:
  the second call may select another SKU than the broker holds, the machine then carries a
  `sku_name` the claim does not accept, and the claim waits for Karpenter's registration timeout.
- `AdoptionSettles` leaves out a node that has a zone label neither itself nor from the template, in a pool
  that excludes a zone. Adoption
  accepts it (the label is absent), `Create` refuses the SKU if its zone is the excluded one, and
  Karpenter deletes the claim again, until somebody edits pool or class.
- `SettledStays` leaves out a reconcile that works from a stale read. Nodes that drop, are listed
  and come back before the Deployment is written leave a settled cluster with a buffer of the wrong
  size, although nothing changes any more; `BufferConverges` shows that a later reconcile repairs it.
- A misspelt `pools` key reads as an empty policy, which `BrokenPolicyKeepsBuffer` deliberately
  counts as readable.

## 6. Plan

The components and their safety properties are done. What could be added:

1. The safety halves of liveness properties, as `SettledStays` is one of `BufferConverges`: what
   `CatalogReaches` and `ReadyConverges` reach is kept by every step without an edit.
2. A statement of `OneOwner` that holds: which interleavings of `Create`, adoption and
   nodeproviderid lead to a second owner, and that no other does.
