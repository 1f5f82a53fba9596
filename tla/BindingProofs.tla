---------------------------- MODULE BindingProofs ----------------------------
(***************************************************************************)
(* Theorems about Binding, for any sets of claims and nodes, any matching  *)
(* of SKUs, with and without platform-set provider IDs and garbage         *)
(* collection, and any bounds.                                             *)
(***************************************************************************)
EXTENDS Binding, TLAPS

----------------------------------------------------------------------------
(* The inductive invariant.                                                *)

(* A claim that does not exist yet is blank.                               *)
BlankUntilBorn ==
  \A c \in Claims : life[c] = "none" => pid[c] = NoID /\ adopt[c] = NoID

(* While a reconcile of NodeProviderIDController is under way, its usedIDs *)
(* stay complete for scale-outs: nobody else binds one.                    *)
UsedIDsComplete ==
  pClaim # NoClaim =>
    \A c \in Claims : ScaleOut(c) /\ pid[c] \in Nodes => pid[c] \in pUsed

(* What o shows of a node was true of it, and a node only moves forward:   *)
(* it does not vanish, lose its provider ID or come back once removed.     *)
Foreseen(o, n) ==
  /\ o.st # "none" => n.st # "none"
  /\ o.id => n.id
  /\ o.st = "gone" => n.st = "gone"

(* The informer cache and the adoption's view of the nodes lag behind.     *)
ViewsLag ==
  \A n \in Nodes : Foreseen(cache[n], node[n]) /\ Foreseen(aView[n], node[n])

(* A node that has not joined carries no provider ID, in any view.         *)
BlankUntilJoined ==
  \A n \in Nodes : /\ node[n].st = "none" => ~node[n].id
                   /\ cache[n].st = "none" => ~cache[n].id

(* What the adoption loop still has to take is a ready node.               *)
LoopReady ==
  aPC \in {"loop", "create"} =>
    \A n \in Nodes : aView[n] # Absent => aView[n].st = "ready"

(* An adopted node has joined and carries its provider ID.                 *)
AdoptedPrepared ==
  \A c \in Claims : adopt[c] # NoID => node[adopt[c]].st # "none" /\ node[adopt[c]].id

Adopted(n) == \E c \in Claims : Exists(c) /\ adopt[c] = n

(* The loop takes no node that a claim has adopted: it filtered those with *)
(* a provider ID, and the others fail the lock in prepareNode.             *)
LoopSparesAdopted ==
  /\ aPC \in {"loop", "create"} => \A n \in Nodes : aView[n].id => ~Adopted(n)
  /\ aPC = "create" => /\ aNode \in Nodes /\ ~Adopted(aNode)
                       /\ node[aNode].st # "none" /\ node[aNode].id

(* A claim that a machine was built for suits it, and got its pending ID   *)
(* before: from now on it can only stop waiting.                           *)
BuiltForSuits ==
  \A n \in Nodes : builtFor[n] # NoClaim =>
    /\ Suits(builtFor[n], n) /\ pid[builtFor[n]] # NoID /\ life[builtFor[n]] # "none"
    /\ node[n].st # "none"

(* A launched scale-out waits for this very machine.                       *)
Awaited(n) ==
  /\ builtFor[n] # NoClaim
  /\ life[builtFor[n]] = "live" /\ pid[builtFor[n]] = Pending

(* The loop takes no node that a scale-out waits for, and no claim has     *)
(* adopted one.                                                            *)
AwaitedSpared ==
  /\ \A n \in Nodes : Awaited(n) => ~Adopted(n)
  /\ aPC \in {"loop", "create"} => \A n \in Nodes : aView[n] # Absent => ~Awaited(n)
  /\ aPC = "create" => ~Awaited(aNode)

(* Karpenter registers a claim once the cache shows its ID on a node.      *)
RegisteredSeen ==
  \A c \in registered : pid[c] \in Nodes /\ cache[pid[c]].id

NodeViews == ViewsLag /\ BlankUntilJoined /\ LoopReady
BindInv   == BlankUntilBorn /\ UsedIDsComplete /\ OneScaleOutPerNode
AdoptInv  == AdoptedPrepared /\ LoopSparesAdopted /\ OneAdoptionPerNode
AwaitInv  == BuiltForSuits /\ AwaitedSpared

----------------------------------------------------------------------------
(* Type correctness.                                                       *)

(* A node object whose state changes is a node object.                     *)
LEMMA NodeMoves ==
  ASSUME node \in [Nodes -> NodeObject], NEW n \in Nodes, NEW s \in {"ready", "gone"}
  PROVE  /\ [node EXCEPT ![n].st = s] \in [Nodes -> NodeObject]
         /\ [node EXCEPT ![n].st = s] =
              [m \in Nodes |-> IF m = n THEN [st |-> s, id |-> node[n].id, reg |-> node[n].reg]
                                        ELSE node[m]]
<1>1. node[n] = [st |-> node[n].st, id |-> node[n].id, reg |-> node[n].reg]
  BY DEF NodeObject
<1>2. [node[n] EXCEPT !.st = s] = [st |-> s, id |-> node[n].id, reg |-> node[n].reg]
  BY <1>1
<1>3. [st |-> s, id |-> node[n].id, reg |-> node[n].reg] \in NodeObject
  BY DEF NodeObject
<1> QED
  BY <1>2, <1>3

LEMMA TypeKarpenter ==
  ASSUME TypeOK, NEW c \in Claims, KarpenterNext(c)
  PROVE  TypeOK'
<1> USE BindingAssumption
<1>1. ASSUME NewClaim(c) PROVE TypeOK'
  BY <1>1 DEF NewClaim, TypeOK, nodeVars, pVars, aVars, dVars, kVars
<1>2. ASSUME CreateSends(c) PROVE TypeOK'
  BY <1>2 DEF CreateSends, TypeOK, claimVars, nodeVars, pVars, aVars, dVars, kVars
<1>3. ASSUME CreateLaunches(c) PROVE TypeOK'
  BY <1>3 DEF CreateLaunches, TypeOK, nodeVars, pVars, aVars, dVars, kVars
<1>4. ASSUME CreateAdopted(c) PROVE TypeOK'
  BY <1>4 DEF CreateAdopted, TypeOK, nodeVars, pVars, aVars, dVars, kVars
<1>5. ASSUME DeleteClaim(c) \/ GarbageCollects(c) PROVE TypeOK'
  BY <1>5 DEF DeleteClaim, GarbageCollects, TypeOK, nodeVars, pVars, aVars, dVars, kVars
<1>6. ASSUME Registers(c) PROVE TypeOK'
  BY <1>6 DEF Registers, TypeOK, claimVars, nodeVars, pVars, aVars, dVars
<1>7. ASSUME NEW n \in Nodes, NodeJoins(c, n) PROVE TypeOK'
  <2>1. PICK stamped \in Stamps :
          node' = [node EXCEPT ![n] = [st |-> "joined", id |-> stamped, reg |-> FALSE]]
    BY <1>7 DEF NodeJoins
  <2>2. [st |-> "joined", id |-> stamped, reg |-> FALSE] \in NodeObject
    BY DEF NodeObject
  <2>3. node' \in [Nodes -> NodeObject]
    BY <2>1, <2>2 DEF TypeOK
  <2> QED
    BY <1>7, <2>3 DEF NodeJoins, TypeOK, claimVars, pVars, aVars, dVars, kVars
<1> QED
  BY <1>1, <1>2, <1>3, <1>4, <1>5, <1>6, <1>7 DEF KarpenterNext

LEMMA TypeProvider ==
  ASSUME TypeOK, ProviderNext \/ \E c \in Claims : ProviderList(c)
  PROVE  TypeOK'
<1> USE BindingAssumption
<1>1. ASSUME NEW c \in Claims, ProviderList(c) PROVE TypeOK'
  BY <1>1 DEF ProviderList, UsedIDs, TypeOK, claimVars, nodeVars, aVars, dVars, kVars
<1>2. ASSUME ProviderWaits PROVE TypeOK'
  BY <1>2 DEF ProviderWaits, TypeOK, claimVars, nodeVars, aVars, dVars, kVars
<1>3. ASSUME NEW n \in Nodes, ProviderPatch(n) PROVE TypeOK'
  BY <1>3 DEF ProviderPatch, TypeOK, nodeVars, aVars, dVars, kVars
<1> QED
  BY <1>1, <1>2, <1>3 DEF ProviderNext

LEMMA TypeAdopt ==
  ASSUME TypeOK, AdoptNext
  PROVE  TypeOK'
<1> USE BindingAssumption
<1>0. Absent \in NodeObject /\ Prepared \in NodeObject
  BY DEF Absent, Prepared, NodeObject
<1>1. ASSUME AdoptNodes \/ AdoptEnds PROVE TypeOK'
  BY <1>1 DEF AdoptNodes, AdoptEnds, TypeOK, claimVars, nodeVars, pVars, dVars, kVars
<1>2. ASSUME AdoptClaims PROVE TypeOK'
  BY <1>0, <1>2 DEF AdoptClaims, TypeOK, claimVars, nodeVars, pVars, dVars, kVars
<1>3. ASSUME AdoptCreateFails PROVE TypeOK'
  <2>1. faults' \in 0..MaxFaults
    BY <1>3 DEF AdoptCreateFails, Fault, TypeOK
  <2>2. aView' \in [Nodes -> NodeObject]
    BY <1>0, <1>3 DEF AdoptCreateFails, TypeOK
  <2> QED
    BY <1>3, <2>1, <2>2
    DEF AdoptCreateFails, TypeOK, claimVars, nodeVars, pVars, dVars, kVars
<1>4. ASSUME NEW n \in Nodes, AdoptPrepare(n) PROVE TypeOK'
  BY <1>0, <1>4 DEF AdoptPrepare, TypeOK, claimVars, pVars, dVars, kVars
<1>5. ASSUME NEW n \in Nodes, AdoptPrepareFails(n) PROVE TypeOK'
  BY <1>0, <1>5
  DEF AdoptPrepareFails, Fault, TypeOK, claimVars, nodeVars, pVars, dVars, kVars
<1>6. ASSUME NEW c \in Claims, AdoptCreate(c) PROVE TypeOK'
  BY <1>0, <1>6 DEF AdoptCreate, TypeOK, nodeVars, pVars, dVars, kVars
<1> QED
  BY <1>1, <1>2, <1>3, <1>4, <1>5, <1>6 DEF AdoptNext

LEMMA TypeDelete ==
  ASSUME TypeOK, NEW c \in Claims, DeleteNext(c) \/ BrokerNext(c) \/ HandlerList(c)
  PROVE  TypeOK'
<1> USE BindingAssumption
<1>1. ASSUME DeleteReleases(c) PROVE TypeOK'
  BY <1>1 DEF DeleteReleases, Gone, TypeOK, nodeVars, pVars, aVars, dVars, kVars
<1>2. ASSUME DeleteBound(c) PROVE TypeOK'
  BY <1>2 DEF DeleteBound, EnqueueRemove, TypeOK, claimVars, nodeVars, pVars, aVars, kVars
<1>3. ASSUME FindList(c) PROVE TypeOK'
  BY <1>3 DEF FindList, UsedIDs, TypeOK, claimVars, nodeVars, pVars, aVars, kVars
<1>4. ASSUME NEW n \in Nodes, FindNode(c, n) PROVE TypeOK'
  <2>1. /\ dUsed' \in [Claims -> (SUBSET Nodes) \cup {NotSearching}]
        /\ remove' \in [Claims -> Nodes \cup {NoID}]
    BY <1>4 DEF FindNode, EnqueueRemove, TypeOK
  <2> QED
    BY <1>4, <2>1 DEF FindNode, TypeOK, claimVars, nodeVars, pVars, aVars, kVars
<1>5. ASSUME FindNothing(c) PROVE TypeOK'
  <2>1. /\ dUsed' \in [Claims -> (SUBSET Nodes) \cup {NotSearching}]
        /\ life' \in [Claims -> {"none", "live", "deleting", "gone"}]
        /\ order' \in [Claims -> {"none", "sent", "built", "failed", "over"}]
    BY <1>5 DEF FindNothing, Gone, TypeOK
  <2>2. faults' \in 0..MaxFaults
    BY <1>5 DEF FindNothing, Fault, TypeOK
  <2> QED
    BY <1>5, <2>1, <2>2 DEF FindNothing, TypeOK, nodeVars, pVars, aVars, kVars
<1>6. ASSUME RemoveSucceeds(c) PROVE TypeOK'
  <2>1. node' \in [Nodes -> NodeObject]
    BY <1>6, NodeMoves DEF RemoveSucceeds, TypeOK
  <2> QED
    BY <1>6, <2>1 DEF RemoveSucceeds, TypeOK, claimVars, pVars, aVars, kVars
<1>7. ASSUME RemoveFails(c) PROVE TypeOK'
  BY <1>7 DEF RemoveFails, Fault, TypeOK, claimVars, nodeVars, pVars, aVars, kVars
<1>8. ASSUME AddFails(c) PROVE TypeOK'
  BY <1>8 DEF AddFails, Fault, TypeOK, claimVars, nodeVars, pVars, aVars, dVars, kVars
<1>9. ASSUME HandlerList(c) PROVE TypeOK'
  BY <1>9 DEF HandlerList, TypeOK, claimVars, nodeVars, pVars, aVars, dVars
<1> QED
  BY <1>1, <1>2, <1>3, <1>4, <1>5, <1>6, <1>7, <1>8, <1>9 DEF DeleteNext, BrokerNext

(* Every reachable state is well typed; in particular a remove names a     *)
(* node that exists, never the pending ID of a claim whose node Delete()   *)
(* has not found.                                                          *)
THEOREM TypeCorrect == Spec => []TypeOK
<1> USE BindingAssumption
<1>1. Init => TypeOK
  <2>1. Absent \in NodeObject
    BY DEF Absent, NodeObject
  <2>2. Init => /\ cache \in [Nodes -> NodeObject] /\ aView \in [Nodes -> NodeObject]
                /\ dUsed \in [Claims -> (SUBSET Nodes) \cup {NotSearching}]
                /\ joined \in [Nodes -> 0..MaxClock] /\ born \in [Claims -> 0..MaxClock]
    BY <2>1 DEF Init
  <2> QED
    BY <2>2 DEF Init, TypeOK
<1>2. TypeOK /\ [Next]_vars => TypeOK'
  <2> SUFFICES ASSUME TypeOK, [Next]_vars PROVE TypeOK'
    OBVIOUS
  <2>1. ASSUME Tick PROVE TypeOK'
    BY <2>1 DEF Tick, TypeOK, claimVars, nodeVars, pVars, aVars, dVars, kVars
  <2>2. ASSUME HandlerDelete PROVE TypeOK'
    BY <2>2 DEF HandlerDelete, TypeOK, nodeVars, pVars, aVars, dVars
  <2>3. ASSUME NEW n \in Nodes, NodeReady(n) PROVE TypeOK'
    <3>1. node' \in [Nodes -> NodeObject]
      BY <2>3, NodeMoves DEF NodeReady, TypeOK
    <3> QED
      BY <2>3, <3>1 DEF NodeReady, TypeOK, claimVars, pVars, aVars, dVars, kVars
  <2>4. ASSUME NEW n \in Nodes, CacheSync(n) PROVE TypeOK'
    BY <2>4 DEF CacheSync, TypeOK, claimVars, nodeVars, pVars, aVars, dVars, kVars
  <2>5. ASSUME UNCHANGED vars PROVE TypeOK'
    BY <2>5 DEF vars, TypeOK, claimVars, nodeVars, pVars, aVars, dVars, kVars
  <2> QED
    BY <2>1, <2>2, <2>3, <2>4, <2>5, TypeKarpenter, TypeProvider, TypeAdopt, TypeDelete
    DEF Next
<1> QED
  BY <1>1, <1>2, PTL DEF Spec


----------------------------------------------------------------------------
(* What each part of the system leaves alone.                              *)

LEMMA KarpenterFrame ==
  ASSUME NEW c \in Claims, KarpenterNext(c)
  PROVE  UNCHANGED <<adopt, cache, pVars, aVars, dVars, hClaim>>
BY DEF KarpenterNext, NewClaim, CreateSends, CreateLaunches, CreateAdopted, DeleteClaim,
       Registers, GarbageCollects, NodeJoins, claimVars, kVars

LEMMA ProviderFrame ==
  ASSUME ProviderNext \/ \E c \in Claims : ProviderList(c)
  PROVE  UNCHANGED <<life, adopt, born, order, nodeVars, cache, aVars, dVars, kVars>>
BY DEF ProviderNext, ProviderList, ProviderWaits, ProviderPatch, claimVars

LEMMA AdoptFrame ==
  ASSUME AdoptNext
  PROVE  UNCHANGED <<pid, order, joined, builtFor, cache, pVars, dVars, kVars>>
BY DEF AdoptNext, AdoptNodes, AdoptClaims, AdoptCreateFails, AdoptEnds, AdoptPrepare,
       AdoptPrepareFails, AdoptCreate, claimVars, nodeVars

LEMMA DeleteFrame ==
  ASSUME NEW c \in Claims, DeleteNext(c) \/ BrokerNext(c) \/ HandlerList(c)
  PROVE  UNCHANGED <<pid, adopt, born, joined, builtFor, cache, pVars, aVars, registered>>
BY DEF DeleteNext, BrokerNext, DeleteReleases, DeleteBound, FindList, FindNothing, FindNode,
       RemoveSucceeds, RemoveFails, AddFails, HandlerList, claimVars, nodeVars, kVars

(* Steps of the clock, the nodes, the cache and the handler.               *)
LEMMA OtherFrame ==
  ASSUME Tick \/ HandlerDelete \/ UNCHANGED vars \/ \E n \in Nodes : NodeReady(n) \/ CacheSync(n)
  PROVE  UNCHANGED <<pid, adopt, born, joined, builtFor, pVars, aVars, registered>>
BY DEF Tick, HandlerDelete, NodeReady, CacheSync, vars, claimVars, nodeVars, kVars

(* How a claim may change: it is born once, with its annotation; Create    *)
(* gives it its first ID while it exists, and a pending one is bound while *)
(* it is live; a node's ID is final.                                       *)
ClaimMoves(c) ==
  /\ life'[c] = "none" => life[c] = "none"
  /\ life'[c] = "live" => life[c] \in {"none", "live"}
  /\ life'[c] \in {"live", "deleting"} => life[c] \in {"none", "live", "deleting"}
  /\ adopt'[c] # adopt[c] => life[c] = "none" /\ life'[c] = "live"
  /\ born'[c] # born[c] => life[c] = "none"
  /\ pid'[c] # pid[c] => /\ Exists(c)
                         /\ \/ pid[c] = NoID /\ pid'[c] = Pending
                            \/ pid[c] = NoID /\ pid'[c] = adopt[c] /\ adopt[c] # NoID
                            \/ /\ pid[c] = Pending /\ life[c] = "live"
                               /\ c = pClaim /\ pid'[c] \in Nodes

LEMMA ClaimsMove ==
  ASSUME TypeOK, [Next]_vars, NEW c \in Claims
  PROVE  ClaimMoves(c)
<1> USE BindingAssumption
<1>0. /\ life \in [Claims -> {"none", "live", "deleting", "gone"}]
      /\ pid \in [Claims -> Nodes \cup {NoID, Pending}]
      /\ adopt \in [Claims -> Nodes \cup {NoID}] /\ born \in [Claims -> 0..MaxClock]
      /\ pClaim \in Claims \cup {NoClaim} /\ hClaim \in Claims \cup {NoClaim}
  BY DEF TypeOK
<1>1. ASSUME NEW d \in Claims, KarpenterNext(d) PROVE ClaimMoves(c)
  <2>1. UNCHANGED adopt
    BY <1>1, KarpenterFrame
  <2>2. CASE NewClaim(d)
    BY <1>0, <2>1, <2>2 DEF NewClaim, ClaimMoves
  <2>3. CASE CreateLaunches(d) \/ CreateAdopted(d)
    BY <1>0, <2>1, <2>3 DEF CreateLaunches, CreateAdopted, ClaimMoves, Exists
  <2>4. CASE DeleteClaim(d) \/ GarbageCollects(d)
    BY <1>0, <2>1, <2>4 DEF DeleteClaim, GarbageCollects, ClaimMoves
  <2>5. CASE CreateSends(d) \/ Registers(d) \/ \E n \in Nodes : NodeJoins(d, n)
    BY <1>0, <2>5 DEF CreateSends, Registers, NodeJoins, claimVars, ClaimMoves
  <2> QED
    BY <1>1, <2>2, <2>3, <2>4, <2>5 DEF KarpenterNext
<1>2. ASSUME ProviderNext \/ \E d \in Claims : ProviderList(d) PROVE ClaimMoves(c)
  <2>1. UNCHANGED <<life, adopt, born>>
    BY <1>2, ProviderFrame
  <2>2. CASE ProviderWaits \/ \E d \in Claims : ProviderList(d)
    BY <1>0, <2>1, <2>2 DEF ProviderWaits, ProviderList, claimVars, ClaimMoves
  <2>3. ASSUME NEW n \in Nodes, ProviderPatch(n) PROVE ClaimMoves(c)
    BY <1>0, <2>1, <2>3 DEF ProviderPatch, OptimisticLock, ClaimMoves, Exists
  <2> QED
    BY <1>2, <2>2, <2>3 DEF ProviderNext
<1>3. ASSUME AdoptNext PROVE ClaimMoves(c)
  <2>1. UNCHANGED pid
    BY <1>3, AdoptFrame
  <2>2. ASSUME NEW d \in Claims, AdoptCreate(d) PROVE ClaimMoves(c)
    BY <1>0, <2>1, <2>2 DEF AdoptCreate, ClaimMoves
  <2>3. ASSUME ~\E d \in Claims : AdoptCreate(d) PROVE ClaimMoves(c)
    <3>1. UNCHANGED claimVars
      BY <1>3, <2>3 DEF AdoptNext, AdoptNodes, AdoptClaims, AdoptCreateFails, AdoptEnds,
        AdoptPrepare, AdoptPrepareFails
    <3> QED
      BY <1>0, <3>1 DEF claimVars, ClaimMoves
  <2> QED
    BY <2>2, <2>3
<1>4. ASSUME NEW d \in Claims, DeleteNext(d) \/ BrokerNext(d) \/ HandlerList(d)
      PROVE  ClaimMoves(c)
  <2>1. UNCHANGED <<pid, adopt, born>>
    BY <1>4, DeleteFrame
  <2>2. life' = life \/ life' = [life EXCEPT ![d] = "gone"]
    BY <1>4 DEF DeleteNext, BrokerNext, DeleteReleases, DeleteBound, FindList, FindNothing,
      FindNode, Gone, RemoveSucceeds, RemoveFails, AddFails, HandlerList, claimVars
  <2> QED
    BY <1>0, <2>1, <2>2 DEF ClaimMoves
<1>5. ASSUME Tick \/ HandlerDelete \/ UNCHANGED vars
             \/ \E n \in Nodes : NodeReady(n) \/ CacheSync(n)
      PROVE  ClaimMoves(c)
  <2>1. UNCHANGED <<pid, adopt, born>>
    BY <1>5, OtherFrame
  <2>2. life' = life \/ HandlerDelete
    BY <1>5 DEF Tick, NodeReady, CacheSync, vars, claimVars
  <2> QED
    BY <1>0, <2>1, <2>2 DEF HandlerDelete, ClaimMoves
<1> QED
  BY <1>1, <1>2, <1>3, <1>4, <1>5 DEF Next

(* A launched claim under deletion keeps the provider ID it has: a patch   *)
(* decided before the deletion fails the optimistic lock.                  *)
THEOREM DeletingIsFinal == Spec => DeletingKeepsID
<1>1. TypeOK /\ [Next]_vars =>
        \A c \in Claims : life[c] = "deleting" /\ pid[c] # NoID => pid'[c] = pid[c]
  BY ClaimsMove DEF ClaimMoves
<1> QED
  BY <1>1, TypeCorrect, PTL DEF Spec, DeletingKeepsID

----------------------------------------------------------------------------
(* NodeProviderIDController.                                               *)

LEMMA BindStep ==
  ASSUME TypeOK, BindInv, [Next]_vars
  PROVE  BindInv'
<1> USE BindingAssumption
<1>0. /\ pid \in [Claims -> Nodes \cup {NoID, Pending}]
      /\ pClaim \in Claims \cup {NoClaim} /\ pUsed \subseteq Nodes
  BY DEF TypeOK
<1>1. BlankUntilBorn'
  BY ClaimsMove DEF BindInv, BlankUntilBorn, ClaimMoves, Exists
<1>2. \A c \in Claims : ScaleOut(c)' /\ pid'[c] \in Nodes =>
        ScaleOut(c) /\ (pid'[c] = pid[c] \/ (c = pClaim /\ pid[c] = Pending /\ pid' # pid))
  BY <1>0, ClaimsMove DEF BindInv, BlankUntilBorn, ScaleOut, Exists, ClaimMoves
<1>3. ASSUME NEW n \in Nodes, ProviderPatch(n) PROVE UsedIDsComplete' /\ OneScaleOutPerNode'
  <2>1. pClaim \in Claims /\ pClaim' = NoClaim /\ n \notin pUsed
    BY <1>0, <1>3 DEF ProviderPatch, ProviderChoice
  <2>2. \A c \in Claims : ScaleOut(c) /\ pid[c] \in Nodes => pid[c] # n
    BY <2>1 DEF BindInv, UsedIDsComplete
  <2>3. pid' = pid \/ pid' = [pid EXCEPT ![pClaim] = n]
    BY <1>3 DEF ProviderPatch
  <2>4. UsedIDsComplete'
    BY <2>1 DEF UsedIDsComplete
  <2>5. OneScaleOutPerNode'
    BY <1>0, <1>2, <2>1, <2>2, <2>3 DEF BindInv, OneScaleOutPerNode
  <2> QED
    BY <2>4, <2>5
<1>4. ASSUME ~\E n \in Nodes : ProviderPatch(n) PROVE UsedIDsComplete' /\ OneScaleOutPerNode'
  <2>1. \A c \in Claims : ScaleOut(c)' /\ pid'[c] \in Nodes => ScaleOut(c) /\ pid'[c] = pid[c]
    <3>1. CASE \E c \in Claims : KarpenterNext(c)
      BY <1>0, <1>2, <3>1 DEF KarpenterNext, NewClaim, CreateSends, CreateLaunches, CreateAdopted,
        DeleteClaim, Registers, GarbageCollects, NodeJoins, claimVars, ScaleOut
    <3>2. CASE pid' = pid
      BY <1>2, <3>2
    <3> QED
      BY <1>4, <3>1, <3>2, AdoptFrame, DeleteFrame, OtherFrame
      DEF Next, ProviderNext, ProviderWaits, ProviderList, claimVars
  <2>2. OneScaleOutPerNode'
    BY <2>1 DEF BindInv, OneScaleOutPerNode
  <2>3. ASSUME NEW c \in Claims, ProviderList(c) PROVE UsedIDsComplete'
    BY <2>1, <2>3 DEF ProviderList, UsedIDs, UsedIDsComplete, ScaleOut, Exists
  <2>4. ASSUME UNCHANGED pVars PROVE UsedIDsComplete'
    BY <2>1, <2>4 DEF pVars, BindInv, UsedIDsComplete
  <2>5. ASSUME ProviderWaits PROVE UsedIDsComplete'
    BY <2>5 DEF ProviderWaits, UsedIDsComplete
  <2> QED
    BY <1>4, <2>2, <2>3, <2>4, <2>5, KarpenterFrame, AdoptFrame, DeleteFrame, OtherFrame
    DEF Next, ProviderNext
<1> QED
  BY <1>1, <1>3, <1>4 DEF BindInv

LEMMA BindInvariant == Spec => []BindInv
<1>1. Init => BindInv
  BY BindingAssumption
  DEF Init, BindInv, BlankUntilBorn, UsedIDsComplete, OneScaleOutPerNode, ScaleOut, Exists
<1>2. TypeOK /\ BindInv /\ [Next]_vars => BindInv'
  BY BindStep
<1> QED
  BY <1>1, <1>2, TypeCorrect, PTL DEF Spec

(* No two scale-outs are bound to one node, for any number of claims and   *)
(* nodes: one reconcile at a time and an uncached usedIDs suffice, however *)
(* stale its view of the nodes is.                                         *)
THEOREM ScaleOutsKeepApart == Spec => []OneScaleOutPerNode
<1>1. BindInv => OneScaleOutPerNode
  BY DEF BindInv
<1> QED
  BY <1>1, BindInvariant, PTL

----------------------------------------------------------------------------
(* The nodes, and what the cache and the adoption pass see of them.        *)

(* How a node may change.                                                  *)
NodeSteps(n) ==
  /\ Foreseen(node[n], node'[n])
  /\ node[n].st # "none" => joined'[n] = joined[n] /\ builtFor'[n] = builtFor[n]
  /\ node'[n].st = "none" => node'[n] = node[n]

LEMMA NodesMove ==
  ASSUME TypeOK, LoopReady, BlankUntilJoined, [Next]_vars, NEW n \in Nodes
  PROVE  NodeSteps(n)
<1>0. /\ node \in [Nodes -> NodeObject] /\ joined \in [Nodes -> 0..MaxClock]
      /\ builtFor \in [Nodes -> Claims \cup {NoClaim}]
      /\ remove \in [Claims -> Nodes \cup {NoID}]
  BY DEF TypeOK
<1>1. ASSUME NEW c \in Claims, NEW m \in Nodes, NodeJoins(c, m) PROVE NodeSteps(n)
  <2>1. PICK stamped \in Stamps :
          node' = [node EXCEPT ![m] = [st |-> "joined", id |-> stamped, reg |-> FALSE]]
    BY <1>1 DEF NodeJoins
  <2>2. node[m].st = "none" /\ ~node[m].id
    BY <1>1 DEF NodeJoins, BlankUntilJoined
  <2>3. CASE n # m
    BY <1>0, <1>1, <2>1, <2>3 DEF NodeJoins, NodeSteps, Foreseen
  <2>4. CASE n = m
    BY <1>0, <1>1, <2>1, <2>2, <2>4 DEF NodeJoins, NodeSteps, Foreseen
  <2> QED
    BY <2>3, <2>4
<1>2. ASSUME NEW m \in Nodes, NodeReady(m) PROVE NodeSteps(n)
  <2>1. node' = [k \in Nodes |-> IF k = m THEN [st |-> "ready", id |-> node[m].id, reg |-> node[m].reg]
                                          ELSE node[k]]
    BY <1>0, <1>2, NodeMoves DEF NodeReady
  <2> QED
    BY <1>0, <1>2, <2>1 DEF NodeReady, NodeSteps, Foreseen
<1>3. ASSUME NEW c \in Claims, RemoveSucceeds(c) PROVE NodeSteps(n)
  <2>1. remove[c] \in Nodes
    BY <1>0, <1>3 DEF RemoveSucceeds
  <2>2. node' = [k \in Nodes |-> IF k = remove[c]
                   THEN [st |-> "gone", id |-> node[remove[c]].id, reg |-> node[remove[c]].reg]
                   ELSE node[k]]
    BY <1>0, <1>3, <2>1, NodeMoves DEF RemoveSucceeds
  <2>3. UNCHANGED <<joined, builtFor>>
    BY <1>3 DEF RemoveSucceeds
  <2>4. CASE n = remove[c]
    <3>1. node'[n].st = "gone" /\ node'[n].id = node[n].id
      BY <2>2, <2>4
    <3> QED
      BY <2>3, <3>1 DEF NodeSteps, Foreseen
  <2>5. CASE n # remove[c]
    BY <2>2, <2>3, <2>5 DEF NodeSteps, Foreseen
  <2> QED
    BY <2>4, <2>5
<1>4. ASSUME NEW m \in Nodes, AdoptPrepare(m) PROVE NodeSteps(n)
  <2>1. node' = node \/ (node[m].st = "ready" /\ node' = [node EXCEPT ![m] = Prepared])
    BY <1>4 DEF AdoptPrepare, NodeLock, ToAdopt, LoopReady
  <2>2. UNCHANGED <<joined, builtFor>>
    BY <1>4 DEF AdoptPrepare
  <2> QED
    BY <1>0, <2>1, <2>2 DEF Prepared, NodeSteps, Foreseen
<1>5. ASSUME UNCHANGED nodeVars PROVE NodeSteps(n)
  BY <1>5 DEF nodeVars, NodeSteps, Foreseen
<1>6. ASSUME NEW c \in Claims, KarpenterNext(c), ~\E m \in Nodes : NodeJoins(c, m)
      PROVE  UNCHANGED nodeVars
  BY <1>6 DEF KarpenterNext, NewClaim, CreateSends, CreateLaunches, CreateAdopted, DeleteClaim,
    Registers, GarbageCollects
<1>7. ASSUME AdoptNext, ~\E m \in Nodes : AdoptPrepare(m) PROVE UNCHANGED nodeVars
  BY <1>7 DEF AdoptNext, AdoptNodes, AdoptClaims, AdoptCreateFails, AdoptEnds, AdoptPrepareFails,
    AdoptCreate
<1>8. ASSUME NEW c \in Claims, DeleteNext(c) \/ BrokerNext(c) \/ HandlerList(c), ~RemoveSucceeds(c)
      PROVE  UNCHANGED nodeVars
  BY <1>8 DEF DeleteNext, BrokerNext, DeleteReleases, DeleteBound, FindList, FindNothing, FindNode,
    RemoveFails, AddFails, HandlerList
<1>9. ASSUME Tick \/ HandlerDelete \/ UNCHANGED vars \/ \E m \in Nodes : CacheSync(m)
      PROVE  UNCHANGED nodeVars
  BY <1>9 DEF Tick, HandlerDelete, CacheSync, vars
<1> QED
  BY <1>1, <1>2, <1>3, <1>4, <1>5, <1>6, <1>7, <1>8, <1>9, ProviderFrame DEF Next

(* How the adoption pass moves its view of a node: it takes it from the    *)
(* cache, or drops it.                                                     *)
ViewSteps(n) == aView'[n] \in {aView[n], Absent} \/ (aPC = "idle" /\ aView'[n] = cache[n])

LEMMA ViewsMove ==
  ASSUME TypeOK, LoopReady, [Next]_vars
  PROVE  LoopReady' /\ \A n \in Nodes : ViewSteps(n)
<1>0. aView \in [Nodes -> NodeObject]
  BY DEF TypeOK
<1>1. ASSUME AdoptNodes \/ AdoptEnds PROVE LoopReady' /\ \A n \in Nodes : ViewSteps(n)
  BY <1>1 DEF AdoptNodes, AdoptEnds, LoopReady, ViewSteps
<1>2. ASSUME AdoptClaims PROVE LoopReady' /\ \A n \in Nodes : ViewSteps(n)
  BY <1>0, <1>2 DEF AdoptClaims, Eligible, LoopReady, ViewSteps
<1>3. ASSUME AdoptCreateFails \/ \E c \in Claims : AdoptCreate(c)
      PROVE  LoopReady' /\ \A n \in Nodes : ViewSteps(n)
  BY <1>0, <1>3 DEF AdoptCreateFails, AdoptCreate, LoopReady, ViewSteps
<1>4. ASSUME NEW m \in Nodes, AdoptPrepare(m) \/ AdoptPrepareFails(m)
      PROVE  LoopReady' /\ \A n \in Nodes : ViewSteps(n)
  BY <1>0, <1>4 DEF AdoptPrepare, AdoptPrepareFails, LoopReady, ViewSteps
<1>5. ASSUME UNCHANGED aVars PROVE LoopReady' /\ \A n \in Nodes : ViewSteps(n)
  BY <1>5 DEF aVars, LoopReady, ViewSteps
<1> QED
  BY <1>1, <1>2, <1>3, <1>4, <1>5, KarpenterFrame, ProviderFrame, DeleteFrame, OtherFrame
  DEF Next, AdoptNext

(* The cache copies nodes.                                                 *)
LEMMA CacheMoves ==
  ASSUME TypeOK, [Next]_vars, NEW n \in Nodes
  PROVE  cache'[n] \in {cache[n], node[n]}
<1>1. ASSUME Tick \/ HandlerDelete \/ UNCHANGED vars \/ \E m \in Nodes : NodeReady(m)
      PROVE  cache' = cache
  BY <1>1 DEF Tick, HandlerDelete, NodeReady, vars
<1>2. cache' = cache \/ \E m \in Nodes : cache' = [cache EXCEPT ![m] = node[m]]
  BY <1>1, KarpenterFrame, ProviderFrame, AdoptFrame, DeleteFrame DEF Next, CacheSync
<1> QED
  BY <1>2 DEF TypeOK

LEMMA ViewStep ==
  ASSUME TypeOK, NodeViews, [Next]_vars
  PROVE  NodeViews'
<1>1. LoopReady' /\ \A n \in Nodes : ViewSteps(n) /\ NodeSteps(n)
  BY ViewsMove, NodesMove DEF NodeViews
<1>2. \A n \in Nodes : cache'[n] \in {cache[n], node[n]}
  BY CacheMoves
<1>3. BlankUntilJoined'
  BY <1>1, <1>2 DEF NodeViews, BlankUntilJoined, NodeSteps
<1>4. ViewsLag'
  <2>1. ASSUME NEW n \in Nodes PROVE Foreseen(cache'[n], node'[n])
    BY <1>1, <1>2 DEF NodeViews, ViewsLag, NodeSteps, Foreseen
  <2>2. ASSUME NEW n \in Nodes PROVE Foreseen(aView'[n], node'[n])
    BY <1>1 DEF NodeViews, ViewsLag, NodeSteps, ViewSteps, Foreseen, Absent
  <2> QED
    BY <2>1, <2>2 DEF ViewsLag, Foreseen
<1> QED
  BY <1>1, <1>3, <1>4 DEF NodeViews

LEMMA ViewsInvariant == Spec => []NodeViews
<1>1. Init => NodeViews
  BY DEF Init, NodeViews, ViewsLag, BlankUntilJoined, LoopReady, Foreseen, Absent
<1>2. TypeOK /\ NodeViews /\ [Next]_vars => NodeViews'
  BY ViewStep
<1> QED
  BY <1>1, <1>2, TypeCorrect, PTL DEF Spec


(* Garbage collection never deletes the claim of a node that is in the     *)
(* cluster: once the cache has shown the ID of a registered claim, List()  *)
(* leaves the node out only when it has been removed.                      *)
THEOREM CollectionIsSafe == Spec => CollectionSparesNodes
<1>1. Init => RegisteredSeen
  BY DEF Init, RegisteredSeen
<1>2. ASSUME TypeOK, NodeViews, RegisteredSeen, [Next]_vars PROVE RegisteredSeen'
  <2>1. registered' = registered \/ \E c \in Claims : Registers(c)
    <3>1. ASSUME NEW c \in Claims, KarpenterNext(c), ~Registers(c) PROVE registered' = registered
      BY <3>1 DEF KarpenterNext, NewClaim, CreateSends, CreateLaunches, CreateAdopted,
        DeleteClaim, GarbageCollects, NodeJoins, kVars
    <3> QED
      BY <1>2, <3>1, ProviderFrame, AdoptFrame, DeleteFrame, OtherFrame DEF Next, kVars
  <2>2. \A c \in registered' : c \in Claims /\ pid[c] \in Nodes /\ cache[pid[c]].id
    BY <1>2, <2>1 DEF Registers, RegisteredSeen, TypeOK
  <2>3. ASSUME NEW c \in registered' PROVE pid'[c] = pid[c]
    BY <1>2, <2>2, ClaimsMove, BindingAssumption DEF ClaimMoves
  <2>4. ASSUME NEW n \in Nodes, cache[n].id PROVE cache'[n].id
    BY <1>2, <2>4, CacheMoves DEF NodeViews, ViewsLag, Foreseen
  <2> QED
    BY <2>2, <2>3, <2>4 DEF RegisteredSeen
<1>3. ASSUME TypeOK, NodeViews, RegisteredSeen, NEW c \in Claims, GarbageCollects(c)
      PROVE  node[pid[c]].st \notin {"joined", "ready"}
  <2> DEFINE n == pid[c]
  <2>1. n \in Nodes /\ cache[n].id /\ n \notin Listed
    BY <1>3 DEF GarbageCollects, RegisteredSeen
  <2>2. cache[n].st \in {"none", "gone"}
    BY <1>3, <2>1 DEF Listed, TypeOK, NodeObject
  <2>3. cache[n].st = "gone"
    BY <1>3, <2>1, <2>2 DEF NodeViews, BlankUntilJoined
  <2> QED
    BY <1>3, <2>1, <2>3 DEF NodeViews, ViewsLag, Foreseen
<1>4. TypeOK /\ NodeViews /\ RegisteredSeen =>
        \A c \in Claims : GarbageCollects(c) => node[pid[c]].st \notin {"joined", "ready"}
  BY <1>3
<1> QED
  BY <1>1, <1>2, <1>4, TypeCorrect, ViewsInvariant, PTL DEF Spec, CollectionSparesNodes

----------------------------------------------------------------------------
(* The adoption controller.                                                *)

(* Only AdoptCreate makes a claim speak for a node in its annotation.      *)
LEMMA AdoptionsMove ==
  ASSUME TypeOK, BlankUntilBorn, [Next]_vars, ~\E d \in Claims : AdoptCreate(d)
  PROVE  /\ adopt' = adopt
         /\ \A c \in Claims : adopt[c] # NoID /\ Exists(c)' => Exists(c)
         /\ \A n \in Nodes : Adopted(n)' => Adopted(n)
<1>1. adopt' = adopt
  <2>1. ASSUME AdoptNext PROVE adopt' = adopt
    BY <2>1 DEF AdoptNext, AdoptNodes, AdoptClaims, AdoptCreateFails, AdoptEnds, AdoptPrepare,
      AdoptPrepareFails, claimVars
  <2> QED
    BY <2>1, KarpenterFrame, ProviderFrame, DeleteFrame, OtherFrame DEF Next
<1>2. \A c \in Claims : adopt[c] # NoID /\ Exists(c)' => Exists(c)
  BY ClaimsMove DEF BlankUntilBorn, ClaimMoves, Exists
<1> QED
  BY <1>1, <1>2, BindingAssumption DEF Adopted

LEMMA AdoptionCreates ==
  ASSUME TypeOK, NodeViews, BlankUntilBorn, AdoptInv, [Next]_vars,
         NEW d \in Claims, AdoptCreate(d)
  PROVE  AdoptInv'
<1> USE BindingAssumption
<1>1. /\ life[d] = "none" /\ adopt' = [adopt EXCEPT ![d] = aNode]
      /\ life' = [life EXCEPT ![d] = "live"] /\ aView' = [aView EXCEPT ![aNode] = Absent]
      /\ aPC = "create" /\ aPC' = "loop" /\ node' = node
  BY DEF AdoptCreate, nodeVars
<1>2. /\ aNode \in Nodes /\ ~Adopted(aNode) /\ node[aNode].st # "none" /\ node[aNode].id
      /\ \A n \in Nodes : aView[n].id => ~Adopted(n)
  BY <1>1 DEF AdoptInv, LoopSparesAdopted
<1>3. /\ adopt \in [Claims -> Nodes \cup {NoID}] /\ aView \in [Nodes -> NodeObject]
      /\ life \in [Claims -> {"none", "live", "deleting", "gone"}]
  BY DEF TypeOK
<1>4. \A n \in Nodes : Adopted(n)' => Adopted(n) \/ n = aNode
  BY <1>1, <1>3 DEF Adopted, Exists
<1>5. AdoptedPrepared'
  BY <1>1, <1>2, <1>3 DEF AdoptInv, AdoptedPrepared
<1>6. LoopSparesAdopted'
  BY <1>1, <1>2, <1>3, <1>4 DEF LoopSparesAdopted, Absent
<1>7. OneAdoptionPerNode'
  BY <1>1, <1>2, <1>3 DEF AdoptInv, OneAdoptionPerNode, Adopted, Exists
<1> QED
  BY <1>5, <1>6, <1>7 DEF AdoptInv

LEMMA AdoptStep ==
  ASSUME TypeOK, NodeViews, BlankUntilBorn, AdoptInv, [Next]_vars
  PROVE  AdoptInv'
<1> USE BindingAssumption
<1>1. CASE \E d \in Claims : AdoptCreate(d)
  BY <1>1, AdoptionCreates
<1>2. CASE ~\E d \in Claims : AdoptCreate(d)
  <2>1. /\ adopt' = adopt
        /\ \A c \in Claims : adopt[c] # NoID /\ Exists(c)' => Exists(c)
        /\ \A n \in Nodes : Adopted(n)' => Adopted(n)
    BY <1>2, AdoptionsMove
  <2>2. \A n \in Nodes : NodeSteps(n)
    BY NodesMove DEF NodeViews
  <2>3. AdoptedPrepared'
    BY <2>1, <2>2 DEF AdoptInv, AdoptedPrepared, NodeSteps, Foreseen, TypeOK
  <2>4. OneAdoptionPerNode'
    BY <2>1 DEF AdoptInv, OneAdoptionPerNode
  <2>5. aView \in [Nodes -> NodeObject]
    BY DEF TypeOK
  <2>6. ASSUME AdoptClaims PROVE LoopSparesAdopted'
    <3>1. aPC' = "loop" /\ \A n \in Nodes : aView'[n].id => aView[n].id /\ Eligible(n)
      BY <2>5, <2>6 DEF AdoptClaims, Absent
    <3>2. \A n \in Nodes : aView[n].id /\ Eligible(n) => ~Adopted(n)
      BY DEF Eligible, ClaimedIDs, Adopted
    <3> QED
      BY <2>1, <3>1, <3>2 DEF LoopSparesAdopted
  <2>7. ASSUME NEW m \in Nodes, AdoptPrepare(m) PROVE LoopSparesAdopted'
    <3>1. aPC = "loop" /\ aPC' = "create" /\ aNode' = m /\ aView' = aView
      BY <2>7 DEF AdoptPrepare
    <3>2. CASE aView[m] = Prepared
      <4>1. ~Adopted(m) /\ node[m].st # "none" /\ node[m].id
        BY <3>1, <3>2
        DEF AdoptInv, LoopSparesAdopted, NodeViews, ViewsLag, Foreseen, Prepared
      <4> QED
        BY <2>1, <2>2, <3>1, <4>1 DEF AdoptInv, LoopSparesAdopted, NodeSteps, Foreseen
    <3>3. CASE aView[m] # Prepared
      <4>1. node[m] = aView[m] /\ node' = [node EXCEPT ![m] = Prepared]
        BY <2>7, <3>3 DEF AdoptPrepare, NodeLock
      <4>2. ~Adopted(m)
        BY <3>1, <4>1 DEF AdoptInv, LoopSparesAdopted, AdoptedPrepared, Adopted
      <4>3. node'[m].st # "none" /\ node'[m].id
        BY <4>1 DEF Prepared, TypeOK
      <4> QED
        BY <2>1, <3>1, <4>2, <4>3 DEF AdoptInv, LoopSparesAdopted
    <3> QED
      BY <3>2, <3>3
  <2>8. ASSUME AdoptCreateFails \/ \E m \in Nodes : AdoptPrepareFails(m)
        PROVE  LoopSparesAdopted'
    <3>1. aPC \in {"loop", "create"} /\ aPC' = "loop"
      BY <2>8 DEF AdoptCreateFails, AdoptPrepareFails
    <3>2. \A n \in Nodes : aView'[n] \in {aView[n], Absent}
      BY <2>5, <2>8 DEF AdoptCreateFails, AdoptPrepareFails
    <3> QED
      BY <2>1, <3>1, <3>2 DEF AdoptInv, LoopSparesAdopted, Absent
  <2>9. ASSUME AdoptNodes \/ AdoptEnds PROVE LoopSparesAdopted'
    BY <2>9 DEF AdoptNodes, AdoptEnds, LoopSparesAdopted
  <2>10. ASSUME UNCHANGED aVars PROVE LoopSparesAdopted'
    BY <2>1, <2>2, <2>10 DEF aVars, AdoptInv, LoopSparesAdopted, NodeSteps, Foreseen
  <2>11. LoopSparesAdopted'
    BY <1>2, <2>6, <2>7, <2>8, <2>9, <2>10, KarpenterFrame, ProviderFrame, DeleteFrame,
       OtherFrame DEF Next, AdoptNext
  <2> QED
    BY <2>3, <2>4, <2>11 DEF AdoptInv
<1> QED
  BY <1>1, <1>2

LEMMA AdoptInvariant == Spec => []AdoptInv
<1>1. Init => AdoptInv
  BY DEF Init, AdoptInv, AdoptedPrepared, LoopSparesAdopted, OneAdoptionPerNode, Exists
<1>2. BindInv => BlankUntilBorn
  BY DEF BindInv
<1>3. TypeOK /\ NodeViews /\ BlankUntilBorn /\ AdoptInv /\ [Next]_vars => AdoptInv'
  BY AdoptStep
<1> QED
  BY <1>1, <1>2, <1>3, TypeCorrect, ViewsInvariant, BindInvariant, PTL DEF Spec

(* The adoption controller never makes two claims for one node, for any    *)
(* number of nodes and passes: a pass that missed the last one's claim     *)
(* sees the node without its ID and fails the lock in prepareNode, and one *)
(* that sees the ID finds the claim in its List.                           *)
THEOREM AdoptionsKeepApart == Spec => []OneAdoptionPerNode
<1>1. AdoptInv => OneAdoptionPerNode
  BY DEF AdoptInv
<1> QED
  BY <1>1, AdoptInvariant, PTL

----------------------------------------------------------------------------
(* Both together: the machine a scale-out waits for.                       *)

(* A scale-out that has got its pending ID can only stop waiting.          *)
LEMMA AwaitedMoves ==
  ASSUME TypeOK, NodeViews, BuiltForSuits, [Next]_vars, NEW n \in Nodes,
         node[n].st # "none"
  PROVE  Awaited(n)' => Awaited(n)
<1>1. builtFor'[n] = builtFor[n]
  BY NodesMove DEF NodeViews, NodeSteps
<1>2. CASE builtFor[n] = NoClaim
  BY <1>1, <1>2 DEF Awaited
<1>3. CASE builtFor[n] # NoClaim
  <2>1. builtFor[n] \in Claims /\ pid[builtFor[n]] # NoID /\ life[builtFor[n]] # "none"
    BY <1>3 DEF TypeOK, BuiltForSuits
  <2> QED
    BY <1>1, <2>1, ClaimsMove, BindingAssumption DEF Awaited, ClaimMoves
<1> QED
  BY <1>2, <1>3

LEMMA BuiltForStep ==
  ASSUME TypeOK, NodeViews, BlankUntilBorn, BuiltForSuits, [Next]_vars
  PROVE  BuiltForSuits'
<1> USE BindingAssumption
<1> SUFFICES ASSUME NEW n \in Nodes, builtFor'[n] # NoClaim
             PROVE  /\ Suits(builtFor[n], n)' /\ pid'[builtFor'[n]] # NoID
                    /\ life'[builtFor'[n]] # "none" /\ node'[n].st # "none"
  BY DEF BuiltForSuits
<1>1. NodeSteps(n)
  BY NodesMove DEF NodeViews
<1>2. CASE builtFor'[n] = builtFor[n]
  <2>1. /\ builtFor[n] \in Claims /\ node[n].st # "none" /\ pid[builtFor[n]] # NoID
        /\ life[builtFor[n]] # "none" /\ Suits(builtFor[n], n)
    BY <1>2 DEF TypeOK, BuiltForSuits
  <2>2. ClaimMoves(builtFor[n])
    BY <2>1, ClaimsMove
  <2>3. /\ born'[builtFor[n]] = born[builtFor[n]] /\ joined'[n] = joined[n]
        /\ life'[builtFor[n]] # "none" /\ node'[n].st # "none"
    BY <1>1, <2>1, <2>2 DEF ClaimMoves, NodeSteps, Foreseen
  <2>4. pid'[builtFor[n]] # NoID
    BY <2>1, <2>2 DEF ClaimMoves
  <2> QED
    BY <1>2, <2>1, <2>3, <2>4 DEF Suits
<1>3. CASE builtFor'[n] # builtFor[n]
  <2>1. \E c \in Claims, m \in Nodes : NodeJoins(c, m)
    <3>1. ASSUME NEW c \in Claims, KarpenterNext(c), ~\E m \in Nodes : NodeJoins(c, m)
          PROVE  builtFor' = builtFor
      BY <3>1 DEF KarpenterNext, NewClaim, CreateSends, CreateLaunches, CreateAdopted,
        DeleteClaim, Registers, GarbageCollects, nodeVars
    <3> QED
      BY <1>3, <3>1, ProviderFrame, AdoptFrame, DeleteFrame, OtherFrame DEF Next, nodeVars
  <2>2. PICK c \in Claims, m \in Nodes : NodeJoins(c, m)
    BY <2>1
  <2>3. /\ m = n /\ builtFor'[n] = c /\ pid[c] = Pending /\ UNCHANGED claimVars
        /\ joined'[n] = clock /\ <<c, n>> \in Matches /\ clock > born[c]
    BY <1>3, <2>2 DEF NodeJoins, TypeOK
  <2>4. node'[n].st # "none"
    BY <2>2, <2>3 DEF NodeJoins, TypeOK
  <2> QED
    BY <2>3, <2>4 DEF claimVars, Suits, BlankUntilBorn
<1> QED
  BY <1>2, <1>3

LEMMA AwaitedStep ==
  ASSUME TypeOK, NodeViews, BlankUntilBorn, AdoptInv, AwaitInv, [Next]_vars
  PROVE  AwaitedSpared'
<1>0. BuiltForSuits /\ AwaitedSpared
  BY DEF AwaitInv
<1>1. ASSUME NEW n \in Nodes, node[n].st # "none", ~Awaited(n) PROVE ~Awaited(n)'
  BY <1>0, <1>1, AwaitedMoves
<1>2. ASSUME NEW n \in Nodes, aPC \in {"loop", "create"}, aView[n] # Absent
      PROVE  ~Awaited(n) /\ node[n].st # "none"
  BY <1>0, <1>2 DEF AwaitedSpared, NodeViews, LoopReady, ViewsLag, Foreseen
<1>3. aPC = "create" => aNode \in Nodes /\ ~Awaited(aNode) /\ node[aNode].st # "none"
  BY <1>0 DEF AwaitedSpared, AdoptInv, LoopSparesAdopted
<1>4. ASSUME NEW n \in Nodes, Adopted(n)' PROVE ~Awaited(n)'
  <2>1. CASE Adopted(n)
    <3>1. node[n].st # "none"
      BY <2>1, BindingAssumption DEF Adopted, AdoptInv, AdoptedPrepared
    <3> QED
      BY <1>0, <1>1, <2>1, <3>1 DEF AwaitedSpared
  <2>2. ASSUME NEW d \in Claims, AdoptCreate(d), ~Adopted(n) PROVE ~Awaited(n)'
    <3>1. n = aNode /\ aPC = "create"
      BY <1>4, <2>2 DEF AdoptCreate, Adopted, Exists, TypeOK
    <3> QED
      BY <1>1, <1>3, <3>1
  <2> QED
    BY <1>4, <2>1, <2>2, AdoptionsMove
<1>5. /\ aPC' \in {"loop", "create"} => \A n \in Nodes : aView'[n] # Absent => ~Awaited(n)'
      /\ aPC' = "create" => ~Awaited(aNode)'
  <2> DEFINE Goal == /\ aPC' \in {"loop", "create"} =>
                          \A n \in Nodes : aView'[n] # Absent => ~Awaited(n)'
                     /\ aPC' = "create" => ~Awaited(aNode)'
  <2>0. aView \in [Nodes -> NodeObject]
    BY DEF TypeOK
  <2>1. ASSUME AdoptClaims PROVE Goal
    <3>1. ASSUME NEW n \in Nodes, aView'[n] # Absent PROVE ~Awaited(n)'
      <4>1. Eligible(n)
        BY <2>0, <2>1, <3>1 DEF AdoptClaims
      <4>2. node[n].st # "none"
        BY <4>1 DEF Eligible, NodeViews, ViewsLag, Foreseen
      <4>3. ~Awaited(n)
        <5>1. ~\E c \in Claims : life[c] = "live" /\ pid[c] = Pending /\ Suits(c, n)
          BY <4>1 DEF Eligible, ClaimedByPendingClaim, PendingClaims
        <5> QED
          BY <1>0, <5>1 DEF Awaited, BuiltForSuits, TypeOK
      <4> QED
        BY <1>1, <4>2, <4>3
    <3> QED
      BY <2>1, <3>1 DEF AdoptClaims
  <2>2. ASSUME NEW m \in Nodes, AdoptPrepare(m) PROVE Goal
    <3>1. /\ aPC = "loop" /\ aView[m] # Absent /\ aNode' = m /\ aView' = aView
      BY <2>2 DEF AdoptPrepare, ToAdopt
    <3>2. \A n \in Nodes : aView[n] # Absent => ~Awaited(n)'
      BY <1>1, <1>2, <3>1
    <3>3. ~Awaited(m)'
      BY <3>1, <3>2
    <3>4. ~Awaited(aNode)'
      BY <3>1, <3>3 DEF Awaited
    <3> QED
      BY <3>1, <3>2, <3>4
  <2>3. ASSUME AdoptCreateFails \/ (\E m \in Nodes : AdoptPrepareFails(m))
               \/ \E d \in Claims : AdoptCreate(d)
        PROVE  Goal
    <3>1. /\ aPC \in {"loop", "create"} /\ aPC' = "loop"
          /\ \A n \in Nodes : aView'[n] \in {aView[n], Absent}
      BY <2>0, <2>3 DEF AdoptCreateFails, AdoptPrepareFails, AdoptCreate
    <3> QED
      BY <1>1, <1>2, <3>1
  <2>4. ASSUME AdoptNodes \/ AdoptEnds PROVE Goal
    BY <2>4 DEF AdoptNodes, AdoptEnds
  <2>5. ASSUME UNCHANGED aVars PROVE Goal
    <3>1. aPC' = aPC /\ aView' = aView /\ aNode' = aNode
      BY <2>5 DEF aVars
    <3>2. aPC = "create" => ~Awaited(aNode)'
      <4>1. aPC = "create" => (~Awaited(aNode) /\ aNode \in Nodes /\ node[aNode].st # "none")
        BY <1>3
      <4>2. ASSUME aPC = "create" PROVE Awaited(aNode)' => Awaited(aNode)
        <5>1. builtFor'[aNode] = builtFor[aNode]
          BY <4>1, <4>2, NodesMove DEF NodeViews, NodeSteps
        <5>2. PICK n \in Nodes : n = aNode
          BY <4>1, <4>2
        <5>3. Awaited(n)' => Awaited(n)
          BY <1>0, <4>1, <4>2, <5>2, AwaitedMoves
        <5> QED
          BY <3>1, <5>2, <5>3 DEF Awaited
      <4> QED
        BY <4>1, <4>2
    <3> QED
      BY <1>1, <1>2, <3>1, <3>2
  <2> QED
    BY <2>1, <2>2, <2>3, <2>4, <2>5, KarpenterFrame, ProviderFrame, DeleteFrame, OtherFrame
    DEF Next, AdoptNext
<1> QED
  BY <1>4, <1>5 DEF AwaitedSpared

(* Adoption does not take the machine that a launched scale-out waits for, *)
(* for any number of claims and nodes and whatever changes during a pass:  *)
(* nodes are listed before claims, and a claim that was not waiting for    *)
(* the node at the List of the claims will not wait for it later.          *)
THEOREM ScaleOutsKeepTheirMachine == Spec => []MachineNotRobbed
<1>1. Init => AwaitInv
  BY DEF Init, AwaitInv, BuiltForSuits, AwaitedSpared, Awaited
<1>2. BindInv => BlankUntilBorn
  BY DEF BindInv
<1>3. TypeOK /\ NodeViews /\ BlankUntilBorn /\ AdoptInv /\ AwaitInv /\ [Next]_vars => AwaitInv'
  BY BuiltForStep, AwaitedStep DEF AwaitInv
<1>4. AwaitInv => MachineNotRobbed
  BY BindingAssumption DEF AwaitInv, AwaitedSpared, Awaited, Adopted, MachineNotRobbed
<1> QED
  BY <1>1, <1>2, <1>3, <1>4, TypeCorrect, ViewsInvariant, BindInvariant, AdoptInvariant, PTL
  DEF Spec

=============================================================================
