---------------------------- MODULE LaunchProofs ----------------------------
(***************************************************************************)
(* Proofs about Launch, for every set of claims, nodes, class specs and    *)
(* demands and every bound.                                                *)
(***************************************************************************)
EXTENDS Launch, TLAPS

Objects == [spec: Specs, gen: 0..MaxEdits, ready: BOOLEAN,
            seen: (0..MaxEdits) \cup {None}, deleting: BOOLEAN]

(* One copy of the class is not newer than another one, and the same       *)
(* generation means the same spec.                                         *)
NotNewer(old, new) == old.gen <= new.gen /\ (old.gen = new.gen => old.spec = new.spec)

(* The Ready condition of a copy tells the truth about the generation it   *)
(* names, which is not from the future.                                    *)
Honest(obj) ==
  obj.ready => obj.seen \in 0..obj.gen /\ (obj.seen = obj.gen => Valid(obj.spec))

(* The class, the lagging copy in the cache and the one being reconciled.  *)
ClassInv ==
  /\ class \in Objects /\ cache \in Objects /\ work \in Objects \cup {None}
  /\ dirty \in BOOLEAN
  /\ NotNewer(cache, class) /\ Honest(class) /\ Honest(cache)
  /\ work # None => /\ NotNewer(work, class)
                    /\ work.seen = work.gen /\ work.ready = Valid(work.spec)

IsClaim(r) ==
  /\ r = [st |-> r.st, demand |-> r.demand, node |-> r.node, sku |-> r.sku,
          zone |-> r.zone, gen |-> r.gen]
  /\ r.st \in {"none", "new", "sent", "launched", "registered"}
  /\ r.node \in Nodes \cup {None} /\ r.gen \in 0..MaxEdits
  /\ r.st = "none" => r = NoClaim
  /\ r.st = "sent" => r.node = None
  /\ r.st # "none" /\ r.node = None => r.demand \in Demands
  /\ r.st = "registered" => r.node # None

(* Which fields of a claim mean something when; an adopted claim carries   *)
(* the zone label of its node, or the template's if the node has none.     *)
ClaimInv ==
  /\ claim = [c \in Claims |-> claim[c]] /\ zone = [n \in Nodes |-> zone[n]]
  /\ \A c \in Claims : /\ IsClaim(claim[c])
                       /\ claim[c].node # None => claim[c].zone = LabelZone(claim[c].node)

(* The SKU the selection yields from this copy of the class.               *)
Chosen(obj, d) ==
  {obj.spec[i].name : i \in Selected(obj.spec, d)}

(* The operation o of a claim r was selected from a copy of the class that *)
(* the cache has had, so that a call that still sees this generation       *)
(* selects the same SKU; what a claim was sent with is the operation's, if *)
(* of the same generation.                                                 *)
Ordered(r, o) ==
  /\ r.node # None => o = None
  /\ o # None =>
       /\ o \in [sku: STRING, gen: 0..cache.gen]
       /\ r.st # "none" /\ o.gen = cache.gen =>
            Converts(cache.spec) /\ o.sku \in Chosen(cache, r.demand)
  /\ r.st \in {"sent", "launched"} /\ r.node = None =>
       /\ o # None /\ r.sku \in STRING \ {None}
       /\ o.gen = r.gen => o.sku = r.sku

OrderInv ==
  /\ order = [c \in Claims |-> order[c]]
  /\ \A c \in Claims : Ordered(claim[c], order[c])

LaunchInv == ClassInv /\ ClaimInv /\ OrderInv

(* The bounds are numbers.                                                 *)
LEMMA Bounds == MaxEdits \in Nat /\ MaxFaults \in Nat
BY LaunchAssumption

----------------------------------------------------------------------------
(* The class.                                                              *)

(* What validateNodeClass accepts, getInstanceTypes converts.              *)
LEMMA ValidConverts ==
  ASSUME NEW spec, Valid(spec)
  PROVE  Converts(spec)
BY DEF Valid, Converts, Parses

(* A step on the claims leaves the class and its copies alone.             *)
LEMMA ClaimFrame ==
  ASSUME NEW c \in Claims, ClaimNext(c)
  PROVE  UNCHANGED <<class, cache, dirty, work, pool>>
BY DEF ClaimNext, CreateSends, CreateReturns, CreateFails, CreateRefuses, CreateAdopted,
       Register, NewClaim, Adopt, classVars

(* A step on the class leaves the claims and the nodes alone.              *)
LEMMA ClassFrame ==
  ASSUME ClassNext
  PROVE  UNCHANGED <<pool, claim, order, zone>>
BY DEF ClassNext, Edit, CacheSync, Reconcile, PatchStatus, PatchFails

(* ClassInv is kept: by an edit, which makes every condition stale, and by *)
(* a status patch computed from an old copy, which names its generation.   *)
LEMMA ClassStep ==
  ASSUME ClassInv, [Next]_vars
  PROVE  ClassInv'
<1> USE Bounds
<1>0. /\ class \in Objects /\ cache \in Objects /\ work \in Objects \cup {None}
      /\ class.gen \in 0..MaxEdits /\ cache.gen \in 0..MaxEdits
  BY DEF ClassInv, Objects
<1>1. ASSUME Edit PROVE ClassInv'
  <2>1. /\ UNCHANGED <<cache, dirty, work>>
        /\ class.gen < MaxEdits
        /\ \/ \E s \in Specs : class' = [class EXCEPT !.spec = s, !.gen = @ + 1]
           \/ class' = [class EXCEPT !.deleting = TRUE, !.gen = @ + 1]
    BY <1>1 DEF Edit
  <2>2. /\ class' \in Objects /\ class'.gen = class.gen + 1
        /\ class'.ready = class.ready /\ class'.seen = class.seen
    <3>1. class.gen + 1 \in 0..MaxEdits
      <4>1. class.gen \in 0..MaxEdits /\ class.gen < MaxEdits
        BY <1>0, <2>1
      <4> QED
        BY <4>1
    <3>2. ASSUME NEW s \in Specs, class' = [class EXCEPT !.spec = s, !.gen = @ + 1]
          PROVE  /\ class' \in Objects /\ class'.gen = class.gen + 1
                 /\ class'.ready = class.ready /\ class'.seen = class.seen
      BY <1>0, <3>1, <3>2 DEF Objects
    <3>3. ASSUME class' = [class EXCEPT !.deleting = TRUE, !.gen = @ + 1]
          PROVE  /\ class' \in Objects /\ class'.gen = class.gen + 1
                 /\ class'.ready = class.ready /\ class'.seen = class.seen
      BY <1>0, <3>1, <3>3 DEF Objects
    <3> QED
      BY <2>1, <3>2, <3>3
  <2>3. Honest(class)'
    BY <1>0, <2>2 DEF ClassInv, Honest
  <2>4. NotNewer(cache, class)' /\ (work # None => NotNewer(work, class)')
    <3>1. work # None => work.gen \in 0..MaxEdits
      BY <1>0 DEF Objects
    <3>2. NotNewer(cache, class)'
      <4>1. cache' = cache /\ cache.gen \in 0..MaxEdits /\ cache.gen <= class.gen
        BY <1>0, <2>1 DEF ClassInv, NotNewer
      <4>2. class.gen \in 0..MaxEdits /\ class'.gen = class.gen + 1
        BY <1>0, <2>2
      <4>3. cache.gen <= class'.gen /\ cache.gen # class'.gen
        BY <4>1, <4>2
      <4> QED
        BY <4>1, <4>3 DEF NotNewer
    <3>3. ASSUME work # None PROVE NotNewer(work, class)'
      <4>1. work.gen \in 0..MaxEdits /\ work.gen <= class.gen
        BY <3>1, <3>3 DEF ClassInv, NotNewer
      <4>2. class.gen \in 0..MaxEdits /\ class'.gen = class.gen + 1 /\ work' = work
        BY <1>0, <2>1, <2>2
      <4>3. work.gen <= class'.gen /\ work.gen # class'.gen
        BY <4>1, <4>2
      <4> QED
        BY <4>2, <4>3 DEF NotNewer
    <3> QED
      BY <3>2, <3>3
  <2> QED
    BY <2>1, <2>2, <2>3, <2>4 DEF ClassInv, Honest
<1>2. ASSUME CacheSync PROVE ClassInv'
  <2>1. cache' = class /\ dirty' = TRUE /\ UNCHANGED <<class, work>>
    BY <1>2 DEF CacheSync
  <2> QED
    BY <1>0, <2>1 DEF ClassInv, NotNewer, Honest
<1>3. ASSUME Reconcile PROVE ClassInv'
  <2> DEFINE new == [cache EXCEPT !.ready = Valid(cache.spec), !.seen = cache.gen]
  <2>1. dirty' = FALSE /\ work' \in {None, new} /\ UNCHANGED <<class, cache>>
    BY <1>3 DEF Reconcile
  <2>2. Valid(cache.spec) \in BOOLEAN
    BY DEF Valid
  <2>3. /\ new \in Objects /\ new.spec = cache.spec /\ new.gen = cache.gen
        /\ new.seen = new.gen /\ new.ready = Valid(new.spec)
    BY <1>0, <2>2 DEF Objects
  <2> HIDE DEF new
  <2> QED
    BY <1>0, <2>1, <2>3 DEF ClassInv, NotNewer, Honest
<1>4. ASSUME PatchStatus PROVE ClassInv'
  <2>1. /\ work \in Objects /\ NotNewer(work, class)
        /\ work.seen = work.gen /\ work.ready = Valid(work.spec)
        /\ work' = None /\ UNCHANGED <<cache, dirty>>
        /\ class' = [class EXCEPT !.ready = work.ready, !.seen = work.seen]
    BY <1>0, <1>4 DEF PatchStatus, ClassInv
  <2>2. /\ class' \in Objects /\ class'.gen = class.gen /\ class'.spec = class.spec
        /\ class'.ready = Valid(work.spec) /\ class'.seen = work.gen
        /\ work.gen \in 0..MaxEdits
    <3>1. work.ready \in BOOLEAN /\ work.seen \in (0..MaxEdits) \cup {None} /\ work.gen \in 0..MaxEdits
      BY <2>1 DEF Objects
    <3> QED
      BY <1>0, <2>1, <3>1 DEF Objects
  <2>3. Honest(class)'
    <3>1. work.gen \in 0..class.gen /\ (work.gen = class.gen => work.spec = class.spec)
      BY <1>0, <2>1, <2>2 DEF NotNewer
    <3> QED
      BY <2>2, <3>1 DEF Honest
  <2> QED
    BY <1>0, <2>1, <2>2, <2>3 DEF ClassInv, NotNewer, Honest
<1>5. ASSUME PatchFails PROVE ClassInv'
  BY <1>5 DEF PatchFails, Requeued, ClassInv, NotNewer, Honest
<1>6. ASSUME UNCHANGED <<class, cache, dirty, work>> PROVE ClassInv'
  BY <1>6 DEF ClassInv, NotNewer, Honest
<1> QED
  BY <1>1, <1>2, <1>3, <1>4, <1>5, <1>6, ClaimFrame DEF Next, ClassNext, vars, classVars

(* ClassInv holds of every reachable state.                                *)
LEMMA ClassInvariant == Spec => []ClassInv
<1>1. Init => ClassInv
  BY LaunchAssumption DEF Init, ClassInv, Objects, NotNewer, Honest
<1>2. ClassInv /\ [Next]_vars => ClassInv'
  BY ClassStep
<1> QED
  BY <1>1, <1>2, PTL DEF Spec

(* A class that is Ready for its current generation can be provisioned     *)
(* from, whatever the specs and however stale the copy that was validated. *)
THEOREM ReadyIsUsable == Spec => []ReadyClassConverts
<1>1. ClassInv => ReadyClassConverts
  BY ValidConverts DEF ClassInv, Honest, ReadyClassConverts
<1> QED
  BY <1>1, ClassInvariant, PTL

----------------------------------------------------------------------------
(* Selection.                                                              *)

(* Prices of entries that convert are numbers.                             *)
LEMMA PriceIsNumber ==
  ASSUME NEW spec \in Specs, Converts(spec), NEW i \in DOMAIN spec
  PROVE  Price(spec[i]) \in Nat /\ i \in Nat
<1>1. spec \in Seq(Entries)
  BY LaunchAssumption
<1>2. i \in 1..Len(spec) /\ spec[i] \in Entries
  BY <1>1
<1>3. spec[i].cpu \in Nat \cup {Bad} /\ spec[i].mem \in Nat \cup {Bad}
  BY <1>2 DEF Entries
<1>4. spec[i].cpu # Bad /\ spec[i].mem # Bad
  BY DEF Converts, Parses
<1>5. spec[i].cpu \in Nat /\ spec[i].mem \in Nat
  BY <1>3, <1>4
<1> QED
  BY <1>2, <1>5 DEF Price

(* The stable sort has one first element: the same copy of the class and   *)
(* the same demand always select the same SKU.                             *)
LEMMA SelectedIsUnique ==
  ASSUME NEW spec \in Specs, Converts(spec), NEW d, NEW i \in Selected(spec, d),
         NEW j \in Selected(spec, d)
  PROVE  i = j
<1>1. i \in DOMAIN spec /\ j \in DOMAIN spec
  BY DEF Selected, Compatible
<1>2. Price(spec[i]) \in Nat /\ i \in Nat /\ Price(spec[j]) \in Nat /\ j \in Nat
  BY <1>1, PriceIsNumber
<1>3. /\ Price(spec[i]) < Price(spec[j]) \/ (Price(spec[i]) = Price(spec[j]) /\ i <= j)
      /\ Price(spec[j]) < Price(spec[i]) \/ (Price(spec[j]) = Price(spec[i]) /\ j <= i)
  BY DEF Selected
<1> QED
  BY <1>2, <1>3

(* An entry without a name passes the conversion but is never selected for *)
(* a claim that names its instance types.                                  *)
LEMMA SelectedIsNamed ==
  ASSUME NEW spec \in Specs, NEW d \in Demands, NEW i \in Selected(spec, d)
  PROVE  spec[i].name \in STRING \ {None}
<1>1. i \in DOMAIN spec /\ Intersects(d.reqs, TypeReqs(spec[i]))
  BY DEF Selected, Compatible
<1>2. spec[i] \in Entries
  BY <1>1, LaunchAssumption
<1>3. "type" \in DOMAIN TypeReqs(spec[i]) /\ TypeReqs(spec[i])["type"] = {spec[i].name}
  BY DEF TypeReqs
<1>4. /\ "type" \in DOMAIN d.reqs /\ d.reqs["type"].in
      /\ None \notin d.reqs["type"].vals
  BY LaunchAssumption DEF NamesTypes
<1>5. {spec[i].name} \cap d.reqs["type"].vals # {}
  BY <1>1, <1>3, <1>4 DEF Intersects, Admits
<1> QED
  BY <1>2, <1>4, <1>5 DEF Entries

----------------------------------------------------------------------------
(* Claims.                                                                 *)

(* The record with these fields.                                           *)
ClaimOf(st, d, n, sku, z, g) ==
  [st |-> st, demand |-> d, node |-> n, sku |-> sku, zone |-> z, gen |-> g]

(* A step writes a zone label only onto a node without one, and only the   *)
(* template's: the zone that an adopted claim carries stays right.         *)
ZonesKept ==
  /\ zone' = [n \in Nodes |-> zone'[n]]
  /\ \A n \in Nodes : /\ LabelZone(n)' = LabelZone(n)
                      /\ zone'[n] = zone[n] \/ (zone[n] = None /\ zone'[n] = pool.zone)

(* One claim and its operation change, consistently.                       *)
LEMMA OneClaimMoves ==
  ASSUME ClaimInv, OrderInv, NEW c \in Claims, NEW r, NEW o,
         claim' = [claim EXCEPT ![c] = r], order' = [order EXCEPT ![c] = o],
         cache' = cache, ZonesKept,
         IsClaim(r), r.node # None => r.zone = LabelZone(r.node), Ordered(r, o)
  PROVE  ClaimInv' /\ OrderInv'
<1>1. /\ claim' = [x \in Claims |-> IF x = c THEN r ELSE claim[x]]
      /\ order' = [x \in Claims |-> IF x = c THEN o ELSE order[x]]
  BY DEF ClaimInv, OrderInv
<1>2. \A x \in Claims : /\ claim'[x] = (IF x = c THEN r ELSE claim[x])
                        /\ order'[x] = (IF x = c THEN o ELSE order[x])
  BY <1>1
<1>3. claim' = [x \in Claims |-> claim'[x]] /\ order' = [x \in Claims |-> order'[x]]
  BY <1>1
<1>4. \A x \in Claims :
        IsClaim(claim'[x]) /\ (claim'[x].node # None => claim'[x].zone = LabelZone(claim'[x].node))
  BY <1>2 DEF ClaimInv
<1>5. \A x \in Claims : Ordered(claim'[x], order'[x])
  BY <1>2 DEF OrderInv
<1>6. ClaimInv'
  <2>1. \A x \in Claims : IsClaim(claim[x])'
    BY <1>4 DEF IsClaim
  <2>2. \A n \in Nodes : LabelZone(n)' = LabelZone(n)
    BY DEF ZonesKept
  <2>3. \A n \in Nodes : (IF zone'[n] = None THEN pool'.zone ELSE zone'[n]) = LabelZone(n)
    BY <2>2 DEF LabelZone
  <2>4. \A x \in Claims : claim'[x].node # None =>
          claim'[x].zone =
            IF zone'[claim'[x].node] = None THEN pool'.zone ELSE zone'[claim'[x].node]
    <3> SUFFICES ASSUME NEW x \in Claims, claim'[x].node # None
                 PROVE  claim'[x].zone =
                          IF zone'[claim'[x].node] = None THEN pool'.zone ELSE zone'[claim'[x].node]
      BY Zenon
    <3>1. claim'[x].node \in Nodes
      BY <1>4 DEF IsClaim
    <3>2. claim'[x].zone = LabelZone(claim'[x].node)
      BY <1>4
    <3> QED
      BY <2>3, <3>1, <3>2, Zenon
  <2> QED
    BY <1>3, <2>1, <2>4 DEF ClaimInv, ZonesKept, LabelZone
<1>7. OrderInv'
  BY <1>3, <1>5 DEF OrderInv, Ordered, Chosen
<1> QED
  BY <1>6, <1>7

(* The claims after a step that writes the state of one of them.           *)
LEMMA StateWritten ==
  ASSUME ClaimInv, NEW c \in Claims, NEW st
  PROVE  [claim EXCEPT ![c].st = st] =
           [claim EXCEPT ![c] = ClaimOf(st, claim[c].demand, claim[c].node, claim[c].sku,
                                        claim[c].zone, claim[c].gen)]
<1> DEFINE r == claim[c]
<1>1. /\ r = ClaimOf(r.st, r.demand, r.node, r.sku, r.zone, r.gen)
      /\ claim = [x \in Claims |-> claim[x]]
  BY DEF ClaimInv, IsClaim, ClaimOf
<1>2. [r EXCEPT !.st = st] = ClaimOf(st, r.demand, r.node, r.sku, r.zone, r.gen)
  BY <1>1 DEF ClaimOf
<1> QED
  BY <1>1, <1>2

(* ... and its demand.                                                     *)
LEMMA DemandWritten ==
  ASSUME ClaimInv, NEW c \in Claims, NEW st, NEW d
  PROVE  [claim EXCEPT ![c].st = st, ![c].demand = d] =
           [claim EXCEPT ![c] = ClaimOf(st, d, claim[c].node, claim[c].sku,
                                        claim[c].zone, claim[c].gen)]
<1> DEFINE r == ClaimOf(st, claim[c].demand, claim[c].node, claim[c].sku,
                        claim[c].zone, claim[c].gen)
           f == [claim EXCEPT ![c] = r]
<1>1. f[c] = r /\ f = [x \in Claims |-> f[x]] /\ claim = [x \in Claims |-> claim[x]]
  BY DEF ClaimInv
<1>2. [f EXCEPT ![c].demand = d] = [claim EXCEPT ![c] = [r EXCEPT !.demand = d]]
  BY <1>1
<1>3. [r EXCEPT !.demand = d] =
        ClaimOf(st, d, claim[c].node, claim[c].sku, claim[c].zone, claim[c].gen)
  BY DEF ClaimOf
<1> QED
  BY <1>2, <1>3, StateWritten

(* Registration writes the zone the node already has, or the template's.   *)
LEMMA ZonesStay ==
  ASSUME ClaimInv, [Next]_vars
  PROVE  ZonesKept
<1>0. pool' = pool /\ zone = [n \in Nodes |-> zone[n]]
  BY ClassFrame, ClaimFrame DEF Next, vars, ClaimInv
<1>1. ASSUME NEW c \in Claims, Register(c) PROVE ZonesKept
  <2> DEFINE m == claim[c].node
  <2>1. m \in Nodes /\ claim[c].zone = LabelZone(m)
    BY <1>1 DEF Register, ClaimInv, IsClaim
  <2>2. zone' = [zone EXCEPT ![m] = IF claim[c].zone = None THEN zone[m] ELSE claim[c].zone]
    BY <1>1 DEF Register
  <2>3. \A n \in Nodes : zone'[n] = IF n = m THEN (IF claim[c].zone = None THEN zone[m]
                                                ELSE claim[c].zone)
                                   ELSE zone[n]
    BY <1>0, <2>1, <2>2
  <2>4. zone' = [n \in Nodes |-> zone'[n]]
    BY <1>0, <2>2
  <2>5. zone'[m] = zone[m] \/ (zone[m] = None /\ zone'[m] = pool.zone)
    BY <2>1, <2>3 DEF LabelZone
  <2> HIDE DEF m
  <2>6. \A n \in Nodes : zone'[n] = zone[n] \/ (zone[n] = None /\ zone'[n] = pool.zone)
    BY <2>3, <2>5
  <2> QED
    BY <1>0, <2>4, <2>6 DEF ZonesKept, LabelZone
<1>2. ASSUME zone' = zone PROVE ZonesKept
  BY <1>0, <1>2 DEF ZonesKept, LabelZone
<1>3. zone' = zone \/ \E c \in Claims : Register(c)
  BY ClassFrame DEF Next, ClaimNext, CreateSends, CreateReturns, CreateFails,
     CreateRefuses, CreateAdopted, NewClaim, Adopt, vars
<1> QED
  BY <1>1, <1>2, <1>3

(* Create picks the SKU the operation of an earlier call of the same       *)
(* generation has.                                                         *)
LEMMA SendsStep ==
  ASSUME ClassInv, ClaimInv, OrderInv, NEW c \in Claims, CreateSends(c), ZonesKept
  PROVE  ClaimInv' /\ OrderInv'
<1> DEFINE r == claim[c]
<1>1. /\ r.st = "new" /\ r.node = None /\ Converts(cache.spec) /\ IsClaim(r)
      /\ r.demand \in Demands /\ Ordered(r, order[c]) /\ cache' = cache
      /\ order = [x \in Claims |-> order[x]]
  BY DEF CreateSends, Provisions, ClaimInv, IsClaim, OrderInv, classVars
<1>2. cache.spec \in Specs /\ cache.gen \in 0..MaxEdits
  BY DEF ClassInv, Objects
<1>3. PICK i \in Selected(cache.spec, r.demand) :
        /\ claim' = [claim EXCEPT ![c].st = "sent", ![c].sku = cache.spec[i].name,
                                  ![c].zone = ZoneOf(cache.spec[i]), ![c].gen = cache.gen]
        /\ order' = [order EXCEPT ![c] =
             IF @ = None THEN [sku |-> cache.spec[i].name, gen |-> cache.gen] ELSE @]
  BY DEF CreateSends, TypeLabels
<1> DEFINE sku == cache.spec[i].name
           new == ClaimOf("sent", r.demand, r.node, sku, ZoneOf(cache.spec[i]), cache.gen)
           o   == IF order[c] = None THEN [sku |-> sku, gen |-> cache.gen] ELSE order[c]
<1>4. claim' = [claim EXCEPT ![c] = new] /\ order' = [order EXCEPT ![c] = o]
  <2>1. [claim EXCEPT ![c].st = "sent", ![c].sku = sku, ![c].zone = ZoneOf(cache.spec[i]),
                      ![c].gen = cache.gen] = [claim EXCEPT ![c] = new]
    <3> DEFINE z  == ZoneOf(cache.spec[i])
               r1 == ClaimOf("sent", r.demand, r.node, r.sku, r.zone, r.gen)
               r2 == ClaimOf("sent", r.demand, r.node, sku, r.zone, r.gen)
               r3 == ClaimOf("sent", r.demand, r.node, sku, z, r.gen)
               f1 == [claim EXCEPT ![c] = r1]
               f2 == [claim EXCEPT ![c] = r2]
               f3 == [claim EXCEPT ![c] = r3]
    <3>1. /\ claim = [x \in Claims |-> claim[x]]
          /\ f1[c] = r1 /\ f1 = [x \in Claims |-> f1[x]]
          /\ f2[c] = r2 /\ f2 = [x \in Claims |-> f2[x]]
          /\ f3[c] = r3 /\ f3 = [x \in Claims |-> f3[x]]
      BY DEF ClaimInv
    <3>2. [claim EXCEPT ![c].st = "sent"] = f1
      BY StateWritten
    <3>3. [r1 EXCEPT !.sku = sku] = r2
      BY DEF ClaimOf
    <3>4. [r2 EXCEPT !.zone = z] = r3
      BY DEF ClaimOf
    <3>5. [r3 EXCEPT !.gen = cache.gen] = new
      BY DEF ClaimOf
    <3>6. [f1 EXCEPT ![c].sku = sku] = f2
      <4>1. [f1 EXCEPT ![c].sku = sku] = [claim EXCEPT ![c] = [r1 EXCEPT !.sku = sku]]
        BY <3>1
      <4> QED
        BY <3>3, <4>1
    <3>7. [f2 EXCEPT ![c].zone = z] = f3
      <4>1. [f2 EXCEPT ![c].zone = z] = [claim EXCEPT ![c] = [r2 EXCEPT !.zone = z]]
        BY <3>1
      <4> QED
        BY <3>4, <4>1
    <3>8. [f3 EXCEPT ![c].gen = cache.gen] = [claim EXCEPT ![c] = new]
      <4>1. [f3 EXCEPT ![c].gen = cache.gen] = [claim EXCEPT ![c] = [r3 EXCEPT !.gen = cache.gen]]
        BY <3>1
      <4> QED
        BY <3>5, <4>1
    <3> HIDE DEF f1, f2, f3, new
    <3> QED
      BY <3>2, <3>6, <3>7, <3>8
  <2>2. claim' = [claim EXCEPT ![c] = new]
    BY <1>3, <2>1, Zenon
  <2> QED
    BY <1>1, <1>3, <2>2
<1>5. sku \in STRING \ {None}
  BY <1>1, <1>2, SelectedIsNamed
<1>6. IsClaim(new) /\ new.node = None
  BY <1>1, <1>2 DEF ClaimOf, IsClaim
<1>7. Ordered(new, o)
  <2>1. /\ new.st = "sent" /\ new.demand = r.demand /\ new.sku = sku /\ new.gen = cache.gen
        /\ sku \in Chosen(cache, r.demand)
    BY <1>3 DEF ClaimOf, Chosen
  <2> HIDE DEF new
  <2>2. CASE order[c] = None
    <3>1. o = [sku |-> sku, gen |-> cache.gen]
      BY <2>2
    <3>2. o \in [sku: STRING, gen: 0..cache.gen] /\ o # None
      BY <1>2, <1>5, <3>1, Bounds, LaunchAssumption
    <3> QED
      BY <1>1, <1>5, <1>6, <2>1, <3>1, <3>2 DEF Ordered
  <2>3. CASE order[c] # None
    <3>1. o = order[c] /\ o # None /\ o \in [sku: STRING, gen: 0..cache.gen]
      BY <1>1, <2>3 DEF Ordered
    <3>2. o.gen = cache.gen => o.sku = sku
      <4> SUFFICES ASSUME o.gen = cache.gen PROVE o.sku = sku
        OBVIOUS
      <4>1. o.sku \in Chosen(cache, r.demand)
        BY <1>1, <3>1 DEF Ordered
      <4>2. PICK j \in Selected(cache.spec, r.demand) : o.sku = cache.spec[j].name
        BY <4>1 DEF Chosen
      <4>3. j = i
        BY <1>1, <1>2, <1>3, <4>2, SelectedIsUnique
      <4> QED
        BY <4>2, <4>3
    <3> QED
      BY <1>1, <1>5, <1>6, <2>1, <3>1, <3>2 DEF Ordered
  <2> QED
    BY <2>2, <2>3
<1> HIDE DEF new, o
<1> QED
  BY <1>1, <1>4, <1>6, <1>7, OneClaimMoves

(* The other steps on a claim.                                             *)
LEMMA ClaimStep ==
  ASSUME ClassInv, ClaimInv, OrderInv, NEW c \in Claims, ClaimNext(c), ZonesKept
  PROVE  ClaimInv' /\ OrderInv'
<1> DEFINE r == claim[c]
           Done == ClaimInv' /\ OrderInv'
<1>0. cache' = cache /\ cache.gen \in 0..MaxEdits
  BY ClaimFrame DEF ClassInv, Objects
<1>1. /\ IsClaim(r) /\ (r.node # None => r.zone = LabelZone(r.node)) /\ Ordered(r, order[c])
      /\ order = [x \in Claims |-> order[x]]
      /\ order' = order => order' = [order EXCEPT ![c] = order[c]]
  BY DEF ClaimInv, OrderInv
<1>2. ASSUME NEW new, NEW o, claim' = [claim EXCEPT ![c] = new], order' = [order EXCEPT ![c] = o],
             IsClaim(new), new.node # None => new.zone = LabelZone(new.node), Ordered(new, o)
      PROVE  Done
  BY <1>0, <1>2, OneClaimMoves
<1>3. ASSUME CreateReturns(c) PROVE Done
  <2> DEFINE new == ClaimOf("launched", r.demand, r.node, r.sku, r.zone, r.gen)
  <2>1. claim' = [claim EXCEPT ![c] = new] /\ r.st = "sent" /\ order' = order
    BY <1>3, StateWritten DEF CreateReturns
  <2>2. IsClaim(new) /\ new.node = None /\ Ordered(new, order[c])
    BY <1>1, <2>1 DEF ClaimOf, IsClaim, Ordered
  <2> HIDE DEF new
  <2> QED
    BY <1>1, <1>2, <2>1, <2>2
<1>4. ASSUME CreateFails(c) PROVE Done
  <2> DEFINE new == ClaimOf("new", r.demand, r.node, None, None, r.gen)
  <2>1. /\ claim' = [claim EXCEPT ![c] = new] /\ r.st = "sent"
        /\ order' = order \/ order' = [order EXCEPT ![c] = None]
    <3>1. [claim EXCEPT ![c].st = "new", ![c].sku = None, ![c].zone = None] =
            [claim EXCEPT ![c] = new]
      <4> DEFINE r1 == ClaimOf("new", r.demand, r.node, r.sku, r.zone, r.gen)
                 r2 == ClaimOf("new", r.demand, r.node, None, r.zone, r.gen)
                 f1 == [claim EXCEPT ![c] = r1]
                 f2 == [claim EXCEPT ![c] = r2]
      <4>1. /\ claim = [x \in Claims |-> claim[x]]
            /\ f1[c] = r1 /\ f1 = [x \in Claims |-> f1[x]]
            /\ f2[c] = r2 /\ f2 = [x \in Claims |-> f2[x]]
        BY DEF ClaimInv
      <4>2. [claim EXCEPT ![c].st = "new"] = f1
        BY StateWritten
      <4>3. [r1 EXCEPT !.sku = None] = r2
        BY DEF ClaimOf
      <4>4. [r2 EXCEPT !.zone = None] = new
        BY DEF ClaimOf
      <4>5. [f1 EXCEPT ![c].sku = None] = f2
        <5>1. [f1 EXCEPT ![c].sku = None] = [claim EXCEPT ![c] = [r1 EXCEPT !.sku = None]]
          BY <4>1
        <5> QED
          BY <4>3, <5>1
      <4>6. [f2 EXCEPT ![c].zone = None] = [claim EXCEPT ![c] = new]
        <5>1. [f2 EXCEPT ![c].zone = None] = [claim EXCEPT ![c] = [r2 EXCEPT !.zone = None]]
          BY <4>1
        <5> QED
          BY <4>4, <5>1
      <4> HIDE DEF f1, f2, new
      <4> QED
        BY <4>2, <4>5, <4>6
    <3> QED
      BY <1>4, <3>1, Zenon DEF CreateFails
  <2>2. IsClaim(new) /\ new.node = None /\ Ordered(new, order[c]) /\ Ordered(new, None)
    BY <1>1, <2>1 DEF ClaimOf, IsClaim, Ordered
  <2> HIDE DEF new
  <2> QED
    BY <1>1, <1>2, <2>1, <2>2
<1>5. ASSUME CreateRefuses(c) PROVE Done
  <2>1. claim' = [claim EXCEPT ![c] = NoClaim] /\ order' = order
    BY <1>5 DEF CreateRefuses
  <2>2. IsClaim(NoClaim) /\ NoClaim.node = None /\ Ordered(NoClaim, order[c])
    BY <1>1, Bounds DEF NoClaim, IsClaim, Ordered
  <2> QED
    BY <1>1, <1>2, <2>1, <2>2
<1>6. ASSUME CreateAdopted(c) PROVE Done
  <2> DEFINE new == [r EXCEPT !.st = "launched"]
  <2>1. claim' = [claim EXCEPT ![c] = new] /\ order' = order /\ r.st = "new" /\ r.node # None
    BY <1>6 DEF CreateAdopted, AsAdopted
  <2>2. new = ClaimOf("launched", r.demand, r.node, r.sku, r.zone, r.gen)
    BY <1>1 DEF IsClaim, ClaimOf
  <2>3. IsClaim(new) /\ new.node = r.node /\ new.zone = r.zone /\ Ordered(new, order[c])
    BY <1>1, <2>1, <2>2 DEF ClaimOf, IsClaim, Ordered
  <2> HIDE DEF new
  <2> QED
    BY <1>1, <1>2, <2>1, <2>3
<1>7. ASSUME Register(c) PROVE Done
  <2> DEFINE new == ClaimOf("registered", r.demand, r.node, r.sku, r.zone, r.gen)
  <2>1. claim' = [claim EXCEPT ![c] = new] /\ r.st = "launched" /\ r.node # None /\ order' = order
    BY <1>7, StateWritten DEF Register
  <2>2. IsClaim(new) /\ new.node = r.node /\ new.zone = r.zone /\ Ordered(new, order[c])
    BY <1>1, <2>1 DEF ClaimOf, IsClaim, Ordered
  <2> HIDE DEF new
  <2> QED
    BY <1>1, <1>2, <2>1, <2>2
<1>8. ASSUME NEW d \in Demands, NewClaim(c, d) PROVE Done
  <2> DEFINE new == ClaimOf("new", d, r.node, r.sku, r.zone, r.gen)
  <2>1. claim' = [claim EXCEPT ![c] = new] /\ r.st = "none" /\ order[c] = None /\ order' = order
    <3>1. [claim EXCEPT ![c].st = "new", ![c].demand = d] = [claim EXCEPT ![c] = new]
      BY DemandWritten
    <3> QED
      BY <1>8, <3>1, Zenon DEF NewClaim
  <2>2. r.node = None
    BY <1>1, <2>1 DEF IsClaim, NoClaim
  <2>3. IsClaim(new) /\ new.node = None /\ Ordered(new, order[c])
    BY <1>1, <2>1, <2>2 DEF ClaimOf, IsClaim, Ordered
  <2> HIDE DEF new
  <2> QED
    BY <1>1, <1>2, <2>1, <2>3
<1>9. ASSUME NEW n \in Nodes, Adopt(c, n) PROVE Done
  <2> DEFINE d   == [reqs |-> Pinned(Labels[n].sku), cpu |-> 0, mem |-> 0, gpu |-> 0]
             new == ClaimOf("new", d, n, Labels[n].sku, LabelZone(n), cache.gen)
  <2> HIDE DEF d
  <2>1. claim' = [claim EXCEPT ![c] = new] /\ order[c] = None /\ order' = order
    BY <1>9 DEF Adopt, ClaimOf, d
  <2>2. IsClaim(new) /\ new.node = n /\ new.zone = LabelZone(n) /\ Ordered(new, order[c])
    BY <1>0, <2>1, LaunchAssumption DEF ClaimOf, IsClaim, Ordered
  <2> HIDE DEF new
  <2> QED
    BY <1>1, <1>2, <2>1, <2>2
<1> QED
  BY <1>3, <1>4, <1>5, <1>6, <1>7, <1>8, <1>9, SendsStep DEF ClaimNext

(* A newer copy in the cache: an operation of its generation was selected  *)
(* from the same spec.                                                     *)
LEMMA OrderSync ==
  ASSUME ClassInv, OrderInv, ClassNext
  PROVE  OrderInv'
<1>0. UNCHANGED <<claim, order>>
  BY ClassFrame
<1>1. CASE cache' = cache
  BY <1>0, <1>1 DEF OrderInv, Ordered, Chosen
<1>2. CASE cache' = class
  <2>1. cache.gen \in Nat /\ class.gen \in Nat /\ NotNewer(cache, class)
    BY Bounds DEF ClassInv, Objects
  <2>2. ASSUME NEW c \in Claims PROVE Ordered(claim[c], order[c])'
    <3> DEFINE r == claim[c]  o == order[c]
    <3>1. Ordered(r, o)
      BY DEF OrderInv
    <3>2. ASSUME o # None
          PROVE  /\ o \in [sku: STRING, gen: 0..class.gen]
                 /\ r.st # "none" /\ o.gen = class.gen =>
                      Converts(class.spec) /\ o.sku \in Chosen(class, r.demand)
      <4>1. o \in [sku: STRING, gen: 0..cache.gen]
        BY <3>1, <3>2 DEF Ordered
      <4>2. o.gen \in 0..cache.gen
        BY <4>1
      <4>3. cache.gen <= class.gen /\ (cache.gen = class.gen => cache.spec = class.spec)
        BY <2>1 DEF NotNewer
      <4>4. o.gen \in 0..class.gen /\ (o.gen = class.gen => o.gen = cache.gen /\ cache.gen = class.gen)
        BY <2>1, <4>2, <4>3
      <4> QED
        BY <3>1, <3>2, <4>1, <4>3, <4>4 DEF Ordered, Chosen
    <3> QED
      BY <1>0, <1>2, <3>1, <3>2 DEF Ordered, Chosen
  <2> QED
    BY <1>0, <2>2 DEF OrderInv
<1> QED
  BY <1>1, <1>2 DEF ClassNext, Edit, CacheSync, Reconcile, PatchStatus, PatchFails

(* The inductive invariant of the launch path.                             *)
LEMMA LaunchInvariant == Spec => []LaunchInv
<1>1. Init => LaunchInv
  <2> SUFFICES ASSUME Init PROVE LaunchInv
    OBVIOUS
  <2>1. ClassInv
    BY LaunchAssumption DEF Init, ClassInv, Objects, NotNewer, Honest
  <2>2. /\ claim = [c \in Claims |-> NoClaim] /\ order = [c \in Claims |-> None]
        /\ zone = ZoneLabels
    BY DEF Init
  <2>3. IsClaim(NoClaim) /\ NoClaim.node = None /\ Ordered(NoClaim, None)
    BY Bounds DEF NoClaim, IsClaim, Ordered
  <2>4. ClaimInv /\ OrderInv
    BY <2>2, <2>3, LaunchAssumption DEF ClaimInv, OrderInv
  <2> QED
    BY <2>1, <2>4 DEF LaunchInv
<1>2. LaunchInv /\ [Next]_vars => LaunchInv'
  <2> SUFFICES ASSUME ClassInv, ClaimInv, OrderInv, [Next]_vars PROVE LaunchInv'
    BY DEF LaunchInv
  <2>1. ClassInv' /\ ZonesKept
    BY ClassStep, ZonesStay
  <2>2. CASE ClassNext
    BY <2>1, <2>2, ClassFrame, OrderSync DEF LaunchInv, ClaimInv, IsClaim, LabelZone
  <2>3. CASE \E c \in Claims : ClaimNext(c)
    BY <2>1, <2>3, ClaimStep DEF LaunchInv
  <2>4. CASE UNCHANGED vars
    BY <2>1, <2>4 DEF LaunchInv, ClaimInv, IsClaim, LabelZone, OrderInv, Ordered, Chosen, vars,
                      classVars
  <2> QED
    BY <2>2, <2>3, <2>4 DEF Next
<1> QED
  BY <1>1, <1>2, PTL DEF Spec

(* Type correctness of the launch path; a claim that adopts a node never   *)
(* has an add operation.                                                   *)
THEOREM TypeCorrect == Spec => []TypeOK
<1> DEFINE Rest == pool \in Pools /\ faults \in 0..MaxFaults
<1>1. Init => Rest
  BY Bounds DEF Init
<1>2. Rest /\ [Next]_vars => Rest'
  <2> SUFFICES ASSUME Rest, [Next]_vars PROVE Rest'
    OBVIOUS
  <2>1. pool' = pool
    BY ClassFrame, ClaimFrame DEF Next, vars
  <2>2. faults' = faults \/ Fault
    BY DEF Next, ClassNext, Edit, CacheSync, Reconcile, PatchStatus, PatchFails, ClaimNext,
      CreateSends, CreateReturns, CreateFails, CreateRefuses, CreateAdopted, Register,
      NewClaim, Adopt, vars
  <2>3. faults' \in 0..MaxFaults
    BY <2>2, Bounds DEF Fault
  <2> QED
    BY <2>1, <2>3
<1>3. LaunchInv /\ Rest => TypeOK
  <2> SUFFICES ASSUME LaunchInv, Rest PROVE TypeOK
    OBVIOUS
  <2>1. /\ class \in Objects /\ cache \in Objects /\ work \in Objects \cup {None}
        /\ dirty \in BOOLEAN
    BY DEF LaunchInv, ClassInv
  <2>2. ASSUME NEW c \in Claims
        PROVE  /\ claim[c].st \in {"none", "new", "sent", "launched", "registered"}
               /\ claim[c].node \in Nodes \cup {None} /\ claim[c].gen \in 0..MaxEdits
               /\ claim[c].st = "sent" => order[c] # None
               /\ claim[c].node # None => order[c] = None
    <3>1. IsClaim(claim[c]) /\ Ordered(claim[c], order[c])
      BY DEF LaunchInv, ClaimInv, OrderInv
    <3> QED
      BY <3>1 DEF IsClaim, Ordered
  <2> QED
    BY <2>1, <2>2 DEF TypeOK, Objects
<1> QED
  BY <1>1, <1>2, <1>3, LaunchInvariant, PTL DEF Spec

(* Adoption never replaces the zone of a node and never invents one, for   *)
(* every set of nodes, every template and every edit of the class.         *)
THEOREM AdoptionKeepsZones == Spec => NodeZoneKept
<1>1. LaunchInv /\ [Next]_vars =>
        [\A n \in Nodes : zone'[n] = zone[n] \/ (zone[n] = None /\ zone'[n] = pool.zone)]_vars
  BY ZonesStay DEF LaunchInv, ZonesKept
<1> QED
  BY <1>1, LaunchInvariant, PTL DEF Spec, NodeZoneKept

(* The machine built for a launched claim has a SKU the claim accepts,     *)
(* however often Create() was called, if the calls saw one generation.     *)
THEOREM SkuMatches == Spec => []SkuIdentifiesNode
<1>1. LaunchInv => SkuIdentifiesNode
  <2> SUFFICES ASSUME LaunchInv, NEW c \in Claims, claim[c].st = "launched",
                      claim[c].node = None, order[c].gen = claim[c].gen
               PROVE  order[c].sku \in NodeClaimSKUs(c)
    BY DEF SkuIdentifiesNode
  <2>1. Ordered(claim[c], order[c])
    BY DEF LaunchInv, OrderInv
  <2> QED
    BY <2>1 DEF Ordered, NodeClaimSKUs
<1> QED
  BY <1>1, LaunchInvariant, PTL

=============================================================================
