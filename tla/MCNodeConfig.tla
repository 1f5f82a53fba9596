---------------------------- MODULE MCNodeConfig ----------------------------
(* Catalog states over two pools and two SKUs: a pool that changes SKU, a pool *)
(* added later, a catalog without pools, a rendering that does not decode.     *)
EXTENDS NodeConfig, TLC

CONSTANTS p1, p2, c1, c2, r1, r2, r3, r4, r5

Catalogs ==
    r1 :> (p1 :> c1 @@ p2 :> None) @@
    r2 :> (p1 :> c2 @@ p2 :> c1) @@
    r3 :> (p1 :> c2 @@ p2 :> c2) @@
    r4 :> (p1 :> None @@ p2 :> None) @@
    r5 :> (p1 :> c1 @@ p2 :> c1)

=============================================================================
