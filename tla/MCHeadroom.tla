----------------------------- MODULE MCHeadroom -----------------------------
(* Two pools, one with GPU nodes, and the ConfigMap contents that take parse  *)
(* down each of its paths; sizes small enough that the cap is reached.        *)
EXTENDS Headroom, TLC

CONSTANTS p1, p2

Sizes(c, m, g) == "cpu" :> c @@ "memory" :> m @@ "gpu" :> g

NodeSizes == p1 :> Sizes(10, 4, 0) @@ p2 :> Sizes(4, 9, 2)

Small == [pct |-> Sizes(30, 0, 0), pod |-> Sizes(2, 1, 0), minPods |-> 0]
WithGPU == [pct |-> Sizes(0, 20, 50), pod |-> Sizes(1, 2, 1), minPods |-> 1]
Flood == [pct |-> Sizes(100, 50, 10), pod |-> Sizes(1, 1, 1), minPods |-> 9]

Text(pools) == [ok |-> TRUE, pools |-> pools]
Broken == [ok |-> FALSE, pools |-> NoPools]

Policies ==
    { <<Text(p1 :> Small @@ p2 :> WithGPU)>>,
      <<Text(p1 :> Flood), Text(p2 :> Small)>>,
      <<Broken, Text(p2 :> WithGPU)>>,
      <<Text(NoPools), Broken>>,
      <<Text(NoPools)>> }
=============================================================================
