------------------------------ MODULE MCLaunch ------------------------------
(* A small instance of Launch for TLC.                                     *)
EXTENDS Launch, TLC

CONSTANTS n1, n2

Entry(name, cpu, mem) ==
  [name |-> name, cpu |-> cpu, mem |-> mem, gpu |-> None, zone |-> None, archs |-> {}]

\* Two SKUs of one price, a larger one with an accelerator, and mistakes.
Small   == Entry("small", 2, 8)
Twin    == Entry("twin", 1, 16)
GpuType == [Entry("gpu", 4, 16) EXCEPT !.gpu = 1, !.zone = "z", !.archs = {"amd64"}]
Unnamed == Entry(None, 2, 8)
BadGpu  == [GpuType EXCEPT !.gpu = Bad]

EditedSpecs == {<<Twin, Small>>, <<Small, GpuType>>, <<BadGpu>>, <<Unnamed>>}

In(vals) == [in |-> TRUE, vals |-> vals]
NotIn(vals) == [in |-> FALSE, vals |-> vals]

Unconstrained == [k \in {} |-> In({})]

\* A pool's template; the label in two of them is one a node without a zone would take.
Template(reqs, z) == [reqs |-> reqs, zone |-> z]
PoolTemplates ==
  {Template(Unconstrained, None), Template("arch" :> In({"amd64"}), None),
   Template("zone" :> NotIn({"default"}), None),
   Template(Unconstrained, "default"), Template("zone" :> NotIn({"default"}), "default")}

\* Karpenter names the instance types that fit in every claim it makes.
PodDemands ==
  {[reqs |-> "type" :> In({"small", "twin", "gpu"}), cpu |-> 1, mem |-> 4, gpu |-> 0],
   [reqs |-> "type" :> In({"twin", "gpu"}), cpu |-> 1, mem |-> 4, gpu |-> 1]}

RunningNodes == n1 :> [sku |-> "small", arch |-> "amd64"] @@ n2 :> [sku |-> "gpu", arch |-> "amd64"]
RunningZones == n1 :> None @@ n2 :> "z"

=============================================================================
