--------------------------- MODULE NodeOperations ---------------------------
(***************************************************************************)
(* What CloudProvider and NodeBatcher promise Karpenter about the add and  *)
(* remove operations of NodeClaims, without queue, batches, poller and     *)
(* restarts: an add is reported launched only once the broker has it, a    *)
(* removal complete only once the broker has finished it.                  *)
(***************************************************************************)
CONSTANTS Adds, Removes   \* operation IDs

VARIABLES
  phase,    \* the claim behind an operation: open, launched (adds) or closed
  outcome   \* the operation at the broker

Operations == Adds \cup Removes

(* What the broker does with an operation: a failed one may be taken       *)
(* again, a finished one stays finished.                                   *)
Progress ==
  {<<"unknown", "taken">>, <<"unknown", "failed">>, <<"failed", "taken">>,
   <<"taken", "failed">>, <<"taken", "succeeded">>}

Init ==
  /\ phase \in [Operations -> {"open", "closed"}]
  /\ outcome = [op \in Operations |-> "unknown"]

(* The broker works; a batch moves several operations at once.             *)
Work ==
  /\ outcome' \in [Operations -> {"unknown", "taken", "succeeded", "failed"}]
  /\ \A op \in Operations :
       outcome'[op] = outcome[op] \/ <<outcome[op], outcome'[op]>> \in Progress
  /\ UNCHANGED phase

Moves(op, to) == phase' = [phase EXCEPT ![op] = to] /\ UNCHANGED outcome

(* Create() returns the pending claim: the broker has heard of the add.    *)
Launch(op) ==
  /\ op \in Adds /\ phase[op] = "open" /\ outcome[op] # "unknown"
  /\ Moves(op, "launched")

(* A launched claim ends: its node joins, or somebody deletes it.          *)
End(op) == op \in Adds /\ phase[op] = "launched" /\ Moves(op, "closed")

(* A claim ends before its Create() returned: its add has been given up.   *)
GiveUp(op) ==
  /\ op \in Adds /\ phase[op] = "open" /\ outcome[op] # "unknown"
  /\ Moves(op, "closed")

(* Delete() reports the instance gone.                                     *)
Release(op) ==
  /\ op \in Removes /\ phase[op] = "open" /\ outcome[op] = "succeeded"
  /\ Moves(op, "closed")

Next ==
  \/ Work
  \/ \E op \in Operations : Launch(op) \/ End(op) \/ GiveUp(op) \/ Release(op)

Spec == Init /\ [][Next]_<<phase, outcome>>

=============================================================================
