------------------------------ MODULE MCBinding ------------------------------
(* Instances of Binding for TLC.                                           *)
EXTENDS Binding, TLC

(* One SKU: every claim suits every node.                                  *)
OneSKU == Claims \X Nodes

ClaimSymmetry == Permutations(Claims)

=============================================================================
