------------------------------ MODULE MCBatcher ------------------------------
(* Small instances of Batcher for TLC.                                     *)
EXTENDS Batcher, TLC

CallersAndBatches == Permutations(Callers) \cup Permutations(BatchIds)

=============================================================================
