-------------------------- MODULE MCBlockIndexing --------------------------
(* Values of the constants of BlockIndexing for TLC. *)
EXTENDS BlockIndexing

Heights == [poa |-> 2, neth |-> 3]
SettledBlocks == [poa |-> 0, neth |-> 1]
============================================================================
