------------------------------ MODULE MCPmLoad ------------------------------
(***************************************************************************)
(* Instances of PmLoad: a partial PDI of two blocks and a boot PDI of one. *)
(***************************************************************************)
EXTENDS PmLoad, TLC

CONSTANTS pdi, boot

MCKind == [i \in Images |-> IF i = boot THEN "boot" ELSE "partial"]
OneBlock == [i \in Images |-> 1]
MCBlocks == [i \in Images |-> IF i = pdi THEN 2 ELSE 1]

Symmetry == Permutations(Tasks) \cup Permutations(Buffers)
=============================================================================
