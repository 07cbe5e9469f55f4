---------------------------- MODULE MCSystemTask ----------------------------
(* Small instances of SystemTask for TLC.                                  *)
EXTENDS SystemTask, TLC

CONSTANTS r1, r2, r3

MCSymmetry == Permutations(Runners)

(* A runner may die anywhere.                                              *)
AllPCs == PCs
=============================================================================
