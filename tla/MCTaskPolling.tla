--------------------------- MODULE MCTaskPolling ---------------------------
(* Small instances of TaskPolling for TLC.                                 *)
EXTENDS TaskPolling, TLC

CONSTANTS p1, p2, t1, t2, v1

MCSymmetry == Permutations(Pollers)
AllStatements == Statements
AllPCs == PCs
=============================================================================
