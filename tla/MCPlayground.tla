---------------------------- MODULE MCPlayground ----------------------------
(***************************************************************************)
(* Instances of the playground for TLC.                                    *)
(***************************************************************************)
EXTENDS Playground

Careful == {}
=============================================================================
