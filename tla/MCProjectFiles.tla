---------------------------- MODULE MCProjectFiles ----------------------------
(* Instances of ProjectFiles for TLC. *)
EXTENDS ProjectFiles
=============================================================================
