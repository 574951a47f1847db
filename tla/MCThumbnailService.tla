-------------------------- MODULE MCThumbnailService --------------------------
(***************************************************************************)
(* Small instances of ThumbnailService for TLC.                            *)
(***************************************************************************)
EXTENDS ThumbnailService

OneOfEach == [lookup |-> 1, decode |-> 1, render |-> 1]
=============================================================================
