---------------------------- MODULE MCSessionInput ----------------------------
(***************************************************************************)
(* Small instances of SessionInput for TLC.                                *)
(***************************************************************************)
EXTENDS SessionInput
=============================================================================
