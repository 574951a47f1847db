--------------------------- MODULE MCEditHistory ---------------------------
(***************************************************************************)
(* Small instances of EditHistory for TLC.                                 *)
(***************************************************************************)
EXTENDS EditHistory
=============================================================================
