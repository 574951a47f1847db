--------------------------- MODULE MCModelPackages ---------------------------
(* Instances of ModelPackages for TLC. *)
EXTENDS ModelPackages
=============================================================================
