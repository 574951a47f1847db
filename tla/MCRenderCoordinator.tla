------------------------ MODULE MCRenderCoordinator ------------------------
(* Small instances of RenderCoordinator for TLC. *)
EXTENDS RenderCoordinator
=============================================================================
