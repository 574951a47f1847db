--------------------------- MODULE MCAlbumThumbnails ---------------------------
(***************************************************************************)
(* A small instance of AlbumThumbnails for TLC: one image at two sizes, so    *)
(* that a row shows one of them while the other is pinned as well.           *)
(***************************************************************************)
EXTENDS AlbumThumbnails
=============================================================================
