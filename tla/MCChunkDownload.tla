--------------------------- MODULE MCChunkDownload ---------------------------
(* Small instances of ChunkDownload for TLC. *)
EXTENDS ChunkDownload

CONSTANTS p1, p2, i1, i2
=============================================================================
