----------------------------- MODULE MCChunkPipe -----------------------------
(* ChunkPipe on a small instance.                                            *)
EXTENDS ChunkPipe

=============================================================================
