--------------------------- MODULE MCChunkLoading ---------------------------
(* ChunkLoading for TLC: a strip of chunks and a short loading order. *)
EXTENDS ChunkLoading

MCCenter == {<<0, 0>>, <<1, 0>>}
MCOffsets == <<<<0, 0>>, <<1, 0>>>>
MCEditable == {<<0, 0>>}

=============================================================================
