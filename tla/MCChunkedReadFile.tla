------------------------- MODULE MCChunkedReadFile --------------------------
(* ChunkedReadFile on small instances: chunks of two bytes, files of up to *)
(* three, so that a window takes none, one or two jobs, the last one short.*)
EXTENDS ChunkedReadFile

CONSTANTS s1, s2, w1

MCStreams == {s1, s2}
MCPrompt  == {s1}
MCWorkers == {w1}
=============================================================================
