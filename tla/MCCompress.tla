----------------------------- MODULE MCCompress ------------------------------
(* Compress with Accept-Encoding headers of up to two elements.             *)
EXTENDS Compress, SequencesExt

MCAccepts == SeqOf(Accepted, 2)
=============================================================================
