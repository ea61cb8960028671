--------------------------- MODULE MCHeaderCalls ----------------------------
(* Range headers of up to two elements with numbers up to 4, on files of up *)
(* to 3 bytes; middleware built by up to three calls, for two headers with  *)
(* two values.                                                              *)
EXTENDS HeaderCalls

Numbers == 0..4 \cup {Nothing, Garbage}

MCHeaders == [form : {"bytes="}, elements : SeqOf([first : Numbers, last : Numbers], 2)]
             \cup [form : {"", "other"}, elements : {<< >>}]

MCSizes == 0..3

MCBuilders == SeqOf(BuilderCalls, 3)
MCMaps     == HeaderMaps
Nothings   == {}
=============================================================================
