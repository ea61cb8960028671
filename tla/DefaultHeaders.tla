--------------------------- MODULE DefaultHeaders ---------------------------
(***************************************************************************)
(* The DefaultHeaders middleware (middleware/defaultheaders.rs): a builder *)
(* that collects headers, and what is done to each response.               *)
(*                                                                         *)
(* A HeaderMap gives every name the sequence of its values, << >> if the   *)
(* name is not in it.                                                      *)
(***************************************************************************)
EXTENDS Integers, Sequences, SequencesExt

CONSTANTS
  HeaderNames,   \* names of headers (of 64 kB at most), "content-type" among them
  HeaderValues   \* values of headers

\* The name of the builder's other call is no header's: "(" is no token.
ASSUME NamesAssumption ==
  IsFiniteSet(HeaderNames) /\ "content-type" \in HeaderNames /\ "content_type()" \notin HeaderNames

OctetStream == "application/octet-stream"

NoHeaders  == [n \in HeaderNames |-> << >>]
HeaderMaps == [HeaderNames -> SeqOf(HeaderValues, 1)]

\* The calls that build the middleware: header(name, value), content_type().
BuilderCalls == [name : HeaderNames, value : HeaderValues] \cup {[name |-> "content_type()"]}

\* `header` appends; nothing is said of a name that is there already.
Built(mw, c) ==
  IF c.name = "content_type()" THEN [mw EXCEPT !.ct = TRUE]
  ELSE [mw EXCEPT !.headers[c.name] = Append(@, c.value)]

New(calls) ==
  LET mw[k \in 0..Len(calls)] ==
        IF k = 0 THEN [ct |-> FALSE, headers |-> NoHeaders] ELSE Built(mw[k - 1], calls[k])
  IN  mw[Len(calls)]

\* insert replaces whatever the name has.
InsertNew(map, n, value) == IF map[n] # << >> THEN map ELSE [map EXCEPT ![n] = <<value>>]

WithType(mw, map) == IF mw.ct THEN InsertNew(map, "content-type", OctetStream) ELSE map

\* The values the middleware has for one name, one after another.
WithValues(map, n, values) ==
  LET upTo[k \in 0..Len(values)] ==
        IF k = 0 THEN map ELSE InsertNew(upTo[k - 1], n, values[k])
  IN  upTo[Len(values)]

\* HeaderMap::iter gives the names in some order, a name once for each value.
WithHeaders(mw, map) ==
  LET names == SetToSeq(HeaderNames)
      upTo[k \in 0..Len(names)] ==
        IF k = 0 THEN map ELSE WithValues(upTo[k - 1], names[k], mw.headers[names[k]])
  IN  upTo[Len(names)]

\* Mutant: the default content type comes before the headers.
Applied_TypeFirst(mw, map) == WithHeaders(mw, WithType(mw, map))

\* What `call` makes of the headers of a response.
Applied(mw, map) == WithType(mw, WithHeaders(mw, map))
=============================================================================
