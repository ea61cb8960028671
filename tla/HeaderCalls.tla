---------------------------- MODULE HeaderCalls -----------------------------
(***************************************************************************)
(* Two pure functions of headers: HttpRange::parse, called with any header *)
(* and a file of any length, and DefaultHeaders, built by any calls and    *)
(* given any response.                                                     *)
(***************************************************************************)
EXTENDS HttpRange, DefaultHeaders, FiniteSets

CONSTANTS
  Headers,   \* values of the Range header
  Sizes,     \* lengths of files
  Builders,  \* sequences of BuilderCalls
  Maps       \* the headers of responses

ASSUME HeadersAssumption  == Headers \subseteq AllHeaders
ASSUME SizesAssumption    == Sizes \subseteq Nat
ASSUME BuildersAssumption == Builders \subseteq Seq(BuilderCalls) /\ Maps \subseteq HeaderMaps

VARIABLES
  fn,            \* the function called
  header, size,  \* the arguments of parse
  calls, map,    \* those of DefaultHeaders
  called,        \* whether the call is made
  result,        \* what parse returned
  headers        \* what DefaultHeaders made of the response's

vars == <<fn, header, size, calls, map, called, result, headers>>

-----------------------------------------------------------------------------
Init ==
  /\ \/ /\ fn = "parse"
        /\ header \in Headers /\ size \in Sizes
        /\ calls = << >> /\ map = NoHeaders
     \/ /\ fn = "defaults"
        /\ calls \in Builders /\ map \in Maps
        /\ header = [form |-> "", elements |-> << >>] /\ size = 0
  /\ called  = FALSE
  /\ result  = Refused
  /\ headers = NoHeaders

CallParse ==
  /\ fn = "parse"
  /\ called' = TRUE
  /\ result' = Parse(header, size)
  /\ UNCHANGED <<fn, header, size, calls, map, headers>>

CallDefaults ==
  /\ fn = "defaults"
  /\ called'  = TRUE
  /\ headers' = Applied(New(calls), map)
  /\ UNCHANGED <<fn, header, size, calls, map, result>>

Next == CallParse \/ CallDefaults

Spec == Init /\ [][Next]_vars

-----------------------------------------------------------------------------
(* What a header asks for, said with sets of bytes *)

\* The bytes of a file of sz bytes that an element names.
Asked(e, sz) ==
  {p \in 0..(sz - 1) :
     IF e.first = Nothing THEN p >= sz - e.last
     ELSE p >= e.first /\ (e.last = Nothing \/ p <= e.last)}

IsProper(e) ==
  \/ e.first = Nothing /\ e.last \in Nat
  \/ e.first \in Nat /\ e.last = Nothing
  \/ e.first \in Nat /\ e.last \in Nat /\ e.first <= e.last

IsWellFormed(h) ==
  /\ h.form = "bytes=" /\ h.elements # << >>
  /\ \A n \in DOMAIN h.elements : IsProper(h.elements[n])

Bytes(range) == range.start..(range.start + range.length - 1)

\* A "-n" that names no byte: n is 0, or the file is empty.
HasEmptySuffix(h, sz) ==
  \E n \in DOMAIN h.elements : h.elements[n].first = Nothing /\ Asked(h.elements[n], sz) = {}

-----------------------------------------------------------------------------
(* Properties *)

\* Types.  Every range lies inside the file (it may be empty at its end).
TypeOK ==
  /\ fn \in {"parse", "defaults"}
  /\ fn = "parse" => header \in Headers /\ size \in Sizes
  /\ headers \in [HeaderNames -> SeqOf(HeaderValues \cup {OctetStream}, 1)]
  /\ called \in BOOLEAN /\ result.ok \in BOOLEAN
  /\ \A n \in DOMAIN result.ranges :
       LET r == result.ranges[n] IN
         r.start \in 0..size /\ r.length \in 0..size /\ r.start + r.length <= size

\* The ranges of a well-formed header are, in order, the bytes its elements
\* ask for, those that ask for none left out.
RangesAreAsked ==
  result.ok /\ IsWellFormed(header) /\ ~HasEmptySuffix(header, size) =>
    LET asks == {n \in DOMAIN header.elements : Asked(header.elements[n], size) # {}}
    IN  /\ Len(result.ranges) = Cardinality(asks)
        /\ \A n \in asks :
             Bytes(result.ranges[Cardinality({k \in asks : k <= n})])
               = Asked(header.elements[n], size)

\* A well-formed header that asks for a byte of the file is accepted.
SatisfiableIsAccepted ==
  called /\ fn = "parse" /\ IsWellFormed(header)
    /\ (\E n \in DOMAIN header.elements : Asked(header.elements[n], size) # {})
  => result.ok

\* "Parses Range HTTP header string as per RFC 2616", which says when a set
\* of ranges is unsatisfiable (14.35.1): no first position is inside the file
\* and no "-n" has an n other than 0.  Such a header is refused.
UnsatisfiableIsRefused ==
  called /\ fn = "parse" /\ IsWellFormed(header)
    /\ (\A n \in DOMAIN header.elements : LET e == header.elements[n] IN
          IF e.first = Nothing THEN e.last = 0 ELSE e.first >= size)
  => ~result.ok

\* An accepted header gives a range to use, unless it named none at all.
AcceptedHasRange ==
  result.ok /\ result.ranges = << >> => header.form = "" \/ header.elements = << >>

\* A response keeps the headers it has.  Of those it lacks it gets, once, the
\* value first given to `header`, or else the default content type if that
\* was asked for; and no other header.
DefaultsFillGaps ==
  called /\ fn = "defaults" => \A n \in HeaderNames :
    LET given == {k \in DOMAIN calls : calls[k].name = n} IN
    headers[n] =
      IF map[n] # << >> THEN map[n]
      ELSE IF given # {}
           THEN <<calls[CHOOSE k \in given : \A j \in given : k <= j].value>>
      ELSE IF n = "content-type" /\ \E k \in DOMAIN calls : calls[k].name = "content_type()"
           THEN <<OctetStream>>
      ELSE << >>
=============================================================================
