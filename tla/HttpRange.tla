------------------------------ MODULE HttpRange ------------------------------
(***************************************************************************)
(* fs.rs, HttpRange::parse: the value of a Range header and the length of  *)
(* a file become the ranges of the file to send, or an error.              *)
(*                                                                         *)
(* A header is a list of elements "first-last".  What parse makes of its   *)
(* text is kept: whether there is text at all, its prefix, and of each     *)
(* element the two numbers, missing or no number.  Elements of blanks only *)
(* are skipped by parse and are not in the list.  Numbers of 2^63 and more *)
(* are no numbers to parse, and no file is as long.                        *)
(***************************************************************************)
EXTENDS Integers, Sequences

Nothing == -1  \* the number is missing, as in "-5" and "5-"
Garbage == -2  \* it is no number, or an element has no "-" (then it is the first)

Elements == [first : Nat \cup {Nothing, Garbage}, last : Nat \cup {Nothing, Garbage}]

AllHeaders == [form : {"", "bytes=", "other"}, elements : Seq(Elements)]

-----------------------------------------------------------------------------
(* The closure that parse maps over the elements *)

Malformed == [kind |-> "malformed", start |-> 0, length |-> 0]
NoOverlap == [kind |-> "no overlap", start |-> 0, length |-> 0]
From(first, n) == [kind |-> "range", start |-> first, length |-> n]

\* Without a first number, the last n bytes.
Suffix(n, sz) == IF n > sz THEN From(0, sz) ELSE From(sz - n, n)

\* Mutant: the end is exclusive.
Between_Exclusive(first, last, sz) ==
  From(first, (IF last >= sz THEN sz - 1 ELSE last) - first)

\* Mutant: the end is not brought into the file.
Between_Unclamped(first, last, sz) == From(first, last - first + 1)

Between(first, last, sz) ==
  From(first, (IF last >= sz THEN sz - 1 ELSE last) - first + 1)

\* A first number behind the end of the file settles the element before its
\* last number is looked at.
Element(e, sz) ==
  IF e.first = Garbage THEN Malformed
  ELSE IF e.first = Nothing THEN (IF e.last \in Nat THEN Suffix(e.last, sz) ELSE Malformed)
  ELSE IF e.first >= sz THEN NoOverlap
  ELSE IF e.last = Nothing THEN From(e.first, sz - e.first)
  ELSE IF e.last = Garbage \/ e.first > e.last THEN Malformed
  ELSE Between(e.first, e.last, sz)

-----------------------------------------------------------------------------
(* The whole header *)

Refused == [ok |-> FALSE, ranges |-> << >>]
Accepted(ranges) == [ok |-> TRUE, ranges |-> ranges]

IsRange(parsed) == parsed.kind = "range"

\* The elements of parsed that are ranges, in their order.
Ranges(parsed) ==
  LET upTo[n \in 0..Len(parsed)] ==
        IF n = 0 THEN << >>
        ELSE IF IsRange(parsed[n]) THEN Append(upTo[n - 1], parsed[n]) ELSE upTo[n - 1]
  IN  upTo[Len(parsed)]

\* Mutant: elements behind the end are left out like any other.
Parse_OverlapForgotten(h, sz) ==
  LET parsed == [n \in DOMAIN h.elements |-> Element(h.elements[n], sz)]
  IN  IF h.form = "" THEN Accepted(<< >>)
      ELSE IF h.form = "other" \/ \E n \in DOMAIN parsed : parsed[n].kind = "malformed"
      THEN Refused ELSE Accepted(Ranges(parsed))

\* Mutant: one element behind the end is enough to refuse the header.
Parse_OverlapFatal(h, sz) ==
  LET parsed == [n \in DOMAIN h.elements |-> Element(h.elements[n], sz)]
  IN  IF h.form = "" THEN Accepted(<< >>)
      ELSE IF h.form = "other" \/ \E n \in DOMAIN parsed : ~IsRange(parsed[n])
      THEN Refused ELSE Accepted(Ranges(parsed))

\* One malformed element fails the whole header; one behind the end of the
\* file does only if no element is left.
Parse(h, sz) ==
  LET parsed == [n \in DOMAIN h.elements |-> Element(h.elements[n], sz)]
      kinds  == {parsed[n].kind : n \in DOMAIN parsed}
      ranges == Ranges(parsed)
  IN  IF h.form = "" THEN Accepted(<< >>)
      ELSE IF h.form = "other" \/ "malformed" \in kinds THEN Refused
      ELSE IF ranges = << >> /\ "no overlap" \in kinds THEN Refused
      ELSE Accepted(ranges)
=============================================================================
