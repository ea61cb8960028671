------------------------- MODULE HeaderCallsProofs --------------------------
(***************************************************************************)
(* Theorems about the two functions, for every header, every length of the *)
(* file, every sequence of calls of the builder and every response.        *)
(*                                                                         *)
(* Nothing happens but one call, so the invariant only says that the       *)
(* result is the function's; what the functions compute is shown in        *)
(* lemmas.  parse selects the ranges among the results of the elements     *)
(* (Kept, IsSelected).  The builder's map holds what was given for a name, *)
(* the first first (IsBuilt), and the loop over that map is taken apart:   *)
(* over the values of a name only the first counts, and over the names     *)
(* each is filled when its turn comes (WithHeadersFills).                  *)
(***************************************************************************)
EXTENDS HeaderCalls, Induction

-----------------------------------------------------------------------------
(* An element *)

\* What an element becomes is a range inside the file or one of the two
\* errors; a proper one is not malformed, is a range if it asks for a byte, and
\* then the bytes are those it asks for.
IsRight(e, sz, r) ==
  /\ r.kind \in {"range", "malformed", "no overlap"}
  /\ r.start \in 0..sz /\ r.length \in 0..sz /\ r.start + r.length <= sz
  /\ IsProper(e) => r.kind # "malformed"
  /\ IsProper(e) /\ Asked(e, sz) # {} => IsRange(r)
  /\ IsProper(e) /\ e.first # Nothing /\ IsRange(r) => Asked(e, sz) # {}
  /\ IsProper(e) /\ IsRange(r) => Bytes(r) = Asked(e, sz)

\* The closure of HttpRange::parse.
LEMMA ElementIsRight ==
  ASSUME NEW e \in Elements, NEW sz \in Nat
  PROVE  IsRight(e, sz, Element(e, sz))
<1>1. /\ e.first \in Nat \/ e.first = Nothing \/ e.first = Garbage
      /\ e.last \in Nat \/ e.last = Nothing \/ e.last = Garbage
      /\ Nothing = -1 /\ Garbage = -2
  BY DEF Elements, Nothing, Garbage
<1>2. CASE e.first = Garbage
  <2>1. Element(e, sz) = Malformed /\ ~IsProper(e)
    BY <1>1, <1>2 DEF Element, IsProper
  <2> QED BY <2>1 DEF Malformed, IsRight, IsRange
<1>3. CASE e.first = Nothing
  <2>1. CASE e.last \in Nat /\ e.last > sz
    <3>1. Element(e, sz) = [kind |-> "range", start |-> 0, length |-> sz]
      BY <1>1, <1>3, <2>1 DEF Element, Suffix, From
    <3>2. Asked(e, sz) = 0..(sz - 1)
      BY <1>1, <1>3, <2>1 DEF Asked
    <3>3. Bytes(Element(e, sz)) = 0..(sz - 1)
      BY <3>1 DEF Bytes
    <3> QED BY <1>3, <3>1, <3>2, <3>3 DEF IsRange, IsRight
  <2>2. CASE e.last \in Nat /\ ~(e.last > sz)
    <3>1. Element(e, sz) = [kind |-> "range", start |-> sz - e.last, length |-> e.last]
      BY <1>1, <1>3, <2>2 DEF Element, Suffix, From
    <3>2. Asked(e, sz) = (sz - e.last)..(sz - 1)
      BY <1>1, <1>3, <2>2 DEF Asked
    <3>3. Bytes(Element(e, sz)) = (sz - e.last)..(sz - 1)
      BY <2>2, <3>1 DEF Bytes
    <3> QED BY <1>3, <2>2, <3>1, <3>2, <3>3 DEF IsRange, IsRight
  <2>3. CASE e.last \notin Nat
    <3>1. Element(e, sz) = Malformed /\ ~IsProper(e)
      BY <1>1, <1>3, <2>3 DEF Element, IsProper
    <3> QED BY <3>1 DEF Malformed, IsRight, IsRange
  <2> QED BY <2>1, <2>2, <2>3
<1>4. CASE e.first \in Nat /\ e.first >= sz
  <2>1. Element(e, sz) = NoOverlap
    BY <1>1, <1>4 DEF Element
  <2>2. Asked(e, sz) = {}
    BY <1>1, <1>4 DEF Asked
  <2>3. NoOverlap = [kind |-> "no overlap", start |-> 0, length |-> 0] /\ ~IsRange(NoOverlap)
    BY DEF NoOverlap, IsRange
  <2>4. 0 \in 0..sz /\ 0 + 0 <= sz
    OBVIOUS
  <2>5. IsRight(e, sz, NoOverlap)
    BY <2>2, <2>3, <2>4 DEF IsRight
  <2> QED BY <2>1, <2>5
<1>5. CASE e.first \in Nat /\ e.first < sz
  <2>1. CASE e.last = Nothing
    <3>1. Element(e, sz) = [kind |-> "range", start |-> e.first, length |-> sz - e.first]
      BY <1>1, <1>5, <2>1 DEF Element, From
    <3>2. Asked(e, sz) = e.first..(sz - 1)
      BY <1>1, <1>5, <2>1 DEF Asked
    <3>3. Bytes(Element(e, sz)) = e.first..(sz - 1)
      BY <1>5, <3>1 DEF Bytes
    <3>4. e.first \in e.first..(sz - 1)
      BY <1>5
    <3> QED BY <1>5, <3>1, <3>2, <3>3, <3>4 DEF IsRange, IsRight
  <2>2. CASE e.last = Garbage \/ (e.last \in Nat /\ e.first > e.last)
    <3>1. Element(e, sz) = Malformed /\ ~IsProper(e)
      BY <1>1, <1>5, <2>2 DEF Element, IsProper
    <3> QED BY <3>1 DEF Malformed, IsRight, IsRange
  <2>3. CASE e.last \in Nat /\ e.first <= e.last
    <3>1. PICK end \in Nat : end = IF e.last >= sz THEN sz - 1 ELSE e.last
      BY <1>5, <2>3
    <3>2. end <= sz - 1 /\ e.first <= end
      BY <1>5, <2>3, <3>1
    <3>3. Element(e, sz) = [kind |-> "range", start |-> e.first, length |-> end - e.first + 1]
      BY <1>1, <1>5, <2>3, <3>1 DEF Element, Between, From
    <3>4. Asked(e, sz) = e.first..end
      BY <1>1, <1>5, <2>3, <3>1 DEF Asked
    <3>5. Bytes(Element(e, sz)) = e.first..end
      BY <1>5, <3>1, <3>3 DEF Bytes
    <3>6. e.first \in e.first..end
      BY <1>5, <3>1, <3>2
    <3>7. end - e.first + 1 \in 0..sz /\ e.first + (end - e.first + 1) <= sz /\ e.first \in 0..sz
      BY <1>5, <3>1, <3>2
    <3> QED BY <3>3, <3>4, <3>5, <3>6, <3>7 DEF IsRange, IsRight
  <2> QED BY <1>1, <1>5, <2>1, <2>2, <2>3
<1> QED BY <1>1, <1>2, <1>3, <1>4, <1>5

-----------------------------------------------------------------------------
(* The header *)

Result(h, n, sz) == Element(h.elements[n], sz)

\* The elements that become ranges.
Kept(h, sz) == {n \in DOMAIN h.elements : IsRange(Result(h, n, sz))}

\* ranges is what the elements in Kept become, in their order.
IsSelected(h, sz, ranges) ==
  /\ ranges \in Seq({Result(h, k, sz) : k \in Kept(h, sz)})
  /\ Len(ranges) = Cardinality(Kept(h, sz))
  /\ \A k \in Kept(h, sz) :
       /\ Cardinality(UpTo(Kept(h, sz), k)) \in 1..Len(ranges)
       /\ ranges[Cardinality(UpTo(Kept(h, sz), k))] = Result(h, k, sz)

LEMMA RangesAreSelected ==
  ASSUME NEW parsed, Len(parsed) \in Nat, NEW S,
         \A n \in 1..Len(parsed) : IsRange(parsed[n]) => parsed[n] \in S
  PROVE  \E f : /\ IsSelection(f, Len(parsed), parsed, {k \in 1..Len(parsed) : IsRange(parsed[k])})
                /\ Ranges(parsed) = f[Len(parsed)]
<1> DEFINE L    == Len(parsed)
           Keep == {k \in 1..L : IsRange(parsed[k])}
<1>1. PICK f : IsSelection(f, L, parsed, Keep)
  <2>1. \A k \in Keep : parsed[k] \in S
    OBVIOUS
  <2>2. L \in Nat
    OBVIOUS
  <2> HIDE DEF Keep, L
  <2> QED BY <2>1, <2>2, SelectionExists
<1>2. \A g : [n \in 0..L |-> Selects(g, n, parsed, Keep)]
               = [n \in 0..L |->
                    IF n = 0 THEN << >>
                    ELSE IF IsRange(parsed[n]) THEN Append(g[n - 1], parsed[n]) ELSE g[n - 1]]
  <2>1. ASSUME NEW g, NEW n \in 0..L
        PROVE  Selects(g, n, parsed, Keep)
                 = IF n = 0 THEN << >>
                   ELSE IF IsRange(parsed[n]) THEN Append(g[n - 1], parsed[n]) ELSE g[n - 1]
    <3>1. n # 0 => (n \in Keep <=> IsRange(parsed[n]))
      OBVIOUS
    <3> HIDE DEF Keep
    <3> QED BY <3>1 DEF Selects
  <2> HIDE DEF Keep
  <2> QED BY <2>1
<1> HIDE DEF Keep
<1> DEFINE upTo == CHOOSE g : g = [n \in 0..L |->
                      IF n = 0 THEN << >>
                      ELSE IF IsRange(parsed[n]) THEN Append(g[n - 1], parsed[n]) ELSE g[n - 1]]
<1>3. f = [n \in 0..L |->
             IF n = 0 THEN << >>
             ELSE IF IsRange(parsed[n]) THEN Append(f[n - 1], parsed[n]) ELSE f[n - 1]]
  BY <1>1, <1>2 DEF IsSelection
<1>4. upTo = [n \in 0..L |->
                IF n = 0 THEN << >>
                ELSE IF IsRange(parsed[n]) THEN Append(upTo[n - 1], parsed[n]) ELSE upTo[n - 1]]
  BY <1>3
<1>5. Ranges(parsed) = upTo[L]
  BY DEF Ranges
<1> HIDE DEF upTo
<1>6. upTo = [n \in 0..L |-> Selects(upTo, n, parsed, Keep)]
  BY <1>2, <1>4
<1> QED BY <1>5, <1>6 DEF Keep, IsSelection

LEMMA ParseIs ==
  ASSUME NEW h \in AllHeaders, NEW sz \in Nat
  PROVE  \E ranges :
           /\ IsSelected(h, sz, ranges)
           /\ Parse(h, sz) =
                IF h.form = "" THEN Accepted(<< >>)
                ELSE IF h.form = "other" \/ \E n \in DOMAIN h.elements : Result(h, n, sz).kind = "malformed"
                THEN Refused
                ELSE IF ranges = << >> /\ \E n \in DOMAIN h.elements : Result(h, n, sz).kind = "no overlap"
                THEN Refused
                ELSE Accepted(ranges)
<1> DEFINE parsed == [n \in DOMAIN h.elements |-> Element(h.elements[n], sz)]
           kinds  == {parsed[n].kind : n \in DOMAIN parsed}
<1>1. h.elements \in Seq(Elements)
  BY DEF AllHeaders
<1>2. PICK L \in Nat : L = Len(h.elements) /\ DOMAIN h.elements = 1..L
  BY <1>1, LenProperties
<1>3. parsed = [n \in 1..L |-> Result(h, n, sz)]
  BY <1>2 DEF Result
<1>4. Len(parsed) = L
  <2>1. parsed \in Seq({Result(h, n, sz) : n \in 1..L}) /\ DOMAIN parsed = 1..L
    BY <1>2, <1>3
  <2> HIDE DEF parsed
  <2> QED BY <1>2, <2>1, LenProperties
<1>5. \A kind : kind \in kinds <=> \E n \in DOMAIN h.elements : Result(h, n, sz).kind = kind
  BY <1>2, <1>3
<1>6. Parse(h, sz) = IF h.form = "" THEN Accepted(<< >>)
                     ELSE IF h.form = "other" \/ "malformed" \in kinds THEN Refused
                     ELSE IF Ranges(parsed) = << >> /\ "no overlap" \in kinds THEN Refused
                     ELSE Accepted(Ranges(parsed))
  BY DEF Parse
<1> HIDE DEF parsed, kinds
<1> DEFINE Keep == {k \in 1..L : IsRange(parsed[k])}
           S    == {Result(h, k, sz) : k \in Kept(h, sz)}
<1>7. Keep = Kept(h, sz) /\ \A k \in Keep : parsed[k] = Result(h, k, sz) /\ k \in 1..L
  BY <1>2, <1>3 DEF Kept
<1>8. \A k \in Keep : parsed[k] \in S
  BY <1>7
<1>9. \A k \in Keep : k \in 1..L
  OBVIOUS
<1>10. \A n \in 1..L : IsRange(parsed[n]) => parsed[n] \in S
  BY <1>8
<1> HIDE DEF S
<1>11. PICK f : IsSelection(f, L, parsed, Keep) /\ Ranges(parsed) = f[L]
  BY <1>4, <1>10, RangesAreSelected
<1> HIDE DEF Keep
<1>12. IsSelection(f, L, parsed, Keep)
  BY <1>11
<1>13. IsInOrder(f[L], S, parsed, Keep)
  BY <1>8, <1>9, <1>12, SelectionCounts
<1>14. IsSelected(h, sz, f[L])
  BY <1>7, <1>13 DEF IsSelected, IsInOrder, S
<1> QED BY <1>5, <1>6, <1>11, <1>14

LEMMA ResultIsRight ==
  ASSUME NEW h \in AllHeaders, NEW sz \in Nat, NEW n \in DOMAIN h.elements
  PROVE  IsRight(h.elements[n], sz, Result(h, n, sz))
<1>1. h.elements \in Seq(Elements)
  BY DEF AllHeaders
<1>2. h.elements[n] \in Elements
  BY <1>1, ElementOfSeq
<1> QED BY <1>2, ElementIsRight DEF Result

\* The numbers of elements are those of a finite set.
LEMMA KeptIsFinite ==
  ASSUME NEW h \in AllHeaders, NEW sz \in Nat
  PROVE  /\ IsFiniteSet(Kept(h, sz))
         /\ Cardinality(Kept(h, sz)) = 0 => Kept(h, sz) = {}
<1>1. h.elements \in Seq(Elements)
  BY DEF AllHeaders
<1>2. PICK L \in Nat : DOMAIN h.elements = 1..L
  BY <1>1, LenProperties
<1>3. IsFiniteSet(1..L) /\ Kept(h, sz) \in SUBSET (1..L)
  BY <1>2, FS_Interval DEF Kept
<1>4. IsFiniteSet(Kept(h, sz))
  BY <1>3, FS_Subset
<1> QED BY <1>4, FS_EmptySet

\* The ranges of an accepted header lie inside the file.
LEMMA AcceptedInside ==
  ASSUME NEW h \in AllHeaders, NEW sz \in Nat, NEW ranges, IsSelected(h, sz, ranges),
         NEW n \in DOMAIN ranges
  PROVE  LET r == ranges[n] IN
         r.start \in 0..sz /\ r.length \in 0..sz /\ r.start + r.length <= sz
<1> DEFINE S == {Result(h, k, sz) : k \in Kept(h, sz)}
<1>1. ranges \in Seq(S)
  BY DEF IsSelected
<1>2. ranges[n] \in S
  <2> HIDE DEF S
  <2> QED BY <1>1, ElementOfSeq
<1>3. PICK k \in DOMAIN h.elements : ranges[n] = Result(h, k, sz)
  BY <1>2 DEF Kept
<1>4. IsRight(h.elements[k], sz, Result(h, k, sz))
  BY ResultIsRight
<1> QED BY <1>3, <1>4 DEF IsRight

\* Without ranges nothing was kept.
LEMMA NoRangesNoneKept ==
  ASSUME NEW h \in AllHeaders, NEW sz \in Nat, NEW ranges, IsSelected(h, sz, ranges)
  PROVE  ranges = << >> => Kept(h, sz) = {}
<1>1. Len(<< >>) = 0
  BY EmptySeq
<1>2. Len(ranges) = Cardinality(Kept(h, sz))
  BY DEF IsSelected
<1>3. ranges = << >> => Cardinality(Kept(h, sz)) = 0
  BY <1>1, <1>2
<1> QED BY <1>3, KeptIsFinite

\* What parse promises of the header h and a file of sz bytes.
Inside(sz, p) ==
  \A n \in DOMAIN p.ranges :
    LET r == p.ranges[n] IN
      r.start \in 0..sz /\ r.length \in 0..sz /\ r.start + r.length <= sz

AsAsked(h, sz, p) ==
  p.ok /\ IsWellFormed(h) /\ ~HasEmptySuffix(h, sz) =>
    LET asks == {n \in DOMAIN h.elements : Asked(h.elements[n], sz) # {}}
    IN  /\ Len(p.ranges) = Cardinality(asks)
        /\ \A n \in asks :
             Bytes(p.ranges[Cardinality({k \in asks : k <= n})]) = Asked(h.elements[n], sz)

AsksForSome(h, sz) == \E n \in DOMAIN h.elements : Asked(h.elements[n], sz) # {}

LEMMA ParseIsInside ==
  ASSUME NEW h \in AllHeaders, NEW sz \in Nat
  PROVE  Parse(h, sz).ok \in BOOLEAN /\ Inside(sz, Parse(h, sz))
<1>1. PICK ranges :
        /\ IsSelected(h, sz, ranges)
        /\ \/ Parse(h, sz) = Accepted(ranges)
           \/ Parse(h, sz) = Accepted(<< >>)
           \/ Parse(h, sz) = Refused
  BY ParseIs
<1>2. /\ Accepted(ranges).ranges = ranges /\ Accepted(ranges).ok = TRUE
      /\ Accepted(<< >>).ranges = << >> /\ Accepted(<< >>).ok = TRUE
      /\ Refused.ranges = << >> /\ Refused.ok = FALSE
  BY DEF Accepted, Refused
<1>3. DOMAIN << >> = {}
  OBVIOUS
<1>4. CASE Parse(h, sz) = Accepted(ranges)
  <2>1. Parse(h, sz).ranges = ranges /\ Parse(h, sz).ok = TRUE
    BY <1>2, <1>4
  <2> QED BY <1>1, <2>1, AcceptedInside DEF Inside
<1>5. CASE Parse(h, sz) # Accepted(ranges)
  <2>1. Parse(h, sz).ranges = << >> /\ Parse(h, sz).ok \in BOOLEAN
    BY <1>1, <1>2, <1>5
  <2> QED BY <1>3, <2>1 DEF Inside
<1> QED BY <1>4, <1>5

\* An accepted header that is neither empty nor of another unit gives what was
\* selected, and had no malformed element.
LEMMA AcceptedIsSelected ==
  ASSUME NEW h \in AllHeaders, NEW sz \in Nat, Parse(h, sz).ok, h.form # ""
  PROVE  /\ IsSelected(h, sz, Parse(h, sz).ranges)
         /\ \A n \in DOMAIN h.elements : Result(h, n, sz).kind # "malformed"
         /\ Parse(h, sz).ranges = << >> =>
              \A n \in DOMAIN h.elements : Result(h, n, sz).kind # "no overlap"
<1>1. Refused.ok = FALSE /\ \A ranges : Accepted(ranges).ranges = ranges
  BY DEF Refused, Accepted
<1> DEFINE bad  == \E n \in DOMAIN h.elements : Result(h, n, sz).kind = "malformed"
           past == \E n \in DOMAIN h.elements : Result(h, n, sz).kind = "no overlap"
<1>2. PICK ranges :
        /\ IsSelected(h, sz, ranges)
        /\ Parse(h, sz) = IF h.form = "" THEN Accepted(<< >>)
                          ELSE IF h.form = "other" \/ bad THEN Refused
                          ELSE IF ranges = << >> /\ past THEN Refused
                          ELSE Accepted(ranges)
  BY ParseIs
<1> HIDE DEF bad, past
<1>3. ~bad /\ ~(ranges = << >> /\ past) /\ Parse(h, sz) = Accepted(ranges)
  BY <1>1, <1>2
<1>4. Parse(h, sz).ranges = ranges
  BY <1>1, <1>3
<1> QED BY <1>2, <1>3, <1>4 DEF bad, past

LEMMA ParseIsAsAsked ==
  ASSUME NEW h \in AllHeaders, NEW sz \in Nat
  PROVE  AsAsked(h, sz, Parse(h, sz))
<1> DEFINE asks   == {n \in DOMAIN h.elements : Asked(h.elements[n], sz) # {}}
           ranges == Parse(h, sz).ranges
<1> SUFFICES ASSUME Parse(h, sz).ok, IsWellFormed(h), ~HasEmptySuffix(h, sz)
             PROVE  /\ Len(ranges) = Cardinality(asks)
                    /\ \A n \in asks :
                         Bytes(ranges[Cardinality({k \in asks : k <= n})]) = Asked(h.elements[n], sz)
  BY DEF AsAsked
<1>1. h.form # "" /\ \A n \in DOMAIN h.elements : IsProper(h.elements[n])
  BY DEF IsWellFormed
<1>2. IsSelected(h, sz, ranges)
  BY <1>1, AcceptedIsSelected
<1>3. ASSUME NEW n \in DOMAIN h.elements
      PROVE  /\ IsRange(Result(h, n, sz)) <=> Asked(h.elements[n], sz) # {}
             /\ IsRange(Result(h, n, sz)) => Bytes(Result(h, n, sz)) = Asked(h.elements[n], sz)
  <2>1. IsRight(h.elements[n], sz, Result(h, n, sz)) /\ IsProper(h.elements[n])
    BY <1>1, ResultIsRight
  <2>2. h.elements[n].first = Nothing => Asked(h.elements[n], sz) # {}
    BY DEF HasEmptySuffix
  <2> QED BY <2>1, <2>2 DEF IsRight
<1>4. asks = Kept(h, sz)
  BY <1>3 DEF Kept
<1> HIDE DEF ranges
<1>5. ASSUME NEW n \in Kept(h, sz)
      PROVE  Bytes(ranges[Cardinality(UpTo(Kept(h, sz), n))]) = Asked(h.elements[n], sz)
  <2>1. ranges[Cardinality(UpTo(Kept(h, sz), n))] = Result(h, n, sz)
    BY <1>2 DEF IsSelected
  <2>2. n \in DOMAIN h.elements /\ IsRange(Result(h, n, sz))
    BY DEF Kept
  <2> QED BY <1>3, <2>1, <2>2
<1>6. Len(ranges) = Cardinality(Kept(h, sz))
  BY <1>2 DEF IsSelected
<1> HIDE DEF asks
<1> QED BY <1>4, <1>5, <1>6 DEF UpTo

LEMMA ParseAcceptsSatisfiable ==
  ASSUME NEW h \in AllHeaders, NEW sz \in Nat, IsWellFormed(h), AsksForSome(h, sz)
  PROVE  Parse(h, sz).ok
<1>1. /\ h.form # "" /\ h.form # "other"
      /\ \A n \in DOMAIN h.elements : IsProper(h.elements[n])
  BY DEF IsWellFormed
<1>2. \A n \in DOMAIN h.elements : Result(h, n, sz).kind # "malformed"
  BY <1>1, ResultIsRight DEF IsRight
<1>3. PICK n \in DOMAIN h.elements : Asked(h.elements[n], sz) # {}
  BY DEF AsksForSome
<1>4. n \in Kept(h, sz)
  BY <1>1, <1>3, ResultIsRight DEF IsRight, Kept
<1> DEFINE bad  == \E k \in DOMAIN h.elements : Result(h, k, sz).kind = "malformed"
           past == \E k \in DOMAIN h.elements : Result(h, k, sz).kind = "no overlap"
<1>5. PICK ranges :
        /\ IsSelected(h, sz, ranges)
        /\ Parse(h, sz) = IF h.form = "" THEN Accepted(<< >>)
                          ELSE IF h.form = "other" \/ bad THEN Refused
                          ELSE IF ranges = << >> /\ past THEN Refused
                          ELSE Accepted(ranges)
  BY ParseIs
<1>6. ~bad
  BY <1>2
<1>7. ranges # << >>
  BY <1>4, <1>5, NoRangesNoneKept
<1> HIDE DEF bad, past
<1>8. Parse(h, sz) = Accepted(ranges)
  BY <1>1, <1>5, <1>6, <1>7
<1> QED BY <1>8 DEF Accepted

LEMMA FirstNumber == \A n \in Nat : n # 0 => 1 \in 1..n
OBVIOUS

LEMMA ParseGivesRange ==
  ASSUME NEW h \in AllHeaders, NEW sz \in Nat, Parse(h, sz).ok, Parse(h, sz).ranges = << >>
  PROVE  h.form = "" \/ h.elements = << >>
<1> SUFFICES ASSUME h.form # "", h.elements # << >> PROVE FALSE
  OBVIOUS
<1>1. h.elements \in Seq(Elements)
  BY DEF AllHeaders
<1>2. 1 \in DOMAIN h.elements
  <2>1. Len(h.elements) \in Nat
    BY <1>1, LenProperties
  <2>2. Len(h.elements) # 0
    BY <1>1, EmptySeq
  <2> QED BY <1>1, <2>1, <2>2, FirstNumber, LenProperties
<1>3. Result(h, 1, sz).kind \in {"range", "malformed", "no overlap"}
  BY <1>2, ResultIsRight DEF IsRight
<1>4. IsSelected(h, sz, Parse(h, sz).ranges)
  BY AcceptedIsSelected
<1>5. Result(h, 1, sz).kind # "malformed" /\ Result(h, 1, sz).kind # "no overlap"
  BY <1>2, AcceptedIsSelected
<1>6. 1 \in Kept(h, sz)
  BY <1>2, <1>3, <1>5 DEF Kept, IsRange
<1> QED BY <1>4, <1>6, NoRangesNoneKept

-----------------------------------------------------------------------------
(* The invariant: no more than one call *)

Arguments ==
  /\ header \in AllHeaders /\ size \in Nat
  /\ fn = "parse"    => header \in Headers /\ size \in Sizes
  /\ fn = "defaults" => calls \in Builders /\ map \in Maps

Results ==
  /\ result  = IF called /\ fn = "parse" THEN Parse(header, size) ELSE Refused
  /\ headers = IF called /\ fn = "defaults" THEN Applied(New(calls), map) ELSE NoHeaders

IInv ==
  /\ fn \in {"parse", "defaults"} /\ called \in BOOLEAN
  /\ Arguments
  /\ Results

LEMMA Invariant == Spec => []IInv
<1>1. Init => IInv
  <2> SUFFICES ASSUME Init PROVE IInv
    OBVIOUS
  <2>1. CASE fn = "parse"
    <3>1. header \in Headers /\ size \in Sizes /\ called = FALSE
      BY <2>1 DEF Init
    <3>2. header \in AllHeaders /\ size \in Nat
      BY <3>1, HeadersAssumption, SizesAssumption
    <3> QED BY <2>1, <3>1, <3>2 DEF Init, IInv, Arguments, Results
  <2>2. CASE fn = "defaults"
    <3>1. /\ calls \in Builders /\ map \in Maps /\ called = FALSE
          /\ header = [form |-> "", elements |-> << >>] /\ size = 0
      BY <2>2 DEF Init
    <3>2. << >> \in Seq(Elements)
      BY EmptySeq
    <3>3. header \in AllHeaders /\ size \in Nat
      BY <3>1, <3>2 DEF AllHeaders
    <3> QED BY <2>2, <3>1, <3>3 DEF Init, IInv, Arguments, Results
  <2> QED BY <2>1, <2>2 DEF Init
<1>2. IInv /\ [Next]_vars => IInv'
  <2> SUFFICES ASSUME IInv, [Next]_vars PROVE IInv'
    OBVIOUS
  <2>1. CASE CallParse
    BY <2>1 DEF CallParse, IInv, Arguments, Results
  <2>2. CASE CallDefaults
    BY <2>2 DEF CallDefaults, IInv, Arguments, Results
  <2>3. CASE UNCHANGED vars
    BY <2>3 DEF vars, IInv, Arguments, Results
  <2> QED BY <2>1, <2>2, <2>3 DEF Next
<1> QED BY <1>1, <1>2, PTL DEF Spec

\* An accepted header is the one parse was called with.
LEMMA ResultIsParse ==
  ASSUME IInv
  PROVE  /\ header \in AllHeaders /\ size \in Nat
         /\ result = Parse(header, size) \/ result = Refused
         /\ called /\ fn = "parse" => result = Parse(header, size)
         /\ Refused.ok = FALSE /\ Refused.ranges = << >>
BY DEF IInv, Arguments, Results, Refused

-----------------------------------------------------------------------------
(* The theorems about HttpRange::parse *)

\* The ranges of a well-formed header that parse accepts are, in order, the
\* bytes its elements ask for, those that ask for none left out.
THEOREM RangesAreTheBytesAsked == Spec => []RangesAreAsked
<1>1. IInv => RangesAreAsked
  <2> SUFFICES ASSUME IInv, result.ok PROVE RangesAreAsked
    BY DEF RangesAreAsked
  <2>1. header \in AllHeaders /\ size \in Nat /\ result = Parse(header, size)
    BY ResultIsParse
  <2>2. AsAsked(header, size, result)
    BY <2>1, ParseIsAsAsked
  <2> QED BY <2>2 DEF AsAsked, RangesAreAsked
<1> QED BY <1>1, Invariant, PTL

\* parse accepts every well-formed header that asks for a byte of the file,
\* whatever else the header asks for.
THEOREM SatisfiableHeadersAccepted == Spec => []SatisfiableIsAccepted
<1>1. IInv => SatisfiableIsAccepted
  <2> SUFFICES ASSUME IInv, called, fn = "parse", IsWellFormed(header), AsksForSome(header, size)
               PROVE  result.ok
    BY DEF SatisfiableIsAccepted, AsksForSome
  <2>1. header \in AllHeaders /\ size \in Nat /\ result = Parse(header, size)
    BY ResultIsParse
  <2> QED BY <2>1, ParseAcceptsSatisfiable
<1> QED BY <1>1, Invariant, PTL

\* parse gives no empty list of ranges, but for a header that names none.
THEOREM AcceptedHeadersGiveRanges == Spec => []AcceptedHasRange
<1>1. IInv => AcceptedHasRange
  <2> SUFFICES ASSUME IInv, result.ok, result.ranges = << >>
               PROVE  header.form = "" \/ header.elements = << >>
    BY DEF AcceptedHasRange
  <2>1. header \in AllHeaders /\ size \in Nat /\ result = Parse(header, size)
    BY ResultIsParse
  <2> QED BY <2>1, ParseGivesRange
<1> QED BY <1>1, Invariant, PTL

-----------------------------------------------------------------------------
(* The default headers: the values of one name *)

\* What a name has after the values are inserted: its own, or the first.
Fill(own, values) == IF own # << >> \/ values = << >> THEN own ELSE <<values[1]>>

LEMMA FillTwice ==
  ASSUME NEW own, NEW values
  PROVE  Fill(Fill(own, values), values) = Fill(own, values)
<1>1. <<values[1]>> # << >>
  OBVIOUS
<1> QED BY <1>1 DEF Fill

\* The loop over the values of a name n of the map m.
LEMMA WithValuesFills ==
  ASSUME NEW m, NEW n, m = [x \in HeaderNames |-> m[x]], n \in HeaderNames,
         NEW S, NEW values \in Seq(S)
  PROVE  WithValues(m, n, values) = [m EXCEPT ![n] = Fill(m[n], values)]
<1>1. PICK L \in Nat : L = Len(values) /\ (values = << >> <=> L = 0)
  <2>1. Len(values) \in Nat
    BY LenProperties
  <2>2. values = << >> => Len(values) = 0
    BY EmptySeq
  <2>3. values # << >> => Len(values) # 0
    BY EmptySeq
  <2> QED BY <2>1, <2>2, <2>3
<1> DEFINE after == [m EXCEPT ![n] = <<values[1]>>]
           full  == m[n] # << >>
           g     == [k \in 0..L |-> IF full \/ k = 0 THEN m ELSE after]
<1>2. after[n] = <<values[1]>> /\ after[n] # << >>
  <2>1. <<values[1]>> # << >>
    OBVIOUS
  <2> QED BY <2>1
<1>3. \A v : InsertNew(m, n, v) = IF full THEN m ELSE [m EXCEPT ![n] = <<v>>]
  BY DEF InsertNew
<1>4. \A v : InsertNew(after, n, v) = after
  BY <1>2 DEF InsertNew
<1>5. ASSUME NEW k \in 1..L PROVE g[k] = InsertNew(g[k - 1], n, values[k])
  <2>1. /\ g[k] = IF full THEN m ELSE after
        /\ g[k - 1] = IF full \/ k = 1 THEN m ELSE after
    OBVIOUS
  <2>2. CASE full
    <3> HIDE DEF g, full, after
    <3> QED BY <1>3, <2>1, <2>2
  <2>3. CASE ~full /\ k = 1
    <3>1. InsertNew(m, n, values[k]) = [m EXCEPT ![n] = <<values[1]>>]
      <4> HIDE DEF full
      <4> QED BY <1>3, <2>3
    <3>2. g[k] = after /\ g[k - 1] = m
      <4> HIDE DEF g, full, after
      <4> QED BY <2>1, <2>3
    <3> HIDE DEF g
    <3> QED BY <3>1, <3>2
  <2>4. CASE ~full /\ k # 1
    <3>1. g[k] = after /\ g[k - 1] = after
      <4> HIDE DEF g, full, after
      <4> QED BY <2>1, <2>4
    <3> HIDE DEF g, after
    <3> QED BY <1>4, <3>1
  <2> QED BY <2>2, <2>3, <2>4
<1>6. g = [k \in 0..L |-> IF k = 0 THEN m ELSE InsertNew(g[k - 1], n, values[k])]
  <2>1. ASSUME NEW k \in 0..L PROVE g[k] = IF k = 0 THEN m ELSE InsertNew(g[k - 1], n, values[k])
    <3>1. g[0] = m /\ (k # 0 => k \in 1..L)
      OBVIOUS
    <3> HIDE DEF g
    <3> QED BY <1>5, <3>1
  <2>2. g = [k \in 0..L |-> g[k]]
    OBVIOUS
  <2> HIDE DEF g
  <2> QED BY <2>1, <2>2
<1> DEFINE upTo == CHOOSE u : u = [k \in 0..L |->
                      IF k = 0 THEN m ELSE InsertNew(u[k - 1], n, values[k])]
<1>7. upTo = [k \in 0..L |-> IF k = 0 THEN m ELSE InsertNew(upTo[k - 1], n, values[k])]
  <2> HIDE DEF g
  <2> QED BY <1>6
<1>8. WithValues(m, n, values) = upTo[L]
  BY <1>1 DEF WithValues
<1> HIDE DEF upTo
<1>9. upTo[L] = g[L]
  <2>1. upTo[0] = g[0]
    BY <1>7
  <2>2. \A k \in 1..L : upTo[k] = InsertNew(upTo[k - 1], n, values[k])
    BY <1>7
  <2> HIDE DEF g
  <2>3. \A k \in 1..L : upTo[k - 1] = g[k - 1] => upTo[k] = g[k]
    BY <1>5, <2>2
  <2> QED BY <2>1, <2>3, SameRecursion
<1>10. g[L] = IF full \/ L = 0 THEN m ELSE after
  OBVIOUS
<1>11. [m EXCEPT ![n] = m[n]] = m
  OBVIOUS
<1>12. CASE full \/ L = 0
  <2>1. Fill(m[n], values) = m[n]
    BY <1>1, <1>12 DEF Fill
  <2> HIDE DEF full, after, g
  <2> QED BY <1>8, <1>9, <1>10, <1>11, <1>12, <2>1
<1>13. CASE ~(full \/ L = 0)
  <2>1. Fill(m[n], values) = <<values[1]>>
    BY <1>1, <1>13 DEF Fill
  <2>2. g[L] = after
    BY <1>10, <1>13
  <2> HIDE DEF g
  <2> QED BY <1>8, <1>9, <2>1, <2>2
<1> QED BY <1>12, <1>13

-----------------------------------------------------------------------------
(* All the names *)

\* The order in which the names come has every one of them.
LEMMA AllNames ==
  \E N \in Nat : \E names :
    /\ names = SetToSeq(HeaderNames) /\ Len(names) = N
    /\ names \in [1..N -> HeaderNames]
    /\ \A n \in HeaderNames : \E k \in 1..N : names[k] = n
<1> DEFINE N == Cardinality(HeaderNames)
<1>1. IsFiniteSet(HeaderNames) /\ N \in Nat /\ ExistsBijection(1..N, HeaderNames)
  BY NamesAssumption, FS_CardinalityType
<1> HIDE DEF N
<1>2. \E f \in [1..N -> HeaderNames] : IsInjective(f)
  BY <1>1, Zenon DEF ExistsBijection, Bijection, Injection
<1> DEFINE names == CHOOSE f \in [1..N -> HeaderNames] : IsInjective(f)
<1>3. names \in [1..N -> HeaderNames] /\ IsInjective(names)
  BY <1>2
<1>4. names = SetToSeq(HeaderNames)
  BY DEF SetToSeq, N
<1> HIDE DEF names
<1>5. names \in Injection(1..N, HeaderNames)
  BY <1>3 DEF Injection
<1>6. IsFiniteSet(1..N) /\ Cardinality(1..N) = N
  BY <1>1, FS_Interval
<1>7. names \in Surjection(1..N, HeaderNames)
  BY <1>1, <1>5, <1>6, FS_Injection DEF N
<1>8. \A n \in HeaderNames : \E k \in 1..N : names[k] = n
  BY <1>7 DEF Surjection
<1>9. Len(names) = N
  <2>1. names \in Seq(HeaderNames) /\ DOMAIN names = 1..N
    BY <1>1, <1>3
  <2> QED BY <1>1, <2>1, LenProperties
<1> QED BY <1>1, <1>3, <1>4, <1>8, <1>9

\* The loop over the names: each is filled when its turn comes.
LEMMA WithHeadersFills ==
  ASSUME NEW mw, NEW m, m = [n \in HeaderNames |-> m[n]],
         \A n \in HeaderNames : mw.headers[n] \in Seq(HeaderValues)
  PROVE  WithHeaders(mw, m) = [n \in HeaderNames |-> Fill(m[n], mw.headers[n])]
<1>1. PICK N \in Nat : \E names :
        /\ names = SetToSeq(HeaderNames) /\ Len(names) = N
        /\ names \in [1..N -> HeaderNames]
        /\ \A n \in HeaderNames : \E k \in 1..N : names[k] = n
  BY AllNames
<1>2. PICK names :
        /\ names = SetToSeq(HeaderNames) /\ Len(names) = N
        /\ names \in [1..N -> HeaderNames]
        /\ \A n \in HeaderNames : \E k \in 1..N : names[k] = n
  BY <1>1
<1> DEFINE came(k, n) == \E j \in 1..k : names[j] = n
           filled(k)  == [n \in HeaderNames |->
                            IF came(k, n) THEN Fill(m[n], mw.headers[n]) ELSE m[n]]
           g == [k \in 0..N |-> filled(k)]
<1>3. filled(0) = m
  <2>1. \A n \in HeaderNames : ~came(0, n)
    OBVIOUS
  <2> HIDE DEF came
  <2> QED BY <2>1
<1>4. ASSUME NEW k \in 1..N
      PROVE  filled(k) = WithValues(filled(k - 1), names[k], mw.headers[names[k]])
  <2>1. PICK n \in HeaderNames : n = names[k]
    BY <1>2
  <2>2. \A x \in HeaderNames : came(k, x) <=> came(k - 1, x) \/ x = n
    <3>1. \A j \in 1..k : j \in 1..(k - 1) \/ j = k
      OBVIOUS
    <3>2. \A j \in 1..(k - 1) : j \in 1..k
      OBVIOUS
    <3>3. k \in 1..k
      OBVIOUS
    <3> QED BY <2>1, <3>1, <3>2, <3>3
  <2>3. PICK before : before = filled(k - 1)
    OBVIOUS
  <2> HIDE DEF came
  <2>4. /\ before = [x \in HeaderNames |-> before[x]]
        /\ \A x \in HeaderNames :
             before[x] = IF came(k - 1, x) THEN Fill(m[x], mw.headers[x]) ELSE m[x]
    BY <2>3
  <2>5. PICK values \in Seq(HeaderValues) : values = mw.headers[n]
    OBVIOUS
  <2>6. before = [x \in HeaderNames |-> before[x]]
    BY <2>4
  <2>7. WithValues(before, n, values) = [before EXCEPT ![n] = Fill(before[n], values)]
    BY <2>6, WithValuesFills
  <2>8. WithValues(before, n, mw.headers[n]) = [before EXCEPT ![n] = Fill(before[n], mw.headers[n])]
    BY <2>5, <2>7
  <2>9. Fill(before[n], mw.headers[n]) = Fill(m[n], mw.headers[n])
    BY <2>4, FillTwice
  <2>10. [before EXCEPT ![n] = Fill(before[n], mw.headers[n])] = filled(k)
    <3>1. ASSUME NEW x \in HeaderNames
          PROVE  [before EXCEPT ![n] = Fill(before[n], mw.headers[n])][x]
                   = IF came(k, x) THEN Fill(m[x], mw.headers[x]) ELSE m[x]
      <4>1. CASE x = n
        BY <2>2, <2>4, <2>9, <4>1
      <4>2. CASE x # n
        BY <2>2, <2>4, <4>2
      <4> QED BY <4>1, <4>2
    <3> QED BY <2>4, <3>1
  <2> HIDE DEF filled
  <2> QED BY <2>1, <2>3, <2>8, <2>10
<1>5. \A k \in 1..N : k - 1 \in 0..N /\ g[k] = filled(k) /\ g[k - 1] = filled(k - 1)
  <2> HIDE DEF filled
  <2> QED OBVIOUS
<1>6. g[0] = m /\ g[N] = filled(N) /\ g = [k \in 0..N |-> g[k]]
  <2> HIDE DEF filled
  <2> QED BY <1>3
<1> HIDE DEF g, filled
<1>7. \A k \in 1..N : g[k] = WithValues(g[k - 1], names[k], mw.headers[names[k]])
  BY <1>4, <1>5
<1>8. g = [k \in 0..N |->
             IF k = 0 THEN m ELSE WithValues(g[k - 1], names[k], mw.headers[names[k]])]
  <2>1. ASSUME NEW k \in 0..N
        PROVE  g[k] = IF k = 0 THEN m ELSE WithValues(g[k - 1], names[k], mw.headers[names[k]])
    <3>1. k # 0 => k \in 1..N
      OBVIOUS
    <3> QED BY <1>6, <1>7, <3>1
  <2> QED BY <1>6, <2>1
<1> DEFINE upTo == CHOOSE u : u = [k \in 0..N |->
                      IF k = 0 THEN m ELSE WithValues(u[k - 1], names[k], mw.headers[names[k]])]
<1>9. upTo = [k \in 0..N |->
                IF k = 0 THEN m ELSE WithValues(upTo[k - 1], names[k], mw.headers[names[k]])]
  BY <1>8
<1>10. WithHeaders(mw, m) = upTo[N]
  BY <1>2 DEF WithHeaders
<1> HIDE DEF upTo
<1>11. upTo[0] = g[0]
  BY <1>6, <1>9
<1>12. \A k \in 1..N : upTo[k] = WithValues(upTo[k - 1], names[k], mw.headers[names[k]])
  BY <1>9
<1>13. \A k \in 1..N : upTo[k - 1] = g[k - 1] => upTo[k] = g[k]
  BY <1>7, <1>12
<1>14. upTo[N] = g[N]
  BY <1>11, <1>13, SameRecursion
<1>15. filled(N) = [n \in HeaderNames |-> Fill(m[n], mw.headers[n])]
  <2>1. \A n \in HeaderNames : came(N, n)
    BY <1>2
  <2> HIDE DEF came
  <2> QED BY <2>1 DEF filled
<1> QED BY <1>6, <1>10, <1>14, <1>15

-----------------------------------------------------------------------------
(* The builder *)

Middlewares == [ct : BOOLEAN, headers : [HeaderNames -> Seq(HeaderValues)]]

IsTypeCall(c) == c.name = "content_type()"

\* One call of the builder.
LEMMA BuiltIs ==
  ASSUME NEW mw \in Middlewares, NEW c \in BuilderCalls
  PROVE  /\ Built(mw, c) \in Middlewares
         /\ IsTypeCall(c) => Built(mw, c).ct = TRUE /\ Built(mw, c).headers = mw.headers
         /\ ~IsTypeCall(c) =>
              /\ c.name \in HeaderNames /\ c.value \in HeaderValues
              /\ Built(mw, c).ct = mw.ct
              /\ Built(mw, c).headers[c.name] = Append(mw.headers[c.name], c.value)
              /\ \A n \in HeaderNames : n # c.name => Built(mw, c).headers[n] = mw.headers[n]
<1>1. mw = [ct |-> mw.ct, headers |-> mw.headers] /\ mw.ct \in BOOLEAN
  BY DEF Middlewares
<1>2. mw.headers \in [HeaderNames -> Seq(HeaderValues)]
  BY DEF Middlewares
<1>3. CASE IsTypeCall(c)
  <2>1. Built(mw, c) = [ct |-> TRUE, headers |-> mw.headers]
    BY <1>1, <1>3 DEF Built, IsTypeCall
  <2> QED BY <1>2, <1>3, <2>1 DEF Middlewares
<1>4. CASE ~IsTypeCall(c)
  <2>1. c.name \in HeaderNames /\ c.value \in HeaderValues
    BY <1>4 DEF BuilderCalls, IsTypeCall
  <2>2. PICK n \in HeaderNames : n = c.name
    BY <2>1
  <2>3. PICK more : more = Append(mw.headers[n], c.value)
    OBVIOUS
  <2>4. more \in Seq(HeaderValues)
    BY <1>2, <2>1, <2>2, <2>3, AppendProperties
  <2>5. PICK after : after = [mw.headers EXCEPT ![n] = more]
    OBVIOUS
  <2>6. /\ after \in [HeaderNames -> Seq(HeaderValues)]
        /\ after[n] = more /\ \A x \in HeaderNames : x # n => after[x] = mw.headers[x]
    BY <1>2, <2>4, <2>5
  <2>7. Built(mw, c) = [ct |-> mw.ct, headers |-> after]
    BY <1>1, <1>4, <2>2, <2>3, <2>5 DEF Built, IsTypeCall
  <2>8. Built(mw, c) \in Middlewares
    BY <1>1, <2>6, <2>7 DEF Middlewares
  <2> QED BY <1>4, <2>1, <2>2, <2>3, <2>6, <2>7, <2>8
<1> QED BY <1>3, <1>4

\* The values a name has after the first n calls: none if it was not given,
\* and else the first that was given comes first.
FirstGiven(cs, n, name, values) ==
  IF \E k \in 1..n : cs[k].name = name
  THEN /\ values # << >>
       /\ \E k \in 1..n : /\ cs[k].name = name /\ cs[k].value = values[1]
                          /\ \A j \in 1..n : cs[j].name = name => k <= j
  ELSE values = << >>

IsBuilt(cs, n, mw) ==
  /\ mw \in Middlewares
  /\ mw.ct <=> \E k \in 1..n : IsTypeCall(cs[k])
  /\ \A name \in HeaderNames : FirstGiven(cs, n, name, mw.headers[name])

LEMMA BuiltStep ==
  ASSUME NEW cs, NEW n \in Nat, NEW mw, IsBuilt(cs, n, mw), cs[n + 1] \in BuilderCalls
  PROVE  IsBuilt(cs, n + 1, Built(mw, cs[n + 1]))
<1>1. PICK c \in BuilderCalls : c = cs[n + 1]
  OBVIOUS
<1>2. PICK next : next = Built(mw, c)
  OBVIOUS
<1>3. mw \in Middlewares /\ next \in Middlewares
  BY <1>2, BuiltIs DEF IsBuilt
<1>4. /\ \A k \in 1..(n + 1) : k \in 1..n \/ k = n + 1
      /\ \A k \in 1..n : k \in 1..(n + 1) /\ k <= n + 1
      /\ n + 1 \in 1..(n + 1) /\ n + 1 <= n + 1
  OBVIOUS
<1>5. next.ct <=> \E k \in 1..(n + 1) : IsTypeCall(cs[k])
  <2>1. mw.ct <=> \E k \in 1..n : IsTypeCall(cs[k])
    BY DEF IsBuilt
  <2>2. (\E k \in 1..(n + 1) : IsTypeCall(cs[k])) <=> (\E k \in 1..n : IsTypeCall(cs[k])) \/ IsTypeCall(c)
    BY <1>1, <1>4
  <2>3. next.ct = (mw.ct \/ IsTypeCall(c))
    <3>1. mw.ct \in BOOLEAN
      BY <1>3 DEF Middlewares
    <3>2. CASE IsTypeCall(c)
      BY <1>2, <1>3, <3>1, <3>2, BuiltIs
    <3>3. CASE ~IsTypeCall(c)
      <4>1. next.ct = mw.ct
        BY <1>2, <1>3, <3>3, BuiltIs
      <4> QED BY <3>1, <3>3, <4>1
    <3> QED BY <3>2, <3>3
  <2> QED BY <2>1, <2>2, <2>3
<1>6. ASSUME NEW name \in HeaderNames
      PROVE  FirstGiven(cs, n + 1, name, next.headers[name])
  <2>1. FirstGiven(cs, n, name, mw.headers[name])
    BY DEF IsBuilt
  <2>2. PICK values \in Seq(HeaderValues) : values = mw.headers[name]
    BY <1>3 DEF Middlewares
  <2>3. CASE c.name # name
    <3>1. next.headers[name] = values
      BY <1>2, <1>3, <2>2, <2>3, BuiltIs
    <3>2. \A k \in 1..(n + 1) : cs[k].name = name => k \in 1..n
      BY <1>1, <1>4, <2>3
    <3> QED BY <1>4, <2>1, <2>2, <3>1, <3>2 DEF FirstGiven
  <2>4. CASE c.name = name
    <3>1. ~IsTypeCall(c)
      BY <2>4, NamesAssumption DEF IsTypeCall
    <3>2. PICK v \in HeaderValues : v = c.value
      BY <1>3, <3>1, BuiltIs
    <3>3. PICK more : more = Append(values, v)
      OBVIOUS
    <3>4. next.headers[name] = more
      BY <1>2, <1>3, <2>2, <2>4, <3>1, <3>2, <3>3, BuiltIs
    <3>5. more # << >>
      BY <3>3, AppendProperties
    <3>6. CASE \E k \in 1..n : cs[k].name = name
      <4>1. PICK k \in 1..n : /\ cs[k].name = name /\ cs[k].value = values[1]
                              /\ \A j \in 1..n : cs[j].name = name => k <= j
        BY <2>1, <2>2, <3>6 DEF FirstGiven
      <4>2. values # << >>
        BY <2>1, <2>2, <3>6 DEF FirstGiven
      <4>3. Len(values) \in Nat
        BY LenProperties
      <4>4. Len(values) # 0
        BY <4>2, EmptySeq
      <4>5. 1 \in 1..Len(values)
        BY <4>3, <4>4, FirstNumber
      <4>6. \A i \in 1..Len(values) : more[i] = values[i]
        BY <3>3, AppendProperties
      <4>7. more[1] = values[1]
        BY <4>5, <4>6
      <4>8. k \in 1..(n + 1) /\ \A j \in 1..(n + 1) : cs[j].name = name => k <= j
        BY <1>4, <4>1
      <4> QED BY <3>4, <3>5, <4>1, <4>7, <4>8 DEF FirstGiven
    <3>7. CASE ~ \E k \in 1..n : cs[k].name = name
      <4>1. values = << >>
        BY <2>1, <2>2, <3>7 DEF FirstGiven
      <4>2. Len(values) = 0
        BY <4>1, EmptySeq
      <4>3. more[Len(values) + 1] = v
        BY <3>3, AppendProperties
      <4>4. more[1] = v
        BY <4>2, <4>3
      <4>5. \A j \in 1..(n + 1) : cs[j].name = name => n + 1 <= j
        BY <1>4, <3>7
      <4>6. cs[n + 1].name = name /\ cs[n + 1].value = v
        BY <1>1, <2>4, <3>2
      <4> QED BY <1>4, <3>4, <3>5, <4>4, <4>5, <4>6 DEF FirstGiven
    <3> QED BY <3>6, <3>7
  <2> QED BY <2>3, <2>4
<1>7. IsBuilt(cs, n + 1, next)
  BY <1>3, <1>5, <1>6 DEF IsBuilt
<1> QED BY <1>1, <1>2, <1>7

\* The builder's loop.
LEMMA NewIsBuilt ==
  ASSUME NEW cs \in Seq(BuilderCalls)
  PROVE  IsBuilt(cs, Len(cs), New(cs))
<1> DEFINE start == [ct |-> FALSE, headers |-> NoHeaders]
<1>1. PICK L \in Nat : L = Len(cs) /\ \A n \in 1..L : cs[n] \in BuilderCalls
  BY LenProperties, ElementOfSeq
<1>2. start \in Middlewares
  <2>1. << >> \in Seq(HeaderValues)
    BY EmptySeq
  <2> QED BY <2>1 DEF Middlewares, NoHeaders
<1> DEFINE G == [x \in (1..L) \X Middlewares |-> Built(x[2], cs[x[1]])]
<1>3. /\ \A n \in 1..L, v \in Middlewares : Built(v, cs[n]) \in Middlewares
      /\ \A n \in 1..L, v \in Middlewares : G[<<n, v>>] = Built(v, cs[n])
  BY <1>1, BuiltIs
<1>4. G \in [(1..L) \X Middlewares -> Middlewares]
  BY <1>3
<1> HIDE DEF G, start
<1>5. PICK f : IsRecursion(f, L, Middlewares, start, G)
  BY <1>2, <1>4, RecursionOverNumbers
<1>6. /\ f \in [0..L -> Middlewares] /\ f[0] = start
      /\ \A n \in 1..L : f[n] = G[<<n, f[n - 1]>>]
  BY <1>5 DEF IsRecursion
<1>7. f = [n \in 0..L |-> IF n = 0 THEN start ELSE Built(f[n - 1], cs[n])]
  <2>1. ASSUME NEW n \in 0..L PROVE f[n] = IF n = 0 THEN start ELSE Built(f[n - 1], cs[n])
    <3>1. n # 0 => n \in 1..L /\ n - 1 \in 0..L
      OBVIOUS
    <3> QED BY <1>3, <1>6, <3>1
  <2> QED BY <1>6, <2>1
<1> DEFINE mw == CHOOSE u : u = [n \in 0..L |-> IF n = 0 THEN start ELSE Built(u[n - 1], cs[n])]
<1>8. mw = [n \in 0..L |-> IF n = 0 THEN start ELSE Built(mw[n - 1], cs[n])]
  BY <1>7
<1>9. New(cs) = mw[L]
  BY <1>1 DEF New, start
<1> HIDE DEF mw
<1> DEFINE T == {n \in Nat : n <= L => IsBuilt(cs, n, mw[n])}
<1>10. 0 \in T
  <2>1. mw[0] = start
    BY <1>8
  <2>2. start.ct = FALSE /\ \A name \in HeaderNames : start.headers[name] = << >>
    BY DEF start, NoHeaders
  <2>3. \A k \in 1..0 : FALSE
    OBVIOUS
  <2>4. \A name \in HeaderNames : FirstGiven(cs, 0, name, start.headers[name])
    BY <2>2, <2>3 DEF FirstGiven
  <2>5. IsBuilt(cs, 0, start)
    BY <1>2, <2>2, <2>3, <2>4 DEF IsBuilt
  <2> QED BY <2>1, <2>5
<1>11. ASSUME NEW n \in Nat, n \in T PROVE n + 1 \in T
  <2>1. SUFFICES ASSUME n + 1 <= L PROVE IsBuilt(cs, n + 1, mw[n + 1])
    OBVIOUS
  <2>2. n + 1 \in 1..L /\ n + 1 \in 0..L /\ n + 1 # 0 /\ (n + 1) - 1 = n
    BY <2>1
  <2>3. mw[n + 1] = Built(mw[n], cs[n + 1])
    BY <1>8, <2>2
  <2>4. IsBuilt(cs, n, mw[n]) /\ cs[n + 1] \in BuilderCalls
    BY <1>1, <1>11, <2>1, <2>2
  <2> QED BY <2>3, <2>4, BuiltStep
<1>12. L \in T
  <2> HIDE DEF T
  <2> QED BY <1>10, <1>11, SetInduction
<1> QED BY <1>1, <1>9, <1>12

-----------------------------------------------------------------------------
(* The theorems about DefaultHeaders *)

\* What a name has after the loop and the default content type.
LEMMA AppliedIs ==
  ASSUME NEW mw \in Middlewares, NEW m, m = [n \in HeaderNames |-> m[n]]
  PROVE  /\ Applied(mw, m) = [n \in HeaderNames |-> Applied(mw, m)[n]]
         /\ \A n \in HeaderNames :
              Applied(mw, m)[n] =
                IF mw.ct /\ n = "content-type" /\ Fill(m[n], mw.headers[n]) = << >>
                THEN <<OctetStream>> ELSE Fill(m[n], mw.headers[n])
<1>1. PICK full : full = WithHeaders(mw, m)
  OBVIOUS
<1>2. full = [n \in HeaderNames |-> Fill(m[n], mw.headers[n])]
  <2>1. \A n \in HeaderNames : mw.headers[n] \in Seq(HeaderValues)
    BY DEF Middlewares
  <2> QED BY <1>1, <2>1, WithHeadersFills
<1>3. "content-type" \in HeaderNames
  BY NamesAssumption
<1>4. Applied(mw, m) = IF mw.ct /\ full["content-type"] = << >>
                       THEN [full EXCEPT !["content-type"] = <<OctetStream>>] ELSE full
  BY <1>1 DEF Applied, WithType, InsertNew
<1> QED BY <1>2, <1>3, <1>4

\* The calls that gave a name, the first of some calls, and what a response m
\* is to have under the name n.
Given(cs, n) == {k \in DOMAIN cs : cs[k].name = n}

First(T) == CHOOSE k \in T : \A j \in T : k <= j

IsDefault(cs, m, n, values) ==
  values =
    IF m[n] # << >> THEN m[n]
    ELSE IF Given(cs, n) # {} THEN <<cs[First(Given(cs, n))].value>>
    ELSE IF n = "content-type" /\ \E k \in DOMAIN cs : cs[k].name = "content_type()"
         THEN <<OctetStream>>
    ELSE << >>

LEMMA FirstIsLeast ==
  ASSUME NEW T, NEW k \in T, \A j \in T : j \in Nat /\ k <= j
  PROVE  First(T) = k
<1>1. First(T) \in T /\ \A j \in T : First(T) <= j
  BY DEF First
<1>2. First(T) \in Nat /\ k \in Nat /\ First(T) <= k /\ k <= First(T)
  BY <1>1
<1> QED BY <1>2

LEMMA GapsAreFilled ==
  ASSUME NEW cs \in Seq(BuilderCalls), NEW m, m = [n \in HeaderNames |-> m[n]],
         NEW n \in HeaderNames
  PROVE  IsDefault(cs, m, n, Applied(New(cs), m)[n])
<1>1. PICK L \in Nat : L = Len(cs) /\ DOMAIN cs = 1..L
  BY LenProperties
<1>2. PICK mw : mw = New(cs)
  OBVIOUS
<1>3. IsBuilt(cs, L, mw)
  BY <1>1, <1>2, NewIsBuilt
<1>4. PICK values \in Seq(HeaderValues) : values = mw.headers[n] /\ FirstGiven(cs, L, n, values)
  BY <1>3 DEF IsBuilt, Middlewares
<1>5. mw.ct <=> \E k \in DOMAIN cs : cs[k].name = "content_type()"
  BY <1>1, <1>3 DEF IsBuilt, IsTypeCall
<1>6. mw \in Middlewares
  BY <1>3 DEF IsBuilt
<1>7. Applied(mw, m)[n] =
        IF mw.ct /\ n = "content-type" /\ Fill(m[n], values) = << >>
        THEN <<OctetStream>> ELSE Fill(m[n], values)
  BY <1>4, <1>6, AppliedIs
<1>8. \A v : <<v>> # << >>
  OBVIOUS
<1>9. CASE m[n] # << >>
  BY <1>2, <1>7, <1>9 DEF Fill, IsDefault
<1>10. CASE m[n] = << >> /\ Given(cs, n) # {}
  <2>1. \E k \in 1..L : cs[k].name = n
    BY <1>1, <1>10 DEF Given
  <2>2. PICK k \in 1..L : /\ cs[k].name = n /\ cs[k].value = values[1]
                          /\ \A j \in 1..L : cs[j].name = n => k <= j
    BY <1>4, <2>1 DEF FirstGiven
  <2>3. values # << >>
    BY <1>4, <2>1 DEF FirstGiven
  <2>4. k \in Given(cs, n) /\ \A j \in Given(cs, n) : j \in Nat /\ k <= j
    BY <1>1, <2>2 DEF Given
  <2>5. First(Given(cs, n)) = k
    BY <2>4, FirstIsLeast
  <2>6. Fill(m[n], values) = <<values[1]>> /\ <<values[1]>> # << >>
    BY <1>8, <1>10, <2>3 DEF Fill
  <2>7. Applied(mw, m)[n] = <<cs[First(Given(cs, n))].value>>
    BY <1>7, <2>2, <2>5, <2>6
  <2> QED BY <1>2, <1>10, <2>7 DEF IsDefault
<1>11. CASE m[n] = << >> /\ Given(cs, n) = {}
  <2>1. values = << >>
    BY <1>1, <1>4, <1>11 DEF FirstGiven, Given
  <2>2. Fill(m[n], values) = << >>
    BY <1>11, <2>1 DEF Fill
  <2>3. Applied(mw, m)[n] = IF n = "content-type" /\ mw.ct THEN <<OctetStream>> ELSE << >>
    BY <1>7, <2>2
  <2> QED BY <1>2, <1>5, <1>11, <2>3 DEF IsDefault
<1> QED BY <1>9, <1>10, <1>11

\* A response keeps the headers it has, and of those it lacks it gets the first
\* value given for each, or the default content type, and nothing else, in
\* whatever order the names come (DefaultHeaders::call, for every sequence of
\* calls of the builder).
THEOREM GapsOnlyAreFilled == Spec => []DefaultsFillGaps
<1>1. IInv => DefaultsFillGaps
  <2> SUFFICES ASSUME IInv, called, fn = "defaults", NEW n \in HeaderNames
               PROVE  IsDefault(calls, map, n, headers[n])
    BY DEF DefaultsFillGaps, IsDefault, Given, First
  <2>1. calls \in Seq(BuilderCalls) /\ map \in HeaderMaps /\ headers = Applied(New(calls), map)
    BY BuildersAssumption DEF IInv, Arguments, Results
  <2>2. map = [x \in HeaderNames |-> map[x]]
    BY <2>1 DEF HeaderMaps
  <2> QED BY <2>1, <2>2, GapsAreFilled
<1> QED BY <1>1, Invariant, PTL

\* No name has more than one value, where the response had none that has more.
LEMMA AppliedHasType ==
  ASSUME NEW cs \in Seq(BuilderCalls), NEW m \in HeaderMaps
  PROVE  Applied(New(cs), m) \in [HeaderNames -> SeqOf(HeaderValues \cup {OctetStream}, 1)]
<1> DEFINE V == HeaderValues \cup {OctetStream}
<1>1. /\ << >> \in SeqOf(V, 1)
      /\ \A v \in V : <<v>> \in SeqOf(V, 1)
      /\ SeqOf(HeaderValues, 1) \subseteq SeqOf(V, 1)
  <2>1. SeqOf(V, 1) = [1..0 -> V] \cup [1..1 -> V]
    BY DEF SeqOf
  <2>2. SeqOf(HeaderValues, 1) = [1..0 -> HeaderValues] \cup [1..1 -> HeaderValues]
    BY DEF SeqOf
  <2>3. << >> \in [1..0 -> V]
    OBVIOUS
  <2>4. \A v \in V : <<v>> \in [1..1 -> V]
    OBVIOUS
  <2>5. [1..0 -> HeaderValues] \subseteq [1..0 -> V] /\ [1..1 -> HeaderValues] \subseteq [1..1 -> V]
    OBVIOUS
  <2> HIDE DEF V
  <2> QED BY <2>1, <2>2, <2>3, <2>4, <2>5
<1>2. PICK mw : mw = New(cs)
  OBVIOUS
<1>3. mw \in Middlewares
  BY <1>2, NewIsBuilt DEF IsBuilt
<1>4. m = [n \in HeaderNames |-> m[n]] /\ \A n \in HeaderNames : m[n] \in SeqOf(HeaderValues, 1)
  BY DEF HeaderMaps
<1>5. ASSUME NEW n \in HeaderNames PROVE Fill(m[n], mw.headers[n]) \in SeqOf(V, 1)
  <2>1. PICK values \in Seq(HeaderValues) : values = mw.headers[n]
    BY <1>3 DEF Middlewares
  <2>2. m[n] \in SeqOf(V, 1)
    <3> HIDE DEF V
    <3> QED BY <1>1, <1>4
  <2>3. ASSUME values # << >> PROVE values[1] \in V
    <3>1. Len(values) \in Nat
      BY LenProperties
    <3>2. Len(values) # 0
      BY <2>3, EmptySeq
    <3>3. 1 \in 1..Len(values)
      BY <3>1, <3>2, FirstNumber
    <3>4. values[1] \in HeaderValues
      BY <3>3, ElementOfSeq, LenProperties
    <3> QED BY <3>4
  <2> HIDE DEF V
  <2> QED BY <1>1, <2>1, <2>2, <2>3 DEF Fill
<1>6. OctetStream \in V
  OBVIOUS
<1>7. ASSUME NEW n \in HeaderNames PROVE Applied(mw, m)[n] \in SeqOf(V, 1)
  <2>1. Applied(mw, m)[n] = <<OctetStream>> \/ Applied(mw, m)[n] = Fill(m[n], mw.headers[n])
    BY <1>3, <1>4, AppliedIs
  <2> HIDE DEF V
  <2> QED BY <1>1, <1>5, <1>6, <2>1
<1>8. Applied(mw, m) = [n \in HeaderNames |-> Applied(mw, m)[n]]
  BY <1>3, <1>4, AppliedIs
<1> HIDE DEF V
<1>9. Applied(mw, m) \in [HeaderNames -> SeqOf(V, 1)]
  BY <1>7, <1>8
<1> QED BY <1>2, <1>9 DEF V

\* Every variable has its type: the ranges of parse lie inside the file, and
\* DefaultHeaders gives no name a second value.
THEOREM TypeCorrect == Spec => []TypeOK
<1>1. IInv => TypeOK
  <2> SUFFICES ASSUME IInv PROVE TypeOK
    OBVIOUS
  <2>1. headers \in [HeaderNames -> SeqOf(HeaderValues \cup {OctetStream}, 1)]
    <3>1. CASE called /\ fn = "defaults"
      <4>1. calls \in Seq(BuilderCalls) /\ map \in HeaderMaps /\ headers = Applied(New(calls), map)
        BY <3>1, BuildersAssumption DEF IInv, Arguments, Results
      <4> QED BY <4>1, AppliedHasType
    <3>2. CASE ~(called /\ fn = "defaults")
      <4>1. headers = [n \in HeaderNames |-> << >>]
        BY <3>2 DEF IInv, Results, NoHeaders
      <4>2. << >> \in SeqOf(HeaderValues \cup {OctetStream}, 1)
        <5>1. << >> \in [1..0 -> HeaderValues \cup {OctetStream}]
          OBVIOUS
        <5> QED BY <5>1 DEF SeqOf
      <4> QED BY <4>1, <4>2
    <3> QED BY <3>1, <3>2
  <2>2. result.ok \in BOOLEAN /\ Inside(size, result)
    <3>1. CASE result = Parse(header, size)
      BY <3>1, ResultIsParse, ParseIsInside
    <3>2. CASE result = Refused
      BY <3>2 DEF Refused, Inside
    <3> QED BY <3>1, <3>2, ResultIsParse
  <2> QED BY <2>1, <2>2 DEF TypeOK, Inside, IInv, Arguments
<1> QED BY <1>1, Invariant, PTL
=============================================================================
