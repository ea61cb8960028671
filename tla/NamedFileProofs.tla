--------------------------- MODULE NamedFileProofs ---------------------------
(***************************************************************************)
(* Proofs about HttpRange and NamedFile: every range parse accepts lies    *)
(* inside the file, and a response never confirms or continues a copy      *)
(* wrongly, for files, headers and conditions of any kind.                 *)
(*                                                                         *)
(* The client's copy may hold bytes of versions newer than the one whose   *)
(* validators it keeps, never of older ones.  Modification times only      *)
(* grow, so a validator that still fits is that of the version on disk,    *)
(* and then there is no newer one.                                         *)
(***************************************************************************)
EXTENDS NamedFile, Induction

-----------------------------------------------------------------------------
(* HttpRange::parse *)

\* What the closure can return.
Results ==
  [kind : {"range", "malformed", "no overlap"}, start : Nat, length : Nat]

\* A range lies inside the file, and ends at 0 only in an empty one.
Inside(range, sz) ==
  range.start + range.length <= sz /\ (range.start + range.length = 0 => sz = 0)

RangesOf(sz) == {range \in Results : Inside(range, sz)}

LEMMA ElementResult ==
  ASSUME NEW e \in Elements, NEW sz \in Nat
  PROVE  /\ Element(e, sz) \in Results
         /\ IsRange(Element(e, sz)) => Inside(Element(e, sz), sz)
<1>1. e.first \in Nat \cup {Nothing, Garbage} /\ e.last \in Nat \cup {Nothing, Garbage}
  BY DEF Elements
<1>2. Nothing \notin Nat /\ Garbage \notin Nat
  BY DEF Nothing, Garbage
<1> DEFINE Good(r) == r \in Results /\ (IsRange(r) => Inside(r, sz))
<1>3. Good(Malformed) /\ Good(NoOverlap)
  BY DEF Results, IsRange, Malformed, NoOverlap
<1>4. \A first, n \in Nat :
        Inside([start |-> first, length |-> n], sz) => Good(From(first, n))
  BY DEF Results, Inside, From
<1> SUFFICES Good(Element(e, sz))
  OBVIOUS
<1> HIDE DEF Good
<1>5. CASE e.first \notin Nat /\ e.last \in Nat
  <2>1. Element(e, sz) \in {Malformed, Suffix(e.last, sz)}
    BY <1>1, <1>2, <1>5 DEF Element
  <2>2. Good(Suffix(e.last, sz))
    <3>1. CASE e.last > sz
      BY <1>4, <1>5, <3>1 DEF Suffix, Inside
    <3>2. CASE ~(e.last > sz)
      <4>1. sz - e.last \in Nat /\ e.last \in Nat
        BY <1>5, <3>2
      <4>2. Inside([start |-> sz - e.last, length |-> e.last], sz)
        BY <4>1 DEF Inside
      <4> QED BY <1>4, <3>2, <4>1, <4>2 DEF Suffix
    <3> QED BY <3>1, <3>2
  <2> QED BY <1>3, <2>1, <2>2
<1>6. CASE e.first \notin Nat /\ e.last \notin Nat
  BY <1>1, <1>3, <1>6 DEF Element
<1>7. CASE e.first \in Nat /\ e.first >= sz
  <2>1. Element(e, sz) = NoOverlap
    BY <1>2, <1>7 DEF Element
  <2> QED BY <1>3, <2>1
<1>8. CASE e.first \in Nat /\ ~(e.first >= sz)
  <2>1. Element(e, sz) =
          IF e.last = Nothing THEN From(e.first, sz - e.first)
          ELSE IF e.last = Garbage \/ e.first > e.last THEN Malformed
          ELSE Between(e.first, e.last, sz)
    BY <1>2, <1>8 DEF Element
  <2>2. CASE e.last = Nothing
    <3>1. /\ sz - e.first \in Nat
          /\ Inside([start |-> e.first, length |-> sz - e.first], sz)
      BY <1>8 DEF Inside
    <3> QED BY <1>4, <1>8, <2>1, <2>2, <3>1
  <2>3. CASE e.last = Garbage
    BY <1>3, <2>1, <2>2, <2>3
  <2>4. CASE e.last \in Nat /\ e.first > e.last
    BY <1>2, <1>3, <2>1, <2>4
  <2>5. CASE e.last \in Nat /\ ~(e.first > e.last)
    <3> DEFINE n == (IF e.last >= sz THEN sz - 1 ELSE e.last) - e.first + 1
    <3>1. Element(e, sz) = From(e.first, n)
      BY <1>2, <2>1, <2>5 DEF Between
    <3>2. n \in Nat /\ e.first + n <= sz /\ n # 0
      BY <1>8, <2>5
    <3> HIDE DEF n
    <3>3. Inside([start |-> e.first, length |-> n], sz)
      BY <1>8, <3>2 DEF Inside
    <3> QED BY <1>4, <1>8, <3>1, <3>2, <3>3
  <2> QED BY <1>1, <2>2, <2>3, <2>4, <2>5
<1> QED BY <1>1, <1>5, <1>6, <1>7, <1>8

\* Ranges is a selection.
LEMMA RangesAreSelected ==
  ASSUME NEW parsed, Len(parsed) \in Nat, NEW S,
         \A n \in 1..Len(parsed) : IsRange(parsed[n]) => parsed[n] \in S
  PROVE  \E f : /\ IsSelection(f, Len(parsed), parsed, {k \in 1..Len(parsed) : IsRange(parsed[k])})
                /\ Ranges(parsed) = f[Len(parsed)]
<1> DEFINE L    == Len(parsed)
           Keep == {k \in 1..L : IsRange(parsed[k])}
<1>1. PICK f : IsSelection(f, L, parsed, Keep)
  <2>1. \A k \in Keep : parsed[k] \in S
    OBVIOUS
  <2>2. L \in Nat
    OBVIOUS
  <2> HIDE DEF Keep, L
  <2> QED BY <2>1, <2>2, SelectionExists
<1>2. \A g : [n \in 0..L |-> Selects(g, n, parsed, Keep)]
               = [n \in 0..L |->
                    IF n = 0 THEN << >>
                    ELSE IF IsRange(parsed[n]) THEN Append(g[n - 1], parsed[n]) ELSE g[n - 1]]
  <2>1. ASSUME NEW g, NEW n \in 0..L
        PROVE  Selects(g, n, parsed, Keep)
                 = IF n = 0 THEN << >>
                   ELSE IF IsRange(parsed[n]) THEN Append(g[n - 1], parsed[n]) ELSE g[n - 1]
    <3>1. n # 0 => (n \in Keep <=> IsRange(parsed[n]))
      OBVIOUS
    <3> HIDE DEF Keep
    <3> QED BY <3>1 DEF Selects
  <2> HIDE DEF Keep
  <2> QED BY <2>1
<1> HIDE DEF Keep
<1> DEFINE upTo == CHOOSE g : g = [n \in 0..L |->
                      IF n = 0 THEN << >>
                      ELSE IF IsRange(parsed[n]) THEN Append(g[n - 1], parsed[n]) ELSE g[n - 1]]
<1>3. f = [n \in 0..L |->
             IF n = 0 THEN << >>
             ELSE IF IsRange(parsed[n]) THEN Append(f[n - 1], parsed[n]) ELSE f[n - 1]]
  BY <1>1, <1>2 DEF IsSelection
<1>4. upTo = [n \in 0..L |->
                IF n = 0 THEN << >>
                ELSE IF IsRange(parsed[n]) THEN Append(upTo[n - 1], parsed[n]) ELSE upTo[n - 1]]
  BY <1>3
<1>5. Ranges(parsed) = upTo[L]
  BY DEF Ranges
<1> HIDE DEF upTo
<1>6. upTo = [n \in 0..L |-> Selects(upTo, n, parsed, Keep)]
  BY <1>2, <1>4
<1> QED BY <1>5, <1>6 DEF Keep, IsSelection

\* They are elements of the list, and none is left out if there is one.
LEMMA RangesAreElements ==
  ASSUME NEW parsed, Len(parsed) \in Nat
  PROVE  LET kept == {parsed[n] : n \in {k \in 1..Len(parsed) : IsRange(parsed[k])}} IN
         /\ Ranges(parsed) \in Seq(kept)
         /\ Ranges(parsed) = << >> => kept = {}
<1> DEFINE L == Len(parsed)
           Keep == {k \in 1..L : IsRange(parsed[k])}
           kept == {parsed[n] : n \in Keep}
<1>1. \A n \in 1..L : IsRange(parsed[n]) => parsed[n] \in kept
  OBVIOUS
<1>2. PICK f : IsSelection(f, L, parsed, Keep) /\ Ranges(parsed) = f[L]
  <2> HIDE DEF kept
  <2> QED BY <1>1, RangesAreSelected
<1>3. \A k \in Keep : k \in 1..L
  OBVIOUS
<1>4. \A k \in Keep : parsed[k] \in kept
  OBVIOUS
<1>5. IsInOrder(f[L], kept, parsed, Keep)
  <2>1. L \in Nat
    OBVIOUS
  <2>2. IsSelection(f, L, parsed, Keep)
    BY <1>2
  <2> HIDE DEF kept, Keep, L
  <2> QED BY <1>3, <1>4, <2>1, <2>2, SelectionCounts
<1>6. IsFiniteSet(Keep)
  <2>1. IsFiniteSet(1..L) /\ Keep \in SUBSET (1..L)
    BY FS_Interval
  <2> HIDE DEF Keep, L
  <2> QED BY <2>1, FS_Subset
<1>7. Ranges(parsed) \in Seq(kept) /\ Len(Ranges(parsed)) = Cardinality(Keep)
  <2> HIDE DEF kept, Keep, L
  <2> QED BY <1>2, <1>5 DEF IsInOrder
<1>8. Ranges(parsed) = << >> => Keep = {}
  <2>1. Len(<< >>) = 0
    BY EmptySeq
  <2> HIDE DEF Keep
  <2> QED BY <1>6, <1>7, <2>1, FS_EmptySet
<1> QED BY <1>7, <1>8

\* Every range that parse accepts lies inside the file, whatever the header
\* says, and it accepts no list of elements that leaves no range
\* (HttpRange::parse, for all headers and lengths).
THEOREM AcceptedRangesAreInside ==
  ASSUME NEW h \in AllHeaders, NEW sz \in Nat, Parse(h, sz).ok
  PROVE  LET ranges == Parse(h, sz).ranges IN
         /\ ranges \in Seq(RangesOf(sz))
         /\ ranges = << >> => h.form = "" \/ h.elements = << >>
<1> DEFINE parsed == [n \in DOMAIN h.elements |-> Element(h.elements[n], sz)]
           kinds  == {parsed[n].kind : n \in DOMAIN parsed}
           good   == RangesOf(sz)
<1>1. h.elements \in Seq(Elements)
  BY DEF AllHeaders
<1>2. /\ Len(h.elements) \in Nat /\ DOMAIN h.elements = 1..Len(h.elements)
      /\ \A n \in 1..Len(h.elements) : h.elements[n] \in Elements
      /\ Len(h.elements) = 0 => h.elements = << >>
  BY <1>1, LenProperties, ElementOfSeq, EmptySeq
<1>3. /\ parsed \in Seq(Results) /\ Len(parsed) = Len(h.elements)
      /\ DOMAIN parsed = 1..Len(h.elements)
      /\ \A n \in 1..Len(h.elements) : parsed[n] = Element(h.elements[n], sz)
  <2>1. parsed = [n \in 1..Len(h.elements) |-> Element(h.elements[n], sz)]
    BY <1>2
  <2>2. \A n \in 1..Len(h.elements) : Element(h.elements[n], sz) \in Results
    BY <1>2, ElementResult
  <2> HIDE DEF parsed
  <2> QED BY <1>2, <2>1, <2>2, SeqDef, LenProperties
<1>4. \A n \in 1..Len(h.elements) :
        parsed[n] \in Results /\ (IsRange(parsed[n]) => parsed[n] \in good)
  BY <1>2, <1>3, ElementResult DEF RangesOf
<1>5. Parse(h, sz) = IF h.form = "" THEN Accepted(<< >>)
                     ELSE IF h.form = "other" \/ "malformed" \in kinds THEN Refused
                     ELSE IF Ranges(parsed) = << >> /\ "no overlap" \in kinds THEN Refused
                     ELSE Accepted(Ranges(parsed))
  BY DEF Parse
<1> HIDE DEF parsed
<1> DEFINE kept == {parsed[n] : n \in {k \in 1..Len(parsed) : IsRange(parsed[k])}}
<1>6. Ranges(parsed) \in Seq(kept) /\ (Ranges(parsed) = << >> => kept = {})
  BY <1>2, <1>3, RangesAreElements
<1>7. kept \subseteq good
  BY <1>3, <1>4
<1>8. Ranges(parsed) \in Seq(good) /\ << >> \in Seq(good)
  <2> HIDE DEF kept, good
  <2> QED BY <1>6, <1>7, SeqMonotonic, EmptySeq
<1>9. ~Refused.ok /\ (\A ranges : Accepted(ranges).ranges = ranges)
  BY DEF Refused, Accepted
<1>10. CASE h.form = ""
  <2>1. Parse(h, sz).ranges = << >>
    BY <1>5, <1>9, <1>10
  <2> QED BY <1>8, <1>10, <2>1
<1>11. CASE h.form # ""
  <2>1. /\ "malformed" \notin kinds
        /\ ~(Ranges(parsed) = << >> /\ "no overlap" \in kinds)
        /\ Parse(h, sz).ranges = Ranges(parsed)
    <3> HIDE DEF kinds
    <3> QED BY <1>5, <1>9, <1>11
  <2>2. ASSUME Ranges(parsed) = << >>, Len(h.elements) # 0 PROVE FALSE
    <3>1. 1 \in 1..Len(h.elements)
      BY <1>2, <2>2
    <3>2. ~IsRange(parsed[1])
      BY <1>3, <1>6, <2>2, <3>1
    <3>3. parsed[1].kind \in kinds
      BY <1>3, <3>1
    <3> QED BY <1>4, <2>1, <2>2, <3>1, <3>2, <3>3 DEF Results, IsRange
  <2> QED BY <1>2, <1>8, <2>1, <2>2
<1> QED BY <1>10, <1>11

-----------------------------------------------------------------------------
(* The inductive invariant *)

Versions == [size : 0..MaxSize, mtime : MinTime..MaxTime]
Asks     == [method : Methods, range : Headers \cup {NoRange, Unreadable},
             cond : AllConditions]
Answers  == [status : Int, of : Nat, start : Nat, length : Nat, last : -1..(U64 - 1),
             streams : BOOLEAN]

Types ==
  /\ config \in Configs
  /\ versions \in Seq(Versions)
  /\ asked \in Asks
  /\ reply \in Answers
  /\ reply.of \in 1..Current /\ reads \in reply.of..Current /\ known \in 0..Current
  /\ reply.start + reply.length <= versions[reply.of].size
  /\ sent \in 0..reply.length
  /\ copy \in [0..(MaxSize - 1) -> 0..Current]

TimesGrow ==
  \A older, newer \in 1..Current :
    older < newer => versions[older].mtime < versions[newer].mtime

\* The copy has no byte older than its validators.
CopyIsNewer == known <= reply.of /\ Held \subseteq known..Current

IInv ==
  /\ Types /\ TimesGrow /\ CopyIsNewer
  /\ NotModifiedIsCurrent /\ PanicsOnlyAtEdges

-----------------------------------------------------------------------------
(* Validators *)

LEMMA WireIsEarlier ==
  ASSUME NEW t \in Int PROVE OnWire(t) \in Int /\ OnWire(t) <= t
<1>1. t % Second \in 0..(Second - 1)
  BY BoundsAssumption
<1> QED BY <1>1, BoundsAssumption DEF OnWire

LEMMA RequestType ==
  ASSUME NEW q \in Requests
  PROVE  /\ q \in Asks
         /\ q.cond.ifNoneMatch = "own" \/ q.cond.ifMatch = "own" => known # 0
         /\ q.cond.ifUnmodifiedSince \/ q.cond.ifModifiedSince =>
              known # 0 /\ config.lastModified
BY ConditionsAssumption DEF Requests, Asks

\* A version at most as new as an older one is that one.
LEMMA NotNewerIsSame ==
  ASSUME Types, TimesGrow, known # 0, versions[Current].mtime <= versions[known].mtime
  PROVE  known = Current
<1>1. known \in 1..Current /\ Current \in 1..Current /\ Current \in Nat
  BY LenProperties DEF Types, Current
<1>2. versions[known].mtime \in Int /\ versions[Current].mtime \in Int
  <2>1. \A k \in 1..Current : versions[k] \in Versions
    BY ElementOfSeq DEF Types, Current
  <2> QED BY <1>1, <2>1 DEF Versions
<1>3. CASE known < Current
  BY <1>1, <1>2, <1>3 DEF TimesGrow
<1> QED BY <1>1, <1>3

LEMMA ValidatorFits ==
  ASSUME Types, TimesGrow, NEW q \in Requests
  PROVE  /\ NotModified(q, Current) /\ q.cond.ifNoneMatch # "any" => known = Current
         /\ ~PreconditionFailed(q, Current) /\ Resumes(q) => known = Current
<1>1. /\ q.cond \in AllConditions
      /\ q.cond.ifNoneMatch = "own" \/ q.cond.ifMatch = "own" => known # 0
      /\ q.cond.ifUnmodifiedSince \/ q.cond.ifModifiedSince =>
           known # 0 /\ config.lastModified
  BY RequestType DEF Asks
<1>2. known # 0 => known \in 1..Current /\ Current \in 1..Current
  BY LenProperties DEF Types, Current
<1>3. known # 0 => versions[known].mtime \in Int /\ versions[Current].mtime \in Int
  <2>1. \A k \in 1..Current : versions[k] \in Versions
    BY ElementOfSeq DEF Types, Current
  <2> QED BY <1>2, <2>1, BoundsAssumption DEF Versions
<1>4. known # 0 /\ Etag(Current) = Etag(known) => known = Current
  BY <1>3, NotNewerIsSame DEF Etag
<1>5. known # 0 /\ LastModified(Current) <= OnWire(LastModified(known)) => known = Current
  BY <1>3, WireIsEarlier, NotNewerIsSame DEF LastModified
<1>6. ASSUME NotModified(q, Current), q.cond.ifNoneMatch # "any" PROVE known = Current
  <2>1. CASE ~NoneMatch(q, Current)
    <3>1. q.cond.ifNoneMatch = "own" /\ Etag(Current) = Etag(known)
      BY <1>1, <1>6, <2>1 DEF NoneMatch, AllConditions
    <3> QED BY <1>1, <1>4, <3>1
  <2>2. CASE NoneMatch(q, Current)
    BY <1>1, <1>5, <1>6, <2>2 DEF NotModified
  <2> QED BY <2>1, <2>2
<1>7. ASSUME ~PreconditionFailed(q, Current), Resumes(q) PROVE known = Current
  <2>1. CASE q.cond.ifMatch = "own"
    <3>1. Etag(Current) = Etag(known)
      BY <1>7, <2>1 DEF PreconditionFailed, AnyMatch
    <3> QED BY <1>1, <1>4, <2>1, <3>1
  <2>2. CASE q.cond.ifUnmodifiedSince
    <3>1. ~(LastModified(Current) > OnWire(LastModified(known)))
      BY <1>1, <1>7, <2>2 DEF PreconditionFailed
    <3>2. LastModified(Current) \in Int /\ OnWire(LastModified(known)) \in Int
      BY <1>1, <1>3, <2>2, WireIsEarlier DEF LastModified
    <3> QED BY <1>1, <1>5, <2>2, <3>1, <3>2
  <2> QED BY <1>7, <2>1, <2>2 DEF Resumes
<1> QED BY <1>6, <1>7

-----------------------------------------------------------------------------
(* NamedFile::respond_to *)

\* What the conditions have been found to be when a response goes out.
Conforms(r, q, v) ==
  /\ r.status = 304 => NotModified(q, v)
  /\ r.status \in {200, 206} => ~PreconditionFailed(q, v)

Fits(r, v) ==
  r \in Answers /\ r.of = v /\ r.start + r.length <= versions[v].size

LEMMA FinishAnswers ==
  ASSUME NEW q, NEW v \in Nat, NEW from \in Nat, NEW n \in Nat, NEW last \in -1..(U64 - 1),
         from + n <= versions[v].size
  PROVE  LET r == Finish(q, v, from, n, last) IN
         Fits(r, v) /\ Conforms(r, q, v) /\ r.status # -1
<1> DEFINE r == Finish(q, v, from, n, last)
<1> SUFFICES Fits(r, v) /\ Conforms(r, q, v) /\ r.status # -1
  OBVIOUS
<1>1. \A status \in Int, streams \in BOOLEAN :
        /\ Fits(Answer(status, v, from, n, last, streams), v)
        /\ Answer(status, v, from, n, last, streams).status = status
  BY DEF Fits, Answer, Answers
<1>2. CASE PreconditionFailed(q, v)
  <2>1. r = Answer(412, v, from, n, last, FALSE)
    BY <1>2 DEF Finish
  <2>2. 412 \in Int /\ FALSE \in BOOLEAN
    OBVIOUS
  <2> HIDE DEF r
  <2>3. Fits(r, v) /\ r.status = 412
    BY <1>1, <2>1, <2>2
  <2> QED BY <1>2, <2>3 DEF Conforms
<1>3. CASE ~PreconditionFailed(q, v) /\ NotModified(q, v)
  <2>1. r = Answer(304, v, from, n, last, FALSE)
    BY <1>3 DEF Finish
  <2>2. 304 \in Int /\ FALSE \in BOOLEAN
    OBVIOUS
  <2> HIDE DEF r
  <2>3. Fits(r, v) /\ r.status = 304
    BY <1>1, <2>1, <2>2
  <2> QED BY <1>3, <2>3 DEF Conforms
<1>4. CASE ~PreconditionFailed(q, v) /\ ~NotModified(q, v)
  <2>1. \E status \in {200, 206}, streams \in BOOLEAN :
          r = Answer(status, v, from, n, last, streams)
    BY <1>4 DEF Finish
  <2>2. PICK status \in {200, 206}, streams \in BOOLEAN :
          r = Answer(status, v, from, n, last, streams)
    BY <2>1
  <2>3. Fits(r, v) /\ r.status = status
    BY <1>1, <2>2
  <2> HIDE DEF r
  <2> QED BY <1>4, <2>3 DEF Conforms
<1> QED BY <1>2, <1>3, <1>4

\* Where respond_to may panic: the header names no range, the file is empty, or
\* it is from before the epoch.
AtEdge(q, v) ==
  \/ q.range.form = "" \/ q.range.elements = << >>
  \/ config.checks /\ versions[v].size = 0
  \/ config.etag /\ ~HasEtag(v)

LEMMA WrapsInside == \A n \in Int : n % U64 \in -1..(U64 - 1)
BY BoundsAssumption

LEMMA PanicAnswers ==
  ASSUME NEW q, NEW v \in Nat, versions[v].size \in Nat
  PROVE  Fits(Panic(v), v) /\ Conforms(Panic(v), q, v)
<1>1. -1 \in -1..(U64 - 1) /\ 0 + 0 <= versions[v].size
  BY BoundsAssumption
<1> QED BY <1>1 DEF Fits, Conforms, Panic, Bare, Answer, Answers

LEMMA WithRangesAnswers ==
  ASSUME NEW q, NEW v \in Nat, NEW sz \in Nat, versions[v].size = sz,
         NEW ranges \in Seq(RangesOf(sz)),
         ranges = << >> => AtEdge(q, v)
  PROVE  LET r == WithRanges(q, v, ranges) IN
         /\ Fits(r, v) /\ Conforms(r, q, v)
         /\ r.status = -1 => AtEdge(q, v)
<1> DEFINE r == WithRanges(q, v, ranges)
<1> SUFFICES Fits(r, v) /\ Conforms(r, q, v) /\ (r.status = -1 => AtEdge(q, v))
  OBVIOUS
<1>1. Fits(Panic(v), v) /\ Conforms(Panic(v), q, v)
  BY PanicAnswers
<1>2. CASE ranges = << >>
  <2>1. r = Panic(v)
    BY <1>2 DEF WithRanges
  <2>2. AtEdge(q, v)
    BY <1>2
  <2> HIDE DEF r
  <2> QED BY <1>1, <2>1, <2>2
<1>3. CASE ranges # << >>
  <2> DEFINE range == ranges[1]
             last == (range.start + range.length - 1) % U64
  <2>1. 1 \in 1..Len(ranges)
    <3> DEFINE L == Len(ranges)
    <3>1. L \in Nat /\ L # 0
      BY <1>3, LenProperties, EmptySeq
    <3> HIDE DEF L
    <3>2. 1 \in 1..L
      BY <3>1
    <3> QED BY <3>2 DEF L
  <2>2. range \in RangesOf(sz)
    BY <2>1, ElementOfSeq
  <2>3. /\ range.start \in Nat /\ range.length \in Nat
        /\ range.start + range.length <= sz
        /\ range.start + range.length = 0 => sz = 0
    BY <2>2 DEF RangesOf, Results, Inside
  <2>4. r = IF range.start + range.length = 0 /\ config.checks THEN Panic(v)
            ELSE Finish(q, v, range.start, range.length, last)
    BY <1>3 DEF WithRanges
  <2>5. last \in -1..(U64 - 1)
    <3>1. range.start + range.length - 1 \in Int
      BY <2>3
    <3> QED BY <3>1, WrapsInside
  <2> HIDE DEF r, range, last
  <2>6. CASE range.start + range.length = 0 /\ config.checks
    <3>1. r = Panic(v) /\ AtEdge(q, v)
      BY <2>3, <2>4, <2>6 DEF AtEdge
    <3> QED BY <1>1, <3>1
  <2>7. CASE ~(range.start + range.length = 0 /\ config.checks)
    BY <2>3, <2>4, <2>5, <2>7, FinishAnswers
  <2> QED BY <2>6, <2>7
<1> QED BY <1>2, <1>3

LEMMA RespondToAnswers ==
  ASSUME Types, NEW q \in Requests
  PROVE  LET r == RespondTo(q, Current) IN
         /\ Fits(r, Current)
         /\ IF config.status = 200 THEN Conforms(r, q, Current) ELSE r.status = config.status
         /\ r.status = -1 => AtEdge(q, Current)
<1> DEFINE v == Current
           sz == versions[v].size
           r == RespondTo(q, v)
<1> SUFFICES /\ Fits(r, v)
             /\ config.status = 200 => Conforms(r, q, v)
             /\ config.status # 200 => r.status = config.status
             /\ r.status = -1 => AtEdge(q, v)
  OBVIOUS
<1>1. v \in Nat /\ sz \in Nat
  <2>1. v \in 1..Len(versions) /\ v \in Nat
    BY LenProperties DEF Types, Current
  <2>2. versions[v] \in Versions
    BY <2>1, ElementOfSeq DEF Types
  <2> QED BY <2>1, <2>2, BoundsAssumption DEF Versions
<1>2. config.status \in Nat /\ -1 \in -1..(U64 - 1)
  BY ConfigsAssumption, BoundsAssumption DEF Types, AllConfigs
<1>3. ASSUME NEW status \in {400, 405, 416}
      PROVE  /\ Fits(Bare(status, v), v) /\ Conforms(Bare(status, v), q, v)
             /\ Bare(status, v).status # -1
  BY <1>1, <1>2 DEF Fits, Conforms, Bare, Answer, Answers
<1>4. CASE config.status # 200
  <2>1. r = Whole(config.status, v, TRUE)
    BY <1>4 DEF RespondTo
  <2>2. /\ Fits(Whole(config.status, v, TRUE), v)
        /\ Whole(config.status, v, TRUE).status = config.status
    BY <1>1, <1>2 DEF Fits, Whole, Answer, Answers
  <2>3. config.status # -1
    BY <1>2
  <2> HIDE DEF r
  <2> QED BY <1>4, <2>1, <2>2, <2>3
<1>5. CASE config.status = 200
  <2> SUFFICES /\ Fits(r, v) /\ Conforms(r, q, v)
               /\ r.status = -1 => AtEdge(q, v)
    BY <1>5
  <2>1. CASE q.method \notin config.methods
    <3>1. r = Bare(405, v)
      BY <1>5, <2>1 DEF RespondTo
    <3> HIDE DEF r
    <3> QED BY <1>3, <3>1
  <2>5. CASE q.method \in config.methods /\ config.etag /\ ~HasEtag(v)
    <3>1. r = Panic(v)
      BY <1>5, <2>5 DEF RespondTo
    <3>2. AtEdge(q, v)
      BY <2>5 DEF AtEdge
    <3> HIDE DEF r, v
    <3> QED BY <1>1, <3>1, <3>2, PanicAnswers
  <2> DEFINE goesOn == q.method \in config.methods /\ ~(config.etag /\ ~HasEtag(v))
  <2>2. CASE goesOn /\ q.range = NoRange
    <3>1. r = Finish(q, v, 0, sz, -1)
      BY <1>5, <2>2 DEF RespondTo
    <3>2. 0 + sz <= sz /\ 0 \in Nat
      BY <1>1
    <3> HIDE DEF r, v
    <3> QED BY <1>1, <1>2, <3>1, <3>2, FinishAnswers
  <2>3. CASE goesOn /\ q.range # NoRange /\ q.range = Unreadable
    <3>1. r = Bare(400, v)
      BY <1>5, <2>3 DEF RespondTo
    <3> HIDE DEF r
    <3> QED BY <1>3, <3>1
  <2>4. CASE goesOn /\ q.range # NoRange /\ q.range # Unreadable
    <3> DEFINE parsed == Parse(q.range, sz)
    <3>1. r = IF parsed.ok THEN WithRanges(q, v, parsed.ranges) ELSE Bare(416, v)
      BY <1>5, <2>4 DEF RespondTo
    <3>2. q.range \in AllHeaders
      BY <2>4, RequestType, HeadersAssumption DEF Asks
    <3>3. CASE parsed.ok
      <4>1. /\ parsed.ranges \in Seq(RangesOf(sz))
            /\ parsed.ranges = << >> => AtEdge(q, v)
        BY <1>1, <3>2, <3>3, AcceptedRangesAreInside DEF AtEdge
      <4>2. r = WithRanges(q, v, parsed.ranges)
        BY <3>1, <3>3
      <4> HIDE DEF r, v, parsed
      <4> QED BY <1>1, <4>1, <4>2, WithRangesAnswers
    <3>4. CASE ~parsed.ok
      <4>1. r = Bare(416, v)
        BY <3>1, <3>4
      <4> HIDE DEF r
      <4> QED BY <1>3, <4>1
    <3> QED BY <3>3, <3>4
  <2> QED BY <2>1, <2>2, <2>3, <2>4, <2>5
<1> QED BY <1>4, <1>5

-----------------------------------------------------------------------------
(* The invariant holds at first and in every step *)

LEMMA VersionsExist ==
  ASSUME Types
  PROVE  /\ Current \in Nat /\ Current \in 1..Current
         /\ \A k \in 1..Current : versions[k].size \in 0..MaxSize /\ versions[k].mtime \in Int
<1>1. Current \in Nat /\ Current \in 1..Current
  BY LenProperties DEF Types, Current
<1>2. \A k \in 1..Current : versions[k] \in Versions
  BY ElementOfSeq DEF Types, Current
<1> QED BY <1>1, <1>2, BoundsAssumption DEF Versions

\* A copy without bytes holds none.
LEMMA EmptyHoldsNothing ==
  /\ NoCopy \in [0..(MaxSize - 1) -> 0..0]
  /\ {NoCopy[p] : p \in DOMAIN NoCopy} \ {0} = {}
BY DEF NoCopy

LEMMA InitInv == Init => IInv
<1> SUFFICES ASSUME Init PROVE IInv
  OBVIOUS
<1>1. PICK size \in 0..MaxSize, mtime \in MinTime..MaxTime :
        versions = <<[size |-> size, mtime |-> mtime]>>
  BY DEF Init
<1>2. /\ versions \in Seq(Versions) /\ Current = 1
      /\ versions[1].size = size
  BY <1>1 DEF Versions, Current
<1>3. NoCondition \in AllConditions /\ NoRange.form = "absent"
  BY DEF NoCondition, AllConditions, NoRange
<1>4. asked \in Asks
  BY <1>3 DEF Init, Asks, Methods
<1>5. /\ reply \in Answers /\ reply.of = 1 /\ reply.start = 0 /\ reply.length = 0
      /\ reply.status = 0
  <2>1. -1 \in -1..(U64 - 1)
    BY BoundsAssumption
  <2> QED BY <2>1 DEF Init, Answers
<1>6. copy \in [0..(MaxSize - 1) -> 0..Current] /\ Held = {}
  BY <1>2, EmptyHoldsNothing DEF Init, Held
<1>7. Types
  BY <1>2, <1>4, <1>5, <1>6 DEF Init, Types
<1>8. TimesGrow
  BY <1>2 DEF TimesGrow
<1>9. CopyIsNewer
  BY <1>5, <1>6 DEF Init, CopyIsNewer
<1> QED BY <1>5, <1>7, <1>8, <1>9 DEF IInv, NotModifiedIsCurrent, PanicsOnlyAtEdges, HasEtag

LEMMA RequestInv ==
  ASSUME IInv, NEW q \in Requests, Request(q)
  PROVE  IInv'
<1> DEFINE takes == /\ reply'.streams /\ reply'.status \in {200, 206}
                    /\ ~(reply'.status = 206 /\ Resumes(q))
<1>1. Types /\ TimesGrow /\ CopyIsNewer
  BY DEF IInv
<1>2. PICK r : r = RespondTo(q, Current)
  OBVIOUS
<1>3. /\ reply' = r /\ asked' = q /\ reads' = Current /\ sent' = 0
      /\ config' = config /\ versions' = versions /\ Current' = Current
      /\ IF takes THEN known' = Current /\ copy' = NoCopy
         ELSE known' = known /\ copy' = copy
  BY <1>2 DEF Request, Current
<1>4. /\ Fits(r, Current)
      /\ IF config.status = 200 THEN Conforms(r, q, Current) ELSE r.status = config.status
      /\ r.status = -1 => AtEdge(q, Current)
  BY <1>1, <1>2, RespondToAnswers
<1>5. Current \in Nat /\ Current \in 1..Current
  BY <1>1, VersionsExist
<1>6. /\ known' \in 0..Current /\ copy' \in [0..(MaxSize - 1) -> 0..Current]
      /\ Held' \subseteq known'..Current
  <2>1. CASE takes
    <3>1. NoCopy \in [0..(MaxSize - 1) -> 0..Current] /\ Held' = {}
      BY <1>3, <1>5, <2>1, EmptyHoldsNothing DEF Held
    <3> QED BY <1>3, <1>5, <2>1, <3>1
  <2>2. CASE ~takes
    <3>1. known' = known /\ copy' = copy
      BY <1>3, <2>2
    <3>2. Held' = Held
      BY <3>1 DEF Held
    <3> QED BY <1>1, <3>1, <3>2 DEF Types, CopyIsNewer
  <2> QED BY <2>1, <2>2
<1> HIDE DEF takes
<1>7. Types'
  <2>1. q \in Asks
    BY RequestType
  <2>2. /\ r \in Answers /\ r.of = Current /\ r.length \in Nat
        /\ r.start + r.length <= versions[Current].size
    BY <1>4 DEF Fits, Answers
  <2> QED BY <1>1, <1>3, <1>5, <1>6, <2>1, <2>2 DEF Types
<1>8. TimesGrow'
  BY <1>1, <1>3 DEF TimesGrow
<1>9. CopyIsNewer'
  BY <1>3, <1>4, <1>6 DEF CopyIsNewer, Fits
<1>10. NotModifiedIsCurrent'
  <2> SUFFICES ASSUME reply'.status = 304, config'.status # 304, q.cond.ifNoneMatch # "any"
               PROVE  Held' \subseteq {Current}
    BY <1>3, <1>4 DEF NotModifiedIsCurrent, Fits
  <2>1. NotModified(q, Current)
    BY <1>3, <1>4 DEF Conforms
  <2>2. known = Current
    BY <1>1, <2>1, ValidatorFits
  <2>3. known' = known
    BY <1>3 DEF takes
  <2> QED BY <1>5, <1>6, <2>2, <2>3
<1>11. PanicsOnlyAtEdges'
  BY <1>3, <1>4 DEF PanicsOnlyAtEdges, HasEtag, AtEdge, Fits
<1> QED BY <1>7, <1>8, <1>9, <1>10, <1>11 DEF IInv

LEMMA ReceiveInv == ASSUME IInv, Receive PROVE IInv'
<1> DEFINE position == reply.start + sent
<1>1. /\ Types /\ TimesGrow /\ CopyIsNewer
      /\ NotModifiedIsCurrent /\ PanicsOnlyAtEdges
  BY DEF IInv
<1>2. /\ sent < reply.length /\ position < versions[reads].size /\ sent' = sent + 1
      /\ copy' = IF reply.status \in {200, 206} THEN [copy EXCEPT ![position] = reads] ELSE copy
      /\ UNCHANGED <<config, versions, asked, reply, reads, known>>
  BY DEF Receive, Streaming
<1>3. /\ Current \in Nat /\ reply.of \in 1..Current /\ reads \in 1..Current
      /\ reads >= reply.of /\ reads <= Current /\ known \in Nat
      /\ reply.start \in Nat /\ reply.length \in Nat /\ sent \in Nat
  <2>1. reply.start \in Nat /\ reply.length \in Nat
    BY <1>1 DEF Types, Answers
  <2> QED BY <1>1, <2>1, VersionsExist DEF Types
<1>4. position \in 0..(MaxSize - 1)
  <2>1. versions[reads].size \in 0..MaxSize
    BY <1>1, <1>3, VersionsExist
  <2> QED BY <1>2, <1>3, <2>1, BoundsAssumption
<1> HIDE DEF position
<1>5. /\ copy' \in [0..(MaxSize - 1) -> 0..Current]
      /\ Held' \subseteq Held \cup {reads}
      /\ reply.status \notin {200, 206} => Held' = Held
  <2>1. copy \in [0..(MaxSize - 1) -> 0..Current] /\ reads \in 0..Current
    BY <1>1, <1>3 DEF Types
  <2>2. CASE reply.status \in {200, 206}
    <3>1. copy' = [copy EXCEPT ![position] = reads]
      BY <1>2, <2>2
    <3>2. copy' \in [0..(MaxSize - 1) -> 0..Current]
      BY <2>1, <3>1
    <3>3. \A p \in 0..(MaxSize - 1) : copy'[p] \in {copy[p], reads}
      BY <2>1, <3>1
    <3> QED BY <2>1, <2>2, <3>2, <3>3 DEF Held
  <2>3. CASE reply.status \notin {200, 206}
    BY <1>2, <2>1, <2>3 DEF Held
  <2> QED BY <2>2, <2>3
<1>6. Types'
  <2>1. sent' \in 0..reply.length
    BY <1>2, <1>3
  <2> QED BY <1>1, <1>2, <1>5, <2>1 DEF Types, Current
<1>7. TimesGrow'
  BY <1>1, <1>2 DEF TimesGrow, Current
<1>8. CopyIsNewer'
  <2>1. reads \in known..Current
    BY <1>1, <1>3 DEF CopyIsNewer
  <2> QED BY <1>1, <1>2, <1>5, <2>1 DEF CopyIsNewer, Current
<1>9. NotModifiedIsCurrent'
  <2>1. reply.status = 304 => Held' = Held
    BY <1>5
  <2> QED BY <1>1, <1>2, <2>1 DEF NotModifiedIsCurrent
<1>10. PanicsOnlyAtEdges'
  BY <1>1, <1>2 DEF PanicsOnlyAtEdges, HasEtag
<1> QED BY <1>6, <1>7, <1>8, <1>9, <1>10 DEF IInv

LEMMA BreakInv == ASSUME IInv, Break PROVE IInv'
<1>1. /\ Types /\ TimesGrow /\ CopyIsNewer
      /\ NotModifiedIsCurrent /\ PanicsOnlyAtEdges
  BY DEF IInv
<1>2. /\ reply \in Answers
      /\ reply' = [reply EXCEPT !.streams = FALSE]
      /\ UNCHANGED <<config, versions, asked, reads, sent, known, copy>>
  BY <1>1 DEF Break, Types
<1>3. /\ reply' \in Answers /\ reply'.of = reply.of /\ reply'.status = reply.status
      /\ reply'.start = reply.start /\ reply'.length = reply.length
  BY <1>2 DEF Answers
<1>4. Current' = Current /\ Held' = Held
  BY <1>2 DEF Current, Held
<1>5. Types'
  BY <1>1, <1>2, <1>3, <1>4 DEF Types
<1>6. TimesGrow'
  BY <1>1, <1>2, <1>4 DEF TimesGrow
<1>7. CopyIsNewer'
  BY <1>1, <1>2, <1>3, <1>4 DEF CopyIsNewer
<1>8. NotModifiedIsCurrent'
  BY <1>1, <1>2, <1>3, <1>4 DEF NotModifiedIsCurrent
<1>9. PanicsOnlyAtEdges'
  BY <1>1, <1>2, <1>3 DEF PanicsOnlyAtEdges, HasEtag
<1> QED BY <1>5, <1>6, <1>7, <1>8, <1>9 DEF IInv

LEMMA EditInv ==
  ASSUME IInv, NEW size \in 0..MaxSize, NEW mtime \in MinTime..MaxTime, NEW inPlace \in BOOLEAN,
         Edit(size, mtime, inPlace)
  PROVE  IInv'
<1>1. /\ Types /\ TimesGrow /\ CopyIsNewer
      /\ NotModifiedIsCurrent /\ PanicsOnlyAtEdges
  BY DEF IInv
<1>2. PICK new : new = [size |-> size, mtime |-> mtime]
  OBVIOUS
<1>3. /\ mtime > versions[Current].mtime /\ versions' = Append(versions, new)
      /\ reads' = IF inPlace /\ reads = Current THEN Current + 1 ELSE reads
      /\ UNCHANGED <<config, asked, reply, sent, known, copy>>
  BY <1>2 DEF Edit
<1>4. new \in Versions /\ new.mtime = mtime /\ mtime \in Int
  BY <1>2, BoundsAssumption DEF Versions
<1>5. /\ versions' \in Seq(Versions) /\ Current' = Current + 1
      /\ \A k \in 1..Current : versions'[k] = versions[k]
      /\ versions'[Current + 1] = new
  <2>1. versions \in Seq(Versions)
    BY <1>1 DEF Types
  <2> QED BY <1>3, <1>4, <2>1, AppendProperties DEF Current
<1>6. /\ Current \in Nat /\ Current \in 1..Current /\ reply.of \in 1..Current
      /\ reads \in reply.of..Current /\ known \in 0..Current
      /\ \A k \in 1..Current : versions[k].mtime \in Int
  BY <1>1, VersionsExist DEF Types
<1>7. Types'
  <2>1. /\ reply.of \in 1..(Current + 1) /\ reads' \in reply.of..(Current + 1)
        /\ known \in 0..(Current + 1)
    BY <1>3, <1>6
  <2>2. copy \in [0..(MaxSize - 1) -> 0..(Current + 1)]
    <3>1. 0..Current \subseteq 0..(Current + 1)
      BY <1>6
    <3> QED BY <1>1, <3>1 DEF Types
  <2> QED BY <1>1, <1>3, <1>5, <1>6, <2>1, <2>2 DEF Types
<1>8. TimesGrow'
  <2> SUFFICES ASSUME NEW older \in 1..(Current + 1), NEW newer \in 1..(Current + 1),
                      older < newer
               PROVE  versions'[older].mtime < versions'[newer].mtime
    BY <1>5 DEF TimesGrow
  <2>1. older \in 1..Current /\ versions'[older] = versions[older]
    BY <1>5, <1>6
  <2>2. CASE newer \in 1..Current
    BY <1>1, <1>5, <2>1, <2>2 DEF TimesGrow
  <2>3. CASE newer = Current + 1
    <3>1. versions[older].mtime <= versions[Current].mtime
      <4>1. CASE older = Current
        BY <1>6, <4>1
      <4>2. CASE older < Current
        BY <1>1, <1>6, <2>1, <4>2 DEF TimesGrow
      <4> QED BY <1>6, <2>1, <4>1, <4>2
    <3>2. versions'[newer].mtime = mtime
      BY <1>4, <1>5, <2>3
    <3> QED BY <1>3, <1>4, <1>6, <2>1, <3>1, <3>2
  <2> QED BY <1>6, <2>2, <2>3
<1>9. Held' = Held
  BY <1>3 DEF Held
<1>10. CopyIsNewer'
  BY <1>1, <1>3, <1>5, <1>6, <1>9 DEF CopyIsNewer
<1>11. NotModifiedIsCurrent'
  BY <1>1, <1>3, <1>9 DEF NotModifiedIsCurrent
<1>12. PanicsOnlyAtEdges'
  BY <1>1, <1>3, <1>5, <1>6 DEF PanicsOnlyAtEdges, HasEtag
<1> QED BY <1>7, <1>8, <1>10, <1>11, <1>12 DEF IInv

LEMMA NextInv == IInv /\ [Next]_vars => IInv'
<1> SUFFICES ASSUME IInv, [Next]_vars PROVE IInv'
  OBVIOUS
<1>1. ASSUME NEW q \in Requests, Request(q) PROVE IInv'
  BY <1>1, RequestInv
<1>2. CASE Receive
  BY <1>2, ReceiveInv
<1>3. CASE Break
  BY <1>3, BreakInv
<1>4. ASSUME NEW size \in 0..MaxSize, NEW mtime \in MinTime..MaxTime, NEW inPlace \in BOOLEAN,
             Edit(size, mtime, inPlace)
      PROVE  IInv'
  BY <1>4, EditInv
<1>5. CASE UNCHANGED vars
  <2>1. UNCHANGED <<config, versions, asked, reply, reads, sent, known, copy>>
    BY <1>5 DEF vars
  <2>2. Current' = Current /\ Held' = Held
    BY <2>1 DEF Current, Held
  <2>3. Types' /\ TimesGrow' /\ CopyIsNewer'
    BY <2>1, <2>2 DEF IInv, Types, TimesGrow, CopyIsNewer
  <2> QED BY <2>1, <2>2, <2>3 DEF IInv, NotModifiedIsCurrent, PanicsOnlyAtEdges, HasEtag
<1> QED BY <1>1, <1>2, <1>3, <1>4, <1>5 DEF Next

LEMMA Invariant == Spec => []IInv
BY InitInv, NextInv, PTL DEF Spec

-----------------------------------------------------------------------------
(* The theorems *)

\* Types; what respond_to announces lies inside the file it answers for, and
\* what is sent inside what it announced.
THEOREM TypeCorrect == Spec => []TypeOK
<1>1. IInv => TypeOK
  BY DEF IInv, Types, TypeOK, Versions, Asks, Answers
<1> QED BY <1>1, Invariant, PTL

\* A 304 confirms a copy that is the file on disk (NamedFile::respond_to with
\* the ETag, and with the Last-Modified date in seconds).
THEOREM ConfirmedCopiesAreCurrent == Spec => []NotModifiedIsCurrent
BY Invariant, PTL DEF IInv

\* respond_to panics nowhere but at the three edges: a header that names no
\* range, overflow checks and an empty file, an ETag from before the epoch.
THEOREM PanicsAreAtEdges == Spec => []PanicsOnlyAtEdges
BY Invariant, PTL DEF IInv

\* A 206 under If-Match or If-Unmodified-Since continues a copy made from the
\* file as it is now, whatever became of the file before and under the
\* responses the copy was made from.
THEOREM ContinuedCopiesFit == Spec => PartsFitTogether
<1> DEFINE Safe == ~Streaming /\ Streaming' /\ Resumes(asked')
                     /\ reply'.status = 206 /\ config.status # 206
                   => Held \subseteq {reply'.of}
<1>1. ASSUME IInv, [Next]_vars PROVE [Safe]_vars
  <2> SUFFICES ASSUME ~Streaming, Streaming', Resumes(asked'), reply'.status = 206,
                      config.status # 206
               PROVE  Held \subseteq {reply'.of}
    OBVIOUS
  <2>1. PICK q \in Requests : Request(q)
    <3>1. ~Receive /\ ~Break
      BY DEF Receive, Break
    <3>2. ASSUME NEW size, NEW mtime, NEW inPlace, Edit(size, mtime, inPlace) PROVE FALSE
      BY <3>2 DEF Edit, Streaming
    <3>3. ~UNCHANGED vars
      BY DEF vars, Streaming
    <3> QED BY <1>1, <3>1, <3>2, <3>3 DEF Next
  <2>2. Types /\ TimesGrow /\ CopyIsNewer
    BY <1>1 DEF IInv
  <2>3. /\ asked' = q /\ reply'.of = Current
        /\ config.status = 200 => ~PreconditionFailed(q, Current)
        /\ config.status # 200 => reply'.status = config.status
    BY <2>1, <2>2, RespondToAnswers DEF Request, Fits, Conforms
  <2>4. ~PreconditionFailed(q, Current) /\ Resumes(q)
    BY <2>3
  <2>5. known = Current /\ Current \in Nat
    BY <2>2, <2>4, ValidatorFits, VersionsExist
  <2> QED BY <2>2, <2>3, <2>5 DEF CopyIsNewer
<1> QED BY <1>1, Invariant, PTL DEF Spec, PartsFitTogether
=============================================================================
