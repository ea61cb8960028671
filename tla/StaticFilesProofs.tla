-------------------------- MODULE StaticFilesProofs --------------------------
(***************************************************************************)
(* Proofs about StaticFiles: for any tree, any links, any request and any  *)
(* changes another process makes between two system calls, nothing outside *)
(* the directory is served as long as no link leads out of it, and a       *)
(* listing has every entry that was there all the time; and without        *)
(* changes a call answers what one look at the tree would have.            *)
(*                                                                         *)
(* Inside: what a walk has passed, with what is left of its path behind    *)
(* it, begins with the directory.  Passing a name does not change that; a  *)
(* link that leads into the directory puts the directory in front again;   *)
(* and no ".." is left that could take a name away.                        *)
(*                                                                         *)
(* Listing: while the path still leads to the directory that was opened,   *)
(* an entry that was there all the time is to be read, or the one that is  *)
(* being written, or written as what it is.                                *)
(*                                                                         *)
(* Undisturbed: a step of a walk does not change where the walk arrives,   *)
(* so while nobody changes the tree the walk arrives where a lookup of the *)
(* path would; what has been found is there; and what has been read, but   *)
(* the name being written, is in the listing.                              *)
(***************************************************************************)
EXTENDS StaticFiles, Induction, SequenceTheorems

-----------------------------------------------------------------------------
(* The inductive invariant *)

AllPaths == Seq(STRING)
States   == {"walking", "found", "NotFound", "Other"}
Kinds    == {"none", "file", "listing", "BadSegment", "IsDirectory", "NotFound", "Other"}

Walks == [at : States, done : AllPaths, rest : AllPaths, links : 0..MaxLinks]

Calls ==
  [at : {"idle", "canonicalize", "is_dir", "open", "read_dir", "entry", "write"},
   segments : Paths \cup {<< >>}, walk : Walks, path : AllPaths,
   handle : Places \cup {<< >>}, todo : SUBSET Names, name : Names \cup {"none"},
   listed : SUBSET Lines]

Answers == [kind : Kinds, place : AllPaths, entries : SUBSET Lines]

Sites == [made : BOOLEAN, directory : Places \cup {<< >>},
          index : Indexes \cup {"none"}, show : BOOLEAN]

Types ==
  /\ tree \in [Places -> Entries] /\ IsTree(tree)
  /\ edits \in 0..MaxEdits
  /\ site \in Sites
  /\ call \in Calls
  /\ call.walk.at = "walking"
  /\ NoDots(site.directory) /\ NoDots(call.walk.done) /\ NoDots(call.path)
  /\ answer \in Answers
  /\ quiet \in BOOLEAN /\ inside \in BOOLEAN
  /\ stable \subseteq Names \X Entries

\* Before the service is made there is no call.
NotYet == ~site.made => call = NoCall /\ answer = NoAnswer /\ inside

\* A call under way has no answer yet.
Unanswered == call.at # "idle" => answer = NoAnswer

\* A walk will come to a place in the directory, if to any.
LeadsInto(directory, w) == IsPrefix(directory, w.done \o w.rest) /\ NoDots(w.rest)

StaysInside ==
  inside /\ site.made =>
    /\ NoLinkOut(tree, site.directory)
    /\ call.at = "canonicalize" => LeadsInto(site.directory, call.walk)
    /\ call.at \in {"is_dir", "open", "read_dir", "entry", "write"} =>
         IsPrefix(site.directory, call.path)

\* Where an entry that was there all the time is in the listing.
IsAccounted(held) ==
  \/ held[1] \in call.todo
  \/ call.at = "write" /\ held[1] = call.name
  \/ Line(held[1], held[2] = Dir) \in call.listed

ListingUnderWay ==
  call.at \in {"entry", "write"} =>
    /\ call.handle # << >> => tree[call.handle] = Dir
    /\ stable \subseteq Held(tree, call.path, call.handle)
    /\ \A held \in stable : held[1] \notin Dotted => IsAccounted(held)
    /\ call.at = "write" => call.name \in Names

IInv ==
  /\ Types /\ NotYet /\ Unanswered /\ StaysInside /\ ListingUnderWay
  /\ InsideDirectory /\ ListingIsFaithful

\* What holds of a walk in one and the same tree.
Arrives(t, w) ==
  /\ w \in Walks
  /\ w.at = "found" => w.rest = << >>
  /\ w.done \in Places \cup {<< >>} /\ Entry(t, w.done) # Absent /\ NoDots(w.done)

\* Where the path of the request leads in the tree as it is.
Asked == Lookup(tree, site.directory \o RealPath(call.segments))

\* A walk has come to a directory, or at its end to a file: to no link.
Stands(t, w) ==
  /\ Entry(t, w.done) \in {Dir, File}
  /\ w.rest # << >> => Entry(t, w.done) = Dir

\* What the steps of a call have found out is what one look at the tree shows.
Found ==
  /\ call.at # "idle" => ~Refused(call.segments)
  /\ call.at = "canonicalize" =>
       /\ Arrives(tree, call.walk) /\ Stands(tree, call.walk)
       /\ Arrival(tree, call.walk) = Asked
  /\ call.at \in {"is_dir", "read_dir", "entry", "write"} =>
       Asked.at = "found" /\ Asked.done = call.path /\ Entry(tree, call.path) \in {Dir, File}
  /\ call.at = "open" => Opened(tree, call.path) = Expected(tree, call.segments)
  /\ call.at \in {"read_dir", "entry", "write"} =>
       Entry(tree, call.path) = Dir /\ site.index = "none" /\ site.show
  /\ call.at \in {"canonicalize", "is_dir", "read_dir"} => call.listed = {}

\* What a listing of the names would show.
Shown(names) ==
  {Line(n, Entry(tree, Append(call.path, n)) = Dir) : n \in {m \in names : m \notin Dotted}}

\* The names read, but the one that is being written, are in the listing.
Read ==
  call.at \in {"entry", "write"} =>
    /\ call.todo \subseteq NamesIn(tree, call.path)
    /\ stable = Held(tree, call.path, call.path)
    /\ call.at = "write" =>
         call.name \in NamesIn(tree, call.path) \ call.todo /\ call.name \notin Dotted
    /\ call.listed = Shown(NamesIn(tree, call.path) \
                             (call.todo \cup (IF call.at = "write" THEN {call.name} ELSE {})))

Undisturbed == quiet => AnswerIsExpected /\ Found /\ Read

-----------------------------------------------------------------------------
(* Sequences *)

LEMMA FrontAndLast ==
  ASSUME NEW S, NEW s \in Seq(S), s # << >>
  PROVE  /\ Len(s) \in Nat \ {0} /\ Front(s) \in Seq(S) /\ Last(s) \in S
         /\ s = Append(Front(s), Last(s))
<1>1. Len(s) \in Nat \ {0} /\ \A k \in 1..Len(s) : s[k] \in S
  BY LenProperties, EmptySeq, ElementOfSeq
<1>2. Last(s) \in S
  BY <1>1 DEF Last
<1>3. /\ Front(s) \in Seq(S) /\ Len(Front(s)) = Len(s) - 1
      /\ \A k \in 1..(Len(s) - 1) : Front(s)[k] = s[k]
  <2> DEFINE L == Len(s)
  <2>1. L \in Nat \ {0} /\ 1 \in Int /\ L - 1 \in Int /\ \A k \in 1..(L - 1) : s[k] \in S
    BY <1>1
  <2> HIDE DEF L
  <2>2. /\ SubSeq(s, 1, L - 1) \in Seq(S)
        /\ Len(SubSeq(s, 1, L - 1)) = IF 1 <= L - 1 THEN (L - 1) - 1 + 1 ELSE 0
        /\ \A k \in 1..((L - 1) - 1 + 1) : SubSeq(s, 1, L - 1)[k] = s[1 + k - 1]
    BY <2>1, SubSeqProperties
  <2>3. \A k \in 1..(L - 1) : k \in 1..((L - 1) - 1 + 1) /\ 1 + k - 1 = k
    BY <2>1
  <2>4. Len(SubSeq(s, 1, L - 1)) = L - 1
    BY <2>1, <2>2
  <2> QED BY <2>2, <2>3, <2>4 DEF Front, L
<1>4. s = Append(Front(s), Last(s))
  <2> DEFINE t == Append(Front(s), Last(s))
  <2>1. /\ t \in Seq(S) /\ Len(t) = Len(s)
        /\ \A k \in 1..(Len(s) - 1) : t[k] = s[k]
        /\ t[Len(s)] = s[Len(s)]
    <3>1. /\ t \in Seq(S) /\ Len(t) = Len(Front(s)) + 1
          /\ \A k \in 1..Len(Front(s)) : t[k] = Front(s)[k]
          /\ t[Len(Front(s)) + 1] = Last(s)
      BY <1>2, <1>3, AppendProperties
    <3> HIDE DEF t
    <3> QED BY <1>1, <1>3, <3>1 DEF Last
  <2> HIDE DEF t
  <2>2. \A k \in 1..Len(s) : t[k] = s[k]
    BY <1>1, <2>1
  <2>3. s = t
    BY <2>1, <2>2, SeqEqual
  <2> QED BY <2>3 DEF t
<1> QED BY <1>1, <1>2, <1>3, <1>4

LEMMA FrontOfAppend ==
  ASSUME NEW S, NEW s \in Seq(S), NEW x \in S
  PROVE  Front(Append(s, x)) = s /\ Last(Append(s, x)) = x
<1> DEFINE t == Append(s, x)
<1>1. t \in Seq(S) /\ t # << >>
  BY AppendProperties
<1>2. Front(t) \in Seq(S) /\ Last(t) \in S /\ t = Append(Front(t), Last(t))
  <2> HIDE DEF t
  <2> QED BY <1>1, FrontAndLast
<1> QED BY <1>2, AppendInjective

\* A head moved from one sequence to the end of another.
LEMMA HeadMoves ==
  ASSUME NEW S, NEW s \in Seq(S), NEW t \in Seq(S), t # << >>
  PROVE  Append(s, Head(t)) \o Tail(t) = s \o t
<1>1. PICK h : h = Head(t)
  OBVIOUS
<1>2. PICK r : r = Tail(t)
  OBVIOUS
<1>3. /\ h \in S /\ r \in Seq(S) /\ Len(r) = Len(t) - 1 /\ Len(t) \in Nat \ {0}
      /\ \A k \in 1..Len(r) : r[k] = t[k + 1]
  BY <1>1, <1>2, HeadTailProperties, EmptySeq
<1>4. /\ <<h>> \in Seq(S) /\ Len(<<h>>) = 1 /\ <<h>>[1] = t[1]
  <2>1. h = t[1]
    BY <1>1, <1>3
  <2> QED BY <1>3, <2>1
<1>5. /\ <<h>> \o r \in Seq(S) /\ Len(<<h>> \o r) = 1 + Len(r)
      /\ \A k \in 1..(1 + Len(r)) : (<<h>> \o r)[k] = IF k <= 1 THEN <<h>>[k] ELSE r[k - 1]
  BY <1>3, <1>4, ConcatProperties
<1>6. Len(<<h>> \o r) = Len(t)
  BY <1>3, <1>5
<1>7. ASSUME NEW k \in 1..Len(t) PROVE (<<h>> \o r)[k] = t[k]
  <2>1. CASE k = 1
    BY <1>3, <1>4, <1>5, <2>1
  <2>2. CASE k # 1
    <3>1. k - 1 \in 1..Len(r) /\ k \in 1..(1 + Len(r)) /\ ~(k <= 1) /\ (k - 1) + 1 = k
      BY <1>3, <2>2
    <3> QED BY <1>3, <1>5, <3>1
  <2> QED BY <2>1, <2>2
<1>8. <<h>> \o r = t
  BY <1>5, <1>6, <1>7, SeqEqual
<1>9. Append(s, h) = s \o <<h>>
  BY <1>3, AppendIsConcat
<1>10. (s \o <<h>>) \o r = s \o (<<h>> \o r)
  BY <1>3, <1>4, ConcatAssociative
<1> QED BY <1>1, <1>2, <1>8, <1>9, <1>10

\* IsPrefix, element by element.
LEMMA PrefixPointwise ==
  ASSUME NEW S, NEW s \in Seq(S), NEW t \in Seq(S)
  PROVE  IsPrefix(s, t) <=> Len(s) <= Len(t) /\ \A k \in 1..Len(s) : s[k] = t[k]
<1> DEFINE L == Len(s)
<1>1. /\ L \in Nat /\ Len(t) \in Nat
      /\ \A k \in 1..L : s[k] \in S
      /\ \A k \in 1..Len(t) : t[k] \in S
  BY LenProperties, ElementOfSeq
<1>2. SUFFICES ASSUME L <= Len(t)
               PROVE  SubSeq(s, 1, L) = SubSeq(t, 1, L) <=> \A k \in 1..L : s[k] = t[k]
  BY DEF IsPrefix
<1>3. SubSeq(s, 1, L) = s
  BY SubSeqFull
<1>4. /\ SubSeq(t, 1, L) \in Seq(S) /\ Len(SubSeq(t, 1, L)) = L
      /\ \A k \in 1..L : SubSeq(t, 1, L)[k] = t[k]
  <2>1. \A k \in 1..L : t[k] \in S
    <3>1. \A k \in 1..Len(t) : t[k] \in S
      BY ElementOfSeq
    <3> QED BY <1>1, <1>2, <3>1
  <2> HIDE DEF L
  <2>2. /\ SubSeq(t, 1, L) \in Seq(S)
        /\ Len(SubSeq(t, 1, L)) = IF 1 <= L THEN L - 1 + 1 ELSE 0
        /\ \A k \in 1..(L - 1 + 1) : SubSeq(t, 1, L)[k] = t[1 + k - 1]
    BY <1>1, <2>1, SubSeqProperties
  <2>3. \A k \in 1..L : k \in 1..(L - 1 + 1) /\ 1 + k - 1 = k
    BY <1>1
  <2>4. Len(SubSeq(t, 1, L)) = L
    BY <1>1, <2>2
  <2> QED BY <2>2, <2>3, <2>4
<1>5. (\A k \in 1..L : s[k] = t[k]) => s = SubSeq(t, 1, L)
  BY <1>4, SeqEqual
<1> QED BY <1>3, <1>4, <1>5

\* What begins with a path does so with more behind it.
LEMMA PrefixGrows ==
  ASSUME NEW S, NEW d \in Seq(S), NEW s \in Seq(S), NEW t \in Seq(S), IsPrefix(d, s)
  PROVE  IsPrefix(d, s \o t)
<1>1. Len(d) <= Len(s) /\ \A k \in 1..Len(d) : d[k] = s[k]
  BY PrefixPointwise
<1>2. /\ s \o t \in Seq(S) /\ Len(s \o t) = Len(s) + Len(t)
      /\ \A k \in 1..(Len(s) + Len(t)) :
           (s \o t)[k] = IF k <= Len(s) THEN s[k] ELSE t[k - Len(s)]
  BY ConcatProperties
<1>3. Len(d) \in Nat /\ Len(s) \in Nat /\ Len(t) \in Nat
  BY LenProperties
<1>4. Len(d) <= Len(s \o t) /\ \A k \in 1..Len(d) : d[k] = (s \o t)[k]
  BY <1>1, <1>2, <1>3
<1> QED BY <1>2, <1>4, PrefixPointwise

LEMMA PrefixOfConcat ==
  ASSUME NEW S, NEW d \in Seq(S), NEW t \in Seq(S)
  PROVE  IsPrefix(d, d \o t)
<1>1. IsPrefix(d, d)
  <2>1. Len(d) \in Nat
    BY LenProperties
  <2> QED BY <2>1, PrefixPointwise
<1> QED BY <1>1, PrefixGrows

LEMMA NoDotsProperties ==
  ASSUME NEW s \in AllPaths, NEW t \in AllPaths
  PROVE  /\ NoDots(s) /\ NoDots(t) => NoDots(s \o t)
         /\ NoDots(s) /\ s # << >> => NoDots(Tail(s)) /\ Head(s) # ".."
         /\ NoDots(s) /\ s # << >> => NoDots(Front(s))
         /\ \A x \in STRING \ {".."} : NoDots(s) => NoDots(Append(s, x))
<1>1. /\ Len(s) \in Nat /\ Len(t) \in Nat /\ DOMAIN s = 1..Len(s) /\ DOMAIN t = 1..Len(t)
  BY LenProperties DEF AllPaths
<1>2. ASSUME NoDots(s), NoDots(t) PROVE NoDots(s \o t)
  <2>1. /\ DOMAIN (s \o t) = 1..(Len(s) + Len(t))
        /\ \A k \in 1..(Len(s) + Len(t)) :
             (s \o t)[k] = IF k <= Len(s) THEN s[k] ELSE t[k - Len(s)]
    BY ConcatProperties, LenProperties DEF AllPaths
  <2>2. ASSUME NEW k \in 1..(Len(s) + Len(t)) PROVE (s \o t)[k] # ".."
    <3>1. CASE k <= Len(s)
      <4>1. k \in 1..Len(s)
        BY <1>1, <3>1
      <4> QED BY <1>1, <1>2, <2>1, <3>1, <4>1 DEF NoDots
    <3>2. CASE ~(k <= Len(s))
      <4>1. k - Len(s) \in 1..Len(t)
        BY <1>1, <3>2
      <4> QED BY <1>1, <1>2, <2>1, <3>2, <4>1 DEF NoDots
    <3> QED BY <3>1, <3>2
  <2> QED BY <2>1, <2>2 DEF NoDots
<1>3. ASSUME NoDots(s), s # << >>
      PROVE  NoDots(Tail(s)) /\ Head(s) # ".." /\ NoDots(Front(s))
  <2>1. Len(s) # 0
    BY <1>3, EmptySeq DEF AllPaths
  <2>2. Head(s) = s[1] /\ 1 \in 1..Len(s)
    BY <1>1, <2>1
  <2>3. /\ DOMAIN Tail(s) = 1..(Len(s) - 1)
        /\ \A k \in 1..(Len(s) - 1) : Tail(s)[k] = s[k + 1]
    BY <1>3, HeadTailProperties, LenProperties DEF AllPaths
  <2>4. \A k \in 1..(Len(s) - 1) : k + 1 \in 1..Len(s) /\ k \in 1..Len(s)
    BY <1>1
  <2>5. /\ DOMAIN Front(s) = 1..(Len(s) - 1)
        /\ \A k \in 1..(Len(s) - 1) : Front(s)[k] = s[k]
    <3>1. Front(s) \in AllPaths /\ Last(s) \in STRING /\ s = Append(Front(s), Last(s))
      BY <1>3, FrontAndLast DEF AllPaths
    <3>2. /\ Len(s) = Len(Front(s)) + 1
          /\ \A k \in 1..Len(Front(s)) : s[k] = Front(s)[k]
      BY <3>1, AppendProperties DEF AllPaths
    <3>3. Len(Front(s)) \in Nat /\ DOMAIN Front(s) = 1..Len(Front(s))
      BY <3>1, LenProperties DEF AllPaths
    <3>4. Len(Front(s)) = Len(s) - 1
      BY <1>1, <3>2, <3>3
    <3> QED BY <3>2, <3>3, <3>4
  <2> QED BY <1>1, <1>3, <2>2, <2>3, <2>4, <2>5 DEF NoDots
<1>4. ASSUME NEW x \in STRING \ {".."}, NoDots(s) PROVE NoDots(Append(s, x))
  <2>1. /\ DOMAIN Append(s, x) = 1..(Len(s) + 1)
        /\ \A k \in 1..Len(s) : Append(s, x)[k] = s[k]
        /\ Append(s, x)[Len(s) + 1] = x
    BY AppendProperties, LenProperties DEF AllPaths
  <2>2. \A k \in 1..(Len(s) + 1) : k \in 1..Len(s) \/ k = Len(s) + 1
    BY <1>1
  <2> QED BY <1>1, <1>4, <2>1, <2>2 DEF NoDots
<1> QED BY <1>2, <1>3, <1>4

LEMMA OneName ==
  ASSUME NEW S, NEW n \in S
  PROVE  /\ <<n>> \in Seq(S) /\ <<n>> = Append(<< >>, n) /\ <<n>> # << >>
         /\ Head(<<n>>) = n /\ Tail(<<n>>) = << >> /\ Len(<<n>>) = 1
<1>1. <<n>> \in Seq(S) /\ Len(<<n>>) = 1 /\ <<n>>[1] = n
  OBVIOUS
<1>2. << >> \in Seq(S) /\ Len(<< >>) = 0
  BY EmptySeq
<1>3. PICK one \in Seq(S) : one = <<n>> /\ Len(one) = 1 /\ one[1] = n
  BY <1>1
<1>4. one # << >>
  BY <1>2, <1>3
<1>5. Head(one) = n /\ Tail(one) \in Seq(S) /\ Len(Tail(one)) = 0
  <2>1. Head(one) = one[1] /\ Tail(one) \in Seq(S) /\ Len(Tail(one)) = Len(one) - 1
    BY <1>3, <1>4, HeadTailProperties
  <2> QED BY <1>3, <2>1
<1>6. Tail(one) = << >>
  BY <1>5, EmptySeq
<1>7. Append(<< >>, n) = << >> \o <<n>> /\ << >> \o one = one
  BY <1>2, <1>3, AppendIsConcat, ConcatEmptySeq
<1> QED BY <1>1, <1>3, <1>4, <1>5, <1>6, <1>7

LEMMA AppendAfter ==
  ASSUME NEW S, NEW s \in Seq(S), NEW r \in Seq(S), NEW n \in S
  PROVE  s \o Append(r, n) = Append(s \o r, n)
<1>1. <<n>> \in Seq(S)
  OBVIOUS
<1>2. Append(r, n) = r \o <<n>>
  BY AppendIsConcat
<1>3. s \o (r \o <<n>>) = (s \o r) \o <<n>>
  BY <1>1, ConcatAssociative
<1>4. s \o r \in Seq(S)
  BY ConcatProperties
<1>5. Append(s \o r, n) = (s \o r) \o <<n>>
  BY <1>4, AppendIsConcat
<1> QED BY <1>2, <1>3, <1>5

LEMMA HeadOfMore ==
  ASSUME NEW S, NEW s \in Seq(S), s # << >>, NEW n \in S
  PROVE  /\ Append(s, n) \in Seq(S) /\ Append(s, n) # << >> /\ Len(Append(s, n)) > 1
         /\ Head(Append(s, n)) = Head(s) /\ Tail(Append(s, n)) = Append(Tail(s), n)
<1>1. PICK L \in Nat \ {0} : L = Len(s)
  BY EmptySeq
<1>2. PICK more \in Seq(S) :
        /\ more = Append(s, n) /\ Len(more) = L + 1
        /\ \A k \in 1..L : more[k] = s[k]
        /\ more[L + 1] = n
  BY <1>1, AppendProperties
<1>3. more # << >>
  BY <1>2, AppendProperties
<1>4. PICK rest, left, right : rest = Tail(s) /\ left = Tail(more) /\ right = Append(rest, n)
  OBVIOUS
<1>5. /\ rest \in Seq(S) /\ Len(rest) = L - 1 /\ Head(s) = s[1]
      /\ \A k \in 1..Len(rest) : rest[k] = s[k + 1]
  BY <1>1, <1>4, HeadTailProperties
<1>6. /\ left \in Seq(S) /\ Len(left) = Len(more) - 1 /\ Head(more) = more[1]
       /\ \A k \in 1..Len(left) : left[k] = more[k + 1]
  BY <1>2, <1>3, <1>4, HeadTailProperties
<1>7. Len(left) = L /\ \A k \in 1..L : left[k] = more[k + 1]
  BY <1>2, <1>6
<1>8. /\ right \in Seq(S) /\ Len(right) = Len(rest) + 1
      /\ \A k \in 1..Len(rest) : right[k] = rest[k]
      /\ right[Len(rest) + 1] = n
  BY <1>4, <1>5, AppendProperties
<1>9. /\ Len(right) = L /\ right[L] = n
      /\ \A k \in 1..(L - 1) : right[k] = s[k + 1]
  <2>1. Len(rest) + 1 = L
    BY <1>5
  <2> QED BY <1>5, <1>8, <2>1
<1>10. ASSUME NEW k \in 1..L PROVE left[k] = right[k]
  <2>1. CASE k = L
    BY <1>2, <1>7, <1>9, <2>1
  <2>2. CASE k # L
    <3>1. k \in 1..(L - 1) /\ k + 1 \in 1..L
      BY <2>2
    <3> QED BY <1>2, <1>7, <1>9, <3>1
  <2> QED BY <2>1, <2>2
<1>11. left = right
  BY <1>6, <1>7, <1>8, <1>9, <1>10, SeqEqual
<1>12. Len(more) > 1 /\ Head(more) = Head(s)
  <2>1. 1 \in 1..L
    OBVIOUS
  <2> QED BY <1>2, <1>5, <1>6, <2>1
<1>13. Tail(more) = Append(Tail(s), n)
  BY <1>4, <1>11
<1> QED BY <1>2, <1>3, <1>12, <1>13

-----------------------------------------------------------------------------
(* The tree, and one name of a path *)

LEMMA NamesType ==
  /\ \A p \in Places : p \in AllPaths /\ p # << >> /\ Last(p) \in Names /\ Last(p) \in STRING
  /\ Names \subseteq STRING
<1>1. ASSUME NEW p \in Places PROVE p \in AllPaths /\ p # << >> /\ Last(p) \in STRING
  <2>1. p \in AllPaths /\ p # << >>
    BY PlacesAssumption DEF AllPaths
  <2> QED BY <2>1, FrontAndLast DEF AllPaths
<1> QED BY <1>1 DEF Names

\* A line of the listing has a link whatever the name is.
LEMMA LineType ==
  ASSUME NEW n \in Names, NEW is_dir \in BOOLEAN PROVE Line(n, is_dir) \in Lines
<1>1. Link(n) \in STRING
  <2>1. CASE n \in DOMAIN Renamed
    BY <2>1, RenamedAssumption DEF Link
  <2>2. CASE n \notin DOMAIN Renamed
    BY <2>2, NamesType DEF Link
  <2> QED BY <2>1, <2>2
<1> QED BY <1>1 DEF Line, Lines

LEMMA EntryKinds ==
  ASSUME NEW e \in Entries
  PROVE  /\ e.kind \in {"absent", "dir", "file", "link"}
         /\ e.kind = "absent" <=> e = Absent
         /\ e.kind = "dir" <=> e = Dir
         /\ e.kind = "link" => e.to \in Targets /\ e.to \in AllPaths
BY PathsAssumption DEF Entries, Absent, Dir, File, LinkTo, AllPaths

LEMMA EntryType ==
  ASSUME NEW t \in [Places -> Entries], NEW place
  PROVE  /\ Entry(t, place) \in Entries
         /\ Entry(t, place) # Absent => place \in Places \cup {<< >>}
         /\ Entry(t, place).kind = "link" => place \in Places /\ Entry(t, place) = t[place]
<1>1. Absent \in Entries /\ Dir \in Entries
  BY DEF Entries
<1>2. Absent.kind # "link" /\ Dir.kind # "link"
  BY DEF Absent, Dir
<1> QED BY <1>1, <1>2 DEF Entry

LEMMA ParentType ==
  ASSUME NEW place \in AllPaths PROVE Parent(place) \in AllPaths
<1>1. << >> \in AllPaths
  BY EmptySeq DEF AllPaths
<1> QED BY <1>1, FrontAndLast DEF Parent, AllPaths

LEMMA AheadType ==
  ASSUME NEW w \in Walks, w.rest # << >>
  PROVE  /\ Ahead(w) \in AllPaths /\ Ahead(w) # << >>
         /\ Tail(w.rest) \in AllPaths /\ Head(w.rest) \in STRING
         /\ Ahead(w) \o Tail(w.rest) = w.done \o w.rest
<1>1. w.done \in AllPaths /\ w.rest \in AllPaths
  BY DEF Walks
<1>2. /\ Head(w.rest) \in STRING /\ Tail(w.rest) \in AllPaths
      /\ Len(Tail(w.rest)) = Len(w.rest) - 1
      /\ \A k \in 1..Len(Tail(w.rest)) : Tail(w.rest)[k] = w.rest[k + 1]
  BY <1>1, HeadTailProperties DEF AllPaths
<1>3. Ahead(w) \in AllPaths /\ Ahead(w) # << >>
  BY <1>1, <1>2, AppendProperties DEF Ahead, AllPaths
<1>4. Ahead(w) \o Tail(w.rest) = w.done \o w.rest
  BY <1>1, HeadMoves DEF Ahead, AllPaths
<1> QED BY <1>2, <1>3, <1>4

\* Passing a name: the walk goes up, starts again at the root, or goes on to
\* a name that is there; what it leads to stays in the directory.
LEMMA PassResult ==
  ASSUME NEW w \in Walks, w.at = "walking", w.rest # << >>, NEW e \in Entries
  PROVE  LET v == Pass(w, e) IN
         /\ v \in Walks /\ v.at # "found"
         /\ NoDots(w.done) => NoDots(v.done)
         /\ v.done \in {w.done, Parent(w.done), << >>} \/ (v.done = Ahead(w) /\ e # Absent)
         /\ \A directory \in AllPaths :
              /\ LeadsInto(directory, w)
              /\ e.kind = "link" => IsPrefix(directory, e.to) /\ NoDots(e.to)
              => LeadsInto(directory, v)
<1> DEFINE v == Pass(w, e)
           Result(u) ==
             /\ u \in Walks /\ u.at # "found"
             /\ NoDots(w.done) => NoDots(u.done)
             /\ u.done \in {w.done, Parent(w.done), << >>} \/ (u.done = Ahead(w) /\ e # Absent)
             /\ \A directory \in AllPaths :
                  /\ LeadsInto(directory, w)
                  /\ e.kind = "link" => IsPrefix(directory, e.to) /\ NoDots(e.to)
                  => LeadsInto(directory, u)
<1> SUFFICES Result(v)
  OBVIOUS
<1>1. /\ w.done \in AllPaths /\ w.rest \in AllPaths /\ << >> \in AllPaths
      /\ w.links \in 0..MaxLinks /\ MaxLinks \in Nat
      /\ w = [at |-> w.at, done |-> w.done, rest |-> w.rest, links |-> w.links]
  <2>1. << >> \in AllPaths
    BY EmptySeq DEF AllPaths
  <2> QED BY <2>1, LinksAssumption DEF Walks
<1>2. /\ Ahead(w) \in AllPaths /\ Tail(w.rest) \in AllPaths /\ Parent(w.done) \in AllPaths
      /\ Ahead(w) \o Tail(w.rest) = w.done \o w.rest
  BY <1>1, AheadType, ParentType
<1>3. /\ NoDots(<< >>)
      /\ NoDots(w.done) => NoDots(Parent(w.done))
      /\ NoDots(w.done) /\ Head(w.rest) # ".." => NoDots(Ahead(w))
  <2>1. NoDots(<< >>)
    BY DEF NoDots
  <2>2. Head(w.rest) \in STRING
    BY AheadType
  <2> QED BY <1>1, <2>1, <2>2, NoDotsProperties DEF Parent, Ahead
<1>4. CASE Head(w.rest) = ".."
  <2>1. v = [w EXCEPT !.done = Parent(@), !.rest = Tail(@)]
    BY <1>4 DEF Pass
  <2>2. v \in Walks /\ v.at # "found" /\ v.done = Parent(w.done)
    BY <1>1, <1>2, <2>1 DEF Walks, States
  <2>3. ASSUME NEW directory \in AllPaths PROVE ~LeadsInto(directory, w)
    BY <1>1, <1>4, NoDotsProperties DEF LeadsInto
  <2> HIDE DEF v
  <2> QED BY <1>3, <2>2, <2>3
<1>5. ASSUME NEW at \in {"NotFound", "Other"}, v = [w EXCEPT !.at = at] PROVE Result(v)
  <2>1. v \in Walks /\ v.at # "found" /\ v.done = w.done /\ v.rest = w.rest
    BY <1>1, <1>5 DEF Walks, States
  <2> HIDE DEF v
  <2>2. \A directory : LeadsInto(directory, w) => LeadsInto(directory, v)
    BY <2>1 DEF LeadsInto
  <2> QED BY <2>1, <2>2
<1>6. CASE /\ Head(w.rest) # ".." /\ e.kind = "link" /\ w.links # MaxLinks
           /\ v = [w EXCEPT !.done = << >>, !.rest = e.to \o Tail(@), !.links = @ + 1]
  <2>1. e.to \in AllPaths /\ e.to \o Tail(w.rest) \in AllPaths
    BY <1>2, <1>6, EntryKinds, ConcatProperties DEF AllPaths
  <2>2. /\ v \in Walks /\ v.at # "found" /\ v.done = << >>
        /\ v.rest = e.to \o Tail(w.rest)
    <3>1. PICK root \in AllPaths : root = << >>
      BY <1>1
    <3>2. PICK rest \in AllPaths : rest = e.to \o Tail(w.rest)
      BY <2>1
    <3>3. v = [w EXCEPT !.done = root, !.rest = rest, !.links = @ + 1]
      BY <1>6, <3>1, <3>2
    <3> HIDE DEF v
    <3>4. v = [at |-> w.at, done |-> root, rest |-> rest, links |-> w.links + 1]
      BY <1>1, <3>3 DEF Walks
    <3>5. w.at \in States /\ w.links + 1 \in 0..MaxLinks
      BY <1>1, <1>6 DEF Walks
    <3>6. v \in Walks /\ v.at = w.at /\ v.done = root /\ v.rest = rest
      BY <3>4, <3>5 DEF Walks
    <3> QED BY <3>1, <3>2, <3>6
  <2>3. ASSUME NEW directory \in AllPaths, LeadsInto(directory, w),
               IsPrefix(directory, e.to), NoDots(e.to)
        PROVE  LeadsInto(directory, v)
    <3>1. NoDots(Tail(w.rest))
      BY <1>1, <2>3, NoDotsProperties DEF LeadsInto
    <3>2. NoDots(e.to \o Tail(w.rest))
      BY <1>2, <2>1, <2>3, <3>1, NoDotsProperties
    <3>3. IsPrefix(directory, e.to \o Tail(w.rest))
      BY <1>2, <2>1, <2>3, PrefixGrows DEF AllPaths
    <3>4. v.done \o v.rest = e.to \o Tail(w.rest)
      BY <2>1, <2>2, ConcatEmptySeq DEF AllPaths
    <3> HIDE DEF v
    <3> QED BY <2>2, <3>2, <3>3, <3>4 DEF LeadsInto
  <2>4. v.done \in {w.done, Parent(w.done), << >>}
    BY <2>2
  <2>5. NoDots(v.done)
    BY <1>3, <2>2
  <2> HIDE DEF v
  <2> QED BY <1>6, <2>2, <2>3, <2>4, <2>5
<1>7. CASE /\ Head(w.rest) # ".." /\ e.kind # "absent"
           /\ v = [w EXCEPT !.done = Ahead(w), !.rest = Tail(@)]
  <2>1. v \in Walks /\ v.at # "found" /\ v.done = Ahead(w) /\ v.rest = Tail(w.rest)
    BY <1>1, <1>2, <1>7 DEF Walks, States
  <2>2. e # Absent
    BY <1>7 DEF Absent
  <2> HIDE DEF v
  <2>3. ASSUME NEW directory \in AllPaths, LeadsInto(directory, w)
        PROVE  LeadsInto(directory, v)
    <3>1. NoDots(Tail(w.rest))
      BY <1>1, <2>3, NoDotsProperties DEF LeadsInto
    <3> QED BY <1>2, <2>1, <2>3, <3>1 DEF LeadsInto
  <2> QED BY <1>7, <1>3, <2>1, <2>2, <2>3
<1> HIDE DEF Result
<1>8. Head(w.rest) # ".." =>
        \/ v = [w EXCEPT !.at = "NotFound"]
        \/ v = [w EXCEPT !.at = "Other"]
        \/ /\ e.kind = "link" /\ w.links # MaxLinks
           /\ v = [w EXCEPT !.done = << >>, !.rest = e.to \o Tail(@), !.links = @ + 1]
        \/ e.kind # "absent" /\ v = [w EXCEPT !.done = Ahead(w), !.rest = Tail(@)]
  BY DEF Pass
<1> HIDE DEF v
<1> QED BY <1>4, <1>5, <1>6, <1>7, <1>8

-----------------------------------------------------------------------------
(* Lookups *)

LEMMA StepArrives ==
  ASSUME NEW t \in [Places -> Entries], IsTree(t), NEW w, Arrives(t, w), w.at = "walking"
  PROVE  LET v == WalkStep(w, IF w.rest = << >> THEN Absent ELSE Entry(t, Ahead(w))) IN
         /\ Arrives(t, v)
         /\ \A directory \in AllPaths :
              NoLinkOut(t, directory) /\ LeadsInto(directory, w) => LeadsInto(directory, v)
<1> DEFINE v == WalkStep(w, IF w.rest = << >> THEN Absent ELSE Entry(t, Ahead(w)))
<1> SUFFICES /\ Arrives(t, v)
             /\ \A directory \in AllPaths :
                  NoLinkOut(t, directory) /\ LeadsInto(directory, w) => LeadsInto(directory, v)
  OBVIOUS
<1>1. w \in Walks
  BY DEF Arrives
<1>2. CASE w.rest = << >>
  <2>1. v = [w EXCEPT !.at = "found"]
    BY <1>2 DEF WalkStep
  <2>2. /\ v \in Walks /\ v.done = w.done /\ v.rest = w.rest
    BY <1>1, <2>1 DEF Walks, States
  <2> HIDE DEF v
  <2> QED BY <1>2, <2>2 DEF Arrives, LeadsInto
<1>3. CASE w.rest # << >>
  <2> DEFINE e == Entry(t, Ahead(w))
  <2>1. v = Pass(w, e)
    BY <1>3 DEF WalkStep
  <2>2. /\ e \in Entries /\ (e # Absent => Ahead(w) \in Places \cup {<< >>})
        /\ e.kind = "link" => \E p \in Places : e = t[p]
    BY EntryType
  <2> HIDE DEF v
  <2>3. /\ v \in Walks /\ v.at # "found" /\ (NoDots(w.done) => NoDots(v.done))
        /\ v.done \in {w.done, Parent(w.done), << >>} \/ (v.done = Ahead(w) /\ e # Absent)
        /\ \A directory \in AllPaths :
             /\ LeadsInto(directory, w)
             /\ e.kind = "link" => IsPrefix(directory, e.to) /\ NoDots(e.to)
             => LeadsInto(directory, v)
    <3> HIDE DEF e
    <3> QED BY <1>1, <1>3, <2>1, <2>2, PassResult
  <2>4. \A directory \in AllPaths : NoLinkOut(t, directory) =>
          (e.kind = "link" => IsPrefix(directory, e.to) /\ NoDots(e.to))
    BY <2>2 DEF NoLinkOut
  <2>5. /\ Entry(t, << >>) # Absent /\ << >> \in Places \cup {<< >>}
        /\ Dir # Absent
    BY DEF Entry, Dir, Absent
  <2>6. Entry(t, Parent(w.done)) # Absent
    <3>1. CASE w.done = << >>
      BY <2>5, <3>1 DEF Parent
    <3>2. CASE w.done \in Places
      <4>1. w.done # << >>
        BY <3>2, PlacesAssumption
      <4>2. t[w.done] # Absent
        BY <3>2, <4>1 DEF Arrives, Entry
      <4> QED BY <2>5, <3>2, <4>2 DEF IsTree
    <3> QED BY <3>1, <3>2 DEF Arrives
  <2>7. Parent(w.done) \in Places \cup {<< >>}
    BY <2>6, EntryType
  <2>8. v.done \in Places \cup {<< >>} /\ Entry(t, v.done) # Absent
    BY <2>2, <2>3, <2>5, <2>6, <2>7 DEF Arrives
  <2> HIDE DEF e
  <2> QED BY <2>3, <2>4, <2>8 DEF Arrives
<1> QED BY <1>2, <1>3

\* A step keeps walks walks, and brings the end nearer.
LEMMA StepIsWalk ==
  ASSUME NEW t \in [Places -> Entries], NEW w \in Walks
  PROVE  /\ Step(t, w) \in Walks /\ StepsLeft(w) \in Nat \ {0}
         /\ Step(t, w).at = "walking" => StepsLeft(Step(t, w)) < StepsLeft(w)
<1>1. /\ w.done \in AllPaths /\ w.rest \in AllPaths /\ w.links \in 0..MaxLinks
      /\ w = [at |-> w.at, done |-> w.done, rest |-> w.rest, links |-> w.links]
      /\ MaxLinks \in Nat /\ MaxTarget \in Nat
  BY LinksAssumption DEF Walks
<1> DEFINE Spare(k) == (MaxLinks - k) * MaxTarget
<1>2. /\ \A k \in 0..MaxLinks : Spare(k) \in Nat
      /\ \A k \in 0..MaxLinks : k # MaxLinks => Spare(k + 1) + MaxTarget = Spare(k)
  BY <1>1
<1>3. Len(w.rest) \in Nat /\ StepsLeft(w) = Len(w.rest) + Spare(w.links) + 1
  BY <1>1, LenProperties DEF AllPaths, StepsLeft
<1> HIDE DEF Spare
<1>4. StepsLeft(w) \in Nat \ {0}
  BY <1>1, <1>2, <1>3
<1>5. CASE w.at # "walking"
  BY <1>4, <1>5 DEF Step
<1>6. CASE w.at = "walking" /\ w.rest = << >>
  <2>1. Step(t, w) = [w EXCEPT !.at = "found"]
    BY <1>6 DEF Step, WalkStep
  <2> QED BY <1>1, <1>4, <2>1 DEF Walks, States
<1>7. CASE w.at = "walking" /\ w.rest # << >>
  <2> DEFINE v == Step(t, w)
  <2>1. PICK e \in Entries : e = Entry(t, Ahead(w))
    BY EntryType
  <2>2. v = Pass(w, e)
    BY <1>7, <2>1 DEF Step, WalkStep
  <2>3. v \in Walks
    BY <1>7, <2>2, PassResult
  <2>4. Tail(w.rest) \in AllPaths /\ Len(Tail(w.rest)) = Len(w.rest) - 1 /\ Len(w.rest) # 0
    BY <1>1, <1>7, HeadTailProperties, EmptySeq DEF AllPaths
  <2>5. ASSUME v.at = "walking"
        PROVE  \/ Len(v.rest) = Len(w.rest) - 1 /\ v.links = w.links
               \/ /\ Len(v.rest) <= MaxTarget + Len(w.rest) - 1
                  /\ w.links # MaxLinks /\ v.links = w.links + 1
    <3>1. \/ v = [w EXCEPT !.done = Parent(@), !.rest = Tail(@)]
          \/ /\ e.kind = "link" /\ w.links # MaxLinks
             /\ v = [w EXCEPT !.done = << >>, !.rest = e.to \o Tail(@), !.links = @ + 1]
          \/ v = [w EXCEPT !.done = Ahead(w), !.rest = Tail(@)]
      <4>1. [w EXCEPT !.at = "NotFound"].at # "walking" /\ [w EXCEPT !.at = "Other"].at # "walking"
        BY <1>1
      <4> HIDE DEF v
      <4> QED BY <2>2, <2>5, <4>1 DEF Pass
    <3> HIDE DEF v
    <3>2. CASE v.rest = Tail(w.rest) /\ v.links = w.links
      BY <2>4, <3>2
    <3>3. CASE /\ e.kind = "link" /\ w.links # MaxLinks
               /\ v = [w EXCEPT !.done = << >>, !.rest = e.to \o Tail(@), !.links = @ + 1]
      <4>1. v.rest = e.to \o Tail(w.rest) /\ v.links = w.links + 1
        BY <1>1, <3>3
      <4>2. e.to \in AllPaths /\ Len(e.to) <= MaxTarget
        BY <3>3, EntryKinds, PathsAssumption
      <4>3. Len(v.rest) = Len(e.to) + Len(Tail(w.rest)) /\ Len(e.to) \in Nat
        BY <2>4, <4>1, <4>2, ConcatProperties, LenProperties DEF AllPaths
      <4> QED BY <1>1, <1>3, <2>4, <3>3, <4>1, <4>2, <4>3
    <3> QED BY <1>1, <3>1, <3>2, <3>3
  <2>6. ASSUME v.at = "walking" PROVE StepsLeft(v) < StepsLeft(w)
    <3>1. /\ StepsLeft(v) = Len(v.rest) + Spare(v.links) + 1
          /\ Len(v.rest) \in Nat /\ v.links \in 0..MaxLinks
      BY <2>3, LenProperties DEF Walks, AllPaths, StepsLeft, Spare
    <3> HIDE DEF v
    <3>2. Spare(w.links) \in Nat /\ Spare(v.links) \in Nat
      BY <1>1, <1>2, <3>1
    <3>3. w.links # MaxLinks => Spare(w.links + 1) + MaxTarget = Spare(w.links)
      BY <1>1, <1>2
    <3>4. CASE Len(v.rest) = Len(w.rest) - 1 /\ v.links = w.links
      BY <1>3, <3>1, <3>2, <3>4
    <3>5. CASE /\ Len(v.rest) <= MaxTarget + Len(w.rest) - 1
               /\ w.links # MaxLinks /\ v.links = w.links + 1
      <4>1. Spare(v.links) + MaxTarget = Spare(w.links)
        BY <3>3, <3>5
      <4>2. MaxTarget \in Nat
        BY LinksAssumption
      <4> QED BY <1>3, <3>1, <3>2, <3>5, <4>1, <4>2
    <3> QED BY <2>5, <2>6, <3>4, <3>5
  <2> QED BY <1>4, <2>3, <2>6
<1> QED BY <1>5, <1>6, <1>7

\* A run of the walk w, of L steps.
IsRun(t, w, f, L) ==
  f \in [0..L -> Walks] /\ f[0] = w /\ \A n \in 1..L : f[n] = Step(t, f[n - 1])

LEMMA ArrivalIsRun ==
  ASSUME NEW t \in [Places -> Entries], NEW w \in Walks
  PROVE  \E f : IsRun(t, w, f, StepsLeft(w)) /\ Arrival(t, w) = f[StepsLeft(w)]
<1> DEFINE L == StepsLeft(w)
           G == [x \in (1..L) \X Walks |-> Step(t, x[2])]
<1>1. L \in Nat
  BY StepIsWalk
<1>2. G \in [(1..L) \X Walks -> Walks] /\ \A n \in 1..L, v \in Walks : G[<<n, v>>] = Step(t, v)
  BY StepIsWalk
<1> HIDE DEF G
<1>3. PICK f : IsRecursion(f, L, Walks, w, G)
  <2> HIDE DEF L
  <2> QED BY <1>1, <1>2, RecursionOverNumbers
<1>4. f = [n \in 0..L |-> IF n = 0 THEN w ELSE Step(t, f[n - 1])]
  <2>1. ASSUME NEW n \in 0..L PROVE f[n] = IF n = 0 THEN w ELSE Step(t, f[n - 1])
    <3>1. n # 0 => n \in 1..L /\ n - 1 \in 0..L
      BY <1>1
    <3>2. /\ f \in [0..L -> Walks] /\ f[0] = w
          /\ \A k \in 1..L : f[k] = G[<<k, f[k - 1]>>]
      BY <1>3 DEF IsRecursion
    <3> HIDE DEF L
    <3> QED BY <1>2, <3>1, <3>2
  <2>2. f \in [0..L -> Walks]
    BY <1>3 DEF IsRecursion
  <2> HIDE DEF L
  <2> QED BY <2>1, <2>2
<1> DEFINE walk == CHOOSE g : g = [n \in 0..L |-> IF n = 0 THEN w ELSE Step(t, g[n - 1])]
<1>5. walk = [n \in 0..L |-> IF n = 0 THEN w ELSE Step(t, walk[n - 1])]
  BY <1>4
<1>6. Arrival(t, w) = walk[L]
  BY DEF Arrival
<1> HIDE DEF walk
<1>7. IsRun(t, w, walk, L)
  <2> DEFINE T == {n \in Nat : n <= L => walk[n] \in Walks}
  <2>1. \A n \in 1..L : n - 1 \in 0..L /\ walk[n] = Step(t, walk[n - 1])
    BY <1>1, <1>5
  <2>2. walk[0] = w /\ 0 \in T
    BY <1>1, <1>5
  <2>3. ASSUME NEW n \in Nat, n \in T PROVE n + 1 \in T
    <3>1. n + 1 <= L => n + 1 \in 1..L /\ (n + 1) - 1 = n /\ walk[n] \in Walks
      BY <1>1, <2>3
    <3> HIDE DEF L
    <3> QED BY <2>1, <3>1, StepIsWalk
  <2>4. \A n \in Nat : n \in T
    <3> HIDE DEF T
    <3> QED BY <2>2, <2>3, SetInduction
  <2>5. \A n \in 0..L : walk[n] \in Walks
    BY <1>1, <2>4
  <2>6. walk \in [0..L -> Walks]
    <3> HIDE DEF L
    <3> QED BY <1>5, <2>5
  <2> HIDE DEF L
  <2> QED BY <2>1, <2>2, <2>6 DEF IsRun
<1> QED BY <1>6, <1>7

LEMMA RunIsSteps ==
  ASSUME NEW t, NEW w, NEW L \in Nat, NEW f, IsRun(t, w, f, L)
  PROVE  \A n \in Nat : n + 1 <= L => f[n] \in Walks /\ f[n + 1] = Step(t, f[n])
<1>1. \A n \in Nat : n + 1 <= L => n \in 0..L /\ n + 1 \in 1..L /\ (n + 1) - 1 = n
  OBVIOUS
<1> QED BY <1>1 DEF IsRun

\* A walk that is over stays as it is.
LEMMA RunStays ==
  ASSUME NEW t, NEW w, NEW L \in Nat, NEW f, IsRun(t, w, f, L),
         NEW k \in 0..L, f[k].at # "walking"
  PROVE  f[L] = f[k]
<1> DEFINE T == {n \in Nat : k + n <= L => f[k + n] = f[k]}
<1>1. \A n \in Nat : n + 1 <= L => f[n + 1] = Step(t, f[n])
  <2>1. \A n \in Nat : n + 1 <= L => n + 1 \in 1..L /\ (n + 1) - 1 = n
    OBVIOUS
  <2> QED BY <2>1 DEF IsRun
<1>2. 0 \in T
  OBVIOUS
<1>3. ASSUME NEW n \in Nat, n \in T PROVE n + 1 \in T
  <2>1. ASSUME k + (n + 1) <= L PROVE f[k + (n + 1)] = f[k]
    <3>1. k + n \in Nat /\ (k + n) + 1 <= L /\ (k + n) + 1 = k + (n + 1) /\ f[k + n] = f[k]
      BY <1>3, <2>1
    <3>2. f[(k + n) + 1] = Step(t, f[k + n])
      BY <1>1, <3>1
    <3> QED BY <3>1, <3>2 DEF Step
  <2> QED BY <2>1
<1>4. L - k \in T
  <2> HIDE DEF T
  <2> QED BY <1>2, <1>3, SetInduction
<1> QED BY <1>4

\* A run that is long enough comes to its end.
LEMMA RunEnds ==
  ASSUME NEW t \in [Places -> Entries], NEW w \in Walks, NEW f, IsRun(t, w, f, StepsLeft(w))
  PROVE  f[StepsLeft(w)] \in Walks /\ f[StepsLeft(w)].at # "walking"
<1>1. PICK L \in Nat : L = StepsLeft(w)
  BY StepIsWalk
<1> DEFINE T == {n \in Nat : n <= L /\ f[n].at = "walking" => StepsLeft(f[n]) <= L - n}
<1>2. /\ f[0] = w /\ f[L] \in Walks
      /\ \A n \in Nat : n + 1 <= L => f[n] \in Walks /\ f[n + 1] = Step(t, f[n])
  <2>1. IsRun(t, w, f, L)
    BY <1>1
  <2> QED BY <1>1, <2>1, RunIsSteps DEF IsRun
<1>3. 0 \in T
  BY <1>1, <1>2
<1>4. ASSUME NEW n \in Nat, n \in T PROVE n + 1 \in T
  <2>1. ASSUME n + 1 <= L, f[n + 1].at = "walking" PROVE StepsLeft(f[n + 1]) <= L - (n + 1)
    <3>1. f[n] \in Walks /\ f[n + 1] = Step(t, f[n])
      BY <1>2, <2>1
    <3>2. f[n].at = "walking"
      BY <2>1, <3>1 DEF Step
    <3>3. StepsLeft(f[n + 1]) < StepsLeft(f[n]) /\ StepsLeft(f[n]) \in Nat
      BY <2>1, <3>1, StepIsWalk
    <3>4. StepsLeft(f[n + 1]) \in Nat
      BY <3>1, StepIsWalk
    <3>5. StepsLeft(f[n]) <= L - n
      BY <1>2, <1>4, <2>1, <3>2
    <3> QED BY <3>3, <3>4, <3>5
  <2> QED BY <2>1
<1>5. L \in T
  <2> HIDE DEF T
  <2> QED BY <1>3, <1>4, SetInduction
<1>6. f[L].at = "walking" => StepsLeft(f[L]) <= 0
  BY <1>5
<1>7. StepsLeft(f[L]) \in Nat \ {0}
  BY <1>2, StepIsWalk
<1> QED BY <1>1, <1>2, <1>6, <1>7

LEMMA ArrivalOver ==
  ASSUME NEW t \in [Places -> Entries], NEW w \in Walks, w.at # "walking"
  PROVE  Arrival(t, w) = w
<1>1. PICK f : IsRun(t, w, f, StepsLeft(w)) /\ Arrival(t, w) = f[StepsLeft(w)]
  BY ArrivalIsRun
<1>2. StepsLeft(w) \in Nat /\ f[0] = w
  BY <1>1, StepIsWalk DEF IsRun
<1> QED BY <1>1, <1>2, RunStays

\* A step does not change where a walk ends.
LEMMA ArrivalOfStep ==
  ASSUME NEW t \in [Places -> Entries], NEW w \in Walks
  PROVE  Arrival(t, w) = Arrival(t, Step(t, w))
<1>1. PICK v \in Walks : v = Step(t, w)
  BY StepIsWalk
<1>2. PICK L \in Nat, M \in Nat :
        /\ L = StepsLeft(w) /\ M = StepsLeft(v)
        /\ L # 0 /\ (v.at = "walking" => M < L)
  <2>1. StepsLeft(v) \in Nat
    BY StepIsWalk
  <2> QED BY <1>1, <2>1, StepIsWalk
<1>3. PICK f : IsRun(t, w, f, L) /\ Arrival(t, w) = f[L]
  BY <1>2, ArrivalIsRun
<1>4. PICK g : IsRun(t, v, g, M) /\ Arrival(t, v) = g[M]
  BY <1>2, ArrivalIsRun
<1>5. \A n \in Nat : n + 1 <= L => f[n + 1] = Step(t, f[n])
  BY <1>3, RunIsSteps
<1>6. \A n \in Nat : n + 1 <= M => g[n + 1] = Step(t, g[n])
  <2>1. IsRun(t, v, g, M) /\ M \in Nat
    BY <1>2, <1>4
  <2>2. \A n \in Nat : n + 1 <= M => g[n] \in Walks /\ g[n + 1] = Step(t, g[n])
    BY <2>1, RunIsSteps
  <2> QED BY <2>2
<1>7. f[0] = w /\ f[1] = v /\ g[0] = v
  <2>1. 0 + 1 <= L /\ f[0 + 1] = Step(t, f[0])
    BY <1>2, <1>5
  <2> QED BY <1>1, <1>3, <1>4, <2>1 DEF IsRun
<1>8. CASE v.at # "walking"
  <2>1. f[L] = f[1]
    <3>1. 1 \in 0..L
      BY <1>2
    <3> QED BY <1>3, <1>7, <1>8, <3>1, RunStays
  <2> QED BY <1>1, <1>3, <1>7, <1>8, <2>1, ArrivalOver
<1>9. CASE v.at = "walking"
  <2> DEFINE T == {n \in Nat : n <= M => g[n] = f[n + 1]}
  <2>1. 0 \in T
    BY <1>7
  <2>2. ASSUME NEW n \in Nat, n \in T PROVE n + 1 \in T
    <3>1. ASSUME n + 1 <= M PROVE g[n + 1] = f[(n + 1) + 1]
      <4>1. g[n] = f[n + 1] /\ (n + 1) + 1 <= L /\ n + 1 \in Nat
        BY <1>2, <1>9, <2>2, <3>1
      <4> QED BY <1>5, <1>6, <3>1, <4>1
    <3> QED BY <3>1
  <2>3. M \in T
    <3> HIDE DEF T
    <3> QED BY <2>1, <2>2, SetInduction
  <2>4. g[M].at # "walking" /\ g[M] = f[M + 1] /\ M + 1 \in 0..L
    BY <1>2, <1>4, <1>9, <2>3, RunEnds
  <2>5. f[L] = f[M + 1]
    BY <1>3, <2>4, RunStays
  <2> QED BY <1>1, <1>3, <1>4, <2>4, <2>5
<1> QED BY <1>8, <1>9

\* Induction over the steps a walk has before it: S holds the walks that are
\* over, and a walk if it holds the next.
LEMMA WalkInduction ==
  ASSUME NEW t \in [Places -> Entries], NEW S,
         \A w \in Walks : w.at # "walking" => w \in S,
         \A w \in Walks : w.at = "walking" /\ Step(t, w) \in S => w \in S
  PROVE  Walks \subseteq S
<1> DEFINE T == {StepsLeft(w) : w \in Walks \ S}
<1> SUFFICES ASSUME Walks \ S # {} PROVE FALSE
  OBVIOUS
<1>1. PICK x \in T : \A y \in T : x <= y
  <2>1. T \subseteq Nat /\ T # {}
    BY StepIsWalk
  <2> HIDE DEF T
  <2> QED BY <2>1, LeastNumber
<1>2. PICK w \in Walks \ S : x = StepsLeft(w)
  OBVIOUS
<1>3. w.at = "walking" /\ Step(t, w) \in Walks \ S
  BY <1>2, StepIsWalk
<1>4. Step(t, w).at = "walking"
  BY <1>3
<1>5. StepsLeft(Step(t, w)) < StepsLeft(w) /\ StepsLeft(w) \in Nat /\ StepsLeft(Step(t, w)) \in Nat
  BY <1>2, <1>3, <1>4, StepIsWalk
<1>6. x <= StepsLeft(Step(t, w))
  BY <1>1, <1>3
<1> QED BY <1>2, <1>5, <1>6

\* What every step keeps holds of the end.
LEMMA ArrivalKeeps ==
  ASSUME NEW t \in [Places -> Entries], NEW S \in SUBSET Walks,
         \A w \in S : w.at = "walking" => Step(t, w) \in S,
         NEW w \in S
  PROVE  Arrival(t, w) \in S /\ Arrival(t, w).at # "walking"
<1> DEFINE Ends == {v \in Walks : v \in S => Arrival(t, v) \in S /\ Arrival(t, v).at # "walking"}
<1>1. \A v \in Walks : v.at # "walking" => v \in Ends
  BY ArrivalOver
<1>2. ASSUME NEW v \in Walks, v.at = "walking", Step(t, v) \in Ends PROVE v \in Ends
  BY <1>2, ArrivalOfStep
<1>3. Walks \subseteq Ends
  <2> HIDE DEF Ends
  <2> QED BY <1>1, <1>2, WalkInduction
<1> QED BY <1>3

LEMMA WalkType ==
  ASSUME NEW path \in AllPaths
  PROVE  /\ Walk(path) \in Walks /\ Walk(path).at = "walking" /\ Walk(path).links = 0
         /\ Walk(path).done = << >> /\ Walk(path).rest = path /\ << >> \in AllPaths
<1>1. PICK root \in AllPaths : root = << >>
  BY EmptySeq DEF AllPaths
<1>2. Walk(path) = [at |-> "walking", done |-> root, rest |-> path, links |-> 0]
  BY <1>1 DEF Walk
<1>3. 0 \in 0..MaxLinks
  BY LinksAssumption
<1> QED BY <1>1, <1>2, <1>3 DEF Walks, States

\* Where a lookup in one tree ends: at a place of the tree; and in the
\* directory, if its path leads there and no link leads out.
LEMMA LookupArrives ==
  ASSUME NEW t \in [Places -> Entries], IsTree(t), NEW path \in AllPaths
  PROVE  LET w == Lookup(t, path) IN
         /\ Arrives(t, w) /\ w.at # "walking"
         /\ \A directory \in AllPaths :
              NoLinkOut(t, directory) /\ IsPrefix(directory, path) /\ NoDots(path)
                => LeadsInto(directory, w)
<1> DEFINE Stays(w) ==
             \A directory \in AllPaths :
               NoLinkOut(t, directory) /\ IsPrefix(directory, path) /\ NoDots(path)
                 => LeadsInto(directory, w)
           S == {w \in Walks : Arrives(t, w) /\ Stays(w)}
<1>1. Walk(path) \in S
  <2>1. /\ Walk(path) \in Walks /\ Walk(path).at = "walking"
        /\ Walk(path).done = << >> /\ Walk(path).rest = path
    BY WalkType
  <2>2. NoDots(<< >>) /\ Entry(t, << >>) # Absent /\ << >> \in Places \cup {<< >>}
    BY DEF NoDots, Entry, Dir, Absent
  <2>3. << >> \o path = path
    BY ConcatEmptySeq DEF AllPaths
  <2> QED BY <2>1, <2>2, <2>3 DEF Arrives, LeadsInto
<1>2. ASSUME NEW w \in S, w.at = "walking" PROVE Step(t, w) \in S
  <2>1. Step(t, w) = WalkStep(w, IF w.rest = << >> THEN Absent ELSE Entry(t, Ahead(w)))
    BY <1>2 DEF Step
  <2>2. Arrives(t, Step(t, w)) /\ Stays(Step(t, w))
    BY <1>2, <2>1, StepArrives
  <2> QED BY <2>2 DEF Arrives
<1>3. Lookup(t, path) \in S /\ Lookup(t, path).at # "walking"
  <2>1. S \in SUBSET Walks
    OBVIOUS
  <2> HIDE DEF S
  <2> QED BY <1>1, <1>2, <2>1, ArrivalKeeps DEF Lookup
<1> QED BY <1>3

-----------------------------------------------------------------------------
(* What is there is found where it is *)

LEMMA LastName ==
  ASSUME NEW path \in AllPaths, path # << >>
  PROVE  ~(Len(path) > 1) <=> Tail(path) = << >>
<1>1. PICK rest \in AllPaths : rest = Tail(path) /\ Len(rest) = Len(path) - 1
  BY HeadTailProperties DEF AllPaths
<1>2. PICK n \in Nat, m \in Nat : n = Len(path) /\ m = Len(rest)
  BY <1>1, LenProperties DEF AllPaths
<1>3. n # 0 /\ (m = 0 <=> rest = << >>)
  BY <1>1, <1>2, EmptySeq DEF AllPaths
<1> QED BY <1>1, <1>2, <1>3

LEMMA StepStands ==
  ASSUME NEW t \in [Places -> Entries], IsTree(t), NEW w, Arrives(t, w), Stands(t, w)
  PROVE  Stands(t, Step(t, w))
<1>1. w \in Walks /\ w.done \in AllPaths /\ w.rest \in AllPaths
  BY DEF Arrives, Walks
<1>2. CASE w.at # "walking"
  BY <1>2 DEF Step
<1>3. CASE w.at = "walking" /\ w.rest = << >>
  <2>1. Step(t, w) = [w EXCEPT !.at = "found"]
    BY <1>3 DEF Step, WalkStep
  <2>2. Step(t, w).done = w.done /\ Step(t, w).rest = w.rest
    BY <1>1, <2>1 DEF Walks
  <2> QED BY <2>2 DEF Stands
<1>4. CASE w.at = "walking" /\ w.rest # << >>
  <2>1. PICK e \in Entries : e = Entry(t, Ahead(w))
    BY EntryType
  <2>2. PICK v : v = Step(t, w)
    OBVIOUS
  <2>3. \/ v.done = w.done /\ v.rest = w.rest
        \/ v.done = Parent(w.done)
        \/ v.done = << >>
        \/ v.done = Ahead(w) /\ e \in {Dir, File} /\ (v.rest # << >> => e = Dir)
    <3>1. v = Pass(w, e)
      BY <1>4, <2>1, <2>2 DEF Step, WalkStep
    <3>2. w = [at |-> w.at, done |-> w.done, rest |-> w.rest, links |-> w.links]
      BY <1>1 DEF Walks
    <3>3. CASE Head(w.rest) = ".."
      BY <3>1, <3>2, <3>3 DEF Pass
    <3>4. CASE Head(w.rest) # ".." /\ v \in {[w EXCEPT !.at = "NotFound"], [w EXCEPT !.at = "Other"]}
      BY <3>2, <3>4
    <3>5. CASE v = [w EXCEPT !.done = << >>, !.rest = e.to \o Tail(@), !.links = @ + 1]
      BY <3>2, <3>5
    <3>6. CASE /\ v = [w EXCEPT !.done = Ahead(w), !.rest = Tail(@)]
               /\ e.kind \notin {"absent", "link"} /\ ~(e.kind = "file" /\ Len(w.rest) > 1)
      <4>1. v.done = Ahead(w) /\ v.rest = Tail(w.rest)
        BY <3>2, <3>6
      <4>2. e \in {Dir, File}
        BY <3>6 DEF Entries, Absent, LinkTo
      <4>3. ASSUME e # Dir PROVE Tail(w.rest) = << >>
        <5>1. ~(Len(w.rest) > 1)
          BY <3>6, <4>2, <4>3 DEF File
        <5> QED BY <1>1, <1>4, <5>1, LastName
      <4> QED BY <4>1, <4>2, <4>3
    <3> QED BY <3>1, <3>3, <3>4, <3>5, <3>6 DEF Pass
  <2>4. Entry(t, << >>) = Dir
    BY DEF Entry
  <2>5. Entry(t, Parent(w.done)) = Dir
    <3>1. CASE w.done = << >>
      BY <2>4, <3>1 DEF Parent
    <3>2. CASE w.done # << >>
      BY <3>2 DEF Arrives, Entry, IsTree
    <3> QED BY <3>1, <3>2
  <2> QED BY <2>1, <2>2, <2>3, <2>4, <2>5 DEF Stands
<1> QED BY <1>1, <1>2, <1>3, <1>4 DEF Walks, States

\* A walk from the root ends at a directory or a file.
LEMMA LookupStands ==
  ASSUME NEW t \in [Places -> Entries], IsTree(t), NEW path \in AllPaths
  PROVE  /\ Arrives(t, Walk(path)) /\ Stands(t, Walk(path))
         /\ Stands(t, Lookup(t, path))
<1> DEFINE S == {w \in Walks : Arrives(t, w) /\ Stands(t, w)}
<1>1. Walk(path) \in S
  <2>1. /\ Walk(path) \in Walks /\ Walk(path).at = "walking" /\ Walk(path).done = << >>
    BY WalkType
  <2>2. NoDots(<< >>) /\ Entry(t, << >>) = Dir /\ << >> \in Places \cup {<< >>} /\ Dir # Absent
    BY DEF NoDots, Entry, Dir, Absent
  <2> QED BY <2>1, <2>2 DEF Arrives, Stands
<1>2. ASSUME NEW w \in S, w.at = "walking" PROVE Step(t, w) \in S
  <2>1. Step(t, w) = WalkStep(w, IF w.rest = << >> THEN Absent ELSE Entry(t, Ahead(w)))
    BY <1>2 DEF Step
  <2>2. Arrives(t, Step(t, w)) /\ Stands(t, Step(t, w))
    BY <1>2, <2>1, StepArrives, StepStands
  <2> QED BY <2>2 DEF Arrives
<1>3. Lookup(t, path) \in S
  <2>1. S \in SUBSET Walks
    OBVIOUS
  <2> HIDE DEF S
  <2> QED BY <1>1, <1>2, <2>1, ArrivalKeeps DEF Lookup
<1> QED BY <1>1, <1>3

\* All above what there is are directories.
LEMMA PrefixIsDir ==
  ASSUME NEW t \in [Places -> Entries], IsTree(t), NEW q \in AllPaths
  PROVE  \A s \in AllPaths : s # << >> /\ Entry(t, q \o s) # Absent => Entry(t, q) = Dir
<1> DEFINE T == {n \in Nat : \A s \in AllPaths :
                    Len(s) = n + 1 /\ Entry(t, q \o s) # Absent => Entry(t, q) = Dir}
<1>1. \A s \in AllPaths : s # << >> /\ Entry(t, q \o s) # Absent =>
        /\ Front(s) \in AllPaths /\ Len(Front(s)) = Len(s) - 1
        /\ Entry(t, q \o Front(s)) = Dir
  <2>1. SUFFICES ASSUME NEW s \in AllPaths, s # << >>, Entry(t, q \o s) # Absent
                 PROVE  /\ Front(s) \in AllPaths /\ Len(Front(s)) = Len(s) - 1
                        /\ Entry(t, q \o Front(s)) = Dir
    OBVIOUS
  <2>2. PICK f \in AllPaths, l \in STRING : f = Front(s) /\ l = Last(s) /\ s = Append(f, l)
    BY <2>1, FrontAndLast DEF AllPaths
  <2>3. Len(f) = Len(s) - 1
    <3>1. Len(s) = Len(f) + 1 /\ Len(f) \in Nat
      BY <2>2, AppendProperties, LenProperties DEF AllPaths
    <3> QED BY <3>1
  <2>4. q \o s = Append(q \o f, l) /\ q \o f \in AllPaths
    <3>1. <<l>> \in AllPaths
      BY <2>2 DEF AllPaths
    <3>2. Append(f, l) = f \o <<l>> /\ q \o f \in AllPaths
      BY <2>2, AppendIsConcat, ConcatProperties DEF AllPaths
    <3>3. q \o (f \o <<l>>) = (q \o f) \o <<l>>
      BY <2>2, <3>1, ConcatAssociative DEF AllPaths
    <3>4. (q \o f) \o <<l>> = Append(q \o f, l)
      BY <2>2, <3>2, AppendIsConcat DEF AllPaths
    <3> QED BY <2>2, <3>2, <3>3, <3>4
  <2>5. q \o s # << >> /\ Front(q \o s) = q \o f
    <3>1. PICK r \in AllPaths : r = q \o f
      BY <2>4
    <3>2. r \in Seq(STRING) /\ l \in STRING
      BY <2>2, <3>1 DEF AllPaths
    <3>3. Front(Append(r, l)) = r
      BY <3>2, FrontOfAppend
    <3>4. Append(r, l) # << >>
      <4>1. Append(r, l) \in Seq(STRING) /\ Len(Append(r, l)) = Len(r) + 1 /\ Len(r) \in Nat
        BY <3>2, AppendProperties, LenProperties
      <4>2. Len(Append(r, l)) # 0
        BY <4>1
      <4> QED BY <4>1, <4>2, EmptySeq
    <3> QED BY <2>4, <3>1, <3>3, <3>4
  <2>6. q \o s \in Places /\ t[q \o s] # Absent
    BY <2>1, <2>5 DEF Entry
  <2> QED BY <2>2, <2>3, <2>5, <2>6 DEF IsTree, Parent
<1>2. 0 \in T
  <2>1. ASSUME NEW s \in AllPaths, Len(s) = 0 + 1, Entry(t, q \o s) # Absent
        PROVE  Entry(t, q) = Dir
    <3>1. PICK n : n = Len(s) /\ n = 1
      BY <2>1
    <3>2. s # << >>
      <4>1. s = << >> => Len(s) = 0
        BY EmptySeq
      <4> QED BY <3>1, <4>1
    <3>3. Front(s) = << >>
      <4>1. Front(s) \in AllPaths /\ Len(Front(s)) = n - 1
        BY <1>1, <2>1, <3>1, <3>2
      <4> QED BY <3>1, <4>1, EmptySeq DEF AllPaths
    <3>4. q \o << >> = q
      BY ConcatEmptySeq DEF AllPaths
    <3> QED BY <1>1, <2>1, <3>2, <3>3, <3>4
  <2> QED BY <2>1
<1>3. ASSUME NEW n \in Nat, n \in T PROVE n + 1 \in T
  <2>1. ASSUME NEW s \in AllPaths, Len(s) = (n + 1) + 1, Entry(t, q \o s) # Absent
        PROVE  Entry(t, q) = Dir
    <3>1. s # << >>
      BY <2>1, EmptySeq DEF AllPaths
    <3>2. Front(s) \in AllPaths /\ Len(Front(s)) = n + 1 /\ Entry(t, q \o Front(s)) # Absent
      BY <1>1, <2>1, <3>1 DEF Dir, Absent
    <3> QED BY <1>3, <3>2
  <2> QED BY <2>1
<1>4. \A n \in Nat : n \in T
  <2> HIDE DEF T
  <2> QED BY <1>2, <1>3, SetInduction
<1>5. ASSUME NEW s \in AllPaths, s # << >>, Entry(t, q \o s) # Absent PROVE Entry(t, q) = Dir
  <2>1. Len(s) \in Nat /\ Len(s) # 0
    BY <1>5, LenProperties, EmptySeq DEF AllPaths
  <2>2. Len(s) - 1 \in T /\ Len(s) = (Len(s) - 1) + 1
    BY <1>4, <2>1
  <2> QED BY <1>5, <2>2
<1> QED BY <1>5

LEMMA NoDotsLeft ==
  ASSUME NEW s \in AllPaths, NEW r \in AllPaths, r # << >>, NoDots(s \o r)
  PROVE  Head(r) # ".."
<1>1. PICK n \in Nat, m \in Nat : n = Len(s) /\ m = Len(r) /\ m # 0 /\ Head(r) = r[1]
  BY LenProperties, EmptySeq, HeadTailProperties DEF AllPaths
<1>2. s \o r \in AllPaths /\ Len(s \o r) = n + m /\ (s \o r)[n + 1] = r[1]
  <2>1. /\ s \o r \in AllPaths /\ Len(s \o r) = n + m
        /\ \A k \in 1..(n + m) : (s \o r)[k] = IF k <= n THEN s[k] ELSE r[k - n]
    BY <1>1, ConcatProperties DEF AllPaths
  <2>2. n + 1 \in 1..(n + m) /\ ~(n + 1 <= n) /\ (n + 1) - n = 1
    BY <1>1
  <2> QED BY <2>1, <2>2
<1>3. n + 1 \in DOMAIN (s \o r)
  <2>1. DOMAIN (s \o r) = 1..Len(s \o r)
    BY <1>2, LenProperties DEF AllPaths
  <2> QED BY <1>1, <1>2, <2>1
<1> QED BY <1>1, <1>2, <1>3 DEF NoDots

\* A walk to a directory or a file by the names of its place passes no link.
LEMMA PlaceIsFound ==
  ASSUME NEW t \in [Places -> Entries], IsTree(t), NEW p, Entry(t, p) \in {Dir, File}
  PROVE  /\ p \in AllPaths
         /\ Lookup(t, p).at = "found" /\ Lookup(t, p).done = p
<1> DEFINE S == {w \in Walks : /\ w.done \o w.rest = p
                               /\ w.at = "walking" \/ (w.at = "found" /\ w.rest = << >>)}
<1>1. p \in AllPaths /\ p \in Places \cup {<< >>} /\ NoDots(p)
  <2>1. Entry(t, p) # Absent
    BY DEF Dir, File, Absent
  <2>2. p \in Places \cup {<< >>}
    BY <2>1, EntryType
  <2>3. p \in Places => p \in AllPaths /\ NoDots(p)
    BY PlacesAssumption DEF AllPaths, NoDots
  <2>4. << >> \in AllPaths /\ NoDots(<< >>)
    BY EmptySeq DEF AllPaths, NoDots
  <2> QED BY <2>2, <2>3, <2>4
<1>2. Walk(p) \in S
  <2>1. /\ Walk(p) \in Walks /\ Walk(p).at = "walking" /\ Walk(p).done = << >> /\ Walk(p).rest = p
    BY <1>1, WalkType
  <2>2. << >> \o p = p
    BY <1>1, ConcatEmptySeq DEF AllPaths
  <2> QED BY <2>1, <2>2
<1>3. ASSUME NEW w \in S, w.at = "walking" PROVE Step(t, w) \in S
  <2>1. w \in Walks /\ w.done \o w.rest = p /\ w.done \in AllPaths /\ w.rest \in AllPaths
    BY <1>3 DEF Walks
  <2>2. CASE w.rest = << >>
    <3>1. Step(t, w) = [w EXCEPT !.at = "found"]
      BY <1>3, <2>2 DEF Step, WalkStep
    <3>2. /\ Step(t, w) \in Walks /\ Step(t, w).done = w.done /\ Step(t, w).rest = w.rest
          /\ Step(t, w).at = "found"
      BY <2>1, <3>1 DEF Walks, States
    <3> QED BY <2>1, <2>2, <3>2
  <2>3. CASE w.rest # << >>
    <3>1. PICK a \in AllPaths, r \in AllPaths :
            a = Ahead(w) /\ r = Tail(w.rest) /\ a \o r = p
      BY <2>1, <2>3, AheadType
    <3>2. Head(w.rest) # ".."
      BY <1>1, <2>1, <2>3, NoDotsLeft
    <3>3. Entry(t, a) \in {Dir, File} /\ (r # << >> => Entry(t, a) = Dir)
      <4>1. CASE r = << >>
        <5>1. a \o << >> = a
          BY ConcatEmptySeq DEF AllPaths
        <5> QED BY <3>1, <4>1, <5>1
      <4>2. CASE r # << >>
        <5>1. Entry(t, p) # Absent
          BY DEF Dir, File, Absent
        <5>2. Entry(t, a \o r) # Absent
          BY <3>1, <5>1
        <5> QED BY <4>2, <5>2, PrefixIsDir
      <4> QED BY <4>1, <4>2
    <3>4. Step(t, w) = [w EXCEPT !.done = a, !.rest = r]
      <4>1. Step(t, w) = Pass(w, Entry(t, a))
        BY <1>3, <2>3, <3>1 DEF Step, WalkStep
      <4>2. Entry(t, a).kind \in {"dir", "file"}
        BY <3>3 DEF Dir, File
      <4>3. Entry(t, a).kind = "file" => ~(Len(w.rest) > 1)
        <5>1. SUFFICES ASSUME r = << >> PROVE ~(Len(w.rest) > 1)
          BY <3>3 DEF Dir
        <5> QED BY <2>1, <2>3, <3>1, <5>1, LastName
      <4> QED BY <3>1, <3>2, <4>1, <4>2, <4>3 DEF Pass
    <3>5. /\ Step(t, w) \in Walks /\ Step(t, w).done = a /\ Step(t, w).rest = r
          /\ Step(t, w).at = "walking"
      BY <1>3, <2>1, <3>4 DEF Walks
    <3> QED BY <3>1, <3>5
  <2> QED BY <2>2, <2>3
<1>4. Lookup(t, p) \in S /\ Lookup(t, p).at # "walking"
  <2>1. S \in SUBSET Walks
    OBVIOUS
  <2> HIDE DEF S
  <2> QED BY <1>2, <1>3, <2>1, ArrivalKeeps DEF Lookup
<1>5. PICK w \in Walks : w = Lookup(t, p) /\ w.at = "found" /\ w.rest = << >> /\ w.done \o w.rest = p
  BY <1>4
<1>6. w.done \o << >> = w.done
  BY <1>5, ConcatEmptySeq DEF Walks, AllPaths
<1> QED BY <1>1, <1>5, <1>6

\* Metadata by such a path is that of the place.
LEMMA MetadataBehind ==
  ASSUME NEW t \in [Places -> Entries], IsTree(t), NEW p \in AllPaths,
         Entry(t, p) \in {Dir, File}, NEW n \in STRING
  PROVE  LStat(t, Append(p, n)) = Entry(t, Append(p, n))
<1>1. Lookup(t, p).at = "found" /\ Lookup(t, p).done = p
  BY PlaceIsFound
<1>2. Front(Append(p, n)) = p /\ Last(Append(p, n)) = n
  BY FrontOfAppend DEF AllPaths
<1> QED BY <1>1, <1>2 DEF LStat

LEMMA MetadataOfPlace ==
  ASSUME NEW t \in [Places -> Entries], IsTree(t), NEW p, Entry(t, p) \in {Dir, File}
  PROVE  Stat(t, p) = Entry(t, p)
<1>1. Lookup(t, p).at = "found" /\ Lookup(t, p).done = p
  BY PlaceIsFound
<1> QED BY <1>1 DEF Stat

-----------------------------------------------------------------------------
(* The path of a request *)

RealPathStep(f, n, segments) == IF n = 0 THEN << >> ELSE Pushed(f[n - 1], segments[n])

LEMMA RealPathIsBuilt ==
  ASSUME NEW segments, Len(segments) \in Nat
  PROVE  \E f : /\ \A n \in 0..Len(segments) : f[n] = RealPathStep(f, n, segments)
                /\ RealPath(segments) = f[Len(segments)]
<1> DEFINE L == Len(segments)
           T == {m \in Nat : \E f : f = [n \in 0..m |-> RealPathStep(f, n, segments)]}
<1>1. 0 \in T
  <2> DEFINE f == [n \in 0..0 |-> << >>]
  <2>1. f = [n \in 0..0 |-> RealPathStep(f, n, segments)]
    BY DEF RealPathStep
  <2> QED BY <2>1
<1>2. ASSUME NEW m \in Nat, m \in T PROVE m + 1 \in T
  <2>1. PICK f : f = [n \in 0..m |-> RealPathStep(f, n, segments)]
    BY <1>2
  <2> DEFINE g == [n \in 0..(m + 1) |-> IF n <= m THEN f[n] ELSE RealPathStep(f, m + 1, segments)]
  <2>2. ASSUME NEW n \in 0..(m + 1) PROVE g[n] = RealPathStep(g, n, segments)
    <3>1. n # 0 => n - 1 \in 0..(m + 1) /\ g[n - 1] = f[n - 1]
      OBVIOUS
    <3>2. RealPathStep(g, n, segments) = RealPathStep(f, n, segments)
      <4> HIDE DEF g
      <4> QED BY <3>1 DEF RealPathStep
    <3>3. g[n] = RealPathStep(f, n, segments)
      <4>1. CASE n <= m
        <5>1. n \in 0..m /\ g[n] = f[n]
          BY <4>1
        <5> HIDE DEF g
        <5> QED BY <2>1, <5>1
      <4>2. CASE n = m + 1
        BY <4>2
      <4> QED BY <4>1, <4>2
    <3> QED BY <3>2, <3>3
  <2>3. g = [n \in 0..(m + 1) |-> RealPathStep(g, n, segments)]
    BY <2>2
  <2> HIDE DEF g
  <2> QED BY <2>3
<1>3. L \in T
  <2> HIDE DEF T
  <2> QED BY <1>1, <1>2, SetInduction
<1>4. PICK f : f = [n \in 0..L |-> RealPathStep(f, n, segments)]
  BY <1>3
<1> DEFINE buf == CHOOSE g : g = [n \in 0..L |->
                     IF n = 0 THEN << >> ELSE Pushed(g[n - 1], segments[n])]
<1>5. buf = [n \in 0..L |-> IF n = 0 THEN << >> ELSE Pushed(buf[n - 1], segments[n])]
  BY <1>4 DEF RealPathStep
<1>6. RealPath(segments) = buf[L]
  BY DEF RealPath
<1> HIDE DEF buf
<1>7. \A n \in 0..L : buf[n] = RealPathStep(buf, n, segments)
  BY <1>5 DEF RealPathStep
<1> QED BY <1>6, <1>7

\* No ".." of a request is left in its path, wherever it stood.
LEMMA RealPathIsClean ==
  ASSUME NEW segments \in AllPaths
  PROVE  RealPath(segments) \in AllPaths /\ NoDots(RealPath(segments))
<1> DEFINE L == Len(segments)
<1>1. L \in Nat /\ \A n \in 1..L : segments[n] \in STRING
  BY LenProperties, ElementOfSeq DEF AllPaths
<1>2. PICK f : /\ \A n \in 0..L : f[n] = RealPathStep(f, n, segments)
               /\ RealPath(segments) = f[L]
  BY <1>1, RealPathIsBuilt
<1> DEFINE T == {n \in Nat : n <= L => f[n] \in AllPaths /\ NoDots(f[n])}
<1>3. << >> \in AllPaths /\ NoDots(<< >>)
  BY EmptySeq DEF AllPaths, NoDots
<1>4. 0 \in T
  <2>1. f[0] = << >>
    BY <1>1, <1>2 DEF RealPathStep
  <2> QED BY <1>3, <2>1
<1>5. ASSUME NEW n \in Nat, n \in T PROVE n + 1 \in T
  <2>1. SUFFICES ASSUME n + 1 <= L PROVE f[n + 1] \in AllPaths /\ NoDots(f[n + 1])
    OBVIOUS
  <2>2. n + 1 \in 0..L /\ n + 1 # 0 /\ (n + 1) - 1 = n /\ n <= L /\ n + 1 \in 1..L
    BY <1>1, <2>1
  <2>3. PICK buf : buf = f[n]
    OBVIOUS
  <2>4. PICK segment : segment = segments[n + 1]
    OBVIOUS
  <2>5. buf \in AllPaths /\ NoDots(buf) /\ segment \in STRING
    BY <1>1, <1>5, <2>2, <2>3, <2>4
  <2>6. f[n + 1] = Pushed(buf, segment)
    BY <1>2, <2>2, <2>3, <2>4 DEF RealPathStep
  <2>7. CASE segment = ".."
    <3>1. Pushed(buf, segment) = Parent(buf)
      BY <2>7 DEF Pushed
    <3>2. NoDots(Parent(buf))
      BY <1>3, <2>5, NoDotsProperties DEF Parent
    <3> QED BY <2>5, <2>6, <3>1, <3>2, ParentType
  <2>8. CASE segment # ".." /\ segment = ""
    BY <2>5, <2>6, <2>8 DEF Pushed
  <2>9. CASE segment # ".." /\ segment # ""
    <3>1. Pushed(buf, segment) = Append(buf, segment)
      BY <2>9 DEF Pushed
    <3>2. Append(buf, segment) \in AllPaths
      BY <2>5, AppendProperties DEF AllPaths
    <3>3. NoDots(Append(buf, segment))
      BY <2>5, <2>9, NoDotsProperties
    <3> QED BY <2>6, <3>1, <3>2, <3>3
  <2> QED BY <2>7, <2>8, <2>9
<1>6. L \in T
  <2> HIDE DEF T
  <2> QED BY <1>1, <1>4, <1>5, SetInduction
<1> QED BY <1>1, <1>2, <1>6

-----------------------------------------------------------------------------
(* A path with one more name *)

LEMMA WithName ==
  ASSUME NEW s \in Seq(STRING), NEW n, n \in STRING, NEW more, more = Append(s, n)
  PROVE  /\ more \in Seq(STRING) /\ Len(s) \in Nat /\ Len(more) = Len(s) + 1
         /\ DOMAIN s = 1..Len(s) /\ DOMAIN more = 1..(Len(s) + 1)
         /\ \A k \in 1..Len(s) : more[k] = s[k]
         /\ more[Len(s) + 1] = n
<1>1. /\ more \in Seq(STRING) /\ Len(more) = Len(s) + 1
      /\ \A k \in 1..Len(s) : more[k] = s[k]
      /\ more[Len(s) + 1] = n
  BY AppendProperties
<1>2. DOMAIN s = 1..Len(s) /\ DOMAIN more = 1..Len(more) /\ Len(s) \in Nat
  BY <1>1, LenProperties
<1> QED BY <1>1, <1>2

\* The request for an entry of a directory has the path of that one, with the
\* name of the entry behind it.
LEMMA RealPathOfMore ==
  ASSUME NEW segments \in AllPaths, NEW x, x \in STRING
  PROVE  RealPath(Append(segments, x)) = Pushed(RealPath(segments), x)
<1>1. PICK more : more = Append(segments, x)
  OBVIOUS
<1>2. PICK L \in Nat : L = Len(segments)
  BY LenProperties DEF AllPaths
<1>3. /\ Len(more) = L + 1 /\ \A n \in 1..L : more[n] = segments[n]
      /\ more[L + 1] = x
  <2>1. segments \in Seq(STRING) /\ x \in STRING
    BY DEF AllPaths
  <2>2. Len(more) = Len(segments) + 1
    BY <1>1, <2>1, WithName
  <2>3. \A k \in 1..Len(segments) : more[k] = segments[k]
    BY <1>1, <2>1, WithName
  <2>4. more[Len(segments) + 1] = x
    BY <1>1, <2>1, WithName
  <2> QED BY <1>2, <2>2, <2>3, <2>4
<1>4. PICK f : (\A n \in 0..L : f[n] = RealPathStep(f, n, segments)) /\ RealPath(segments) = f[L]
  BY <1>2, RealPathIsBuilt
<1>5. PICK g : /\ \A n \in 0..(L + 1) : g[n] = RealPathStep(g, n, more)
               /\ RealPath(more) = g[L + 1]
  <2>1. Len(more) \in Nat
    BY <1>3
  <2> QED BY <1>3, <2>1, RealPathIsBuilt
<1> DEFINE T == {n \in Nat : n <= L => g[n] = f[n]}
<1>6. 0 \in T
  <2>1. 0 \in 0..L /\ 0 \in 0..(L + 1)
    OBVIOUS
  <2> QED BY <1>4, <1>5, <2>1 DEF RealPathStep
<1>7. ASSUME NEW n \in Nat, n \in T PROVE n + 1 \in T
  <2>1. SUFFICES ASSUME n + 1 <= L PROVE g[n + 1] = f[n + 1]
    OBVIOUS
  <2>2. /\ n + 1 \in 0..L /\ n + 1 \in 0..(L + 1) /\ n + 1 \in 1..L /\ n + 1 # 0
        /\ (n + 1) - 1 = n /\ n <= L
    BY <2>1
  <2> QED BY <1>3, <1>4, <1>5, <1>7, <2>2 DEF RealPathStep
<1>8. g[L] = f[L]
  <2>1. L \in T
    <3> HIDE DEF T
    <3> QED BY <1>6, <1>7, SetInduction
  <2> QED BY <2>1
<1>9. L + 1 \in 0..(L + 1) /\ L + 1 # 0 /\ (L + 1) - 1 = L
  OBVIOUS
<1> QED BY <1>1, <1>3, <1>4, <1>5, <1>8, <1>9 DEF RealPathStep

\* The same walk with one more name to come.
Extended(w, n) == [w EXCEPT !.rest = Append(@, n)]

LEMMA ExtendedIs ==
  ASSUME NEW at, NEW done, NEW rest, NEW links, NEW n
  PROVE  Extended([at |-> at, done |-> done, rest |-> rest, links |-> links], n) =
           [at |-> at, done |-> done, rest |-> Append(rest, n), links |-> links]
<1>1. PICK w : w = [at |-> at, done |-> done, rest |-> rest, links |-> links]
  OBVIOUS
<1>2. PICK more : more = Append(rest, n)
  OBVIOUS
<1>3. Extended(w, n) = [w EXCEPT !.rest = more]
  BY <1>1, <1>2 DEF Extended
<1>4. [w EXCEPT !.rest = more] = [at |-> at, done |-> done, rest |-> more, links |-> links]
  BY <1>1
<1> QED BY <1>1, <1>2, <1>3, <1>4

LEMMA ExtendedStep ==
  ASSUME NEW t \in [Places -> Entries], NEW w \in Walks, w.at = "walking", w.rest # << >>,
         NEW n \in STRING, Step(t, w).at = "walking",
         Entry(t, Ahead(w)) = File /\ Head(w.rest) # ".." => Tail(w.rest) # << >>
  PROVE  Extended(w, n) \in Walks /\ Step(t, Extended(w, n)) = Extended(Step(t, w), n)
<1>1. /\ w.done \in AllPaths /\ w.rest \in AllPaths /\ w.links \in 0..MaxLinks
      /\ w = [at |-> "walking", done |-> w.done, rest |-> w.rest, links |-> w.links]
  BY DEF Walks
<1>2. PICK h \in STRING, r \in AllPaths : h = Head(w.rest) /\ r = Tail(w.rest)
  BY <1>1, AheadType
<1>3. PICK more \in AllPaths :
        /\ more = Append(w.rest, n) /\ more # << >>
        /\ Head(more) = h /\ Tail(more) = Append(r, n) /\ Len(more) > 1
  BY <1>1, <1>2, HeadOfMore DEF AllPaths
<1>4. PICK u : u = Extended(w, n)
  OBVIOUS
<1>5. u = [at |-> "walking", done |-> w.done, rest |-> more, links |-> w.links]
  BY <1>1, <1>3, <1>4 DEF Extended
<1>6. /\ u \in Walks /\ u.at = "walking" /\ u.done = w.done /\ u.rest = more
      /\ u.links = w.links
  BY <1>1, <1>5 DEF Walks, States
<1>7. PICK e \in Entries : e = Entry(t, Append(w.done, h))
  BY EntryType
<1>8. /\ Ahead(w) = Append(w.done, h) /\ Ahead(u) = Append(w.done, h)
      /\ Step(t, w) = Pass(w, e) /\ Step(t, u) = Pass(u, e)
  BY <1>2, <1>3, <1>6, <1>7 DEF Step, WalkStep, Ahead
<1>9. PICK v : v = Step(t, w)
  OBVIOUS
<1>10. CASE h = ".."
  <2>1. v = [at |-> "walking", done |-> Parent(w.done), rest |-> r, links |-> w.links]
    BY <1>1, <1>2, <1>8, <1>9, <1>10 DEF Pass
  <2>2. Pass(u, e) = [at |-> "walking", done |-> Parent(w.done), rest |-> Append(r, n), links |-> w.links]
    BY <1>3, <1>5, <1>6, <1>10 DEF Pass
  <2>3. Extended(v, n) = [at |-> "walking", done |-> Parent(w.done), rest |-> Append(r, n), links |-> w.links]
    BY <2>1, ExtendedIs
  <2> QED BY <1>4, <1>6, <1>8, <1>9, <2>2, <2>3
<1>11. CASE h # ".."
  <2>1. [w EXCEPT !.at = "NotFound"].at # "walking" /\ [w EXCEPT !.at = "Other"].at # "walking"
    BY <1>1
  <2>2. /\ e.kind # "absent" /\ ~(e.kind = "file" /\ Len(w.rest) > 1)
        /\ ~(e.kind = "link" /\ w.links = MaxLinks)
    BY <1>2, <1>8, <1>11, <2>1 DEF Pass
  <2>3. e.kind # "file"
    <3>1. SUFFICES ASSUME e = File PROVE Len(w.rest) > 1
      BY <2>2 DEF Entries, Absent, Dir, LinkTo
    <3>2. r # << >>
      BY <1>2, <1>7, <1>8, <1>11, <3>1
    <3> QED BY <1>1, <1>2, <3>2, LastName
  <2>4. CASE e.kind = "link"
    <3>1. v = [at |-> "walking", done |-> << >>, rest |-> e.to \o r, links |-> w.links + 1]
      <4>1. v = [w EXCEPT !.done = << >>, !.rest = e.to \o Tail(@), !.links = @ + 1]
        BY <1>2, <1>8, <1>9, <1>11, <2>2, <2>3, <2>4 DEF Pass
      <4> QED BY <1>1, <1>2, <4>1
    <3>2. Pass(u, e) = [at |-> "walking", done |-> << >>, rest |-> e.to \o Append(r, n),
                        links |-> w.links + 1]
      <4>1. Pass(u, e) = [u EXCEPT !.done = << >>, !.rest = e.to \o Tail(@), !.links = @ + 1]
        BY <1>3, <1>6, <1>11, <2>2, <2>3, <2>4 DEF Pass
      <4> QED BY <1>3, <1>5, <4>1
    <3>3. e.to \o Append(r, n) = Append(e.to \o r, n)
      <4>1. e.to \in AllPaths
        BY <2>4, EntryKinds
      <4>2. PICK to \in Seq(STRING) : to = e.to
        BY <4>1 DEF AllPaths
      <4>3. r \in Seq(STRING)
        BY <1>2 DEF AllPaths
      <4>4. to \o Append(r, n) = Append(to \o r, n)
        BY <4>3, AppendAfter
      <4> QED BY <4>2, <4>4
    <3>4. Extended(v, n) = [at |-> "walking", done |-> << >>, rest |-> Append(e.to \o r, n),
                            links |-> w.links + 1]
      <4>1. PICK at, root, rest, links :
              at = "walking" /\ root = << >> /\ rest = e.to \o r /\ links = w.links + 1
        OBVIOUS
      <4>2. v = [at |-> at, done |-> root, rest |-> rest, links |-> links]
        BY <3>1, <4>1
      <4>3. Extended(v, n) = [at |-> at, done |-> root, rest |-> Append(rest, n), links |-> links]
        BY <4>2, ExtendedIs
      <4> QED BY <4>1, <4>3
    <3> QED BY <1>4, <1>6, <1>8, <1>9, <3>2, <3>3, <3>4
  <2>5. CASE e.kind # "link"
    <3>1. v = [at |-> "walking", done |-> Append(w.done, h), rest |-> r, links |-> w.links]
      <4>1. v = [w EXCEPT !.done = Ahead(w), !.rest = Tail(@)]
        BY <1>2, <1>8, <1>9, <1>11, <2>2, <2>3, <2>5 DEF Pass
      <4> QED BY <1>1, <1>2, <1>8, <4>1
    <3>2. Pass(u, e) = [at |-> "walking", done |-> Append(w.done, h), rest |-> Append(r, n),
                        links |-> w.links]
      <4>1. Pass(u, e) = [u EXCEPT !.done = Ahead(u), !.rest = Tail(@)]
        BY <1>3, <1>6, <1>11, <2>2, <2>3, <2>5 DEF Pass
      <4> QED BY <1>3, <1>5, <1>8, <4>1
    <3>3. Extended(v, n) = [at |-> "walking", done |-> Append(w.done, h), rest |-> Append(r, n),
                            links |-> w.links]
      <4>1. PICK at, done, links : at = "walking" /\ done = Append(w.done, h) /\ links = w.links
        OBVIOUS
      <4>2. v = [at |-> at, done |-> done, rest |-> r, links |-> links]
        BY <3>1, <4>1
      <4>3. Extended(v, n) = [at |-> at, done |-> done, rest |-> Append(r, n), links |-> links]
        BY <4>2, ExtendedIs
      <4> QED BY <4>1, <4>3
    <3> QED BY <1>4, <1>6, <1>8, <1>9, <3>2, <3>3
  <2> QED BY <2>4, <2>5
<1> QED BY <1>10, <1>11

\* A walk that ends in a directory comes, with a name of the directory behind
\* its path, to what the name stands for.
LEMMA ExtendedWalk ==
  ASSUME NEW t \in [Places -> Entries], IsTree(t), NEW directory \in AllPaths,
         Entry(t, directory) = Dir, NEW n \in STRING, n # "..",
         Entry(t, Append(directory, n)) \in {Dir, File},
         NEW path \in AllPaths,
         Lookup(t, path).at = "found", Lookup(t, path).done = directory
  PROVE  LET w == Lookup(t, Append(path, n)) IN
         w.at = "found" /\ w.done = Append(directory, n)
<1> DEFINE Ends(w) == Arrival(t, w).at = "found" /\ Arrival(t, w).done = directory
           Comes(w) == Arrival(t, w).at = "found" /\ Arrival(t, w).done = Append(directory, n)
           S == {w \in Walks : w.at = "walking" /\ Ends(w) => Comes(Extended(w, n))}
<1>1. PICK target \in AllPaths : target = Append(directory, n)
  BY AppendProperties DEF AllPaths
<1>2. ASSUME NEW w \in Walks, w.at = "walking", Step(t, w) \in S, Ends(w)
      PROVE  Comes(Extended(w, n))
  <2>1. /\ w.done \in AllPaths /\ w.rest \in AllPaths /\ w.links \in 0..MaxLinks
        /\ w = [at |-> "walking", done |-> w.done, rest |-> w.rest, links |-> w.links]
    BY <1>2 DEF Walks
  <2>2. PICK v \in Walks : v = Step(t, w)
    BY StepIsWalk
  <2>3. Arrival(t, w) = Arrival(t, v)
    BY <2>2, ArrivalOfStep
  <2>4. CASE w.rest = << >>
    <3>1. v = [w EXCEPT !.at = "found"]
      BY <1>2, <2>2, <2>4 DEF Step, WalkStep
    <3>2. v.at = "found" /\ v.done = w.done
      BY <2>1, <3>1
    <3>3. w.done = directory
      BY <1>2, <2>3, <3>2, ArrivalOver
    <3>4. PICK one \in AllPaths :
            one = <<n>> /\ one = Append(<< >>, n) /\ one # << >> /\ Head(one) = n
            /\ Tail(one) = << >> /\ Len(one) = 1
      BY OneName DEF AllPaths
    <3>5. PICK u : u = Extended(w, n)
      OBVIOUS
    <3>6. u = [at |-> "walking", done |-> directory, rest |-> one, links |-> w.links]
      <4>1. u = [w EXCEPT !.rest = one]
        BY <2>4, <3>4, <3>5 DEF Extended
      <4> QED BY <2>1, <3>3, <4>1
    <3>7. /\ u \in Walks /\ u.at = "walking" /\ u.done = directory /\ u.rest = one
          /\ u.links = w.links
      BY <2>1, <3>6 DEF Walks, States
    <3>8. PICK e : e = Entry(t, target)
      OBVIOUS
    <3>9. e.kind \in {"dir", "file"}
      BY <1>1, <3>8 DEF Dir, File
    <3>10. Ahead(u) = target
      BY <1>1, <3>4, <3>7 DEF Ahead
    <3>11. Step(t, u) = Pass(u, e)
      BY <3>4, <3>7, <3>8, <3>10 DEF Step, WalkStep
    <3>12. Pass(u, e) = [u EXCEPT !.done = Ahead(u), !.rest = Tail(@)]
      <4>1. ~(Len(u.rest) > 1)
        BY <3>4, <3>7
      <4> QED BY <3>4, <3>7, <3>9, <4>1 DEF Pass
    <3>13. PICK x : x = Step(t, u)
      OBVIOUS
    <3>14. x = [at |-> "walking", done |-> target, rest |-> << >>, links |-> w.links]
      <4>1. x = [u EXCEPT !.done = target, !.rest = << >>]
        BY <3>4, <3>7, <3>10, <3>11, <3>12, <3>13
      <4> QED BY <3>6, <4>1
    <3>15. x \in Walks
      BY <3>7, <3>13, StepIsWalk
    <3>16. PICK y : y = Step(t, x)
      OBVIOUS
    <3>17. y = [at |-> "found", done |-> target, rest |-> << >>, links |-> w.links]
      <4>1. y = [x EXCEPT !.at = "found"]
        BY <3>14, <3>16 DEF Step, WalkStep
      <4> QED BY <3>14, <4>1
    <3>18. Arrival(t, u) = y
      <4>1. y \in Walks
        BY <3>15, <3>16, StepIsWalk
      <4>2. Arrival(t, u) = Arrival(t, x) /\ Arrival(t, x) = Arrival(t, y)
        BY <3>7, <3>13, <3>15, <3>16, ArrivalOfStep
      <4>3. y.at # "walking"
        BY <3>17
      <4>4. Arrival(t, y) = y
        BY <4>1, <4>3, ArrivalOver
      <4> QED BY <4>2, <4>4
    <3> QED BY <1>1, <3>5, <3>17, <3>18
  <2>5. CASE w.rest # << >>
    <3>1. PICK e \in Entries : e = Entry(t, Ahead(w))
      BY EntryType
    <3>2. v = Pass(w, e)
      BY <1>2, <2>2, <2>5, <3>1 DEF Step, WalkStep
    <3>3. v.at = "walking"
      <4>1. v.at # "found"
        BY <1>2, <2>5, <3>2, PassResult
      <4>2. SUFFICES ASSUME v.at # "walking" PROVE FALSE
        OBVIOUS
      <4>3. Arrival(t, v) = v
        BY <4>2, ArrivalOver
      <4> QED BY <1>2, <2>3, <4>1, <4>3
    <3>4. ASSUME e = File, Head(w.rest) # "..", Tail(w.rest) = << >> PROVE FALSE
      <4>1. ~(Len(w.rest) > 1)
        BY <2>1, <2>5, <3>4, LastName
      <4>2. v = [w EXCEPT !.done = Ahead(w), !.rest = Tail(@)]
        BY <3>2, <3>4, <4>1 DEF Pass, File
      <4>3. PICK here, root : here = Ahead(w) /\ root = << >>
        OBVIOUS
      <4>4. v = [w EXCEPT !.done = here, !.rest = root]
        BY <3>4, <4>3, <4>2
      <4>5. v = [at |-> "walking", done |-> here, rest |-> root, links |-> w.links]
        <5>1. PICK at, done, rest, links :
                /\ w = [at |-> at, done |-> done, rest |-> rest, links |-> links]
                /\ at = "walking" /\ links = w.links
          BY <2>1
        <5>2. v = [at |-> at, done |-> here, rest |-> root, links |-> links]
          BY <4>4, <5>1
        <5> QED BY <5>1, <5>2
      <4>6. PICK x \in Walks : x = Step(t, v)
        BY <2>2, StepIsWalk
      <4>7. x = [at |-> "found", done |-> here, rest |-> root, links |-> w.links]
        <5>1. x = [v EXCEPT !.at = "found"]
          BY <4>3, <4>5, <4>6 DEF Step, WalkStep
        <5> QED BY <4>5, <5>1
      <4>8. Arrival(t, v) = x
        <5>1. x \in Walks /\ x.at # "walking"
          BY <4>6, <4>7
        <5>2. Arrival(t, v) = Arrival(t, x)
          BY <4>6, ArrivalOfStep
        <5> QED BY <5>1, <5>2, ArrivalOver
      <4>9. here = directory
        BY <1>2, <2>3, <4>7, <4>8
      <4>10. Entry(t, directory) = File
        BY <3>1, <3>4, <4>3, <4>9
      <4> QED BY <4>10 DEF File, Dir
    <3>5. PICK u \in Walks : u = Extended(w, n) /\ Step(t, u) = Extended(v, n)
      BY <1>2, <2>2, <2>5, <3>1, <3>3, <3>4, ExtendedStep
    <3>6. Comes(Extended(v, n))
      BY <1>2, <2>2, <2>3, <3>3
    <3>7. Arrival(t, u) = Arrival(t, Extended(v, n))
      BY <3>5, ArrivalOfStep
    <3> QED BY <3>5, <3>6, <3>7
  <2> QED BY <2>4, <2>5
<1>3. Walks \subseteq S
  <2>1. \A w \in Walks : w.at # "walking" => w \in S
    OBVIOUS
  <2>2. \A w \in Walks : w.at = "walking" /\ Step(t, w) \in S => w \in S
    BY <1>2
  <2> HIDE DEF S
  <2> QED BY <2>1, <2>2, WalkInduction
<1>4. PICK w \in Walks : w = Walk(path) /\ w.at = "walking"
  BY WalkType
<1>5. Comes(Extended(w, n))
  BY <1>3, <1>4 DEF Lookup
<1>6. Extended(w, n) = Walk(Append(path, n))
  BY <1>4, ExtendedIs DEF Walk
<1> QED BY <1>5, <1>6 DEF Lookup

-----------------------------------------------------------------------------
(* Metadata, and what a directory holds *)

LEMMA LStatType ==
  ASSUME NEW t \in [Places -> Entries], NEW path
  PROVE  /\ LStat(t, path) \in Entries
         /\ LStat(t, path).kind = "link" => \E p \in Places : LStat(t, path) = t[p]
<1>1. Absent \in Entries /\ Absent.kind # "link"
  BY DEF Entries, Absent
<1>2. PICK w : w = Lookup(t, Front(path))
  OBVIOUS
<1>3. LStat(t, path) = IF w.at = "found" THEN Entry(t, Append(w.done, Last(path))) ELSE Absent
  BY <1>2 DEF LStat
<1> QED BY <1>1, <1>3, EntryType

LEMMA NamesInTree ==
  ASSUME NEW t, NEW place
  PROVE  /\ NamesIn(t, place) \subseteq Names
         /\ \A n \in NamesIn(t, place) :
              Append(place, n) \in Places /\ t[Append(place, n)] # Absent
<1> SUFFICES ASSUME NEW n \in NamesIn(t, place)
             PROVE  n \in Names /\ Append(place, n) \in Places /\ t[Append(place, n)] # Absent
  OBVIOUS
<1>1. PICK p \in Places : Front(p) = place /\ t[p] # Absent /\ n = Last(p)
  BY DEF NamesIn, Children
<1>2. p = Append(Front(p), Last(p))
  BY NamesType, FrontAndLast DEF AllPaths
<1> QED BY <1>1, <1>2, NamesType

\* While the path leads to the directory, metadata is that of its entries.
LEMMA HeldProperties ==
  ASSUME NEW t \in [Places -> Entries], NEW path \in AllPaths, NEW place,
         NEW held \in Held(t, path, place)
  PROVE  /\ Lookup(t, path).at = "found" /\ Lookup(t, path).done = place
         /\ held \in Names \X Entries /\ held[2] # Absent
         /\ LStat(t, Append(path, held[1])) = held[2]
         /\ held[1] \in NamesIn(t, place)
<1>1. /\ Lookup(t, path).at = "found" /\ Lookup(t, path).done = place
      /\ held \in {<<n, Entry(t, Append(place, n))>> : n \in NamesIn(t, place)}
  BY DEF Held
<1>2. PICK n \in NamesIn(t, place) : held = <<n, Entry(t, Append(place, n))>>
  BY <1>1
<1>3. n \in Names /\ Append(place, n) \in Places /\ t[Append(place, n)] # Absent
  BY NamesInTree
<1>4. Entry(t, Append(place, n)) \in Entries /\ Entry(t, Append(place, n)) # Absent
  <2>1. Append(place, n) # << >>
    BY <1>3, PlacesAssumption
  <2> QED BY <1>3, <2>1, EntryType DEF Entry
<1>5. LStat(t, Append(path, n)) = Entry(t, Append(place, n))
  <2>1. n \in STRING
    BY <1>3, NamesType
  <2>2. Front(Append(path, n)) = path /\ Last(Append(path, n)) = n
    BY <2>1, FrontOfAppend DEF AllPaths
  <2> QED BY <1>1, <2>2 DEF LStat
<1> QED BY <1>1, <1>2, <1>3, <1>4, <1>5

-----------------------------------------------------------------------------
(* The steps *)

LEMMA Idle ==
  /\ << >> \in AllPaths /\ NoDots(<< >>)
  /\ NoAnswer \in Answers /\ NoAnswer.kind = "none"
  /\ NoCall \in Calls /\ NoCall.walk.at = "walking" /\ NoCall.at = "idle"
  /\ NoCall.walk.done = << >> /\ NoCall.path = << >>
<1>1. PICK root \in AllPaths : root = << >>
  BY EmptySeq DEF AllPaths
<1>2. NoDots(root)
  BY <1>1 DEF NoDots
<1>3. NoAnswer \in Answers /\ NoAnswer.kind = "none"
  <2>1. NoAnswer = [kind |-> "none", place |-> root, entries |-> {}]
    BY <1>1 DEF NoAnswer
  <2> QED BY <2>1 DEF Answers, Kinds
<1>4. PICK w : w = [at |-> "walking", done |-> root, rest |-> root, links |-> 0]
  OBVIOUS
<1>5. w \in Walks /\ w.at = "walking" /\ w.done = root
  BY <1>4, LinksAssumption DEF Walks, States
<1>6. NoCall = [at |-> "idle", segments |-> root, walk |-> w, path |-> root,
                handle |-> root, todo |-> {}, name |-> "none", listed |-> {}]
  BY <1>1, <1>4 DEF NoCall, Walk
<1>7. NoCall \in Calls /\ NoCall.at = "idle" /\ NoCall.walk = w /\ NoCall.path = root
  <2>1. root \in Paths \cup {<< >>} /\ root \in Places \cup {<< >>}
    BY <1>1
  <2> QED BY <1>5, <1>6, <2>1 DEF Calls
<1> QED BY <1>1, <1>2, <1>3, <1>5, <1>7

LEMMA InitInv == Init => IInv
<1> SUFFICES ASSUME Init PROVE IInv
  OBVIOUS
<1>1. tree \in [Places -> Entries] /\ IsTree(tree)
  BY TreesAssumption DEF Init
<1>2. site \in Sites /\ ~site.made /\ NoDots(site.directory)
  BY Idle DEF Init, NoSite, Sites
<1>3. Types
  BY <1>1, <1>2, Idle, EditsAssumption DEF Types, Init
<1>4. NotYet /\ Unanswered /\ StaysInside /\ ListingUnderWay /\ InsideDirectory /\ ListingIsFaithful
  BY <1>2, Idle DEF Init, NotYet, Unanswered, StaysInside, ListingUnderWay, InsideDirectory,
                    ListingIsFaithful
<1> QED BY <1>3, <1>4 DEF IInv

LEMMA NewInv ==
  ASSUME IInv, NEW dir \in Roots, NEW index \in Indexes \cup {"none"}, NEW show \in BOOLEAN,
         New(dir, index, show)
  PROVE  IInv'
<1>1. Types /\ ~site.made /\ call = NoCall /\ answer = NoAnswer
  BY DEF IInv, NotYet, New
<1>2. PICK w : w = Lookup(tree, dir)
  OBVIOUS
<1>3. /\ w.at = "found"
      /\ site' = [made |-> TRUE, directory |-> w.done, index |-> index, show |-> show]
      /\ inside' = NoLinkOut(tree, w.done)
      /\ UNCHANGED <<tree, edits, call, answer, quiet, stable>>
  BY <1>2 DEF New
<1>4. w.done \in Places \cup {<< >>} /\ NoDots(w.done)
  <2>1. dir \in AllPaths
    BY PathsAssumption DEF AllPaths
  <2> QED BY <1>1, <1>2, <2>1, LookupArrives DEF Types, Arrives
<1>5. site' \in Sites /\ site'.made /\ site'.directory = w.done
  BY <1>3, <1>4 DEF Sites
<1>6. inside' \in BOOLEAN
  BY <1>3 DEF NoLinkOut
<1>7. Types'
  BY <1>1, <1>3, <1>4, <1>5, <1>6 DEF Types
<1>8. StaysInside'
  BY <1>1, <1>3, <1>5, Idle DEF StaysInside
<1>9. (NotYet /\ Unanswered /\ ListingUnderWay /\ InsideDirectory /\ ListingIsFaithful)'
  BY <1>1, <1>3, <1>5, Idle DEF NotYet, Unanswered, ListingUnderWay, InsideDirectory,
                                ListingIsFaithful
<1> QED BY <1>7, <1>8, <1>9 DEF IInv

LEMMA CallInv ==
  ASSUME IInv, NEW segments \in Paths, Call(segments) PROVE IInv'
<1>1. /\ Types /\ site.made /\ call.at = "idle" /\ answer = NoAnswer
      /\ UNCHANGED <<tree, edits, site, inside>> /\ stable' = {} /\ quiet' = TRUE
      /\ inside => NoLinkOut(tree, site.directory)
  BY DEF IInv, Call, StaysInside
<1>2. site.directory \in AllPaths /\ NoDots(site.directory)
  BY <1>1, NamesType, Idle DEF Types, Sites
<1>3. RealPath(segments) \in AllPaths /\ NoDots(RealPath(segments))
  BY PathsAssumption, RealPathIsClean DEF AllPaths
<1>4. PICK path : path = site.directory \o RealPath(segments)
  OBVIOUS
<1>5. path \in AllPaths /\ IsPrefix(site.directory, path) /\ NoDots(path)
  BY <1>2, <1>3, <1>4, ConcatProperties, PrefixOfConcat, NoDotsProperties DEF AllPaths
<1>6. PICK w : w = Walk(path)
  OBVIOUS
<1>7. /\ w \in Walks /\ w.at = "walking" /\ NoDots(w.done) /\ LeadsInto(site.directory, w)
  <2>1. PICK root \in AllPaths : root = << >>
    BY Idle
  <2>2. w = [at |-> "walking", done |-> root, rest |-> path, links |-> 0]
    BY <1>6, <2>1 DEF Walk
  <2>3. w \in Walks /\ w.at = "walking" /\ w.done = root /\ w.rest = path
    BY <1>5, <2>2, LinksAssumption DEF Walks, States
  <2>4. root \o path = path
    BY <1>5, <2>1, ConcatEmptySeq DEF AllPaths
  <2> QED BY <1>5, <2>1, <2>3, <2>4, Idle DEF LeadsInto
<1>8. /\ call' \in Calls /\ call'.walk.at = "walking" /\ NoDots(call'.walk.done)
      /\ NoDots(call'.path)
      /\ call'.at = "canonicalize" => call'.walk = w
      /\ call'.at \in {"idle", "canonicalize"}
      /\ answer' \in Answers /\ answer'.kind \in {"none", "BadSegment"}
      /\ call'.at # "idle" => answer' = NoAnswer
  <2>1. CASE Refused(segments)
    <3>1. answer' = Error("BadSegment") /\ call' = [NoCall EXCEPT !.segments = segments]
      BY <2>1 DEF Call
    <3>2. answer' \in Answers /\ answer'.kind = "BadSegment"
      BY <3>1, Idle DEF Error, Answers, Kinds
    <3>3. call' \in Calls /\ call'.at = "idle" /\ call'.walk = NoCall.walk /\ call'.path = NoCall.path
      BY <3>1, Idle DEF Calls
    <3> QED BY <3>2, <3>3, Idle
  <2>2. CASE ~Refused(segments)
    <3>1. /\ UNCHANGED answer
          /\ call' = [NoCall EXCEPT !.at = "canonicalize", !.segments = segments, !.walk = w]
      BY <1>4, <1>6, <2>2 DEF Call
    <3>2. /\ call' \in Calls /\ call'.at = "canonicalize" /\ call'.walk = w
          /\ call'.path = NoCall.path
      BY <1>7, <3>1, Idle DEF Calls
    <3> QED BY <1>1, <1>7, <3>1, <3>2, Idle
  <2> QED BY <2>1, <2>2
<1>9. Types'
  BY <1>1, <1>8 DEF Types
<1>10. StaysInside'
  BY <1>1, <1>7, <1>8 DEF StaysInside
<1>11. (NotYet /\ Unanswered /\ ListingUnderWay /\ InsideDirectory /\ ListingIsFaithful)'
  BY <1>1, <1>8 DEF NotYet, Unanswered, ListingUnderWay, InsideDirectory, ListingIsFaithful
<1> QED BY <1>9, <1>10, <1>11 DEF IInv

\* A call ends with an answer that is right about the directory.
LEMMA FinishInv ==
  ASSUME IInv, call.at # "idle", NEW reply \in Answers, Finish(reply),
         UNCHANGED <<tree, edits, site, quiet, stable, inside>>,
         reply.kind \in {"file", "listing"} /\ inside => IsPrefix(site.directory, reply.place),
         reply.kind = "listing" => \A held \in stable : held[1] \notin Dotted =>
                                     Line(held[1], held[2] = Dir) \in reply.entries
  PROVE  IInv'
<1>1. Types /\ answer' = reply /\ call' = [call EXCEPT !.at = "idle"]
  BY DEF IInv, Finish
<1>2. site.made
  BY Idle DEF IInv, NotYet
<1>3. /\ call' \in Calls /\ call'.at = "idle" /\ call'.walk = call.walk
      /\ call'.path = call.path
  BY <1>1 DEF Types, Calls
<1>4. Types'
  BY <1>1, <1>3 DEF Types
<1>5. StaysInside'
  BY <1>3 DEF IInv, StaysInside
<1>6. (NotYet /\ Unanswered /\ ListingUnderWay)'
  BY <1>2, <1>3 DEF NotYet, Unanswered, ListingUnderWay
<1>7. (InsideDirectory /\ ListingIsFaithful)'
  BY <1>1 DEF InsideDirectory, ListingIsFaithful
<1> QED BY <1>4, <1>5, <1>6, <1>7 DEF IInv

\* Answers that are errors are right about it.
LEMMA ErrorInv ==
  ASSUME IInv, call.at # "idle", NEW why \in {"IsDirectory", "NotFound", "Other"},
         Finish(Error(why)), UNCHANGED <<tree, edits, site, quiet, stable, inside>>
  PROVE  IInv'
<1>1. PICK reply : reply = Error(why)
  OBVIOUS
<1>2. reply \in Answers /\ reply.kind = why
  BY <1>1, Idle DEF Error, Answers, Kinds
<1> QED BY <1>1, <1>2, FinishInv

LEMMA CanonicalizeInv ==
  ASSUME IInv, Canonicalize PROVE IInv'
<1>1. /\ Types /\ call.at = "canonicalize" /\ site.made
      /\ UNCHANGED <<tree, edits, site, quiet, stable, inside>>
      /\ answer = NoAnswer
      /\ inside => NoLinkOut(tree, site.directory) /\ LeadsInto(site.directory, call.walk)
  BY Idle DEF IInv, Canonicalize, StaysInside, NotYet, Unanswered
<1>2. site.directory \in AllPaths
  BY <1>1, NamesType, Idle DEF Types, Sites
<1>3. PICK w : w = call.walk
  OBVIOUS
<1>4. w \in Walks /\ w.at = "walking" /\ NoDots(w.done)
  BY <1>1, <1>3 DEF Types, Calls
<1>5. PICK e : e = LStat(tree, Ahead(w))
  OBVIOUS
<1>6. e \in Entries /\ (e.kind = "link" => \E p \in Places : e = tree[p])
  BY <1>1, <1>5, LStatType DEF Types
<1>7. PICK v : v = WalkStep(w, IF w.rest = << >> THEN Absent ELSE e)
  OBVIOUS
<1>8. /\ v \in Walks /\ NoDots(v.done)
      /\ inside => LeadsInto(site.directory, v)
      /\ v.at = "found" => v.rest = << >>
  <2>1. CASE w.rest = << >>
    <3>1. v = [w EXCEPT !.at = "found"]
      BY <1>7, <2>1 DEF WalkStep
    <3>2. v \in Walks /\ v.done = w.done /\ v.rest = w.rest
      BY <1>4, <3>1 DEF Walks, States
    <3> QED BY <1>1, <1>3, <1>4, <2>1, <3>2 DEF LeadsInto
  <2>2. CASE w.rest # << >>
    <3>1. v = Pass(w, e)
      BY <1>7, <2>2 DEF WalkStep
    <3>2. /\ v \in Walks /\ v.at # "found" /\ (NoDots(w.done) => NoDots(v.done))
          /\ \A directory \in AllPaths :
               /\ LeadsInto(directory, w)
               /\ e.kind = "link" => IsPrefix(directory, e.to) /\ NoDots(e.to)
               => LeadsInto(directory, v)
      BY <1>4, <1>6, <2>2, <3>1, PassResult
    <3>3. inside => (e.kind = "link" => IsPrefix(site.directory, e.to) /\ NoDots(e.to))
      BY <1>1, <1>6 DEF NoLinkOut
    <3> QED BY <1>1, <1>2, <1>3, <1>4, <3>2, <3>3
  <2> QED BY <2>1, <2>2
<1>9. CASE v.at = "walking"
  <2>1. call' = [call EXCEPT !.walk = v] /\ UNCHANGED answer
    BY <1>3, <1>5, <1>7, <1>9 DEF Canonicalize
  <2>2. /\ call' \in Calls /\ call'.at = call.at /\ call'.walk = v /\ call'.path = call.path
    BY <1>1, <1>8, <2>1 DEF Types, Calls
  <2>3. Types'
    BY <1>1, <1>8, <1>9, <2>1, <2>2 DEF Types
  <2>4. StaysInside'
    BY <1>1, <1>8, <2>2 DEF StaysInside
  <2>5. (NotYet /\ Unanswered /\ ListingUnderWay /\ InsideDirectory /\ ListingIsFaithful)'
    BY <1>1, <2>1, <2>2, Idle DEF NotYet, Unanswered, ListingUnderWay, InsideDirectory,
                                  ListingIsFaithful
  <2> QED BY <2>3, <2>4, <2>5 DEF IInv
<1>10. CASE v.at = "found"
  <2>1. call' = [call EXCEPT !.at = "is_dir", !.path = v.done] /\ UNCHANGED answer
    BY <1>3, <1>5, <1>7, <1>10 DEF Canonicalize
  <2>2. v.done \in AllPaths
    BY <1>8 DEF Walks
  <2>3. /\ call' \in Calls /\ call'.at = "is_dir" /\ call'.walk = call.walk
        /\ call'.path = v.done
    BY <1>1, <2>1, <2>2 DEF Types, Calls
  <2>4. inside => IsPrefix(site.directory, v.done)
    <3>1. v.rest = << >>
      BY <1>8, <1>10
    <3>2. v.done \o << >> = v.done
      BY <2>2, ConcatEmptySeq DEF AllPaths
    <3> QED BY <1>8, <3>1, <3>2 DEF LeadsInto
  <2>5. Types'
    BY <1>1, <1>8, <2>1, <2>3 DEF Types
  <2>6. StaysInside'
    BY <1>1, <2>3, <2>4 DEF StaysInside
  <2>7. (NotYet /\ Unanswered /\ ListingUnderWay /\ InsideDirectory /\ ListingIsFaithful)'
    BY <1>1, <2>1, <2>3, Idle DEF NotYet, Unanswered, ListingUnderWay, InsideDirectory,
                                  ListingIsFaithful
  <2> QED BY <2>5, <2>6, <2>7 DEF IInv
<1>11. CASE v.at # "walking" /\ v.at # "found"
  <2>1. Finish(Error(v.at))
    BY <1>3, <1>5, <1>7, <1>11 DEF Canonicalize
  <2>2. v.at \in {"NotFound", "Other"}
    BY <1>8, <1>11 DEF Walks, States
  <2> QED BY <1>1, <2>1, <2>2, ErrorInv
<1> QED BY <1>9, <1>10, <1>11

LEMMA IsDirInv ==
  ASSUME IInv, IsDir PROVE IInv'
<1>1. /\ Types /\ call.at = "is_dir" /\ site.made
      /\ UNCHANGED <<tree, edits, site, quiet, stable, inside>>
      /\ answer = NoAnswer
      /\ inside => NoLinkOut(tree, site.directory) /\ IsPrefix(site.directory, call.path)
  BY Idle DEF IInv, IsDir, StaysInside, NotYet, Unanswered
<1>2. site.directory \in AllPaths /\ call.path \in AllPaths /\ NoDots(call.path)
  BY <1>1, NamesType, Idle DEF Types, Sites, Calls
<1>3. PICK next : next = AfterIsDir(Stat(tree, call.path) = Dir)
  OBVIOUS
<1>4. /\ next \in {"open", "index", "read_dir", "IsDirectory"}
      /\ next = "index" => site.index \in Indexes
  BY <1>1, <1>3 DEF AfterIsDir, Types, Sites
<1>5. CASE next = "IsDirectory"
  <2>1. Finish(Error("IsDirectory"))
    BY <1>3, <1>5 DEF IsDir
  <2> QED BY <1>1, <2>1, ErrorInv
<1>6. CASE next # "IsDirectory"
  <2>1. PICK path : path = IF next = "index" THEN Append(call.path, site.index) ELSE call.path
    OBVIOUS
  <2>2. /\ path \in AllPaths /\ NoDots(path)
        /\ IsPrefix(site.directory, call.path) => IsPrefix(site.directory, path)
    <3>1. CASE next = "index"
      <4>1. site.index \in STRING \ {".."}
        BY <1>4, <3>1, PathsAssumption
      <4>2. path = Append(call.path, site.index) /\ path = call.path \o <<site.index>>
        BY <1>2, <2>1, <3>1, <4>1, AppendIsConcat DEF AllPaths
      <4>3. path \in AllPaths
        BY <1>2, <4>1, <4>2, AppendProperties DEF AllPaths
      <4>4. NoDots(path)
        BY <1>2, <4>1, <4>2, NoDotsProperties
      <4>5. <<site.index>> \in Seq(STRING)
        BY <4>1
      <4> QED BY <1>2, <4>2, <4>3, <4>4, <4>5, PrefixGrows DEF AllPaths
    <3>2. CASE next # "index"
      BY <1>2, <2>1, <3>2
    <3> QED BY <3>1, <3>2
  <2>3. PICK at \in {"open", "read_dir"} :
          call' = [call EXCEPT !.at = at, !.path = path] /\ UNCHANGED answer
    <3>1. CASE next = "index"
      BY <1>3, <2>1, <3>1 DEF IsDir
    <3>2. CASE next # "index"
      BY <1>3, <1>4, <1>6, <2>1, <3>2 DEF IsDir
    <3> QED BY <3>1, <3>2
  <2>4. /\ call' \in Calls /\ call'.at = at /\ call'.walk = call.walk /\ call'.path = path
    BY <1>1, <2>2, <2>3 DEF Types, Calls
  <2>5. Types'
    BY <1>1, <2>2, <2>3, <2>4 DEF Types
  <2>6. StaysInside'
    BY <1>1, <2>2, <2>4 DEF StaysInside
  <2>7. (NotYet /\ Unanswered /\ ListingUnderWay /\ InsideDirectory /\ ListingIsFaithful)'
    BY <1>1, <2>3, <2>4, Idle DEF NotYet, Unanswered, ListingUnderWay, InsideDirectory,
                                  ListingIsFaithful
  <2> QED BY <2>5, <2>6, <2>7 DEF IInv
<1> QED BY <1>5, <1>6

LEMMA OpenInv ==
  ASSUME IInv, Open PROVE IInv'
<1>1. /\ Types /\ call.at = "open" /\ site.made
      /\ UNCHANGED <<tree, edits, site, quiet, stable, inside>>
      /\ inside => NoLinkOut(tree, site.directory) /\ IsPrefix(site.directory, call.path)
  BY Idle DEF IInv, Open, StaysInside, NotYet
<1>2. /\ site.directory \in AllPaths /\ call.path \in AllPaths /\ NoDots(call.path)
      /\ tree \in [Places -> Entries] /\ IsTree(tree)
  BY <1>1, NamesType, Idle DEF Types, Sites, Calls
<1>3. PICK w : w = Lookup(tree, call.path)
  OBVIOUS
<1>4. /\ Arrives(tree, w) /\ w.at # "walking" /\ (inside => LeadsInto(site.directory, w))
  BY <1>1, <1>2, <1>3, LookupArrives
<1>5. w \in Walks /\ w.at \in States
  BY <1>4 DEF Arrives, Walks
<1>6. CASE w.at = "found"
  <2>1. PICK reply : reply = Served(w.done)
    OBVIOUS
  <2>2. reply \in Answers /\ reply.kind = "file" /\ reply.place = w.done
    BY <1>5, <2>1, Idle DEF Served, Answers, Kinds, Walks
  <2>3. inside => IsPrefix(site.directory, w.done)
    <3>1. w.rest = << >> /\ w.done \in AllPaths
      BY <1>4, <1>6 DEF Arrives, Walks
    <3>2. w.done \o << >> = w.done
      BY <3>1, ConcatEmptySeq DEF AllPaths
    <3> QED BY <1>4, <3>1, <3>2 DEF LeadsInto
  <2>4. Finish(reply)
    BY <1>3, <1>6, <2>1 DEF Open
  <2> QED BY <1>1, <2>2, <2>3, <2>4, FinishInv
<1>7. CASE w.at # "found"
  <2>1. Finish(Error(w.at))
    BY <1>3, <1>7 DEF Open
  <2>2. w.at \in {"NotFound", "Other"}
    BY <1>4, <1>5, <1>7 DEF States
  <2> QED BY <1>1, <2>1, <2>2, ErrorInv
<1> QED BY <1>6, <1>7

LEMMA ReadDirInv ==
  ASSUME IInv, ReadDir PROVE IInv'
<1>1. /\ Types /\ call.at = "read_dir" /\ site.made /\ answer = NoAnswer
      /\ UNCHANGED <<tree, edits, site, quiet, inside>>
      /\ inside => NoLinkOut(tree, site.directory) /\ IsPrefix(site.directory, call.path)
  BY Idle DEF IInv, ReadDir, StaysInside, NotYet, Unanswered
<1>2. call.path \in AllPaths /\ tree \in [Places -> Entries] /\ IsTree(tree)
  BY <1>1 DEF Types, Calls
<1>3. PICK w : w = Lookup(tree, call.path)
  OBVIOUS
<1>4. Arrives(tree, w) /\ w.at # "walking"
  BY <1>2, <1>3, LookupArrives
<1>5. w \in Walks /\ w.at \in States /\ w.done \in Places \cup {<< >>}
  BY <1>4 DEF Arrives, Walks
<1>6. CASE w.at = "found" /\ Entry(tree, w.done) = Dir
  <2>1. PICK todo : todo = NamesIn(tree, w.done)
    OBVIOUS
  <2>2. /\ call' = [call EXCEPT !.at = "entry", !.handle = w.done, !.todo = todo]
        /\ stable' = Held(tree, call.path, w.done) /\ UNCHANGED answer
    BY <1>3, <1>6, <2>1 DEF ReadDir
  <2>3. todo \subseteq Names
    BY <2>1, NamesInTree
  <2>4. /\ call' \in Calls /\ call'.at = "entry" /\ call'.walk = call.walk
        /\ call'.path = call.path /\ call'.handle = w.done /\ call'.todo = todo
    BY <1>1, <1>5, <2>2, <2>3 DEF Types, Calls
  <2>5. \A held \in stable' : held \in Names \X Entries /\ held[1] \in todo
    BY <1>2, <2>1, <2>2, HeldProperties
  <2>6. Types'
    BY <1>1, <2>2, <2>4, <2>5 DEF Types
  <2>7. StaysInside'
    BY <1>1, <2>4 DEF StaysInside
  <2>8. ListingUnderWay'
    <3>1. w.done # << >> => tree[w.done] = Dir
      BY <1>5, <1>6 DEF Entry
    <3> QED BY <1>1, <2>2, <2>4, <2>5, <3>1 DEF ListingUnderWay, IsAccounted
  <2>9. (NotYet /\ Unanswered /\ InsideDirectory /\ ListingIsFaithful)'
    BY <1>1, <2>2, <2>4, Idle DEF NotYet, Unanswered, InsideDirectory, ListingIsFaithful
  <2> QED BY <2>6, <2>7, <2>8, <2>9 DEF IInv
<1>7. CASE ~(w.at = "found" /\ Entry(tree, w.done) = Dir)
  <2>1. PICK why : why = IF w.at = "found" THEN "Other" ELSE w.at
    OBVIOUS
  <2>2. Finish(Error(why)) /\ UNCHANGED stable
    BY <1>3, <1>7, <2>1 DEF ReadDir
  <2>3. why \in {"NotFound", "Other"}
    BY <1>4, <1>5, <2>1 DEF States
  <2> QED BY <1>1, <2>2, <2>3, ErrorInv
<1> QED BY <1>6, <1>7

LEMMA NextEntryInv ==
  ASSUME IInv, NEW name \in Names, NextEntry(name) PROVE IInv'
<1>1. /\ Types /\ ListingUnderWay /\ call.at = "entry" /\ site.made /\ answer = NoAnswer
      /\ UNCHANGED <<tree, edits, site, answer, quiet, stable, inside>>
      /\ inside => NoLinkOut(tree, site.directory) /\ IsPrefix(site.directory, call.path)
  BY Idle DEF IInv, NextEntry, StaysInside, NotYet, Unanswered
<1>2. PICK seen : seen = IsVisible(name)
  OBVIOUS
<1>3. call' = [call EXCEPT !.todo = @ \ {name},
                           !.name = IF seen THEN name ELSE "none",
                           !.at   = IF seen THEN "write" ELSE "entry"]
  BY <1>2 DEF NextEntry
<1>4. /\ call' \in Calls /\ call'.walk = call.walk /\ call'.path = call.path
      /\ call'.handle = call.handle /\ call'.todo = call.todo \ {name}
      /\ call'.listed = call.listed
      /\ (seen => call'.at = "write" /\ call'.name = name)
      /\ (~seen => call'.at = "entry")
  BY <1>1, <1>3 DEF Types, Calls
<1>5. Types'
  BY <1>1, <1>4 DEF Types
<1>6. StaysInside'
  BY <1>1, <1>4 DEF StaysInside
<1>7. ListingUnderWay'
  <2>1. ASSUME NEW held \in stable, held[1] \notin Dotted PROVE IsAccounted(held)'
    <3>1. CASE held[1] = name
      <4>1. held[2] # Absent /\ LStat(tree, Append(call.path, held[1])) = held[2]
        BY <1>1, HeldProperties DEF ListingUnderWay, Types, Calls
      <4>2. seen
        BY <1>2, <2>1, <3>1, <4>1 DEF IsVisible
      <4> QED BY <1>4, <3>1, <4>2 DEF IsAccounted
    <3>2. CASE held[1] # name
      <4>1. held[1] \in call.todo \/ Line(held[1], held[2] = Dir) \in call.listed
        BY <1>1, <2>1 DEF ListingUnderWay, IsAccounted
      <4> QED BY <1>4, <3>2, <4>1 DEF IsAccounted
    <3> QED BY <3>1, <3>2
  <2>2. (call.handle # << >> => tree[call.handle] = Dir)
        /\ stable \subseteq Held(tree, call.path, call.handle)
    BY <1>1 DEF ListingUnderWay
  <2> QED BY <1>1, <1>4, <2>1, <2>2 DEF ListingUnderWay
<1>8. (NotYet /\ Unanswered /\ InsideDirectory /\ ListingIsFaithful)'
  BY <1>1, Idle DEF NotYet, Unanswered, InsideDirectory, ListingIsFaithful
<1> QED BY <1>5, <1>6, <1>7, <1>8 DEF IInv

LEMMA WriteEntryInv ==
  ASSUME IInv, WriteEntry PROVE IInv'
<1>1. /\ Types /\ ListingUnderWay /\ call.at = "write" /\ site.made /\ answer = NoAnswer
      /\ UNCHANGED <<tree, edits, site, answer, quiet, stable, inside>>
      /\ inside => NoLinkOut(tree, site.directory) /\ IsPrefix(site.directory, call.path)
  BY Idle DEF IInv, WriteEntry, StaysInside, NotYet, Unanswered
<1>2. PICK e : e = LStat(tree, Append(call.path, call.name))
  OBVIOUS
<1>3. PICK listed : listed = IF e = Absent THEN call.listed
                             ELSE call.listed \cup {Line(call.name, e = Dir)}
  OBVIOUS
<1>4. call' = [call EXCEPT !.at = "entry", !.listed = listed]
  BY <1>1, <1>2, <1>3 DEF WriteEntry, Types, Calls
<1>5. listed \subseteq Lines
  <2>1. call.listed \subseteq Lines /\ call.name \in Names
    BY <1>1 DEF Types, Calls, ListingUnderWay
  <2>2. Line(call.name, e = Dir) \in Lines
    <3>1. (e = Dir) \in BOOLEAN
      OBVIOUS
    <3> QED BY <2>1, <3>1, LineType
  <2> QED BY <1>3, <2>1, <2>2
<1>6. /\ call' \in Calls /\ call'.walk = call.walk /\ call'.path = call.path
      /\ call'.handle = call.handle /\ call'.todo = call.todo /\ call'.at = "entry"
      /\ call'.listed = listed
  BY <1>1, <1>4, <1>5 DEF Types, Calls
<1>7. Types'
  BY <1>1, <1>6 DEF Types
<1>8. StaysInside'
  BY <1>1, <1>6 DEF StaysInside
<1>9. ListingUnderWay'
  <2>1. ASSUME NEW held \in stable, held[1] \notin Dotted PROVE IsAccounted(held)'
    <3>1. CASE held[1] = call.name
      <4>1. held[2] # Absent /\ LStat(tree, Append(call.path, held[1])) = held[2]
        BY <1>1, HeldProperties DEF ListingUnderWay, Types, Calls
      <4>2. Line(held[1], held[2] = Dir) \in listed
        BY <1>2, <1>3, <3>1, <4>1
      <4> QED BY <1>6, <4>2 DEF IsAccounted
    <3>2. CASE held[1] # call.name
      <4>1. held[1] \in call.todo \/ Line(held[1], held[2] = Dir) \in call.listed
        BY <1>1, <2>1, <3>2 DEF ListingUnderWay, IsAccounted
      <4> QED BY <1>3, <1>6, <4>1 DEF IsAccounted
    <3> QED BY <3>1, <3>2
  <2>2. (call.handle # << >> => tree[call.handle] = Dir)
        /\ stable \subseteq Held(tree, call.path, call.handle)
    BY <1>1 DEF ListingUnderWay
  <2> QED BY <1>1, <1>6, <2>1, <2>2 DEF ListingUnderWay
<1>10. (NotYet /\ Unanswered /\ InsideDirectory /\ ListingIsFaithful)'
  BY <1>1, Idle DEF NotYet, Unanswered, InsideDirectory, ListingIsFaithful
<1> QED BY <1>7, <1>8, <1>9, <1>10 DEF IInv

LEMMA EndListingInv ==
  ASSUME IInv, EndListing PROVE IInv'
<1>1. /\ Types /\ ListingUnderWay /\ call.at = "entry" /\ site.made
      /\ UNCHANGED <<tree, edits, site, quiet, stable, inside>>
      /\ \A held \in stable : held[1] \notin call.todo
      /\ Finish(Listing(call.path, call.listed))
      /\ inside => IsPrefix(site.directory, call.path)
  BY Idle DEF IInv, EndListing, StaysInside, NotYet
<1>2. PICK reply : reply = Listing(call.path, call.listed)
  OBVIOUS
<1>3. /\ reply \in Answers /\ reply.kind = "listing" /\ reply.place = call.path
      /\ reply.entries = call.listed
  BY <1>1, <1>2 DEF Listing, Answers, Kinds, Types, Calls
<1>4. \A held \in stable : held[1] \notin Dotted =>
        Line(held[1], held[2] = Dir) \in reply.entries
  BY <1>1, <1>3 DEF ListingUnderWay, IsAccounted
<1> QED BY <1>1, <1>2, <1>3, <1>4, FinishInv

LEMMA ReplyInv ==
  ASSUME IInv, Reply PROVE IInv'
<1>1. /\ Types /\ site.made /\ call' = NoCall /\ answer' = NoAnswer /\ stable' = {}
      /\ quiet' = TRUE /\ UNCHANGED <<tree, edits, site, inside>>
      /\ inside => NoLinkOut(tree, site.directory)
  BY DEF IInv, Reply, NotYet, StaysInside
<1>2. Types'
  BY <1>1, Idle DEF Types
<1>3. (NotYet /\ Unanswered /\ StaysInside /\ ListingUnderWay /\ InsideDirectory
       /\ ListingIsFaithful)'
  BY <1>1, Idle DEF NotYet, Unanswered, StaysInside, ListingUnderWay, InsideDirectory,
                    ListingIsFaithful
<1> QED BY <1>2, <1>3 DEF IInv

\* A change leaves a tree: it makes an entry in a directory, and takes a
\* directory away only when nothing is in it.
LEMMA EditIsTree ==
  ASSUME NEW t \in [Places -> Entries], IsTree(t), NEW place \in Places, NEW e \in Entries,
         Entry(t, Parent(place)) = Dir,
         t[place] = Dir => e = Absent /\ Children(t, place) = {}
  PROVE  LET u == [t EXCEPT ![place] = e] IN u \in [Places -> Entries] /\ IsTree(u)
<1>1. PICK u : u = [t EXCEPT ![place] = e]
  OBVIOUS
<1>2. /\ u \in [Places -> Entries] /\ u[place] = e
      /\ \A p \in Places \ {place} : u[p] = t[p]
  BY <1>1
<1>3. \A q : q # place => Entry(u, q) = Entry(t, q)
  BY <1>2 DEF Entry
<1>4. ASSUME NEW p \in Places, u[p] # Absent PROVE Entry(u, Parent(p)) = Dir
  <2>1. p # << >> /\ Parent(p) = Front(p) /\ Parent(p) # p
    <3>1. p \in Seq(STRING) /\ p # << >>
      BY PlacesAssumption
    <3>2. Front(p) \in Seq(STRING) /\ Last(p) \in STRING /\ p = Append(Front(p), Last(p))
      BY <3>1, FrontAndLast
    <3>3. Len(p) = Len(Front(p)) + 1 /\ Len(Front(p)) \in Nat
      BY <3>2, AppendProperties, LenProperties
    <3>4. Front(p) # p
      BY <3>3
    <3> QED BY <3>1, <3>4 DEF Parent
  <2>2. CASE p = place
    BY <1>3, <2>1, <2>2
  <2>3. CASE p # place
    <3>1. t[p] # Absent /\ Entry(t, Parent(p)) = Dir
      BY <1>2, <1>4, <2>3 DEF IsTree
    <3>2. Parent(p) # place
      <4>1. SUFFICES ASSUME Parent(p) = place PROVE FALSE
        OBVIOUS
      <4>2. place # << >> /\ t[place] = Dir
        BY <3>1, <4>1, PlacesAssumption DEF Entry
      <4>3. p \in Children(t, place)
        BY <2>1, <3>1, <4>1 DEF Children
      <4> QED BY <4>2, <4>3
    <3> QED BY <1>3, <3>1, <3>2
  <2> QED BY <2>2, <2>3
<1>5. IsTree(u)
  BY <1>4 DEF IsTree
<1> QED BY <1>1, <1>2, <1>5

LEMMA EditInv ==
  ASSUME IInv, NEW place \in Places, NEW e \in Entries, Edit(place, e) PROVE IInv'
<1>1. /\ Types /\ StaysInside /\ ListingUnderWay /\ call.at # "idle" /\ site.made
      /\ answer = NoAnswer /\ UNCHANGED <<site, answer>>
      /\ edits < MaxEdits /\ edits' = edits + 1 /\ quiet' = FALSE
      /\ inside' = (inside /\ NoLinkOut(tree', site.directory))
      /\ stable' = stable \cap Held(tree', call.path, call.handle)
      /\ Entry(tree, Parent(place)) = Dir /\ e # tree[place]
      /\ tree[place] = Dir => e = Absent /\ Children(tree, place) = {}
      /\ tree' = [tree EXCEPT ![place] = e]
  BY Idle DEF IInv, Edit, NotYet, Unanswered
<1>2. tree \in [Places -> Entries] /\ IsTree(tree)
  BY <1>1 DEF Types
<1>3. /\ tree' \in [Places -> Entries] /\ IsTree(tree') /\ tree'[place] = e
      /\ \A p \in Places \ {place} : tree'[p] = tree[p]
  <2>1. tree' \in [Places -> Entries] /\ IsTree(tree')
    BY <1>1, <1>2, EditIsTree
  <2> QED BY <1>1, <1>2, <2>1
<1>4. PICK handle : handle = IF place = call.handle THEN << >> ELSE call.handle
  OBVIOUS
<1>5. PICK todo : /\ call' = [call EXCEPT !.handle = handle, !.todo = todo]
                  /\ call.todo \subseteq todo /\ todo \subseteq call.todo \cup {Last(place)}
  <2> DEFINE comes == call.at \in {"entry", "write"} /\ Parent(place) = call.handle
                        /\ tree[place] = Absent
             todo == IF comes THEN call.todo \cup {Last(place)} ELSE call.todo
  <2>1. call' = [call EXCEPT !.handle = handle, !.todo = todo]
    BY <1>1, <1>4 DEF Edit, Types, Calls
  <2>2. call.todo \subseteq todo /\ todo \subseteq call.todo \cup {Last(place)}
    OBVIOUS
  <2> QED BY <2>1, <2>2
<1>6. /\ call' \in Calls /\ call'.at = call.at /\ call'.walk = call.walk
      /\ call'.path = call.path /\ call'.handle = handle /\ call'.todo = todo
      /\ call'.name = call.name /\ call'.listed = call.listed
  <2>1. todo \subseteq Names
    BY <1>1, <1>5, NamesType DEF Types, Calls
  <2>2. handle \in Places \cup {<< >>}
    BY <1>1, <1>4 DEF Types, Calls
  <2> QED BY <1>1, <1>5, <2>1, <2>2 DEF Types, Calls
<1>7. Types'
  <2>1. edits' \in 0..MaxEdits
    BY <1>1, EditsAssumption DEF Types
  <2>2. inside' \in BOOLEAN /\ quiet' \in BOOLEAN
    BY <1>1, Zenon DEF Types, NoLinkOut
  <2> QED BY <1>1, <1>3, <1>6, <2>1, <2>2 DEF Types
<1>8. StaysInside'
  BY <1>1, <1>6 DEF StaysInside
<1>9. ListingUnderWay'
  <2>1. SUFFICES ASSUME call.at \in {"entry", "write"}
                 PROVE  /\ handle # << >> => tree'[handle] = Dir
                        /\ stable' \subseteq Held(tree', call.path, handle)
                        /\ \A held \in stable' : held[1] \notin Dotted => IsAccounted(held)'
    BY <1>1, <1>6 DEF ListingUnderWay
  <2>2. call.path \in AllPaths /\ call.handle \in Places \cup {<< >>}
    BY <1>1 DEF Types, Calls
  <2>3. ASSUME place = call.handle
        PROVE  /\ handle # << >> => tree'[handle] = Dir
               /\ stable' \subseteq Held(tree', call.path, handle)
    <3>1. tree[place] = Dir
      BY <1>1, <2>1, <2>3, PlacesAssumption DEF ListingUnderWay
    <3>2. tree'[place] = Absent /\ place # << >>
      BY <1>1, <1>3, <3>1, PlacesAssumption
    <3>3. Entry(tree', place) = Absent
      BY <3>2 DEF Entry
    <3>4. Lookup(tree', call.path).done # place
      <4>1. PICK w : w = Lookup(tree', call.path)
        OBVIOUS
      <4>2. Arrives(tree', w)
        BY <1>3, <2>2, <4>1, LookupArrives
      <4> QED BY <3>3, <4>1, <4>2 DEF Arrives
    <3>5. Held(tree', call.path, call.handle) = {}
      BY <2>3, <3>4 DEF Held
    <3> QED BY <1>1, <1>4, <2>3, <3>5
  <2>4. ASSUME place # call.handle
        PROVE  /\ handle # << >> => tree'[handle] = Dir
               /\ stable' \subseteq Held(tree', call.path, handle)
    <3>1. handle = call.handle
      BY <1>4, <2>4
    <3>2. handle # << >> => tree'[handle] = Dir
      BY <1>1, <1>3, <2>1, <2>2, <2>4, <3>1 DEF ListingUnderWay
    <3> QED BY <1>1, <3>1, <3>2
  <2>5. ASSUME NEW held \in stable', held[1] \notin Dotted PROVE IsAccounted(held)'
    <3>1. held \in stable
      BY <1>1
    <3>2. IsAccounted(held)
      BY <1>1, <2>1, <2>5, <3>1 DEF ListingUnderWay
    <3> QED BY <1>5, <1>6, <3>2 DEF IsAccounted
  <2> QED BY <2>3, <2>4, <2>5
<1>10. (NotYet /\ Unanswered /\ InsideDirectory /\ ListingIsFaithful)'
  BY <1>1, Idle DEF NotYet, Unanswered, InsideDirectory, ListingIsFaithful
<1> QED BY <1>7, <1>8, <1>9, <1>10 DEF IInv

-----------------------------------------------------------------------------
(* The invariant *)

LEMMA NextInv == IInv /\ [Next]_vars => IInv'
<1> SUFFICES ASSUME IInv, [Next]_vars PROVE IInv'
  OBVIOUS
<1>1. CASE \E dir \in Roots, index \in Indexes \cup {"none"}, show \in BOOLEAN :
             New(dir, index, show)
  BY <1>1, NewInv
<1>2. CASE \E segments \in Paths : Call(segments)
  BY <1>2, CallInv
<1>3. CASE Canonicalize
  BY <1>3, CanonicalizeInv
<1>4. CASE IsDir
  BY <1>4, IsDirInv
<1>5. CASE Open
  BY <1>5, OpenInv
<1>6. CASE ReadDir
  BY <1>6, ReadDirInv
<1>7. CASE \E name \in Names : NextEntry(name)
  BY <1>7, NextEntryInv
<1>8. CASE WriteEntry
  BY <1>8, WriteEntryInv
<1>9. CASE EndListing
  BY <1>9, EndListingInv
<1>10. CASE Reply
  BY <1>10, ReplyInv
<1>11. CASE \E place \in Places, e \in Entries : Edit(place, e)
  BY <1>11, EditInv
<1>12. CASE UNCHANGED vars
  BY <1>12 DEF vars, IInv, Types, NotYet, Unanswered, StaysInside, ListingUnderWay,
               IsAccounted, InsideDirectory, ListingIsFaithful
<1> QED BY <1>1, <1>2, <1>3, <1>4, <1>5, <1>6, <1>7, <1>8, <1>9, <1>10, <1>11, <1>12 DEF Next

LEMMA Invariant == Spec => []IInv
BY InitInv, NextInv, PTL DEF Spec

-----------------------------------------------------------------------------
(* The steps of a call nobody disturbs *)

\* What is expected depends on the tree, the site and the request alone.
LEMMA ExpectedStays ==
  ASSUME UNCHANGED <<tree, site>>, call'.segments = call.segments
  PROVE  /\ Expected(tree, call.segments)' = Expected(tree, call.segments)
         /\ Asked' = Asked
<1>1. tree' = tree /\ site' = site
  OBVIOUS
<1>2. Asked' = Asked
  BY <1>1 DEF Asked
<1>3. Expected(tree, call.segments)' = Expected(tree, call.segments)
  BY <1>1 DEF Expected
<1> QED BY <1>2, <1>3

LEMMA FinishUndisturbed ==
  ASSUME IInv, call.at # "idle", NEW reply, Finish(reply),
         UNCHANGED <<tree, edits, site, quiet, stable, inside>>,
         quiet => reply = Expected(tree, call.segments)
  PROVE  Undisturbed'
<1>1. call' = [call EXCEPT !.at = "idle"] /\ answer' = reply /\ quiet' = quiet
  BY DEF Finish
<1>2. call'.at = "idle" /\ call'.segments = call.segments
  BY <1>1 DEF IInv, Types, Calls
<1>3. quiet => AnswerIsExpected'
  BY <1>1, <1>2, ExpectedStays DEF AnswerIsExpected
<1>4. Found' /\ Read'
  BY <1>2 DEF Found, Read
<1> QED BY <1>1, <1>3, <1>4 DEF Undisturbed

LEMMA InitUndisturbed == Init => Undisturbed
BY Idle DEF Init, Undisturbed, AnswerIsExpected, Found, Read

LEMMA CallUndisturbed ==
  ASSUME IInv, NEW segments \in Paths, Call(segments)
  PROVE  Undisturbed'
<1>1. Types /\ answer = NoAnswer /\ UNCHANGED <<tree, site>> /\ quiet' = TRUE
  BY DEF IInv, Call
<1>2. CASE Refused(segments)
  <2>1. answer' = Error("BadSegment") /\ call' = [NoCall EXCEPT !.segments = segments]
    BY <1>2 DEF Call
  <2>2. call'.at = "idle" /\ call'.segments = segments
    BY <2>1 DEF NoCall
  <2>3. AnswerIsExpected'
    BY <1>2, <2>1, <2>2 DEF AnswerIsExpected, Expected
  <2>4. Found' /\ Read'
    BY <2>2 DEF Found, Read
  <2> QED BY <2>3, <2>4 DEF Undisturbed
<1>3. CASE ~Refused(segments)
  <2>1. PICK path : path = site.directory \o RealPath(segments)
    OBVIOUS
  <2>2. path \in AllPaths
    <3>1. site.directory \in AllPaths
      BY <1>1, NamesType, Idle DEF Types, Sites
    <3>2. RealPath(segments) \in AllPaths
      BY PathsAssumption, RealPathIsClean DEF AllPaths
    <3> QED BY <2>1, <3>1, <3>2, ConcatProperties DEF AllPaths
  <2>3. PICK w : w = Walk(path)
    OBVIOUS
  <2>4. /\ UNCHANGED answer
        /\ call' = [NoCall EXCEPT !.at = "canonicalize", !.segments = segments, !.walk = w]
    BY <1>3, <2>1, <2>3 DEF Call
  <2>5. /\ call'.at = "canonicalize" /\ call'.segments = segments /\ call'.walk = w
        /\ call'.listed = {}
    BY <2>4 DEF NoCall
  <2>6. Arrives(tree, w) /\ Stands(tree, w)
    BY <1>1, <2>2, <2>3, LookupStands DEF Types
  <2>7. Asked' = Arrival(tree, w)
    BY <1>1, <2>1, <2>3, <2>5 DEF Asked, Lookup
  <2>8. Found'
    BY <1>1, <1>3, <2>5, <2>6, <2>7 DEF Found
  <2>9. AnswerIsExpected' /\ Read'
    BY <1>1, <2>4, <2>5 DEF AnswerIsExpected, Read
  <2> QED BY <2>8, <2>9 DEF Undisturbed
<1> QED BY <1>2, <1>3

LEMMA CanonicalizeUndisturbed ==
  ASSUME IInv, Undisturbed, Canonicalize, quiet
  PROVE  Undisturbed'
<1>1. /\ Types /\ Found /\ call.at = "canonicalize" /\ answer = NoAnswer
      /\ UNCHANGED <<tree, edits, site, quiet, stable, inside>>
  BY DEF IInv, Undisturbed, Canonicalize, Unanswered
<1>2. PICK w : w = call.walk
  OBVIOUS
<1>3. /\ Arrives(tree, w) /\ Stands(tree, w) /\ Arrival(tree, w) = Asked
      /\ w \in Walks /\ w.at = "walking" /\ ~Refused(call.segments) /\ call.listed = {}
      /\ tree \in [Places -> Entries] /\ IsTree(tree)
  BY <1>1, <1>2 DEF Found, Types, Calls
<1>4. w.rest # << >> => LStat(tree, Ahead(w)) = Entry(tree, Ahead(w))
  <2>1. Entry(tree, w.done) \in {Dir, File}
    BY <1>3 DEF Stands
  <2>2. SUFFICES ASSUME w.rest # << >> PROVE LStat(tree, Ahead(w)) = Entry(tree, Ahead(w))
    OBVIOUS
  <2>3. PICK n \in STRING : n = Head(w.rest)
    BY <1>3, <2>2, AheadType
  <2>4. PICK p \in AllPaths : p = w.done
    BY <1>3 DEF Walks
  <2>5. Entry(tree, p) \in {Dir, File}
    BY <2>1, <2>4
  <2>6. LStat(tree, Append(p, n)) = Entry(tree, Append(p, n))
    BY <1>3, <2>5, MetadataBehind
  <2> QED BY <2>3, <2>4, <2>6 DEF Ahead
<1>5. PICK v : v = Step(tree, w)
  OBVIOUS
<1>6. v = WalkStep(w, IF w.rest = << >> THEN Absent ELSE LStat(tree, Ahead(w)))
  BY <1>3, <1>4, <1>5 DEF Step
<1>7. v \in Walks /\ Arrives(tree, v) /\ Stands(tree, v) /\ Arrival(tree, v) = Asked
  <2>1. v = WalkStep(w, IF w.rest = << >> THEN Absent ELSE Entry(tree, Ahead(w)))
    BY <1>3, <1>5 DEF Step
  <2>2. Arrives(tree, v)
    BY <1>3, <2>1, StepArrives
  <2> QED BY <1>3, <1>5, <2>2, StepStands, ArrivalOfStep DEF Arrives
<1>8. CASE v.at = "walking"
  <2>1. call' = [call EXCEPT !.walk = v] /\ UNCHANGED answer
    BY <1>2, <1>6, <1>8 DEF Canonicalize
  <2>2. /\ call'.at = call.at /\ call'.walk = v /\ call'.segments = call.segments
        /\ call'.listed = call.listed
    BY <1>1, <2>1 DEF Types, Calls
  <2>3. Found'
    BY <1>1, <1>3, <1>7, <2>2, ExpectedStays DEF Found
  <2>4. AnswerIsExpected' /\ Read'
    BY <1>1, <2>1, <2>2 DEF AnswerIsExpected, Read
  <2> QED BY <2>3, <2>4 DEF Undisturbed
<1>9. v.at # "walking" => Asked = v
  BY <1>3, <1>7, ArrivalOver
<1>10. CASE v.at = "found"
  <2>1. call' = [call EXCEPT !.at = "is_dir", !.path = v.done] /\ UNCHANGED answer
    BY <1>2, <1>6, <1>10 DEF Canonicalize
  <2>2. /\ call'.at = "is_dir" /\ call'.path = v.done /\ call'.segments = call.segments
        /\ call'.listed = call.listed
    BY <1>1, <2>1 DEF Types, Calls
  <2>3. Asked' = v /\ Entry(tree, v.done) \in {Dir, File}
    BY <1>1, <1>7, <1>9, <1>10, <2>2, ExpectedStays DEF Stands
  <2>4. Found'
    BY <1>1, <1>3, <1>10, <2>2, <2>3 DEF Found
  <2>5. AnswerIsExpected' /\ Read'
    BY <1>1, <2>1, <2>2 DEF AnswerIsExpected, Read
  <2> QED BY <2>4, <2>5 DEF Undisturbed
<1>11. CASE v.at # "walking" /\ v.at # "found"
  <2>1. PICK reply : reply = Error(v.at)
    OBVIOUS
  <2>2. Finish(reply)
    BY <1>2, <1>6, <1>11, <2>1 DEF Canonicalize
  <2>3. reply = Expected(tree, call.segments)
    BY <1>3, <1>9, <1>11, <2>1 DEF Expected, Opened, Asked
  <2> QED BY <1>1, <2>2, <2>3, FinishUndisturbed
<1> QED BY <1>8, <1>10, <1>11

\* What an answer should be for a path that leads somewhere.
LEMMA ExpectedAtPlace ==
  ASSUME ~Refused(call.segments), Asked.at = "found", NEW p, Asked.done = p,
         Entry(tree, p) \in {Dir, File}
  PROVE  Expected(tree, call.segments) =
           IF Entry(tree, p) = File THEN Served(p)
           ELSE IF site.index # "none" THEN Opened(tree, Append(p, site.index))
           ELSE IF ~site.show THEN Error("IsDirectory")
           ELSE Listing(p, {Line(n, Entry(tree, Append(p, n)) = Dir) :
                              n \in {m \in NamesIn(tree, p) : m \notin Dotted}})
<1>1. PICK e : e = Expected(tree, call.segments)
  OBVIOUS
<1>2. CASE Entry(tree, p) = File
  BY <1>2 DEF Expected, Opened, Asked
<1>3. CASE Entry(tree, p) # File
  BY <1>3 DEF Expected, Asked
<1> QED BY <1>2, <1>3

LEMMA IsDirUndisturbed ==
  ASSUME IInv, Undisturbed, IsDir, quiet
  PROVE  Undisturbed'
<1>1. /\ Types /\ Found /\ call.at = "is_dir" /\ answer = NoAnswer
      /\ UNCHANGED <<tree, edits, site, quiet, stable, inside>>
  BY DEF IInv, Undisturbed, IsDir, Unanswered
<1>2. PICK p : p = call.path
  OBVIOUS
<1>3. /\ Asked.at = "found" /\ Asked.done = p /\ Entry(tree, p) \in {Dir, File}
      /\ ~Refused(call.segments) /\ call.listed = {}
      /\ tree \in [Places -> Entries] /\ IsTree(tree)
  BY <1>1, <1>2 DEF Found, Types
<1>4. Stat(tree, p) = Entry(tree, p) /\ Lookup(tree, p).at = "found" /\ Lookup(tree, p).done = p
  BY <1>3, MetadataOfPlace, PlaceIsFound
<1>5. PICK next : next = AfterIsDir(Entry(tree, p) = Dir)
  OBVIOUS
<1>6. /\ next = "IsDirectory" => Finish(Error(next))
      /\ next # "IsDirectory" =>
           /\ call' = [call EXCEPT !.at = IF next = "index" THEN "open" ELSE next,
                                   !.path = IF next = "index" THEN Append(@, site.index) ELSE @]
           /\ UNCHANGED answer
  BY <1>2, <1>4, <1>5 DEF IsDir
<1>7. File # Dir
  BY DEF File, Dir
<1>8. ASSUME NEW at \in {"open", "read_dir"}, NEW path,
             call' = [call EXCEPT !.at = at, !.path = path], UNCHANGED answer,
             at = "open" => Opened(tree, path) = Expected(tree, call.segments),
             at = "read_dir" => /\ path = p /\ Entry(tree, p) = Dir
                                /\ site.index = "none" /\ site.show
      PROVE  Undisturbed'
  <2>1. /\ call'.at = at /\ call'.path = path /\ call'.segments = call.segments
        /\ call'.listed = call.listed
    BY <1>1, <1>8 DEF Types, Calls
  <2>2. /\ Asked' = Asked
        /\ Expected(tree, call.segments)' = Expected(tree, call.segments)
    BY <1>1, <2>1, ExpectedStays
  <2>3. Opened(tree, call.path)' = Opened(tree, path)
    BY <1>1, <2>1 DEF Opened
  <2>4. Found'
    BY <1>1, <1>3, <1>8, <2>1, <2>2, <2>3 DEF Found
  <2>5. AnswerIsExpected' /\ Read'
    BY <1>1, <1>8, <2>1 DEF AnswerIsExpected, Read
  <2> QED BY <2>4, <2>5 DEF Undisturbed
<1>9. CASE Entry(tree, p) = File
  <2>1. next = "open"
    BY <1>5, <1>7, <1>9 DEF AfterIsDir
  <2>2. call' = [call EXCEPT !.at = "open", !.path = p] /\ UNCHANGED answer
    BY <1>2, <1>6, <2>1
  <2>3. Opened(tree, p) = Served(p)
    BY <1>4 DEF Opened
  <2>4. Expected(tree, call.segments) = Served(p)
    BY <1>3, <1>9, ExpectedAtPlace
  <2> QED BY <1>8, <2>2, <2>3, <2>4
<1>10. CASE Entry(tree, p) = Dir /\ site.index # "none"
  <2>1. next = "index"
    BY <1>5, <1>10 DEF AfterIsDir
  <2>2. PICK path : path = Append(p, site.index)
    OBVIOUS
  <2>3. call' = [call EXCEPT !.at = "open", !.path = path] /\ UNCHANGED answer
    BY <1>2, <1>6, <2>1, <2>2
  <2>4. Expected(tree, call.segments) = Opened(tree, path)
    BY <1>3, <1>7, <1>10, <2>2, ExpectedAtPlace
  <2> QED BY <1>8, <2>3, <2>4
<1>11. CASE Entry(tree, p) = Dir /\ site.index = "none" /\ site.show
  <2>1. next = "read_dir"
    BY <1>5, <1>11 DEF AfterIsDir
  <2>2. call' = [call EXCEPT !.at = "read_dir", !.path = p] /\ UNCHANGED answer
    BY <1>2, <1>6, <2>1
  <2> QED BY <1>8, <1>11, <2>2
<1>12. CASE Entry(tree, p) = Dir /\ site.index = "none" /\ ~site.show
  <2>1. next = "IsDirectory"
    BY <1>5, <1>12 DEF AfterIsDir
  <2>2. PICK reply : reply = Error("IsDirectory")
    OBVIOUS
  <2>3. Finish(reply)
    BY <1>6, <2>1, <2>2
  <2>4. reply = Expected(tree, call.segments)
    BY <1>3, <1>7, <1>12, <2>2, ExpectedAtPlace
  <2> QED BY <1>1, <2>3, <2>4, FinishUndisturbed
<1> QED BY <1>3, <1>9, <1>10, <1>11, <1>12

LEMMA OpenUndisturbed ==
  ASSUME IInv, Undisturbed, Open, quiet
  PROVE  Undisturbed'
<1>1. /\ Found /\ call.at = "open"
      /\ UNCHANGED <<tree, edits, site, quiet, stable, inside>>
  BY DEF Undisturbed, Open
<1>2. PICK reply : reply = Opened(tree, call.path)
  OBVIOUS
<1>3. Finish(reply)
  BY <1>2 DEF Open, Opened
<1>4. reply = Expected(tree, call.segments)
  BY <1>1, <1>2 DEF Found
<1> QED BY <1>1, <1>3, <1>4, FinishUndisturbed

\* What every step of a listing starts from.
LEMMA ListingQuiet ==
  ASSUME IInv, Undisturbed, quiet, call.at \in {"read_dir", "entry", "write"}
  PROVE  /\ Types /\ Found /\ Read /\ answer = NoAnswer
         /\ tree \in [Places -> Entries] /\ IsTree(tree)
         /\ Asked.at = "found" /\ Asked.done = call.path /\ Entry(tree, call.path) = Dir
         /\ ~Refused(call.segments) /\ site.index = "none" /\ site.show
         /\ Lookup(tree, call.path).at = "found" /\ Lookup(tree, call.path).done = call.path
         /\ \A n \in NamesIn(tree, call.path) :
              /\ LStat(tree, Append(call.path, n)) = Entry(tree, Append(call.path, n))
              /\ Entry(tree, Append(call.path, n)) # Absent
<1>1. /\ Types /\ Found /\ Read /\ answer = NoAnswer /\ ~Refused(call.segments)
      /\ tree \in [Places -> Entries] /\ IsTree(tree)
  BY DEF IInv, Undisturbed, Unanswered, Found, Types
<1>2. PICK p : p = call.path
  OBVIOUS
<1>3. /\ Asked.at = "found" /\ Asked.done = p /\ Entry(tree, p) = Dir
      /\ site.index = "none" /\ site.show
  BY <1>1, <1>2 DEF Found
<1>4. Lookup(tree, p).at = "found" /\ Lookup(tree, p).done = p
  BY <1>1, <1>3, PlaceIsFound
<1>5. ASSUME NEW n \in NamesIn(tree, p)
      PROVE  LStat(tree, Append(p, n)) = Entry(tree, Append(p, n)) /\ Entry(tree, Append(p, n)) # Absent
  <2>1. n \in STRING /\ Append(p, n) \in Places /\ tree[Append(p, n)] # Absent
    BY NamesInTree, NamesType
  <2>2. Append(p, n) # << >>
    BY <2>1, PlacesAssumption
  <2>3. p \in AllPaths /\ Entry(tree, p) \in {Dir, File}
    BY <1>1, <1>2, <1>3 DEF Types, Calls
  <2>4. LStat(tree, Append(p, n)) = Entry(tree, Append(p, n))
    BY <1>1, <2>1, <2>3, MetadataBehind
  <2> QED BY <2>1, <2>2, <2>4 DEF Entry
<1> QED BY <1>1, <1>2, <1>3, <1>4, <1>5

\* A step of a listing keeps what the call has found out.
LEMMA ListingFound ==
  ASSUME IInv, Undisturbed, quiet, call.at \in {"read_dir", "entry", "write"},
         UNCHANGED <<tree, site, answer>>, call'.at \in {"entry", "write"},
         call'.segments = call.segments, call'.path = call.path
  PROVE  Found' /\ AnswerIsExpected'
<1>1. Asked' = Asked
  BY ExpectedStays
<1>2. Found'
  BY <1>1, ListingQuiet DEF Found
<1>3. AnswerIsExpected'
  BY ListingQuiet DEF AnswerIsExpected
<1> QED BY <1>2, <1>3

LEMMA ReadDirUndisturbed ==
  ASSUME IInv, Undisturbed, ReadDir, quiet
  PROVE  Undisturbed'
<1>1. /\ Types /\ call.at = "read_dir" /\ UNCHANGED <<tree, edits, site, quiet, inside>>
      /\ call.listed = {}
  BY DEF IInv, Undisturbed, Found, ReadDir
<1>2. PICK p : p = call.path
  OBVIOUS
<1>3. Lookup(tree, p).at = "found" /\ Lookup(tree, p).done = p /\ Entry(tree, p) = Dir
  BY <1>1, <1>2, ListingQuiet
<1>4. PICK todo : todo = NamesIn(tree, p)
  OBVIOUS
<1>5. /\ call' = [call EXCEPT !.at = "entry", !.handle = p, !.todo = todo]
      /\ stable' = Held(tree, p, p) /\ UNCHANGED answer
  BY <1>2, <1>3, <1>4 DEF ReadDir
<1>6. /\ call'.at = "entry" /\ call'.todo = todo /\ call'.path = p /\ call'.listed = {}
      /\ call'.segments = call.segments
  BY <1>1, <1>2, <1>5 DEF Types, Calls
<1>7. Found' /\ AnswerIsExpected'
  BY <1>1, <1>2, <1>5, <1>6, ListingFound
<1>8. Read'
  <2>1. todo \ (todo \cup {}) = {}
    OBVIOUS
  <2>2. Shown(todo \ (todo \cup {}))' = {}
    BY <2>1 DEF Shown
  <2> QED BY <1>1, <1>4, <1>5, <1>6, <2>2 DEF Read
<1> QED BY <1>7, <1>8 DEF Undisturbed

LEMMA NextEntryUndisturbed ==
  ASSUME IInv, Undisturbed, NEW name \in Names, NextEntry(name), quiet
  PROVE  Undisturbed'
<1>1. /\ Types /\ Read /\ call.at = "entry" /\ name \in call.todo
      /\ UNCHANGED <<tree, edits, site, answer, quiet, stable, inside>>
  BY DEF IInv, Undisturbed, NextEntry
<1>2. PICK all : all = NamesIn(tree, call.path)
  OBVIOUS
<1>3. /\ call.todo \subseteq all /\ stable = Held(tree, call.path, call.path)
      /\ call.listed = Shown(all \ call.todo)
  BY <1>1, <1>2 DEF Read
<1>4. IsVisible(name) <=> name \notin Dotted
  BY <1>1, <1>2, <1>3, ListingQuiet DEF IsVisible
<1>5. /\ call'.todo = call.todo \ {name} /\ call'.path = call.path
      /\ call'.listed = call.listed /\ call'.segments = call.segments
      /\ name \notin Dotted => call'.at = "write" /\ call'.name = name
      /\ name \in Dotted => call'.at = "entry"
  BY <1>1, <1>4 DEF NextEntry, Types, Calls
<1>6. Found' /\ AnswerIsExpected'
  BY <1>1, <1>5, ListingFound
<1>7. \A names : Shown(names)' = Shown(names)
  BY <1>1, <1>5 DEF Shown
<1>8. NamesIn(tree, call.path)' = all
  BY <1>1, <1>2, <1>5
<1>9. CASE name \notin Dotted
  <2>1. all \ (call'.todo \cup {name}) = all \ call.todo
    BY <1>1, <1>5
  <2> QED BY <1>1, <1>3, <1>5, <1>6, <1>7, <1>8, <1>9, <2>1 DEF Read, Undisturbed
<1>10. CASE name \in Dotted
  <2>1. Shown(all \ (call'.todo \cup {})) = Shown(all \ call.todo)
    <3>1. {m \in all \ (call'.todo \cup {}) : m \notin Dotted} = {m \in all \ call.todo : m \notin Dotted}
      BY <1>1, <1>5, <1>10
    <3> QED BY <3>1 DEF Shown
  <2> QED BY <1>1, <1>3, <1>5, <1>6, <1>7, <1>8, <1>10, <2>1 DEF Read, Undisturbed
<1> QED BY <1>9, <1>10

LEMMA WriteEntryUndisturbed ==
  ASSUME IInv, Undisturbed, WriteEntry, quiet
  PROVE  Undisturbed'
<1>1. /\ Types /\ Read /\ call.at = "write"
      /\ UNCHANGED <<tree, edits, site, answer, quiet, stable, inside>>
  BY DEF IInv, Undisturbed, WriteEntry
<1>2. PICK all, name : all = NamesIn(tree, call.path) /\ name = call.name
  OBVIOUS
<1>3. /\ call.todo \subseteq all /\ stable = Held(tree, call.path, call.path)
      /\ name \in all \ call.todo /\ name \notin Dotted
      /\ call.listed = Shown(all \ (call.todo \cup {name}))
  BY <1>1, <1>2 DEF Read
<1>4. PICK e : e = Entry(tree, Append(call.path, name))
  OBVIOUS
<1>5. LStat(tree, Append(call.path, name)) = e /\ e # Absent
  BY <1>1, <1>2, <1>3, <1>4, ListingQuiet
<1>6. call' = [call EXCEPT !.at = "entry", !.listed = @ \cup {Line(name, e = Dir)}]
  BY <1>2, <1>5 DEF WriteEntry
<1>7. /\ call'.at = "entry" /\ call'.todo = call.todo /\ call'.path = call.path
      /\ call'.segments = call.segments
      /\ call'.listed = call.listed \cup {Line(name, e = Dir)}
  BY <1>1, <1>6 DEF Types, Calls
<1>8. Found' /\ AnswerIsExpected'
  BY <1>1, <1>7, ListingFound
<1>9. \A names : Shown(names)' = Shown(names)
  BY <1>1, <1>7 DEF Shown
<1>10. NamesIn(tree, call.path)' = all
  BY <1>1, <1>2, <1>7
<1>11. Shown(all \ (call.todo \cup {})) = Shown(all \ (call.todo \cup {name})) \cup {Line(name, e = Dir)}
  <2>1. {m \in all \ (call.todo \cup {}) : m \notin Dotted}
          = {m \in all \ (call.todo \cup {name}) : m \notin Dotted} \cup {name}
    BY <1>3
  <2>2. \A S : {Line(n, Entry(tree, Append(call.path, n)) = Dir) : n \in S \cup {name}}
                 = {Line(n, Entry(tree, Append(call.path, n)) = Dir) : n \in S} \cup {Line(name, e = Dir)}
    BY <1>4
  <2> QED BY <2>1, <2>2 DEF Shown
<1> QED BY <1>1, <1>3, <1>7, <1>8, <1>9, <1>10, <1>11 DEF Read, Undisturbed

LEMMA EndListingUndisturbed ==
  ASSUME IInv, Undisturbed, EndListing, quiet
  PROVE  Undisturbed'
<1>1. /\ Types /\ Read /\ call.at = "entry" /\ \A held \in stable : held[1] \notin call.todo
      /\ UNCHANGED <<tree, edits, site, quiet, stable, inside>>
      /\ Finish(Listing(call.path, call.listed))
  BY DEF IInv, Undisturbed, EndListing
<1>2. PICK p, all : p = call.path /\ all = NamesIn(tree, p)
  OBVIOUS
<1>3. call.todo \subseteq all /\ stable = Held(tree, p, p) /\ call.listed = Shown(all \ call.todo)
  BY <1>1, <1>2 DEF Read
<1>4. /\ Asked.at = "found" /\ Asked.done = p /\ Entry(tree, p) = Dir /\ ~Refused(call.segments)
      /\ site.index = "none" /\ site.show
      /\ Lookup(tree, p).at = "found" /\ Lookup(tree, p).done = p
  BY <1>1, <1>2, ListingQuiet
<1>5. call.todo = {}
  <2>1. stable = {<<n, Entry(tree, Append(p, n))>> : n \in all}
    BY <1>2, <1>3, <1>4 DEF Held
  <2>2. \A n \in all : <<n, Entry(tree, Append(p, n))>> \in stable
    BY <2>1
  <2>3. \A n \in all : n \notin call.todo
    BY <1>1, <2>2
  <2> QED BY <1>3, <2>3
<1>6. PICK reply : reply = Listing(p, call.listed)
  OBVIOUS
<1>7. all \ call.todo = all /\ File # Dir
  BY <1>5 DEF File, Dir
<1>8. reply = Expected(tree, call.segments)
  BY <1>2, <1>3, <1>4, <1>6, <1>7, ExpectedAtPlace DEF Shown
<1> QED BY <1>1, <1>2, <1>6, <1>8, FinishUndisturbed

LEMMA NextUndisturbed == IInv /\ Undisturbed /\ [Next]_vars => Undisturbed'
<1> SUFFICES ASSUME IInv, Undisturbed, [Next]_vars PROVE Undisturbed'
  OBVIOUS
<1>1. CASE \E dir \in Roots, index \in Indexes \cup {"none"}, show \in BOOLEAN :
             New(dir, index, show)
  <2>1. call' = NoCall /\ answer' = NoAnswer
    BY <1>1 DEF IInv, NotYet, New
  <2> QED BY <2>1, Idle DEF Undisturbed, AnswerIsExpected, Found, Read
<1>2. CASE \E segments \in Paths : Call(segments)
  BY <1>2, CallUndisturbed
<1>3. CASE Reply
  BY <1>3, Idle DEF Reply, Undisturbed, AnswerIsExpected, Found, Read
<1>4. CASE \E place \in Places, e \in Entries : Edit(place, e)
  BY <1>4 DEF Edit, Undisturbed
<1>5. CASE UNCHANGED vars
  <2>1. Expected(tree, call.segments)' = Expected(tree, call.segments) /\ Asked' = Asked
    BY <1>5, ExpectedStays DEF vars
  <2>2. AnswerIsExpected => AnswerIsExpected'
    BY <1>5, <2>1 DEF vars, AnswerIsExpected
  <2>3. Found => Found'
    BY <1>5, <2>1 DEF vars, Found
  <2>4. Read => Read'
    BY <1>5 DEF vars, Read, Shown
  <2> QED BY <1>5, <2>2, <2>3, <2>4 DEF vars, Undisturbed
<1>6. CASE Canonicalize \/ IsDir \/ Open \/ ReadDir \/ (\E name \in Names : NextEntry(name))
             \/ WriteEntry \/ EndListing
  <2>1. quiet' = quiet
    BY <1>6 DEF Canonicalize, IsDir, Open, ReadDir, NextEntry, WriteEntry, EndListing
  <2>2. CASE ~quiet
    BY <2>1, <2>2 DEF Undisturbed
  <2>3. CASE quiet
    BY <1>6, <2>3, CanonicalizeUndisturbed, IsDirUndisturbed, OpenUndisturbed,
       ReadDirUndisturbed, NextEntryUndisturbed, WriteEntryUndisturbed, EndListingUndisturbed
  <2> QED BY <2>2, <2>3 DEF IInv, Types
<1> QED BY <1>1, <1>2, <1>3, <1>4, <1>5, <1>6 DEF Next

LEMMA InvariantUndisturbed == Spec => []Undisturbed
BY InitUndisturbed, NextUndisturbed, Invariant, PTL DEF Spec

-----------------------------------------------------------------------------
(* The links of a listing *)

\* The place a name of a directory stands for has a name that is in no way odd
\* to a lookup.
LEMMA NamesOfPlaces ==
  ASSUME NEW place, NEW t, NEW n \in NamesIn(t, place)
  PROVE  n \in STRING /\ n \notin {"", ".."}
<1>1. PICK p \in Places : p = Append(Front(p), n) /\ Front(p) \in AllPaths /\ n \in STRING
  <2>1. PICK p \in Places : n = Last(p)
    BY DEF NamesIn, Children
  <2> QED BY <2>1, NamesType, FrontAndLast DEF AllPaths
<1>2. PICK f \in Seq(STRING) : f = Front(p)
  BY <1>1 DEF AllPaths
<1>3. p[Len(f) + 1] = n /\ Len(f) + 1 \in DOMAIN p
  <2>1. p = Append(f, n) /\ n \in STRING
    BY <1>1, <1>2
  <2>2. p[Len(f) + 1] = n /\ DOMAIN p = 1..(Len(f) + 1) /\ Len(f) \in Nat
    BY <2>1, WithName
  <2> QED BY <2>2
<1> QED BY <1>1, <1>3, PlacesAssumption

\* An answer that is a listing, given by a tree at rest, is that of the place
\* the request leads to.
LEMMA ListingExpected ==
  ASSUME Types, answer = Expected(tree, call.segments), answer.kind = "listing"
  PROVE  /\ Asked.at = "found" /\ Asked.done = answer.place /\ Entry(tree, answer.place) = Dir
         /\ ~Refused(call.segments) /\ site.index = "none" /\ site.show
         /\ answer.entries = {Line(n, Entry(tree, Append(answer.place, n)) = Dir) :
                                n \in {m \in NamesIn(tree, answer.place) : m \notin Dotted}}
<1>1. \A why : Error(why).kind = why /\ (\A path : Served(path).kind = "file")
  BY DEF Error, Served, NoAnswer
<1>2. tree \in [Places -> Entries] /\ IsTree(tree)
  BY DEF Types
<1>3. ~Refused(call.segments)
  BY <1>1 DEF Expected
<1>4. ASSUME NEW path \in AllPaths PROVE Opened(tree, path).kind # "listing"
  <2>1. PICK w : w = Lookup(tree, path)
    OBVIOUS
  <2>2. w.at \in States
    BY <1>2, <1>4, <2>1, LookupArrives DEF Arrives, Walks
  <2> QED BY <1>1, <2>1, <2>2 DEF Opened, States
<1>5. PICK path \in AllPaths : path = site.directory \o RealPath(call.segments)
  <2>1. site.directory \in AllPaths
    BY NamesType, Idle DEF Types, Sites
  <2>2. RealPath(call.segments) \in AllPaths
    <3>1. call.segments \in AllPaths
      BY PathsAssumption, Idle DEF Types, Calls, AllPaths
    <3> QED BY <3>1, RealPathIsClean
  <2> QED BY <2>1, <2>2, ConcatProperties DEF AllPaths
<1>6. PICK w : w = Asked /\ w = Lookup(tree, path)
  BY <1>5 DEF Asked
<1>7. w.at = "found" /\ Entry(tree, w.done) # File
  BY <1>3, <1>4, <1>5, <1>6 DEF Expected, Asked
<1>8. Entry(tree, w.done) = Dir /\ w.done \in AllPaths
  <2>1. Stands(tree, w) /\ Arrives(tree, w)
    BY <1>2, <1>5, <1>6, LookupStands, LookupArrives
  <2> QED BY <1>7, <2>1 DEF Stands, Arrives, Walks
<1>9. answer = IF site.index # "none" THEN Opened(tree, Append(w.done, site.index))
               ELSE IF ~site.show THEN Error("IsDirectory")
               ELSE Listing(w.done, {Line(n, Entry(tree, Append(w.done, n)) = Dir) :
                                      n \in {m \in NamesIn(tree, w.done) : m \notin Dotted}})
  BY <1>3, <1>6, <1>7, <1>8, ExpectedAtPlace
<1>10. site.index = "none"
  <2>1. SUFFICES ASSUME site.index # "none" PROVE FALSE
    OBVIOUS
  <2>2. site.index \in STRING
    BY <2>1, PathsAssumption DEF Types, Sites
  <2>3. Append(w.done, site.index) \in AllPaths
    BY <1>8, <2>2, AppendProperties DEF AllPaths
  <2> QED BY <1>4, <1>9, <2>1, <2>3
<1>11. site.show
  BY <1>1, <1>9, <1>10
<1> QED BY <1>3, <1>6, <1>7, <1>8, <1>9, <1>10, <1>11 DEF Listing

LEMMA ListedServed ==
  ASSUME IInv, AnswerIsExpected PROVE ListedIsServed
<1>1. SUFFICES ASSUME answer.kind = "listing", quiet, NEW line \in answer.entries,
                      line.name \notin Odd, line.link = line.name,
                      Entry(tree, Append(answer.place, line.name)).kind \in {"file", "dir"}
               PROVE  LET place == Append(answer.place, line.name)
                          reply == Expected(tree, Append(call.segments, line.name)) IN
                      /\ reply.kind = (IF line.is_dir THEN "listing" ELSE "file")
                      /\ reply.place = place
  BY DEF ListedIsServed, LeadsBack
<1>2. Types /\ answer = Expected(tree, call.segments) /\ tree \in [Places -> Entries] /\ IsTree(tree)
  <2>1. answer # NoAnswer
    BY <1>1, Idle
  <2> QED BY <1>1, <2>1 DEF IInv, AnswerIsExpected, Types
<1>3. PICK D : D = answer.place
  OBVIOUS
<1>4. /\ Asked.at = "found" /\ Asked.done = D /\ Entry(tree, D) = Dir
      /\ ~Refused(call.segments) /\ site.index = "none" /\ site.show
      /\ answer.entries = {Line(n, Entry(tree, Append(D, n)) = Dir) :
                             n \in {m \in NamesIn(tree, D) : m \notin Dotted}}
  BY <1>1, <1>2, <1>3, ListingExpected
<1>5. PICK n \in NamesIn(tree, D) :
        n \notin Dotted /\ line.name = n /\ line.is_dir = (Entry(tree, Append(D, n)) = Dir)
  BY <1>1, <1>4 DEF Line
<1>6. n \in STRING /\ n \notin {"", ".."} /\ n \notin Odd
  BY <1>1, <1>5, NamesOfPlaces
<1>7. PICK place : place = Append(D, n)
  OBVIOUS
<1>8. Entry(tree, place) \in {Dir, File}
  <2>1. PICK entry \in Entries : entry = Entry(tree, place)
    BY <1>2, EntryType
  <2>2. entry.kind \in {"file", "dir"}
    BY <1>1, <1>3, <1>5, <1>7, <2>1
  <2>3. entry \in {Dir, File}
    BY <2>2 DEF Entries, Absent, LinkTo
  <2> QED BY <2>1, <2>3
<1>9. PICK segments \in Seq(STRING) : segments = call.segments
  BY <1>2, PathsAssumption, Idle DEF Types, Calls, AllPaths
<1>10. PICK more : more = Append(segments, n)
  OBVIOUS
<1>11. ~Refused(more)
  <2>1. n \in STRING /\ segments \in Seq(STRING) /\ more = Append(segments, n)
    BY <1>6, <1>9, <1>10
  <2>2. /\ DOMAIN segments = 1..Len(segments) /\ Len(segments) \in Nat
        /\ DOMAIN more = 1..(Len(segments) + 1)
    BY <2>1, WithName
  <2>3. \A k \in 1..Len(segments) : more[k] = segments[k]
    BY <2>1, WithName
  <2>4. more[Len(segments) + 1] = n
    BY <2>1, WithName
  <2>5. \A k \in DOMAIN more : k \in DOMAIN segments \/ k = Len(segments) + 1
    BY <2>2
  <2>6. \A k \in DOMAIN segments : segments[k] \notin Dotted \cup Odd
    BY <1>4, <1>9 DEF Refused
  <2>7. \A k \in DOMAIN more : more[k] \notin Dotted \cup Odd
    BY <1>5, <1>6, <2>2, <2>3, <2>4, <2>5, <2>6
  <2> QED BY <2>7 DEF Refused
<1>12. PICK path \in AllPaths : path = site.directory \o RealPath(segments)
  <2>1. site.directory \in AllPaths
    BY <1>2, NamesType, Idle DEF Types, Sites
  <2>2. RealPath(segments) \in AllPaths
    BY <1>9, RealPathIsClean DEF AllPaths
  <2> QED BY <2>1, <2>2, ConcatProperties DEF AllPaths
<1>13. site.directory \o RealPath(more) = Append(path, n)
  <2>1. PICK directory \in Seq(STRING) : directory = site.directory
    BY <1>2, NamesType, Idle DEF Types, Sites, AllPaths
  <2>2. PICK real \in Seq(STRING) : real = RealPath(segments)
    BY <1>9, RealPathIsClean DEF AllPaths
  <2>3. RealPath(more) = Append(real, n)
    <3>1. RealPath(more) = Pushed(real, n)
      BY <1>6, <1>9, <1>10, <2>2, RealPathOfMore DEF AllPaths
    <3> QED BY <1>6, <3>1 DEF Pushed
  <2>4. directory \o Append(real, n) = Append(directory \o real, n)
    <3>1. n \in STRING /\ real \in Seq(STRING) /\ directory \in Seq(STRING)
      BY <1>6, <2>1, <2>2
    <3> QED BY <3>1, AppendAfter
  <2> QED BY <1>12, <2>1, <2>2, <2>3, <2>4
<1>14. Lookup(tree, path).at = "found" /\ Lookup(tree, path).done = D
  BY <1>4, <1>9, <1>12 DEF Asked
<1>15. Lookup(tree, Append(path, n)).at = "found" /\ Lookup(tree, Append(path, n)).done = place
  <2>1. D \in AllPaths /\ n \in STRING /\ n # ".."
    BY <1>2, <1>3, <1>6 DEF Types, Answers
  <2>2. Entry(tree, Append(D, n)) \in {Dir, File} /\ Entry(tree, D) = Dir
    BY <1>4, <1>7, <1>8
  <2>3. tree \in [Places -> Entries] /\ IsTree(tree) /\ path \in AllPaths
    BY <1>2, <1>12
  <2>4. LET w == Lookup(tree, Append(path, n)) IN w.at = "found" /\ w.done = Append(D, n)
    BY <1>14, <2>1, <2>2, <2>3, ExtendedWalk
  <2> QED BY <1>7, <2>4
<1>16. PICK reply : reply = Expected(tree, more)
  OBVIOUS
<1>17. CASE Entry(tree, place) = File
  <2>1. reply = Served(place)
    BY <1>11, <1>13, <1>15, <1>16, <1>17 DEF Expected, Opened
  <2>2. reply.kind = "file" /\ reply.place = place
    BY <2>1 DEF Served, NoAnswer
  <2>3. ~line.is_dir
    <3>1. Entry(tree, Append(D, n)) # Dir
      BY <1>7, <1>17 DEF File, Dir
    <3> QED BY <1>5, <3>1
  <2> QED BY <1>3, <1>5, <1>7, <1>9, <1>10, <1>16, <2>2, <2>3
<1>18. CASE Entry(tree, place) = Dir
  <2>1. Entry(tree, place) # File
    BY <1>18 DEF File, Dir
  <2>2. PICK entries : reply = Listing(place, entries)
    BY <1>4, <1>11, <1>13, <1>15, <1>16, <2>1 DEF Expected
  <2>3. reply.kind = "listing" /\ reply.place = place
    BY <2>2 DEF Listing
  <2>4. line.is_dir
    BY <1>5, <1>7, <1>18
  <2> QED BY <1>3, <1>5, <1>7, <1>9, <1>10, <1>16, <2>3, <2>4
<1> QED BY <1>8, <1>17, <1>18

-----------------------------------------------------------------------------
(* The theorems *)

LEMMA TypesGiveTypeOK == IInv => TypeOK
<1> SUFFICES ASSUME IInv PROVE TypeOK
  OBVIOUS
<1>1. Types /\ ListingUnderWay
  BY DEF IInv
<1>2. /\ call.at \in {"idle", "canonicalize", "is_dir", "open", "read_dir", "entry", "write"}
      /\ call.segments \in Paths \cup {<< >>} /\ call.walk \in Walks
      /\ call.path \in Seq(STRING) /\ NoDots(call.path)
      /\ call.handle \in Places \cup {<< >>}
      /\ call.todo \subseteq Names /\ call.name \in Names \cup {"none"}
      /\ call.listed \subseteq Lines
  BY <1>1 DEF Types, Calls, AllPaths
<1>3. call.walk.at = "walking" /\ call.walk.done \in Seq(STRING) /\ call.walk.rest \in Seq(STRING)
  BY <1>1, <1>2 DEF Types, Walks, AllPaths
<1>4. NoDots(RealPath(call.segments))
  <2>1. call.segments \in AllPaths
    BY <1>2, Idle, PathsAssumption DEF AllPaths
  <2> QED BY <2>1, RealPathIsClean
<1> QED BY <1>1, <1>2, <1>3, <1>4 DEF TypeOK, Types, Sites, Answers, Kinds

\* Every variable has its type in every state, for any names, trees, links
\* and requests.  Two parts say more than that: what PathBuf::from_request
\* makes of any segments has no ".." left, and neither has the path a call
\* goes on with once it is canonicalised, whatever links it went through.
THEOREM TypeCorrect == Spec => []TypeOK
BY Invariant, TypesGiveTypeOK, PTL

\* Nothing is served but what lies in the directory StaticFiles was made for,
\* as long as no link has led out of it since: for any request, with any
\* number of changes between the checks of a call and its use of the path.
THEOREM NothingOutsideIsServed == Spec => []InsideDirectory
<1>1. IInv => InsideDirectory
  BY DEF IInv
<1> QED BY <1>1, Invariant, PTL

\* A listing made while others change the directory has every visible entry
\* that was there from the first system call of the listing to the last, and
\* tells whether it is a directory.
THEOREM ListingsAreFaithful == Spec => []ListingIsFaithful
<1>1. IInv => ListingIsFaithful
  BY DEF IInv
<1> QED BY <1>1, Invariant, PTL

\* While nobody changes the tree, the dozens of system calls a request takes
\* come to the answer one look at the tree would have given: the walk over
\* links and "..", is_dir, the index file, the listing entry by entry.  It is
\* so in any tree, with links through links, for any path.
THEOREM AnswersAreExpected == Spec => []AnswerIsExpected
<1>1. Undisturbed /\ IInv => AnswerIsExpected
  BY DEF Undisturbed, AnswerIsExpected
<1> QED BY <1>1, Invariant, InvariantUndisturbed, PTL

\* Whoever follows a link of a listing is given the file, or the listing of the
\* directory, the line is about, if the name is none PathBuf::from_request
\* refuses and comes through encode_file_url! unchanged: in any tree, whatever
\* links and ".." the path of the listing went through.
THEOREM ListedIsAlwaysServed == Spec => []ListedIsServed
<1>1. IInv /\ AnswerIsExpected => ListedIsServed
  BY ListedServed
<1> QED BY <1>1, Invariant, AnswersAreExpected, PTL
=============================================================================
