------------------------------ MODULE NamedFile ------------------------------
(***************************************************************************)
(* A file on disk, and one client that fetches it, resumes broken          *)
(* downloads and revalidates its copy (fs.rs, NamedFile).                  *)
(*                                                                         *)
(* A request is answered from the metadata taken when the file was opened; *)
(* the body is read from the open file later, while the file may be        *)
(* replaced or written in place.  The client keeps the validators of the   *)
(* response its copy began with and sends them with later requests.        *)
(*                                                                         *)
(* The disk goes through versions; a byte of the client's copy is the      *)
(* number of the version it was read from.  How a body is read in chunks   *)
(* is the matter of ChunkedReadFile: here it comes byte by byte.           *)
(***************************************************************************)
EXTENDS HttpRange

CONSTANTS
  MaxSize,     \* bound on the length of the file
  MinTime,     \* bounds on modification times, in clock ticks since the epoch
  MaxTime,
  MaxVersions, \* bound on the versions of the file
  Second,      \* clock ticks in a second
  U64,         \* 2^64 in the code: number of values of a u64
  Headers,     \* values of the Range header the client sends
  Conditions,  \* the conditional headers it sends with a request
  Configs      \* StaticFileConfig, set_status_code and the build

ASSUME BoundsAssumption ==
  /\ MaxSize \in Nat /\ Second \in Nat \ {0}
  /\ MaxVersions \in Nat
  /\ MinTime \in Int /\ MaxTime \in Int /\ MinTime <= MaxTime
  /\ U64 \in Nat /\ U64 > MaxSize

Methods == {"GET", "HEAD"}

\* If-Match, If-None-Match: "none", "any" or the client's own tag.
\* If-Unmodified-Since, If-Modified-Since: whether the client sends its date.
AllConditions ==
  [ifMatch : {"none", "any", "own"}, ifNoneMatch : {"none", "any", "own"},
   ifUnmodifiedSince : BOOLEAN, ifModifiedSince : BOOLEAN]

\* checks: whether integer overflow panics, as in a debug build.
AllConfigs ==
  [etag : BOOLEAN, lastModified : BOOLEAN, methods : SUBSET Methods, status : Nat,
   checks : BOOLEAN]

ASSUME HeadersAssumption == Headers \subseteq AllHeaders
ASSUME ConditionsAssumption == Conditions \subseteq AllConditions
ASSUME ConfigsAssumption == Configs \subseteq AllConfigs

VARIABLES
  config,    \* of the service
  versions,  \* of the file: a sequence of [size, mtime], the last is on disk
  asked,     \* the last request
  reply,     \* the response to it
  reads,     \* the version its reader finds in the open file
  sent,      \* bytes of its body sent so far
  known,     \* the version whose validators the client keeps, 0 if none
  copy       \* the client's bytes: versions, 0 where it has none

vars == <<config, versions, asked, reply, reads, sent, known, copy>>

Current == Len(versions)
NoCopy == [p \in 0..(MaxSize - 1) |-> 0]
Held == {copy[p] : p \in DOMAIN copy} \ {0}

\* NoRange: no header; Unreadable: one that is not text.
NoCondition == [ifMatch |-> "none", ifNoneMatch |-> "none",
                ifUnmodifiedSince |-> FALSE, ifModifiedSince |-> FALSE]
NoRange    == [form |-> "absent", elements |-> << >>]
Unreadable == [form |-> "unreadable", elements |-> << >>]

Requests ==
  {q \in [method : Methods, range : Headers \cup {NoRange, Unreadable}, cond : Conditions] :
     /\ q.cond.ifMatch = "own" \/ q.cond.ifNoneMatch = "own" => known # 0 /\ config.etag
     /\ q.cond.ifUnmodifiedSince \/ q.cond.ifModifiedSince =>
          known # 0 /\ config.lastModified}

-----------------------------------------------------------------------------
(* Validators *)

\* The time in an ETag is counted from the epoch, and expected to be after it.
HasEtag(v) == versions[v].mtime >= 0

\* Inode, length and modification time to the nanosecond; an inode may be
\* used again and tells nothing.
Etag(v) == <<versions[v].size, versions[v].mtime>>

\* Mutant: the date is cut to seconds before it is compared.
LastModified_Seconds(v) == versions[v].mtime - (versions[v].mtime % Second)

\* HttpDate of the modification time: it keeps the fraction of a second, and
\* is taken to exist before the epoch too (external).
LastModified(v) == versions[v].mtime

\* A date goes over the wire in seconds.
OnWire(time) == time - (time % Second)

AnyMatch(q, v) ==
  \/ q.cond.ifMatch \in {"none", "any"}
  \/ q.cond.ifMatch = "own" /\ config.etag /\ Etag(v) = Etag(known)

NoneMatch(q, v) ==
  \/ q.cond.ifNoneMatch = "none"
  \/ q.cond.ifNoneMatch = "own" /\ ~(config.etag /\ Etag(v) = Etag(known))

PreconditionFailed(q, v) ==
  \/ ~AnyMatch(q, v)
  \/ /\ config.lastModified /\ q.cond.ifUnmodifiedSince
     /\ LastModified(v) > OnWire(LastModified(known))

\* If-Modified-Since is looked at only without If-None-Match.
NotModified(q, v) ==
  \/ ~NoneMatch(q, v)
  \/ /\ q.cond.ifNoneMatch = "none"
     /\ config.lastModified /\ q.cond.ifModifiedSince
     /\ LastModified(v) <= OnWire(LastModified(known))

-----------------------------------------------------------------------------
(* NamedFile::respond_to *)

\* last: the last byte of Content-Range, -1 without that header.
\* streams: a ChunkedReadFile is the body.
Answer(status, v, from, n, last, streams) ==
  [status |-> status, of |-> v, start |-> from, length |-> n, last |-> last,
   streams |-> streams]

Whole(status, v, streams) == Answer(status, v, 0, versions[v].size, -1, streams)
Bare(status, v) == Answer(status, v, 0, 0, -1, FALSE)
Panic(v) == Bare(-1, v)

\* Mutant: a part is sent before the conditions are looked at.
Finish_PartFirst(q, v, from, n, last) ==
  IF q.method = "GET" /\ (from # 0 \/ n # versions[v].size)
  THEN Answer(206, v, from, n, last, TRUE)
  ELSE IF PreconditionFailed(q, v) THEN Answer(412, v, from, n, last, FALSE)
  ELSE IF NotModified(q, v) THEN Answer(304, v, from, n, last, FALSE)
  ELSE Answer(200, v, from, n, last, q.method = "GET")

\* The window and its Content-Range are settled; the rest of respond_to.
Finish(q, v, from, n, last) ==
  IF PreconditionFailed(q, v) THEN Answer(412, v, from, n, last, FALSE)
  ELSE IF NotModified(q, v) THEN Answer(304, v, from, n, last, FALSE)
  ELSE IF q.method = "HEAD" THEN Answer(200, v, from, n, last, FALSE)
  ELSE IF from # 0 \/ n # versions[v].size THEN Answer(206, v, from, n, last, TRUE)
  ELSE Answer(200, v, from, n, last, TRUE)

\* Only the first range is used.  `rangesvec[0]` panics on an empty list, and
\* `offset + length - 1` goes below zero for no bytes at offset 0.
WithRanges(q, v, ranges) ==
  IF ranges = << >> THEN Panic(v)
  ELSE LET r == ranges[1] IN
       IF r.start + r.length = 0 /\ config.checks THEN Panic(v)
       ELSE Finish(q, v, r.start, r.length, (r.start + r.length - 1) % U64)

\* The ETag is made at once, the range settled before the conditions are
\* looked at.
RespondTo(q, v) ==
  IF config.status # 200 THEN Whole(config.status, v, TRUE)
  ELSE IF q.method \notin config.methods THEN Bare(405, v)
  ELSE IF config.etag /\ ~HasEtag(v) THEN Panic(v)
  ELSE IF q.range = NoRange THEN Finish(q, v, 0, versions[v].size, -1)
  ELSE IF q.range = Unreadable THEN Bare(400, v)
  ELSE LET parsed == Parse(q.range, versions[v].size) IN
       IF parsed.ok THEN WithRanges(q, v, parsed.ranges) ELSE Bare(416, v)

-----------------------------------------------------------------------------
(* The client, its connection and the disk *)

Streaming == reply.streams /\ sent < reply.length

\* A request for a part under a condition on the client's copy adds to it.
Resumes(q) == q.cond.ifMatch = "own" \/ q.cond.ifUnmodifiedSince

\* The client asks, and takes in the head of the response.
Request(q) ==
  /\ ~Streaming
  /\ asked' = q
  /\ reply' = RespondTo(q, Current)
  /\ reads' = Current
  /\ sent'  = 0
  /\ IF reply'.streams /\ reply'.status \in {200, 206}
        /\ ~(reply'.status = 206 /\ Resumes(q))
     THEN known' = Current /\ copy' = NoCopy
     ELSE UNCHANGED <<known, copy>>
  /\ UNCHANGED <<config, versions>>

\* The next byte of the body, as it is in the open file now.
Receive ==
  /\ Streaming
  /\ LET position == reply.start + sent IN
       /\ position < versions[reads].size
       /\ copy' = IF reply.status \in {200, 206}
                  THEN [copy EXCEPT ![position] = reads] ELSE copy
  /\ sent' = sent + 1
  /\ UNCHANGED <<config, versions, asked, reply, reads, known>>

\* The body ends early: the connection is lost, or the file too short now.
Break ==
  /\ Streaming
  /\ reply' = [reply EXCEPT !.streams = FALSE]
  /\ UNCHANGED <<config, versions, asked, reads, sent, known, copy>>

\* The file is replaced, or written in place, which its readers notice.  The
\* clock of the file system has advanced since the last change.
Edit(size, mtime, inPlace) ==
  /\ Current < MaxVersions
  /\ mtime > versions[Current].mtime
  /\ versions' = Append(versions, [size |-> size, mtime |-> mtime])
  /\ reads' = IF inPlace /\ reads = Current THEN Current + 1 ELSE reads
  /\ UNCHANGED <<config, asked, reply, sent, known, copy>>

Init ==
  /\ config \in Configs
  /\ \E size \in 0..MaxSize, mtime \in MinTime..MaxTime :
       versions = <<[size |-> size, mtime |-> mtime]>>
  /\ asked = [method |-> "GET", range |-> NoRange, cond |-> NoCondition]
  /\ reply = [status |-> 0, of |-> 1, start |-> 0, length |-> 0, last |-> -1,
              streams |-> FALSE]
  /\ reads = 1
  /\ sent  = 0
  /\ known = 0
  /\ copy  = NoCopy

Next ==
  \/ \E q \in Requests : Request(q)
  \/ Receive
  \/ Break
  \/ \E size \in 0..MaxSize, mtime \in MinTime..MaxTime, inPlace \in BOOLEAN :
       Edit(size, mtime, inPlace)

Spec == Init /\ [][Next]_vars
-----------------------------------------------------------------------------
(* Properties *)

\* Types; what is announced and sent lies inside the version answered for.
TypeOK ==
  /\ config \in Configs
  /\ versions \in Seq([size : 0..MaxSize, mtime : MinTime..MaxTime])
  /\ asked.range \in Headers \cup {NoRange, Unreadable} /\ asked.cond \in AllConditions
  /\ reply.of \in 1..Current /\ reads \in reply.of..Current /\ known \in 0..Current
  /\ reply.start + reply.length <= versions[reply.of].size
  /\ reply.last \in -1..(U64 - 1)
  /\ sent \in 0..reply.length
  /\ copy \in [0..(MaxSize - 1) -> 0..Current]

\* A response that says the client's copy is good is right: the copy has no
\* byte of another version than the one on disk when the request came, even
\* if the file was written under the response the copy was made from.  (With
\* set_status_code(304) the application says so itself, of any file.)
NotModifiedIsCurrent ==
  reply.status = 304 /\ config.status # 304 /\ asked.cond.ifNoneMatch # "any"
    => Held \subseteq {reply.of}

\* When a part is sent under the client's condition, everything the client
\* has comes from the version the part is announced from.  (With
\* set_status_code(206) it is the application that calls it a part.)
PartsFitTogether ==
  [][ ~Streaming /\ Streaming' /\ Resumes(asked')
        /\ reply'.status = 206 /\ config.status # 206
      => Held \subseteq {reply'.of} ]_vars

\* respond_to panics only at three edges: on a header that names no range; in a
\* build that checks for overflow, on one that asks for the end of an empty
\* file; and where ETags are used, on a file from before the epoch.
PanicsOnlyAtEdges ==
  reply.status = -1 =>
    \/ asked.range.form = "" \/ asked.range.elements = << >>
    \/ config.checks /\ versions[reply.of].size = 0
    \/ config.etag /\ ~HasEtag(reply.of)
=============================================================================
