----------------------- MODULE ChunkedReadFileProofs ------------------------
(***************************************************************************)
(* Theorems about ChunkedReadFile, for every set of streams and workers,   *)
(* every chunk size and every length of the file.                          *)
(*                                                                         *)
(* What is not inductive by itself: that a chunk continues the body needs  *)
(* that its job read at the reader's offset and no further than the end of *)
(* the window, all the way from the closure through the queue, the worker  *)
(* and the answer (JobsMatch).  That in turn needs that no second job of   *)
(* the stream is about, not even one left by a dropped response (JobsAlone),*)
(* and that the handle is in one place (Handle).                           *)
(***************************************************************************)
EXTENDS ChunkedReadFile, SequenceTheorems, TLAPS

\* The reader's own fields agree with each other.
Reader ==
  \A s \in Streams :
    /\ counter[s] <= size[s]
    /\ start[s] + size[s] <= MaxLen
    /\ offset[s] = start[s] + counter[s]

\* The body is what the counter says.
Bodies == \A s \in Streams : body[s] = Window(start[s], counter[s])

\* `file` and `fut` are never both Some; an open reader has one of them; the
\* answer is there only for a live future.
Handle ==
  \A s \in Streams :
    /\ phase[s] = "open" => (file[s] <=> ~fut[s])
    /\ phase[s] # "open" => ~file[s] /\ ~fut[s]
    /\ ~fut[s] => slot[s] = Empty
    /\ phase[s] # "panicked"

\* Stream s has a job queued, or running.
HasQueued(s)  == \E k \in 1..Len(queue) : queue[k].of = s
HasRunning(s) == \E w \in Workers : running[w].kind = "job" /\ running[w].of = s

\* A stream has at most one job in the pool.
JobsAlone ==
  /\ \A j, k \in 1..Len(queue) : queue[j].of = queue[k].of => j = k
  /\ \A v, w \in Workers :
       running[v].kind = "job" /\ running[w].kind = "job"
         /\ running[v].of = running[w].of => v = w
  /\ \A k \in 1..Len(queue), w \in Workers :
       running[w].kind = "job" => queue[k].of # running[w].of

\* There is none once it was answered, or while the reader has the handle.
JobsGone ==
  \A s \in Streams :
    file[s] \/ slot[s] # Empty => ~HasQueued(s) /\ ~HasRunning(s)

Matches(job, s) == job.offset = offset[s] /\ job.max <= size[s] - counter[s]

\* The job of a live future, and its answer, are for the next bytes of the
\* window.
JobsMatch ==
  /\ \A k \in 1..Len(queue) : fut[queue[k].of] => Matches(queue[k], queue[k].of)
  /\ \A w \in Workers :
       running[w].kind = "job" /\ fut[running[w].of]
         => Matches(running[w], running[w].of)
  /\ \A s \in Streams :
       slot[s].kind = "ok" => /\ slot[s].at = offset[s]
                              /\ slot[s].n <= size[s] - counter[s]

\* A live future is answered, or its job is still in the pool.
Wakeups ==
  \A s \in Streams : fut[s] => slot[s] # Empty \/ HasQueued(s) \/ HasRunning(s)

\* A task asleep is registered with an unanswered future.
Sleepers ==
  \A s \in Streams :
    phase[s] = "open" /\ task[s] = "parked" => waits[s] /\ fut[s] /\ slot[s] = Empty

IInv ==
  /\ TypeOK /\ Reader /\ Bodies /\ Handle
  /\ JobsAlone /\ JobsGone /\ JobsMatch /\ Wakeups /\ Sleepers
-----------------------------------------------------------------------------
(* Windows *)

LEMMA WindowType ==
  ASSUME NEW a \in Nat, NEW n \in Nat
  PROVE  /\ Window(a, n) \in Seq(Nat)
         /\ Len(Window(a, n)) = n
         /\ \A k \in 1..n : Window(a, n)[k] = a + k - 1
BY DEF Window

\* A window inside the file is made of positions of the file.
LEMMA WindowInFile ==
  ASSUME NEW a \in Nat, NEW n \in Nat, a + n <= MaxLen
  PROVE  Window(a, n) \in Seq(0..MaxLen)
BY MaxLenAssumption DEF Window

LEMMA WindowEmpty == \A a \in Nat : Window(a, 0) = << >>
<1>. TAKE a \in Nat
<1>. QED  BY WindowType, EmptySeq, SeqEqual

\* Two windows that touch make one.
LEMMA WindowConcat ==
  ASSUME NEW a \in Nat, NEW m \in Nat, NEW n \in Nat
  PROVE  Window(a, m) \o Window(a + m, n) = Window(a, m + n)
<1>. DEFINE s == Window(a, m)
            t == Window(a + m, n)
            u == Window(a, m + n)
<1>1. /\ s \in Seq(Nat) /\ Len(s) = m /\ \A k \in 1..m : s[k] = a + k - 1
      /\ t \in Seq(Nat) /\ Len(t) = n /\ \A k \in 1..n : t[k] = a + m + k - 1
      /\ u \in Seq(Nat) /\ Len(u) = m + n /\ \A k \in 1..(m + n) : u[k] = a + k - 1
  <2>1. a + m \in Nat /\ m + n \in Nat
    OBVIOUS
  <2>2. s \in Seq(Nat) /\ Len(s) = m /\ \A k \in 1..m : s[k] = a + k - 1
    BY WindowType
  <2>3. t \in Seq(Nat) /\ Len(t) = n /\ \A k \in 1..n : t[k] = a + m + k - 1
    BY <2>1, WindowType
  <2>4. u \in Seq(Nat) /\ Len(u) = m + n /\ \A k \in 1..(m + n) : u[k] = a + k - 1
    BY <2>1, WindowType
  <2>. QED  BY <2>2, <2>3, <2>4
<1>. HIDE DEF s, t, u
<1>2. /\ s \o t \in Seq(Nat) /\ Len(s \o t) = m + n
      /\ \A k \in 1..(m + n) : (s \o t)[k] = IF k <= m THEN s[k] ELSE t[k - m]
  <2>. USE <1>1
  <2>1. /\ s \o t \in Seq(Nat) /\ Len(s \o t) = Len(s) + Len(t)
        /\ \A k \in 1..(Len(s) + Len(t)) :
             (s \o t)[k] = IF k <= Len(s) THEN s[k] ELSE t[k - Len(s)]
    BY ConcatProperties
  <2>. QED  BY <2>1
<1>3. \A k \in 1..(m + n) : (s \o t)[k] = u[k]
  BY <1>1, <1>2
<1>4. s \o t = u
  BY <1>1, <1>2, <1>3, SeqEqual
<1>. QED  BY <1>4 DEF s, t, u

-----------------------------------------------------------------------------
(* The invariant holds initially *)

LEMMA InitIInv == Init => IInv
<1>. SUFFICES ASSUME Init PROVE IInv
  OBVIOUS
<1>. USE MaxLenAssumption, EditsAssumption DEF Init
<1>1. TypeOK
  BY DEF TypeOK, Over, Empty
<1>2. Reader
  <2>. SUFFICES ASSUME NEW s \in Streams
                PROVE  /\ counter[s] <= size[s]
                       /\ start[s] + size[s] <= MaxLen
                       /\ offset[s] = start[s] + counter[s]
    BY DEF Reader
  <2>1. counter[s] = 0 /\ size[s] = 0 /\ start[s] = 0 /\ offset[s] = 0
    OBVIOUS
  <2>2. 0 <= MaxLen
    OBVIOUS
  <2>. QED  BY <2>1, <2>2
<1>0. Bodies
  <2>1. Window(0, 0) = << >>
    BY WindowEmpty
  <2>. QED  BY <2>1, Zenon DEF Bodies
<1>3. Handle
  BY DEF Handle
<1>4. JobsAlone
  BY DEF JobsAlone, HasQueued, HasRunning, NoJob
<1>5. JobsGone
  BY DEF JobsGone, HasQueued, HasRunning, NoJob
<1>6. JobsMatch
  BY DEF JobsMatch, NoJob, Empty
<1>7. Wakeups
  BY DEF Wakeups
<1>8. Sleepers
  BY DEF Sleepers
<1>. QED  BY <1>0, <1>1, <1>2, <1>3, <1>4, <1>5, <1>6, <1>7, <1>8 DEF IInv

-----------------------------------------------------------------------------
(* One lemma for each kind of step *)

\* A new response in a slot that nothing owns.
LEMMA OpenStep ==
  ASSUME IInv, NEW s \in Streams, Open(s)
  PROVE  IInv'
<1>. USE MaxLenAssumption DEF IInv, Open
<1>1. ~HasQueued(s) /\ ~HasRunning(s)
  <2>1. \A k \in QueuedOf(s) : <<"queued", k>> \in Owners(s)
    BY DEF Owners
  <2>2. \A w \in RunningOf(s) : <<"running", w>> \in Owners(s)
    BY DEF Owners
  <2>. QED  BY <2>1, <2>2 DEF QueuedOf, RunningOf, HasQueued, HasRunning
<1>2. TypeOK'
  BY DEF TypeOK, Over
<1>3. Reader'
  BY DEF Reader, TypeOK
<1>10. Bodies'
  <2>1. PICK from \in 0..MaxLen : start' = [start EXCEPT ![s] = from]
    OBVIOUS
  <2>2. Window(from, 0) = << >>
    BY <2>1, WindowEmpty
  <2>3. ASSUME NEW r \in Streams PROVE body'[r] = Window(start'[r], counter'[r])
    <3>1. CASE r = s
      <4>1. body'[r] = << >> /\ start'[r] = from /\ counter'[r] = 0
        BY <2>1, <3>1 DEF TypeOK
      <4>. QED  BY <2>2, <4>1, Zenon
    <3>2. CASE r # s
      <4>1. body'[r] = body[r] /\ start'[r] = start[r] /\ counter'[r] = counter[r]
        BY <2>1, <3>2 DEF TypeOK
      <4>. QED  BY <4>1, Zenon DEF Bodies
    <3>. QED  BY <3>1, <3>2
  <2>. QED  BY <2>3 DEF Bodies
<1>4. Handle'
  BY DEF Handle, TypeOK
<1>5. JobsAlone'
  BY DEF JobsAlone
<1>6. JobsGone'
  BY <1>1 DEF JobsGone, TypeOK, HasQueued, HasRunning
<1>7. JobsMatch'
  BY <1>1 DEF JobsMatch, Matches, TypeOK, HasQueued, HasRunning, Empty
<1>8. Wakeups'
  BY DEF Wakeups, TypeOK, HasQueued, HasRunning
<1>9. Sleepers'
  BY DEF Sleepers, TypeOK
<1>. QED  BY <1>2, <1>3, <1>4, <1>5, <1>6, <1>7, <1>8, <1>9, <1>10

\* A response that ends, one way or another.
LEMMA CloseStep ==
  ASSUME IInv, NEW s \in Streams,
         NEW how \in {"done", "error", "dropped"}, Close(s, how),
         UNCHANGED <<disk, edits, start, size, offset, counter, body, queue, running>>
  PROVE  IInv'
<1>. USE DEF IInv, Close, DropHandle
<1>1. TypeOK'
  BY DEF TypeOK, Over
<1>2. Reader' /\ Bodies'
  BY DEF Reader, Bodies
<1>3. Handle'
  BY DEF Handle, TypeOK
<1>4. JobsAlone'
  BY DEF JobsAlone
<1>5. JobsGone'
  BY DEF JobsGone, TypeOK, HasQueued, HasRunning
<1>6. JobsMatch'
  BY DEF JobsMatch, Matches, TypeOK, Empty
<1>7. Wakeups'
  BY DEF Wakeups, TypeOK, HasQueued, HasRunning
<1>8. Sleepers'
  BY DEF Sleepers, TypeOK
<1>. QED  BY <1>1, <1>2, <1>3, <1>4, <1>5, <1>6, <1>7, <1>8

\* What slot[s].kind = "ok" says of the answer.
LEMMA AnswerType ==
  ASSUME TypeOK, NEW s \in Streams
  PROVE  /\ slot[s].kind = "ok" <=> slot[s] \in Reads
         /\ slot[s].kind = "empty" <=> slot[s] = Empty
         /\ slot[s].kind = "err" <=> slot[s] = Failed
BY DEF TypeOK, Reads, Empty, Failed

\* The answer of a job is a chunk: it becomes part of the body.
LEMMA PollReadyStep ==
  ASSUME IInv, NEW s \in Streams, PollReady(s)
  PROVE  IInv'
<1>. DEFINE n == slot[s].n
<1>1. /\ slot[s].at = offset[s] /\ n <= size[s] - counter[s]
      /\ n \in Nat /\ n > 0 /\ slot[s] # Empty
  BY AnswerType, ChunkAssumption DEF IInv, PollReady, HandBack, Advance, JobsMatch, Reads, Empty
<1>2. /\ start[s] \in Nat /\ counter[s] \in Nat /\ size[s] \in Nat
      /\ counter[s] + n <= size[s] /\ start[s] + size[s] <= MaxLen
      /\ slot[s].at = start[s] + counter[s]
  BY <1>1, MaxLenAssumption DEF IInv, TypeOK, Reader
<1>3. /\ offset' = [offset EXCEPT ![s] = @ + n]
      /\ counter' = [counter EXCEPT ![s] = @ + n]
      /\ UNCHANGED <<disk, edits, phase, start, size, queue, running>>
  BY DEF PollReady, HandBack, Advance
<1>4. body' = [body EXCEPT ![s] = Window(start[s], counter[s] + n)]
  <2>1. body[s] = Window(start[s], counter[s])
    BY DEF IInv, Bodies
  <2>2. Window(start[s], counter[s]) \o Window(start[s] + counter[s], n)
          = Window(start[s], counter[s] + n)
    BY <1>1, <1>2, WindowConcat
  <2>3. body' = [body EXCEPT ![s] = body[s] \o Window(slot[s].at, n)]
    BY DEF PollReady, HandBack, Advance
  <2>. QED  BY <1>2, <2>1, <2>2, <2>3, Zenon
<1>5. TypeOK'
  <2>1. Window(start[s], counter[s] + n) \in Seq(0..MaxLen)
    <3>1. counter[s] + n \in Nat /\ start[s] + (counter[s] + n) <= MaxLen
      BY <1>1, <1>2, MaxLenAssumption
    <3>. QED  BY <1>2, <3>1, WindowInFile
  <2>2. body' \in [Streams -> Seq(0..MaxLen)]
    BY <1>4, <2>1, Zenon DEF IInv, TypeOK
  <2>3. offset[s] + n \in 0..MaxLen /\ counter[s] + n \in 0..MaxLen
    BY <1>1, <1>2, MaxLenAssumption
  <2>4. offset' \in [Streams -> 0..MaxLen] /\ counter' \in [Streams -> 0..MaxLen]
    BY <1>3, <2>3, Zenon DEF IInv, TypeOK
  <2>. QED  BY <2>2, <2>4 DEF PollReady, HandBack, Advance, IInv, TypeOK, Over
<1>6. Reader'
  <2>. SUFFICES ASSUME NEW r \in Streams
                PROVE  /\ counter'[r] <= size'[r]
                       /\ start'[r] + size'[r] <= MaxLen
                       /\ offset'[r] = start'[r] + counter'[r]
    BY DEF Reader
  <2>1. start'[r] = start[r] /\ size'[r] = size[r]
    BY <1>3
  <2>2. CASE r = s
    <3>1. counter'[r] = counter[s] + n /\ offset'[r] = offset[s] + n
      BY <1>3, <2>2, Zenon DEF IInv, TypeOK
    <3>2. offset[s] = start[s] + counter[s]
      BY DEF IInv, Reader
    <3>. QED  BY <1>1, <1>2, <2>1, <2>2, <3>1, <3>2
  <2>3. CASE r # s
    <3>1. counter'[r] = counter[r] /\ offset'[r] = offset[r]
      BY <1>3, <2>3, Zenon DEF IInv, TypeOK
    <3>. QED  BY <2>1, <3>1 DEF IInv, Reader
  <2>. QED  BY <2>2, <2>3
<1>7. Bodies'
  <2>. SUFFICES ASSUME NEW r \in Streams
                PROVE  body'[r] = Window(start'[r], counter'[r])
    BY DEF Bodies
  <2>1. CASE r = s
    <3>1. /\ body'[r] = Window(start[s], counter[s] + n)
          /\ start'[r] = start[s]
      BY <1>3, <1>4, <2>1, Zenon DEF IInv, TypeOK
    <3>2. counter'[r] = counter[s] + n
      BY <1>3, <2>1, Zenon DEF IInv, TypeOK
    <3>. QED  BY <3>1, <3>2, Zenon
  <2>2. CASE r # s
    <3>1. body'[r] = body[r] /\ start'[r] = start[r] /\ counter'[r] = counter[r]
      BY <1>3, <1>4, <2>2, Zenon DEF IInv, TypeOK
    <3>. QED  BY <3>1, Zenon DEF IInv, Bodies
  <2>. QED  BY <2>1, <2>2
<1>. USE DEF IInv, PollReady, HandBack, Advance, Polled
<1>8. Handle'
  BY DEF Handle, TypeOK
<1>9. JobsAlone'
  BY DEF JobsAlone
<1>10. ~HasQueued(s) /\ ~HasRunning(s)
  BY <1>1 DEF JobsGone
<1>11. JobsGone'
  BY <1>10 DEF JobsGone, TypeOK, HasQueued, HasRunning
<1>12. JobsMatch'
  <2>1. \A k \in 1..Len(queue) : queue[k].of \in Streams /\ queue[k].of # s
    <3>1. queue \in Seq(Jobs)
      BY DEF TypeOK
    <3>2. \A k \in 1..Len(queue) : queue[k] \in Jobs
      BY <3>1, ElementOfSeq
    <3>. QED  BY <1>10, <3>2 DEF HasQueued, Jobs
  <2>2. \A w \in Workers : running[w].kind = "job" =>
                              running[w].of \in Streams /\ running[w].of # s
    BY <1>10 DEF HasRunning, TypeOK, Jobs, NoJob
  <2>3. \A r \in Streams : r # s =>
           /\ offset'[r] = offset[r] /\ counter'[r] = counter[r] /\ size'[r] = size[r]
           /\ fut'[r] = fut[r] /\ slot'[r] = slot[r]
    BY DEF TypeOK
  <2>4. slot'[s] = Empty
    BY DEF TypeOK
  <2>5. UNCHANGED <<queue, running>>
    OBVIOUS
  <2>. QED  BY <2>1, <2>2, <2>3, <2>4, <2>5 DEF JobsMatch, Matches, Empty
<1>13. Wakeups'
  BY DEF Wakeups, TypeOK, HasQueued, HasRunning
<1>14. Sleepers'
  BY DEF Sleepers, TypeOK
<1>. QED  BY <1>5, <1>6, <1>7, <1>8, <1>9, <1>11, <1>12, <1>13, <1>14

LEMMA PollPendingStep ==
  ASSUME IInv, NEW s \in Streams, PollPending(s)
  PROVE  IInv'
<1>. USE DEF IInv, PollPending, diskVars, readerVars, poolVars
<1>1. TypeOK'
  BY DEF TypeOK, Over
<1>2. Reader' /\ Bodies' /\ Handle'
  BY DEF Reader, Bodies, Handle
<1>3. JobsAlone' /\ JobsGone'
  BY DEF JobsAlone, JobsGone, HasQueued, HasRunning
<1>4. JobsMatch'
  BY DEF JobsMatch, Matches
<1>5. Wakeups'
  BY DEF Wakeups, HasQueued, HasRunning
<1>6. Sleepers'
  BY AnswerType DEF Sleepers, TypeOK
<1>. QED  BY <1>1, <1>2, <1>3, <1>4, <1>5, <1>6

\* Jobs in the pool are jobs.
LEMMA JobType ==
  ASSUME TypeOK
  PROVE  /\ queue \in Seq(Jobs) /\ Len(queue) \in Nat
         /\ \A k \in 1..Len(queue) : queue[k] \in Jobs /\ queue[k].of \in Streams
         /\ \A w \in Workers : running[w].kind = "job" => running[w] \in Jobs /\ running[w].of \in Streams
<1>1. queue \in Seq(Jobs) /\ Len(queue) \in Nat
  BY DEF TypeOK
<1>2. \A k \in 1..Len(queue) : queue[k] \in Jobs
  BY <1>1, ElementOfSeq
<1>3. \A w \in Workers : running[w].kind = "job" => running[w] \in Jobs
  BY DEF TypeOK, NoJob
<1>. QED  BY <1>1, <1>2, <1>3 DEF Jobs

\* What poll spawns is a job for the next bytes of the window.
LEMMA NextJobMatches ==
  ASSUME IInv, NEW s \in Streams, size[s] # counter[s]
  PROVE  NextJob(s) \in Jobs /\ NextJob(s).of = s /\ Matches(NextJob(s), s)
<1>1. /\ size[s] \in Nat /\ counter[s] \in Nat /\ counter[s] < size[s]
      /\ offset[s] \in 0..MaxLen
  BY MaxLenAssumption DEF IInv, TypeOK, Reader
<1>2. Min(size[s] - counter[s], Chunk) \in 1..Chunk
      /\ Min(size[s] - counter[s], Chunk) <= size[s] - counter[s]
  BY <1>1, ChunkAssumption DEF Min
<1>. QED  BY <1>1, <1>2 DEF NextJob, Jobs, Matches

LEMMA PollSpawnStep ==
  ASSUME IInv, NEW s \in Streams, file[s], PollSpawn(s)
  PROVE  IInv'
<1>. DEFINE job == NextJob(s)
            m == Len(queue) + 1
<1>1. job \in Jobs /\ job.of = s /\ Matches(job, s)
  BY NextJobMatches DEF PollSpawn, WantsRead, TakeHandle, PollAgain
<1>. HIDE DEF job
<1>2. ~HasQueued(s) /\ ~HasRunning(s)
  BY DEF IInv, JobsGone, PollSpawn, WantsRead, TakeHandle, PollAgain
<1>3. /\ queue' = Append(queue, job) /\ queue' \in Seq(Jobs)
      /\ Len(queue') = m /\ m \in Nat /\ Len(queue) \in Nat
      /\ queue'[m] = job
      /\ \A k \in 1..Len(queue) : queue'[k] = queue[k] /\ queue[k].of \in Streams
  BY <1>1, JobType DEF IInv, PollSpawn, WantsRead, TakeHandle, PollAgain, job
<1>4. UNCHANGED <<running, offset, counter, size, start, body, slot, waits, phase>>
  BY DEF PollSpawn, WantsRead, TakeHandle, PollAgain
<1>5. \A k \in 1..Len(queue') : k = m \/ k \in 1..Len(queue)
  BY <1>3
<1>6. \A k \in 1..Len(queue) : queue[k].of # s
  BY <1>2 DEF HasQueued
<1>7. \A w \in Workers : running[w].kind = "job" => running[w].of # s
  BY <1>2 DEF HasRunning
<1>8. /\ fut' = [fut EXCEPT ![s] = TRUE] /\ file' = [file EXCEPT ![s] = FALSE]
      /\ task' = [task EXCEPT ![s] = "polling"] /\ UNCHANGED <<disk, edits>>
  BY DEF PollSpawn, WantsRead, TakeHandle, PollAgain
<1>. HIDE DEF m
<1>9. TypeOK'
  BY <1>3, <1>4, <1>8 DEF IInv, TypeOK
<1>10. Reader' /\ Bodies'
  BY <1>4 DEF IInv, Reader, Bodies
<1>11. Handle'
  BY <1>4, <1>8 DEF IInv, Handle, TypeOK, PollSpawn, WantsRead, TakeHandle, PollAgain, Polled
<1>12. JobsAlone'
  BY <1>1, <1>3, <1>4, <1>5, <1>6, <1>7 DEF IInv, JobsAlone
<1>13. JobsGone'
  <2>. SUFFICES ASSUME NEW r \in Streams, file'[r] \/ slot'[r] # Empty
                PROVE  ~HasQueued(r)' /\ ~HasRunning(r)'
    BY DEF JobsGone
  <2>1. r # s
    BY <1>4, <1>8 DEF IInv, Handle, TypeOK, PollSpawn, WantsRead, TakeHandle, PollAgain
  <2>2. ~HasQueued(r) /\ ~HasRunning(r)
    BY <1>4, <1>8, <2>1 DEF IInv, JobsGone, TypeOK
  <2>3. ~HasRunning(r)'
    BY <1>4, <2>2 DEF HasRunning
  <2>4. ~HasQueued(r)'
    BY <1>1, <1>3, <1>5, <2>1, <2>2 DEF HasQueued
  <2>. QED  BY <2>3, <2>4
<1>14. JobsMatch'
  <2>1. \A k \in 1..Len(queue') : fut'[queue'[k].of] => Matches(queue'[k], queue'[k].of)
    <3>. SUFFICES ASSUME NEW k \in 1..Len(queue'), fut'[queue'[k].of]
                  PROVE  Matches(queue'[k], queue'[k].of)
      OBVIOUS
    <3>1. CASE k = m
      BY <1>1, <1>3, <3>1
    <3>2. CASE k \in 1..Len(queue)
      BY <1>3, <1>6, <1>8, <3>2 DEF IInv, JobsMatch, TypeOK
    <3>. QED  BY <1>5, <3>1, <3>2
  <2>2. \A w \in Workers : running[w].kind = "job" /\ fut'[running[w].of]
                              => Matches(running[w], running[w].of)
    BY <1>7, <1>8, JobType DEF IInv, JobsMatch, TypeOK
  <2>. QED  BY <1>4, <2>1, <2>2 DEF IInv, JobsMatch, Matches
<1>15. Wakeups'
  <2>. SUFFICES ASSUME NEW r \in Streams, fut'[r]
                PROVE  slot'[r] # Empty \/ HasQueued(r)' \/ HasRunning(r)'
    BY DEF Wakeups
  <2>1. CASE r = s
    BY <1>1, <1>3, <2>1 DEF HasQueued
  <2>2. CASE r # s
    <3>1. slot[r] # Empty \/ HasQueued(r) \/ HasRunning(r)
      BY <1>8, <2>2 DEF IInv, Wakeups, TypeOK
    <3>2. HasQueued(r) => HasQueued(r)'
      BY <1>3 DEF HasQueued
    <3>3. HasRunning(r) => HasRunning(r)'
      BY <1>4 DEF HasRunning
    <3>. QED  BY <1>4, <3>1, <3>2, <3>3
  <2>. QED  BY <2>1, <2>2
<1>16. Sleepers'
  BY <1>4, <1>8 DEF IInv, Sleepers, TypeOK
<1>. QED  BY <1>9, <1>10, <1>11, <1>12, <1>13, <1>14, <1>15, <1>16 DEF IInv

\* `expect("Use after completion")` is unreachable.
LEMMA NoPanicStep ==
  ASSUME IInv, NEW s \in Streams
  PROVE  WantsRead(s) => file[s]
BY DEF IInv, Handle, WantsRead, Polled

\* A job goes from the head of the queue to a worker, or away.
LEMMA TakeStep ==
  ASSUME IInv, NEW w \in Workers, Take(w)
  PROVE  IInv'
<1>. DEFINE job == Head(queue)
<1>1. /\ queue \in Seq(Jobs) /\ queue # << >> /\ Len(queue) \in Nat /\ Len(queue) > 0
      /\ running[w].kind # "job"
  BY JobType, EmptySeq DEF IInv, Take, NoJob
<1>2. /\ queue' \in Seq(Jobs) /\ Len(queue') = Len(queue) - 1
      /\ \A k \in 1..Len(queue') : queue'[k] = queue[k + 1] /\ k + 1 \in 1..Len(queue)
      /\ job = queue[1] /\ job \in Jobs /\ job.of \in Streams /\ job.kind = "job"
      /\ 1 \in 1..Len(queue)
  <2>1. queue' = Tail(queue)
    BY DEF Take
  <2>2. /\ job \in Jobs /\ Tail(queue) \in Seq(Jobs) /\ Len(Tail(queue)) = Len(queue) - 1
        /\ \A k \in 1..Len(Tail(queue)) : Tail(queue)[k] = queue[k + 1]
    BY <1>1, HeadTailProperties
  <2>3. job = queue[1]
    BY <1>1
  <2>. QED  BY <1>1, <2>1, <2>2, <2>3 DEF Jobs
<1>3. /\ running' = [running EXCEPT ![w] = IF fut[job.of] THEN job ELSE NoJob]
      /\ UNCHANGED <<disk, edits, phase, start, size, offset, counter, file, body,
                     fut, task, waits, slot>>
  BY DEF Take, readerVars
<1>. HIDE DEF job
<1>4. \A v \in Workers : running'[v].kind = "job" =>
         \/ v # w /\ running'[v] = running[v]
         \/ v = w /\ running'[v] = job /\ fut[job.of]
  BY <1>3 DEF IInv, TypeOK, NoJob
<1>5. \A v \in Workers : running[v].kind = "job" => v # w /\ running'[v] = running[v]
  BY <1>1, <1>3 DEF IInv, TypeOK
<1>6. TypeOK'
  BY <1>2, <1>3 DEF IInv, TypeOK
<1>7. Reader' /\ Bodies' /\ Handle' /\ Sleepers'
  BY <1>3 DEF IInv, Reader, Bodies, Handle, Sleepers
<1>8. JobsAlone'
  <2>1. \A j, k \in 1..Len(queue') : queue'[j].of = queue'[k].of => j = k
    BY <1>1, <1>2 DEF IInv, JobsAlone
  <2>2. \A u, v \in Workers :
          running'[u].kind = "job" /\ running'[v].kind = "job"
            /\ running'[u].of = running'[v].of => u = v
    BY <1>2, <1>4 DEF IInv, JobsAlone
  <2>3. \A k \in 1..Len(queue'), v \in Workers :
          running'[v].kind = "job" => queue'[k].of # running'[v].of
    <3>. SUFFICES ASSUME NEW k \in 1..Len(queue'), NEW v \in Workers,
                         running'[v].kind = "job"
                  PROVE  queue'[k].of # running'[v].of
      OBVIOUS
    <3>1. CASE running'[v] = running[v]
      BY <1>2, <3>1 DEF IInv, JobsAlone
    <3>2. CASE running'[v] = job
      <4>1. queue'[k] = queue[k + 1] /\ k + 1 \in 1..Len(queue) /\ k + 1 # 1
        BY <1>1, <1>2
      <4>. QED  BY <1>2, <3>2, <4>1 DEF IInv, JobsAlone
    <3>. QED  BY <1>4, <3>1, <3>2
  <2>. QED  BY <2>1, <2>2, <2>3 DEF JobsAlone
<1>9. \A s \in Streams : HasQueued(s)' \/ HasRunning(s)' => HasQueued(s) \/ HasRunning(s)
  BY <1>2, <1>4 DEF HasQueued, HasRunning
<1>10. JobsGone'
  BY <1>3, <1>9 DEF IInv, JobsGone
<1>11. JobsMatch'
  BY <1>2, <1>3, <1>4 DEF IInv, JobsMatch, Matches
<1>12. Wakeups'
  <2>. SUFFICES ASSUME NEW s \in Streams, fut[s], HasQueued(s) \/ HasRunning(s)
                PROVE  HasQueued(s)' \/ HasRunning(s)'
    BY <1>3 DEF IInv, Wakeups
  <2>1. CASE HasRunning(s)
    BY <1>5, <2>1 DEF HasRunning
  <2>2. CASE HasQueued(s)
    <3>1. PICK k \in 1..Len(queue) : queue[k].of = s
      BY <2>2 DEF HasQueued
    <3>2. CASE k = 1
      <4>1. running'[w] = job
        BY <1>2, <1>3, <3>1, <3>2 DEF IInv, TypeOK
      <4>. QED  BY <1>2, <3>1, <3>2, <4>1 DEF HasRunning
    <3>3. CASE k # 1
      <4>1. k - 1 \in 1..Len(queue') /\ (k - 1) + 1 = k
        BY <1>1, <1>2, <3>3
      <4>. QED  BY <1>2, <3>1, <4>1 DEF HasQueued
    <3>. QED  BY <3>2, <3>3
  <2>. QED  BY <2>1, <2>2
<1>. QED  BY <1>6, <1>7, <1>8, <1>10, <1>11, <1>12 DEF IInv

\* A job is answered: the answer is an error, or bytes from where the job
\* was told to read and no more of them than it was told to read.
LEMMA AnswerStep ==
  ASSUME IInv, NEW w \in Workers, running[w].kind = "job",
         NEW result \in Reads \cup {Failed}, Answer(w, result),
         result.kind = "ok" => /\ result.at = running[w].offset
                               /\ result.n <= running[w].max,
         UNCHANGED <<disk, edits, readerVars, fut, queue>>
  PROVE  IInv'
<1>. PICK s \in Streams : s = running[w].of
  BY JobType DEF IInv
<1>1. running[w] \in Jobs /\ result # Empty
  BY JobType DEF IInv, Reads, Failed, Empty
<1>2. /\ running' = [running EXCEPT ![w] = NoJob]
      /\ slot' = [slot EXCEPT ![s] = IF fut[s] THEN result ELSE Empty]
      /\ task' = [task EXCEPT ![s] = IF fut[s] /\ waits[s] THEN "woken" ELSE @]
      /\ waits' = [waits EXCEPT ![s] = FALSE]
      /\ UNCHANGED <<disk, edits, phase, start, size, offset, counter, file, body,
                     fut, queue>>
  BY DEF Answer, readerVars
<1>3. ~HasQueued(s) /\ (\A v \in Workers : v # w /\ running[v].kind = "job" => running[v].of # s)
  BY DEF IInv, JobsAlone, HasQueued
<1>4. HasRunning(s)
  BY DEF HasRunning
<1>5. \A v \in Workers : running'[v].kind = "job" => v # w /\ running'[v] = running[v]
  BY <1>2 DEF IInv, TypeOK, NoJob
<1>6. TypeOK'
  BY <1>1, <1>2 DEF IInv, TypeOK
<1>7. Reader' /\ Bodies'
  BY <1>2 DEF IInv, Reader, Bodies
<1>8. Handle'
  BY <1>1, <1>2 DEF IInv, Handle, TypeOK
<1>9. JobsAlone'
  BY <1>2, <1>5 DEF IInv, JobsAlone
<1>10. ~HasQueued(s)' /\ ~HasRunning(s)'
  BY <1>2, <1>3, <1>5 DEF HasQueued, HasRunning
<1>11. \A r \in Streams : r # s => /\ HasQueued(r)' <=> HasQueued(r)
                                   /\ HasRunning(r)' <=> HasRunning(r)
  <2>1. \A v \in Workers : v # w => running'[v] = running[v]
    BY <1>2 DEF IInv, TypeOK
  <2>. QED  BY <1>2, <1>5, <2>1 DEF HasQueued, HasRunning
<1>12. \A r \in Streams : r # s => /\ slot'[r] = slot[r] /\ waits'[r] = waits[r]
                                   /\ task'[r] = task[r]
  BY <1>2 DEF IInv, TypeOK
<1>13. slot'[s] = IF fut[s] THEN result ELSE Empty
  BY <1>1, <1>2 DEF IInv, TypeOK
<1>14. JobsGone'
  BY <1>2, <1>10, <1>11, <1>12 DEF IInv, JobsGone
<1>15. JobsMatch'
  <2>1. \A r \in Streams : slot'[r].kind = "ok" =>
          slot'[r].at = offset[r] /\ slot'[r].n <= size[r] - counter[r]
    <3>. SUFFICES ASSUME NEW r \in Streams, slot'[r].kind = "ok"
                  PROVE  slot'[r].at = offset[r] /\ slot'[r].n <= size[r] - counter[r]
      OBVIOUS
    <3>1. CASE r = s
      <4>1. fut[s] /\ slot'[s] = result /\ result.kind = "ok"
        BY <1>13, <3>1 DEF Empty
      <4>2. running[w].offset = offset[s] /\ running[w].max <= size[s] - counter[s]
        BY <4>1 DEF IInv, JobsMatch, Matches
      <4>3. /\ result.n \in Nat /\ running[w].max \in Nat
            /\ size[s] \in Int /\ counter[s] \in Int
        <5>1. result \in Reads
          BY <4>1 DEF Failed
        <5>2. size[s] \in 0..MaxLen /\ counter[s] \in 0..MaxLen
          BY DEF IInv, TypeOK
        <5>. QED  BY <1>1, <5>1, <5>2, ChunkAssumption, MaxLenAssumption DEF Jobs, Reads
      <4>. QED  BY <3>1, <4>1, <4>2, <4>3
    <3>2. CASE r # s
      BY <1>12, <3>2 DEF IInv, JobsMatch
    <3>. QED  BY <3>1, <3>2
  <2>. QED  BY <1>2, <1>5, <2>1 DEF IInv, JobsMatch, Matches
<1>16. Wakeups'
  BY <1>1, <1>2, <1>11, <1>12, <1>13 DEF IInv, Wakeups
<1>17. Sleepers'
  <2>. SUFFICES ASSUME NEW r \in Streams, phase[r] = "open", task'[r] = "parked"
                PROVE  waits'[r] /\ fut[r] /\ slot'[r] = Empty
    BY <1>2 DEF Sleepers
  <2>1. CASE r # s
    BY <1>12, <2>1 DEF IInv, Sleepers
  <2>2. CASE r = s
    <3>1. task'[s] = IF fut[s] /\ waits[s] THEN "woken" ELSE task[s]
      BY <1>1, <1>2 DEF IInv, TypeOK
    <3>2. ~(fut[s] /\ waits[s])
      BY <2>2, <3>1
    <3>. QED  BY <2>2, <3>1, <3>2 DEF IInv, Sleepers
  <2>. QED  BY <2>1, <2>2
<1>. QED  BY <1>6, <1>7, <1>8, <1>9, <1>14, <1>15, <1>16, <1>17 DEF IInv

LEMMA ReadChunkStep ==
  ASSUME IInv, NEW w \in Workers, ReadChunk(w)
  PROVE  IInv'
<1>. DEFINE job == running[w]
            n == Available(job)
            result == ReadResult(job, n)
<1>1. job \in Jobs /\ job.kind = "job" /\ disk \in 0..MaxLen
  BY JobType DEF IInv, TypeOK, ReadChunk
<1>2. n \in 0..Chunk /\ n <= job.max
  BY <1>1, ChunkAssumption, MaxLenAssumption DEF Available, Min, Jobs
<1>3. Answer(w, result) /\ UNCHANGED <<disk, edits, readerVars, fut, queue>>
  BY DEF ReadChunk
<1>. HIDE DEF n
<1>4. /\ result \in Reads \cup {Failed}
      /\ result.kind = "ok" => result.at = job.offset /\ result.n <= job.max
  <2>1. CASE n = 0
    BY <2>1 DEF ReadResult, Failed
  <2>2. CASE n # 0
    <3>1. n \in 1..Chunk
      BY <1>2, <2>2, ChunkAssumption
    <3>. QED  BY <1>1, <1>2, <2>2, <3>1 DEF ReadResult, Reads, Jobs
  <2>. QED  BY <2>1, <2>2
<1>. HIDE DEF result
<1>. QED  BY <1>1, <1>3, <1>4, AnswerStep

LEMMA ReadFailsStep ==
  ASSUME IInv, NEW w \in Workers, ReadFails(w)
  PROVE  IInv'
<1>1. Failed.kind # "ok"
  BY DEF Failed
<1>. QED  BY <1>1, AnswerStep DEF ReadFails

\* Whatever happens to the file, the length is only looked at by the next read.
LEMMA EditFileStep ==
  ASSUME IInv, EditFile
  PROVE  IInv'
<1>. USE DEF IInv, EditFile, readerVars, poolVars
<1>1. TypeOK'
  BY EditsAssumption DEF TypeOK
<1>2. Reader' /\ Bodies' /\ Handle'
  BY DEF Reader, Bodies, Handle
<1>3. JobsAlone' /\ JobsGone'
  BY DEF JobsAlone, JobsGone, HasQueued, HasRunning
<1>4. JobsMatch' /\ Wakeups' /\ Sleepers'
  BY DEF JobsMatch, Matches, Wakeups, Sleepers, HasQueued, HasRunning
<1>. QED  BY <1>1, <1>2, <1>3, <1>4

\* The invariant is inductive.
LEMMA NextIInv == IInv /\ [Next]_vars => IInv'
<1>. SUFFICES ASSUME IInv, [Next]_vars PROVE IInv'
  OBVIOUS
<1>1. ASSUME NEW s \in Streams, Open(s) PROVE IInv'
  BY <1>1, OpenStep
<1>2. ASSUME NEW s \in Streams, PollReady(s) PROVE IInv'
  BY <1>2, PollReadyStep
<1>3. ASSUME NEW s \in Streams, PollError(s) PROVE IInv'
  BY <1>3, CloseStep DEF PollError
<1>4. ASSUME NEW s \in Streams, PollPending(s) PROVE IInv'
  BY <1>4, PollPendingStep
<1>5. ASSUME NEW s \in Streams, PollEnd(s) PROVE IInv'
  BY <1>5, CloseStep DEF PollEnd
<1>6. ASSUME NEW s \in Streams, PollRead(s), file[s] PROVE IInv'
  BY <1>6, PollSpawnStep DEF PollRead
<1>7. ASSUME NEW s \in Streams, PollRead(s), ~file[s] PROVE IInv'
  BY <1>7, NoPanicStep DEF PollRead, PollPanic
<1>8. ASSUME NEW s \in Streams, DropBody(s) PROVE IInv'
  BY <1>8, CloseStep DEF DropBody
<1>9. ASSUME NEW w \in Workers, Take(w) PROVE IInv'
  BY <1>9, TakeStep
<1>10. ASSUME NEW w \in Workers, ReadChunk(w) PROVE IInv'
  BY <1>10, ReadChunkStep
<1>11. ASSUME NEW w \in Workers, ReadFails(w) PROVE IInv'
  BY <1>11, ReadFailsStep
<1>12. CASE EditFile
  BY <1>12, EditFileStep
<1>13. CASE UNCHANGED vars
  <2>. USE <1>13 DEF vars, IInv
  <2>1. TypeOK' /\ Reader' /\ Bodies' /\ Handle'
    BY DEF TypeOK, Reader, Bodies, Handle
  <2>2. JobsAlone' /\ JobsGone' /\ JobsMatch'
    BY DEF JobsAlone, JobsGone, JobsMatch, Matches, HasQueued, HasRunning
  <2>3. Wakeups' /\ Sleepers'
    BY DEF Wakeups, Sleepers, HasQueued, HasRunning
  <2>. QED  BY <2>1, <2>2, <2>3
<1>. QED
  BY <1>1, <1>2, <1>3, <1>4, <1>5, <1>6, <1>7, <1>8, <1>9, <1>10, <1>11, <1>12,
     <1>13 DEF Next, Poll

THEOREM Inductive == Spec => []IInv
<1>. QED  BY InitIInv, NextIInv, PTL DEF Spec

-----------------------------------------------------------------------------
(* What follows *)

\* Every variable keeps its type: no offset, counter or job ever leaves the
\* file or the chunk size.
THEOREM TypeCorrect == Spec => []TypeOK
<1>1. IInv => TypeOK
  BY DEF IInv
<1>. QED  BY <1>1, Inductive, PTL

\* The bytes handed over are a prefix of the announced window.
THEOREM PrefixCorrect == Spec => []BodyIsWindowPrefix
<1>1. IInv => BodyIsWindowPrefix
  BY DEF IInv, Reader, Bodies, BodyIsWindowPrefix
<1>. QED  BY <1>1, Inductive, PTL

\* `expect("Use after completion")` never fires.
THEOREM NoUseAfterCompletion == Spec => []NeverUsedAfterCompletion
<1>1. IInv => NeverUsedAfterCompletion
  BY DEF IInv, Handle, NeverUsedAfterCompletion
<1>. QED  BY <1>1, Inductive, PTL

\* A sleeping task has a job in the pool that will wake it.
THEOREM NoLostWakeup == Spec => []SleepersAreWoken
<1>1. IInv => SleepersAreWoken
  <2>. SUFFICES ASSUME IInv, NEW s \in Streams, phase[s] = "open", task[s] = "parked"
                PROVE  waits[s] /\ (QueuedOf(s) # {} \/ RunningOf(s) # {})
    BY DEF SleepersAreWoken
  <2>1. waits[s] /\ (HasQueued(s) \/ HasRunning(s))
    BY DEF IInv, Sleepers, Wakeups
  <2>2. HasQueued(s) => QueuedOf(s) # {}
    BY DEF HasQueued, QueuedOf
  <2>3. HasRunning(s) => RunningOf(s) # {}
    BY DEF HasRunning, RunningOf
  <2>. QED  BY <2>1, <2>2, <2>3
<1>. QED  BY <1>1, Inductive, PTL

\* The file handle has at most one owner.
THEOREM HandleHasOneOwner == Spec => []OneOwner
<1>1. IInv => OneOwner
  <2>. SUFFICES ASSUME IInv, NEW s \in Streams
                PROVE  \A a, b \in Owners(s) : a = b
    BY DEF OneOwner
  <2>1. \A j, k \in QueuedOf(s) : j = k
    BY DEF QueuedOf, IInv, JobsAlone
  <2>2. \A v, w \in RunningOf(s) : v = w
    BY DEF RunningOf, IInv, JobsAlone
  <2>3. QueuedOf(s) = {} \/ RunningOf(s) = {}
    BY DEF QueuedOf, RunningOf, IInv, JobsAlone
  <2>4. file[s] \/ slot[s].kind = "ok" => QueuedOf(s) = {} /\ RunningOf(s) = {}
    BY DEF QueuedOf, RunningOf, HasQueued, HasRunning, IInv, JobsGone, Empty
  <2>5. ~(file[s] /\ slot[s].kind = "ok")
    BY DEF IInv, TypeOK, Handle, Empty
  <2>6. CASE file[s]
    <3>1. Owners(s) = {<<"reader">>}
      BY <2>4, <2>5, <2>6 DEF Owners
    <3>. QED  BY <3>1
  <2>7. CASE ~file[s] /\ slot[s].kind = "ok"
    <3>1. Owners(s) = {<<"answer">>}
      BY <2>4, <2>7 DEF Owners
    <3>. QED  BY <3>1
  <2>8. CASE ~file[s] /\ slot[s].kind # "ok"
    <3>1. Owners(s) = {<<"queued", k>> : k \in QueuedOf(s)}
                        \cup {<<"running", w>> : w \in RunningOf(s)}
      BY <2>8 DEF Owners
    <3>. QED  BY <2>1, <2>2, <2>3, <3>1
  <2>. QED  BY <2>6, <2>7, <2>8
<1>. QED  BY <1>1, Inductive, PTL

-----------------------------------------------------------------------------
(* The reader implements FileBody *)

\* A step of the reader is a step of FileBody, or changes nothing there.
LEMMA StepImplementsFileBody ==
  IInv /\ [Next]_vars => [FB!Next]_(FB!vars)
<1>. SUFFICES ASSUME IInv, [Next]_vars PROVE [FB!Next]_(FB!vars)
  OBVIOUS
<1>1. ASSUME NEW s \in Streams, Open(s) PROVE FB!Begin(s)
  <2>1. PICK from \in 0..MaxLen, n \in 0..MaxLen :
          /\ from + n <= disk
          /\ start' = [start EXCEPT ![s] = from]
          /\ size' = [size EXCEPT ![s] = n]
    BY <1>1 DEF Open
  <2>2. from + n <= MaxLen
    BY <2>1, MaxLenAssumption DEF IInv, TypeOK
  <2>3. /\ phase[s] # "open" /\ phase' = [phase EXCEPT ![s] = "open"]
        /\ body' = [body EXCEPT ![s] = << >>]
    BY <1>1 DEF Open, Over
  <2>. QED  BY <2>1, <2>2, <2>3 DEF FB!Begin
<1>2. ASSUME NEW s \in Streams, PollReady(s) PROVE FB!Deliver(s)
  <2>. DEFINE n == slot[s].n
  <2>1. /\ slot[s].at = offset[s] /\ n <= size[s] - counter[s] /\ n \in Nat /\ n > 0
    BY <1>2, AnswerType, ChunkAssumption DEF IInv, PollReady, HandBack, Advance, JobsMatch, Reads
  <2>2. /\ start[s] \in Nat /\ counter[s] \in Nat /\ size[s] \in 0..MaxLen
        /\ slot[s].at = start[s] + counter[s]
    BY <2>1, MaxLenAssumption DEF IInv, TypeOK, Reader
  <2>3. n \in 1..MaxLen /\ counter[s] + n <= size[s]
    BY <2>1, <2>2, MaxLenAssumption
  <2>4. body[s] = Window(start[s], counter[s])
    BY DEF IInv, Bodies
  <2>5. Len(body[s]) = counter[s]
    <3>1. Len(Window(start[s], counter[s])) = counter[s]
      BY <2>2, WindowType
    <3>. QED  BY <2>4, <3>1, Zenon
  <2>6. Window(start[s], counter[s]) \o Window(start[s] + counter[s], n)
          = Window(start[s], counter[s] + n)
    BY <2>1, <2>2, WindowConcat
  <2>7. /\ body' = [body EXCEPT ![s] = body[s] \o Window(slot[s].at, n)]
        /\ phase[s] = "open" /\ UNCHANGED <<phase, start, size>>
    BY <1>2 DEF PollReady, HandBack, Advance, Polled
  <2>. HIDE DEF n
  <2>8. body' = [body EXCEPT ![s] = Window(start[s], Len(body[s]) + n)]
    BY <2>2, <2>4, <2>5, <2>6, <2>7, Zenon
  <2>9. body' = [body EXCEPT ![s] = FB!Window(start[s], Len(body[s]) + n)]
    BY <2>8 DEF Window, FB!Window
  <2>. QED  BY <2>3, <2>5, <2>7, <2>9 DEF FB!Deliver
<1>3. ASSUME NEW s \in Streams, PollError(s) PROVE FB!Abort(s)
  BY <1>3 DEF PollError, Close, DropHandle, Polled, FB!Abort
<1>4. ASSUME NEW s \in Streams, PollEnd(s) PROVE FB!End(s)
  <2>1. body[s] = Window(start[s], size[s])
    BY <1>4 DEF IInv, Bodies, PollEnd
  <2>2. body[s] = FB!Window(start[s], size[s])
    BY <2>1 DEF Window, FB!Window
  <2>. QED  BY <1>4, <2>2 DEF PollEnd, Close, DropHandle, Polled, FB!End
<1>5. ASSUME NEW s \in Streams, PollRead(s), ~file[s] PROVE FALSE
  BY <1>5, NoPanicStep DEF PollRead, PollPanic
<1>6. ASSUME NEW s \in Streams, DropBody(s) PROVE FB!Abort(s)
  BY <1>6 DEF DropBody, Close, DropHandle, FB!Abort
<1>7. ASSUME NEW s \in Streams, PollPending(s) \/ (PollRead(s) /\ file[s])
      PROVE  UNCHANGED FB!vars
  BY <1>7 DEF PollPending, PollRead, PollSpawn, readerVars, FB!vars
<1>8. ASSUME NEW w \in Workers, Take(w) \/ ReadChunk(w) \/ ReadFails(w)
      PROVE  UNCHANGED FB!vars
  BY <1>8 DEF Take, ReadChunk, ReadFails, readerVars, FB!vars
<1>9. EditFile \/ UNCHANGED vars => UNCHANGED FB!vars
  BY DEF EditFile, readerVars, vars, FB!vars
<1>. QED
  BY <1>1, <1>2, <1>3, <1>4, <1>5, <1>6, <1>7, <1>8, <1>9 DEF Next, Poll, FB!Next

\* Chunks are non-empty and continue the window; the end of the stream means
\* that all of the window was sent.
THEOREM ImplementsFileBody == Spec => KeepsFileBody
<1>1. Init => FB!Init
  BY DEF Init, FB!Init
<1>. QED
  BY <1>1, StepImplementsFileBody, Inductive, PTL DEF Spec, KeepsFileBody, FB!Spec
=============================================================================
