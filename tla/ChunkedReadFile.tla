-------------------------- MODULE ChunkedReadFile ---------------------------
(***************************************************************************)
(* The body of a file response: fs.rs, ChunkedReadFile.                    *)
(*                                                                         *)
(* A ChunkedReadFile is polled by the connection that writes it out.  It   *)
(* owns the file handle; to read a chunk it moves the handle into a job on *)
(* a CpuPool and keeps the job's CpuFuture in `fut`; the job hands back    *)
(* the handle with the bytes.  Several streams share one pool.             *)
(*                                                                         *)
(* Three kinds of process interleave here:                                 *)
(*   - the event loops, polling, dropping and starting the streams;        *)
(*   - the pool's workers, taking jobs in FIFO order and completing them;  *)
(*   - the world outside, which truncates or extends the file on disk.     *)
(*                                                                         *)
(* Data is abstracted to positions: the byte at position p of the file is  *)
(* p, so a body is a sequence of positions.                                *)
(***************************************************************************)
EXTENDS Integers, Sequences

CONSTANTS
  Streams,    \* response slots; a slot is reused after its response is over
  Workers,    \* threads of the CpuPool
  Chunk,      \* 65_536 in the code: most bytes read by one job
  MaxLen,     \* bound on the length of the file
  MaxEdits,   \* bound on the changes made to the file by others
  Prompt      \* the streams whose client keeps reading

ASSUME ChunkAssumption  == Chunk \in Nat \ {0}
ASSUME MaxLenAssumption == MaxLen \in Nat
ASSUME EditsAssumption  == MaxEdits \in Nat
ASSUME PromptAssumption == Prompt \subseteq Streams

VARIABLES
  disk,      \* length of the file on disk
  edits,     \* changes made to it so far
  phase,     \* what became of the response in slot s
  start,     \* the offset the reader was created with
  size,      \* ChunkedReadFile.size
  offset,    \* ChunkedReadFile.offset: where the next job reads
  counter,   \* ChunkedReadFile.counter: bytes handed over
  file,      \* ChunkedReadFile.file is Some
  fut,       \* ChunkedReadFile.fut is Some
  task,      \* "woken": will be polled; "polling": inside poll; "parked"
  waits,     \* the task is registered with the CpuFuture
  body,      \* positions of the bytes handed over (what the client got)
  queue,     \* jobs of the pool not yet taken, in FIFO order
  running,   \* the job a worker is busy with, or NoJob
  slot       \* what the job of stream s has answered its CpuFuture

readerVars == <<phase, start, size, offset, counter, file, body>>
poolVars   == <<queue, running, slot>>
diskVars   == <<disk, edits>>
vars == <<disk, edits, phase, start, size, offset, counter, file, fut, task,
          waits, body, queue, running, slot>>

-----------------------------------------------------------------------------
(* Values *)

NoJob  == [kind |-> "none"]
Empty  == [kind |-> "empty"]
Failed == [kind |-> "err"]

\* What the closure given to spawn_fn captures.
Jobs == [kind : {"job"}, of : Streams, offset : 0..MaxLen, max : 1..Chunk]

\* Ok((file, bytes)): the handle, and the bytes from position `at`.
Reads == [kind : {"ok"}, at : 0..MaxLen, n : 1..Chunk]

Over == {"idle", "done", "error", "dropped", "panicked"}

Min(a, b) == IF a <= b THEN a ELSE b

Window(from, n) == [k \in 1..n |-> from + k - 1]

QueuedOf(s)  == {i \in 1..Len(queue) : queue[i].of = s}
RunningOf(s) == {w \in Workers : running[w].kind = "job" /\ running[w].of = s}

\* Everything that holds the file handle of slot s.
Owners(s) ==
       (IF file[s] THEN {<<"reader">>} ELSE {})
  \cup {<<"queued", i>> : i \in QueuedOf(s)}
  \cup {<<"running", w>> : w \in RunningOf(s)}
  \cup (IF slot[s].kind = "ok" THEN {<<"answer">>} ELSE {})

-----------------------------------------------------------------------------
Init ==
  /\ disk \in 0..MaxLen
  /\ edits = 0
  /\ phase   = [s \in Streams |-> "idle"]
  /\ start   = [s \in Streams |-> 0]
  /\ size    = [s \in Streams |-> 0]
  /\ offset  = [s \in Streams |-> 0]
  /\ counter = [s \in Streams |-> 0]
  /\ file    = [s \in Streams |-> FALSE]
  /\ fut     = [s \in Streams |-> FALSE]
  /\ task    = [s \in Streams |-> "parked"]
  /\ waits   = [s \in Streams |-> FALSE]
  /\ body    = [s \in Streams |-> << >>]
  /\ queue   = << >>
  /\ running = [w \in Workers |-> NoJob]
  /\ slot    = [s \in Streams |-> Empty]

(***************************************************************************)
(* Event loop                                                              *)
(***************************************************************************)

\* NamedFile::open reads the metadata (md.len() = disk) and respond_to
\* builds the reader: the whole file when there is no Range header or the
\* status is not 200, else the first range HttpRange::parse returned, which
\* lies inside 0..md.len().  A slot is one response at a time, and the job of
\* the last response is gone before the slot is reused.
Open(s) ==
  /\ phase[s] \in Over
  /\ Owners(s) = {}
  /\ \E from, n \in 0..MaxLen :
       /\ from + n <= disk
       /\ start'  = [start  EXCEPT ![s] = from]
       /\ offset' = [offset EXCEPT ![s] = from]
       /\ size'   = [size   EXCEPT ![s] = n]
  /\ phase'   = [phase   EXCEPT ![s] = "open"]
  /\ counter' = [counter EXCEPT ![s] = 0]
  /\ file'    = [file    EXCEPT ![s] = TRUE]
  /\ fut'     = [fut     EXCEPT ![s] = FALSE]
  /\ task'    = [task    EXCEPT ![s] = "woken"]
  /\ waits'   = [waits   EXCEPT ![s] = FALSE]
  /\ body'    = [body    EXCEPT ![s] = << >>]
  /\ slot'    = [slot    EXCEPT ![s] = Empty]
  /\ UNCHANGED <<disk, edits, queue, running>>

\* The task is polled when woken, and poll calls itself after a spawn.
Polled(s) == phase[s] = "open" /\ task[s] \in {"woken", "polling"}

\* Mutant: the connection keeps a reader that is done.
DropHandle_Kept(s) == UNCHANGED file

\* The handle the reader holds is closed with it.
DropHandle(s) == file' = [file EXCEPT ![s] = FALSE]

\* The response is over: the connection drops the reader, and with it the
\* handle it holds, the CpuFuture, and an answer nobody will read.
Close(s, how) ==
  /\ phase' = [phase EXCEPT ![s] = how]
  /\ DropHandle(s)
  /\ fut'   = [fut   EXCEPT ![s] = FALSE]
  /\ task'  = [task  EXCEPT ![s] = "parked"]
  /\ waits' = [waits EXCEPT ![s] = FALSE]
  /\ slot'  = [slot  EXCEPT ![s] = Empty]

\* Mutant: the handle the job returned is not stored.
HandBack_Forgotten(s) == UNCHANGED file

\* self.file = Some(file)
HandBack(s) == file' = [file EXCEPT ![s] = TRUE]

\* Mutant: only the counter moves on.
Advance_CounterOnly(s) ==
  /\ offset'  = offset
  /\ counter' = [counter EXCEPT ![s] = @ + slot[s].n]

\* offset and counter move on by the length of what was read.
Advance(s) ==
  /\ offset'  = [offset  EXCEPT ![s] = @ + slot[s].n]
  /\ counter' = [counter EXCEPT ![s] = @ + slot[s].n]

\* fut is Some and its job has answered Ok: the handle comes back and the
\* chunk goes out.  The connection polls again once it has written it.
PollReady(s) ==
  /\ Polled(s) /\ fut[s] /\ slot[s].kind = "ok"
  /\ fut'     = [fut     EXCEPT ![s] = FALSE]
  /\ HandBack(s)
  /\ Advance(s)
  /\ body'    = [body    EXCEPT ![s] = @ \o Window(slot[s].at, slot[s].n)]
  /\ slot'    = [slot    EXCEPT ![s] = Empty]
  /\ task'    = [task    EXCEPT ![s] = "woken"]
  /\ waits'   = [waits   EXCEPT ![s] = FALSE]
  /\ UNCHANGED <<disk, edits, phase, start, size, queue, running>>

\* fut.poll()? returns the job's error, and the connection is closed.
PollError(s) ==
  /\ Polled(s) /\ fut[s] /\ slot[s].kind = "err"
  /\ Close(s, "error")
  /\ UNCHANGED <<disk, edits, start, size, offset, counter, body, queue, running>>

\* fut.poll() is NotReady: the task is registered with the CpuFuture.
PollPending(s) ==
  /\ Polled(s) /\ fut[s] /\ slot[s].kind = "empty"
  /\ task'  = [task  EXCEPT ![s] = "parked"]
  /\ waits' = [waits EXCEPT ![s] = TRUE]
  /\ UNCHANGED <<diskVars, readerVars, fut, poolVars>>

\* fut is None and size = counter: end of stream.
PollEnd(s) ==
  /\ Polled(s) /\ ~fut[s] /\ size[s] = counter[s]
  /\ Close(s, "done")
  /\ UNCHANGED <<disk, edits, start, size, offset, counter, body, queue, running>>

\* Mutant: every job reads a full chunk, also past the window's end.
NextJob_FullChunk(s) ==
  [kind |-> "job", of |-> s, offset |-> offset[s], max |-> Chunk]

\* The closure of the next read: `size`, `offset` and `counter` are copied
\* when it is made, and `size.saturating_sub(counter)` cannot go below 0.
NextJob(s) ==
  [kind |-> "job", of |-> s, offset |-> offset[s],
   max |-> Min(IF size[s] > counter[s] THEN size[s] - counter[s] ELSE 0, Chunk)]

\* Mutant: the job gets a duplicate of the handle.
TakeHandle_Duplicated(s) == UNCHANGED file

\* self.file.take()
TakeHandle(s) == file' = [file EXCEPT ![s] = FALSE]

\* Mutant: poll returns NotReady after the spawn.
PollAgain_NotReady(s) == task' = [task EXCEPT ![s] = "parked"]

\* self.poll(): poll goes on with the new future before it returns.
PollAgain(s) == task' = [task EXCEPT ![s] = "polling"]

\* fut is None and there is more to read.
WantsRead(s) == Polled(s) /\ ~fut[s] /\ size[s] # counter[s]

\* The handle is moved into a new job and poll calls itself, so that the new
\* future is polled before it returns.
PollSpawn(s) ==
  /\ WantsRead(s)
  /\ TakeHandle(s)
  /\ fut'   = [fut EXCEPT ![s] = TRUE]
  /\ queue' = Append(queue, NextJob(s))
  /\ PollAgain(s)
  /\ UNCHANGED <<disk, edits, phase, start, size, offset, counter, waits, body,
                 running, slot>>

\* self.file.take().expect("Use after completion") on a None.
PollPanic(s) ==
  /\ WantsRead(s)
  /\ Close(s, "panicked")
  /\ UNCHANGED <<disk, edits, start, size, offset, counter, body, queue, running>>

PollRead(s) == IF file[s] THEN PollSpawn(s) ELSE PollPanic(s)

Poll(s) ==
  \/ PollReady(s) \/ PollError(s) \/ PollPending(s)
  \/ PollEnd(s) \/ PollRead(s)

\* The client goes away: the reader is dropped between two polls.
DropBody(s) ==
  /\ phase[s] = "open" /\ task[s] # "polling"
  /\ Close(s, "dropped")
  /\ UNCHANGED <<disk, edits, start, size, offset, counter, body, queue, running>>

(***************************************************************************)
(* CpuPool (external: futures-cpupool)                                     *)
(***************************************************************************)

\* A free worker takes the oldest job.  A job whose CpuFuture was dropped is
\* not run: it is dropped, and the handle with it.
Take(w) ==
  /\ running[w] = NoJob /\ queue # << >>
  /\ queue' = Tail(queue)
  /\ running' = [running EXCEPT ![w] =
                   IF fut[Head(queue).of] THEN Head(queue) ELSE NoJob]
  /\ UNCHANGED <<disk, edits, readerVars, fut, task, waits, slot>>

\* The worker is done with its job.  The answer is lost if the CpuFuture was
\* dropped meanwhile; else a task registered with the CpuFuture is woken.
Answer(w, result) ==
  LET s == running[w].of IN
  /\ running' = [running EXCEPT ![w] = NoJob]
  /\ slot' = [slot EXCEPT ![s] = IF fut[s] THEN result ELSE Empty]
  /\ task' = [task EXCEPT ![s] = IF fut[s] /\ waits[s] THEN "woken" ELSE @]
  /\ waits' = [waits EXCEPT ![s] = FALSE]

\* Bytes that `seek(offset)` and `take(max).read_to_end` find in the file.
Available(job) == IF disk > job.offset THEN Min(job.max, disk - job.offset) ELSE 0

\* Mutant: an empty read is passed on as an empty chunk.
ReadResult_EmptyChunk(job, n) == [kind |-> "ok", at |-> job.offset, n |-> n]

\* Reading nothing is an error, UnexpectedEof.
ReadResult(job, n) ==
  IF n = 0 THEN Failed ELSE [kind |-> "ok", at |-> job.offset, n |-> n]

\* The body of the closure: seek and read.
ReadChunk(w) ==
  /\ running[w].kind = "job"
  /\ Answer(w, ReadResult(running[w], Available(running[w])))
  /\ UNCHANGED <<disk, edits, readerVars, fut, queue>>

\* seek()? or read_to_end()? fails.
ReadFails(w) ==
  /\ running[w].kind = "job"
  /\ Answer(w, Failed)
  /\ UNCHANGED <<disk, edits, readerVars, fut, queue>>

(***************************************************************************)
(* The world outside                                                       *)
(***************************************************************************)

\* Another process truncates the file or appends to it.
EditFile ==
  /\ edits < MaxEdits
  /\ \E n \in 0..MaxLen : n # disk /\ disk' = n
  /\ edits' = edits + 1
  /\ UNCHANGED <<readerVars, fut, task, waits, poolVars>>

-----------------------------------------------------------------------------
Next ==
  \/ \E s \in Streams : Open(s) \/ Poll(s) \/ DropBody(s)
  \/ \E w \in Workers : Take(w) \/ ReadChunk(w) \/ ReadFails(w)
  \/ EditFile

Spec == Init /\ [][Next]_vars
-----------------------------------------------------------------------------
(***************************************************************************)
(* Fairness.  A woken task is polled again: the executor runs it, and the  *)
(* connection asks for the next chunk, as long as its client keeps reading.*)
(* Nothing of the kind is assumed of the streams outside Prompt, whose     *)
(* clients may stop reading and never close.  Worker threads make progress.*)
(***************************************************************************)
Fairness ==
  /\ \A s \in Prompt  : WF_vars(Poll(s))
  /\ \A w \in Workers : WF_vars(Take(w) \/ ReadChunk(w) \/ ReadFails(w))

FairSpec == Spec /\ Fairness

-----------------------------------------------------------------------------
(* Properties *)

\* Types.
TypeOK ==
  /\ disk \in 0..MaxLen
  /\ edits \in 0..MaxEdits
  /\ phase   \in [Streams -> Over \cup {"open"}]
  /\ start   \in [Streams -> 0..MaxLen]
  /\ size    \in [Streams -> 0..MaxLen]
  /\ offset  \in [Streams -> 0..MaxLen]
  /\ counter \in [Streams -> 0..MaxLen]
  /\ file    \in [Streams -> BOOLEAN]
  /\ fut     \in [Streams -> BOOLEAN]
  /\ task    \in [Streams -> {"woken", "polling", "parked"}]
  /\ waits   \in [Streams -> BOOLEAN]
  /\ body    \in [Streams -> Seq(0..MaxLen)]
  /\ queue   \in Seq(Jobs)
  /\ running \in [Workers -> Jobs \cup {NoJob}]
  /\ slot    \in [Streams -> Reads \cup {Empty, Failed}]

\* Whatever the file did meanwhile, the bytes handed over are exactly the
\* first `counter` bytes of the announced window: none is lost, repeated or
\* reordered between the jobs that read them (offset and counter advance
\* together, by what a job really read), and never more than was announced.
BodyIsWindowPrefix ==
  \A s \in Streams :
    /\ body[s] = Window(start[s], counter[s])
    /\ counter[s] <= size[s]

\* The handle a stream moves from the reader to the job and back has one
\* owner at any time, also when the response was dropped under a job.
OneOwner == \A s \in Streams : \A a, b \in Owners(s) : a = b

\* `expect("Use after completion")` cannot fire: whenever poll wants to
\* spawn a read, the job before has given the handle back.
NeverUsedAfterCompletion == \A s \in Streams : phase[s] # "panicked"

\* No lost wakeup: a task that went to sleep is registered with its future,
\* and the job that will wake it is still queued or running.
SleepersAreWoken ==
  \A s \in Streams : phase[s] = "open" /\ task[s] = "parked" =>
    /\ waits[s]
    /\ QueuedOf(s) # {} \/ RunningOf(s) # {}

\* A response whose client keeps reading comes to an end, even if other
\* clients stop reading for ever: a stalled stream holds no worker.
PromptStreamsEnd ==
  \A s \in Prompt : phase[s] = "open" ~> phase[s] # "open"

\* After a response is over its file handle is closed, also when it was
\* dropped with a job queued or running.
HandlesAreReleased ==
  \A s \in Streams : phase[s] \in Over ~> Owners(s) = {}

\* The reader keeps the promise of FileBody: chunks are non-empty, continue
\* the window, and the end of the stream means the whole window was sent; a
\* file that got shorter ends in an error, not in a short body.
FB == INSTANCE FileBody WITH phase <- phase, start <- start, size <- size, body <- body
KeepsFileBody == FB!Spec
=============================================================================
