------------------------------ MODULE FileBody ------------------------------
(***************************************************************************)
(* What a file response promises its client (fs.rs, NamedFile::respond_to  *)
(* with ChunkedReadFile as its body), said without the reader, its thread  *)
(* pool or the file.                                                       *)
(*                                                                         *)
(* A response announces a window of the file: `size[s]` bytes from byte    *)
(* `start[s]`.  The body then grows by non-empty chunks that continue the  *)
(* window where the last one ended.  The end of the stream is signalled    *)
(* only when the whole window has been handed over; a response that cannot *)
(* be completed ends in an error, or is dropped by the connection.         *)
(***************************************************************************)
EXTENDS Naturals, Sequences

CONSTANTS Streams,  \* the response slots of the server's connections
          MaxLen    \* bound on the length of the file

VARIABLES phase,    \* "idle", "open", or how the response ended
          start,    \* first byte of the announced window
          size,     \* number of bytes announced
          body      \* positions in the file of the bytes handed over so far

vars == <<phase, start, size, body>>

\* The k-th byte of a window from position `from` is the byte at from + k - 1.
Window(from, n) == [k \in 1..n |-> from + k - 1]

TypeOK ==
  /\ phase \in [Streams -> {"idle", "open", "done", "error", "dropped"}]
  /\ start \in [Streams -> 0..MaxLen]
  /\ size  \in [Streams -> 0..MaxLen]
  /\ body  \in [Streams -> Seq(0..MaxLen)]

Init ==
  /\ phase = [s \in Streams |-> "idle"]
  /\ start = [s \in Streams |-> 0]
  /\ size  = [s \in Streams |-> 0]
  /\ body  = [s \in Streams |-> << >>]

\* A new response is started in slot s with a window inside the file.
Begin(s) ==
  /\ phase[s] # "open"
  /\ \E from, n \in 0..MaxLen :
       /\ from + n <= MaxLen
       /\ start' = [start EXCEPT ![s] = from]
       /\ size'  = [size  EXCEPT ![s] = n]
  /\ phase' = [phase EXCEPT ![s] = "open"]
  /\ body'  = [body  EXCEPT ![s] = << >>]

\* A non-empty chunk continues the window and stays inside it.
Deliver(s) ==
  /\ phase[s] = "open"
  /\ \E n \in 1..MaxLen :
       /\ Len(body[s]) + n <= size[s]
       /\ body' = [body EXCEPT ![s] = Window(start[s], Len(body[s]) + n)]
  /\ UNCHANGED <<phase, start, size>>

\* End of stream: only after the whole window.
End(s) ==
  /\ phase[s] = "open"
  /\ body[s] = Window(start[s], size[s])
  /\ phase' = [phase EXCEPT ![s] = "done"]
  /\ UNCHANGED <<start, size, body>>

\* The response is given up, by an error or by the connection.
Abort(s) ==
  /\ phase[s] = "open"
  /\ \E how \in {"error", "dropped"} : phase' = [phase EXCEPT ![s] = how]
  /\ UNCHANGED <<start, size, body>>

Next == \E s \in Streams : Begin(s) \/ Deliver(s) \/ End(s) \/ Abort(s)

Spec == Init /\ [][Next]_vars
=============================================================================
