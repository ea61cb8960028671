------------------------------- MODULE Compress -------------------------------
(***************************************************************************)
(* The compression middleware (middleware/compress.rs): it negotiates the  *)
(* encoding of a response, says so in the head and puts an Encoder around  *)
(* the body.                                                               *)
(*                                                                         *)
(* The connection pulls the encoder, which pulls the body inside and       *)
(* writes what comes to a compressor.  A compressor keeps what it likes    *)
(* until it is finished; when it has put out nothing the encoder pulls the *)
(* inner body again, in the same poll.  Content is counted in chunks: it   *)
(* goes through in order, so a lost or repeated chunk shows in the counts. *)
(* Responses share nothing: one after the other is enough.                 *)
(***************************************************************************)
EXTENDS Integers, Sequences

CONSTANTS
  Configured,  \* the encoding Compress::new got
  Compiled,    \* the encodings of the Cargo features
  Accepts,     \* the Accept-Encoding headers of clients
  MaxChunks    \* bound on the chunks of a body

Encodings == {"br", "gzip", "deflate"}

\* q: whether the element has a quality parameter.
Accepted == [encoding : Encodings \cup {"identity"}, q : BOOLEAN]

ASSUME CompressAssumption ==
  /\ Configured \in Encodings \cup {"identity", "auto"} /\ Compiled \subseteq Encodings
  /\ Accepts \subseteq Seq(Accepted) \* << >>: no header
  /\ MaxChunks \in Nat

\* ownEncoding, ownLength: the application has set Content-Encoding, or a
\* Content-Length that is right for the body it responds with.  noChunking: it
\* has called no_chunking.  switching: status 101.  sized: a stream that knows
\* its length.  fused: a stream that may be polled after its end.
Responses ==
  [kind : {"none", "empty", "bytes", "stream"}, ownEncoding : BOOLEAN,
   ownLength : BOOLEAN, noChunking : BOOLEAN, switching : BOOLEAN, sized : BOOLEAN,
   fused : BOOLEAN]

VARIABLES
  phase,     \* of the response
  response,  \* what the application responded
  announced, \* the Content-Encoding sent: "own", "none" or an encoding
  noChunking,\* ResponseHead.no_chunking as sent
  framing,   \* BodyLength of the body: "sized" or "stream"
  encoder,   \* the Encoder's compressor, "none" without
  applied,   \* the compressor the response began with
  inner,     \* what the inner body gives when polled
  produced,  \* chunks it has given
  held,      \* chunks in the compressor
  sent,      \* chunks sent, compressed or not
  finished,  \* whether the compressor's last output is sent
  task,      \* "woken", "polling" (inside poll_next) or "parked"
  waits,     \* whether the inner body wakes the task
  failed     \* history: whether a compressor has failed

vars == <<phase, response, announced, noChunking, framing, encoder, applied, inner,
          produced, held, sent, finished, task, waits, failed>>

head == <<response, announced, noChunking, framing, applied>>

NoResponse ==
  [kind |-> "none", ownEncoding |-> FALSE, ownLength |-> FALSE, noChunking |-> FALSE,
   switching |-> FALSE, sized |-> FALSE, fused |-> TRUE]

Init ==
  /\ phase = "idle"
  /\ response = NoResponse
  /\ announced = "none" /\ noChunking = FALSE /\ framing = "sized"
  /\ encoder = "none" /\ applied = "none"
  /\ inner = "quiet" /\ produced = 0 /\ held = 0 /\ sent = 0 /\ finished = FALSE
  /\ task = "parked" /\ waits = FALSE /\ failed = FALSE

-----------------------------------------------------------------------------
(* Negotiation: AcceptEncoding::parse *)

\* ContentEncoding::quality, in tenths; and what becomes of "q=0.5": f64
\* cannot read the "q=", so any quality the client gives counts as 0.
Quality(a) ==
  IF a.q THEN 0
  ELSE CASE a.encoding = "br" -> 11 [] a.encoding = "gzip" -> 10
         [] a.encoding = "deflate" -> 9 [] a.encoding = "identity" -> 1

\* The first of the header sorted by quality; the sort is stable.
Best(accept) ==
  LET q(n) == Quality(accept[n]) IN
  CHOOSE n \in DOMAIN accept :
    \A k \in DOMAIN accept : q(n) > q(k) \/ (q(n) = q(k) /\ n <= k)

Negotiate(accept) ==
  IF accept = << >> THEN "identity"
  ELSE IF Configured = "auto" THEN accept[Best(accept)].encoding
  ELSE IF \E n \in DOMAIN accept : accept[n].encoding = Configured THEN Configured
  ELSE "identity"

-----------------------------------------------------------------------------
(* Encoder::body *)

\* Mutant: what has no encoder is not told apart.
NewEncoder_Any(encoding) == encoding

\* ContentEncoder::encoder: none for an encoding that is not compiled in.
NewEncoder(encoding) == IF encoding \in Compiled THEN encoding ELSE "none"

\* Whether Encoder::body announces an encoding and sets up an encoder.
Encodes(r, encoding) ==
  /\ ~r.ownEncoding
  /\ \/ r.kind = "bytes" /\ encoding \in Encodings
     \/ r.kind = "stream" /\ ~r.switching

\* Its compressor, "none" for none.
Applies(r, encoding) == IF Encodes(r, encoding) THEN NewEncoder(encoding) ELSE "none"

\* Encoder::length; a body in memory has its own.
Framing(r, encoding) ==
  IF r.kind = "stream" /\ (Applies(r, encoding) # "none" \/ ~r.sized)
  THEN "stream" ELSE "sized"

\* Mutant: no_chunking stays as the application has set it.
NoChunking_Kept(r, encoding) == r.noChunking

\* The head of a stream to be encoded asks for chunks again.
NoChunking(r, encoding) ==
  r.noChunking /\ ~(r.kind = "stream" /\ Encodes(r, encoding))

\* The head is updated.  A Content-Length in it is left there.
SendHead(r, encoding) ==
  /\ response'   = r
  /\ announced'  = IF Encodes(r, encoding) THEN encoding
                   ELSE IF r.ownEncoding THEN "own" ELSE "none"
  /\ noChunking' = NoChunking(r, encoding)
  /\ framing'    = Framing(r, encoding)
  /\ applied'    = Applies(r, encoding)

RespondStream(accept, r) ==
  /\ phase = "idle" /\ r.kind = "stream"
  /\ SendHead(r, Negotiate(accept))
  /\ phase'    = "open"
  /\ encoder'  = Applies(r, Negotiate(accept))
  /\ inner'    = "quiet" /\ task' = "woken"
  /\ produced' = 0 /\ sent' = 0 /\ held' = 0
  /\ finished' = FALSE /\ waits' = FALSE /\ failed' = FALSE

\* A body in memory is encoded at once, with `encoder(encoding).unwrap()`.  The
\* compressor may fail: an error of `write` is dropped, and `finish` gives an
\* end without the content; an error of `finish` is unwrapped.
RespondInMemory(accept, r) ==
  LET encoding == Negotiate(accept)
      applies  == Applies(r, encoding)
      one      == IF r.kind = "bytes" THEN 1 ELSE 0
  IN
  /\ phase = "idle" /\ r.kind # "stream"
  /\ SendHead(r, encoding)
  /\ \E written \in {0, one}, finishes \in BOOLEAN :
       /\ applies = "none" => written = one /\ finishes
       /\ IF finishes /\ (Encodes(r, encoding) => applies # "none")
          THEN phase' = "done" /\ sent' = written
          ELSE phase' = "panicked" /\ sent' = 0
       /\ finished' = (applies # "none" /\ finishes)
       /\ failed'   = (written # one \/ ~finishes)
  /\ inner'    = "ended" /\ task' = "parked" /\ encoder' = "none"
  /\ produced' = one /\ held' = 0
  /\ waits'    = FALSE

Respond(accept, r) == RespondStream(accept, r) \/ RespondInMemory(accept, r)

-----------------------------------------------------------------------------
(* Encoder::poll_next, one turn of its loop at a time *)

Polls == phase = "open" /\ task \in {"woken", "polling"}

Settle(how) == phase' = how /\ task' = "parked" /\ waits' = FALSE

\* NotReady is returned as the inner body returned it.
PollPending ==
  /\ Polls /\ inner = "quiet"
  /\ task' = "parked" /\ waits' = TRUE
  /\ UNCHANGED <<phase, head, encoder, inner, produced, held, sent, finished, failed>>

\* No encoder: the chunk is passed on.
PassChunk ==
  /\ Polls /\ inner = "chunk" /\ encoder = "none"
  /\ inner' = "quiet"
  /\ sent'  = sent + 1
  /\ task'  = "woken"
  /\ UNCHANGED <<phase, head, encoder, produced, held, finished, waits, failed>>

\* Mutant: NotReady when the compressor has put out nothing.
NoOutput_Parks == "parked"

\* The loop goes on.
NoOutput == "polling"

\* write: the compressor puts out some of what it holds, with or without
\* bytes of its own.  Everything put out is taken and returned.
WriteChunk ==
  /\ Polls /\ inner = "chunk" /\ encoder # "none"
  /\ inner' = "quiet"
  /\ \E out \in 0..(held + 1), bytes \in BOOLEAN :
       /\ out > 0 => bytes
       /\ held' = held + 1 - out
       /\ sent' = sent + out
       /\ task' = IF bytes THEN "woken" ELSE NoOutput
  /\ UNCHANGED <<phase, head, encoder, produced, finished, waits, failed>>

\* A compressor fails: the error is returned.
WriteFails ==
  /\ Polls /\ inner \in {"chunk", "end"} /\ encoder # "none"
  /\ inner'   = IF inner = "end" THEN "ended" ELSE "quiet"
  /\ encoder' = IF inner = "end" THEN "none" ELSE encoder
  /\ failed'  = TRUE
  /\ Settle("error")
  /\ UNCHANGED <<head, produced, held, sent, finished>>

\* Mutant: what the compressor holds at the end is not asked for.
FinishOutput_Forgotten == 0

\* finish puts out all that is held.
FinishOutput == held

\* The inner body ends: the encoder is taken and finished.  If that gives
\* bytes they are returned, and the end of the body with the next poll.
FinishEncoder ==
  /\ Polls /\ inner = "end" /\ encoder # "none"
  /\ inner'    = "ended"
  /\ encoder'  = "none"
  /\ held'     = 0
  /\ sent'     = sent + FinishOutput
  /\ finished' = TRUE
  /\ \E bytes \in BOOLEAN :
       /\ held > 0 => bytes
       /\ IF bytes THEN task' = "woken" /\ UNCHANGED <<phase, waits>>
                   ELSE Settle("done")
  /\ UNCHANGED <<head, produced, failed>>

\* No encoder, or none any more: the end is passed on.  After finish that
\* takes another poll of the inner body, which has ended before.
PollEnd ==
  /\ Polls /\ inner \in {"end", "ended"} /\ encoder = "none"
  /\ inner' = "ended"
  /\ Settle(IF inner = "ended" /\ ~response.fused THEN "panicked" ELSE "done")
  /\ UNCHANGED <<head, encoder, produced, held, sent, finished, failed>>

PollError ==
  /\ Polls /\ inner = "error"
  /\ Settle("error")
  /\ UNCHANGED <<head, encoder, inner, produced, held, sent, finished, failed>>

Poll ==
  \/ PollPending \/ PassChunk \/ WriteChunk \/ WriteFails \/ FinishEncoder \/ PollEnd
  \/ PollError

\* The inner body has a chunk, its end or an error to give (external).
Produce ==
  /\ phase = "open" /\ inner = "quiet"
  /\ \/ /\ produced < MaxChunks
        /\ inner' = "chunk" /\ produced' = produced + 1
     \/ /\ inner' \in {"end", "error"} /\ UNCHANGED produced
  /\ task'  = IF waits THEN "woken" ELSE task
  /\ waits' = FALSE
  /\ UNCHANGED <<phase, head, encoder, held, sent, finished, failed>>

\* The connection is closed between two polls.
Drop ==
  /\ phase = "open" /\ task # "polling"
  /\ Settle("dropped")
  /\ UNCHANGED <<head, encoder, inner, produced, held, sent, finished, failed>>

\* The response is over and its encoder dropped: nothing of it is left.
Release ==
  /\ phase \notin {"idle", "open"} /\ phase' = "idle"
  /\ response' = NoResponse
  /\ announced' = "none" /\ noChunking' = FALSE /\ framing' = "sized"
  /\ encoder' = "none" /\ applied' = "none"
  /\ inner' = "quiet" /\ produced' = 0 /\ held' = 0 /\ sent' = 0 /\ finished' = FALSE
  /\ task' = "parked" /\ waits' = FALSE /\ failed' = FALSE

Next ==
  \/ \E accept \in Accepts, r \in Responses : Respond(accept, r)
  \/ Poll \/ Produce \/ Drop \/ Release

Spec == Init /\ [][Next]_vars

(* Fairness.  The executor polls a woken task while the client reads, and  *)
(* the inner body does not stall for ever.                                 *)
FairSpec == Spec /\ WF_vars(Poll) /\ WF_vars(Produce)

-----------------------------------------------------------------------------
(* Properties *)

\* Types; no more is sent than the inner body gave.
TypeOK ==
  /\ phase \in {"idle", "open", "done", "error", "dropped", "panicked"}
  /\ response \in Responses
  /\ announced \in Encodings \cup {"own", "none", "identity"}
  /\ noChunking \in BOOLEAN /\ framing \in {"sized", "stream"}
  /\ encoder \in Compiled \cup {"none"} /\ applied \in Compiled \cup {"none"}
  /\ inner \in {"quiet", "chunk", "end", "error", "ended"}
  /\ produced \in 0..MaxChunks \cup {1} /\ held \in 0..produced /\ sent \in 0..produced
  /\ finished \in BOOLEAN /\ waits \in BOOLEAN /\ failed \in BOOLEAN
  /\ task \in {"woken", "polling", "parked"}

\* How a client of HTTP/1.1 finds the end of the body (external: actix-http,
\* which is only known from the tests, tests/test_server.rs:141-252 and
\* fs.rs:1524-1561): by the length of a body that knows it, whatever the head
\* says; else by chunks, with which a Content-Length does not count; where the
\* application has no chunks, by its Content-Length, or by the connection's end.
Delimiter ==
  IF framing = "sized" THEN "length"
  ELSE IF ~noChunking THEN "chunks"
  ELSE IF response.ownLength THEN "own length" ELSE "close"

\* What the head says of the body is what the client gets: the encoding it
\* names, once; and the length the application gave for its body decides where
\* it ends only if that body is sent as it is.
HeadFitsBody ==
  phase \in {"open", "done"} =>
    /\ response.ownEncoding /\ response.kind # "none" => announced = "own"
    /\ announced \in Encodings => applied = announced
    /\ announced \notin Encodings => applied = "none"
    /\ response.kind = "stream" /\ Delimiter \in {"length", "own length"} =>
         applied = "none"

\* When the client is told that the body is over it has all of it, and the
\* end the compressor puts on it.  Left out is a compressor that fails on a body
\* in memory: `let _ = enc.write(..)` loses the content ("TODO return error!").
DoneIsWhole ==
  phase = "done" => /\ inner = "ended" /\ held = 0
                    /\ finished <=> applied # "none"
                    /\ response.kind = "stream" \/ ~failed => sent = produced

\* A body that cannot be polled after its end fails the response only when
\* the client has everything.
ExtraPollIsLast ==
  phase = "panicked" /\ response.kind = "stream" => sent = produced /\ finished

\* No lost wakeup: a response that sleeps waits for its inner body, which has
\* nothing to give yet.
SleeperIsWoken ==
  phase = "open" /\ task = "parked" => waits /\ inner = "quiet"

\* A response comes to an end.
BodiesEnd == phase = "open" ~> phase # "open"

\* `ContentEncoder::encoder(encoding).unwrap()`: for an encoding that was
\* negotiated there is an encoder.
EncoderExists ==
  phase = "panicked" /\ response.kind = "bytes" => applied # "none"
=============================================================================
