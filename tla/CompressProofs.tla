--------------------------- MODULE CompressProofs ---------------------------
(***************************************************************************)
(* Theorems about Compress, for every configured encoding, set of Cargo    *)
(* features, set of Accept-Encoding headers and length of bodies.          *)
(*                                                                         *)
(* That a body is over only when it is whole needs to know, at every poll, *)
(* where its content is (Conserved) and whether the compressor still has   *)
(* to be finished (EncoderFits).                                           *)
(***************************************************************************)
EXTENDS Compress, Induction

-----------------------------------------------------------------------------
(* The inductive invariant *)

\* A chunk the inner body has given and the encoder has not taken.
Offered == IF inner = "chunk" THEN 1 ELSE 0

\* The types the proofs need.
Types ==
  /\ phase \in {"idle", "open", "done", "error", "dropped", "panicked"}
  /\ response \in Responses
  /\ encoder \in Compiled \cup {"none"} /\ applied \in Compiled \cup {"none"}
  /\ inner \in {"quiet", "chunk", "end", "error", "ended"}
  /\ produced \in Nat /\ held \in Nat /\ sent \in Nat
  /\ finished \in BOOLEAN /\ waits \in BOOLEAN /\ failed \in BOOLEAN
  /\ task \in {"woken", "polling", "parked"}

\* Unless a stream failed, what the inner body gave is sent, in the
\* compressor, or about to be taken.
Conserved ==
  response.kind = "stream" /\ phase \in {"open", "done", "panicked"} =>
    sent + held + Offered = produced

\* The encoder is the one the response began with until it is finished, which
\* happens at the end of the inner body; without one nothing is held.
EncoderFits ==
  /\ finished => encoder = "none" /\ applied # "none"
  /\ phase = "open" => /\ response.kind = "stream"
                       /\ encoder = (IF finished THEN "none" ELSE applied)
                       /\ encoder = "none" => held = 0
                       /\ finished <=> inner = "ended"

\* A compressor that fails on a stream fails the response.
FailureEnds == failed /\ response.kind = "stream" => phase = "error"

\* The task sleeps only where the inner body said that it would wake it.
Sleep == phase = "open" /\ task = "parked" => waits /\ inner = "quiet"

IInv ==
  /\ Types /\ Conserved /\ EncoderFits /\ FailureEnds /\ Sleep
  /\ DoneIsWhole /\ ExtraPollIsLast

-----------------------------------------------------------------------------
(* It holds initially and every action keeps it *)

LEMMA InitIInv == Init => IInv
<1> SUFFICES ASSUME Init PROVE IInv
  OBVIOUS
<1>1. Types BY DEF Init, NoResponse, Types, Responses
<1>2. Conserved BY DEF Init, Conserved
<1>3. EncoderFits /\ FailureEnds /\ Sleep BY DEF Init, EncoderFits, FailureEnds, Sleep
<1>4. DoneIsWhole /\ ExtraPollIsLast BY DEF Init, DoneIsWhole, ExtraPollIsLast
<1> QED BY <1>1, <1>2, <1>3, <1>4 DEF IInv

\* A response of which nothing is left is as good as none.
LEMMA ReleaseInits == Release => Init'
BY DEF Release, Init

LEMMA InitIInvNext == Init' => IInv'
BY InitIInv, PTL

LEMMA AppliesType ==
  ASSUME NEW r, NEW encoding
  PROVE  Applies(r, encoding) \in Compiled \cup {"none"}
BY DEF Applies, NewEncoder

\* A stream begins with nothing read.
LEMMA RespondStreamKeeps ==
  ASSUME NEW accept \in Accepts, NEW r \in Responses, IInv, RespondStream(accept, r)
  PROVE  IInv'
<1> DEFINE applies == Applies(r, Negotiate(accept))
<1>1. applies \in Compiled \cup {"none"}
  BY AppliesType
<1> HIDE DEF applies
<1>2. /\ phase' = "open" /\ response' = r /\ r.kind = "stream"
      /\ applied' = applies /\ encoder' = applies
      /\ inner' = "quiet" /\ task' = "woken"
      /\ produced' = 0 /\ sent' = 0 /\ held' = 0
      /\ finished' = FALSE /\ waits' = FALSE /\ failed' = FALSE
  BY DEF RespondStream, SendHead, applies
<1>3. Types'
  BY <1>1, <1>2 DEF Types
<1>4. (Conserved /\ EncoderFits /\ FailureEnds /\ Sleep)'
  BY <1>2 DEF Conserved, Offered, EncoderFits, FailureEnds, Sleep
<1>5. (DoneIsWhole /\ ExtraPollIsLast)'
  BY <1>2 DEF DoneIsWhole, ExtraPollIsLast
<1> QED BY <1>3, <1>4, <1>5 DEF IInv

\* What RespondInMemory leaves: `one` chunk at most, sent unless a compressor
\* failed on it, and the compressor's end whenever there is one.
LEMMA InMemory ==
  ASSUME NEW accept, NEW r \in Responses, RespondInMemory(accept, r)
  PROVE  LET applies == Applies(r, Negotiate(accept)) IN
         /\ response' = r /\ r.kind # "stream" /\ applied' = applies
         /\ phase' \in {"done", "panicked"}
         /\ produced' \in {0, 1} /\ sent' \in {0, 1} /\ sent' <= produced'
         /\ failed' \in BOOLEAN /\ finished' \in BOOLEAN
         /\ inner' = "ended" /\ task' = "parked" /\ encoder' = "none"
         /\ held' = 0 /\ waits' = FALSE
         /\ finished' => applies # "none"
         /\ phase' = "done" => /\ (finished' <=> applies # "none")
                               /\ (~failed' => sent' = produced')
         /\ phase' = "panicked" => r.kind = "bytes"
         /\ phase' = "panicked" /\ applies = "none" =>
              Encodes(r, Negotiate(accept))
         /\ phase' = "done" /\ Encodes(r, Negotiate(accept)) => applies # "none"
<1> DEFINE encoding == Negotiate(accept)
           applies  == Applies(r, encoding)
           encodes  == Encodes(r, encoding)
           one      == IF r.kind = "bytes" THEN 1 ELSE 0
<1>1. encodes \/ applies = "none"
  BY DEF Applies
<1>2. r.kind # "stream" /\ encodes => r.kind = "bytes"
  BY DEF Encodes
<1>3. PICK written \in {0, one}, finishes \in BOOLEAN :
        /\ applies = "none" => written = one /\ finishes
        /\ IF finishes /\ (encodes => applies # "none")
           THEN phase' = "done" /\ sent' = written
           ELSE phase' = "panicked" /\ sent' = 0
        /\ finished' = (applies # "none" /\ finishes)
        /\ failed'   = (written # one \/ ~finishes)
  BY Zenon DEF RespondInMemory
<1>4. /\ response' = r /\ r.kind # "stream" /\ applied' = applies
      /\ inner' = "ended" /\ task' = "parked" /\ encoder' = "none"
      /\ produced' = one /\ held' = 0 /\ waits' = FALSE
  BY DEF RespondInMemory, SendHead
<1> HIDE DEF encoding, applies, encodes
<1>5. finished' \in BOOLEAN /\ (finished' <=> applies # "none" /\ finishes)
  BY <1>3
<1>6. failed' \in BOOLEAN /\ (failed' <=> written # one \/ ~finishes)
  BY <1>3
<1>7. one \in {0, 1} /\ written \in {0, one}
  OBVIOUS
<1>8. /\ phase' \in {"done", "panicked"} /\ sent' \in {0, written}
      /\ phase' = "done" => finishes /\ sent' = written /\ (encodes => applies # "none")
      /\ phase' = "panicked" => ~finishes \/ (encodes /\ applies = "none")
  BY <1>3
<1>9. phase' = "panicked" => encodes
  BY <1>1, <1>3, <1>8
<1>10. phase' = "panicked" => r.kind = "bytes"
  BY <1>2, <1>4, <1>9
<1>11. phase' = "done" => /\ (finished' <=> applies # "none")
                         /\ (~failed' => sent' = produced')
  BY <1>4, <1>5, <1>6, <1>8
<1>12. /\ produced' \in {0, 1} /\ sent' \in {0, 1} /\ sent' <= produced'
  <2> HIDE DEF one
  <2> QED BY <1>4, <1>7, <1>8
<1> QED BY <1>4, <1>5, <1>6, <1>8, <1>9, <1>10, <1>11, <1>12 DEF encoding, applies, encodes

LEMMA RespondInMemoryKeeps ==
  ASSUME NEW accept \in Accepts, NEW r \in Responses, RespondInMemory(accept, r)
  PROVE  IInv'
<1> DEFINE applies == Applies(r, Negotiate(accept))
<1>1. applies \in Compiled \cup {"none"}
  BY AppliesType
<1>2. /\ response' = r /\ r.kind # "stream" /\ applied' = applies
      /\ phase' \in {"done", "panicked"}
      /\ produced' \in {0, 1} /\ sent' \in {0, 1}
      /\ failed' \in BOOLEAN /\ finished' \in BOOLEAN
      /\ inner' = "ended" /\ task' = "parked" /\ encoder' = "none"
      /\ held' = 0 /\ waits' = FALSE
      /\ finished' => applies # "none"
      /\ phase' = "done" => /\ (finished' <=> applies # "none")
                            /\ (~failed' => sent' = produced')
  BY InMemory
<1> HIDE DEF applies
<1>3. Types'
  <2>1. /\ phase' \in {"idle", "open", "done", "error", "dropped", "panicked"}
        /\ response' \in Responses
        /\ encoder' \in Compiled \cup {"none"} /\ applied' \in Compiled \cup {"none"}
    BY <1>1, <1>2
  <2>2. produced' \in Nat /\ sent' \in Nat
    BY <1>2
  <2>4. held' \in Nat /\ waits' \in BOOLEAN
    BY <1>2
  <2>3. /\ inner' \in {"quiet", "chunk", "end", "error", "ended"}
        /\ task' \in {"woken", "polling", "parked"}
    BY <1>2
  <2> QED BY <1>2, <2>1, <2>2, <2>3, <2>4 DEF Types
<1>4. (Conserved /\ EncoderFits /\ FailureEnds /\ Sleep)'
  BY <1>2 DEF Conserved, EncoderFits, FailureEnds, Sleep
<1>5. (DoneIsWhole /\ ExtraPollIsLast)'
  BY <1>2 DEF DoneIsWhole, ExtraPollIsLast
<1> QED BY <1>3, <1>4, <1>5 DEF IInv

LEMMA RespondKeeps ==
  ASSUME NEW accept \in Accepts, NEW r \in Responses, IInv, Respond(accept, r)
  PROVE  IInv'
BY RespondStreamKeeps, RespondInMemoryKeeps DEF Respond

LEMMA PollKeeps == ASSUME IInv, Poll PROVE IInv'
<1> USE CompressAssumption
    DEF IInv, Types, Conserved, Offered, EncoderFits, FailureEnds, Sleep, DoneIsWhole,
        ExtraPollIsLast, Encodings, Polls, Settle, head
<1>1. CASE PollPending   BY <1>1 DEF PollPending
<1>2. CASE PassChunk     BY <1>2 DEF PassChunk
<1>3. CASE WriteChunk
  <2>1. Types'
    BY <1>3 DEF WriteChunk, NoOutput
  <2>2. (Conserved /\ EncoderFits /\ FailureEnds)'
    BY <1>3 DEF WriteChunk, NoOutput
  <2>3. (Sleep /\ DoneIsWhole /\ ExtraPollIsLast)'
    BY <1>3 DEF WriteChunk, NoOutput
  <2> QED BY <2>1, <2>2, <2>3
<1>4. CASE WriteFails
  <2>1. Types'
    BY <1>4 DEF WriteFails
  <2>2. (Conserved /\ EncoderFits /\ FailureEnds)'
    BY <1>4 DEF WriteFails
  <2>3. (Sleep /\ DoneIsWhole /\ ExtraPollIsLast)'
    BY <1>4 DEF WriteFails
  <2> QED BY <2>1, <2>2, <2>3
<1>5. CASE FinishEncoder
  <2>1. \/ phase' = phase /\ task' = "woken" /\ waits' = waits
        \/ ~(held > 0) /\ phase' = "done" /\ task' = "parked" /\ ~waits'
    BY <1>5, Zenon DEF FinishEncoder
  <2>2. waits' \in BOOLEAN
    BY <1>5, Zenon DEF FinishEncoder
  <2>3. /\ phase = "open" /\ inner = "end" /\ encoder # "none"
        /\ inner' = "ended" /\ encoder' = "none" /\ held' = 0 /\ sent' = sent + held
        /\ finished' \in BOOLEAN /\ finished'
        /\ UNCHANGED <<response, applied, produced, failed>>
    BY <1>5 DEF FinishEncoder, FinishOutput
  <2>4. Types'
    BY <2>1, <2>2, <2>3
  <2>5. (Conserved /\ EncoderFits /\ FailureEnds)'
    BY <2>1, <2>3
  <2>6. (Sleep /\ DoneIsWhole /\ ExtraPollIsLast)'
    BY <2>1, <2>3
  <2> QED BY <2>4, <2>5, <2>6
<1>6. CASE PollEnd
  <2>1. Types'
    BY <1>6 DEF PollEnd
  <2>2. (Conserved /\ EncoderFits /\ FailureEnds)'
    BY <1>6 DEF PollEnd
  <2>3. (Sleep /\ DoneIsWhole /\ ExtraPollIsLast)'
    BY <1>6 DEF PollEnd
  <2> QED BY <2>1, <2>2, <2>3
<1>7. CASE PollError     BY <1>7 DEF PollError
<1> QED BY <1>1, <1>2, <1>3, <1>4, <1>5, <1>6, <1>7 DEF Poll

LEMMA OthersKeep == ASSUME IInv, Produce \/ Drop PROVE IInv'
<1> USE DEF IInv, Types, Conserved, Offered, EncoderFits, FailureEnds, Sleep, DoneIsWhole,
            ExtraPollIsLast, head
<1>1. CASE Produce
  <2>1. ~waits' /\ waits' \in BOOLEAN /\ task' = (IF waits THEN "woken" ELSE task)
    BY <1>1 DEF Produce
  <2>2. \/ inner' = "chunk" /\ produced' = produced + 1
        \/ inner' \in {"end", "error"} /\ produced' = produced
    BY <1>1, Zenon DEF Produce
  <2>3. /\ phase = "open" /\ inner = "quiet"
        /\ UNCHANGED <<phase, response, applied, encoder, held, sent, finished, failed>>
    BY <1>1 DEF Produce
  <2>4. Types'
    BY <2>1, <2>2, <2>3
  <2>5. (Conserved /\ EncoderFits /\ FailureEnds)'
    BY <2>2, <2>3
  <2>6. (Sleep /\ DoneIsWhole /\ ExtraPollIsLast)'
    BY <2>1, <2>3
  <2> QED BY <2>4, <2>5, <2>6
<1>2. CASE Drop    BY <1>2 DEF Drop, Settle
<1> QED BY <1>1, <1>2

LEMMA NextKeeps == IInv /\ [Next]_vars => IInv'
<1> SUFFICES ASSUME IInv, [Next]_vars PROVE IInv'
  OBVIOUS
<1>1. CASE \E accept \in Accepts, r \in Responses : Respond(accept, r)
  BY <1>1, RespondKeeps
<1>2. CASE Poll
  BY <1>2, PollKeeps
<1>3. CASE Produce \/ Drop
  BY <1>3, OthersKeep
<1>4. CASE Release
  BY <1>4, ReleaseInits, InitIInvNext
<1>5. CASE UNCHANGED vars
  <2>1. UNCHANGED <<phase, response, encoder, applied, inner, produced, held, sent,
                    finished, task, waits, failed>>
    BY <1>5 DEF vars
  <2>2. Types'
    BY <2>1 DEF IInv, Types
  <2>3. (Conserved /\ EncoderFits /\ FailureEnds)'
    BY <2>1 DEF IInv, Conserved, Offered, EncoderFits, FailureEnds
  <2>4. (Sleep /\ DoneIsWhole /\ ExtraPollIsLast)'
    BY <2>1 DEF IInv, Sleep, DoneIsWhole, ExtraPollIsLast
  <2> QED BY <2>2, <2>3, <2>4 DEF IInv
<1> QED BY <1>1, <1>2, <1>3, <1>4, <1>5 DEF Next

LEMMA Invariance == Spec => []IInv
BY InitIInv, NextKeeps, PTL DEF Spec

-----------------------------------------------------------------------------
(* The theorems *)

\* The client is told that the body is over only when it has all of it, and
\* the end the compressor puts on it (Encoder::poll_next); with a body in memory
\* also if a compressor could not do its work (Encoder::body drops its error),
\* in which case only the end is sure.
THEOREM WholeBodies == Spec => []DoneIsWhole
<1>1. IInv => DoneIsWhole BY DEF IInv
<1> QED BY <1>1, Invariance, PTL

\* The poll of the inner body after its end comes when everything is sent.
THEOREM ExtraPollHarmless == Spec => []ExtraPollIsLast
<1>1. IInv => ExtraPollIsLast BY DEF IInv
<1> QED BY <1>1, Invariance, PTL

\* A sleeping response is registered with its inner body.
THEOREM NoLostWakeup == Spec => []SleeperIsWoken
<1>1. IInv => SleeperIsWoken BY DEF IInv, Sleep, SleeperIsWoken
<1> QED BY <1>1, Invariance, PTL

-----------------------------------------------------------------------------
(* Negotiation, and the type invariant *)

\* The qualities of a header that has elements have a greatest, and the first
\* element of that quality is the one negotiated.
LEMMA BestIsFirst ==
  ASSUME NEW accept \in Seq(Accepted), accept # << >>
  PROVE  /\ Best(accept) \in DOMAIN accept
         /\ \A k \in DOMAIN accept :
              \/ Quality(accept[Best(accept)]) > Quality(accept[k])
              \/ /\ Quality(accept[Best(accept)]) = Quality(accept[k])
                 /\ Best(accept) <= k
<1> DEFINE q(n) == Quality(accept[n])
           first(n) == \A k \in DOMAIN accept : q(n) > q(k) \/ (q(n) = q(k) /\ n <= k)
<1>1. /\ Len(accept) \in Nat \ {0} /\ DOMAIN accept = 1..Len(accept)
      /\ \A n \in DOMAIN accept : accept[n] \in Accepted
  OBVIOUS
<1>2. \A a \in Accepted : Quality(a) \in 0..11
  <2>1. SUFFICES ASSUME NEW a \in Accepted PROVE Quality(a) \in 0..11
    OBVIOUS
  <2>2. a.encoding \in {"br", "gzip", "deflate", "identity"}
    BY DEF Accepted, Encodings
  <2>3. CASE a.q
    BY <2>3 DEF Quality
  <2>4. CASE ~a.q
    BY <2>2, <2>4 DEF Quality
  <2> QED BY <2>3, <2>4
<1>3. \A n \in DOMAIN accept : q(n) \in 0..11
  BY <1>1, <1>2
<1> HIDE DEF q
<1>4. PICK d \in {11 - q(n) : n \in DOMAIN accept} :
             \A e \in {11 - q(n) : n \in DOMAIN accept} : d <= e
  <2> DEFINE T == {11 - q(n) : n \in DOMAIN accept}
  <2>1. T \subseteq Nat /\ T # {}
    <3>1. ASSUME NEW n \in DOMAIN accept PROVE 11 - q(n) \in Nat
      <4>1. q(n) \in 0..11
        BY <1>3
      <4> QED BY <4>1
    <3>2. 1 \in DOMAIN accept
      BY <1>1
    <3>3. 11 - q(1) \in T
      BY <3>2
    <3> QED BY <3>1, <3>3
  <2> HIDE DEF T
  <2>2. \E x \in T : \A y \in T : x <= y
    BY <2>1, LeastNumber
  <2> QED BY <2>2 DEF T
<1>5. PICK m \in DOMAIN accept : \A k \in DOMAIN accept : q(m) >= q(k)
  <2>1. PICK m \in DOMAIN accept : d = 11 - q(m)
    BY <1>4
  <2>2. \A k \in DOMAIN accept : 11 - q(m) <= 11 - q(k)
    BY <1>4, <2>1
  <2>3. ASSUME NEW k \in DOMAIN accept PROVE q(m) >= q(k)
    <3>1. q(m) \in 0..11 /\ q(k) \in 0..11 /\ 11 - q(m) <= 11 - q(k)
      BY <1>3, <2>2
    <3> QED BY <3>1
  <2> QED BY <2>3
<1>6. PICK n \in {k \in DOMAIN accept : q(k) = q(m)} :
             \A k \in {i \in DOMAIN accept : q(i) = q(m)} : n <= k
  <2> DEFINE T == {k \in DOMAIN accept : q(k) = q(m)}
  <2>1. T \subseteq Nat /\ T # {}
    BY <1>1
  <2> HIDE DEF T
  <2>2. \E x \in T : \A y \in T : x <= y
    BY <2>1, LeastNumber
  <2> QED BY <2>2 DEF T
<1>7. n \in DOMAIN accept /\ first(n)
  BY <1>3, <1>5, <1>6
<1> HIDE DEF first
<1>8. Best(accept) = CHOOSE i \in DOMAIN accept : first(i)
  BY DEF Best, first, q
<1>9. Best(accept) \in DOMAIN accept /\ first(Best(accept))
  BY <1>7, <1>8
<1> QED BY <1>9 DEF first, q

LEMMA NegotiateType ==
  ASSUME NEW accept \in Accepts PROVE Negotiate(accept) \in Encodings \cup {"identity"}
<1>1. accept \in Seq(Accepted)
  BY CompressAssumption
<1>2. CASE accept = << >>
  BY <1>2 DEF Negotiate
<1>3. CASE accept # << >>
  <2>1. accept[Best(accept)].encoding \in Encodings \cup {"identity"}
    <3>1. Best(accept) \in DOMAIN accept
      BY <1>1, <1>3, BestIsFirst
    <3>2. accept[Best(accept)] \in Accepted
      BY <1>1, <3>1
    <3> QED BY <3>2 DEF Accepted
  <2>2. Configured \in Encodings \cup {"identity", "auto"}
    BY CompressAssumption
  <2> QED BY <1>3, <2>1, <2>2 DEF Negotiate
<1> QED BY <1>2, <1>3

LEMMA InitTypeOK == Init => TypeOK
<1> SUFFICES ASSUME Init PROVE TypeOK
  OBVIOUS
<1>1. response \in Responses
  BY DEF Init, NoResponse, Responses
<1>2. produced \in 0..MaxChunks \cup {1} /\ held \in 0..produced /\ sent \in 0..produced
  <2>1. produced = 0 /\ held = 0 /\ sent = 0
    BY DEF Init
  <2> QED BY <2>1, CompressAssumption
<1>3. /\ finished \in BOOLEAN /\ waits \in BOOLEAN /\ failed \in BOOLEAN
      /\ noChunking \in BOOLEAN
  BY Zenon DEF Init
<1> QED BY <1>1, <1>2, <1>3 DEF Init, TypeOK

LEMMA NextTypeOK == IInv /\ TypeOK /\ [Next]_vars => TypeOK'
<1> SUFFICES ASSUME IInv, TypeOK, [Next]_vars PROVE TypeOK'
  OBVIOUS
<1>1. IInv'
  BY NextKeeps
<1>2. SUFFICES /\ announced' \in Encodings \cup {"own", "none", "identity"}
               /\ noChunking' \in BOOLEAN /\ framing' \in {"sized", "stream"}
               /\ produced' \in 0..MaxChunks \cup {1} /\ held' \in 0..produced'
               /\ sent' \in 0..produced'
  BY <1>1 DEF IInv, Types, TypeOK
<1>3. /\ MaxChunks \in Nat /\ produced \in Nat /\ held \in Nat /\ sent \in Nat
      /\ held <= produced /\ sent <= produced /\ produced \in 0..MaxChunks \cup {1}
      /\ announced \in Encodings \cup {"own", "none", "identity"}
      /\ noChunking \in BOOLEAN /\ framing \in {"sized", "stream"}
      /\ phase = "open" => sent + held + Offered = produced
      /\ inner \in {"quiet", "chunk", "end", "error", "ended"}
  BY CompressAssumption DEF TypeOK, IInv, Types, Conserved, EncoderFits
<1>4. ASSUME NEW accept \in Accepts, NEW r \in Responses, Respond(accept, r)
      PROVE  /\ announced' \in Encodings \cup {"own", "none", "identity"}
             /\ noChunking' \in BOOLEAN /\ framing' \in {"sized", "stream"}
             /\ produced' \in {0, 1} /\ held' = 0 /\ sent' \in 0..produced'
  <2>1. /\ announced' \in {Negotiate(accept), "own", "none"}
        /\ noChunking' = NoChunking(r, Negotiate(accept))
        /\ framing' \in {"sized", "stream"}
    BY <1>4 DEF Respond, RespondStream, RespondInMemory, SendHead, Framing
  <2>2. r.noChunking \in BOOLEAN
    BY DEF Responses
  <2>3. noChunking' \in BOOLEAN
    BY <2>1, <2>2 DEF NoChunking
  <2>4. CASE RespondStream(accept, r)
    <3>1. produced' = 0 /\ held' = 0 /\ sent' = 0
      BY <2>4 DEF RespondStream
    <3> QED BY <2>1, <2>3, <3>1, NegotiateType
  <2>5. CASE RespondInMemory(accept, r)
    <3>1. /\ produced' \in {0, 1} /\ held' = 0 /\ sent' \in {0, 1}
          /\ sent' <= produced'
      BY <2>5, InMemory
    <3> QED BY <2>1, <2>3, <3>1, NegotiateType
  <2> QED BY <1>4, <2>4, <2>5 DEF Respond
<1>5. CASE Poll
  <2>1. UNCHANGED <<announced, noChunking, framing, produced>> /\ phase = "open"
    BY <1>5 DEF Poll, PollPending, PassChunk, WriteChunk, WriteFails, FinishEncoder, PollEnd,
                PollError, Polls, head
  <2>2. /\ held' \in Nat /\ sent' \in Nat
        /\ held' + sent' <= held + sent + Offered
    BY <1>3, <1>5, <2>1 DEF Poll, PollPending, PassChunk, WriteChunk, WriteFails, FinishEncoder,
            PollEnd, PollError, FinishOutput, Offered
  <2> QED BY <1>3, <2>1, <2>2
<1>6. CASE Produce
  BY <1>3, <1>6 DEF Produce, head
<1>7. CASE Drop
  BY <1>3, <1>7 DEF Drop, head
<1>8. CASE Release
  <2>1. /\ announced' = "none" /\ framing' = "sized"
        /\ noChunking' = FALSE /\ produced' = 0 /\ held' = 0 /\ sent' = 0
    BY <1>8 DEF Release
  <2>2. noChunking' \in BOOLEAN
    BY <2>1
  <2>3. produced' \in 0..MaxChunks \cup {1} /\ held' \in 0..produced' /\ sent' \in 0..produced'
    BY <1>3, <2>1
  <2> QED BY <2>1, <2>2, <2>3
<1>9. CASE UNCHANGED vars
  BY <1>3, <1>9 DEF vars, head
<1> QED BY <1>3, <1>4, <1>5, <1>6, <1>7, <1>8, <1>9 DEF Next

\* Every variable has its type, and no more is ever sent, or held back, than
\* the inner body gave: for any header, compressor and body, also when a
\* response fails or is dropped.
THEOREM TypeCorrect == Spec => []TypeOK
<1>1. Init => IInv /\ TypeOK
  BY InitIInv, InitTypeOK
<1>2. IInv /\ TypeOK /\ [Next]_vars => (IInv /\ TypeOK)'
  BY NextKeeps, NextTypeOK
<1> QED BY <1>1, <1>2, PTL DEF Spec

-----------------------------------------------------------------------------
(* A build with all encoders *)

LEMMA AllEncodersInit == Init => HeadFitsBody /\ EncoderExists
BY DEF Init, NoResponse, HeadFitsBody, EncoderExists, Encodings

LEMMA AllEncodersRespond ==
  ASSUME Compiled = Encodings,
         NEW accept \in Accepts, NEW r \in Responses, Respond(accept, r)
  PROVE  (HeadFitsBody /\ EncoderExists)'
<1> DEFINE encoding == Negotiate(accept)
           encodes  == Encodes(r, encoding)
           applies  == Applies(r, encoding)
<1>1. /\ response' = r
      /\ announced' = IF encodes THEN encoding ELSE IF r.ownEncoding THEN "own" ELSE "none"
      /\ noChunking' = NoChunking(r, encoding)
      /\ framing' = Framing(r, encoding)
      /\ applied' = applies
  BY DEF Respond, RespondStream, RespondInMemory, SendHead
<1>2. \/ phase' = "open" /\ r.kind = "stream"
      \/ /\ r.kind # "stream"
         /\ phase' = "panicked" /\ applies = "none" => encodes
  <2>1. CASE RespondStream(accept, r)
    BY <2>1 DEF RespondStream
  <2>2. CASE RespondInMemory(accept, r)
    BY <2>2, InMemory
  <2> QED BY <2>1, <2>2 DEF Respond
<1>3. encodes => ~r.ownEncoding /\ (r.kind = "stream" \/ encoding \in Encodings)
  <2> HIDE DEF encoding
  <2> QED BY DEF encodes, Encodes
<1>4. encodes /\ encoding \in Encodings => applies = encoding /\ applies # "none"
  <2> HIDE DEF encoding
  <2> QED BY DEF encodes, applies, Applies, NewEncoder, Encodings
<1>5. ~encodes \/ encoding \notin Encodings => applies = "none"
  <2> HIDE DEF encoding
  <2> QED BY DEF applies, Applies, NewEncoder
<1>6. r.kind = "stream" /\ applies # "none" => framing' = "stream" /\ ~noChunking'
  <2> HIDE DEF encoding
  <2> QED BY <1>1, <1>5 DEF Framing, NoChunking, applies, encodes
<1> HIDE DEF encoding, encodes, applies
<1>7. /\ r.ownEncoding => ~encodes
      /\ announced' = "own" \/ announced' = "none" \/ (encodes /\ announced' = encoding)
      /\ ~encodes => announced' = IF r.ownEncoding THEN "own" ELSE "none"
  BY <1>1, <1>3
<1>8. r.kind = "stream" /\ Delimiter' \in {"length", "own length"} => applies = "none"
  BY <1>6 DEF Delimiter
<1>9. HeadFitsBody'
  <2>1. CASE encodes
    BY <1>1, <1>3, <1>4, <1>5, <1>8, <2>1 DEF HeadFitsBody
  <2>2. CASE ~encodes
    BY <1>1, <1>5, <1>7, <1>8, <2>2 DEF HeadFitsBody, Encodings
  <2> QED BY <2>1, <2>2
<1>10. EncoderExists'
  BY <1>1, <1>2, <1>3, <1>4 DEF EncoderExists
<1> QED BY <1>9, <1>10

\* After the head is sent nothing changes what it says.
LEMMA AllEncodersNext ==
  ASSUME Compiled = Encodings, IInv, HeadFitsBody, EncoderExists, [Next]_vars
  PROVE  (HeadFitsBody /\ EncoderExists)'
<1>1. CASE \E accept \in Accepts, r \in Responses : Respond(accept, r)
  BY <1>1, AllEncodersRespond
<1>2. CASE Poll \/ Produce \/ Drop
  <2>1. phase = "open" /\ UNCHANGED head
    BY <1>2 DEF Poll, PollPending, PassChunk, WriteChunk, WriteFails, FinishEncoder,
                PollEnd, PollError, Polls, Produce, Drop
  <2>2. response.kind = "stream"
    BY <2>1 DEF IInv, EncoderFits
  <2> QED BY <2>1, <2>2 DEF head, HeadFitsBody, Delimiter, EncoderExists
<1>3. CASE Release
  BY <1>3 DEF Release, HeadFitsBody, EncoderExists
<1>4. CASE UNCHANGED vars
  BY <1>4 DEF vars, head, HeadFitsBody, Delimiter, EncoderExists
<1> QED BY <1>1, <1>2, <1>3, <1>4 DEF Next

\* The head of a response and what Encoder::body makes of its body agree: the
\* encoding named is the one applied, and neither the length of the body inside
\* nor a Content-Length of the application's, which stays in the head, tells the
\* client of HTTP/1.1 where a body ends that has been encoded.
THEOREM HeadsFit ==
  ASSUME Compiled = Encodings
  PROVE  Spec => []HeadFitsBody
<1>1. Init => HeadFitsBody /\ EncoderExists
  BY AllEncodersInit
<1>2. IInv /\ HeadFitsBody /\ EncoderExists /\ [Next]_vars
        => (HeadFitsBody /\ EncoderExists)'
  BY AllEncodersNext
<1> QED BY <1>1, <1>2, Invariance, PTL DEF Spec

\* With all encoders built, `ContentEncoder::encoder(encoding).unwrap()` is
\* never the unwrap of a None.
THEOREM UnwrapIsSome ==
  ASSUME Compiled = Encodings
  PROVE  Spec => []EncoderExists
<1>1. Init => HeadFitsBody /\ EncoderExists
  BY AllEncodersInit
<1>2. IInv /\ HeadFitsBody /\ EncoderExists /\ [Next]_vars
        => (HeadFitsBody /\ EncoderExists)'
  BY AllEncodersNext
<1> QED BY <1>1, <1>2, Invariance, PTL DEF Spec
=============================================================================
