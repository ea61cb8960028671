----------------------------- MODULE RouteCall ------------------------------
(***************************************************************************)
(* A route answers its requests: route.rs (RouteServiceWrapper and what    *)
(* RouteBuilder::to and to_async build), handler.rs, the tuples of         *)
(* extractor.rs, the futures of responder.rs.                              *)
(*                                                                         *)
(* A handler takes a tuple of arguments.  Calling the route starts one     *)
(* extractor future for each, in order; the first body extractor that does *)
(* not refuse the request takes its payload.  The tuple's future polls all *)
(* of them in each poll and keeps the results that came early.  When all   *)
(* are there the handler is called, and the future of the responder it     *)
(* returned is polled.  What fails turns into an error response.           *)
(*                                                                         *)
(* Interleaved with the polls, the client sends its body, ends it or goes  *)
(* away, and the futures the application wrote complete.  Requests share   *)
(* nothing that changes: each slot is on its own.                          *)
(***************************************************************************)
EXTENDS Extractor, Responder, FiniteSetsExt

CONSTANTS
  Slots,       \* requests in flight
  Signatures,  \* the argument tuples of handlers: sequences of Extractors
  Values,      \* what handlers return: sequences of wrappers and a value
  MaxBody      \* bound on the bytes a client sends

Layers == Wrappers \cup Inner \cup {"future"}

ASSUME BodyAssumption == MaxBody \in Nat
ASSUME SignaturesAssumption == Signatures \subseteq Seq(Extractors)
ASSUME ValuesAssumption ==
  \A v \in Values : /\ v \in Seq(Layers) /\ v # << >> /\ Last(v) \in Inner
                    /\ \A k \in 1..(Len(v) - 1) : v[k] \in Wrappers \cup {"future"}

VARIABLES
  phase,    \* of the request in a slot
  sig,      \* the tuple its handler takes
  head,     \* the head of the request: content type and charset
  client,   \* the body the client sends: [sent, end]
  holder,   \* the extractor that took the payload, 0 if none did
  parts,    \* the extractor futures
  items,    \* TupleFromRequest.items
  request,  \* which future holds the request to give back (`req` is Some)
  args,     \* what the handler was called with
  returned, \* what the handler returned (history)
  handler,  \* the future of its responder
  answer,   \* how the request was answered, and by whom (0: the handler)
  task,     \* "woken": will be polled; "polling": inside poll; "parked"
  waits     \* futures that have registered the task (0: the handler's)

vars == <<phase, sig, head, client, holder, parts, items, request, args, returned,
          handler, answer, task, waits>>

Over == {"idle", "answered", "dropped", "panicked"}
Missing     == [got |-> "missing", body |-> 0]
NoHead      == [type |-> "other", known |-> TRUE]
NoResponder == [value |-> << >>, ready |-> FALSE]
NoAnswer    == [by |-> 0, status |-> "none", type |-> "none"]

Init ==
  /\ phase   = [r \in Slots |-> "idle"]
  /\ sig     = [r \in Slots |-> << >>]
  /\ head    = [r \in Slots |-> NoHead]
  /\ client  = [r \in Slots |-> [sent |-> 0, end |-> "open"]]
  /\ holder  = [r \in Slots |-> 0]
  /\ parts   = [r \in Slots |-> << >>]
  /\ items   = [r \in Slots |-> << >>]
  /\ request = [r \in Slots |-> "nobody"]
  /\ args    = [r \in Slots |-> << >>]
  /\ returned = [r \in Slots |-> << >>]
  /\ handler = [r \in Slots |-> NoResponder]
  /\ answer  = [r \in Slots |-> NoAnswer]
  /\ task    = [r \in Slots |-> "parked"]
  /\ waits   = [r \in Slots |-> {}]

-----------------------------------------------------------------------------
(* The call: from_request of every element of the tuple, in order *)

Takers(s, h) == {n \in DOMAIN s : s[n].kind \in BodyKinds /\ Accepts(s[n].kind, h)}

\* Mutant: the extractors are started from the last one on.
Holder_Last(s, h) == IF Takers(s, h) = {} THEN 0 ELSE Max(Takers(s, h))

\* HttpMessage::take_payload puts Payload::None in its place: the first one
\* gets it, those after it read an empty body.
Holder(s, h) == IF Takers(s, h) = {} THEN 0 ELSE Min(Takers(s, h))

Call(r, s, h) ==
  /\ phase[r] = "idle"
  /\ phase'   = [phase   EXCEPT ![r] = "extract"]
  /\ sig'     = [sig     EXCEPT ![r] = s]
  /\ head'    = [head    EXCEPT ![r] = h]
  /\ \E futs \in [DOMAIN s -> UNION {Futures(s[n].kind, h) : n \in DOMAIN s}] :
       /\ \A n \in DOMAIN s : futs[n] \in Futures(s[n].kind, h)
       /\ parts' = [parts EXCEPT ![r] = futs]
  /\ holder'  = [holder  EXCEPT ![r] = Holder(s, h)]
  /\ items'   = [items   EXCEPT ![r] = [n \in DOMAIN s |-> Missing]]
  /\ request' = [request EXCEPT ![r] = "extract"]
  /\ task'    = [task    EXCEPT ![r] = "woken"]
  /\ UNCHANGED <<client, args, returned, handler, answer, waits>>

-----------------------------------------------------------------------------
(* One poll of the tuple (TupleFromRequest), inside ExtractResponse *)

\* What is left for part n to read of the body.
BodyOf(r, n) == IF holder[r] = n THEN client[r] ELSE NoBody

\* Mutant: a body that is too long is read to its end.
Outcome_NoLimit(r, n) ==
  LET body == [BodyOf(r, n) EXCEPT !.sent = IF @ > Limit THEN Limit ELSE @] IN
  PartOutcome(sig[r][n].kind, parts[r][n], head[r], body)

\* What polling part n gives.
Outcome(r, n) == PartOutcome(sig[r][n].kind, parts[r][n], head[r], BodyOf(r, n))

\* Mutant: an error is passed on whatever the wrapper.
Fails_Wrapped(r, n) == Outcome(r, n) = "err"

\* Option and Result turn an error into a value.
Fails(r, n) == Outcome(r, n) = "err" /\ sig[r][n].wrap = "plain"

\* Mutant: `is_none()` is not asked, every future is polled again.
Polled_All(r) == DOMAIN items[r]

\* The parts whose result is not there yet.
Polled(r) == {n \in DOMAIN items[r] : items[r][n] = Missing}

\* Parts that end a poll: by their error, or because they gave their result
\* before and must not be polled again.
Stops(r) == {n \in Polled(r) : parts[r][n].state = "taken" \/ Fails(r, n)}

Item(r, n) ==
  [got |-> IF Outcome(r, n) = "ok" THEN "value"
           ELSE IF sig[r][n].wrap = "option" THEN "nothing" ELSE "error",
   body |-> IF holder[r] = n /\ Outcome(r, n) = "ok" THEN client[r].sent ELSE 0]

Arrives(r, n) == n \in Polled(r) /\ Outcome(r, n) # "pending"

\* Mutant: every part that had to be polled clears `ready`.
Ready_NothingPolled(r) == Polled(r) = {}

\* `ready` after the loop.
Ready(r) == \A n \in Polled(r) : Outcome(r, n) # "pending"

NewItems(r) ==
  [n \in DOMAIN items[r] |-> IF Arrives(r, n) THEN Item(r, n) ELSE items[r][n]]

\* A part that gave its result is spent.
Spend(r) ==
  parts' = [parts EXCEPT ![r] =
    [n \in DOMAIN parts[r] |->
       IF Arrives(r, n) THEN [parts[r][n] EXCEPT !.state = "taken"] ELSE parts[r][n]]]

Awake(r) == task[r] \in {"woken", "polling"}

\* The route's future gives its result, and whatever it holds is dropped.
Settle(r, how, reply) ==
  /\ phase'   = [phase   EXCEPT ![r] = how]
  /\ answer'  = [answer  EXCEPT ![r] = reply]
  /\ request' = [request EXCEPT ![r] = "nobody"]
  /\ task'    = [task    EXCEPT ![r] = "parked"]
  /\ waits'   = [waits   EXCEPT ![r] = {}]

\* A part fails: ExtractResponse gives back the error with the request, and
\* RouteServiceWrapper answers with the error's response.  The parts after
\* it are not polled.
PollRejected(r) ==
  /\ phase[r] = "extract" /\ Awake(r) /\ Stops(r) # {}
  /\ LET n == Min(Stops(r)) IN
       IF parts[r][n].state = "taken" \/ request[r] # "extract"
       THEN Settle(r, "panicked", NoAnswer)
       ELSE Settle(r, "answered",
              [by |-> n, type |-> "none",
               status |-> Rejection(sig[r][n].kind, head[r], BodyOf(r, n))])
  /\ UNCHANGED <<sig, head, client, holder, parts, items, args, returned, handler>>

PollIncomplete(r) ==
  /\ phase[r] = "extract" /\ Awake(r) /\ Stops(r) = {} /\ ~Ready(r)
  /\ items' = [items EXCEPT ![r] = NewItems(r)]
  /\ Spend(r)
  /\ task'  = [task  EXCEPT ![r] = "parked"]
  /\ waits' = [waits EXCEPT ![r] = {n \in Polled(r) : Outcome(r, n) = "pending"}]
  /\ UNCHANGED <<phase, sig, head, client, holder, request, args, returned, handler,
                 answer>>

\* All parts are there: the items are taken, `take().unwrap()` each; the
\* handler is called with them, and its responder with the request.  The
\* future that comes of it is polled before this poll returns.
PollExtracted(r, value) ==
  /\ phase[r] = "extract" /\ Awake(r) /\ Stops(r) = {} /\ Ready(r)
  /\ Spend(r)
  /\ items' = [items EXCEPT ![r] = [n \in DOMAIN @ |-> Missing]]
  /\ IF \E n \in DOMAIN items[r] : NewItems(r)[n] = Missing
     THEN /\ Settle(r, "panicked", NoAnswer)
          /\ UNCHANGED <<args, returned, handler>>
     ELSE /\ phase'   = [phase   EXCEPT ![r] = "handle"]
          /\ request' = [request EXCEPT ![r] = "handle"]
          /\ args'    = [args    EXCEPT ![r] = NewItems(r)]
          /\ returned' = [returned EXCEPT ![r] = value]
          /\ \E fut \in RespondTo(value) : handler' = [handler EXCEPT ![r] = fut]
          /\ task'    = [task    EXCEPT ![r] = "polling"]
          /\ UNCHANGED <<answer, waits>>
  /\ UNCHANGED <<sig, head, client, holder>>

-----------------------------------------------------------------------------
(* One poll of HandleServiceResponse or AsyncHandleServiceResponse *)

IsReady(r)   == handler[r].ready
IsAwaited(r) == IsFuture(handler[r].value)

\* The boxed future has its value (and_then): the value's respond_to is called
\* with a copy of the request, and its future polled at once.
PollAwaited(r) ==
  /\ phase[r] = "handle" /\ Awake(r) /\ IsReady(r) /\ IsAwaited(r)
  /\ \E fut \in RespondTo(Tail(handler[r].value)) : handler' = [handler EXCEPT ![r] = fut]
  /\ task' = [task EXCEPT ![r] = "polling"]
  /\ UNCHANGED <<phase, sig, head, client, holder, parts, items, request, args, returned,
                 answer, waits>>

\* A response, or an error turned into one, goes out with the request.
PollAnswered(r) ==
  /\ phase[r] = "handle" /\ Awake(r) /\ IsReady(r) /\ ~IsAwaited(r)
  /\ IF handler[r].value = << >> \/ request[r] # "handle"
     THEN Settle(r, "panicked", NoAnswer)
     ELSE LET reply == Reply(Head(handler[r].value)) IN
          Settle(r, "answered", [by |-> 0, status |-> reply.status, type |-> reply.type])
  /\ handler' = [handler EXCEPT ![r].value = << >>]
  /\ UNCHANGED <<sig, head, client, holder, parts, items, args, returned>>

PollHandling(r) ==
  /\ phase[r] = "handle" /\ Awake(r) /\ ~IsReady(r)
  /\ task'  = [task  EXCEPT ![r] = "parked"]
  /\ waits' = [waits EXCEPT ![r] = {0}]
  /\ UNCHANGED <<phase, sig, head, client, holder, parts, items, request, args, returned,
                 handler, answer>>

Poll(r) ==
  \/ PollRejected(r) \/ PollIncomplete(r)
  \/ \E value \in Values : PollExtracted(r, value)
  \/ PollAwaited(r) \/ PollAnswered(r) \/ PollHandling(r)

\* The connection is closed, and the route's future dropped with it.
Drop(r) ==
  /\ phase[r] \in {"extract", "handle"} /\ task[r] # "polling"
  /\ Settle(r, "dropped", NoAnswer)
  /\ UNCHANGED <<sig, head, client, holder, parts, items, args, returned, handler>>

\* The dispatcher has the response (or closed the connection): the slot is
\* free for another request.
Free(r) ==
  /\ phase[r] \in {"answered", "dropped"}
  /\ phase'    = [phase    EXCEPT ![r] = "idle"]
  /\ sig'      = [sig      EXCEPT ![r] = << >>]
  /\ head'     = [head     EXCEPT ![r] = NoHead]
  /\ client'   = [client   EXCEPT ![r] = [sent |-> 0, end |-> "open"]]
  /\ holder'   = [holder   EXCEPT ![r] = 0]
  /\ parts'    = [parts    EXCEPT ![r] = << >>]
  /\ items'    = [items    EXCEPT ![r] = << >>]
  /\ args'     = [args     EXCEPT ![r] = << >>]
  /\ returned' = [returned EXCEPT ![r] = << >>]
  /\ handler'  = [handler  EXCEPT ![r] = NoResponder]
  /\ answer'   = [answer   EXCEPT ![r] = NoAnswer]
  /\ UNCHANGED <<request, task, waits>>

-----------------------------------------------------------------------------
(* The client, and the futures of the application (external) *)

\* Whoever waits for the future of part n, or for the payload, is woken.
Wake(r, n) ==
  /\ task'  = [task  EXCEPT ![r] = IF n \in waits[r] THEN "woken" ELSE @]
  /\ waits' = [waits EXCEPT ![r] = @ \ {n}]

\* More of the body arrives.  Once the extraction is over nobody reads it.
Send(r) ==
  /\ phase[r] = "extract" /\ client[r].end = "open" /\ client[r].sent < MaxBody
  /\ client' = [client EXCEPT ![r].sent = @ + 1]
  /\ Wake(r, holder[r])
  /\ UNCHANGED <<phase, sig, head, holder, parts, items, request, args, returned,
                 handler, answer>>

\* The body is complete, or the client goes away before.
EndBody(r, how) ==
  /\ phase[r] = "extract" /\ client[r].end = "open"
  /\ client' = [client EXCEPT ![r].end = how]
  /\ Wake(r, holder[r])
  /\ UNCHANGED <<phase, sig, head, holder, parts, items, request, args, returned,
                 handler, answer>>

\* An extractor of the application has its result.
Complete(r, n, result) ==
  /\ phase[r] = "extract" /\ n \in DOMAIN parts[r]
  /\ sig[r][n].kind = "custom" /\ parts[r][n].state = "pending"
  /\ parts' = [parts EXCEPT ![r][n].state = result]
  /\ Wake(r, n)
  /\ UNCHANGED <<phase, sig, head, client, holder, items, request, args, returned,
                 handler, answer>>

\* The future the handler returned has its value, or fails.
Handled(r) ==
  /\ phase[r] = "handle" /\ ~handler[r].ready
  /\ \E fut \in Completed(handler[r].value) : handler' = [handler EXCEPT ![r] = fut]
  /\ Wake(r, 0)
  /\ UNCHANGED <<phase, sig, head, client, holder, parts, items, request, args, returned,
                 answer>>

-----------------------------------------------------------------------------
MaxParts == UNION {DOMAIN s : s \in Signatures}

Next ==
  \E r \in Slots :
    \/ \E s \in Signatures, h \in Heads : Call(r, s, h)
    \/ Poll(r) \/ Drop(r) \/ Free(r) \/ Send(r)
    \/ \E how \in {"complete", "gone"} : EndBody(r, how)
    \/ \E n \in MaxParts, result \in {"ok", "err"} : Complete(r, n, result)
    \/ Handled(r)

Spec == Init /\ [][Next]_vars

(***************************************************************************)
(* Fairness.  The executor polls a woken task, and the futures the         *)
(* application wrote complete.  Nothing is assumed of the client.          *)
(***************************************************************************)
Fairness ==
  \A r \in Slots :
    /\ WF_vars(Poll(r))
    /\ \A n \in MaxParts : WF_vars(\E result \in {"ok", "err"} : Complete(r, n, result))
    /\ WF_vars(Handled(r))

FairSpec == Spec /\ Fairness

-----------------------------------------------------------------------------
(* Properties *)

ItemType == [got : {"missing", "value", "nothing", "error"}, body : 0..Limit]
Statuses == {"none", "ok", "own", "error", "not_found", "internal", "bad_request"}
MediaTypes == {"none", "own", "text/plain; charset=utf-8", "application/octet-stream",
               "application/json"}

\* Types; no item is larger than the limit on bodies.
TypeOK ==
  /\ phase  \in [Slots -> Over \cup {"extract", "handle"}]
  /\ sig    \in [Slots -> Signatures \cup {<< >>}]
  /\ head   \in [Slots -> Heads]
  /\ client \in [Slots -> [sent : 0..MaxBody, end : {"open", "complete", "gone"}]]
  /\ holder \in [Slots -> MaxParts \cup {0}]
  /\ parts  \in [Slots -> Seq([state : {"pending", "ok", "err", "taken"}, fits : BOOLEAN])]
  /\ items   \in [Slots -> Seq(ItemType)]
  /\ request \in [Slots -> {"nobody", "extract", "handle"}]
  /\ args    \in [Slots -> Seq(ItemType \ {Missing})]
  /\ returned \in [Slots -> Values \cup {<< >>}]
  /\ handler \in [Slots -> [value : Seq(Layers), ready : BOOLEAN]]
  /\ answer \in [Slots -> [by : MaxParts \cup {0}, status : Statuses, type : MediaTypes]]
  /\ task    \in [Slots -> {"woken", "polling", "parked"}]
  /\ waits   \in [Slots -> SUBSET (MaxParts \cup {0})]

\* When a handler runs, the body of its request is in one of its arguments
\* only, that of the first body extractor that did not refuse the request;
\* it is the whole body, and no longer than the limit.
BodyGoesToOne ==
  \A r \in Slots : LET takers == Takers(sig[r], head[r]) IN
    \A n \in DOMAIN args[r] :
      IF n \in takers /\ \A m \in takers : n <= m
      THEN args[r][n].got = "value" =>
             client[r].end = "complete" /\ args[r][n].body = client[r].sent
      ELSE args[r][n].body = 0

\* A request is rejected for an extractor only by one that may reject it, it
\* is the first in the tuple to fail, and its handler is not called.  If
\* nothing rejects it the handler is called, with all arguments there, and
\* the response is that of the innermost value it returned, or an error of
\* one of the futures around that.
AnsweredByRightOne ==
  \A r \in Slots : phase[r] = "answered" =>
    LET by == answer[r].by
        inner == Reply(Last(returned[r])) IN
    IF by = 0
    THEN /\ Len(args[r]) = Len(sig[r])
         /\ \/ answer[r].status = inner.status /\ answer[r].type = inner.type
            \/ answer[r].status = "error" /\ \E k \in DOMAIN returned[r] : returned[r][k] = "future"
    ELSE /\ args[r] = << >>
         /\ sig[r][by].wrap = "plain"
         /\ \A m \in 1..(by - 1) : sig[r][m].wrap = "plain" => Outcome(r, m) # "err"

\* No future is polled after it gave its result, no item is unwrapped that is
\* not there, and the request is where it is taken from, although the parts
\* complete in any order.
NoUnwrapOfNone == \A r \in Slots : phase[r] # "panicked"

\* No lost wakeup: a request that sleeps is registered with something that
\* is still to come.
SleepersAreWoken ==
  \A r \in Slots : phase[r] \in {"extract", "handle"} /\ task[r] = "parked" =>
    /\ waits[r] # {}
    /\ \A n \in waits[r] :
         IF n = 0 THEN phase[r] = "handle" /\ ~handler[r].ready
         ELSE \/ holder[r] = n /\ client[r].end = "open"
              \/ sig[r][n].kind = "custom" /\ parts[r][n].state = "pending"

\* A request is answered, or its connection closed, once the client owes it
\* nothing more: a body nobody reads is not waited for.
RequestsAreAnswered ==
  \A r \in Slots :
    phase[r] \in {"extract", "handle"} /\ (holder[r] = 0 \/ client[r].end # "open")
      ~> phase[r] \in Over
=============================================================================
