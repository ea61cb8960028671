------------------------------ MODULE AppSpec -------------------------------
(***************************************************************************)
(* What an application promises the server that runs it (app.rs), without  *)
(* factories, futures, routers or shared cells: service instances are      *)
(* started, fail or become ready, and a ready instance has every request   *)
(* answered by the party its declarations name, as the documentation or as *)
(* the code reads them (AppDecl).                                          *)
(***************************************************************************)
EXTENDS AppDecl

CONSTANTS
  Instances,  \* services the server makes from one application
  Slots,      \* requests that may be in flight
  MaxCalls    \* bound on the number of builder calls

VARIABLES
  log,     \* the builder calls, in order
  built,   \* the application was handed over to the server
  status,  \* of each service instance
  reqs     \* the request in each slot, its way, and who answers it

vars == <<log, built, status, reqs>>

NoReq == [req |-> "none"]

Init ==
  /\ log = << >>
  /\ built = FALSE
  /\ status = [i \in Instances |-> "absent"]
  /\ reqs = [r \in Slots |-> NoReq]

Declare(c) ==
  /\ ~built /\ Len(log) < MaxCalls
  /\ log' = Append(log, c)
  /\ UNCHANGED <<built, status, reqs>>

Build ==
  /\ ~built /\ built' = TRUE
  /\ UNCHANGED <<log, status, reqs>>

Start(i) ==
  /\ built /\ status[i] \in {"absent", "failed", "dropped"}
  /\ status' = [status EXCEPT ![i] = "starting"]
  /\ UNCHANGED <<log, built, reqs>>

Settle(i) ==
  /\ status[i] = "starting"
  /\ \E how \in {"ready", "failed"} : status' = [status EXCEPT ![i] = how]
  /\ UNCHANGED <<log, built, reqs>>

Drop(i) ==
  /\ status[i] \in {"starting", "ready"}
  /\ status' = [status EXCEPT ![i] = "dropped"]
  /\ UNCHANGED <<log, built, reqs>>

Call(i, r, q) ==
  /\ status[i] = "ready" /\ reqs[r] = NoReq
  /\ \E by \in Answerers(log, q) :
       reqs' = [reqs EXCEPT ![r] = [req |-> q, through |-> Layers(log, q), by |-> by]]
  /\ UNCHANGED <<log, built, status>>

Finish(r) ==
  /\ reqs[r] # NoReq
  /\ reqs' = [reqs EXCEPT ![r] = NoReq]
  /\ UNCHANGED <<log, built, status>>

Next ==
  \/ \E c \in Calls : Declare(c)
  \/ Build
  \/ \E i \in Instances : Start(i) \/ Settle(i) \/ Drop(i)
  \/ \E i \in Instances, r \in Slots, q \in Requests : Call(i, r, q)
  \/ \E r \in Slots : Finish(r)

Spec == Init /\ [][Next]_vars
=============================================================================
