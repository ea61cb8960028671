----------------------------- MODULE AppService -----------------------------
(***************************************************************************)
(* Service instances of one application: app.rs from AppStateFactory to    *)
(* AppEntry, resource.rs from ResourceFactory on, state.rs.                *)
(*                                                                         *)
(* The server makes instances from the factory of an application.  Making  *)
(* one is a future: AndThenNewService polls AppStateFactoryResult, which   *)
(* puts the application's state into the extensions all instances share,   *)
(* and CreateAppService, which polls one future for each registered        *)
(* service.  Those of custom services, and of custom defaults, complete    *)
(* whenever they like, or fail.  The instances live on one thread, but     *)
(* their polls, and their requests, interleave.                            *)
(*                                                                         *)
(* Rc::get_mut on the shared extensions succeeds only while nobody else    *)
(* holds them: neither an AppStateService nor a request in flight.         *)
(***************************************************************************)
EXTENDS App

CONSTANTS
  Instances,  \* services the server makes from this application
  Slots       \* requests that may be in flight

VARIABLES
  ext,       \* the shared Extensions: the value of each type, 0 if none
  status,    \* what became of the instance
  stateFuts, \* AppStateFactoryResult.state: the futures not yet ready
  hasState,  \* the instance holds its AppStateService
  items,     \* CreateAppService.fut
  inits,     \* the init futures of the items, as their owners drive them
  waits,     \* items whose future has registered the task
  task,      \* "woken": the executor will poll the instance; or "parked"
  router,    \* AppService.router
  reqs       \* requests in flight and who will answer them

instVars == <<status, stateFuts, hasState, items, inits, waits, task, router>>
vars == <<buildVars, ext, instVars, reqs>>

Types == Keys \cup {Closure}
NoReq == [req |-> "none"]

Init ==
  /\ BuilderInit
  /\ ext = [t \in Types |-> 0]
  /\ status    = [i \in Instances |-> "absent"]
  /\ stateFuts = [i \in Instances |-> << >>]
  /\ hasState  = [i \in Instances |-> FALSE]
  /\ items     = [i \in Instances |-> << >>]
  /\ inits     = [i \in Instances |-> << >>]
  /\ waits     = [i \in Instances |-> {}]
  /\ task      = [i \in Instances |-> "parked"]
  /\ router    = [i \in Instances |-> << >>]
  /\ reqs      = [r \in Slots |-> NoReq]

-----------------------------------------------------------------------------
(* Starting an instance *)

\* ResourceFactory::new_service reads the resource's cell now.
DefaultOf(service) ==
  IF service.kind = "resource" THEN cells[service.cell] ELSE NoDefault

NewItem(service) ==
  [stage |-> "future", kind |-> service.kind, at |-> service.at,
   paths |-> service.paths, routes |-> service.routes,
   endpoint |-> service.endpoint,
   default |-> DefaultOf(service)]

\* Routes are ready at their first poll; a resource without a default has
\* nothing else to wait for.  A custom service's future, and the default's,
\* is someone else's.
NewInit(service) ==
  IF service.kind = "resource" /\ DefaultOf(service) = NoDefault
  THEN "ok" ELSE "pending"

\* NewService::new_service of the whole application.
NewService(i) ==
  /\ built /\ status[i] \in {"absent", "failed", "dropped"}
  /\ status'    = [status    EXCEPT ![i] = "starting"]
  /\ stateFuts' = [stateFuts EXCEPT ![i] = state]
  /\ items' = [items EXCEPT ![i] = [k \in DOMAIN services |-> NewItem(services[k])]]
  /\ inits' = [inits EXCEPT ![i] = [k \in DOMAIN services |-> NewInit(services[k])]]
  /\ task'  = [task  EXCEPT ![i] = "woken"]
  /\ UNCHANGED <<buildVars, ext, hasState, waits, router, reqs>>

\* The owner of an init future completes it, and wakes the task that polled it.
Complete(i, k, result) ==
  /\ status[i] = "starting" /\ k \in DOMAIN inits[i] /\ inits[i][k] = "pending"
  /\ inits' = [inits EXCEPT ![i][k] = result]
  /\ task'  = [task  EXCEPT ![i] = IF k \in waits[i] THEN "woken" ELSE @]
  /\ waits' = [waits EXCEPT ![i] = @ \ {k}]
  /\ UNCHANGED <<buildVars, ext, status, stateFuts, hasState, items, router, reqs>>

-----------------------------------------------------------------------------
(* AppStateFactoryResult::poll *)

\* Whoever holds a clone of the inner Rc<Extensions>.
Holders ==
       {<<"instance", i>> : i \in {j \in Instances : hasState[j]}}
  \cup {<<"request", r>>  : r \in {s \in Slots : reqs[s] # NoReq}}

\* Mutant: a type that is already there is not replaced.
Inserted_KeepsFirst(map, futs) ==
  [t \in Types |->
     LET of == {k \in 1..Len(futs) : futs[k].type = t}
     IN  IF of = {} \/ map[t] # 0 THEN map[t] ELSE futs[Earliest(of)].value]

\* Each state future is ready when polled and inserts its value under its
\* type; the loop goes through them in order, so the last of a type stays.
Inserted(map, futs) ==
  [t \in Types |->
     LET of == {k \in 1..Len(futs) : futs[k].type = t}
     IN  IF of = {} THEN map[t] ELSE futs[Latest(of)].value]

\* Mutant: `idx` moves on also after a remove, and skips the next future.
Remaining_SkipsEveryOther(futs) == [k \in 1..(Len(futs) \div 2) |-> futs[2 * k]]

\* The futures left in `state` after the loop.
Remaining(futs) == << >>

MustConstruct(i) == ~hasState[i] /\ Holders = {}

\* The state part of one poll of instance i.
PollState(i) ==
  IF MustConstruct(i)
  THEN /\ ext' = Inserted(ext, stateFuts[i])
       /\ stateFuts' = [stateFuts EXCEPT ![i] = Remaining(stateFuts[i])]
  ELSE UNCHANGED <<ext, stateFuts>>

\* AppStateService is there after this poll.
StateReady(i) ==
  hasState[i] \/ ~MustConstruct(i) \/ Remaining(stateFuts[i]) = << >>

-----------------------------------------------------------------------------
(* CreateAppService::poll *)

\* Mutant: no arm for items that are services.
IsPolled_Always(item) == TRUE

\* Items already turned into a service are skipped.
IsPolled(item) == item.stage = "future"

Polled(i) == {k \in DOMAIN items[i] : IsPolled(items[i][k])}

\* `?`: a failed future ends the poll, later items are not polled.  Polling
\* a future that already gave its result panics.
Bad(i) == {k \in Polled(i) : inits[i][k] \in {"err", "taken"}}

PolledItem(i, k) ==
  IF k \in Polled(i) /\ inits[i][k] = "ok"
  THEN [items[i][k] EXCEPT !.stage = "service"] ELSE items[i][k]

\* Items that were NotReady in this poll have registered the task.
NotReady(i) == {k \in Polled(i) : inits[i][k] = "pending"}

\* Mutant: an item that was still a future clears `done`, ready or not.
Done_NothingPolled(i) == Polled(i) = {}

\* `done` after the loop: no item is left that is still a future.
Done(i) == NotReady(i) = {}

PollItems(i) ==
  /\ items' = [items EXCEPT ![i] = [k \in DOMAIN items[i] |-> PolledItem(i, k)]]
  /\ inits' = [inits EXCEPT ![i] =
       [k \in DOMAIN inits[i] |->
          IF k \in Polled(i) /\ inits[i][k] = "ok" THEN "taken" ELSE inits[i][k]]]
  /\ waits' = [waits EXCEPT ![i] = NotReady(i)]

\* The router: (pattern, service) in the order of the drained items.
Routes(its) ==
  [k \in DOMAIN its |->
     [kind |-> its[k].kind, at |-> its[k].at, paths |-> its[k].paths,
      routes |-> its[k].routes, endpoint |-> its[k].endpoint, default |-> its[k].default]]

-----------------------------------------------------------------------------
(* AndThenNewService's future (external): polls the state, then the app *)

\* Everything an instance under construction holds is dropped with it.
Discard(i, how) ==
  /\ status'   = [status   EXCEPT ![i] = how]
  /\ hasState' = [hasState EXCEPT ![i] = FALSE]
  /\ items'    = [items    EXCEPT ![i] = << >>]
  /\ inits'    = [inits    EXCEPT ![i] = << >>]
  /\ waits'    = [waits    EXCEPT ![i] = {}]
  /\ task'     = [task     EXCEPT ![i] = "parked"]
  /\ router'   = [router   EXCEPT ![i] = << >>]

Awake(i) == status[i] = "starting" /\ task[i] = "woken"

PollFails(i) ==
  /\ Awake(i) /\ Bad(i) # {}
  /\ Discard(i, IF inits[i][Earliest(Bad(i))] = "err" THEN "failed" ELSE "panicked")
  /\ IF MustConstruct(i) THEN ext' = Inserted(ext, stateFuts[i]) ELSE UNCHANGED ext
  /\ stateFuts' = [stateFuts EXCEPT ![i] = << >>]
  /\ UNCHANGED <<buildVars, reqs>>

PollNotReady(i) ==
  /\ Awake(i) /\ Bad(i) = {}
  /\ ~(Done(i) /\ StateReady(i))
  /\ PollState(i)
  /\ PollItems(i)
  /\ hasState' = [hasState EXCEPT ![i] = StateReady(i)]
  /\ task' = [task EXCEPT ![i] = "parked"]
  /\ UNCHANGED <<buildVars, status, router, reqs>>

PollReady(i) ==
  /\ Awake(i) /\ Bad(i) = {} /\ Done(i) /\ StateReady(i)
  /\ PollState(i)
  /\ status'   = [status   EXCEPT ![i] = "ready"]
  /\ hasState' = [hasState EXCEPT ![i] = TRUE]
  /\ router'   = [router   EXCEPT ![i] = Routes(items[i])]
  /\ items'    = [items    EXCEPT ![i] = << >>]
  /\ inits'    = [inits    EXCEPT ![i] = << >>]
  /\ waits'    = [waits    EXCEPT ![i] = {}]
  /\ task'     = [task     EXCEPT ![i] = "parked"]
  /\ UNCHANGED <<buildVars, reqs>>

Poll(i) == PollFails(i) \/ PollNotReady(i) \/ PollReady(i)

\* The server lets go of an instance, ready or not; its requests live on.
Drop(i) ==
  /\ status[i] \in {"starting", "ready"}
  /\ Discard(i, "dropped")
  /\ stateFuts' = [stateFuts EXCEPT ![i] = << >>]
  /\ UNCHANGED <<buildVars, ext, reqs>>

-----------------------------------------------------------------------------
(* Serving *)

\* RouteService::check: every filter accepts.
Check(route, q) == \A k \in DOMAIN route.filters : FilterCheck(route.filters[k], q)

\* ResourceService::call: the first route whose filters accept, else the
\* default, else 404.
CallResource(service, q) ==
  LET j == SelectInSeq(service.routes, LAMBDA route : Check(route, q))
  IN  IF j # 0 THEN <<"route", service.at, service.routes[j].at>>
      ELSE IF service.default # NoDefault THEN service.default ELSE NotFound

\* AppService::call: the first pattern of the router that matches, else 404.
CallApp(i, q) ==
  LET k == SelectInSeq(router[i], LAMBDA service : q.path \in service.paths)
  IN  IF k = 0 THEN NotFound
      ELSE IF router[i][k].kind = "service" THEN <<"service", router[i][k].at, 0>>
      ELSE CallResource(router[i][k], q)

\* The services wrapped around the one that answers: each middleware of the
\* application, then each of the resource the request is routed to.
Through(i, q) ==
  LET k == SelectInSeq(router[i], LAMBDA service : q.path \in service.paths)
      inner == IF k = 0 THEN << >> ELSE router[i][k].endpoint
  IN  [n \in DOMAIN endpoint |-> <<endpoint[n], 0>>]
        \o [n \in DOMAIN inner |-> <<router[i][k].at, inner[n]>>]

\* AppStateService::call makes the ServiceRequest, with a clone of the
\* extensions, and AppService::call picks who answers it.
Call(i, r, q) ==
  /\ status[i] = "ready" /\ reqs[r] = NoReq
  /\ reqs' = [reqs EXCEPT ![r] = [req |-> q, through |-> Through(i, q),
                                 by |-> CallApp(i, q)]]
  /\ UNCHANGED <<buildVars, ext, instVars>>

\* The response is out and the request, with its extensions, is dropped.
Finish(r) ==
  /\ reqs[r] # NoReq
  /\ reqs' = [reqs EXCEPT ![r] = NoReq]
  /\ UNCHANGED <<buildVars, ext, instVars>>

-----------------------------------------------------------------------------
Next ==
  \/ /\ (\E c \in Calls : BuilderStep(c)) \/ IntoNewService
     /\ UNCHANGED <<ext, instVars, reqs>>
  \/ \E i \in Instances : NewService(i) \/ Poll(i) \/ Drop(i)
  \/ \E i \in Instances, k \in 1..MaxCalls, result \in {"ok", "err"} :
       Complete(i, k, result)
  \/ \E i \in Instances, r \in Slots, q \in Requests : Call(i, r, q)
  \/ \E r \in Slots : Finish(r)

Spec == Init /\ [][Next]_vars
-----------------------------------------------------------------------------
(***************************************************************************)
(* Fairness.  The executor polls a task that was woken, and the init       *)
(* futures of custom services complete.  The server need not start, drop   *)
(* or use an instance.                                                     *)
(***************************************************************************)
Fairness ==
  /\ \A i \in Instances : WF_vars(Poll(i))
  /\ \A i \in Instances, k \in 1..MaxCalls :
       WF_vars(\E result \in {"ok", "err"} : Complete(i, k, result))

FairSpec == Spec /\ Fairness

-----------------------------------------------------------------------------
(* Properties *)

Parties == {"own_default", "app_default", "none", "not_found", "route", "service"}
Answers == Parties \X (0..MaxCalls) \X Nat
RouteRecords == [at : Nat, filters : Seq(Filters)]
Entries == [kind : {"resource", "service"}, at : 1..MaxCalls, paths : SUBSET Paths,
            routes : Seq(RouteRecords), endpoint : Seq(Nat), cell : 0..MaxCalls]
Routables == [kind : {"resource", "service"}, at : 1..MaxCalls, paths : SUBSET Paths,
              routes : Seq(RouteRecords), endpoint : Seq(Nat), default : Answers]
Items == [stage : {"future", "service"}, kind : {"resource", "service"},
          at : 1..MaxCalls, paths : SUBSET Paths,
          routes : Seq(RouteRecords), endpoint : Seq(Nat), default : Answers]
StateEntries == [type : Types, value : 1..MaxCalls]

\* Types.
TypeOK ==
  /\ log \in Seq(Calls) /\ Len(log) <= MaxCalls
  /\ services \in Seq(Entries)
  /\ \A k \in DOMAIN services :
       services[k].kind = "resource" => services[k].cell \in DOMAIN cells
  /\ cells \in Seq(Answers)
  /\ defaults \in Seq(1..Len(cells))
  /\ default \in Answers
  /\ state \in Seq(StateEntries)
  /\ endpoint \in Seq(1..MaxCalls) /\ built \in BOOLEAN
  /\ ext \in [Types -> 0..MaxCalls]
  /\ status \in [Instances ->
       {"absent", "starting", "ready", "failed", "dropped", "panicked"}]
  /\ stateFuts \in [Instances -> Seq(StateEntries)]
  /\ hasState \in [Instances -> BOOLEAN]
  /\ items \in [Instances -> Seq(Items)]
  /\ inits \in [Instances -> Seq({"pending", "ok", "err", "taken"})]
  /\ waits \in [Instances -> SUBSET (1..MaxCalls)]
  /\ task \in [Instances -> {"woken", "parked"}]
  /\ router \in [Instances -> Seq(Routables)]
  /\ reqs \in [Slots -> [req : Requests, through : Seq(Nat \X Nat), by : Answers] \cup {NoReq}]

\* Every party that can reach the shared extensions (an instance past its
\* state future, ready or not, or a request in flight) sees the value of the
\* last App::state call of each type.  An instance started while another, or
\* a request of another, is alive cannot insert anything (Rc::get_mut fails
\* and the code goes on with a warning), and must not need to.
StateIsVisible ==
  Holders # {} => \A t \in Keys : ext[t] = Visible(log, t)

\* No future is polled again after it gave its result, although the items
\* of an instance complete in any order and all are looked at in each poll.
NeverPolledAgain == \A i \in Instances : status[i] # "panicked"

\* No lost wakeup: an instance asleep under construction is registered with
\* a future, and only with futures that are still pending and will wake it.
SleepingStartsAreWoken ==
  \A i \in Instances : status[i] = "starting" /\ task[i] = "parked" =>
    /\ waits[i] # {}
    /\ \A k \in waits[i] : inits[i][k] = "pending"

\* An instance that is started becomes ready, fails, or is dropped: it never
\* hangs, whatever the other instances do.
EveryStartEnds ==
  \A i \in Instances : status[i] = "starting" ~> status[i] # "starting"

\* The instances keep the promise of AppSpec: whatever the order in which
\* the services of an instance came up, and whatever the order of the
\* builder calls, a request is answered by the first matching declaration,
\* its first accepting route, its default, or the application's.  Where the
\* documentation and the code read a declaration in two ways (AppDecl), nothing
\* is said of which is right.
AS == INSTANCE AppSpec WITH log <- log, built <- built, status <- status, reqs <- reqs
KeepsAppSpec == AS!Spec

-----------------------------------------------------------------------------
(* What the documentation says and the code does not do *)

Unanswered(r) == reqs[r] # NoReq /\ reqs[r].by = NotFound

HasDefault == Declared(log, "default_resource") # {}

\* "Default resource to be used if no matching route could be found": also
\* by a resource declared before a middleware.
DefaultCoversResources ==
  \A r \in Slots : Unanswered(r) /\ HasDefault => Matching(log, reqs[r].req) = {}

\* App::state_factory: "State get constructed asynchronously during
\* application initialization": a ready instance has state of that type.
FactoryStateIsConstructed ==
  \A i \in Instances : status[i] = "ready" =>
    \A k \in Declared(log, "state_factory") : ext[log[k].key] # 0
=============================================================================
