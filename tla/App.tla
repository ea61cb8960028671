-------------------------------- MODULE App ---------------------------------
(***************************************************************************)
(* The application builder: app.rs, App, from App::new to into_new_service.*)
(*                                                                         *)
(* A default service reaches a resource through a shared cell: Resource    *)
(* keeps `default: Rc<RefCell<Option<Rc<..>>>>`, App::resource keeps a     *)
(* clone of that Rc in `defaults`, and into_new_service fills the empty    *)
(* ones.  `cells` is the heap of these RefCells; a clone of the Rc is an   *)
(* index into it.                                                          *)
(***************************************************************************)
EXTENDS AppDecl, Resource

CONSTANTS
  Closure,   \* the type a state factory's closure has (not in Keys)
  MaxCalls   \* bound on the number of builder calls

ASSUME ClosureAssumption  == Closure \notin Keys
ASSUME MaxCallsAssumption == MaxCalls \in Nat

VARIABLES
  log,       \* history: the builder calls made so far
  services,  \* App.services: (pattern, factory) in order of registration
  cells,     \* the RefCells of the resources' defaults
  defaults,  \* App.defaults: the cells into_new_service will look at
  default,   \* App.default
  state,     \* App.state
  endpoint,  \* App.endpoint: the middlewares around AppEntry, outermost first
  built      \* into_new_service was called

buildVars == <<log, services, cells, defaults, default, state, endpoint, built>>

NoDefault == <<"none", 0, 0>>

\* The number a call has in the log names what the call passed in.
Here == Len(log) + 1

BuilderInit ==
  /\ log = << >>
  /\ services = << >>
  /\ cells = << >>
  /\ defaults = << >>
  /\ default = NoDefault
  /\ state = << >>
  /\ endpoint = << >>
  /\ built = FALSE

CanCall(c) ==
  /\ ~built /\ Len(log) < MaxCalls
  /\ log' = Append(log, c)
  /\ built' = built

\* A state value is stored with its type.  App::state_factory stores the
\* closure itself the same way: the type is that of the closure.
StateEntry(c) ==
  [type |-> IF c.call = "state" THEN c.key ELSE Closure, value |-> Here]

\* App::state and App::state_factory, offered until the first middleware.
AddState(c) ==
  /\ c.call \in {"state", "state_factory"} /\ endpoint = << >>
  /\ CanCall(c)
  /\ state' = Append(state, StateEntry(c))
  /\ UNCHANGED <<services, cells, defaults, default, endpoint>>

ResourceEntry(paths, res, cell) ==
  [kind |-> "resource", at |-> Here, paths |-> paths,
   routes |-> res.routes, endpoint |-> res.endpoint, cell |-> cell]

\* App::resource: f has configured the resource; its own default is in a new
\* cell.  get_default shares the cell with the App.
AddResource(c) ==
  LET res == ResourceOf(c.res.calls) IN
  /\ c.call = "resource"
  /\ CanCall(c)
  /\ cells' = Append(cells, IF res.default # 0 THEN <<"own_default", Here, res.default>>
                            ELSE NoDefault)
  /\ defaults' = Append(defaults, Len(cells) + 1)
  /\ services' = Append(services, ResourceEntry(c.res.paths, res, Len(cells) + 1))
  /\ UNCHANGED <<default, state, endpoint>>

\* App::service: a custom service has no default.
AddService(c) ==
  /\ c.call = "service"
  /\ CanCall(c)
  /\ services' = Append(services,
       [kind |-> "service", at |-> Here, paths |-> c.paths, routes |-> << >>,
        endpoint |-> << >>, cell |-> 0])
  /\ UNCHANGED <<cells, defaults, default, state, endpoint>>

\* App::default_resource replaces the default set before.
SetDefault(c) ==
  /\ c.call = "default_resource"
  /\ CanCall(c)
  /\ default' = <<"app_default", Here, 0>>
  /\ UNCHANGED <<services, cells, defaults, state, endpoint>>

\* Mutant: the cells of the resources are given up with `defaults`.
AddMiddleware_DropsCells(c) ==
  /\ c.call = "middleware"
  /\ CanCall(c)
  /\ endpoint' = <<Here>> \o endpoint
  /\ defaults' = << >> /\ cells' = << >>
  /\ UNCHANGED <<services, default, state>>

\* App::middleware rebuilds the App around the endpoint wrapped once more; it
\* keeps every field but `defaults` (and the extensions, still empty).
AddMiddleware(c) ==
  /\ c.call = "middleware"
  /\ CanCall(c)
  /\ endpoint' = <<Here>> \o endpoint
  /\ defaults' = << >>
  /\ UNCHANGED <<services, cells, default, state>>

\* Mutant: is_none() is not asked.
Filled_Overwrites(k) ==
  IF default # NoDefault /\ Contains(defaults, k) THEN default ELSE cells[k]

\* Cell k after into_new_service: filled if the App knows it and it is empty.
Filled(k) ==
  IF default # NoDefault /\ Contains(defaults, k) /\ cells[k] = NoDefault
  THEN default ELSE cells[k]

\* into_new_service: the services go to the AppFactory, the state to the
\* AppStateFactory.
IntoNewService ==
  /\ ~built /\ built' = TRUE
  /\ cells' = [k \in DOMAIN cells |-> Filled(k)]
  /\ UNCHANGED <<log, services, defaults, default, state, endpoint>>

BuilderStep(c) ==
  AddState(c) \/ AddResource(c) \/ AddService(c) \/ SetDefault(c) \/ AddMiddleware(c)
=============================================================================
