------------------------------ MODULE Resource ------------------------------
(***************************************************************************)
(* The builders of a resource and its routes: resource.rs, Resource, and   *)
(* route.rs, RouteBuilder.                                                 *)
(*                                                                         *)
(* A resource is configured by a chain of calls, one value passed along.   *)
(***************************************************************************)
EXTENDS Filter

NewResource == [routes |-> << >>, default |-> 0, endpoint |-> << >>]

\* RouteBuilder::method and RouteBuilder::filter push at the end.
OnMethod(filters, m) == Append(filters, MethodFilter(m))
Guarded(filters, fs) == filters \o fs

\* The filters of the route a call adds.  get, post, put, delete and head
\* start from a builder with their method, `method` passes one to its closure,
\* `route` passes a new one; `to` and `to_async` add a route for all requests.
FiltersOf(c) ==
  LET build == << >> IN
  CASE c.call = "verb"   -> OnMethod(build, c.method)
    [] c.call = "method" -> Guarded(OnMethod(build, c.method), c.filters)
    [] c.call = "route"  -> Guarded(build, c.filters)
    [] c.call = "to"     -> build

\* Call number `at`.  `default_resource` replaces the resource's default with
\* its own, `middleware` wraps the endpoint once more and keeps all else.
Configured(res, at, c) ==
  IF c.call = "default_resource" THEN [res EXCEPT !.default = at]
  ELSE IF c.call = "middleware" THEN [res EXCEPT !.endpoint = <<at>> \o @]
  ELSE [res EXCEPT !.routes = Append(@, [at |-> at, filters |-> FiltersOf(c)])]

\* What a chain of calls builds; `default` is the call that set it, or 0.
ResourceOf(calls) ==
  LET built[n \in 0..Len(calls)] ==
        IF n = 0 THEN NewResource ELSE Configured(built[n - 1], n, calls[n])
  IN  built[Len(calls)]
=============================================================================
