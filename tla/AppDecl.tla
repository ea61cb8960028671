------------------------------ MODULE AppDecl -------------------------------
(***************************************************************************)
(* What an application declares, and what its declarations mean.           *)
(*                                                                         *)
(* An application is a sequence of builder calls (app.rs, App).  Nothing   *)
(* of the builder's data structures appears here: `Answerer` and `Visible` *)
(* read the meaning of a declaration off the sequence of calls.            *)
(*                                                                         *)
(* At four points the documentation says one thing and the code another.   *)
(* They are two readings of a declaration, "docs" and "code":              *)
(*   - the docs recognise the host of a request (filter.rs:194), the code  *)
(*     has the comparison commented out;                                   *)
(*   - the docs look for a value of a header (filter.rs:173), the code at  *)
(*     the first one only;                                                 *)
(*   - the docs have the default resource answer for any resource          *)
(*     (app.rs:191), the code not for those a middleware comes after;      *)
(*   - the docs have it answer where nothing matches, the code does not.   *)
(***************************************************************************)
EXTENDS Integers, Sequences, FiniteSets

CONSTANTS
  Paths, Methods,  \* what requests and patterns tell apart
  Headers,         \* the headers of a request: its values of each name
  Resources,       \* resources passed to App::resource: records
                   \*   [paths, calls]: paths the pattern matches, and the
                   \*   calls that configured the resource
  Services,        \* custom services passed to App::service: sets of paths
  Keys             \* types of application state

Requests == [path : Paths, method : Methods, headers : Headers]

FilterNodes ==
       [op : {"method"}, method : Methods]
  \cup [op : {"header"}, name : UNION {DOMAIN h : h \in Headers}, value : STRING]
  \cup [op : {"host"}, host : STRING]
  \cup [op : {"any", "all", "not"}, of : SUBSET Nat]

\* Trees of filters as sequences of nodes, children first, the root last.
Filters ==
  {f \in Seq(FilterNodes) :
     /\ f # << >>
     /\ \A k \in DOMAIN f : f[k].op \in {"any", "all", "not"} => f[k].of \subseteq 1..(k - 1)}

\* The calls of Resource's builder.
ResourceCalls ==
       [call : {"verb"}, method : Methods]
  \cup [call : {"method"}, method : Methods, filters : Seq(Filters)]
  \cup [call : {"route"}, filters : Seq(Filters)]
  \cup [call : {"to", "default_resource", "middleware"}]

ASSUME ResourcesAssumption == Resources \subseteq [paths : SUBSET Paths, calls : Seq(ResourceCalls)]
ASSUME ServicesAssumption  == Services \subseteq SUBSET Paths

\* The builder calls that change the application.
Calls ==
       [call : {"resource"}, res : Resources]
  \cup [call : {"service"}, paths : Services]
  \cup [call : {"default_resource", "middleware"}]
  \cup [call : {"state", "state_factory"}, key : Keys]

\* The indices of the calls of one kind.
Declared(log, kind) == {k \in 1..Len(log) : log[k].call = kind}

Latest(S)   == CHOOSE k \in S : \A j \in S : j <= k
Earliest(S) == CHOOSE k \in S : \A j \in S : k <= j

\* The calls of S as a sequence, the last one first.
Newest(S) ==
  [n \in 1..Cardinality(S) |-> CHOOSE k \in S : Cardinality({j \in S : j > k}) = n - 1]

-----------------------------------------------------------------------------
(* What a resource declares *)

\* The requests a node of a filter stands for, given those of its children.
Stands(of, f, reading) ==
  CASE f.op = "method" -> {q \in Requests : q.method = f.method}
    [] f.op = "header" ->
         {q \in Requests : LET values == q.headers[f.name] IN
            \/ reading = "code" /\ values # << >> /\ Head(values) = f.value
            \/ reading = "docs" /\ \E n \in DOMAIN values : values[n] = f.value}
    [] f.op = "host"   ->
         {q \in Requests : /\ reading = "docs" /\ "host" \in DOMAIN q.headers
                           /\ \E n \in DOMAIN q.headers["host"] : q.headers["host"][n] = f.host}
    [] f.op = "any"    -> UNION {of[c] : c \in f.of}
    [] f.op = "all"    -> {q \in Requests : \A c \in f.of : q \in of[c]}
    [] f.op = "not"    -> Requests \ UNION {of[c] : c \in f.of}

Accepted(filter, reading) ==
  LET of[k \in DOMAIN filter] == Stands(of, filter[k], reading) IN of[Len(filter)]

\* The requests the route of a call takes.
Takes(c, q, reading) ==
  /\ c.call \in {"verb", "method"} => q.method = c.method
  /\ c.call \in {"method", "route"} =>
       \A k \in DOMAIN c.filters : q \in Accepted(c.filters[k], reading)

-----------------------------------------------------------------------------
(* Who answers a request: <<who, index of the call, index in the resource>>.*)

NotFound == <<"not_found", 0, 0>>

\* The declarations whose pattern matches the path of q.
Matching(log, q) ==
       {k \in Declared(log, "resource") : q.path \in log[k].res.paths}
  \cup {k \in Declared(log, "service") : q.path \in log[k].paths}

\* The application's default resource is the last one set.
AppDefault(log) ==
  LET defaults == Declared(log, "default_resource")
  IN  IF defaults # {} THEN <<"app_default", Latest(defaults), 0>> ELSE NotFound

\* A resource that no route of its own takes falls back on its own default,
\* the last one set, else on the application's.  In the code the latter
\* reaches only the resources declared after the last middleware.
Fallback(log, k, reading) ==
  LET own   == Declared(log[k].res.calls, "default_resource")
      wraps == Declared(log, "middleware")
  IN  IF own # {} THEN <<"own_default", k, Latest(own)>>
      ELSE IF reading = "docs" \/ \A m \in wraps : m < k THEN AppDefault(log)
      ELSE NotFound

\* The first declaration that matches answers, by the first of its routes
\* that takes the request.
Answerer(log, q, reading) ==
  IF Matching(log, q) = {} THEN IF reading = "docs" THEN AppDefault(log) ELSE NotFound
  ELSE LET k == Earliest(Matching(log, q)) IN
       IF log[k].call = "service" THEN <<"service", k, 0>>
       ELSE LET calls == log[k].res.calls
                taken == {j \in 1..Len(calls) :
                            /\ calls[j].call \in {"verb", "method", "route", "to"}
                            /\ Takes(calls[j], q, reading)}
            IN  IF taken = {} THEN Fallback(log, k, reading)
                ELSE <<"route", k, Earliest(taken)>>

\* Who may answer: where the readings agree, the party both of them name.
Answerers(log, q) == {Answerer(log, q, reading) : reading \in {"code", "docs"}}

\* The middlewares a request passes on its way to the answerer: those of the
\* application, then those of the resource, the last one declared first.
Layers(log, q) ==
  LET outer == Newest(Declared(log, "middleware"))
      inner(k) == Newest(Declared(log[k].res.calls, "middleware"))
      app == [n \in DOMAIN outer |-> <<outer[n], 0>>]
      first == Earliest(Matching(log, q))
  IN  IF Matching(log, q) = {} \/ log[first].call = "service" THEN app
      ELSE app \o [n \in DOMAIN inner(first) |-> <<first, inner(first)[n]>>]

-----------------------------------------------------------------------------
(* Which state a handler can extract: for each type, the call that gave it. *)

StateCalls(log, key) == {k \in Declared(log, "state") : log[k].key = key}

\* The last App::state call of the type, 0 if there was none.
Visible(log, key) ==
  IF StateCalls(log, key) = {} THEN 0 ELSE Latest(StateCalls(log, key))
=============================================================================
