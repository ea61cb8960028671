---------------------------- MODULE MCAppService ----------------------------
(* AppService on small instances. *)
EXTENDS AppService

CONSTANTS p1, p2, get, post, k1, i1, i2, r1

\* Requests carry no header h, one value of it, or two; one names a host.
MCHeaders   == {[h |-> << >>, host |-> <<"a">>], [h |-> <<"a">>, host |-> << >>],
                [h |-> <<"b", "a">>, host |-> << >>]}
MCNoHeaders == {[h |-> << >>]}

Verb(m)         == [call |-> "verb", method |-> m]
OfMethod(m, fs) == [call |-> "method", method |-> m, filters |-> fs]
OfRoute(fs)     == [call |-> "route", filters |-> fs]
Plain(name)     == [call |-> name]

\* A resource with one route, one configured by everything the builders
\* offer, and one whose routes shadow or exclude each other.
Narrow == [paths |-> {p1}, calls |-> << Verb(get) >>]
Wide   == [paths |-> {p1, p2},
           calls |-> << Plain("default_resource"),
                        OfMethod(get, << AnyFilter(<< HeaderFilter("h", "a"), NotFilter(MethodFilter(get)) >>) >>),
                        Plain("middleware"),
                        OfRoute(<< AllFilter(<< MethodFilter(post), NotFilter(HeaderFilter("h", "b")) >>) >>),
                        Plain("middleware"),
                        Plain("default_resource") >>]
Closed == [paths |-> {p2},
           calls |-> << OfMethod(get, << MethodFilter(post) >>),
                        OfRoute(<< AnyFilter(<< HostFilter("a"), NotFilter(AnyFilter(<< MethodFilter(get), HeaderFilter("h", "a") >>)) >>) >>),
                        OfRoute(<< HeaderFilter("h", "b"), MethodFilter(post) >>) >>]

MCPaths       == {p1, p2}
MCMethods     == {get, post}
MCOnePath     == {p1}
MCOneMethod   == {get}
MCAll         == {Narrow, Wide, Closed}
MCNarrow      == {Narrow}
MCCustom      == {{p1}}
MCOneKey      == {k1}
MCNoKeys      == {}
MCInstances   == {i1, i2}
MCOneInstance == {i1}
MCSlots       == {r1}
=============================================================================
