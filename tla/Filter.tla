------------------------------- MODULE Filter -------------------------------
(***************************************************************************)
(* The predicates a route is guarded by: filter.rs.                        *)
(*                                                                         *)
(* A filter is a tree of boxed filters.  Here it is the sequence of its    *)
(* nodes, children before their parent, the root last; a combinator names  *)
(* its children by their places.                                           *)
(***************************************************************************)
EXTENDS Integers, Sequences, SequencesExt

\* filter::Method and Get, Post, ..; Header; Host.
MethodFilter(m)       == << [op |-> "method", method |-> m] >>
HeaderFilter(n, v)    == << [op |-> "header", name |-> n, value |-> v] >>
HostFilter(h)         == << [op |-> "host", host |-> h] >>

\* The nodes of g, to come after n others.
Shifted(g, n) ==
  [k \in DOMAIN g |->
     IF "of" \in DOMAIN g[k] THEN [g[k] EXCEPT !.of = {c + n : c \in @}] ELSE g[k]]

\* Any(f1).or(f2).., All(f1).and(f2).., Not(f1): the root is put on top.
Combined(op, filters) ==
  LET join == FoldLeft(LAMBDA acc, f : [nodes |-> acc.nodes \o Shifted(f, Len(acc.nodes)),
                                        roots |-> acc.roots \cup {Len(acc.nodes) + Len(f)}],
                       [nodes |-> << >>, roots |-> {}], filters)
  IN  Append(join.nodes, [op |-> op, of |-> join.roots])

AnyFilter(filters) == Combined("any", filters)
AllFilter(filters) == Combined("all", filters)
NotFilter(filter)  == Combined("not", << filter >>)

-----------------------------------------------------------------------------
(* check *)

\* HeaderMap::get gives the first value a header has.
HeaderCheck(f, q) == q.headers[f.name] # << >> /\ Head(q.headers[f.name]) = f.value

\* HostFilter's comparison is commented out.
HostCheck(f, q) == FALSE

\* One filter of the tree, given what its children say.
NodeCheck(f, q, child) ==
  \/ f.op = "method" /\ f.method = q.method
  \/ f.op = "header" /\ HeaderCheck(f, q)
  \/ f.op = "host"   /\ HostCheck(f, q)
  \/ f.op = "any"    /\ \E c \in f.of : child[c]
  \/ f.op = "all"    /\ \A c \in f.of : child[c]
  \/ f.op = "not"    /\ \A c \in f.of : ~child[c]

\* Filter::check of the whole tree.
FilterCheck(filter, q) ==
  LET check[k \in DOMAIN filter] ==
        NodeCheck(filter[k], q, [c \in 1..(k - 1) |-> check[c]])
  IN  check[Len(filter)]
=============================================================================
