------------------------------ MODULE FileTree ------------------------------
(***************************************************************************)
(* A file system as far as fs.rs sees it (external: std::fs on Unix).      *)
(*                                                                         *)
(* A tree gives each place, a sequence of names below the root, an entry.  *)
(* A path is a sequence of names too, "..", or names on which links lie.   *)
(***************************************************************************)
EXTENDS Integers, Sequences, SequencesExt

CONSTANTS
  Places,    \* the places of the tree, the root << >> left out
  MaxLinks,  \* most links one lookup follows (40 on Linux)
  MaxTarget  \* most names in the target of a link (4095 bytes on Linux)

\* No name is empty or "..".
ASSUME PlacesAssumption ==
  /\ Places \subseteq Seq(STRING) \ {<< >>}
  /\ \A p \in Places : \A k \in DOMAIN p : p[k] \notin {"", ".."}
ASSUME LinksAssumption == MaxLinks \in Nat /\ MaxTarget \in Nat

Absent   == [kind |-> "absent", to |-> << >>]
Dir      == [kind |-> "dir",    to |-> << >>]
File     == [kind |-> "file",   to |-> << >>]
LinkTo(p) == [kind |-> "link",  to |-> p]

Entry(tree, place) ==
  IF place = << >> THEN Dir ELSE IF place \in Places THEN tree[place] ELSE Absent

Parent(place) == IF place = << >> THEN << >> ELSE Front(place)

\* What there is lies in a directory.
IsTree(tree) ==
  \A p \in Places : tree[p] # Absent => Entry(tree, Parent(p)) = Dir

Children(tree, place) ==
  {p \in Places : p # << >> /\ Front(p) = place /\ tree[p] # Absent}

NamesIn(tree, place) == {Last(p) : p \in Children(tree, place)}

-----------------------------------------------------------------------------
(* Looking a path up, a name at a time *)

\* `done` is the place reached, `rest` what is left of the path.
Walk(path) == [at |-> "walking", done |-> << >>, rest |-> path, links |-> 0]

\* The name the walk comes to next, as a place.
Ahead(w) == Append(w.done, Head(w.rest))

\* That name, whose entry is e, is passed.
Pass(w, e) ==
  IF Head(w.rest) = ".." THEN [w EXCEPT !.done = Parent(@), !.rest = Tail(@)]
  ELSE IF e.kind = "absent" THEN [w EXCEPT !.at = "NotFound"]
  ELSE IF (e.kind = "file" /\ Len(w.rest) > 1) \/ (e.kind = "link" /\ w.links = MaxLinks)
       THEN [w EXCEPT !.at = "Other"]
  ELSE IF e.kind = "link"
       THEN [w EXCEPT !.done = << >>, !.rest = e.to \o Tail(@), !.links = @ + 1]
  ELSE [w EXCEPT !.done = Ahead(w), !.rest = Tail(@)]

WalkStep(w, e) == IF w.rest = << >> THEN [w EXCEPT !.at = "found"] ELSE Pass(w, e)

\* One step of a walk in a tree; none once it is over.
Step(tree, w) ==
  IF w.at # "walking" THEN w
  ELSE WalkStep(w, IF w.rest = << >> THEN Absent ELSE Entry(tree, Ahead(w)))

\* Steps a walk has before it at most, with a target put in front by each link.
StepsLeft(w) == Len(w.rest) + (MaxLinks - w.links) * MaxTarget + 1

\* Where a walk ends in a tree that does not change.
Arrival(tree, w) ==
  LET walk[n \in 0..StepsLeft(w)] == IF n = 0 THEN w ELSE Step(tree, walk[n - 1])
  IN  walk[StepsLeft(w)]

\* The lookup in one go, as one system call does it.
Lookup(tree, path) == Arrival(tree, Walk(path))

\* stat(2): the entry a path leads to; lstat(2): the one at its last name.
Stat(tree, path) ==
  LET w == Lookup(tree, path) IN IF w.at = "found" THEN Entry(tree, w.done) ELSE Absent

LStat(tree, path) ==
  LET w == Lookup(tree, Front(path)) IN
  IF w.at = "found" THEN Entry(tree, Append(w.done, Last(path))) ELSE Absent
=============================================================================
