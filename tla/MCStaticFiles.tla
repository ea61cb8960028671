--------------------------- MODULE MCStaticFiles ----------------------------
(* StaticFiles on trees of eight places: the directory d with an index i, a *)
(* hidden, an oddly named and two plain entries, one whose name is the other*)
(* in percent-encoding, and a file o outside of it.                         *)
EXTENDS StaticFiles

d == <<"d">>
i == <<"d", "i">>
a == <<"d", "a">>
ai == <<"d", "a", "i">>
h == <<"d", ".h">>
x == <<"d", "x:">>
pa == <<"d", "%61">>
o == <<"o">>

MCPlaces  == {d, i, a, ai, h, x, pa, o}
MCRoots   == {d}
MCRenamed == [n \in {"%61"} |-> "a"]
MCTargets == {ai, a, o}

Empty == [p \in MCPlaces |-> IF p = d THEN Dir ELSE Absent]

MCTrees == {
  [Empty EXCEPT ![i] = File, ![a] = Dir, ![ai] = File, ![h] = File, ![pa] = File,
                ![o] = File],
  [Empty EXCEPT ![i] = LinkTo(ai), ![a] = Dir, ![ai] = LinkTo(o), ![x] = File, ![o] = File],
  [Empty EXCEPT ![i] = LinkTo(a), ![a] = Dir, ![ai] = Dir, ![h] = LinkTo(ai)] }

MCPaths == {
  <<"">>, <<"a">>, <<"a", "">>, <<"a", "i">>, <<"i">>, <<"i", "i">>, <<"..", "o">>,
  <<"a", "..", "..", "o">>, <<".h">>, <<"a", "..", "i">>, <<"x:">>}
=============================================================================
