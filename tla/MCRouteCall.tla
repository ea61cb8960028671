---------------------------- MODULE MCRouteCall -----------------------------
(* RouteCall on one slot.  Handlers take up to three arguments: each kind   *)
(* alone, two that want the body in any wrapping, slow ones around others.  *)
(* They return each inner value, wrapped and behind up to two futures.      *)
(* Bodies have up to two bytes, one more than is allowed.                   *)
EXTENDS RouteCall

CONSTANTS r1

Arg(kind, wrap) == [kind |-> kind, wrap |-> wrap]
Wraps == {"plain", "option", "result"}

MCSlots == {r1}

MCSignatures ==
       {<< >>}
  \cup {<<Arg(k, "plain")>> : k \in Kinds}
  \cup {<<Arg("json", w), Arg("state", "plain"), Arg("bytes", v)>> : w, v \in Wraps}
  \cup {<<Arg("form", w), Arg("string", v), Arg("json", "plain")>> : w, v \in Wraps}
  \cup {<<Arg("custom", w), Arg("string", v), Arg("custom", "plain")>> : w, v \in Wraps}
  \cup {<<Arg("custom", "option"), Arg("path", w), Arg("form", "plain")>> : w \in Wraps}
  \cup {<<Arg("query", w), Arg("request", "plain"), Arg("bytes", "plain")>> : w \in Wraps}

MCValues == {
  <<"text">>, <<"some", "text">>, <<"none">>, <<"ok", "either", "bytes">>,
  <<"either", "ok", "unserializable">>, <<"err">>, <<"future", "response">>,
  <<"ok", "future", "some", "json">>, <<"future", "either", "future", "none">>}
=============================================================================
