---------------------------- MODULE MCNamedFile -----------------------------
(* NamedFile on files of up to 2 bytes, with two ticks to a second and three *)
(* moments of change: a file changed twice in a second, and once more.  A    *)
(* fourth moment lies before the epoch.                                      *)
EXTENDS NamedFile

MCMinTime == -1

Elem(first, last) == [first |-> first, last |-> last]
Header(elements) == [form |-> "bytes=", elements |-> elements]

\* The first byte, the second and what may follow, the last one, no element.
MCHeaders == {Header(<<Elem(0, 0)>>), Header(<<Elem(1, 2)>>),
              Header(<<Elem(Nothing, 1)>>), Header(<< >>)}

With(match, noneMatch, unmodified, modified) ==
  [ifMatch |-> match, ifNoneMatch |-> noneMatch, ifUnmodifiedSince |-> unmodified,
   ifModifiedSince |-> modified]

\* Each on its own, and all of them in one request.
MCConditions ==
  {NoCondition, With("own", "none", FALSE, FALSE), With("none", "own", FALSE, FALSE),
   With("none", "none", TRUE, FALSE), With("none", "none", FALSE, TRUE),
   With("own", "own", TRUE, TRUE), With("any", "any", FALSE, FALSE)}

Config(etag, lastModified, methods, status, checks) ==
  [etag |-> etag, lastModified |-> lastModified, methods |-> methods,
   status |-> status, checks |-> checks]

MCConfigs == {Config(TRUE, TRUE, {"GET", "HEAD"}, 200, FALSE),
              Config(FALSE, TRUE, {"GET"}, 200, TRUE),
              Config(TRUE, FALSE, {"GET"}, 200, FALSE),
              Config(TRUE, TRUE, {"GET"}, 404, FALSE)}
=============================================================================
