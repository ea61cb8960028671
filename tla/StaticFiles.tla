---------------------------- MODULE StaticFiles -----------------------------
(***************************************************************************)
(* Serving a directory: fs.rs, StaticFiles with its service, Directory     *)
(* with its listing, and PathBuf::from_request.                            *)
(*                                                                         *)
(* A call runs on one thread from its start to its answer, but takes a     *)
(* system call for each thing it asks of the file system: the links on the *)
(* way to the path one by one, whether it is a directory, what the         *)
(* directory holds, each entry twice, the file.  Other processes change    *)
(* the tree between any two of them.  Calls share nothing that changes.    *)
(***************************************************************************)
EXTENDS FileTree

CONSTANTS
  Dotted,    \* names that start with '.'
  Odd,       \* names that start with '*' or end with ':', '>' or '<'
  Renamed,   \* what names become that a link does not keep, by name
  Targets,   \* where links lead
  Trees,     \* the trees at the beginning
  Paths,     \* tails of request paths, split at '/'
  Roots,     \* directories StaticFiles is made for
  Indexes,   \* index files: names
  MaxEdits   \* bound on the changes of the tree

Names   == {Last(p) : p \in Places}
Entries == {Absent, Dir, File} \cup {LinkTo(p) : p \in Targets}

ASSUME RenamedAssumption == \A n \in DOMAIN Renamed : Renamed[n] \in STRING
ASSUME EditsAssumption == MaxEdits \in Nat
ASSUME TreesAssumption ==
  \A t \in Trees : t \in [Places -> Entries] /\ IsTree(t)
ASSUME PathsAssumption ==
  /\ Paths \cup Targets \cup Roots \subseteq Seq(STRING)
  /\ \A p \in Targets : Len(p) <= MaxTarget
  /\ Indexes \subseteq STRING \ {"..", "none"}

VARIABLES
  tree,    \* the file system
  edits,   \* number of changes so far
  site,    \* the StaticFiles value: directory, index, show_index
  call,    \* the call in progress
  answer,  \* what it was answered
  quiet,   \* history: the tree is as it was when the call came
  stable,  \* history: what the directory listed has held all the time
  inside   \* history: no link ever led out of the directory

vars == <<tree, edits, site, call, answer, quiet, stable, inside>>

NoSite   == [made |-> FALSE, directory |-> << >>, index |-> "none", show |-> FALSE]
NoCall   == [at |-> "idle", segments |-> << >>, walk |-> Walk(<< >>), path |-> << >>,
             handle |-> << >>, todo |-> {}, name |-> "none", listed |-> {}]
NoAnswer == [kind |-> "none", place |-> << >>, entries |-> {}]

\* encode_file_url!: the segment a client asks for that follows the link.  A
\* name that is not UTF-8 is changed, and a '%' left as it is, which the router
\* decodes with the two digits that follow it (external).
Link(name) == IF name \in DOMAIN Renamed THEN Renamed[name] ELSE name

\* A line of the listing.
Line(name, is_dir) == [name |-> name, is_dir |-> is_dir, link |-> Link(name)]
Lines == [name : Names, is_dir : BOOLEAN, link : STRING]

Error(why)       == [NoAnswer EXCEPT !.kind = why]
Served(place)    == [NoAnswer EXCEPT !.kind = "file", !.place = place]
Listing(path, l) == [kind |-> "listing", place |-> path, entries |-> l]

NoDots(path) == \A k \in DOMAIN path : path[k] # ".."

\* Every link leads into the directory, without a "..".
NoLinkOut(t, directory) ==
  \A p \in Places : t[p].kind = "link" =>
    IsPrefix(directory, t[p].to) /\ NoDots(t[p].to)

Init ==
  /\ tree \in Trees
  /\ edits = 0
  /\ site = NoSite
  /\ call = NoCall
  /\ answer = NoAnswer
  /\ quiet = TRUE
  /\ stable = {}
  /\ inside = TRUE

-----------------------------------------------------------------------------
(* Making the service *)

\* with_config_pool: the directory is canonicalised once, and has to be one;
\* then the builders, and new_service, which copies it all.
New(dir, index, show) ==
  /\ ~site.made
  /\ LET w == Lookup(tree, dir) IN
       /\ w.at = "found" /\ Entry(tree, w.done) = Dir
       /\ site' = [made |-> TRUE, directory |-> w.done, index |-> index, show |-> show]
       /\ inside' = NoLinkOut(tree, w.done)
  /\ UNCHANGED <<tree, edits, call, answer, quiet, stable>>

-----------------------------------------------------------------------------
(* PathBuf::from_request *)

\* Mutant: ".." is pushed like any other name.
Pushed_Dots(buf, segment) == IF segment = "" THEN buf ELSE Append(buf, segment)

\* What a segment does to the path; an empty one nothing.
Pushed(buf, segment) ==
  IF segment = ".." THEN Parent(buf)
  ELSE IF segment = "" THEN buf ELSE Append(buf, segment)

Refused(segments) == \E k \in DOMAIN segments : segments[k] \in Dotted \cup Odd

RealPath(segments) ==
  LET buf[n \in 0..Len(segments)] ==
        IF n = 0 THEN << >> ELSE Pushed(buf[n - 1], segments[n])
  IN  buf[Len(segments)]

-----------------------------------------------------------------------------
(* StaticFilesService::call *)

Finish(reply) == answer' = reply /\ call' = [call EXCEPT !.at = "idle"]

Call(segments) ==
  /\ site.made /\ call.at = "idle" /\ answer = NoAnswer
  /\ IF Refused(segments)
     THEN /\ answer' = Error("BadSegment")
          /\ call' = [NoCall EXCEPT !.segments = segments]
     ELSE /\ call' = [NoCall EXCEPT !.at = "canonicalize", !.segments = segments,
                                    !.walk = Walk(site.directory \o RealPath(segments))]
          /\ UNCHANGED answer
  /\ quiet' = TRUE
  /\ stable' = {}
  /\ UNCHANGED <<tree, edits, site, inside>>

\* canonicalize looks at one name after the other.
Canonicalize ==
  /\ call.at = "canonicalize"
  /\ LET w == WalkStep(call.walk, IF call.walk.rest = << >> THEN Absent
                                  ELSE LStat(tree, Ahead(call.walk))) IN
       CASE w.at = "walking" -> call' = [call EXCEPT !.walk = w] /\ UNCHANGED answer
         [] w.at = "found"   -> /\ call' = [call EXCEPT !.at = "is_dir", !.path = w.done]
                                /\ UNCHANGED answer
         [] OTHER            -> Finish(Error(w.at))
  /\ UNCHANGED <<tree, edits, site, quiet, stable, inside>>

\* Mutant: the listing comes before the index file.
AfterIsDir_ListingFirst(is_dir) ==
  IF ~is_dir THEN "open" ELSE IF site.show THEN "read_dir"
  ELSE IF site.index # "none" THEN "index" ELSE "IsDirectory"

\* Where a call goes on: an index file is served in place of a directory, a
\* listing only without one.
AfterIsDir(is_dir) ==
  IF ~is_dir THEN "open" ELSE IF site.index # "none" THEN "index"
  ELSE IF site.show THEN "read_dir" ELSE "IsDirectory"

\* path.is_dir() is false also for what is no longer there.
IsDir ==
  /\ call.at = "is_dir"
  /\ LET next == AfterIsDir(Stat(tree, call.path) = Dir) IN
       IF next = "IsDirectory" THEN Finish(Error(next))
       ELSE /\ call' = [call EXCEPT !.at = IF next = "index" THEN "open" ELSE next,
                                    !.path = IF next = "index" THEN Append(@, site.index) ELSE @]
            /\ UNCHANGED answer
  /\ UNCHANGED <<tree, edits, site, quiet, stable, inside>>

\* NamedFile::open_with_config: links are followed, and a directory can be
\* opened too (Unix).
Open ==
  /\ call.at = "open"
  /\ LET w == Lookup(tree, call.path) IN
       Finish(IF w.at = "found" THEN Served(w.done) ELSE Error(w.at))
  /\ UNCHANGED <<tree, edits, site, quiet, stable, inside>>

-----------------------------------------------------------------------------
(* directory_listing *)

\* The entries of the directory at `place`, while `path` leads there.
Held(t, path, place) ==
  IF Lookup(t, path).done # place \/ Lookup(t, path).at # "found" THEN {}
  ELSE {<<n, Entry(t, Append(place, n))>> : n \in NamesIn(t, place)}

ReadDir ==
  /\ call.at = "read_dir"
  /\ LET w == Lookup(tree, call.path) IN
       IF w.at = "found" /\ Entry(tree, w.done) = Dir
       THEN /\ call' = [call EXCEPT !.at = "entry", !.handle = w.done,
                                    !.todo = NamesIn(tree, w.done)]
            /\ stable' = Held(tree, call.path, w.done)
            /\ UNCHANGED answer
       ELSE /\ Finish(Error(IF w.at = "found" THEN "Other" ELSE w.at))
            /\ UNCHANGED stable
  /\ UNCHANGED <<tree, edits, site, quiet, inside>>

\* Mutant: an entry that is a link is not visible.
IsVisible_NoLinks(name) ==
  name \notin Dotted /\ LStat(tree, Append(call.path, name)).kind \in {"dir", "file"}

\* Mutant: hidden files are visible.
IsVisible_Hidden(name) == LStat(tree, Append(call.path, name)) # Absent

\* Directory::is_visible: not hidden, and its metadata can still be read.
IsVisible(name) == name \notin Dotted /\ LStat(tree, Append(call.path, name)) # Absent

\* The next entry read_dir gives, and whether it is visible.
NextEntry(name) ==
  /\ call.at = "entry" /\ name \in call.todo
  /\ call' = [call EXCEPT !.todo = @ \ {name},
                          !.name = IF IsVisible(name) THEN name ELSE "none",
                          !.at   = IF IsVisible(name) THEN "write" ELSE "entry"]
  /\ UNCHANGED <<tree, edits, site, answer, quiet, stable, inside>>

\* The metadata is read once more; an entry it fails for is left out.
WriteEntry ==
  /\ call.at = "write"
  /\ LET e == LStat(tree, Append(call.path, call.name)) IN
       call' = [call EXCEPT !.at = "entry",
                            !.listed = IF e = Absent THEN @
                                       ELSE @ \cup {Line(call.name, e = Dir)}]
  /\ UNCHANGED <<tree, edits, site, answer, quiet, stable, inside>>

\* read_dir is at its end.  Entries that came or went meanwhile it may have
\* given or not.
EndListing ==
  /\ call.at = "entry"
  /\ \A held \in stable : held[1] \notin call.todo
  /\ Finish(Listing(call.path, call.listed))
  /\ UNCHANGED <<tree, edits, site, quiet, stable, inside>>

\* The response is out.
Reply ==
  /\ answer # NoAnswer
  /\ answer' = NoAnswer /\ call' = NoCall /\ stable' = {} /\ quiet' = TRUE
  /\ UNCHANGED <<tree, edits, site, inside>>

-----------------------------------------------------------------------------
(* Other processes (external) *)

\* An entry is made, removed, or replaced by another that is no directory.
\* read_dir keeps the directory it has opened: one made anew is another, and
\* what is added to the old one it may give or not.
Edit(place, e) ==
  /\ call.at # "idle" /\ edits < MaxEdits
  /\ e # tree[place] /\ Entry(tree, Parent(place)) = Dir
  /\ tree[place] = Dir => e = Absent /\ Children(tree, place) = {}
  /\ e = Dir => tree[place] = Absent
  /\ tree' = [tree EXCEPT ![place] = e]
  /\ edits' = edits + 1
  /\ quiet' = FALSE
  /\ inside' = (inside /\ NoLinkOut(tree', site.directory))
  /\ stable' = stable \cap Held(tree', call.path, call.handle)
  /\ call' = [call EXCEPT
       !.handle = IF place = @ THEN << >> ELSE @,
       !.todo   = IF call.at \in {"entry", "write"} /\ Parent(place) = call.handle
                     /\ tree[place] = Absent
                  THEN @ \cup {Last(place)} ELSE @]
  /\ UNCHANGED <<site, answer>>

-----------------------------------------------------------------------------
Next ==
  \/ \E dir \in Roots, index \in Indexes \cup {"none"}, show \in BOOLEAN : New(dir, index, show)
  \/ \E segments \in Paths : Call(segments)
  \/ Canonicalize \/ IsDir \/ Open
  \/ ReadDir \/ (\E name \in Names : NextEntry(name)) \/ WriteEntry \/ EndListing
  \/ Reply
  \/ \E place \in Places, e \in Entries : Edit(place, e)

Spec == Init /\ [][Next]_vars

-----------------------------------------------------------------------------
(* Properties *)

\* Types.  The path that is looked up has no ".." of the request in it, the
\* canonical one none at all.
TypeOK ==
  /\ tree \in [Places -> Entries]
  /\ edits \in 0..MaxEdits
  /\ site \in [made : BOOLEAN, directory : Places \cup {<< >>},
               index : Indexes \cup {"none"}, show : BOOLEAN]
  /\ call.at \in {"idle", "canonicalize", "is_dir", "open", "read_dir", "entry", "write"}
  /\ call.segments \in Paths \cup {<< >>}
  /\ call.walk.at = "walking"
  /\ call.walk.done \in Seq(STRING) /\ call.walk.rest \in Seq(STRING)
  /\ NoDots(RealPath(call.segments))
  /\ call.path \in Seq(STRING) /\ NoDots(call.path)
  /\ call.handle \in Places \cup {<< >>}
  /\ call.todo \subseteq Names /\ call.name \in Names \cup {"none"}
  /\ call.listed \subseteq Lines
  /\ answer.kind \in {"none", "file", "listing", "BadSegment", "IsDirectory",
                      "NotFound", "Other"}
  /\ quiet \in BOOLEAN /\ inside \in BOOLEAN
  /\ stable \subseteq Names \X Entries

\* What a request stands for in a tree nobody changes.
Opened(t, path) ==
  LET w == Lookup(t, path) IN IF w.at = "found" THEN Served(w.done) ELSE Error(w.at)

Expected(t, segments) ==
  LET w    == Lookup(t, site.directory \o RealPath(segments))
      seen == {n \in NamesIn(t, w.done) : n \notin Dotted}
  IN  CASE Refused(segments) -> Error("BadSegment")
        [] ~Refused(segments) /\ (w.at # "found" \/ Entry(t, w.done) = File) ->
             Opened(t, site.directory \o RealPath(segments))
        [] OTHER ->
             IF site.index # "none" THEN Opened(t, Append(w.done, site.index))
             ELSE IF ~site.show THEN Error("IsDirectory")
             ELSE Listing(w.done, {Line(n, Entry(t, Append(w.done, n)) = Dir) : n \in seen})

\* As long as nobody changes the tree, the steps of a call give the answer
\* one look at the tree would have given.
AnswerIsExpected ==
  answer # NoAnswer /\ quiet => answer = Expected(tree, call.segments)

\* A listing made while the directory changes has every entry that was there
\* all the time, but hidden ones, and tells directories from the rest: what
\* comes and goes next to an entry does not make it be left out.
ListingIsFaithful ==
  answer.kind = "listing" =>
    \A held \in stable : held[1] \notin Dotted =>
      Line(held[1], held[2] = Dir) \in answer.entries

\* If no link leads out of the directory (nor has ".." in it), nothing outside
\* is served, however the tree changes under a call.
InsideDirectory ==
  answer.kind \in {"file", "listing"} /\ inside => IsPrefix(site.directory, answer.place)

\* Whoever follows the link of a line is given the file, or the listing of the
\* directory, the line is about; of other entries nothing is said.
LeadsBack(line) ==
  LET place == Append(answer.place, line.name)
      reply == Expected(tree, Append(call.segments, line.link)) IN
  Entry(tree, place).kind \in {"file", "dir"} =>
    reply.kind = (IF line.is_dir THEN "listing" ELSE "file") /\ reply.place = place

\* The links of a listing lead back to its entries, where the name is not one
\* that from_request refuses and comes through encode_file_url! unchanged.
ListedIsServed ==
  answer.kind = "listing" /\ quiet =>
    \A line \in answer.entries :
      line.name \notin Odd /\ line.link = line.name => LeadsBack(line)
=============================================================================
