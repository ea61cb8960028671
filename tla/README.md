# actix-web2: specification, model checking and proofs

TLA+ specifications of this repository's Rust code (`src/`), the TLC
configurations that check them on small instances, and TLAPS proofs.  Paths
below are relative to the repository root, so `src/app.rs` is the crate's file.

## 1. The system

`actix-web2` is a web framework on futures 0.1: a builder collects resources,
routes, state and middleware; a server makes *service instances* from the
result, one or more per thread; each instance dispatches requests to handlers,
which produce responses and streaming bodies.  Everything is a state machine
that is *polled*; tasks sleep until a future they registered with wakes them.

| component | state it keeps | operations | interacts with | hard behaviour | correct when |
|---|---|---|---|---|---|
| application builder (`app.rs` `App`) | services, default, defaults (shared cells), state, endpoint | `state`, `state_factory`, `resource`, `service`, `default_resource`, `middleware`, `into_new_service` | `Resource` through a shared `Rc<RefCell<Option<..>>>`; the endpoint through `factory_ref` | calls in any order; cells filled late and shared | the finished application means what the calls said |
| service instances (`AppStateFactory`, `CreateAppService`, `AppService`; `resource.rs`, `state.rs`) | state futures, the shared extensions, items under construction, router | `new_service`, `poll`, `call` | server, custom services, requests in flight (all share the extensions) | services come up in any order or fail; several instances and requests interleave; `Rc::get_mut` succeeds only sometimes | starts end; nobody polled twice; right state visible; right party answers |
| resources and routes (`resource.rs`, `route.rs`) | routes in order, filters, default, endpoint | `check`, `call` | filters, handlers | order of routes | first accepting route answers |
| filters (`filter.rs`) | trees of predicates | `check` | request head | combinators | `any`, `all`, `not` mean what they say |
| handlers (`handler.rs`) | a request that is put aside while a future runs | `call`, `poll` | extractors, responders | the request is taken once; extraction fails, body future fails | one response per request, with its request |
| extractors (`extractor.rs`) | parts of a tuple already extracted; the payload | `from_request`, `poll` | payload, state, path | parts complete in any order; payload taken once; limits | all parts or the first error |
| responders (`responder.rs`) | inner future | `respond_to`, `poll` | handlers | error in a nested future | the response of the value |
| named files (`fs.rs` `NamedFile`) | open file, metadata | `open`, `respond_to` | request headers | preconditions, ranges, their order | status and window fit the file |
| byte ranges (`fs.rs` `HttpRange`) | none | `parse` | `NamedFile` | numeric edges | ranges inside the file |
| file body reader (`fs.rs` `ChunkedReadFile`) | offset, counter, file handle, future | `poll`, drop | CPU pool, file on disk, connection | the handle moves between threads; the file changes; clients stall or leave | body is the announced window, or an error |
| static files (`fs.rs` `StaticFiles`, `Directory`) | directory, index, default, renderer | `call` | file system | path resolution and listing while the tree changes | the file the path names, nothing outside; complete listings |
| compression (`middleware/compress.rs`) | encoder, body | `poll_next` | response body | finishing the encoder | the whole body, flushed once |
| default headers (`middleware/defaultheaders.rs`) | header map | `header`, `content_type`, `call` | response | a name given twice; two sources of the content type | gaps are filled, present headers kept |
| middleware traits (`middleware/mod.rs`, `App::middleware`) | the endpoint, wrapped | `new_transform` | builder, request | order of wrapping | requests pass the declared middlewares, newest first |
| logger, error handlers | format; handlers by status | `call` | response | - | - |
| connection info, framed services, test helpers (`info.rs`, `framed_*.rs`, `test.rs`) | - | - | - | not compiled: `lib.rs` does not declare them | - |

`fs.rs` is compiled and unit-tested, but its module is private and not
re-exported.  `middleware/errhandlers.rs` is compiled but not exported; its
`call` is `unimplemented!()`.

Hazards, with the line where each bites and the property that covers it, are in
`PROJECT.json`, each with the properties that would catch it going wrong.

## 2. Modules

| module | role |
|---|---|
| `AppDecl` | the declarations of an application (a sequence of builder calls) and their meaning: who answers a request (`Answerer`), which middlewares it passes (`Layers`), which state is visible (`Visible`); no builder data structure appears |
| `AppSpec` | abstract: instances start, settle as ready or failed, are dropped; a ready instance has each request answered by `Answerer`, through `Layers` |
| `Filter` | the predicates of routes as trees, and `check` |
| `Resource` | the builders of a resource and of its routes: folds over builder calls |
| `App` | the builder with its real data: `services`, `cells`, `defaults`, `default`, `state`, `endpoint` |
| `AppService` | extends `App` with service instances, their construction futures, the shared extensions, the router and dispatch; implements `AppSpec` |
| `FileBody` | abstract: what a file response promises its client |
| `ChunkedReadFile` | the reader, the thread pool, the file on disk; implements `FileBody` |
| `ChunkedReadFileProofs` | theorems about `ChunkedReadFile` |
| `Extractor` | what each kind of argument asks of a request: its head, its body, its state |
| `Responder` | what a returned value becomes, layer by layer |
| `RouteCall` | extends both: a route answers a request: extractor futures, the handler's future, the payload and the request that is put aside |
| `HttpRange` | `HttpRange::parse` as operators |
| `DefaultHeaders` | the `DefaultHeaders` builder and middleware as operators |
| `HeaderCalls` | calls of both, compared with the sets of bytes a header names and with what the builder calls said |
| `NamedFile` | extends `HttpRange` with the file on disk, `respond_to`, and a client that keeps a copy and its validators |
| `FileTree` | a Unix file system: places, links, path resolution a name at a time (external) |
| `StaticFiles` | extends it with the service for directories, one system call per step, and other processes |
| `Compress` | the compression middleware: negotiation, the head, and `Encoder::poll_next` over an inner body |
| `CompressProofs` | theorems about `Compress` |
| `RouteCallProofs` | theorems about `RouteCall`, with `Extractor` and `Responder` |
| `AppServiceProofs` | theorems about `AppDecl`, `Filter` and `Resource` (what the builders build is what is declared), then about `App` and `AppService`, the refinement of `AppSpec` among them |
| `NamedFileProofs` | theorems about `HttpRange` and `NamedFile` |
| `HeaderCallsProofs` | theorems about `HttpRange`, `DefaultHeaders` and `HeaderCalls` |
| `StaticFilesProofs` | theorems about `FileTree` and `StaticFiles` |
| `Induction` | induction over the numbers, functions defined by recursion over them, selections from sequences: for the proofs |
| `MC*` | the constants of the small instances |

`RouteCall`, `StaticFiles`, `NamedFile` and `Compress` stand next to each other:
`AppService` says which route gets a request, `RouteCall` what the route does
with it, and the response it gives may be a `NamedFile`'s (found, perhaps, by
`StaticFiles`), its body a `ChunkedReadFile`, with an `Encoder` around it.  They share no state that changes, so each is checked on
its own.

### App and AppService

* `log` is a history variable: the builder calls made so far.  A call's number
  in the log stands for the value passed in it, so "the last `state` call of
  type t" is a number that can be compared with what the extensions hold.
* `cells` is the heap of the `Rc<RefCell<Option<default>>>`; an index is a clone
  of the `Rc`.  `App::resource` allocates one and keeps the index both in the
  service entry (`ResourceFactory.default`) and in `defaults`
  (`resource.get_default()`).  `App::middleware` starts a new, empty
  `defaults`.  `into_new_service` is `IntoNewService`: it fills the empty cells
  that `defaults` still knows.
* `App::state` and `state_factory` are inherent methods of the un-wrapped
  builder, hence `endpoint = << >>` in `AddState`.  A state factory's closure is stored
  as state of the closure's own type; all closures' types are one `Closure`.
* Construction of an instance is the future of `AndThenNewService`: it polls
  `AppStateFactoryResult`, then `CreateAppService`; one `Poll` is one call, with
  the loop over all items inside (`PollFails`, `PollNotReady`, `PollReady`).
  `inits` is the state of the items' own futures: those of custom services and
  of defaults complete when they like (`Complete`), or fail; routes and
  resources without a default are ready at once.  Polling a future that has
  given its result is the status `panicked`.
* `Rc::get_mut` on the extensions succeeds while there are no `Holders`: an
  instance past its state future, or a request in flight.  Otherwise the code
  logs a warning and goes on; so does `PollState`.
* `Call` picks the answering party as `AppService::call` and
  `ResourceService::call` do; the handler itself is abstract.  `endpoint` is the
  nesting of `ApplyNewService`s, outermost first, of the application and of each
  resource, and `Through` the services a request passes.
* A filter is the sequence of the nodes of its tree, children first, so that
  `check` is a function by recursion on the nodes.  `AppDecl!Accepted` gives the
  same tree its meaning as a set of requests; `KeepsAppSpec` compares the two.
  Methods, headers (with none, one or several values) and the combinators are as
  in the code; a `HostFilter` accepts nothing, because its comparison is
  commented out (`src/filter.rs:223`).
* `AppDecl` gives a declaration two readings where documentation and code
  disagree: `Stands` (the host; which values of a header), `Fallback` (resources
  that a middleware cuts off from the default) and `Answerer` (a path nothing
  matches) take a `reading`, "code" or "docs".  `Answerers` has what both give, and
  `AppSpec` admits any of them, so `KeepsAppSpec` demands the answer wherever the
  two agree and says nothing of who is right where they do not (section 5).

Assumed: a middleware's transform is ready at once (`MiddlewareFactory`'s
`new_transform` is `ok(..)`), and passes requests on.  Patterns match sets of
paths (the pattern matcher is `actix-router`).

### ChunkedReadFile

The byte at position p of the file is p, so a body is a sequence of positions
and a lost, repeated or foreign byte is visible.  One action per branch of
`poll`: `PollReady`, `PollError`, `PollPending` (the future is there),
`PollEnd`, `PollSpawn` (it is not); `PollSpawn` leaves the task in "polling",
because `poll` calls itself and nothing of the same task happens in between,
while workers and other tasks may act.  `Close` is the drop of the reader.  The
pool (external, futures-cpupool) takes jobs in FIFO order; a job whose
`CpuFuture` was dropped is discarded without running; an answer wakes the task
that registered.  `EditFile` is another process.  A job's `seek` and `read` are
one instant: an edit between them has the effect of an edit before or after,
as `seek` from the start does not look at the length.

### RouteCall

One slot is one request, from `RouteService::call` to its response.  `Call` is
the construction of the whole chain of futures: `Extract::call` runs
`from_request` of every element, and the first body extractor that does not
refuse the request by its `head` takes the payload (`Holder`); the ones after it
read an empty body.  A poll is one of `PollRejected`, `PollIncomplete`,
`PollExtracted` (`TupleFromRequest::poll` with its loop over all parts, inside
`ExtractResponse::poll`) and `PollAwaited`, `PollAnswered`, `PollHandling` (the
responder's future).  `PollExtracted` and `PollAwaited` leave the task in
"polling": what they made is polled in the same poll.  A future polled after its
result, an `unwrap` of a missing item or of a request given away is the phase
`panicked`; nothing in the guards keeps the model from it but the code's own
tests.

`Extractor` has each kind of argument: `Path`, `Query`, `State` and `HttpRequest`
decide at once, the body extractors read, custom ones take their time.  Whether
a value can be made of what was read is one choice made at the call (`fits`),
kept between polls.  A value a handler returns (`Responder`) is a sequence of
layers, such as `some`, `ok`, `future`, around an inner value: `respond_to` strips
the layers up to a future, which has to complete before the rest is looked at.
A handler given to `to_async` is one that returns a future of a response.
A `Content-Length` above the limit, which is refused before the body is read, is
not modelled apart from the body itself being too long.

### StaticFiles

A place is a sequence of names; links have targets from the root.  One step of a
call is one system call of the code: `Canonicalize` looks at the next name of the
path (`realpath` reads links one by one), `IsDir`, `Open`, `ReadDir`, then for each
entry `NextEntry` (with `is_visible`'s metadata) and `WriteEntry` (metadata once
more).  `Edit` is another process and may come between any two of them.  `stat`
and `open` are one instant each; `DirEntry::metadata` does not follow links.
`read_dir` gives every entry that is in the directory all the time, and may or
may not give others (POSIX).  `quiet`, `stable` and `inside` are history
variables: no edit since the call began, the entries that were there all the time
since `ReadDir`, and no link leading out of the directory at any time (a link
whose target has a ".." in it counts as leading out).  A lookup in one go
(`Lookup`) makes the steps of a walk, each passing a name or following a link.
Links are followed `MaxLinks` times (`MAXSYMLINKS`) and a target has at most
`MaxTarget` names, so a walk takes at most `StepsLeft` of them and `Arrival` is
where it ends.  The kernel's bound on the length of a whole path is not modelled.

A line of a listing is the entry's name, whether it is a directory, and its link
(`Line`, `Link`): the segment a client asks for that follows the `href`
`encode_file_url!` writes.  That conversion replaces what is not UTF-8 and leaves
a '%' as it is, which the router decodes; `Renamed` has the names it changes, with
what becomes of them.  `ListedIsServed` is about the names it keeps; the
links of the others lead elsewhere or nowhere (section 5).

What the file contains and `NamedFile::respond_to` are `NamedFile`'s; here the
answer is the place that was opened.  A directory can be opened as a file (Unix)
if it takes the place of one after `is_dir`.

### HttpRange, DefaultHeaders, HeaderCalls, NamedFile

`HttpRange` keeps what the parser makes of the text: a header has no text, the
prefix or another one, and elements of two numbers, each of which may be missing
or no number.  `Element` is the closure mapped over the elements, `Ranges` the
`filter_map` after it, `Parse` the function.  Numbers of 2^63 and more are no numbers to the code (`i64`), and no
file is that long, so no sum in it overflows.

A `HeaderMap` gives each name its sequence of values.  `Applied` follows
`DefaultHeaders::call`: the map is iterated value by value, each inserted only if
the response has no header of that name yet, and the default content type last;
`WithHeaders` goes through the names in some order and `WithValues` through the
values of one.
`DefaultsFillGaps` says the outcome in terms of the builder calls.

`NamedFile` gives the file on disk a history of versions and the client a copy
whose bytes are the numbers of the versions they were read from.  `Request` is
`respond_to` as a whole, in its order: status code, method, validators, range,
then the preconditions; so a response to `HEAD` with a range has status 200 and a
`Content-Range`, as in the code.  `Edit` replaces the file or writes it in place,
in which case a body under way gets the new bytes.  `known` are the validators
the client kept; `Requests` are the requests it can make with them.  An
application may set the status 304 or 206 itself; what it then says of the file
is its own, so the properties about these two leave it out.  Times count from the
epoch and may lie before it (`MinTime`): a file from then has no ETag
(`HasEtag`), and `respond_to` panics where one is asked for.

Taken from outside `src/`: `HttpDate` (actix-http) exists for any time, keeps the
fraction of a second in memory and loses it on the wire, so the date alone never confirms a
file whose modification time has a fraction; modification times grow strictly
from one change to the next (a file system whose clock stands still between two
changes defeats the validators); the inode in the tag is not relied on.

### Compress

`Respond` is the middleware's response future and `Encoder::body`, for a body in
memory (`RespondInMemory`, which encodes it at once) or a stream
(`RespondStream`, which sets up an encoder); the rest are the branches of one
turn of `Encoder::poll_next`'s loop.  A compressor may fail at any call: for a
stream the error ends the response (`WriteFails`); for a body in memory an error
of `write` is dropped and one of `finish` panics.  `Release` is the end of a
response: its encoder is dropped.

The head has a `Content-Encoding` (`announced`), `no_chunking`, and perhaps a
`Content-Length` the application put there for the body it gave
(`ownLength`, as `NamedFile` does at `src/fs.rs:529`), which `Encoder::body` leaves
in it beside an encoded stream.  `Delimiter` says where a client of HTTP/1.1
then looks for the end of the body.  It is external, taken from what
`tests/test_server.rs:141-252` and `src/fs.rs:1524-1561` expect of actix-http and
from RFC 7230 (3.3.3: chunked transfer coding overrides a `Content-Length`).  As
`Encoder::body` switches chunks on again for a stream it encodes, a stale
`Content-Length` does not count; `HeadFitsBody` fails without that.  A recipient
that does heed it, such as one of HTTP/1.0, is not modelled.

`task` is "polling"
where the loop goes on without returning.  Content is counted in chunks, which
go through in order; the compressor (flate2, brotli: external) may hold back any
of them until it is finished, and may put out bytes of its own.  Explicit
qualities all count as 0, because `AcceptEncoding::new` parses "q=0.5" and not
"0.5".  A body is `fused` if polling it after its end is harmless: the encoder
does so once, after the chunk that `finish` gave.

## 3. Runs

| run | question | instance |
|---|---|---|
| `file_streams` | is each body a prefix of its window, the handle unique, no wakeup lost; does the reader implement `FileBody`; does a prompt client's response end although another stalls? | 2 streams (one prompt), 1 worker, chunks of 2 bytes, files up to 3 bytes, 1 edit |
| `app_routing` | for all builder programs, does the declared party answer (the one of either reading), through the declared middlewares? | 4 calls over 3 resources with up to 6 calls of their own, 1 custom service, defaults, middleware, 1 key; 2 paths, 2 methods, 3 header maps; 1 instance |
| `app_startup` | do instances side by side see the right state, poll correctly, and does every start end? | 3 calls, 1 key, 1 path and method, 2 instances, 1 request slot |
| `default_middleware` | (violated) default resource behind a middleware | 3 calls |
| `state_factory` | (violated) state factories construct state | 3 calls |
| `route` | is a request answered by the right party, with the body in one argument, and always? | 1 slot, handler signatures of up to 3 arguments, nested return values, bodies of up to 2 bytes, limit 1 |
| `header_functions` | are the ranges the bytes the header names; are only missing headers added? | all `Range` headers of up to 2 elements with numbers 0..4, missing or garbage, files of 0..3 bytes; all `DefaultHeaders` of up to 3 calls with 2 names and 2 values, all responses |
| `range_rfc2616` | (violated) unsatisfiable headers are refused | the same |
| `static_files` | is the answer that of one look at the tree; is anything outside served, or a steady entry not listed, when the tree changes? | 3 trees of up to 8 places with links, one name that a link does not keep, 11 paths, with and without index and listing, 2 edits |
| `named_file` | is a client's copy ever confirmed or continued wrongly; when does `respond_to` panic? | files of up to 2 bytes, 3 versions at 4 moments (2 to a second, one before the epoch), 4 headers, 7 sets of conditions, 4 configurations |
| `compress` | does the client get the whole body in the encoding announced, and its end, and find it? | all `Accept-Encoding` headers of up to 2 elements, all responses, with and without a `Content-Length` and chunks of their own, 3 chunks, encoding `auto`, all features |
| `compress_rust_backend` | (violated) what is negotiated has an encoder | the same, built without brotli |

Why the bounds are enough.  Files of up to 3 bytes with chunks of 2 give windows
of no bytes, part of a chunk, exactly one chunk, and a chunk and a part; one edit
can truncate the file before, between and after the jobs; one worker shared by a
prompt and a stalled stream is the case in which one could hold up the other.
The proofs drop these bounds.

Four builder calls allow a resource, a default, a middleware and another
resource in any order, which is the longest dependency between calls.  The three
resources are one with a single route; one configured by everything the builders
offer, two middlewares and two own defaults included; and one whose routes
shadow or exclude each other, with nested `any`, `all` and `not` and a host.
Three header maps (no value, one value, two values of which the second matches;
with the host and without) tell apart what a header or host filter looks at.  Two instances and one request are
all the different holders of the extensions there are.

Requests share nothing in `RouteCall`, so one slot is enough, and three arguments
allow an extractor before, between and after two others: two body extractors with
something between them, one that waits before and after a body, and an error
before or after a part that is still pending.  A limit of 1 and bodies of 0, 1
and 2 bytes are the three sides of the limit.  Ranges compare numbers with each
other and with the length only: numbers up to one more than the longest file, on
files of up to 3 bytes, give every order of first, last and length, and two
elements give every pair of verdicts.  Three calls of the `DefaultHeaders` builder
are a name given twice, with another value or the same, and a content type from
both sources.  The values a handler returns have up to two futures, each inside
and outside of other wrappers, because `respond_to` is called once for each.

The trees of `StaticFiles` are one without links, one with links within and out
of the directory, one with links to a directory; the first has two files of which one's link leads to
the other; two edits let an entry be
removed and come back as something else, such as a directory in the place of a
file after `is_dir`.  Links are followed at most twice, which is enough for a link
to a link; the code sets no bound of its own (the kernel does).

Three moments after the epoch, two of them in one second,
and three versions allow a file to change within a second and over its end, one
moment before the epoch is all an ETag tells apart, and two bytes are a part and
a rest.  The sets of conditions are each condition on its own, all of a client's
own at once, none and `If-Match: *`.  Three chunks let a compressor hold back, release in
part and be finished with something left.

Deadlock is checked in all runs: a slot can always be reused, an instance
always started again.

## 4. Fairness and liveness

`ChunkedReadFile.Fairness`: weak fairness of polling for streams in `Prompt`
(the executor runs a woken task, the connection asks for the next chunk while
its client reads) and of each worker.  Nothing is assumed of other clients, who
may neither read nor close.  Under it `PromptStreamsEnd` (a stalled client costs
others nothing: a stream holds a worker only while a read is in progress) and
`HandlesAreReleased`.

`AppService.Fairness`: weak fairness of polling a woken instance and of the
completion of custom init futures, with either result.  Under it
`EveryStartEnds`.  The server is never obliged to start, use or drop anything.

`RouteCall.Fairness`: weak fairness of polling a woken request, and of the
completion of each extractor and handler the application wrote, with either
result.  The client owes nothing: `RequestsAreAnswered` starts where it has sent
its body or gone, or where nobody reads the body.

`Compress`: weak fairness of `Poll` (the connection pulls while its client reads)
and of `Produce` (the inner body comes to its next chunk, end or error).

## 5. Divergences from the documentation

* `state_factory`: `App::state_factory` (`src/app.rs:94`) stores the closure as
  a value; it is never run, so the documented state is never constructed.
* `default_middleware`: `App::middleware` (`src/app.rs:262`) forgets the
  `defaults` of the resources registered before it, so the application's default
  resource does not reach them, although its doc (`src/app.rs:191`) says it is to
  be used if no matching route could be found.
* `range_rfc2616`: `HttpRange::parse` (`src/fs.rs:1074`) accepts a suffix of no
  bytes, "bytes=-0", which RFC 2616 (the doc's own reference) calls
  unsatisfiable; the response is a 206 of no bytes whose `Content-Range` ends
  before it starts.  The same arithmetic on an empty file is one of the three
  edges of `PanicsOnlyAtEdges`.
* `compress_rust_backend`: the encoding is negotiated without asking whether the
  build has its encoder; `Encoder::body` (`src/middleware/compress.rs:199`)
  unwraps `None` for a body in memory, and announces an encoding it does not
  apply for a streamed one.

Further differences have no run of their own.  The models follow the code, and
no property claims what the code does not do:

* `AppService::call` (`src/app.rs:547`) answers a request that its router does not
  recognise with a bare 404 itself, whatever default resource there is; the doc of
  `default_resource` (`src/app.rs:191`) says "to be used if no matching route could
  be found".  `AppDecl!Answerer` has both readings.
* `HostFilter::check` is always false, as the comparison is commented out
  (`src/filter.rs:223`), so a route guarded by a host is never taken and one guarded
  by its `Not` always; the doc (`src/filter.rs:194`) and `test_host`
  (`src/filter.rs:259-273`) have it match.  `AppDecl!Stands` has both readings.
* `HeaderFilter::check` looks at the first value of a header only
  (`src/filter.rs:187`); the doc (`src/filter.rs:173`) says "contains".
  `AppDecl!Stands` has both readings.
* `etag()` (`src/fs.rs:346`) expects the modification time to be after the epoch
  and panics for a file that says otherwise, at every GET or HEAD, before the range
  and the preconditions are looked at: one of the edges of `PanicsOnlyAtEdges`.
* The link of a listed entry goes through `encode_file_url!` (`src/fs.rs:651`), which
  leaves '%' as it is and replaces what is not UTF-8: the link of "a%20b" leads to
  "a b", that of "%61" to "a".  `ListedIsServed` leaves these names out.
* For a body in memory the error of `write` is dropped
  (`src/middleware/compress.rs:202`, under "TODO return error!"), what `finish` gives
  then is sent as a complete body, and an error of `finish` panics: the exception
  of `DoneIsWhole`.
* `DefaultHeaders` keeps all the values given for a name and uses the first
  (`src/middleware/defaultheaders.rs:120`); its builder says "Set a header".
* A directory listing has entries that `from_request` refuses when they are
  asked for (names that begin with `*` or end with `:`, `>` or `<`), and symbolic links that lead
  nowhere; `ListedIsServed` states which entries a listing makes promises about.

## 6. Proofs

`ChunkedReadFileProofs` holds for every set of streams and workers, every chunk
size, file length and number of edits (assumptions `ChunkAssumption`,
`MaxLenAssumption`, `EditsAssumption`, `PromptAssumption`).

| theorem | states |
|---|---|
| `TypeCorrect` | `Spec => []TypeOK` |
| `PrefixCorrect` | `Spec => []BodyIsWindowPrefix` |
| `NoUseAfterCompletion` | `Spec => []NeverUsedAfterCompletion` |
| `NoLostWakeup` | `Spec => []SleepersAreWoken` |
| `HandleHasOneOwner` | `Spec => []OneOwner` |
| `ImplementsFileBody` | `Spec => KeepsFileBody` (refinement, identity mapping) |

None of the properties is inductive alone.  The invariant `IInv` ties the reader
to the pool: where the handle is (`Handle`: with the reader exactly when no job
is out), that a stream has at most one job, queued, running or answered
(`JobsAlone`, `JobsGone`), that the job of a live future reads at the reader's
current offset and at most the rest of the window (`JobsMatch`), that offset,
counter, start and size fit (`Reader`, `Bodies`), and who is registered and who
will wake them (`Wakeups`, `Sleepers`).  A lemma per action shows that `IInv`
is kept; `JobsMatch` is what makes an answer arriving later still fit the
counter, and a job orphaned by a dropped response is excluded from it because
its slot cannot be reused before the handle is gone.

`CompressProofs` holds for every configured encoding, set of Cargo features, set
of `Accept-Encoding` headers and number of chunks (`CompressAssumption`).

| theorem | states |
|---|---|
| `WholeBodies` | `Spec => []DoneIsWhole` |
| `ExtraPollHarmless` | `Spec => []ExtraPollIsLast` |
| `NoLostWakeup` | `Spec => []SleeperIsWoken` |
| `HeadsFit` | `Spec => []HeadFitsBody`, if all encoders are built |
| `UnwrapIsSome` | `Spec => []EncoderExists`, if all encoders are built |
| `TypeCorrect` | `Spec => []TypeOK` |

The invariant says where the content is: what the inner body gave is sent, in
the compressor, or offered and not taken (`Conserved`), and the encoder is the
one the response began with until it is finished, which happens when the inner
body ends and only then (`EncoderFits`); a compressor that fails on a stream fails
the response (`FailureEnds`).  `DoneIsWhole` has one exception, a body in memory
that a compressor failed on (section 5).  `HeadsFit` and `UnwrapIsSome` need that
`Compiled` is everything; `compress_rust_backend` shows a build in which
`EncoderExists` fails.  For `TypeCorrect`, `BestIsFirst` shows that a header with
elements has a best one: the qualities have a greatest, and the elements of that
quality a first.

`RouteCallProofs` holds for every set of requests, handlers of any number of
arguments, values nested to any depth, every limit and body (`LimitAssumption`,
`BodyAssumption`, `SignaturesAssumption`, `ValuesAssumption`: a value is wrappers
and futures around an inner value).

| theorem | states |
|---|---|
| `TypeCorrect` | `Spec => []TypeOK` |
| `BodyGoesToOneArgument` | `Spec => []BodyGoesToOne` |
| `RightOneAnswers` | `Spec => []AnsweredByRightOne` |
| `NothingUnwrapsNone` | `Spec => []NoUnwrapOfNone` |
| `SleepersAwaitSomething` | `Spec => []SleepersAreWoken` |

The invariant says of each phase what its steps need from the ones before:
while parts are extracted, that a part's future is spent exactly when its item is
there, that items of plain extractors are good, and that only the holder's item
has the body, whole (`Extracting`, `ItemFits`, `BodyFits`); in the handler's
phase, that the value the responder is at has the inner value of the one the
handler returned, or is an error and there was a future for it (`Handling`,
`Leads`); that arguments keep what the items said (`ArgsFit`); and what a
sleeping request waits for (`Sleeping`).  The loop over the parts and the layers
of a value are recursive functions; what they compute is shown by induction on
their length.

The first part of `AppServiceProofs` holds for every set of resources and what
configures them (`ResourcesAssumption`, `ServicesAssumption`).

| theorem | states |
|---|---|
| `FilterChecksAccepted` | `check` over the tree of a filter, of any size, accepts a request exactly if it is in the set of requests the tree stands for in the code's reading |
| `ResourceHolds` | any sequence of builder calls makes a resource with the routes, filters, layers and default the calls declare |

The rest holds for every number of builder calls, keys, instances and requests
besides (`ClosureAssumption`, `MaxCallsAssumption`).

| theorem | states |
|---|---|
| `TypeCorrect` | `Spec => []TypeOK` |
| `StateOfEveryTypeIsVisible` | `Spec => []StateIsVisible` |
| `NoFutureIsPolledTwice` | `Spec => []NeverPolledAgain` |
| `SleepingStartsWillWake` | `Spec => []SleepingStartsAreWoken` |
| `ImplementsAppSpec` | `Spec => KeepsAppSpec` (refinement; `log`, `built`, `status` and `reqs` are the same) |

The invariant relates the builder's data to the log: services are the calls that
registered one, in their order; a resource's cell is among `defaults` exactly if
no middleware was added after it, and holds its own default, the application's
once that is built, or none; the state vector holds the values of the log, latest
last (`Built`).  Each instance has items and a router that correspond to the
services one by one, and starts with the state the builder had (`Instance`).
The extensions hold for each key what the log declares or, before any instance
is past its state future, nothing (`Shared`); this is what makes an instance that
cannot insert find the state there.  For the refinement each action is mapped
to an action of `AppSpec` or a stutter; for `Call` it is shown that the first
entry of the router that matches is the first declaration that does, that its
first accepting route is the declared one (by the two theorems
above), and that the layers passed are the declared ones.  The answer is that of
the code's reading, which is one of `Answerers`; what the docs promise beyond it
is neither proved nor claimed.

`NamedFileProofs` holds for files of any length, any number of changes, any sets
of headers and conditions, any length of a second (`BoundsAssumption`,
`HeadersAssumption`, `ConditionsAssumption`, `ConfigsAssumption`).

| theorem | states |
|---|---|
| `AcceptedRangesAreInside` | what `HttpRange::parse` accepts lies inside the file, and is empty only if the header names nothing |
| `TypeCorrect` | `Spec => []TypeOK` |
| `ConfirmedCopiesAreCurrent` | `Spec => []NotModifiedIsCurrent` |
| `PanicsAreAtEdges` | `Spec => []PanicsOnlyAtEdges` |
| `ContinuedCopiesFit` | `Spec => PartsFitTogether` (an action property) |

The invariant is that modification times grow from version to version
(`TimesGrow`, from the assumption on the file system in section 2) and that the
client's copy has no byte older than the version its validators are from
(`CopyIsNewer`).  A validator that matches is then that of the version on disk,
and no version is newer.

`StaticFilesProofs` holds for every set of places, names, links, requests and
trees in which everything lies in a directory, whatever becomes of names in links,
every bound on links and their targets, and every number of changes
(`PlacesAssumption`, `LinksAssumption`, `RenamedAssumption`, `TreesAssumption`,
`PathsAssumption`, `EditsAssumption`).

| theorem | states |
|---|---|
| `TypeCorrect` | `Spec => []TypeOK`, including that no ".." of a request survives in its path |
| `NothingOutsideIsServed` | `Spec => []InsideDirectory` |
| `ListingsAreFaithful` | `Spec => []ListingIsFaithful` |
| `AnswersAreExpected` | `Spec => []AnswerIsExpected` |
| `ListedIsAlwaysServed` | `Spec => []ListedIsServed` |

`InsideDirectory` needs that at each step of the walk the names passed, with what
is left of the path behind them, begin with the directory and no ".." is left
(`LeadsInto`): `PassResult` shows it for one name, `LookupArrives` by induction
for a lookup in one go, so it holds for the walk the tree changes under as well.
`ListingIsFaithful` needs where an entry that was there all the time is: to be
read, being written, or written with its kind (`IsAccounted`); that its metadata
can be read at each of the two looks follows because the path still leads to the
directory opened (`Held`), and a directory with entries cannot be taken away
(`EditIsTree`).

`AnswerIsExpected` compares many steps with one look at the tree.  Its invariant
(`Undisturbed`) says that while nobody changes the tree, the walk at any moment
arrives where a lookup of the whole path does (`Stands`): `ArrivalOfStep` shows
that a step does not change where a walk arrives, from `StepsLeft` being enough
steps for every walk and going down with each of them.  What the walk has found
then is found again by the lookups of `is_dir`, `open` and `read_dir` on the
resolved path (`Found`, `PlaceIsFound`: the resolved path has no links left in
it), and the listing has the names read so far (`Read`).  `ListedIsServed`
follows from the answer being the expected one: a listed name behind the path of
the request leads to the place behind that of the listing (`ExtendedWalk`), and
where the link is the name, so does the link.

`HeaderCallsProofs` holds for every set of headers, lengths, sequences of builder
calls and responses, and every finite set of names with `content-type` in it
(`HeadersAssumption`, `SizesAssumption`, `BuildersAssumption`, `NamesAssumption`).

| theorem | states |
|---|---|
| `TypeCorrect` | `Spec => []TypeOK`, including that ranges are inside the file |
| `RangesAreTheBytesAsked` | `Spec => []RangesAreAsked` |
| `SatisfiableHeadersAccepted` | `Spec => []SatisfiableIsAccepted` |
| `AcceptedHeadersGiveRanges` | `Spec => []AcceptedHasRange` |
| `GapsOnlyAreFilled` | `Spec => []DefaultsFillGaps` |

As the specification makes one call, the invariant is that the result is the
function's, and the work is in the lemmas.  `ElementIsRight` goes through the
cases of one element and compares its range with the bytes asked for.  The
`filter_map` is a selection: the n-th element that is kept stands at the place
that counts the kept ones before it (`SelectionCounts`), for lists of any length.
For `DefaultHeaders`, the builder's map has, after any calls, the first value
given for a name first (`BuiltStep`), the loop over the values of a name uses the
first only (`WithValuesFills`), and the loop over the names fills each when its
turn comes and leaves it alone if it comes again (`WithHeadersFills`).  The order
of the names does not enter.

Each invariant was checked with TLC on the run's instance before it was proved.
Recursion over data is proved by induction in the form of `Induction`: the
library's theorems take a predicate, which the provers cannot instantiate, so a
property is given as the set of numbers that have it.  Theorems state the
specification without fairness; the runs with fairness have the same steps.

Only model-checked, and why:

* The liveness properties, and with them that every start, request, stream and
  body ends: fairness and ENABLED are outside the prover.
* `UnsatisfiableIsRefused` and the other properties of runs that expect a
  violation, which the code does not have.

Every invariant and action property that a passing run checks, and both
refinements, are theorems.

## 7. Plan

Done: all the modules above; the theorems of section 6.  What is left to prove,
that what has begun ends, is left to TLC.

Not modelled, and why:

* `framed_app.rs`, `framed_handler.rs`, `framed_route.rs`, `info.rs`, `test.rs`:
  `lib.rs` does not declare them, so they are no part of the program.
* `middleware/logger.rs` is not exported and changes nothing but a log line;
  `middleware/errhandlers.rs` is not exported and its `call` is
  `unimplemented!()`.
* `StateFactoryFut` (`src/state.rs:81`) is reached by nothing: `state_factory` does not
  construct it.  `helpers.rs` boxes services without changing what they do.
* The `Multiple copies exist` panic of a `DefaultHeaders` builder: it needs a clone
  of a builder that is consumed by each of its calls.
* Custom renderers of listings and the HTML of the built-in one, the setters of
  the configuration objects, `Content-Length` parsing, the text of headers.
* The pattern matcher, the HTTP protocol, the compressors and the file system's
  own implementation are other programs; what the code relies on is modelled and
  marked external.
