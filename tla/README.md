# A formal model of fastgql

fastgql is a GraphQL server for fasthttp in two halves: a code generator
(`api/`, `codegen/`, `plugin/`, `internal/`, `cmd/`) that turns a schema into Go
code, and a runtime (`graphql/`, `complexity/`) that the generated code is
linked with. This directory models the parts of the program whose correctness
depends on the order of events, in TLA+, checks them with TLC and proves what
matters most with TLAPS.

## Inventory

| component | state it keeps | operations | hard behaviour | what makes it correct |
|---|---|---|---|---|
| websocket transport, `graphql/handler/transport/websocket.go` | mutex `mu`, map `active` from id to cancel function, ticker, contexts, the socket | init, read loop, start/stop/terminate, keepAlive, one goroutine per operation, close | three kinds of goroutine on one socket; blocked writes under a mutex; peer death; id reuse; panics | one session per connection, one well-formed stream per operation, stop works, everything ends with the connection |
| http transports, `http_get.go`, `http_post.go`, `http_form.go`, `options.go` | nothing between requests; temporary files within one | decode, create the operation, dispatch, answer | many early returns; files and deferred clean-up | one answer per request with the right status, no file left |
| server, `handler/server.go` | list of transports | choose a transport, recover | panic while recovering | every request is answered |
| executor, `graphql/executor` | query cache, extensions | create an operation, dispatch, present errors | a cache shared by concurrent requests; order of middleware | only validated documents run; cached means validated |
| extensions, `handler/extension`, `handler/lru` | persisted queries, statistics | mutate parameters, limit complexity | shared bounded cache, eviction between two requests | a hash stands for its own query only |
| response context, field sets, `graphql/context_response.go`, `fieldset.go` | errors, extensions, results | add an error, dispatch concurrent fields | concurrent resolvers | no error lost, no result read before it is written |
| generated execution, `codegen/*.gotpl` | field and list results, `invalids` counters | resolve, marshal, propagate nulls, stream | null propagation through concurrent fields and lists | a non-null position is never null, one error per cause |
| field collection, `graphql/executable_schema.go` | visited fragments | collect | duplicated and nested selections | the grouping the GraphQL specification asks for |
| complexity, `complexity/complexity.go` | none | compute | saturation at the width of int | monotone, never negative |
| generator: imports, packages, rewriter, resolvergen | alias table, package cache, copied declarations | reserve/look up, load/evict, copy, generate | long sequences of calls; files of a user | aliases are unique, no user code is lost |
| chat server, `example/chat` | rooms, their messages and observers under one mutex | post, subscribe, clean up | sends under the mutex, a slice outside it, contexts | observers get what their room was told, posts return |
| generated loader, `example/dataloader` | cache and current batch under a mutex | load, prime, clear, timer | batches filled while a timer runs, results by position | one fetch per batch, each caller its own result |

Calls go transport -> executor -> extensions -> generated execution -> resolvers;
responses come back through the response middleware. Shared between requests
are only the query cache and the cache of persisted queries; shared between the
goroutines of one connection are the socket, `mu` and `active`; shared between
the goroutines of one response are its errors and its extensions.

## Plan

Done are 1 to 9.

1. `WsConnection`, its abstract specification `WsSession`, and
   `WsConnection_proofs`: the websocket transport.
2. `HttpService`, `HttpService_proofs`: server, http transports, executor, caches
   and extensions composed, with concurrent requests.
3. `FieldExec`, its abstract specification `Selection` over `SelectionTree`, and
   `FieldExec_proofs`: generated execution, response context and field sets.
4. `Responses`, `Responses_proofs`: the dispatch of an operation, the middleware of
   extensions around it and the streams of subscriptions, with the two response
   contexts an operation has.
5. `Collection` and `Complexity`: algorithms over selections, against a reference
   definition and a law; their proofs are in `Operation_proofs`.
6. `Uploads`, `Uploads_proofs`: the files of multipart requests and the deferred
   clean-up.
7. `Imports`, `PackageCache`, `Resolvers`, `Generate`, all four in
   `Generator_proofs`: the parts of the generator that keep state, within a run or
   in files between runs.
8. `Chat`: the example with state that requests share.
9. `DataLoader`: the generated loader of the other; both in `Examples_proofs`.

`Sublists` has what several of them say with: that a sequence is made of some
elements of another in their order, by counting (`Rank`) instead of recursion.

`Operation` puts 4 to 6 side by side, `Generation` 7, `Examples` 8 and 9: in a
behaviour one part moves (`moving`) and the others stand still, as they share
nothing. The runs check, and `Operation_proofs`, `Generator_proofs` and
`Examples_proofs` prove, the properties of all of them of that composition. The MC
modules give the constants; `MCOperation` and `MCGeneration` also fix what a part
that stands still starts from, which makes no difference.

## What is proved

Every safety invariant and both refinements that the passing runs check are also
theorems, for every value of the constants that the modules' assumptions allow.
The sections below say along which argument. For the modules that a run composes
there are two theorems: that of the part by itself, and `OperationIsSafe`,
`ExamplesAreSafe` and `GenerationIsSafe`, that all invariants of the run hold of the
composition, as each part behaves in it as it does alone (`OperationIsAll`,
`ExamplesAreBoth`, `GenerationIsAll`).

These stay with TLC:

- `StopIsServed`, `KeepAliveStops`, `ReaderLeaves`, `Answered`, `Ends`,
  `PostsReturn`, `ObserversLeave` and `LoadsReturn`: liveness under fairness.
- the three properties that the code violates, which have counterexamples.

Two kinds of argument recur. Most invariants are not inductive alone: the proof
names a strengthening that ties the place of each process to the history of what it did, and
has one step per action and part. And where the code loops or recurses over
data, as in `Middleware`, `CollectFields`, `Complexity` and `Null`, the definition
is a recursive function; that it has a value, and what holds of the value, is shown
of the least input for which it would not (`Least`, from the well-foundedness
of the naturals). For recursion over selections that is said once, in
`RecursionExists`: an operator that looks only at what is less deep has a fixed
point; and for loops in `LoopExists`.

## WsConnection

Processes are the reader goroutine (`init()`, then `run()` with `subscribe()`),
the `keepAlive` goroutine and one goroutine per operation. `rpc`, `kpc` and
`opc` say where each one is; the other variables are the fields of
`wsConnection` (`mu`, `active`), the contexts (`cancelled`, `down`), the socket
(`conn`, `inbox`, `out`) and history: `sent` is the frames put on the wire per
operation, `sess` those of the connection itself.

`Lock(p)` is `c.mu.Lock()` in `write` and `close`; the write that follows is
enabled only when there is room in the client's buffer or the connection is
dead, so a goroutine can be stuck with the mutex, as in the code. The sections
that only look at `active` are one step. `Reaction` is the switch statements of
`init()` and `run()`; `AfterWrite` is what follows each write of the reader.
An operation may produce any number of responses (`MaxData` bounds those that
reach the wire), end, or panic at any time; that panic is recovered.

A panic of the reader is not. `subscribe()` runs in it, and panics when the payload of
a start is `null` (`websocket.go:201`) or the operation is a persisted query
(`apq.go:91`), so every `start` may panic in `RunReaction`. The deferred function
of `run()` then closes with 1006, as after an unreadable message, and when it has
returned the process ends: the reader is "crashed" and nothing makes a step any more
(`Up`). A panic of the user's `InitFunc` ends the process before `run()`, without
a close frame. `CloseCodeFaithful` counts both among the reasons there may be.

External: the websocket library drops every write after a close frame, answers a
close frame itself, and closes the socket when the handler returns; a
`RequestCtx` is done only when the server shuts down. The client sends each
message at most once, reuses an id only after it has read `complete` for it, and
stops what it has started.

| run | question | answer |
|---|---|---|
| `ws_two_ops` | contention for `mu` and `active`, ids never reused, a shutdown at any time | `active` is exactly what runs, plus what panicked |
| `ws_session` | every kind of message, a vanishing peer, a polite client that reuses an id | the wire implements `WsSession`: well-formed streams; the close code gives the real reason, which may be a panic of the reader; an operation that goes on is cancelled only by a stop of its own, not by one for an earlier operation of its id |
| `ws_liveness` | fair goroutines, reading client | stop is answered, the reader leaves an ended connection, `keepAlive` goes with it |
| `ws_leak` (violation) | do operations end with the connection | no: their context is that of the request, not of the connection |

Stop is checked for ids that are not reused. For one that is reused at once it
does not always work: `complete` is sent before the entry of the id is deleted,
and the deletion may take the entry of the next operation. `CancelledOnlyIfStopped` says
that this is the worst of it: the context of the next operation is left alone.

Bounds: two operations are enough for every pair of conflicting accesses
(reader/operation, operation/operation, keepAlive/operation); a buffer of one
frame blocks every writer in turn; one message in flight is enough as the reader
handles them one by one; one response distinguishes the first frame of a stream
from its last, and the liveness run allows two. Operations with ids of their own
are symmetric, and `ws_two_ops` uses that symmetry.

Fairness: strong fairness of goroutines that wait for the mutex is Go's
starvation mode; of `keepAlive`'s choice, the random choice of `select`; of a
resolver with a finished context, the contract of subscriptions. Nothing is
assumed about timers, about clients sending, or about resolvers whose context is
not finished. `CHECK_DEADLOCK FALSE`: a connection rightly stops once it is over,
and waits forever for a silent client.

Proved in `WsConnection_proofs` for any operations, ids and bounds:

- `TypeCorrect`, and `MutexDiscipline`, which is inductive with it. These two are not
  run again.
- `StopFindsRunning` and `EntriesBelong`, under the assumption that ids are not
  reused, as in the run. They are inductive only together: a deletion preserves
  "entries are live" because the deleted entry was the operation's own, which is
  the other half.
- `OthersAreNotCancelled`, that the context of an operation is cancelled only for it,
  whatever ids are reused.
- `CloseCodesAreFaithful`: `CloseInv` says of every place of the reader which messages
  it must have read and which frames it has written, and of every close code why it was
  chosen; that a start made the reader panic is known from `SessionInv` below, in which a start
  that was read has a goroutine or is the one that panicked.
- `WireIsSession`, the refinement of `WsSession`. `SessionInv` adds to `CloseInv` for
  each operation where its start message is (in the queue, with the reader, with the
  goroutine) and what is on the wire for it (`StreamInv`), and that a client
  that reuses an id has read `complete` for it (`ReuseInv`). With it every `Emit` is a
  step of the session, and everything else is none. Ids may be reused here.

## HttpService

The processes are the requests in flight. `pc[r]` is where request `r` is in the
pipeline: `Receive` (the choice of a transport and all that it can refuse by
itself), `Mutate` (automatic persisted queries), `Lookup` and `Parse` (the query
cache, the parser, the validator), `Check` (variables, operation name, complexity
limit, the method of the operation), `Exec`. The state that requests share is
the query cache and the cache of persisted queries; each access to one is a step
of its own, so lookups, additions and evictions of different requests
interleave. `Entry`, `Added` and `Found` are the `lru` package; which entry an
addition evicts is left open, which covers every order of use. `Panic` is the deferred
recover of `Server.Handler`. `Graceful` says whether the error presenter accepts
any error, as one a user installs does; the default one asserts
`*gqlerror.Error`.

| run | question | answer |
|---|---|---|
| `http_caches` | three requests over every transport, registering and asking by hash, with evictions | only validated operations run, a GET only queries; equal requests get equal answers, be they sent by text or by text and hash |
| `http_panic` (violation) | is a panic answered | not with the default presenter; the panic is that of every persisted query, whose mutator asks for a context that was discarded |

Bounds: three requests are enough for a hit, a miss and an eviction between
them; a query cache of one entry evicts on every second addition, and persisted
queries, of which there are two, on every third. A `null` JSON body of
a POST is not modelled, and an upgrade to a websocket is `WsConnection`'s. A
request that is answered stays so: `CHECK_DEADLOCK FALSE`.

Proved in `HttpService_proofs` for any requests, texts and cache sizes: `TypeCorrect`;
`ValidatedRuns`, from what is in the caches and from what a request that is past
validation carries; and `CachesAreInvisible`, that equal requests get equal
answers. The last is about two requests, and is proved by way of one:
`AloneAnswer(shape)` is what a request would be answered if there were no other
and no cache, `AnswerInv` that each stage has ruled out the answers of the stages
before, and an answer is either that or the 422 of a panic while the operation
runs (`PanickedRunning`). Requests by hash alone are left out of it, as in the property:
what they are answered depends on who registered the text before.

## FieldExec

`SelectionTree` declares the shape of one response: positions (fields and list
elements), which must not be null, and what may happen at each. `Selection` is
the abstract specification: one step from no answer to the set of nulls and the
errors that a sequential execution gives. `FieldExec` is the code the templates
generate. Every position is a process: `Resolve` is a field's function up to its
marshal function; `Look` and `Raise` are `HasFieldError` and `Errorf`, which are
two steps; `Close` is an object or list whose goroutines are joined; `Store` puts
a result into its slot; `Unwind` is the deferred functions of a list element
that panics; `Marshal` and `Send` are the encoder and the collection of errors.
`CanStart` says what runs concurrently: fields that have resolvers and elements of
lists, each in the window of its parent; plain fields, and the fields of a
mutation, in order. `Finished` is what a wait group sees, which for an element of a
list is not the end of its goroutine.

| run | question | answer |
|---|---|---|
| `field_query` | every combination of results over `{ a { x y } l { z } s }` | the nulls and the errors are those of a sequential execution |
| `field_mutation` | the same selection as a mutation, fair goroutines, elements that panic | when a field begins, nothing at any depth under those before it runs or can begin, but for the recovery of elements that panicked; the response is always produced |
| `field_panic` (violation) | is a panic of an element reported | not always: its list may be done before it is recovered |

A nil pointer in an interface becomes a null without an error, where there must
be none too (`interface.gotpl:9`); `Selection` says so as well, and the error is
expected of plain nil pointers only.

Bounds: the selection has two levels, a list of two elements (the shortest that
starts goroutines), required and optional fields, plain and concurrent ones; a
deeper one repeats these. Lists of scalars are leaves. A null element does not
make its list null, also in `[T!]`: the templates count nulls only in objects.
A nil slice where a list is required is an empty list. Fairness is that of the
scheduler, and that resolvers return. `CHECK_DEADLOCK FALSE`: a sent response is
the end.

Proved in `FieldExec_proofs` for every selection: `TypeCorrect`;
`MutationsAreSerial`; and, if no
element of a list panics, `GoroutinesNest` and `NullsAreCaused`. The first of
these two is its own inductive invariant, with the types: a position leaves "open" only when all
below it are finished. The second needs that an open object's counter equals
nothing but the nulls of its required fields, as a positive number exactly if one
is null; `Nested` gives that nothing counts after the object has looked. Without
the assumption both are false, which is what `field_panic` shows.

`MutationsAreSerial` needs no such assumption. What is below a position is the least set
that has it and the kids of its own (`Under`). `StoredBefore` is the guard of the loop over the
fields; `BusyBelowOpen` is what remains of `Nested` when elements panic: whatever runs, other than
a recovery, has an open parent. So the positions that are quiet below a stored one are such a
set, and nothing among them can start.

`ResponseIsSelection` is the refinement of `Selection`, under the same assumption.
What is null, `Null`, is a recursive function of the outcomes. The proof needs that what a
position contributes is final when it is stored: `RaisedAt` says at which places of a
position its error has been recorded, and `DoneBelow` that only a
position that is ok has anything below it, all of which is stored when it returns. When the root is stored
nothing runs any more (`AllIsStill`), so the errors and the nulls at `Marshal` and
`Send` are those of the abstract step. That the positions are a finite tree is an
assumption of `SelectionTree`: among any of them, one has none of the others below
it, and one none right above it.

## Responses, Uploads, Collection, Complexity

`Responses` is one operation between the transport and the generated code. `Use`
builds the list of extensions; `Middleware(hook)` is what `processExtensions`
makes of it. `InterceptOperation` and `InterceptResponse` are the calls going in,
`Deliver` and `Finish` the way back, which is one step because interceptors only
look at what comes back. `Call` makes the response context of each response;
`dispatch` is the one that `Exec` ran in. `Execute`, `RunField` and `Marshal`
are the closure of a query or mutation, `NextEvent` that of a subscription, whose
responses are all views of `buf`. `delivered` is history: each response with what
belongs into it.

`Uploads` is `MultipartForm.Do` from the loop over the map to the deferred calls,
which are a stack. Any step may fail as its calls may; a panic of the resolver or of
`AddUpload` takes the same way out. A reader is a value of its own with an offset,
so two paths that shared one would steal from each other.

`Collection` follows an execution down a document. The state is an object, by the
types it satisfies, and the `selections` its function was called with; `Descend`
collects them (`CollectFields`) and calls the function of some field's object with
what was collected for it. `specified` is carried along as the GraphQL specification
says: every field selected of the object, once for each selection (`Flat`), and for
each field what all of these select below it (`Merged`). `FieldsAsSpecified`
compares the two in every state. The comparison is of the fields, in order, and of
what is below each by the order in which selections are first met (`SameOrder`), since
the sequences differ: a field that is new when it comes from a fragment gets its
selections twice (`executable_schema.go:48-49`), which the model keeps, and a fragment
that is spread again is left out. Neither makes a difference to what is collected
further down, which is what the state machine is for. A key that is selected on the object
and on one of its interfaces (`{ x ... on User { x } }` where the outer selection is on the
interface) is two fields for `getOrCreateAndAppendField` (`Same`) and is in the
response twice; both sides count it so, and each of the two has what is selected
below it. The assumptions are what validation guarantees: documents are finite and
fragments have no cycles (`Depth`); and that generated `...Implementors` are never empty.

`Complexity` computes in ints of `MaxInt`, wrapping where Go does, for any function as
the custom cost of a field. `SelectionSets` are the selection sets an operation may
have, `Nesting` how deep each is: documents are finite. `CostsGrow` is the law a
limit on complexity relies on.

| run | question | answer |
|---|---|---|
| `operation`, `ResponsesNest` | does every response pass every interceptor, in order | yes, but for the answers of operation interceptors and failed dispatches |
| `EachInItsResponse` | are errors and traces where they belong | yes; what fields of a subscription's events raise is collected by nobody |
| `EventsInOrder` | is a stream its events, and everything else one answer | yes |
| `Ends` | does every operation end | yes; some by a panic: a tracer used twice, the debug tracer at the end of a stream |
| `NothingLeft`, `FilesAreWhole` | are files removed and closed, and read whole | yes, whatever fails |
| `FieldsAsSpecified` | are the collected fields the specified ones | yes, wherever an execution gets to; a key on an object and on an interface is two fields |
| `CostsGrow` | does more cost more | yes, up to saturation |

Bounds: three uses of five extensions, so that one can be used twice and between
any two others; two root fields, two events; two files with three paths, shared by
keys and files, read in two pieces; selections of two entries with switched off
ones, and of three without, out of fields with something below them, inline
fragments on three types and fragments that spread others; costs of two levels
with ints from -8 to 7, where two fields over two others may overflow. Fairness: the
goroutine of the operation goes on, and a subscription's channel is closed some
time; nothing is assumed of events. `CHECK_DEADLOCK FALSE`: an answered request is
over, a field without an object below it is the end of a path, and the input of a complexity makes
no step.

Proved in `Responses_proofs` for any extensions, hooks, fields and numbers of
events: `ResponsesTypeCorrect`; `ResponsesAreNested`, from `MiddlewareIs`, what the
backward loop makes of any list (the extensions that implement the hook, first used
outermost), and `CallInv`, which interceptors the call has entered at each place;
`EachStaysInItsResponse`, from `ContextInv`, what the contexts have
collected since the response began; and `EventsComeInOrder`, from `StreamInv` (what is delivered
and what is left make up the stream, and the buffer is the event at hand) and `OnceInv`
(anything else answers at most once).

Proved in `Uploads_proofs` for any files, lengths and maps of keys to paths:
`UploadsTypeCorrect`; `NothingIsLeft`, as whatever exists has its clean-up among the
deferred calls from the moment it exists (`CleanupInv`); and `FilesStayWhole`, as a
reader says which path it is of, so no two paths share one (`FilesInv`).

Proved in `Operation_proofs` for any document: `CollectionTypeCorrect` and
`FieldsAreSpecified`. `CollectionInv` is that `selections` and `specified` are in the
`SameOrder`. It is needed because what an object is given is not what is specified for
it but a sequence with repetitions, and it is inductive because collecting one or the
other comes to the same (`SameOrderFlatMap`, `CollectsSpecified`, `BelowSpecified`). What the
loop collects is shown selection by selection, for the least deep one that would be
wrong: `Adds` says that the collected fields are the old ones with some more added,
`Emits` that these stand for all that the selection has (`Alike`, for everything that
can be seen of fields, `Looks`). A fragment that was visited adds nothing; that is right because
it is either `Complete`, that is, nothing of it is missing, or the loop is still inside
it (`StillOpen`), which cannot be where it is spread again, as that would be a cycle;
`Ready` says so of all that are visited, and `Fills` that it stays so.

Also proved there, for an int of any width, any custom costs and any
finite operation: `CostsAlwaysGrow`. `SafeAddIs` is that the addition is that of
the naturals up to `MaxInt`; `SelectionCost` that a selection costs no less than what is below
it; `TotalGrows` and `TotalCovers` are about the loop; `WalkExists` gives the recursion
a value. `OperationIsSafe` is about all four parts.

## Imports, PackageCache, Resolvers, Generate

`Imports` is the table of one rendered file, used as the template of resolvers
does: `ReserveTemplate`, `ReserveUser` (the imports the user's file had, in any
order, whose errors nobody looks at), then `Lookup` for every type that is
printed. `Numbered` is the name with a number behind it, which may be another
package's own name.

`PackageCache` has for each package what it was loaded with: the version of all
its types are made of. `Added` is `addToCache`, which stops at what is
cached; `Evicted` follows the imports upwards, as they were loaded; `Render`
writes a package, with other imports perhaps.

`Resolvers` is a package that the generator and its user take turns to write.
`Scan` is `generatePerSchema` up to its last loop: everything is read, copied and
planned (`Planned`; the file of the object only if one of its fields has a resolver) before `WriteFile` writes one file after another in the order
of a map; `Abort` is an error between two of them. The user implements
methods, adds declarations, moves them, and changes the schema.

`Generate` is `api.Generate` from its first line to `validate`, over the Go types
that users have (`declared`) and those in the file of models (`modelFile`):
`Unlink`, `Bind` (`Config.Init` with `autobind`), `MutateConfig` (modelgen),
`BuildData`, `GenerateCode`, `Validate`; `AbortRun` is any other error between them.
Between runs, and after aborted ones, the user declares and removes Go types,
changes the schema and maps types to Go types.

| run | question | answer |
|---|---|---|
| `generation`, `NamesStand` | do names stay unique, and what was printed | yes |
| `CacheCurrent` | is what is cached as on the disk, with types where they are needed | yes |
| `NothingLost` | is what users wrote always somewhere | yes, but for methods that were moving when a run was aborted |
| `RunsSettle` | has each field one method, in its file, and would the next run change nothing | yes, from code without duplicates in files of the schema |
| `RunsAreFresh` | is each type bound to the user's Go type, or else to a new model, whatever earlier runs left, and are only real faults refused | yes, as the run first removes what it generates |

Bounds: six packages of which three want one name; four packages in any graph
of imports and two writes, so that one is evicted through two others; two files,
two fields, three edits and four declarations to a file (both methods, one of them
twice, and the resolver's type); one type of each kind, two models that refer to
each other, two packages in any order of autobind, and three changes between runs. `Tidy` excludes methods
in files that are not regenerated, as after the rename of a schema file: they are
copied and stay where they were, and the package does not compile.
`CHECK_DEADLOCK FALSE`: counters of edits, writes and changes are
bounded.

Proved in `Generator_proofs` for any packages, names, types, files and numbers of
changes, the types of each module and:

- `NamesAlwaysStand`: `TableInv` is that two imports differ in path and alias, and
  that an answer is an import of the table, to which imports are only added.
- `CacheStaysCurrent`: `CacheInv`, that the cache has what a cached package imports,
  and has it as it is on the disk, is inductive. What is reached over imports is the
  least closed set (`Reached`), so that an eviction takes all that reached the written package, and
  what stays reaches only what stays (`ReachedAgree`).
- `RunsAreAlwaysFresh`: `RunInv` says what each stage of a run knows, beginning with
  the removal of the file of models. A run is refused only for a type mapped to
  a Go type that is missing, for a Go type declared beside a model without being
  bound, or for a field of a root type, which is bound to none.
- `NothingIsLost`: `KeepInv` says that a body is in a file that is not going to be
  written over, or in a plan, and what an aborted run can lose.
- `RunsAlwaysSettle`: `SettleInv` ties each planned file to its list of methods with
  the bodies they had; a second run then finds each in its file and plans the same.

`GenerationIsSafe` is about all four parts.

## Chat, DataLoader

`Chat` is the server of the chat example with the transport under it. A post finds
its room, reads and stores the list of messages without the mutex
(`Read`, `Store`), and then holds it while it sends to every observer (`Lock`,
`Send`, `Unlock`); channels have one place. A subscription registers (`Register`)
and its goroutine removes it when its context is done (`Clean`). Over a websocket
its responses are read on and on, over POST only the first (`Drains`).

`DataLoader` is the generated loader: `LoadThunk` enqueues under the mutex,
`Wake` is the timer and `Ender` the call that fills a batch, of which one fetches
(`Finalizing`); thunks wait for the batch and set the cache. `Prime` gives the loader
a value that its caller read some time before (`ReadDatabase`). `Write` is the
database changing meanwhile, and `Clear` what its author calls then.

| run | question | answer |
|---|---|---|
| `examples`, `FeedsFollowRoom` | does an observer get what its room was told, in order | yes |
| `UnracedPostsStay` | which messages may be lost | only those of posts that overlapped |
| `PostsReturn` | do posts return | yes, unless a subscription over POST is in their room: nobody reads on |
| `ObserversLeave` | do observers leave with their contexts | yes, if they were registered before |
| `BatchesFetchedOnce`, `ResultsMatch`, `LoadsReturn` | one fetch per batch, the right result, no caller left waiting | yes |
| `StaleOnlyIfRaced` | when is the cache out of date after a clear | only if a load or a prime was on its way |

Bounds: two posters, one of whom posts twice, one subscription over each
transport and one room, as rooms share only the mutex; two callers with three
calls, two keys, batches of two. Fairness is that of goroutines, the mutex and
timers, and of a transport that reads what it is to write; nothing makes a
client post, subscribe or leave. `CHECK_DEADLOCK FALSE`: the blocked
posts of `PostsReturn` are real, and so is an idle server.

Proved in `Examples_proofs`, of `Chat` for any clients, rooms, users and
numbers of posts: `ChatTypeCorrect`; `FeedsFollow`, as who sends holds the mutex and to
observers only (`MutexInv`), so the channel, what was read and what is pending make up
what the room was told, which is inductive with the mutex; and `UnracedStay`, though the list is written
without the mutex, as a post that meets no other stores what it has read (`LogInv`).
Of `DataLoader` for any callers, keys, batch size and number of calls:
`LoaderTypeCorrect`; `EachBatchOnce` and `EveryoneGetsTheirs`, from the life of a batch
(`BatchInv`) and the place a caller holds in one (`CallerInv`), which grow together
only (`Grow`); and `OnlyRacesLeaveStale`, from what values on their way to the cache
may miss (`FreshInv`). `ExamplesAreSafe` is about both.

## Not modelled

Most lines of the repository are Go code that the generator wrote for its test
server and its examples (`codegen/testserver/generated.go`,
`example/*/generated*`): the templates are modelled, their output is not mapped
again. Of the rest, these are left out:

- scalars, introspection, the test client and the command line: conversions and
  readers without state, helpers, and one-shot I/O;
- the rendering of templates, what is in a generated model, `servergen`, `stubgen`
  and `federation`: functions from a schema to text;
- coercion of inputs and arguments, and errors that are values shared between
  fields (`DefaultErrorPresenter` writes the path into the error, so the second
  field reports the path of the first);
- an inline fragment without a type condition, whose condition is what the parser
  of the GraphQL library puts there;
- of `Resolvers`: fields a user added to a resolver's type, doc comments, and the
  layout `single-file`, which never rewrites a file that is there;
- of `Generate`: `skip_validation`, models that are named by the short name of a
  package, a file of `exec` in a package that autobind looks at, and a second run
  with the same `Config` in one process;
- of `Imports`: how an import is printed (`import.go:25` omits an alias the path
  merely ends in), and that an error in a template leaves `CurrentImports` set, which
  makes the next `Render` of the process panic;
- `MapCache`, which has no lock and which no server of the repository installs, and
  the pool from which the HTTP library takes request contexts, which may be
  reused while an upgraded connection still holds one.
