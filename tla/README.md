# TLA+ models of mion

mion is a TypeScript RPC framework: a router that runs a *route* with the *middleFns* around it, platform
adapters that feed the router HTTP requests, and a client that calls routes as if they were functions.  This
directory holds TLA+ models of it, the TLC configurations that check them, and proofs checked by TLAPS.  Paths
below are relative to `src/packages/`.

    tlc -config MCBufferPool.cfg MCBufferPool.tla      # one run (PROJECT.json lists them all)
    tlapm BinaryProofs.tla                             # the other modules named ...Proofs, and FoldInduction

## 1. Inventory

| part | source | state it keeps | operations | hard part |
|---|---|---|---|---|
| buffer pool | `core/src/binary/bufferPool.ts`, `options.ts` | free lists per size class, running byte count, the options they were filed under | `acquireBuffer`, `lease.release`, `configureBinary`, `clearBufferPool` | options change under leases that are out; release called twice |
| binary body serializer | `core/src/binary/bodySerializer.ts` | nothing between calls; a lease per result | plan a size, measure, encode into a pooled or a growing buffer, fall back | overflow that does not throw, a value that encodes differently the second time |
| size statistics | `core/src/binary/sizeStats.ts` | per method a ring of observed sizes and its sorted view | record, predict, evict | wrap-around with equal values, options that change under full rings |
| call contexts | `router/src/callContext.ts` | `contextPool`, a stack of context shells | acquire, release | a shell or a response seen by two requests |
| dispatch | `router/src/dispatch.ts`, `lib/dispatchError.ts` | the context of each request in flight | run the chain, record errors | every `await` interleaves requests; the error handler may fail itself |
| serializer middleFns | `router/src/routes/serializer.routes.ts`, `client.routes.ts` | the response object | deserialize, serialize in three modes, force JSON for metadata | errors raised while errors are being written |
| routesFlow | `router/src/routesFlow.ts`, `core/src/runtypes/serverMappers.ts` | cache of merged chains and its eviction order, mapping methods, allowed mappers | decode a query, merge chains, insert mappings, run | a cached chain or mapping that stands for another; order of mappings |
| registration | `router/src/router.ts`, `lib/*` | the flat router, names in use, executables, published metadata | `initRouter`, `registerRoutes`, start and end middleFns, `resetRouter` | every handler's reflection is awaited: registrations interleave; chains assembled from nested scopes |
| compiled functions | `core/src/runtypes/mionAdapter.ts`, `core/src/routerUtils.ts`, `router/src/lib/remoteMethods.ts` | write-once tables, descriptions | fill from the build's payload, describe, restore at a client | a family missing on one of the sides |
| node adapter | `platform-node/src/mionHttp.ts` | one closure per request (`replied`), two streams; options | data, end, errors, reply; set, start, reset | five places race to answer; node keeps reading a buffer after `end()` |
| other adapters | `platform-bun`, `-aws`, `-gcloud`, `-cloudflare`, `-vercel` | options, prepared headers | one event in, one answer out | who catches what; when a borrowed buffer may go back |
| client requests | `client/src/client.ts`, `request.ts` | prefilled middleFns, subrequests by id, abort signals | call, retry with the compiled encoding, prefill, abort | an answer racing an abort; a retry of what was done already |
| client subrequests and flows | `client/src/subRequest.ts`, `routesFlow.ts` | objects the program shares between calls | make, reference, call, flow | used twice, written into by whoever is given them |
| client serializer | `client/src/lib/serializer.ts`, `validation.ts`, `core/src/binary/bodyDeserializer.ts` | none | validate, choose a mode, encode, decode | both sides choose their encodings apart |
| client metadata | `client/src/lib/clientMethodsMetadata.ts`, `storage.ts` | memory and storage caches | fetch, store, restore | pages cut off while storing, servers deployed anew, several servers |
| client events | `client/src/lib/typedEvent.ts`, `handlersRegistry.ts` | handlers by route and error type | register, remove, notify | heard once, by the right one |
| devtools plugin | `devtools/src/vite-plugin/mionVitePlugin.ts` | the managed server process, harvested mappers, their manifest | start, poll, kill, harvest, write, consume | processes that outlive one another; a file one writes while another reads |
| lint rules | `devtools/src/eslint/rules` | none | report, fix | what an author does about a report must end in nothing reported |
| drizzle mappers | `drizze/src` | none | a table from a type, with columns given instead | types, formats and overrides of three databases |

How they interact.  An adapter calls `dispatchRoute`, which takes a context, looks its execution chain up (or
asks routesFlow for a merged one) and awaits the chain's methods one after the other.  The last methods of the
standard chain are the metadata middleFn and the serializer, which writes the response into `rawBody`, into
`body`, or into a buffer leased from the pool.  `dispatchRoute` gives the context back and returns the response
object, which the adapter then reads, sends, and releases.  A client sends such requests, at first without
knowing the routes' metadata, asks for that along with its first call, and encodes by it from then on.  Both
sides encode with functions that a build generated: the server has them in its bundle, a client gets their code.

What makes each part correct:

- pool: one holder per buffer; a buffer is where it will be looked up and as large as asked for; both caps hold;
- contexts and dispatch: one request per shell, a response frozen once returned, nothing of one request in
  another's answer, every thrown error accounted for (flag, status, header, body);
- adapters: one answer per request, an answer for every request, a buffer borrowed until the platform is done
  with it, headers that tell what was sent, options that are those given last;
- body serializer: the pooled attempt never decides the response; size statistics stay a true window;
- registration: every chain is the one the tree spells out, whoever else registers meanwhile;
- routesFlow: a cached chain is the chain the query would build; mappings run between their source and target;
- client: a call settles once, with the result of its own request; a handler runs again only as documented; a
  page never gets into a state where a call can not succeed any more;
- metadata: what a client knows can be used, is one server's word, and does not change under a page.

`PROJECT.json` lists the hazards, each at the line where it bites with the properties that watch it.

## 2. Modules

    ExclusiveLoan             what a lender of buffers promises
      ^ implemented by BufferPool (ImplementsLoan), extended by BodySerializer; BinaryProofs: both
      ^ used by NodeHttp in place of the pool
    SlidingWindow             what the size statistics promise
      ^ implemented by SizeStats (ImplementsWindow); BinaryProofs
    Dispatch                  contexts, chain, errors, serializer; PlatformsProofs
      ^ extended by NodeHttp      node's events and the response buffer
        ^ extended by Platforms   six more platforms
                                  each of them a user of Dispatch; streams, loans, answers: PlatformsProofs
    RouterRegistry            routes are registered; RouterRegistryProofs
    RoutesFlow                several routes are run as one; RoutesFlowProofs
    Client                    calls, prefills, retries; ClientProofs
    MethodsCatalogue          metadata in memory and storage; MethodsCatalogueProofs
    DevServer                 build processes and their servers; DevServerProofs
    MCStandalone              seven machines that share no state, one of which runs:
      RouterRules, TableMapping, Wire, MethodFunctions, ClientFlows, Servers, SizeStats
    FoldInduction             what folds and sums compute, for the proofs about loops and byte counts

The seven of `MCStandalone` have nothing to say to each other; `machine` picks one for the whole of a behaviour
and the others keep their initial state, so the run's states are the sum and not the product of theirs. A
property of one machine holds trivially while another runs.  Type invariants are conjuncts of the properties the
runs check.

### BufferPool

`opts` is `getBinaryOptions().pool`; `filed`, `freeLists` and `bytesHeld` are the fields of `state`
(bufferPool.ts:56); `lease` holds the lease closures with the byte count each was asked for.  A buffer is an
identity with a `byteLength`; an identity nothing refers to is garbage and may be allocated again.

`reconcile()` runs inside every entry point, so every action uses `ListsNow`, `HeldNow` and `Reconciled`, what
it leaves behind.  `acquireBuffer` has three outcomes (`AcquireUnpooled`, `AcquireHit`, `AcquireMiss`);
`Release` may be called any number of times and files the buffer under the guards of `returnToPool` (`MayFile`);
`Configure` is any patch at any moment; `Touch` is the calls that only reconcile; `Forget` is a holder that
drops its lease.  Size classes are powers of two floored at `minClassBytes`, over a finite set of powers
(`RoundingAssumption`: every size in use has one at or above it).  The counters `hits`, `misses`, `dropped` are
left out.

### BodySerializer

Extends BufferPool with the one call of `serializeBinaryBody` that may be in progress (`running`, `phase`,
`plan`), what each call serializes (`envelope`), what it returned (`result`) and which call wrote a buffer last
(`written`).  The function is synchronous, so while a call runs nothing else steps; its steps are separate only
so that each of the pool's operations stays the pool's own action.  An envelope has the outcomes that encoding
it may have (`writes`) and those of the measure pass (`measures`), sizes or `Throws`: a set with two members is a
getter that does not return the same thing twice, and the sets differ where a text has an unpaired high surrogate
(`dataView.ts:91-106` counts four bytes for it and skips the next unit) or an encoder throws at a write the sink
of the measure pass swallows.
`Predict` trusts a size the statistics made up, any size at all; `MustMeasure` and `Measure` are the measure
pass.  `WritePooled` writes into the borrowed buffer whether it fits or not; `Fits` is the check that finds the
overflow that did not throw; `GiveBack` then `Grow` the fallback.  Several pieces of the code collapse: which
methods are written, keys, the item count, and what is recorded in the statistics.

### SizeStats

One direction (`res` or `req`; they never meet).  `order` is the insertion order of the map, `entries` its
values: `ring` and `sorted` are 0-based arrays as in the code, with the binary search of `lowerBound` and the
two shifts of `sortedInsert` and `sortedRemove`.  `RecordSize` is all of `recordSize`: a stale ring is rebuilt,
a new or rebuilt entry first evicts when the map is full, and a rebuilt one that survived keeps its place.  The
padding of `predictSize` and its fallback for an unseen method are arithmetic on its result and left out, as are
a `ringSize` or a `maxKeys` of zero.

### Dispatch

`pool` is `contextPool`; `ctx` the shells with the two fields that survive an `await` and could leak
(`thrownErrors`, `response`); `heap` the response objects; `errorsOf` the `thrownErrors` objects, named by the
request they were created for; `header` the `x-rpc-error` response header; `sealed` the requests whose headers
were sent; `call` the invocations of `dispatchRoute`.  A shell, a response and an errors object have identities,
because aliasing is what could go wrong; a value or an error is only who made it, for whom.

`dispatchRoute` runs without interruption up to an `await` of a method.  So a method is two steps: `Call…`, its
synchronous part (the serializer does all of its work there), and `Settle…`, what `runExecutionChain` does with
the result or the exception.  Parameter restoring and validation are ways for a handler call to throw. `Reject`
is the error handler failing itself: it sets the header of a first error, which can not be done once the headers
were sent (`HeaderRefused`) nor, with a `Headers` object or node's response, for a type that is no header value
(`TypeRefused`; `OddlyTyped` names the methods whose errors may have one; AWS's plain object takes them all, so
there the model allows more than happens); `AcquireFails` is the path where a popped
context is lost.  `SerializeJson` stands for `stringifyBody` and `prepareBodyForJson`, which report each value
that can not be converted and go on, and convert the thrown errors last; `SerializeBinary` for the binary lane,
which is all or nothing and skips `@thrownErrors`.

### NodeHttp

Extends Dispatch with `http`, the closure of `httpRequestHandler` and the two streams of a request, and `lent`,
the buffer `releaseBinBuffer` would give back.  The events of the streams are actions; node itself is external:
`finish` comes once after `end()` unless the socket closed, `close` at any time, a client owes nothing.  `Run`
interleaves the chain; `Resume` is what follows `await dispatchRoute` (too late, reply in three modes, a reply
that throws, a rejection).  `QueryUnreadable` is `decodeQueryBody` throwing outside the `try`: the closure does
nothing more.  A raw middleFn that ends the response is `HandlerEnds`; one that only writes part of it is not
modelled.  The pool is used through `ExclusiveLoan`.

### Platforms

Extends NodeHttp with `platform`, one of seven, and `outcome`, what became of the handler's promise (`node` has
none).  Everywhere but on node the handler is one async function: `Dispatches` and `Works` are the chain,
`Replies` and `ReplyFails` what `reply()` makes of the response, `DispatchFails` a rejection.  The platforms
differ in who catches what is thrown before, in and after the `try` block: the handler itself, `Bun.serve`'s
`error()`, express, node's listener around the Vercel handler, or nobody but the cloud's runtime, which is
external.  Their runtimes copy the bytes of a response, so a pooled buffer goes back within the step.
`PlatformsImplementDispatch` says that each is a user of `Dispatch` as that module supposes them, so what is
proved there holds here.

### Servers

What an adapter is before and around its requests, in one record `srv`: `options`, the prepared headers of the
fetch adapters (`cached`), the binary options as far as a start arms them (`pool`), what the router publishes as
platform configuration, and a node server between `listen()` and its callback (`binding`).  `SetsOptions` is
`set…Opts` and `create…Handler`; `StartNode`, `StartBun`, `StartDevOnBun`, `StartDevOnNode` the four starts,
whose bindings succeed or fail; `Resets` is `reset…Opts`.  Then one response: `RequestArrives` with the headers
the adapter begins with, `HandlerOperates` through the adapter's header wrapper, `Serializes` and `Replying`.
`log` keeps the calls for the properties only.

### RouterRegistry

`byId` are the three maps of executables, `names` the two of names, `flat` the flat router, `published` the
memoized descriptions, `reg` the calls of `registerRoutes` and `initRouter`, each with a stack of scopes, as the
code recurses.  A call runs to its next `await`: the reflection of a handler (which may fail) or a promise that
is resolved already.  So two calls may look an executable up before either creates it; `Lookup`, `Reflected` and
`Created` are the two sides of that `await`.  The program may await each registration before the next or not
(`awaited`), add outer middleFns and reset.  A request for metadata may be served at every one of those
awaits, in a program that awaits too; `early`, of a published description, remembers for the properties that no
chain of its id was filed then.

### RoutesFlow

`cache` is the cache of merged chains, a function on the queries that are in it, and `cacheOrder` its eviction
order; `mapMethods` are the methods made of mappings, `mappers` the registry of functions and the allowed keys,
`reader` and `harvested` the manifest of a development server.  `Begin` is all that happens before the chain
runs: refusals, the lookup, the merge, the insertion of mapping methods, the eviction.  A run then does one
method per step and keeps what each route saw and returned.  A query is a record of paths and mappings and
stands for its text, which is the cache's key.  Which routes it names is another matter: `pathTransform` is given
the raw request as well, so `Reading` depends on it while the lookup does not.  `given` are the ids the request's
body has parameters for; a mapper's result goes nowhere if its target is not among them (`Replaced`).  The two loops of `buildMergedExecutionChain` are folds: one adds
the ids of each route's chain that are neither start nor end methods and not there yet (`AddOnce`), one inserts
a mapping method after the route it reads and before the one it writes (`Insertion`).

### Client

`cached` and `stored` are the ids with metadata in memory and in storage, `prefilled` the prefills, `ops` the
`prefill` and `typeErrors` operations, `calls` the calls.  A call goes through the phases of `makeCall`: fetch
or not, restore, validate, send, read, retry, settle with the five slots, notify handlers.  The server is one
step that picks what each method of the chain did (`Behaviours`), among it handlers that return or throw an error
of one of the three types the client takes for a refusal (`claims`, `invalid`, `unread`; `TakenForRefusal`); network and platform failures, aborts and
reloads may come at any time.

### ClientFlows

One page (`page`): its subrequests as objects, references made by `serverMapFrom` in either form, prefills,
handlers, and up to two calls, each by `call`, with `otherRoutes` or as a flow.  `StartCall` is everything a
call does before it sends: which subrequests may be used, which parameters become null with a mapping, what the
body holds, GET or POST.  `Answered` writes results into the subrequests, runs handlers and fills the slots.
The order in which a program makes these calls is the nondeterminism: an object may be in two calls at once.

### Wire

One call of a route behind a `headersFn` or middleFn (`crossing`), from the parameters the program gives to the
values it gets back: local validation, the client's choice of mode, the server's reading, the handlers, the
serializer's three lanes, the client's reading, and a client whose metadata is of an older build (`stale`).
Values are told apart by which encodings keep them.  `Measured` and `Encoded` compare the length the measure
pass computes for a text with the length written.  `ErrorShapes` enumerates objects by the keys they have, for
the guards that tell typed errors from others before and after JSON.

### MethodFunctions

How two methods of one build come by their functions (`making`): which slots the plugin filled, projection and
registration, what is private, what a description contains (functions, their dependencies, pure functions and
theirs), and what a client assembles from that, in either order of the two methods and with code generation
allowed or not.

### MethodsCatalogue

`methods` and `fns` are the page's memory, `storedMethods` and `storedFns` the storage, `answers` what is on its
way.  `Deploy` changes what a server has; `Fetch` restores from storage and asks for the rest, `AskAlong` asks
with a call, `Receive` adds and stores, `Lose` is an answer that never comes, `CutShort` a page that is closed
while it stores, with any part of the writes done that their order allows, and `Reload` a new page.  Each item is
written in a `try` of its own, so the storage may refuse any of them and take the next: `Receive` and `CutShort`
choose what is taken.  The functions of a type are stored if all of their items are.  `refused` and `restored`
are there for the property: a method that came back from the storage may lack the functions that were refused,
and only those.

### DevServer

One build process after another (`parent`, `plugin`, `run`) with the plugin's module state (`started`,
`serverChild`, `ready`, `polling`, `harvested`), the child processes, and the `manifest` file, which is torn
while it is written.  `StartRun` chooses what the plugin is configured to do and `ConfigRefused` is a
configuration it throws at.  Children outlive signals and processes that were killed, and a program that is none
of them may listen on the port (`foreign`); `rival` remembers that an older child was alive, or such a program
listened, when this run's child was spawned, or that such a program came since.  A `vite-node` that can not be
resolved (`mionVitePlugin.ts:565`) fails the build with nothing spawned and is left out.  A server build (`BuildServer`) reads the manifest at any time.

### RouterRules

A file as far as the five lint rules look at it: `HandlerReports`, `UnionReports`, `MixedReports`,
`MapperReports` and `ImportReports` are what they report, and the actions are what an author, or the autofix,
does about one report.  The property compares silence with what it promises, e.g. that in a union nothing is
unreachable, computed from the values the members match.

### TableMapping

One call of `toDrizzle…Table` (`table`): `Resolve`, `Validate` (column by column, with errors and warnings),
`Judge`, `Build` and `Create`.  The properties relate the table to the type, to the overrides and to the static
type that is computed for it at compile time.

## 3. Runs

| run | instance | shows |
|---|---|---|
| `pool` | 3 buffers, 2 leases, sizes 1 and 3, two values of both class boundaries and of the ceiling | leases exclusive, nothing retained twice or misfiled, leases large enough, exact byte count, caps, refinement of the lender |
| `serializer` | 3 buffers, 2 calls, every kind of envelope | results whole and their own, no lease lost, the pool never decides the outcome |
| `node` | 2 requests, all modes, 3 buffers, a context pool of 1 | no shared context, response or buffer; node sends from a buffer nobody else holds; a returned response is frozen |
| `platforms` | 7 platforms, 1 request, the full chain of six methods, each mode, fair | one answer; errors, flag, status and header agree, early errors are returned; silence only where the model says so; buffers come back; each adapter a user of `Dispatch` |
| `router` | 3 calls over 3 trees, awaited or not, nesting 2, fair | chains as written, names, executables and metadata consistent, first registration stands, every call returns |
| `flow` | 5 queries, 2 requests, cache of 1, 2 readings of the paths | the cache is sound, merged chains keep each route's chain, only allowed mappers run |
| `flow_index` | 2 queries that differ in one parameter index | **violation**: one mapping runs as another |
| `client` | 2 calls of a route with three middleFns, 1 prefill | slots kept apart, handlers hear once, sends are all that is due, no call is stuck |
| `client_reload` | 1 call with a parameter `JSON.stringify` refuses | **violation**: after a reload the call fails for good |
| `devserver` | 2 build processes, 2 mappers, 3 configurations, fair | a resolved `serverReady` is the own server's, or an older one was alive or another program listened, what is harvested is served and shipped, whoever waits is told, a process that exits takes its server along |
| `catalogue` | 2 servers, 2 methods, 4 types, 2 answers in flight, a storage that refuses items | metadata can be used, comes from one server's declarations, does not change under a page |
| `standalone` | seven machines, one at a time | see below |

`standalone` checks, one machine each: `RulesHold` (a file with no reports left is what the rules promise),
`TablesFit` (columns fit the type, the overrides and the database), `ValuesCross` (values and errors arrive as
they were, or the call says why not), `FunctionsAgree` (no method runs with a function that was made up; both
sides have the same), `PagesAgree` (what a call sends, what it answers and what the shared objects hold belong
together), `ServersAgree` (options, pool, published configuration and headers are what the calls asked for),
`SizesUseful` (the prediction is the quantile of the window, the number of methods is capped) and
`ImplementsWindow` (the rings refine a sliding window).

Bounds, and why they are enough.

- `pool`, `serializer`: two leases and a buffer on a list are what it takes to share one; with a third buffer a
  list can hold two, the ceiling is reached, and a boundary moves under a lease that is out.  Sizes 1 and 3 fall
  in different classes, 3 is not a power of two, and with `minClassBytes` 2 the size 1 rounds to the floor.
  Both calls of `serializer` can be done and unreleased at once, so the pool is empty, partly lent or full when
  a call starts; a prediction is exact, too large or too small; a changing value grows or starts to throw
  between two passes, another is measured too small, and one throws only when it is written.
- `node`: two requests over a context pool of one find it empty, reuse a shell while the previous owner's
  response is still being read, and find it full at release.  `platforms` needs one request only, because
  adapters share nothing but the context pool and the buffers; its chain has a method for each value of
  `runOnError` and `hasReturnData` before the serializer and one after it.
- `router`: three routes in a row between middleFns and two levels of groups cover every way
  `recursiveCreateExecutionChain` reuses or wraps its lists; a second tree clashes in a name and holds something
  that is no route; a third can not be registered.
- `flow`: two routes that share a middleFn before and one after them; queries without mappings, with two,
  backwards, with an index out of range, empty; five queries over a cache of one evict.  Two kinds of raw requests,
  for which a path names different routes, and bodies with and without the parameters of a mapping's target.
- `client`: parameters that are plain; that survive only the compiled encoding, so that the server refuses the
  optimistic attempt (`Rich`); and that make `JSON.stringify` throw before it and the local validation refuse them
  after the metadata is there (`BadBigint`).  The handlers return nothing, values, declared errors and errors of
  the three retried types, or throw; a setup in which the route alone has a bigint is left to `client_reload`, which shows why.
- `catalogue`: types that depend on each other in a circle, a type deployed anew, a server whose method has the
  same name; two answers in flight overtake each other; the storage lacks the functions of one type (`MaxRefused`),
  which is what it takes to leave a restored method without them.
- `devserver`: two processes are what it takes for a child to outlive its own; two mappers, for one to be
  harvested and the other not.
- `standalone`: unions of three types over three properties and two parameters (lint); one property that varies
  and a plain one, three databases, a buffer of 3/2 or 1 (tables); a guard and a route, where either the
  parameters or the answers vary, and all subsets of the keys an error may have (wire); two methods, five types,
  one chain of dependencies, payloads cut at every length that matters (functions); five pages of three or four
  declarations, two routes and two middleFns, four outcomes, two calls, three moves, cached or not, URL short
  enough or not (pages); six adapters, seven option sets, three calls, a response after at most one of them with
  two of five header operations, three modes, body writable or not (servers); three methods under a cap of one
  or two, rings of two and three and two sizes, so that a full ring holds equal values (sizes).

Deadlock is checked in every run but two.  `DevServer` ends when its last build process has: `CHECK_DEADLOCK
FALSE`. `MCStandalone` ends when the file, table, call or page of a behaviour is finished, likewise.

Fairness.  `NodeHttp`, `Platforms`: a handler that is awaited settles, what the event loop has ready runs, and a
response that was ended is flushed or its socket goes away.  These are node's, not the code's, and they are weak
fairness per request; nothing is assumed of clients, and no event of a stream has to come.  A handler that never
settles hangs its request in the code as in the model: the router has no timeout.  `RouterRegistry`: weak
fairness of each call's next step; promises that can settle do.  `DevServer`: `waitForPort`'s deadline fires,
and a child that was signalled closes and ends, as the adapters' handlers of SIGTERM do; no child has to listen,
nothing has to be harvested.

## 4. Findings

- `flow_index`: `routesFlow.ts:339` builds the id of a mapping method without its `paramIndex`; the second of
  two mappings that differ in nothing else gets the first one's method and its parameter stays as the client
  sent it.
- `client_reload`: `clientMethodsMetadata.ts:152` restores the ids of a call and not the middleFns their
  metadata names; a call that can not be sent optimistically then fails for good.

Divergences met while modelling that no run of its own shows; the models do as the code does.

Server:

- `bufferPool.ts:76`: lowering `maxTotalBytes`, "ceiling on total bytes held across all classes", leaves what is
  retained.
- `bodySerializer.ts:185`: the measure pass runs encoders outside any `try`, so their errors surface raw.
- `serializer.routes.ts:87-89,145`: `@thrownErrors` is attached before the serializer runs, so a failure that is
  the request's first error is in no body; `:173` discards the result of `JSON.stringify`.
- `dispatchError.ts:53` puts the type of an error, any string, into a header.  A type that is no header value
  makes the error handler throw; then `dispatchRoute` rejects, which "should never happen" (`dispatch.ts:55`),
  and the client gets the adapter's error in place of the handler's.
- `bodySerializer.ts:326`: the binary lane drops thrown errors; the client's call then resolves with
  `undefined`.
- A route whose parameters have no binary encoder is left out of a binary body without a warning;
  `ensureBinaryJitFns` warns for middleFns only.
- `routesFlow.ts:166,206`: `pathTransform` is given the raw request, but merged chains are cached by the text of
  the query: where the transform looks at the request, the next one may run the routes another's transform named.
- `routesFlow.ts:380-381`: the result of a mapper is dropped, without an error, when the body has no entry for the
  mapping's target.
- `mionHttp.ts:157`: `replied` is set before `reply()`; when that throws, nobody answers (`SilentOnlyAfterThrow`
  names the case).
- `mionHttp.ts:139`: `decodeQueryBody` runs outside the `try` block of an event handler.
- `mionHttp.ts:72-77`: what is published is read when `listen` calls back: options set or reset in between are
  published although the server listens with the old ones.  `reset…Opts` does not reset the binary options, and
  a start that fails leaves options and pool changed.
- A configured `server` header is appended to on Bun, Vercel and Cloudflare ("@mionjs, own") and replaces
  elsewhere and in Bun's `error()`.  On AWS a default header that is not in lower case can not be read or
  replaced and is sent twice (`awsLambda.ts:52-56`).
- node's `headers.entries()`, `keys()` and `values()` and Google Cloud's `entries()` and `values()` call methods
  a plain object does not have.
- Two servers in one process: the first whose `close` completes ends the process for both.
- A route is filed under its id when its handler is reflected (`router.ts:528`), and its `middleFnIds` are set
  with its chain (`router.ts:378`), one await and one for every middleFn of its level later.  A client that asks
  for the route in between gets a description without its middleFns, and `remoteMethods.ts:75-94` memoizes it:
  every later client gets the same until the router is reset.
- `remoteMethods.ts:75-96` drops `headersReturn`, so a remote client never restores a `HeadersSubset`; functions
  of header types are never shipped.
- One pure function without code makes the whole metadata request an error.
- A TypedError arrives at a client as an RpcError without a public message.
- `dataView.ts:91`, "matches TextEncoder exactly", does not for a high surrogate no low one follows.  So
  "a MEASURED size can only land here if the value changed between the two passes" (`bodySerializer.ts:231`; "the
  one way", `binaryPooled.spec.ts:190`) is not the only case: "\uD800\u4E2D" is measured four bytes and written
  six.  The response is the same, from a second encoding.

Client:

- A `headersFn` with further parameters: local validation sees the `HeadersSubset` in front of them and refuses
  the documented call `middleFns.auth(authHeaders, true)`; the optimistic body does not strip it either.
- `request.ts:156-164` retries on any error of type validation-error, serialization-error or
  parsing-json-request-error, also on one a handler that ran has returned or thrown: its route then runs twice.
- A client of another build may send binary to a method registered without `fromBinary`.
- A reference is overwritten by the last subrequest it is given to; given to a middleFn or to a single call it
  is never mapped: null is sent, and not validated (`subRequest.ts:38-42`, `validation.ts:36-39`).
- `call({otherRoutes})` does not check that all subrequests are of one client, as `routesFlow()` does.
- Two calls in flight that share a subrequest see each other's result, and a retry of one resets the other's.
- Of several fatal errors the first is visible.
- `clientMethodsMetadata.ts:64-92`: an item the storage refuses is warned of, and the next one tried.  A method
  whose record was taken and one of whose functions was not fails after a reload (`routerUtils.ts:205`): its
  metadata counts as known, so the server is not asked again.
- `request.ts:75-176`: the second attempt goes through `makeCall` like the first and may be optimistic again.  If
  the page names an id the server does not have, asking for metadata is refused (`client.routes.ts:41-70`) and
  the call sends optimistically with parameters that need metadata.

Devtools and drizzle:

- `no-unreachable-union-types`: `{a}` before `{a?, b}` is reported though not every value matches it.  Not
  recognised are aliased imports, and the functions, types and JSDoc of exported declarations; returns inside
  `else if` and loops are not searched; a pattern with a default that is no literal is reported even when
  annotated; the autofix of `import D, {A}` is no valid TypeScript, a default beside a typed specifier stays,
  and `export *` is not checked.
- Properties with a format reject every override (also the documented one, `postgres.ts:52-58`); `bigIntFormat`
  and `bigintFormat` differ (`validator.ts:149`); `notNull` of a builder is never seen, so nullability is never
  checked; `{id: undefined}` is taken as a column; `number | null` becomes a `varchar`; MySQL ignores an exact
  `length`, reads date-time formats back as dates, and types bigints as numbers.

## 5. Proofs

Every theorem is about all values of the constants that meet the named assumptions of its module, which TLC
evaluates for the values of the runs.  `PROJECT.json` lists the theorems; this section gives the arguments.

### Binary bodies (`BinaryProofs`)

Proved of the pool: `TypeOK`, `ExclusivelyHeld`, `ServesItsClass`, `AccountsForBytes`, and the refinement of
`ExclusiveLoan`.  Proved of the serializer on top of it: `ResultIntact`, `NoLeaseLost`, `PoolDecidesNothing`.

Assumed: `NoBufferAssumption` and `NobodyAssumption` (a lease that was never made has no buffer, no call is
called nobody), `SizesAssumption` (sizes and option values are naturals), `RoundingAssumption` (a size in use has
a least power of two at or above it), `EnvelopesAssumption` and `ThrowsAssumption` (an envelope has an outcome,
a size or an exception, and the measure pass, which runs the same encoders over a sink, throws only where writing
may).  Buffers, leases and options need not be finite in number.

`IInv` is type correctness, exclusiveness, "retained once", "filed under its own class" and "large enough"
together with `LeaseSound`: a live *pooled* lease's buffer has exactly the length the lease recorded as its
class.  Without it `Release` could not be shown to file a buffer under its own class.  Neither exclusiveness nor
"retained once" is inductive alone: a release pushes a buffer that must not be on a list already, which only
exclusiveness knows, and a hit lends one that must leave every list, which only "retained once" knows.  The
lists change in three ways, popped, pushed and cleared, and one lemma each says what that keeps (`PopLists`,
`PushLists`, `ClearedLists`); `ReconcileLists` does the same for the reconciliation every entry point starts
with; then there is one lemma per action.

`AInv` adds to `IInv` that the retained buffers are finite in number, that the count is the sum of their
lengths, and that both caps are met (`Accounted`).  The sum is a fold over a set; `FoldInduction` proves that it
loses exactly what is taken out.  So a hit must take out one buffer and no other (`PopKeepsRest`) whose length
is the class the code subtracts ("filed under its own class"), a release adds one whose length is the class it
adds (`LeaseSound`), and a new buffer gets a length only if it is not retained (`AccountedAllocate`).

`SInv` says of every call where its lease, its plan and its result are (`CallInv`): which leases are live
follows from the phase of the one running call and from what each finished one returned, and a pooled result
that was not released has a live lease over a buffer that its own call was the last to write, with at least the
size that was asked for.  That other calls leave it alone is what the pool's invariant gives (`OthersKept`).

### Size statistics (`BinaryProofs`)

Proved: the number of methods kept never exceeds the largest cap, from `RingAssumption` (sizes are naturals,
rings and caps positive).  The invariant adds that `sizeOpts` is one of the options and that `order` is a
sequence; a new key is appended below the current cap or to what an eviction left, which is shorter by at least
one.

### Dispatch (`PlatformsProofs`)

Proved for any set of requests, chains, shells and responses and any pool size: `TypeOK`, `ContextExclusive`,
`DeliveredFrozen`, `NoCrossTalk`, `ErrorsAgree`, `FirstErrorKeepsHeader`, `RejectedForCause` and
`EarlyErrorsReturned`: what `NothingShared`, `ErrorsAccountedFor` and `AnsweredOnce` say of dispatch.

Assumed: `ChainsAssumption` (the chains are chains), `NoneAssumption` (`None` is no error or request) and
`SerializerAssumption`: every chain has one `mionSerializeResponse`, it runs on errors, the metadata middleFn is
before it, and no id is on both sides of it.  The router puts both there itself, in this order
(`router.ts:75-84`, `router.ts:368-371`, `serializer.routes.ts:221-222`), and ids are paths.  Only
`EarlyErrorsReturned` rests on it.

There are three invariants, each on top of the one before.

- `HeapInv` adds to `ContextExclusive` who refers to which response: two requests never to one, a pooled shell
  only to one nobody reads (`ResponseExclusive`), and a request in flight to that of its own shell, with errors
  of its own (`HoldsOwn`).  That last part is why an error recorded by one request can not land in what another
  one returned.
- `OwnInv` adds what these responses hold: values, errors and headers of the request that refers to them, with
  flag, status and header in agreement from the moment the shell is taken (`Agrees`), and a rejection only
  without a chain or with a cause: the error is the first, and the headers were sent or do not take its type
  (`HasCause`).  It needs `HeapInv`, since a response that two requests
  referred to would mix both.
- `EarlyInv` follows the serializer: a context refers to its errors as soon as there are any, so the serializer
  can not miss one that came before it, and once it has run every such error is in the payload and stays there,
  whatever the methods after it throw.

Actions are first shown to have one of three shapes, start, progress or end, or to be quiet; `HeapInv` is proved
for the shapes, so the serializer and the error handling are looked at once each.

### Platforms (`PlatformsProofs`)

Proved: every platform implements `Dispatch`, for any requests, chains, buffers and pool size, so the theorems
about `Dispatch` hold on all seven; `NothingShared` of a node server, `AnsweredOnce` and
`ErrorsAccountedFor` of every platform.  Assumed beyond `Dispatch`: `NoBufferAssumption` (no buffer is none) and
`ServedAssumption` (the platforms are among the seven).

The refinement is a step simulation with the identity as its mapping: an action of an adapter leaves the
variables of `Dispatch` alone, seals a request's headers, drops a response, or is an action of `Dispatch` with
some bookkeeping.

`HttpInv` is about that bookkeeping on node.  Loans are exclusive; the bytes node still reads are those of the
request's own loan, of a request whose chain is over, whose function returned and whose socket is open
(`SendsFromOwn`): so no step of a chain can borrow another buffer in its place, and no `close` has given it
back.  A response ends at most once, and only where `replied` says so.  `AdapterInv` is its counterpart
elsewhere: outside node nothing is still being sent once the handler returned, and the step that settles the
handler is the one that ends the response, unless a raw middleFn holds it.

### Route registration (`RouterRegistryProofs`)

Proved for any trees and any number of callers: `FirstRegistrationStands` and `ChainAsWritten`, whether or not the
program awaits its registrations, and `RegistryAgrees` (`OneExecutablePerId`, `PublishedComplete`), which is about
programs that do.  Assumed: `RegistryAssumption` and `TreesAssumption` (the constants have their types, an executable item has
an id), `NoneAssumption`, and for `RegistryAgrees` alone `ProgramAssumption`: of two calls one is written before
the other, and no id is both a route's and a middleFn's.  The code admits such a pair, since names are checked per kind (`router.ts:66`,
among the hazards); with one, the maps answer for the id in a fixed order of kinds and `OneExecutablePerId`
means little.

There are four invariants; each of the others contains the first.

- `Kept` is what a walk carries: a stack of levels, each standing at one of its items, of which all but the top
  stand at a group; at a tick, the executable of the entry that is waited for; and every executable filed under
  its own kind and id.
- `Claimed` is about the route a call is about to file: its name is taken, its path is not, and no other call
  is about to file it.  A name is checked and taken when the route's executable is there; its chain is filed
  some awaits later, after those of the siblings, and with other calls in between it is the name that keeps the
  path free.  Nothing is said of the order of calls, which is why the theorem covers programs that do not await.
- `Agreed` adds, for programs that await, that one call is active at a time, that everything it carries (in its
  hands, on its levels, in the start and end lists) is filed, that what is filed stays, and that what is
  published is the executable that is filed, with the middleFns of its chain or, described before there was one,
  with none (`PublishedAgrees`).  That last case is a fact about the code that `PublishedComplete` states and
  does not excuse: it is the only way a description is incomplete (section 4).  Without the first part two calls may each create an
  executable for the same id, and the later replaces the one the earlier already has in a chain: TLC shows it
  when the property is stated without `awaited`.
- `Traced` is what makes a chain come out as written.  A stack is a descent of the tree (`Nested`); the lists of a
  level hold the middleFns the walk of it has been past, before and after the entry it stands at (`Scanning`);
  a route that reuses the lists of the route before it finds them complete, since none of the items between two
  routes is a middleFn (`LevelRight`); and the start and end lists are finished before the walk begins
  (`Collected`).

`ChainAsWritten` compares a chain with places of the tree chosen by their order, where the code concatenates lists
while it descends.  The two meet in `Spells`: a list spells a set of places if some enumeration of the set in the
order of `Precedes` names its executables.  Each level's lists spell places beside the walk, they come one after
the other (`BesideOrder`), their union with the route is what is around it (`ScopeIs`), and the k-th place of an
enumeration is the one that k - 1 others precede (`NthEnumerated`), which is how `Written` is defined.

### Client (`ClientProofs`)

Proved for any number of calls, any routes, chains, parameters, prefills and handlers: `AnswersReachTheirOwn`;
two of the three parts of `SentAsDue` (`KnownPrefillsSent`, `RouteRunsOnce`) without a condition, and all of it
if the server has every id the page names (`Public \subseteq Known`).  Without that the bound on the number of
requests is not true of the code (section 4, the second attempt).  Assumed: `ClientAssumption` (a route does not
run on errors, a call passes parameters to its route, operations are of the two kinds), `ChainsAssumption` (a
chain holds its route; metadata is asked for by an id of its own) and `NoneAssumption`.

`SentAsDue` speaks of counters and of what the server saw, and is not inductive without what a call carries at
each of its awaits.  `IInv` says it of one call at a time (`Good`): before the first await nothing is done
(`Fresh`), what the caller passed is in the request as passed (`Carries`), what was prefilled and not yet sent
is still there and in the request once it is made (`DueKept`), a route that ran twice or is about to has had a
middleFn behind it refused, or a handler gave an error that is taken for a refusal (`Grounds`, `Repeats`), where a call waits bounds the requests it has made (`Counted`), an answer
that is being read has each method in at most one of its parts (`Answered`), and the slots and the events are
those parts (`Slots`, `Hears`).  The operators an action is made of (`Made`, `Prepared`, `Resolved`, `Settled`) are each shown to keep what concerns them.  The server's
answer is a fold over the chain, which `FoldInduction` takes round by round (`Apart`: values, declared and
thrown errors are of different methods).

### routesFlow (`RoutesFlowProofs`)

Proved for any routes, queries, mappers, requests and cache size: `CacheSound`, `MappersGuarded`,
`MethodsInOrder`, and `FlowKeepsChains` for clients whose mappings are told apart (`MappingsApart`).  Assumed:
`FlowAssumption` (a method that runs on errors is no route, manifest entries are entries), `SequenceAssumption`
(the chains of the router, and the routes and mappings of a query, are arrays), `NoneAssumption` (`None` is no
query or mapping) and `ChainsAssumption`: a chain runs each method once, its route at `routeIndex` and in no
other chain, no end middleFn before it, and no method is called `mapping`.  The router builds a chain as start
middleFns, level, end middleFns from items with distinct names (`router.ts:360-375`).

`MappingsApart` is a hypothesis of the theorem and not an assumption of the module, because `flow_index` is about
queries that do not meet it: of the mappings that fit some query, no two have the same id, and no query puts two
into the same parameter.  The first half is the finding; of the second half the code promises nothing, the later
mapper wins.  The queries of `flow` meet both.  Both are said of the readings of the queries.

`CacheSound` says that a cached chain is the one that would be built now for some request with the query's text
(`OwnChainsCached`: for each, if the transform does not look at the request), and it is not inductive: nothing in it
says why a chain that was right stays right.  `IInv` adds for each cached query that its routes are registered,
its mappings fit, their mappers are allowed and present, and the mapping methods it needs are made
(`StillCurrent`).  Each of these only grows until the router is reset, which clears the cache with them, and a
mapping method is never replaced (`Filed`: under an id is a method made for a mapping with that id), so the
merged chain is a function of what does not change (`MergedKept`).  For `MappersGuarded`, a run in progress
keeps a chain whose mappers are all allowed and present (`SoundRun`, `Guarded`) although the cache may drop it
meanwhile.  That the merged chain calls no other method than those of its routes and the inserted ones
(`MergedGuarded`) is an induction over its two loops.

`FlowInv` adds to `IInv` that a running flow has the chain a reading of its query would be merged to now; a reset needs no
flow in flight.  So `MethodsInOrder` is a fact about `Merged`.  The loop over all chains collects each method at
its first occurrence, hence a route after all of its own predecessors that are not in the start list
(`Collected`); flattening has a place for each of them with its mappers behind it (`Layout`, `Spots`); and each
id is called at one place (`OnlyAt`), start and end middleFns included.

`AppliedInv` adds for `MappingsApplied` that a mapping method was made for a mapping of some query (`Sourced`), so
that with `MappingsApart` the method under a mapping's id is that mapping's; and for a flow without errors that
every mapper passed so far whose target the body has parameters for has its result there, made from the output of
its source, and every such route called so far has got the results that were due (`Applied`).  A mapper stands behind its source and, if the source comes
first, before its target (`MapsAsAsked`), and replaces no result but its own.

### Development server (`DevServerProofs`)

Proved for any mapper keys, number of build processes and plugin configurations: `MappersServed`,
`ReadyIsOwn`, and types.  Assumed: `DevServerAssumption` (the constants have their types).

`HarvestInv` says where each mapper of the source is: in this process's harvest or waiting to be reported, in
the harvest of all while the manifest is being written, in the manifest when nothing is waiting and it is not
torn, and in a bundle if it was in the manifest when its build began.  A mapper that a server refuses must be
missing from one of these, and the three are what a harvest, a write and a restart may each disturb.
`ServerInv` numbers the processes: no child of a later one exists, one is started at most once, and the children
that listen are known, so a port that answers is this run's server, that of a child which was alive before, or a
program of somebody else, which `rival` records as well.

### Metadata (`MethodsCatalogueProofs`)

Proved for any servers, methods, types and dependencies: `MetadataUsable`, `OneServerMemory` and
`SteadyMetadata`, from `CatalogueAssumption` (the constants have their types).  What a page holds is usable
because what it gets and what it stored are: the invariant adds that every answer brings the functions of the
methods it describes (`AnswersWhole`) and that every method stored has its functions stored or refused
(`StorageWhole`), which a page cut off while storing keeps because functions are written first.  A function that
was refused is no longer missing once an answer brought it, since memory takes all of an answer.  That only one server's types are
held per method needs the same said of what is served, answered and stored (`OwnInv`).

### Folds and sums (`FoldInduction`)

The models' loops are `FoldLeft` and `MapThenSumSet`, which are chosen recursive functions on sets of indexes or
members.  The library's induction theorems are about predicates, which can not be passed to the provers here;
so the induction is restated over sets, "a set of naturals with 0 and the successor of each member is all of
them", from the least member of what would be missing.  With it the function exists (`FoldExists`,
`SumExists`), a fold takes the elements one by one (`FoldLeftRuns`), and a sum over a finite set loses exactly
what is taken out of it, whichever member the definition takes first (`SumGrows`).

### Only model-checked

- All liveness: it rests on fairness and `ENABLED`, which the provers here do not reach.
- `NeverStuck` of `Client`: it is false of some parameters (section 4, `client_reload`); the run shows it for
  those the optimistic attempt can carry.
- The sorted view of the size rings and `ImplementsWindow`: what the binary search computes and how the two
  shifts keep a sequence sorted.
- The machines of `MCStandalone` other than `SizeStats`.  Most of what they compute is a function of a finite
  description (a file, a type, a table), which the run enumerates.

## 6. Not modelled

The byte encoding of values and generated code (`@ts-runtypes/core`), type reflection itself and its limit on
depth (`MAX_STACK_DEPTH`), names and text of parameters, hash formats, ids of errors, `reconstructHeadersSubset`
(never reached for a remote client), the slicing of a query string and Cloudflare's base path, copying a web
request and response from and onto a socket in the Vercel development server,
monitoring counters, logging and wording, the functions tests use, type-level code other than drizzle's, the
website, scripts, benchmarks and examples.  `PROJECT.json` gives the reason for each component.

## 7. Plan

Done: everything above.  Left: a composition of `Client` with `Dispatch` in place of its one-step server.
