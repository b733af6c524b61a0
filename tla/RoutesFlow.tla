----------------------------- MODULE RoutesFlow -----------------------------
(***************************************************************************)
(* routesFlow requests (router/src/routesFlow.ts): one request that runs   *)
(* several routes, and mappers in between that turn the output of one      *)
(* route into a parameter of another.  The merged chain of a query is      *)
(* cached under the text of the query; the mapper methods are cached under *)
(* an id of their own; which mappers a request may name is decided by the  *)
(* allow-list of core/src/runtypes/serverMappers.ts.                       *)
(*                                                                         *)
(* A query is [routes: sequence of paths, mappings: sequence of            *)
(* [fromId, toId, bodyHash, paramIndex], wellFormed].  The router reads    *)
(* its paths through options.pathTransform, which is given the raw request *)
(* and may answer otherwise for another request with the same query.  A    *)
(* step of a merged chain is [id, mapping], mapping = None for a route or  *)
(* a middleFn.                                                             *)
(* Building a chain is synchronous; each step of a run is awaited, so runs *)
(* of several requests interleave between steps (dispatch.ts:75-101).      *)
(***************************************************************************)
EXTENDS Naturals, Sequences, FiniteSets, SequencesExt

CONSTANTS
  Chains,      \* path -> [methods: sequence of ids, routeIndex, serializer]
  StartIds,    \* ids of startMiddleFns and endMiddleFns: sequences
  EndIds,
  RunOnError,  \* ids of the methods that run after an error
  ParamsCount, \* id -> paramsCount
  DefaultSerializer,
  MaxSize,     \* maxRoutesFlowsCacheSize
  Queries,     \* the queries clients send
  Raws,        \* the raw requests, as far as pathTransform tells them apart
  PathTransform,  \* raw -> path -> the path it stands for in that request
  Keys,        \* the keys of pure functions
  Manifest,    \* the entries the client build may harvest: [key, code]
  Requests,    \* the requests that may be in flight at once
  None

ASSUME FlowAssumption ==
  /\ MaxSize \in Nat
  /\ RunOnError \cap DOMAIN Chains = {}
  /\ \A e \in Manifest : e.key \in Keys /\ e.code \in BOOLEAN

\* what JSON.parse and the router hand over as arrays are sequences
IsSequence(s) == s \in Seq(ToSet(s))

ASSUME SequenceAssumption ==
  /\ IsSequence(StartIds) /\ IsSequence(EndIds)
  /\ \A path \in DOMAIN Chains : IsSequence(Chains[path].methods)
  /\ \A q \in Queries : IsSequence(q.routes) /\ IsSequence(q.mappings)

ASSUME NoneAssumption == None \notin Queries /\ \A q \in Queries : None \notin ToSet(q.mappings)

\* a chain runs each of its methods once, its route at routeIndex and in no other
\* chain, and no end middleFn before it (router.ts:360-375); a mapper is none of them
ASSUME ChainsAssumption ==
  /\ IsInjective(StartIds \o EndIds) /\ "mapping" \notin ToSet(StartIds \o EndIds)
  /\ \A path \in DOMAIN Chains :
       LET own == Chains[path].methods
           at == Chains[path].routeIndex
       IN /\ IsInjective(own) /\ "mapping" \notin ToSet(own)
          /\ at \in DOMAIN own /\ own[at] = path /\ path \notin ToSet(StartIds)
          /\ \A j \in 1 .. at : own[j] \notin ToSet(EndIds)
          /\ \A other \in DOMAIN Chains : path \in ToSet(Chains[other].methods) => other = path

VARIABLES
  registered,  \* the paths that have been registered so far
  cache,       \* routesFlowCache: the queries that are in it -> merged chain
  cacheOrder,  \* cacheOrder
  mapMethods,  \* mappingMethodCache: id -> the mapping its handler was created for
  mappers,     \* [fns: keys of the pure function registry, allowed: allowedMapperKeys]
  reader,      \* whether a manifest reader is installed
  harvested,   \* what the manifest holds
  runs         \* request -> its run

flowCaches == <<cache, cacheOrder, mapMethods>>
lanes == <<reader, harvested>>
vars == <<registered, flowCaches, mappers, lanes, runs>>

NoRun == [query |-> None, chain |-> None, next |-> 1, hasErrors |-> FALSE,
          given |-> {},        \* the ids the request's body has parameters for
          missing |-> FALSE,   \* "not found at runtime"
          params |-> {},       \* what mappers have put into the request's body
          args |-> {}]         \* and what of it the routes were called with

Running(r) == runs[r].query # None

Init ==
  /\ registered = {}
  /\ cache = <<>> /\ cacheOrder = <<>> /\ mapMethods = <<>>
  /\ mappers = [fns |-> {}, allowed |-> {}]
  /\ reader = FALSE /\ harvested = {}
  /\ runs = [r \in Requests |-> NoRun]
-----------------------------------------------------------------------------
(* The mappers a request may name *)

\* registerServerMappers: an entry without code is skipped, unless its function exists
WithEntries(entries, m) ==
  [fns |-> m.fns \cup {e.key : e \in {f \in entries : f.code}},
   allowed |-> m.allowed \cup {e.key : e \in {f \in entries : f.code \/ f.key \in m.fns}}]

\* fault: every function of the shared registry resolves
Ungated(key, m) == key \in m.fns

\* getServerMapper: a key that is not allowed is looked for in the manifest once more
Reread(key, m) == IF key \in m.allowed \/ ~reader THEN m ELSE WithEntries(harvested, m)
GetServerMapper(key, m) == key \in m.allowed /\ key \in m.fns
HasServerMapper(key, m) == GetServerMapper(key, Reread(key, m))
-----------------------------------------------------------------------------
(* buildMergedExecutionChain *)

\* a query as a request puts it: its paths are transformed one by one
Reading(query, raw) ==
  [routes |-> [k \in DOMAIN query.routes |-> PathTransform[raw][query.routes[k]]],
   mappings |-> query.mappings]

Step(id) == [id |-> id, mapping |-> None]
Edges == ToSet(StartIds) \cup ToSet(EndIds)

\* fault: what an earlier route has brought runs again
KeepAll(ids, id) == IF id \in Edges THEN ids ELSE Append(ids, id)

\* a method that was seen, or is added separately, is skipped
AddOnce(ids, id) == IF id \in ToSet(ids) \cup Edges THEN ids ELSE Append(ids, id)

\* the middle methods of all routes, each at its first occurrence
MiddleIds(paths) ==
  FoldLeft(AddOnce, <<>>, FlattenSeq([k \in DOMAIN paths |-> Chains[paths[k]].methods]))

\* the first route's serializer; at each route that disagrees, the default
ResolvedSerializer(paths) ==
  FoldLeft(LAMBDA s, path : IF s = Chains[path].serializer THEN s ELSE DefaultSerializer,
           Chains[paths[1]].serializer, paths)

MappingFits(mapping, ids) ==
  /\ {mapping.fromId, mapping.toId} \subseteq ToSet(ids)
  /\ mapping.paramIndex < ParamsCount[mapping.toId]

MethodId(mapping) == <<mapping.fromId, mapping.bodyHash, mapping.toId>>

\* fault: one method for all mappings
OneMethod(mapping, methods) ==
  [id \in DOMAIN methods \cup {MethodId(mapping)} |-> mapping]

\* createMappingMethod: the method that exists under this id, or a new one
MethodFor(mapping, methods) ==
  IF MethodId(mapping) \in DOMAIN methods THEN methods
  ELSE [id \in DOMAIN methods \cup {MethodId(mapping)} |->
          IF id \in DOMAIN methods THEN methods[id] ELSE mapping]

\* fault: a mapper is taken at its word
InsertedUnseen(s, mapping) ==
  IF ~s.ok \/ ~MappingFits(mapping, s.ids) THEN [s EXCEPT !.ok = FALSE]
  ELSE [s EXCEPT !.methods = MethodFor(mapping, @)]

\* one round of the loop over the mappings; the first that is refused ends it
Insertion(s, mapping) ==
  IF ~s.ok \/ ~MappingFits(mapping, s.ids) THEN [s EXCEPT !.ok = FALSE]
  ELSE [s EXCEPT !.mappers = Reread(mapping.bodyHash, s.mappers),
                 !.ok = HasServerMapper(mapping.bodyHash, s.mappers),
                 !.methods = IF HasServerMapper(mapping.bodyHash, s.mappers)
                               THEN MethodFor(mapping, @) ELSE @]

\* insertMappingMethods: the loop, from the caches as they are
Inserted(query) ==
  FoldLeft(Insertion,
           [ok |-> TRUE, ids |-> MiddleIds(query.routes), mappers |-> mappers, methods |-> mapMethods],
           query.mappings)

MappingStep(mapping, methods) ==
  [id |-> "mapping", mapping |-> methods[MethodId(mapping)]]

\* the mappers of the output of a method, in the order of the query
MappersOf(id, mappings, methods) ==
  FlattenSeq([k \in DOMAIN mappings |->
                IF mappings[k].fromId = id THEN <<MappingStep(mappings[k], methods)>> ELSE <<>>])

\* fault: a mapper runs before its source
MappersFirst(id, mappings, methods) ==
  Append(MappersOf(id, mappings, methods), Step(id))

\* a method, and behind it the mappers of its output; splicing puts the last one first
WithMappers(id, mappings, methods) ==
  <<Step(id)>> \o Reverse(MappersOf(id, mappings, methods))

Merged(query, methods) ==
  LET ids == MiddleIds(query.routes) IN
  [routeIndex |-> Chains[query.routes[1]].routeIndex,
   serializer |-> ResolvedSerializer(query.routes),
   methods |-> [k \in DOMAIN StartIds |-> Step(StartIds[k])]
               \o FlattenSeq([k \in DOMAIN ids |-> WithMappers(ids[k], query.mappings, methods)])
               \o [k \in DOMAIN EndIds |-> Step(EndIds[k])]]

Known(query) == ToSet(query.routes) \subseteq registered
-----------------------------------------------------------------------------
(* getRoutesFlowExecutionChain *)

\* fault: the oldest query leaves the order and stays in the map
ForgetsMap(query, chain) ==
  LET over == IF Len(cacheOrder) >= MaxSize THEN Len(cacheOrder) - MaxSize + 1 ELSE 0
  IN /\ cache' = [q \in DOMAIN cache \cup {query} |-> IF q = query THEN chain ELSE cache[q]]
     /\ cacheOrder' = Append(SubSeq(cacheOrder, over + 1, Len(cacheOrder)), query)

\* addToRoutesFlowCache: the oldest queries make room
AddToCache(query, chain) ==
  LET over == IF Len(cacheOrder) >= MaxSize THEN Len(cacheOrder) - MaxSize + 1 ELSE 0
      evicted == ToSet(SubSeq(cacheOrder, 1, over))
  IN IF MaxSize = 0 THEN UNCHANGED <<cache, cacheOrder>>
     ELSE /\ cache' = [q \in (DOMAIN cache \ evicted) \cup {query} |->
                          IF q = query THEN chain ELSE cache[q]]
          /\ cacheOrder' = Append(SubSeq(cacheOrder, over + 1, Len(cacheOrder)), query)

StartRun(r, query, chain, given) ==
  runs' = [runs EXCEPT ![r] = [NoRun EXCEPT !.query = query, !.chain = chain, !.given = given]]

\* the request ends with the error: dispatchRoute answers it before any method runs
Refuse(r) == runs' = [runs EXCEPT ![r] = NoRun]

\* the key is the text of the query: the chain may have been built for another request
Hit(r, query, given) ==
  /\ query.wellFormed /\ query.routes # <<>> /\ query \in DOMAIN cache
  /\ StartRun(r, query, cache[query], given)
  /\ UNCHANGED <<registered, flowCaches, mappers, lanes>>

\* no query, no base64url JSON, a shape that is not RoutesFlowQuery, no routes, an unknown route
RefuseQuery(r, query, flow) ==
  /\ query \notin DOMAIN cache
  /\ ~query.wellFormed \/ query.routes = <<>> \/ ~Known(flow)
  /\ Refuse(r)
  /\ UNCHANGED <<registered, flowCaches, mappers, lanes>>

Build(r, query, flow, given) ==
  /\ query.wellFormed /\ query.routes # <<>> /\ query \notin DOMAIN cache /\ Known(flow)
  /\ LET inserted == Inserted(flow)
         chain == Merged(flow, inserted.methods)
     IN /\ mappers' = inserted.mappers
        /\ mapMethods' = inserted.methods
        /\ IF inserted.ok
             THEN AddToCache(query, chain) /\ StartRun(r, query, chain, given)
             ELSE Refuse(r) /\ UNCHANGED <<cache, cacheOrder>>
  /\ UNCHANGED <<registered, lanes>>

\* getExecutionChain of a request to the routesFlow path; its body may lack
\* parameters of a target
Begin(r, query, raw) ==
  /\ ~Running(r)
  /\ \E given \in SUBSET {m.toId : m \in ToSet(query.mappings)} :
       \/ Hit(r, query, given)
       \/ RefuseQuery(r, query, Reading(query, raw))
       \/ Build(r, query, Reading(query, raw), given)
-----------------------------------------------------------------------------
(* runExecutionChain, a step at a time *)

Method(r) == runs[r].chain.methods[runs[r].next]
Unfinished(r) == Running(r) /\ runs[r].next <= Len(runs[r].chain.methods)
Skipped(r) == runs[r].hasErrors /\ Method(r).id \notin RunOnError
Advance(r, run) == runs' = [runs EXCEPT ![r] = [run EXCEPT !.next = @ + 1]]

Skip(r) ==
  /\ Unfinished(r) /\ Skipped(r)
  /\ Advance(r, runs[r])
  /\ UNCHANGED <<registered, flowCaches, mappers, lanes>>

\* a route or a middleFn is called with its params; it may fail
RunMethod(r, fails) ==
  /\ Unfinished(r) /\ ~Skipped(r) /\ Method(r).mapping = None
  /\ Advance(r, [runs[r] EXCEPT !.args = @ \cup {p \in runs[r].params : p.to = Method(r).id},
                                !.hasErrors = @ \/ fails])
  /\ UNCHANGED <<registered, flowCaches, mappers, lanes>>

\* what a mapper makes, of the output of its source if there is one
Mapped(mapping, hasOutput) ==
  [to |-> mapping.toId, index |-> mapping.paramIndex, from |-> mapping.fromId,
   by |-> mapping.bodyHash, ofOutput |-> hasOutput]

\* where the body has no parameters for the target, the value is dropped.  (A list that
\* restoring makes for a target when it runs is read by no later call, and left out.)
Replaced(run, param) ==
  IF param.to \notin run.given THEN run.params
  ELSE {p \in run.params : <<p.to, p.index>> # <<param.to, param.index>>} \cup {param}

HasRun(r, id) == \E k \in 1 .. runs[r].next - 1 : runs[r].chain.methods[k] = Step(id)

\* createMappingHandler: the key is looked up again, the mapper called, the param replaced
RunMapping(r, fails) ==
  /\ Unfinished(r) /\ ~Skipped(r) /\ Method(r).mapping # None
  /\ LET mapping == Method(r).mapping IN
       /\ mappers' = Reread(mapping.bodyHash, mappers)
       /\ IF ~HasServerMapper(mapping.bodyHash, mappers)
            THEN Advance(r, [runs[r] EXCEPT !.hasErrors = TRUE, !.missing = TRUE])
          ELSE IF fails THEN Advance(r, [runs[r] EXCEPT !.hasErrors = TRUE])
          ELSE Advance(r, [runs[r] EXCEPT !.params = Replaced(runs[r], Mapped(mapping, HasRun(r, mapping.fromId)))])
  /\ UNCHANGED <<registered, flowCaches, lanes>>

\* the response is sent; the slot is free for another request
Finish(r) ==
  /\ Running(r) /\ ~Unfinished(r)
  /\ runs' = [runs EXCEPT ![r] = NoRun]
  /\ UNCHANGED <<registered, flowCaches, mappers, lanes>>
-----------------------------------------------------------------------------
(* The program around it *)

\* registerRoutes has filed a chain (RouterRegistry)
RegisterRoute(path) ==
  /\ path \notin registered
  /\ registered' = registered \cup {path}
  /\ UNCHANGED <<flowCaches, mappers, lanes, runs>>

\* registerPureFn, addSerializedJitCaches: a function of the registry nobody allowed
RegisterPureFn(key) ==
  /\ key \notin mappers.fns
  /\ mappers' = [mappers EXCEPT !.fns = @ \cup {key}]
  /\ UNCHANGED <<registered, flowCaches, lanes, runs>>

AllowServerMapper(key) ==
  /\ mappers' = [mappers EXCEPT !.allowed = @ \cup {key}]
  /\ UNCHANGED <<registered, flowCaches, lanes, runs>>

RegisterServerMapperTuple(key) ==
  /\ mappers' = [fns |-> mappers.fns \cup {key}, allowed |-> mappers.allowed \cup {key}]
  /\ UNCHANGED <<registered, flowCaches, lanes, runs>>

\* the client build goes on while the development server runs
Harvest(entry) ==
  /\ entry \notin harvested
  /\ harvested' = harvested \cup {entry}
  /\ UNCHANGED <<registered, flowCaches, mappers, reader, runs>>

InstallServerMapperReader ==
  /\ reader' = TRUE
  /\ mappers' = WithEntries(harvested, mappers)
  /\ UNCHANGED <<registered, flowCaches, harvested, runs>>

\* fault: clearRoutesFlowCache is forgotten
KeepCaches == UNCHANGED flowCaches

ClearRoutesFlowCache ==
  /\ cache' = <<>> /\ cacheOrder' = <<>> /\ mapMethods' = <<>>

\* resetRouter, with no request in flight
ResetRouter ==
  /\ \A r \in Requests : runs[r] = NoRun
  /\ registered' = {}
  /\ ClearRoutesFlowCache
  /\ UNCHANGED <<mappers, lanes, runs>>

RequestStep(r) ==
  Skip(r) \/ (\E fails \in BOOLEAN : RunMethod(r, fails) \/ RunMapping(r, fails)) \/ Finish(r)

Next ==
  \/ \E r \in Requests : (\E q \in Queries, raw \in Raws : Begin(r, q, raw)) \/ RequestStep(r)
  \/ \E path \in DOMAIN Chains : RegisterRoute(path)
  \/ \E key \in Keys : RegisterPureFn(key) \/ AllowServerMapper(key) \/ RegisterServerMapperTuple(key)
  \/ \E entry \in Manifest : Harvest(entry)
  \/ InstallServerMapperReader
  \/ ResetRouter

Spec == Init /\ [][Next]_vars
-----------------------------------------------------------------------------
Place(chain, id) == CHOOSE k \in DOMAIN chain.methods : chain.methods[k] = Step(id)

TypeOK ==
  /\ registered \subseteq DOMAIN Chains
  /\ mappers.fns \subseteq Keys /\ mappers.allowed \subseteq Keys
  /\ reader \in BOOLEAN /\ harvested \subseteq Manifest
  /\ \A id \in DOMAIN mapMethods : MethodId(mapMethods[id]) = id
  /\ \A r \in Requests : Running(r) => runs[r].next \in 1 .. Len(runs[r].chain.methods) + 1

\* The map and the eviction order speak of the same queries, each once, and of no
\* more of them than maxRoutesFlowsCacheSize (routesFlow.ts:52-64).
CacheInOrder ==
  /\ IsInjective(cacheOrder)
  /\ ToSet(cacheOrder) = DOMAIN cache
  /\ Len(cacheOrder) <= MaxSize

\* what the requests may make of a query
Readings(query) == {Reading(query, raw) : raw \in Raws}

\* the chain is the one that would be built for the flow now
Current(flow, chain) == Known(flow) /\ Inserted(flow).ok /\ chain = Merged(flow, mapMethods)

\* A cached chain is the one some request with its query would get if it were built
\* now, whatever has been registered, allowed, evicted or reset since.  Which request,
\* the cache does not remember: the key is the text of the query, and the transform may
\* read the same text otherwise (routesFlow.ts:165-172,206).
CachedChainCurrent == \A q \in DOMAIN cache : \E flow \in Readings(q) : Current(flow, cache[q])

\* every route once, each after the middleFns its own chain puts before it, inside
\* one round of the start and end middleFns
Ordered(paths, chain) ==
  LET ids == [k \in DOMAIN chain.methods |-> chain.methods[k].id]
      From(id) == {k \in DOMAIN ids : ids[k] = id}
  IN /\ \A path \in ToSet(paths) : \A id \in ToSet(Chains[path].methods) : Cardinality(From(id)) = 1
     /\ IsPrefix(StartIds, ids) /\ IsSuffix(EndIds, ids)
     /\ \A k \in DOMAIN paths :
          LET own == Chains[paths[k]].methods
              at == Chains[paths[k]].routeIndex
          IN \A j \in 1 .. at - 1 : Place(chain, own[j]) < Place(chain, own[at])

\* A flow runs the routes of its query, as some request puts them and whatever they
\* have in common, as each of them would be run alone (routesFlow.ts:176-186).
MethodsInOrder ==
  \A r \in Requests : Running(r) =>
    \E flow \in Readings(runs[r].query) : Ordered(flow.routes, runs[r].chain)

\* What a mapper is to put into a parameter is there when the route is called: of
\* every mapping whose source comes before its target, once both have run, and whose
\* target the body has parameters for.
MappingsApplied ==
  \A r \in Requests : Running(r) /\ ~runs[r].hasErrors =>
    \A k \in DOMAIN runs[r].query.mappings :
      LET mapping == runs[r].query.mappings[k]
          chain == runs[r].chain
      IN /\ Place(chain, mapping.fromId) < Place(chain, mapping.toId)
         /\ HasRun(r, mapping.toId) /\ mapping.toId \in runs[r].given
         => Mapped(mapping, TRUE) \in runs[r].args

\* However the chains of a query are merged and the mappers spliced in: both hold.
FlowKeepsChains == MethodsInOrder /\ MappingsApplied

\* No parameter is ever made by a function that no mapper lane opted in, though all
\* functions share one registry (serverMappers.ts:56-75).
OnlyAllowedMappers ==
  \A r \in Requests : \A p \in runs[r].params : p.by \in mappers.allowed

\* A mapper that was there when the chain was built, or cached, is there when it is
\* run: no request fails with "not found at runtime" (routesFlow.ts:369-376).
MapperStillThere == \A r \in Requests : ~runs[r].missing

\* A chain taken from the cache is as good as a new one, of the request it was built
\* for or one whose paths read the same, and the cache stays bounded
\* (routesFlow.ts:46-68,120-172).
CacheSound == TypeOK /\ CacheInOrder /\ CachedChainCurrent

\* A mapper that runs is one that was allowed, and one that was promised is there
\* (serverMappers.ts:56-108, routesFlow.ts:345-389).
MappersGuarded == OnlyAllowedMappers /\ MapperStillThere
=============================================================================
