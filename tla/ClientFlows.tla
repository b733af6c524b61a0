---------------------------- MODULE ClientFlows ----------------------------
(***************************************************************************)
(* What a page does with the client's subrequests (packages/client/src:    *)
(* subRequest.ts, routesFlow.ts, client.ts, request.ts and lib/): objects  *)
(* that are made once, given to calls, flows and prefills in any order,    *)
(* and shared by the calls they are in; references to the result of        *)
(* another route among their parameters; the registry of handlers.         *)
(* How one call fetches metadata and prefills wait is in module Client.    *)
(***************************************************************************)
EXTENDS Naturals, Sequences, FiniteSets, SequencesExt, TLC

CONSTANTS
  FlowChains,    \* route -> the middleFnIds of its metadata
  QueryRoutes,   \* routes that change nothing: isMutation is false
  Outcomes,      \* what servers answer: id -> void | value | declared | validation | thrown
  Events,        \* the events pages may listen to: <<middleFn, error type or success>>
  MaxCalls, MaxMoves  \* bounds: calls, and with them operations on handlers and prefills

VARIABLE page

FlowRoutes == DOMAIN FlowChains
Listeners == UNION {FlowChains[r] : r \in FlowRoutes}
AllIds == FlowRoutes \cup Listeners

NotThere == "not there"
ErrorTypes == {"declared", "validation"}

\* subs: what was made; refs: what stands for results; errorHandlers and successHandlers:
\* the registry; quiet: the ids whose handlers the page has given up; mayCall: the calls
\* it makes; cached: routesCache; fits: whether its queries fit into a URL
Page(mayCall, cached, fits) ==
  [subs |-> <<>>, refs |-> <<>>, threw |-> FALSE, mayCall |-> mayCall, cached |-> cached, fits |-> fits, moves |-> 0,
   errorHandlers |-> {}, successHandlers |-> {}, quiet |-> {},
   prefilled |-> [id \in Listeners |-> 0], calls |-> <<>>]
-----------------------------------------------------------------------------
(* Making subrequests: MethodProxy, MionSubRequest, serverMapFrom *)

\* fault: a name in the place of the hash is taken for a key
RefusesLess(how) == how \in {"no name", "no hash"}

\* serverMapFrom throws: no name, no hash from the build, or the name where it once was
Refuses(how) == how \in {"no name", "no hash", "legacy"}

Namespace(how) == CASE how = "name" -> "mionjs" [] how = "inline" -> "rt" [] OTHER -> "none"

MadeRef(p, d) ==
  IF Refuses(d.how) THEN [p EXCEPT !.threw = TRUE]
  ELSE LET ref == [namespace |-> Namespace(d.how), from |-> p.subs[d.of].id, to |-> NotThere, index |-> 0]
       IN [p EXCEPT !.refs = @ @@ (d.name :> ref)]

\* parameters: "good", "bad", or the name of a reference
RefsAt(args, r) == {k \in DOMAIN args : args[k] = r}

\* the constructor of a subrequest leaves null in the place of a reference, and writes
\* the place into the reference
Placed(ref, id, args, r) ==
  IF RefsAt(args, r) = {} THEN ref ELSE [ref EXCEPT !.to = id, !.index = Max(RefsAt(args, r))]

MadeSub(p, d) ==
  LET given == {k \in DOMAIN d.args : d.args[k] \in DOMAIN p.refs}
      sub == [id |-> d.id, client |-> d.client, resolved |-> FALSE, value |-> 0, error |-> FALSE,
              params |-> [k \in DOMAIN d.args |-> IF k \in given THEN "null" ELSE d.args[k]],
              mappings |-> SelectSeq(d.args, LAMBDA a : a \in DOMAIN p.refs)]
  IN [p EXCEPT !.subs = Append(@, sub),
               !.refs = [r \in DOMAIN @ |-> Placed(@[r], d.id, d.args, r)]]

DeclaredIn(p, d) == IF p.threw THEN p ELSE IF d.kind = "ref" THEN MadeRef(p, d) ELSE MadeSub(p, d)

\* a page that makes what it uses first
PageInit(declarations, mayCall, cached, fits) == page = FoldLeft(DeclaredIn, Page(mayCall, cached, fits), declarations)
-----------------------------------------------------------------------------
(* Handlers and prefills *)

Move(p) == page.moves < MaxMoves /\ ~page.threw /\ page' = [p EXCEPT !.moves = @ + 1]

\* the registry holds one handler for an error of a middleFn, and one for its success
RegisterError(p, e) == [p EXCEPT !.errorHandlers = @ \cup {e}]
UnregisterError(p, e) == [p EXCEPT !.errorHandlers = @ \ {e}]
RegisterSuccess(p, id) == [p EXCEPT !.successHandlers = @ \cup {id}]
UnregisterSuccess(p, id) == [p EXCEPT !.successHandlers = @ \ {id}]

\* onError, onSuccess, offError, offSuccess
TypedEvent(p, e, on) ==
  CASE on /\ e[2] # "success" -> RegisterError(p, e)
    [] on /\ e[2] = "success" -> RegisterSuccess(p, e[1])
    [] ~on /\ e[2] # "success" -> UnregisterError(p, e)
    [] ~on /\ e[2] = "success" -> UnregisterSuccess(p, e[1])

Listen(e) == Move(TypedEvent([page EXCEPT !.quiet = @ \ {e[1]}], e, TRUE))
Ignore(e) == Move(TypedEvent(page, e, FALSE))

\* fault: only the handlers of errors are cleared
ClearedErrors(p, id) == [p EXCEPT !.errorHandlers = {h \in @ : h[1] # id}]

\* clearHandlers
Cleared(p, id) == [p EXCEPT !.errorHandlers = {h \in @ : h[1] # id}, !.successHandlers = @ \ {id}]

ClearedAll(p) == [p EXCEPT !.errorHandlers = {}, !.successHandlers = {}]

BadParams(sub) == \E k \in DOMAIN sub.params : sub.params[k] = "bad"

\* params with references are left to the server; nothing is checked twice
FailsLocally(sub) == ~sub.error /\ ~sub.resolved /\ sub.mappings = <<>> /\ BadParams(sub)

\* storePrefilledMiddleFns, removePrefilledMiddleFns: routes cannot be prefilled
StorePrefill(p, n) == IF p.subs[n].id \in Listeners THEN [p EXCEPT !.prefilled[p.subs[n].id] = n] ELSE p
DropPrefill(p, n) == [p EXCEPT !.prefilled[p.subs[n].id] = 0]

\* prefill(): the subrequest itself is kept, unless it was used before or has bad
\* parameters, which uses it up
PrefillSub(n) ==
  LET sub == page.subs[n] IN
  /\ ~sub.resolved
  /\ Move(IF FailsLocally(sub) THEN [page EXCEPT !.subs[n].resolved = TRUE, !.subs[n].error = TRUE]
          ELSE StorePrefill(page, n))

\* removePrefill(): the handlers go as well, even if the subrequest cannot be added
RemovePrefillOf(n) ==
  LET sub == page.subs[n]
      silent == Cleared([page EXCEPT !.quiet = @ \cup {sub.id}], sub.id)
  IN /\ sub.id \in Listeners
     /\ Move(IF sub.resolved THEN silent ELSE DropPrefill(silent, n))

\* destroy(): every handler, and every call under way
Destroy ==
  Move(ClearedAll([page EXCEPT !.quiet = Listeners, !.calls = [k \in DOMAIN @ |-> [@[k] EXCEPT !.aborted = TRUE]]]))
-----------------------------------------------------------------------------
(* Making a call: routesFlow(), call(), MionClientRequest *)

Sub(n) == page.subs[n]
IdsOf(ns) == [k \in DOMAIN ns |-> Sub(ns[k]).id]

\* fault: references are looked up where they came from
QueryBySource(routes) ==
  LET refs == FlattenSeq([k \in DOMAIN routes |-> Sub(routes[k]).mappings])
  IN [routes |-> IdsOf(routes),
      mappings |-> [j \in DOMAIN refs |-> [page.refs[refs[j]] EXCEPT !.to = page.refs[refs[j]].from]]]

\* buildRoutesFlowQuery: the references of all routes, as they are by now
QueryOf(routes) ==
  LET refs == FlattenSeq([k \in DOMAIN routes |-> Sub(routes[k]).mappings])
  IN [routes |-> IdsOf(routes), mappings |-> [j \in DOMAIN refs |-> page.refs[refs[j]]]]

NoQuery == [routes |-> <<>>, mappings |-> <<>>]

\* subRequestList: one entry for an id, the last one added; copies hold their own state
Entry(n, copy) == [sub |-> n, copy |-> copy]
EntriesOf(ns) ==
  [id \in ToSet(IdsOf(ns)) |-> Entry(ns[Max({k \in DOMAIN ns : Sub(ns[k]).id = id})], FALSE)]

NewCall(via, routes, named) ==
  [at |-> "made", via |-> via, routes |-> routes, named |-> named, list |-> EntriesOf(routes \o named),
   query |-> IF via = "call" THEN NoQuery ELSE QueryOf(routes),
   data |-> IF via = "call" THEN "none" ELSE "query", optimistic |-> FALSE, aborted |-> FALSE,
   how |-> "none", answer |-> <<>>, values |-> {}, errors |-> {}, fatal |-> {}, heard |-> {}, result |-> <<>>]

\* fault: a flow that only reads is a query as well
QueryIfAllRead(call) == \A k \in DOMAIN call.routes : Sub(call.routes[k]).id \in QueryRoutes

\* isQueryRoute
IsQuery(call) == call.via = "call" /\ Sub(call.routes[1]).id \in QueryRoutes

\* buildFetchOptions: the body of a query goes into the URL if it fits there
Fetched(call) ==
  IF IsQuery(call) /\ ~call.optimistic /\ page.fits THEN [call EXCEPT !.data = "body"] ELSE call

\* fault: what was prefilled comes back as it is
RestoredAsIs(p, call) ==
  LET ids == UNION {FlowChains[id] : id \in {Sub(call.routes[k]).id : k \in DOMAIN call.routes} \cap p.cached}
      missing == {id \in ids \ DOMAIN call.list : p.prefilled[id] # 0}
  IN [call EXCEPT !.list = @ @@ [id \in missing |-> Entry(p.prefilled[id], FALSE)]]

\* restorePrefilledMiddleFns, of all the routes: copies of what was prefilled
RestoredIn(p, call) ==
  LET ids == UNION {FlowChains[id] : id \in {Sub(call.routes[k]).id : k \in DOMAIN call.routes} \cap p.cached}
      missing == {id \in ids \ DOMAIN call.list : p.prefilled[id] # 0}
  IN [call EXCEPT !.list = @ @@ [id \in missing |-> Entry(p.prefilled[id], TRUE)]]

SubsOf(call, ids) == {call.list[id].sub : id \in {i \in ids \cap DOMAIN call.list : ~call.list[i].copy}}
-----------------------------------------------------------------------------
(* Settling a call: processMiddleFnsResponses, buildResult *)

RouteIdsOf(call) == {Sub(call.routes[k]).id : k \in DOMAIN call.routes}
MiddleFnsOf(call) == DOMAIN call.list \ RouteIdsOf(call)

\* fault: what was thrown is heard of and put in the slots as well
ErrorsIn(o) == {<<id, IF o[id] = "thrown" THEN "declared" ELSE o[id]>> : id \in {i \in DOMAIN o : o[i] \in ErrorTypes \cup {"thrown"}}}

\* the typed errors of the request: what was declared, or refused by a validation
TypedErrors(o) == {<<id, o[id]>> : id \in {i \in DOMAIN o : o[i] \in ErrorTypes}}

Failing(call) == {e[1] : e \in call.errors} \cup call.fatal

\* the value of a middleFn is its copy's, or its subrequest's
HasValue(p, call, id) == IF call.list[id].copy THEN id \in call.values ELSE p.subs[call.list[id].sub].value # 0

\* executeHandler, executeSuccessHandler
ErrorsHeard(p, events) == events \cap p.errorHandlers
SuccessHeard(p, ids) == {<<id, "success">> : id \in ids \cap p.successHandlers}

HeardIn(p, call) ==
  ErrorsHeard(p, {e \in call.errors : e[1] \in MiddleFnsOf(call)})
  \cup SuccessHeard(p, {id \in MiddleFnsOf(call) \ Failing(call) : HasValue(p, call, id)})

\* the slots of the routes, in their order
SlotsIn(p, call) ==
  [k \in DOMAIN call.routes |->
     [value |-> p.subs[call.routes[k]].value,
      error |-> {e[2] : e \in {x \in call.errors : x[1] = Sub(call.routes[k]).id}}]]

SettledIn(p, k, call) ==
  [p EXCEPT !.calls[k] = [call EXCEPT !.at = "settled", !.heard = HeardIn(p, call), !.result = SlotsIn(p, call)]]

\* what has an error is resolved, and may not be used again
RefusedSubs(p, ns) ==
  [p EXCEPT !.subs = [n \in DOMAIN @ |-> IF n \in ns THEN [@[n] EXCEPT !.resolved = TRUE, !.error = TRUE] ELSE @[n]]]

\* makeCall until the request is out: plain JSON while metadata is missing, or what
\* the metadata says is checked first
Prepare(p, k, call) ==
  LET restored == RestoredIn(p, [call EXCEPT !.optimistic = ~(DOMAIN call.list \subseteq p.cached)])
      bad == {id \in DOMAIN restored.list : ~restored.list[id].copy /\ FailsLocally(p.subs[restored.list[id].sub])}
  IN IF ~restored.optimistic /\ bad # {}
       THEN SettledIn(RefusedSubs(p, SubsOf(restored, bad)), k,
                  [restored EXCEPT !.how = "refused", !.errors = {<<id, "validation">> : id \in bad}])
       ELSE [p EXCEPT !.calls[k] = Fetched([restored EXCEPT !.at = "sent"])]

\* routesFlow() wants subrequests, all of them of one client
OneClient(routes) == routes # <<>> /\ \A k \in DOMAIN routes : Sub(routes[k]).client = Sub(routes[1]).client

\* a subrequest that is resolved cannot be added: the call rejects
Reused(ns) == \E k \in DOMAIN ns : Sub(ns[k]).resolved

StartCall(via, routes, named) ==
  LET k == Len(page.calls) + 1
      call == NewCall(via, routes, named)
      started(c) == [page EXCEPT !.moves = @ + 1, !.calls = Append(@, c)]
  IN /\ ~page.threw /\ k <= MaxCalls /\ page.moves < MaxMoves
     /\ Sub(routes[1]).client = "own"
     /\ via = "call" => Len(routes) = 1
     /\ via = "flow" => OneClient(routes)
     /\ page' = IF Reused(routes \o named) THEN started([call EXCEPT !.at = "rejected"])
                ELSE Prepare(started(call), k, call)
-----------------------------------------------------------------------------
(* The answer *)

Asked(call) == RouteIdsOf(call) \cup UNION {FlowChains[id] : id \in RouteIdsOf(call)}
Under(call) == call.at = "sent"

\* retryWithProperSerialization: everything the request holds is as if never sent
Reset(p, call) ==
  LET ns == SubsOf(call, DOMAIN call.list)
  IN [p EXCEPT !.subs = [n \in DOMAIN @ |-> IF n \in ns THEN [@[n] EXCEPT !.resolved = FALSE, !.value = 0, !.error = FALSE] ELSE @[n]]]

\* resolveSubRequests
ResolveSubRequests(p, k, call, o) ==
  LET typed == {e \in TypedErrors(o) : e[1] \in DOMAIN call.list}
      nobodys == {id \in DOMAIN o : \/ o[id] = "thrown"
                                    \/ o[id] \in ErrorTypes /\ id \notin DOMAIN call.list}
      values == {id \in DOMAIN call.list \cap DOMAIN o : o[id] = "value"}
      failing == {e[1] : e \in typed} \cup nobodys
      after(sub) == [sub EXCEPT !.resolved = TRUE, !.error = @ \/ sub.id \in failing,
                                !.value = CASE sub.id \in values -> k [] sub.id \in failing -> @ [] OTHER -> 0]
      ns == SubsOf(call, DOMAIN call.list)
  IN SettledIn([p EXCEPT !.subs = [n \in DOMAIN @ |-> IF n \in ns THEN after(@[n]) ELSE @[n]]], k,
           [call EXCEPT !.how = "answered", !.answer = o, !.values = values, !.errors = typed, !.fatal = nobodys])

\* what plain JSON got wrong is sent again, by the metadata that came with the answer
Answered(k, outcome) ==
  LET call == page.calls[k]
      o == [id \in Asked(call) |-> outcome[id]]
      known == [page EXCEPT !.cached = AllIds]
  IN /\ Under(call) /\ ~call.aborted
     /\ page' = IF call.optimistic /\ \E id \in DOMAIN o : o[id] = "validation"
                  THEN Prepare(Reset(known, call), k, call)
                  ELSE ResolveSubRequests(known, k, call, o)

\* the network, or an abort: the subrequests may be used again
CallFails(k) ==
  LET call == page.calls[k] IN
  Under(call) /\ page' = SettledIn(page, k, [call EXCEPT !.how = "failed", !.fatal = {"mion-client-request"}])

\* handlePlatformError: they may not
PlatformAnswers(k) ==
  LET call == page.calls[k]
      ns == SubsOf(call, DOMAIN call.list)
      spent == [page EXCEPT !.subs = [n \in DOMAIN @ |-> IF n \in ns THEN [@[n] EXCEPT !.resolved = TRUE] ELSE @[n]]]
  IN /\ Under(call) /\ ~call.aborted
     /\ page' = SettledIn(spent, k, [call EXCEPT !.how = "platform", !.fatal = {"mion-client-request"}])

PageNext ==
  \/ \E e \in Events : Listen(e) \/ Ignore(e)
  \/ \E n \in DOMAIN page.subs : PrefillSub(n) \/ RemovePrefillOf(n)
  \/ Destroy
  \/ \E c \in page.mayCall : StartCall(c.via, c.routes, c.named)
  \/ \E k \in DOMAIN page.calls :
       \/ \E outcome \in Outcomes : Answered(k, outcome)
       \/ CallFails(k) \/ PlatformAnswers(k)
-----------------------------------------------------------------------------
Uses(r) == Cardinality(UNION {{<<n, k>> : k \in RefsAt(Sub(n).mappings, r)} : n \in DOMAIN page.subs})

\* In a flow of different routes every null that stands for a result has one mapping
\* that fills it, from the route it was made of and by a key servers look up, as long
\* as no reference was given to two subrequests (routesFlow.ts:78-125,
\* subRequest.ts:37-45, request.ts:568-589).
PlaceholdersFilled ==
  \A c \in DOMAIN page.calls : LET call == page.calls[c]
                                   maps == ToSet(call.query.mappings) IN
    call.via # "call" /\ IsInjective(IdsOf(call.routes)) =>
      /\ \A m \in maps : m.namespace \in {"mionjs", "rt"}
      /\ \A i \in DOMAIN call.routes : LET sub == Sub(call.routes[i]) IN
           (\A j \in DOMAIN sub.mappings : Uses(sub.mappings[j]) = 1) =>
             \A x \in DOMAIN sub.params : sub.params[x] = "null" =>
               \E j \in DOMAIN sub.mappings :
                 {m \in maps : m.to = sub.id /\ m.index = x} = {page.refs[sub.mappings[j]]}

\* The query of a flow is what the server finds in its URL (request.ts:437-492).
QueryArrives == \A c \in DOMAIN page.calls : page.calls[c].via # "call" => page.calls[c].data = "query"

Own(call) == ToSet(call.routes \o call.named)
Alone(c) ==
  \A d \in DOMAIN page.calls \ {c} :
    SubsOf(page.calls[c], AllIds) \cap SubsOf(page.calls[d], AllIds) = {}

\* Each slot of a settled flow holds what the server said of its own route and
\* nothing of another, and handlers hear of middleFns what was declared or returned,
\* for calls that share no subrequest (client.ts:172-274, request.ts:249-278).
SlotsOfTheirOwn ==
  \A c \in DOMAIN page.calls : LET call == page.calls[c]
                                   o == call.answer IN
    call.at = "settled" /\ call.how = "answered" /\ Alone(c) =>
      /\ \A i \in DOMAIN call.routes : LET id == Sub(call.routes[i]).id IN
           /\ call.result[i].error = {o[id]} \cap ErrorTypes
           /\ (call.result[i].value = c) = (o[id] = "value" /\ call.list[id].sub = call.routes[i])
      /\ (call.fatal # {}) =
           (\E id \in DOMAIN o : o[id] = "thrown" \/ (o[id] \in ErrorTypes /\ id \notin DOMAIN call.list))
      /\ \A h \in call.heard : h[1] \in DOMAIN o /\ o[h[1]] = (IF h[2] = "success" THEN "value" ELSE h[2])

\* A subrequest is used up only by what the page did with it: a call it was given to
\* that got an answer, or a check its parameters failed.  A prefill serves every call
\* after it, and a call that failed can be made again (request.ts:224-227, 372-408).
SpentByOwn ==
  \A n \in DOMAIN page.subs :
    Sub(n).resolved => \/ BadParams(Sub(n))
                       \/ \E c \in DOMAIN page.calls : /\ n \in Own(page.calls[c])
                                                       /\ page.calls[c].how \in {"answered", "refused", "platform"}

\* No handler is left of a middleFn whose prefill was removed, or after destroy()
\* (subRequest.ts:83-86, client.ts:298-301, lib/handlersRegistry.ts:78-87).
QuietAfterRemoval ==
  \A id \in page.quiet : id \notin page.successHandlers /\ \A h \in page.errorHandlers : h[1] # id

\* What a page may rely on, in whatever order it makes, shares and calls
\* (subRequest.ts:29-118, routesFlow.ts:16-125, request.ts:224-589).
PagesAgree == PlaceholdersFilled /\ QueryArrives /\ SlotsOfTheirOwn /\ SpentByOwn /\ QuietAfterRemoval
=============================================================================
