------------------------------- MODULE Client -------------------------------
(***************************************************************************)
(* The client (packages/client/src): calls of routes that run while their  *)
(* metadata is still being fetched, middleFns prefilled once for all later *)
(* calls, and the 5-tuple every call settles with.                         *)
(*                                                                         *)
(* A call first tries "optimistically": with plain JSON, and the metadata  *)
(* of all it uses asked for in the same request; once the metadata is in   *)
(* memory a call validates locally and encodes by the compiled functions.  *)
(* Parameters are told apart by what becomes of them:                      *)
(*   plain  - plain JSON and the compiled encoding are the same            *)
(*   rich   - plain JSON does not survive the server's validation (a Map)  *)
(*   bigint - JSON.stringify throws                                        *)
(*   bad    - refused by any validation                                    *)
(* Which of the compiled encodings a body gets, JSON or binary, GET or     *)
(* POST, is left out.  A handler may itself give an error of a type that   *)
(* the client takes for a refusal of its plain JSON:                       *)
(*   claims  - it returns a validation or a serialization error            *)
(*   invalid - it throws a validation error, as the router does            *)
(*   unread  - it throws a serialization or a parsing error                *)
(* The server is the one of module Dispatch, seen from outside: what one   *)
(* execution chain does to one request.                                    *)
(***************************************************************************)
EXTENDS Naturals, Sequences, FiniteSets, SequencesExt

CONSTANTS
  Calls,       \* the calls a page makes
  Ops,         \* prefill() and typeErrors() operations that may be under way
  Chains,      \* route -> the ids of its execution chain
  Public,      \* the ids clients may name
  Required,    \* ids whose parameters may not be left out
  RunOnError,  \* ids that run after an error
  Known,       \* the ids the server has
  Setups,      \* what programs call: [route, params: id -> quality]
  OpSetups,    \* what they prefill or check: [kind, id, quality]
  Behaviours,  \* what handlers may do: id -> void | value | declared | claims | throws | unread | invalid
  MayReload,   \* whether the page is loaded anew, its storage kept
  Meta, Request, None  \* MION_ROUTES.methodsMetadata, CLIENT_REQUEST_ERROR_ID

ASSUME ClientAssumption ==
  /\ DOMAIN Chains \cap RunOnError = {}
  /\ \A s \in Setups : s.route \in DOMAIN s.params /\ DOMAIN s.params \subseteq Public
  /\ \A s \in OpSetups : s.kind \in {"prefill", "typeErrors"} /\ s.id \in Public
  /\ MayReload \in BOOLEAN

\* a chain holds its route; metadata is asked for by an id of its own
ASSUME ChainsAssumption ==
  /\ \A s \in Setups : s.route \in DOMAIN Chains
  /\ \A r \in DOMAIN Chains : /\ Chains[r] \in Seq(ToSet(Chains[r]))
                              /\ r \in ToSet(Chains[r]) /\ Meta \notin ToSet(Chains[r])
  /\ Meta \notin Public /\ IsFiniteSet(Public)

Ids == Public \cup {Request} \cup UNION {ToSet(Chains[r]) : r \in DOMAIN Chains}

\* the 5-tuple a call settles with, as the slots that are filled
Results == [routeResult : BOOLEAN, routeError : BOOLEAN, fatal : Ids \cup {None},
            middleFnResults : SUBSET Public, middleFnErrors : SUBSET Public]

ASSUME NoneAssumption ==
  /\ None \notin Ids /\ None \notin Results
  /\ \A s \in OpSetups : s.quality # None

VARIABLES
  cached,     \* routesCache: the ids whose metadata is in memory
  stored,     \* the ids whose metadata is in localStorage
  prefilled,  \* prefilledMiddleFnsCache: id -> quality of its parameters
  ops,        \* operation -> where it is
  calls       \* call -> where it is

metadata == <<cached, stored>>
vars == <<metadata, prefilled, ops, calls>>

NoParams == <<>>
NoOp == [wait |-> "idle", setup |-> None, missing |-> {}]
NoCall == [wait |-> "idle", route |-> None, own |-> NoParams,
           subs |-> NoParams,     \* subRequestList: id -> quality
           after |-> {},          \* the prefills it waits for
           missing |-> {},        \* the metadata it waits for
           optimistic |-> FALSE, aborted |-> FALSE,
           answer |-> None,
           errors |-> NoParams,   \* RequestErrors: id -> declared | validation | fatal
           resolved |-> {},       \* the ids with a resolvedValue
           fired |-> <<>>,        \* the handlers that were run
           result |-> None,
           sent |-> 0,            \* how many requests were answered; both are counted up to Many
           ran |-> 0,             \* and how often the route ran
           refused |-> {},        \* the ids the server's validation refused
           claimed |-> {},        \* those whose handler gave such an error of its own
           knew |-> FALSE,        \* whether the metadata of the route was there
           due |-> {}]            \* prefilled since before the call was made

Init ==
  /\ cached = {} /\ stored = {}
  /\ prefilled = [id \in Public |-> None]
  /\ ops = [o \in Ops |-> NoOp]
  /\ calls = [c \in Calls |-> NoCall]
-----------------------------------------------------------------------------
(* The server *)

MiddleFnIds(id) ==
  IF id \in DOMAIN Chains THEN {i \in ToSet(Chains[id]) : i # id /\ i \in Public} ELSE {}

\* fault: raw middleFns are described as well
MetadataOfChains(ids) == ids \cup UNION {ToSet(Chains[id]) : id \in ids \cap DOMAIN Chains}


\* mionGetRemoteMethodsDataById: nothing at all when one id is unknown
MetadataOf(ids) ==
  IF ids \subseteq Known THEN ids \cup UNION {MiddleFnIds(id) : id \in ids} ELSE {}

Invalid(id, call) ==
  IF id \in DOMAIN call.subs
    THEN call.subs[id] = "bad" \/ (call.optimistic /\ call.subs[id] = "rich")
    ELSE id \in Required

Answer == [down |-> FALSE, values |-> {}, declared |-> {}, thrown |-> {}, refused |-> {},
           claimed |-> {}, meta |-> {}]

\* a method of the chain, and what becomes of it if its turn comes
Outcome(id, call, behaviour) == IF Invalid(id, call) THEN "refused" ELSE behaviour[id]
Turns(call, behaviour) ==
  LET ids == Chains[call.route]
  IN [k \in DOMAIN ids |-> [id |-> ids[k], outcome |-> Outcome(ids[k], call, behaviour)]]

\* one method of runExecutionChain
Dispatched(a, turn) ==
  IF a.thrown \cup a.refused # {} /\ turn.id \notin RunOnError THEN a
  ELSE CASE turn.outcome = "refused" -> [a EXCEPT !.refused = @ \cup {turn.id}]
         [] turn.outcome = "value" -> [a EXCEPT !.values = @ \cup {turn.id}]
         [] turn.outcome = "declared" -> [a EXCEPT !.declared = @ \cup {turn.id}]
         [] turn.outcome = "claims" ->
              [a EXCEPT !.declared = @ \cup {turn.id}, !.claimed = @ \cup {turn.id}]
         [] turn.outcome = "throws" -> [a EXCEPT !.thrown = @ \cup {turn.id}]
         [] turn.outcome = "unread" ->
              [a EXCEPT !.thrown = @ \cup {turn.id}, !.claimed = @ \cup {turn.id}]
         [] turn.outcome = "invalid" ->
              [a EXCEPT !.refused = @ \cup {turn.id}, !.claimed = @ \cup {turn.id}]
         [] OTHER -> a

\* the whole chain; its last method answers for the metadata that was asked for
AnswerTo(call, behaviour) ==
  LET a == FoldLeft(Dispatched, Answer, Turns(call, behaviour))
  IN IF Meta \in DOMAIN call.subs
       THEN [a EXCEPT !.meta = MetadataOf(DOMAIN call.subs \ {Meta})] ELSE a

\* the route itself was called: nothing before it failed, and its own parameters were taken
RouteRan(call, a) ==
  \A k \in DOMAIN Chains[call.route] :
    LET before == {Chains[call.route][j] : j \in 1 .. k}
    IN Chains[call.route][k] = call.route =>
         /\ call.route \notin a.refused \ a.claimed
         /\ (a.refused \cup a.thrown) \cap (before \ {call.route}) = {}
-----------------------------------------------------------------------------
(* Settling a call *)

MiddleFns(call) == DOMAIN call.subs \ {call.route, Meta}
ErrorsOf(call, kinds) == {id \in DOMAIN call.errors : call.errors[id] \in kinds}

\* fault: handlers hear of every error of their middleFn
HeardAll(call) ==
  SetToSeq({<<id, "error">> : id \in MiddleFns(call) \cap DOMAIN call.errors}
           \cup {<<id, "success">> : id \in MiddleFns(call) \cap (call.resolved \ DOMAIN call.errors)})

\* processMiddleFnsResponses: the handlers of the middleFns that took part
Heard(call) ==
  SetToSeq({<<id, "error">> : id \in MiddleFns(call) \cap ErrorsOf(call, {"declared", "validation"})}
           \cup {<<id, "success">> : id \in MiddleFns(call) \cap (call.resolved \ DOMAIN call.errors)})

\* the slot nobody declared: a middleFn's error, the route's, or one of no subrequest
FatalPart(call) ==
  LET of == MiddleFns(call) \cap ErrorsOf(call, {"fatal"})
      others == DOMAIN call.errors \ (MiddleFns(call) \cup {call.route, Meta})
  IN CASE of # {} -> CHOOSE id \in of : TRUE
       [] of = {} /\ call.route \in ErrorsOf(call, {"fatal"}) -> call.route
       [] of = {} /\ call.route \notin ErrorsOf(call, {"fatal"}) /\ others # {} -> CHOOSE id \in others : TRUE
       [] OTHER -> None

\* fault: the typed slots take every error
ResultOfAny(call) ==
  [routeResult |-> call.route \in call.resolved,
   routeError |-> call.route \in DOMAIN call.errors,
   fatal |-> FatalPart(call),
   middleFnResults |-> MiddleFns(call) \cap call.resolved,
   middleFnErrors |-> MiddleFns(call) \cap DOMAIN call.errors]

\* buildResult
ResultOf(call) ==
  [routeResult |-> call.route \in call.resolved,
   routeError |-> call.route \in ErrorsOf(call, {"declared", "validation"}),
   fatal |-> FatalPart(call),
   middleFnResults |-> MiddleFns(call) \cap call.resolved,
   middleFnErrors |-> MiddleFns(call) \cap ErrorsOf(call, {"declared", "validation"})]

\* executeRequest goes on after call() has resolved, or rejected with the errors; its
\* signal is nobody's any more
Settled(call) ==
  [call EXCEPT !.wait = "settled", !.aborted = FALSE, !.missing = {},
               !.fired = @ \o Heard(call), !.result = ResultOf(call)]

\* onError, handlePlatformError: one error, of the request and of no subrequest; what
\* may have been answered is not looked at
FailedCall(call) == Settled([call EXCEPT !.errors = [id \in {Request} |-> "fatal"], !.answer = None])
-----------------------------------------------------------------------------
(* Making a call *)

With(params, id, quality) == [i \in DOMAIN params \cup {id} |-> IF i = id THEN quality ELSE params[i]]
Without(params, id) == [i \in DOMAIN params \ {id} |-> params[i]]

\* fault: what is prefilled replaces what the caller passed
RestoredOver(call, cache) ==
  IF call.route \notin cache THEN call.subs
  ELSE LET ids == {id \in MiddleFnIds(call.route) : prefilled[id] # None}
       IN [i \in DOMAIN call.subs \cup ids |-> IF i \in ids THEN prefilled[i] ELSE call.subs[i]]

\* restorePrefilledMiddleFns: those the route's metadata names and the call does not have
Restored(call, cache) ==
  IF call.route \notin cache THEN call.subs
  ELSE LET ids == {id \in MiddleFnIds(call.route) \ DOMAIN call.subs : prefilled[id] # None}
       IN [i \in DOMAIN call.subs \cup ids |-> IF i \in ids THEN prefilled[i] ELSE call.subs[i]]

\* restoreFromLocalStorage: the ids asked for, and not the middleFns they name
FromStorage(ids, cache, store) == cache \cup (ids \cap store)

\* fetchRemoteMethodsMetadata is awaited, whether there is anything to fetch or not
AwaitMetadata(call, cache, store) ==
  [call EXCEPT !.wait = "metadata", !.optimistic = FALSE,
               !.missing = DOMAIN call.subs \ FromStorage(DOMAIN call.subs, cache, store)]

\* makeCall up to its first await; JSON.stringify of a bigint throws
Made(call, cache, store) ==
  LET subs == Restored(call, cache) IN
  IF DOMAIN call.subs \subseteq cache THEN AwaitMetadata(call, cache, store)
  ELSE IF \E id \in DOMAIN subs : subs[id] = "bigint"
    THEN AwaitMetadata([call EXCEPT !.subs = subs], cache, store)
  ELSE [call EXCEPT !.wait = "fetch", !.optimistic = TRUE, !.subs = With(subs, Meta, "plain")]

CacheAfter(call, cache, store) ==
  IF call.wait = "metadata" THEN FromStorage(DOMAIN call.subs, cache, store) ELSE cache

Become(c, call) == calls' = [calls EXCEPT ![c] = call]

\* new MionClientRequest, call()
Launched(call) ==
  LET fresh == [call EXCEPT !.subs = call.own, !.after = {}, !.knew = call.route \in cached,
                            !.due = {id \in MiddleFnIds(call.route) : prefilled[id] # None}]
  IN IF call.aborted THEN FailedCall(fresh) ELSE Made(fresh, cached, stored)

Launch(c, call) ==
  /\ Become(c, Launched(call))
  /\ cached' = CacheAfter(Launched(call), cached, stored)

InFlight(c) == calls[c].wait \notin {"idle", "settled"}
Pending == {o \in Ops : ops[o].wait # "idle" /\ ops[o].setup.kind = "prefill"}

\* executeRequest: it waits for the prefills that are under way
Call(c, setup) ==
  /\ ~InFlight(c)
  /\ LET call == [NoCall EXCEPT !.route = setup.route, !.own = setup.params, !.after = Pending]
     IN IF Pending # {} THEN Become(c, [call EXCEPT !.wait = "prefills"]) /\ UNCHANGED cached
        ELSE Launch(c, call)
  /\ UNCHANGED <<stored, prefilled, ops>>

PrefillsSettled(c) ==
  /\ calls[c].wait = "prefills" /\ calls[c].after = {}
  /\ Launch(c, calls[c])
  /\ UNCHANGED <<stored, prefilled, ops>>
-----------------------------------------------------------------------------
(* The metadata has to be there: fetchRemoteMethodsMetadata *)

\* processMethodsMetadata: into memory, and into storage if that takes it
Kept(ids) == stored' \in {stored, stored \cup ids}

\* validateSubRequests: the subrequests, and every middleFn the metadata of a route names
Checked(call) == DOMAIN call.subs \cup UNION {MiddleFnIds(id) : id \in DOMAIN call.subs}
LocallyInvalid(call) ==
  {id \in Checked(call) : IF id \in DOMAIN call.subs THEN call.subs[id] = "bad" ELSE id \in Required}

\* the second half of makeCall's preparation
Prepared(call, cache) ==
  LET full == [call EXCEPT !.subs = Restored(call, cache)] IN
  IF ~(Checked(full) \subseteq cache) THEN FailedCall(full)   \* useMethodJitFns throws
  ELSE IF LocallyInvalid(full) # {}
         THEN Settled([full EXCEPT !.errors = [id \in LocallyInvalid(full) |-> "validation"]])
         ELSE [full EXCEPT !.wait = "fetch"]

MetadataReady(c) ==
  /\ calls[c].wait = "metadata" /\ calls[c].missing = {}
  /\ Become(c, Prepared(calls[c], cached))
  /\ UNCHANGED <<metadata, prefilled, ops>>

MetadataArrives(c) ==
  LET ids == MetadataOf(calls[c].missing) IN
  /\ calls[c].wait = "metadata" /\ ~calls[c].aborted /\ ids # {}
  /\ cached' = cached \cup ids /\ Kept(ids)
  /\ Become(c, Prepared(calls[c], cached \cup ids))
  /\ UNCHANGED <<prefilled, ops>>

\* aborted, no network, or an id the server does not know
MetadataFails(c) ==
  /\ calls[c].wait = "metadata" /\ calls[c].missing # {}
  /\ Become(c, FailedCall(calls[c]))
  /\ UNCHANGED <<metadata, prefilled, ops>>
-----------------------------------------------------------------------------
(* The request *)

Many == 3
OneMore(n) == IF n < Many THEN n + 1 ELSE n
Served(c, behaviour) ==
  /\ calls[c].wait = "fetch" /\ ~calls[c].aborted
  /\ LET a == AnswerTo(calls[c], behaviour) IN
       Become(c, [calls[c] EXCEPT !.wait = "body", !.answer = a, !.sent = OneMore(@),
                                  !.refused = @ \cup (a.refused \ a.claimed),
                                  !.claimed = @ \cup a.claimed,
                                  !.ran = IF RouteRan(calls[c], a) THEN OneMore(@) ELSE @])
  /\ UNCHANGED <<metadata, prefilled, ops>>

\* the platform answers in place of the router
PlatformFails(c) ==
  /\ calls[c].wait = "fetch" /\ ~calls[c].aborted
  /\ Become(c, [calls[c] EXCEPT !.wait = "body", !.answer = [Answer EXCEPT !.down = TRUE]])
  /\ UNCHANGED <<metadata, prefilled, ops>>

\* fetch rejects: no network, or aborted
FetchFails(c) ==
  /\ calls[c].wait = "fetch"
  /\ Become(c, FailedCall(calls[c]))
  /\ UNCHANGED <<metadata, prefilled, ops>>

\* reading the body rejects once the signal is aborted
BodyAborted(c) ==
  /\ calls[c].wait = "body" /\ calls[c].aborted
  /\ Become(c, FailedCall(calls[c]))
  /\ UNCHANGED <<metadata, prefilled, ops>>

\* fault: whatever was thrown is tried again
RetryAny(call) == call.optimistic /\ call.answer.refused \cup call.answer.thrown # {}

\* shouldRetryWithProperSerialization: an error of one of three types, whoever gave it
TakenForRefusal(a) == a.refused \cup a.claimed # {}

\* never once aborted
MustRetry(call) == call.optimistic /\ ~call.aborted /\ TakenForRefusal(call.answer)

\* fault: the request for metadata is left in
RetriedWithMeta(call, cache) == Made([call EXCEPT !.answer = None], cache, stored')

\* retryWithProperSerialization, makeCall again
Retried(call, cache) ==
  Made([call EXCEPT !.subs = Without(@, Meta), !.answer = None], cache, stored')

\* resolveSubRequests: thrown errors, the subrequests, then errors of nobody's
Resolved(call) ==
  LET a == call.answer
      ids == a.thrown \cup a.refused \cup a.declared
  IN [call EXCEPT
       !.errors = [id \in ids |-> IF id \in a.refused THEN "validation"
                                  ELSE IF id \in a.declared /\ id \in DOMAIN call.subs THEN "declared"
                                  ELSE "fatal"],
       !.resolved = a.values \cap (DOMAIN call.subs \ {Meta})]

\* the body was read: metadata first, then what the methods returned
ReadBody(c) ==
  /\ calls[c].wait = "body" /\ ~calls[c].answer.down
  /\ LET call == calls[c]
         cache == cached \cup call.answer.meta
         readable == call.answer.values \cup call.answer.declared \subseteq cache
         next == IF ~readable THEN FailedCall(call)      \* useMethodJitFns throws
                 ELSE IF MustRetry(call) THEN Retried(call, cache)
                 ELSE Settled(Resolved(call))
     IN /\ Kept(call.answer.meta)
        /\ Become(c, next)
        /\ cached' = CacheAfter(next, cache, stored')
  /\ UNCHANGED <<prefilled, ops>>

ReadPlatformError(c) ==
  /\ calls[c].wait = "body" /\ calls[c].answer.down
  /\ Become(c, FailedCall(calls[c]))
  /\ UNCHANGED <<metadata, prefilled, ops>>
-----------------------------------------------------------------------------
(* prefill(), removePrefill(), typeErrors() *)

SetOp(o, op) == ops' = [ops EXCEPT ![o] = op]
OpMissing(setup) == {setup.id} \ FromStorage({setup.id}, cached, stored)

BeginOp(o, setup) ==
  /\ ops[o].wait = "idle"
  /\ SetOp(o, [wait |-> "metadata", setup |-> setup, missing |-> OpMissing(setup)])
  /\ cached' = FromStorage({setup.id}, cached, stored)
  /\ UNCHANGED <<stored, prefilled, calls>>

\* whoever waited for the operation goes on
Over(o) ==
  /\ SetOp(o, NoOp)
  /\ calls' = [c \in Calls |-> [calls[c] EXCEPT !.after = @ \ {o}]]

\* validateSubRequests; storePrefilledMiddleFns refuses routes
Finished(setup) ==
  IF setup.kind = "prefill" /\ setup.quality # "bad" /\ setup.id \notin DOMAIN Chains
    THEN prefilled' = [prefilled EXCEPT ![setup.id] = setup.quality]
    ELSE UNCHANGED prefilled

OpReady(o) ==
  /\ ops[o].wait = "metadata" /\ ops[o].missing = {}
  /\ Finished(ops[o].setup) /\ Over(o)
  /\ UNCHANGED metadata

OpMetadataArrives(o) ==
  LET ids == MetadataOf(ops[o].missing) IN
  /\ ops[o].wait = "metadata" /\ ids # {}
  /\ cached' = cached \cup ids /\ Kept(ids)
  /\ Finished(ops[o].setup) /\ Over(o)

OpFails(o) ==
  /\ ops[o].wait = "metadata" /\ ops[o].missing # {}
  /\ Over(o)
  /\ UNCHANGED <<metadata, prefilled>>

RemovePrefill(id) ==
  /\ prefilled[id] # None
  /\ prefilled' = [prefilled EXCEPT ![id] = None]
  /\ calls' = [c \in Calls |-> [calls[c] EXCEPT !.due = @ \ {id}]]
  /\ UNCHANGED <<metadata, ops>>
-----------------------------------------------------------------------------
(* Aborting, timeouts, a new page *)

\* client.abort(), destroy(): every call whose signal was composed before
AbortAll ==
  /\ \E c \in Calls : InFlight(c) /\ ~calls[c].aborted
  /\ calls' = [c \in Calls |-> IF InFlight(c) THEN [calls[c] EXCEPT !.aborted = TRUE] ELSE calls[c]]
  /\ UNCHANGED <<metadata, prefilled, ops>>

\* the call's own signal, or its timeout
Abort(c) ==
  /\ InFlight(c) /\ ~calls[c].aborted
  /\ Become(c, [calls[c] EXCEPT !.aborted = TRUE])
  /\ UNCHANGED <<metadata, prefilled, ops>>

Reload ==
  /\ MayReload
  /\ cached' = {} /\ prefilled' = [id \in Public |-> None]
  /\ ops' = [o \in Ops |-> NoOp] /\ calls' = [c \in Calls |-> NoCall]
  /\ UNCHANGED stored

CallStep(c) ==
  \/ PrefillsSettled(c) \/ MetadataReady(c) \/ MetadataArrives(c) \/ MetadataFails(c)
  \/ (\E behaviour \in Behaviours : Served(c, behaviour)) \/ PlatformFails(c) \/ FetchFails(c)
  \/ BodyAborted(c) \/ ReadBody(c) \/ ReadPlatformError(c)

OpStep(o) == OpReady(o) \/ OpMetadataArrives(o) \/ OpFails(o)

Next ==
  \/ \E c \in Calls : (\E setup \in Setups : Call(c, setup)) \/ CallStep(c) \/ Abort(c)
  \/ \E o \in Ops : (\E setup \in OpSetups : BeginOp(o, setup)) \/ OpStep(o)
  \/ \E id \in Public : RemovePrefill(id)
  \/ AbortAll \/ Reload

Spec == Init /\ [][Next]_vars
-----------------------------------------------------------------------------
Kinds == {"declared", "validation", "fatal"}

TypeOK ==
  /\ cached \subseteq Public /\ stored \subseteq Public
  /\ \A c \in Calls :
       /\ DOMAIN calls[c].subs \subseteq Public \cup {Meta}
       /\ \A id \in DOMAIN calls[c].errors : calls[c].errors[id] \in Kinds
       /\ calls[c].wait = "settled" <=> calls[c].result # None
       /\ Meta \in DOMAIN calls[c].subs => calls[c].optimistic

\* What the answer of the server says of a method ends in that method's slot and in
\* no other: the route's and the middleFns' own slots carry what they declared, or
\* a validation error, and what nobody declared is seen in the fatal slot whatever
\* else went wrong (client.ts:191-274, request.ts:249-278).
SlotsKeepApart ==
  \A c \in Calls : LET call == calls[c] IN
    call.wait = "settled" /\ call.answer # None /\ Request \notin DOMAIN call.errors =>
      LET a == call.answer
          own == a.refused \cup (a.declared \cap DOMAIN call.subs)
          nobodys == a.thrown \cup (a.declared \ DOMAIN call.subs) \cup (a.refused \ DOMAIN call.subs)
      IN /\ call.result.routeError = (call.route \in own)
         /\ call.result.middleFnErrors = own \cap MiddleFns(call)
         /\ call.result.routeResult = (call.route \in a.values)
         /\ call.result.middleFnResults = a.values \cap MiddleFns(call)
         /\ (call.result.fatal = None) = (nobodys = {})
         /\ call.result.fatal # None => call.result.fatal \in nobodys

\* A middleFn's handlers hear of a call once, after its last answer, and only what
\* the middleFn declared or returned: not of answers that were retried, nor of
\* thrown errors (client.ts:160-188).
HandlersHearOnce ==
  \A c \in Calls : LET call == calls[c]
                       ids == [k \in DOMAIN call.fired |-> call.fired[k][1]] IN
    /\ IsInjective(ids)
    /\ call.wait # "settled" => call.fired = <<>>
    /\ call.wait = "settled" /\ call.answer # None /\ Request \notin DOMAIN call.errors =>
         ToSet(ids) = MiddleFns(call) \cap (call.answer.values \cup call.answer.declared \cup call.answer.refused)

\* Once the client has the metadata of a route, a call of it carries every middleFn
\* that was prefilled before, and everything the caller passed as passed
\* (request.ts:334-366).
KnownPrefillsSent ==
  \A c \in Calls : LET call == calls[c] IN
    call.answer # None =>
      /\ call.knew => call.due \subseteq DOMAIN call.subs
      /\ \A id \in DOMAIN call.own : call.subs[id] = call.own[id]

\* A call runs its route once, unless the server's validation refused a middleFn
\* that comes behind the route, or a handler gave by itself an error of one of the
\* types that the client takes for a refusal: only then is a request repeated whose
\* route has run (request.ts:155-176).
RouteRunsOnce ==
  \A c \in Calls : calls[c].ran > 1 =>
    \/ calls[c].claimed # {}
    \/ \E j, k \in DOMAIN Chains[calls[c].route] :
         /\ j < k /\ Chains[calls[c].route][j] = calls[c].route
         /\ Chains[calls[c].route][k] \in calls[c].refused

\* A call fails as a whole only by what happened to its request: an abort, the
\* network, the platform.  While all of them work and the server knows every id,
\* metadata that is there, kept or fetched is enough (request.ts:75-153).
NeverStuck ==
  \A c \in Calls :
    /\ calls[c].wait = "metadata" /\ calls[c].missing = {} =>
         Prepared(calls[c], cached).errors # [id \in {Request} |-> "fatal"]
    /\ calls[c].wait = "body" /\ ~calls[c].answer.down =>
         calls[c].answer.values \cup calls[c].answer.declared \subseteq cached \cup calls[c].answer.meta

\* A call sends two requests at most: with the metadata that came with the first
\* answer the second is no longer optimistic (request.ts:166-176).
SendsTwiceAtMost == \A c \in Calls : calls[c].sent <= 2

\* Every part of an answer is heard once, by whom it is meant for
\* (client.ts:160-274, request.ts:249-278).
AnswersReachTheirOwn == TypeOK /\ SlotsKeepApart /\ HandlersHearOnce

\* What is sent is all that is due, and what is sent again is sent again for a reason
\* and not for ever (request.ts:141-176, 334-366).
SentAsDue == KnownPrefillsSent /\ RouteRunsOnce /\ SendsTwiceAtMost
=============================================================================
