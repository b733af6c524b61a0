--------------------------- MODULE RouterRegistry ---------------------------
(***************************************************************************)
(* Route registration (router/src/router.ts): registerRoutes walks a tree  *)
(* of routes, middleFns and groups and files one execution chain per route. *)
(*                                                                         *)
(* Everything it does is async.  A call runs without interruption up to    *)
(* its next `await` ("run"), where it waits for the reflection of a        *)
(* handler ("reflect") or for a promise that is resolved already ("tick"), *)
(* and another call, or a request, may run there.  initRouter is the call  *)
(* InitCall: it opens the router before it awaits its own registrations.   *)
(*                                                                         *)
(* A tree is a sequence of items                                           *)
(*   [id, kind: route | middleFn | raw | group | invalid, public,          *)
(*    typed: it carries reflection data, sub: the tree of a group].        *)
(* An executable is identified by its id and the call that created it.     *)
(***************************************************************************)
EXTENDS Naturals, Sequences, FiniteSets, SequencesExt

CONSTANTS
  Calls,       \* the registerRoutes callers
  InitCall,    \* initRouter
  Trees,       \* call -> the trees it registers, one after the other
  Earlier,     \* call -> the calls the program makes before it
  Unawaited,   \* the calls a program that does not await each call goes on after
  DefaultStart, DefaultEnd,  \* defaultStartMiddleFns, defaultEndMiddleFns: items
  ExtraStart, ExtraEnd,      \* the middleFns a program may add to them
  Items,       \* what the trees are made of, and the middleFns around them
  Ids,         \* the ids of the routes and middleFns among them
  Internal,    \* MION_ROUTES, of which no metadata is given
  Asked,       \* the ids clients ask metadata of
  MaxNesting,  \* MAX_ROUTE_NESTING
  None

ASSUME RegistryAssumption ==
  /\ InitCall \in Calls
  /\ Earlier \in [Calls -> SUBSET Calls]
  /\ MaxNesting \in Nat
  /\ None \notin Ids
  /\ Internal \subseteq Ids
  /\ Asked \subseteq Ids

ExecKinds == {"route", "middleFn", "raw"}
IsMiddleFn(item) == item.kind \in {"middleFn", "raw"}
MiddleFnItems == {item \in Items : IsMiddleFn(item)}

ASSUME TreesAssumption ==
  /\ \A item \in Items :
       /\ item.kind \in ExecKinds \cup {"group", "invalid"}
       /\ item.kind \in ExecKinds => item.id \in Ids /\ item.public \in BOOLEAN
       /\ item.sub \in Seq(Items)
  /\ \A c \in Calls : Trees[c] \in Seq(Seq(Items)) /\ Trees[c] # <<>>
  /\ DefaultStart \in Seq(MiddleFnItems) /\ DefaultEnd \in Seq(MiddleFnItems)
  /\ ExtraStart \subseteq MiddleFnItems /\ ExtraEnd \subseteq MiddleFnItems

\* the calls of a program have an order; an id is not a route's and a middleFn's
ASSUME ProgramAssumption ==
  /\ \A c, d \in Calls : c # d => c \in Earlier[d] \/ d \in Earlier[c]
  /\ \A item, other \in Items : item.kind = "route" /\ other.kind = "middleFn" => item.id # other.id

\* what is filed: executables, their chains, and what is published of them
Executables == [id : Ids, kind : ExecKinds, public : BOOLEAN, by : Calls]
ExecutionChains == [routeIndex : Nat, methods : Seq(Executables), by : Calls, n : Nat]
\* `early` is of the properties alone: it was described before its chain was filed
SerializableMethods == [of : Executables, middleFnIds : SUBSET Ids, early : BOOLEAN]

ASSUME NoneAssumption ==
  None \notin Executables /\ None \notin Items /\ None \notin ExecutionChains /\ None \notin SerializableMethods

VARIABLES
  awaited,       \* whether the program awaits each registration before it goes on
  initialized,   \* isRouterInitialized
  byId,          \* kind -> id -> executable: routesById, middleFnsById, rawMiddleFnsById
  names,         \* routeNames and middleFnNames
  flat,          \* flatRouter: id of the route, for its path -> chain
  deps,          \* executable of a route -> its middleFnIds
  startDef,      \* startMiddleFnsDef and endMiddleFnsDef: sequences of items
  endDef,
  startFns,      \* startMiddleFns
  endFns,        \* endMiddleFns
  published,     \* publicMethods: id -> serializable method
  reg            \* call -> where it is

registry == <<byId, names, flat, deps, startFns, endFns>>
setup == <<awaited, startDef, endDef>>
vars == <<setup, initialized, registry, published, reg>>

NameClass(kind) == IF kind = "route" THEN "route" ELSE "middleFn"

Frame(tree, pre, post) ==
  [items |-> tree, i |-> 1,
   pre |-> pre, post |-> post,   \* middleFns of the levels above, around this level
   own |-> None,                 \* the executable of entry i, once fetched
   next |-> 1,                   \* the sibling to look at
   preLevel |-> <<>>, postLevel |-> <<>>]

Idle == [wait |-> "idle", phase |-> "start", n |-> 1, held |-> None, got |-> <<>>,
         stack |-> <<>>]

NoIds == [id \in Ids |-> None]
NoExecutables == [k \in ExecKinds |-> NoIds]
NoDeps == [e \in Ids \X Calls |-> {}]

Init ==
  /\ awaited \in BOOLEAN
  /\ initialized = FALSE
  /\ byId = NoExecutables
  /\ names = [k \in {"route", "middleFn"} |-> {}]
  /\ flat = NoIds
  /\ deps = NoDeps
  /\ startDef = DefaultStart /\ endDef = DefaultEnd
  /\ startFns = <<>> /\ endFns = <<>>
  /\ published = NoIds
  /\ reg = [c \in Calls |-> Idle]
-----------------------------------------------------------------------------
\* nobody is between two awaits: the event loop is free
Free == \A c \in Calls : reg[c].wait # "run"
Settled(c) == reg[c].wait \in {"done", "failed"}
Running(c, phase) == reg[c].wait = "run" /\ reg[c].phase = phase

Depth(c) == Len(reg[c].stack)
Top(c) == reg[c].stack[Depth(c)]
Entry(c) == Top(c).items[Top(c).i]

\* a route between two routes shares the lists of the one before it: same siblings
BetweenRoutes(f) ==
  f.i > 1 /\ f.i < Len(f.items) /\ \A j \in {f.i - 1, f.i, f.i + 1} : f.items[j].kind = "route"

\* the middleFns of this level the walk still has to fetch for entry i
Siblings(f) == {j \in f.next .. Len(f.items) : j # f.i /\ IsMiddleFn(f.items[j])}

Lowest(S) == CHOOSE j \in S : \A k \in S : j <= k

Scanned(c) == Top(c).own # None /\ Siblings(Top(c)) = {}

\* the item whose executable the call asks for next, None if it needs none
Wanted(c) ==
  CASE reg[c].phase = "start" ->
         IF Len(reg[c].got) < Len(startDef) THEN startDef[Len(reg[c].got) + 1] ELSE None
    [] reg[c].phase = "end" ->
         IF Len(reg[c].got) < Len(endDef) THEN endDef[Len(reg[c].got) + 1] ELSE None
    [] reg[c].phase = "walk" ->
         IF Top(c).own = None
           THEN IF Entry(c).kind \in ExecKinds THEN Entry(c) ELSE None
           ELSE IF Siblings(Top(c)) # {} THEN Top(c).items[Lowest(Siblings(Top(c)))] ELSE None
    [] OTHER -> None

Become(c, q) == reg' = [reg EXCEPT ![c] = q]
SetTop(q, f) == [q EXCEPT !.stack = [@ EXCEPT ![Len(q.stack)] = f]]
Fail(c) == Become(c, [reg[c] EXCEPT !.wait = "failed", !.held = None])
-----------------------------------------------------------------------------
\* the calls are made in order; a program that awaits waits for each of them
MayCall(c) ==
  \A b \in Earlier[c] : IF awaited \/ b \notin Unawaited THEN Settled(b) ELSE reg[b].wait # "idle"

\* initRouter, and the first run of a registerRoutes call
Call(c) ==
  /\ Free /\ reg[c].wait = "idle" /\ MayCall(c)
  /\ IF c # InitCall /\ ~initialized
       THEN Fail(c) /\ UNCHANGED initialized
       ELSE Become(c, [Idle EXCEPT !.wait = "run"]) /\ initialized' = TRUE
  /\ UNCHANGED <<setup, registry, published>>

\* fault: an executable that exists is made again
LookupNothing(c) ==
  /\ reg[c].wait = "run" /\ Wanted(c) # None
  /\ Become(c, [reg[c] EXCEPT !.wait = "reflect"])
  /\ UNCHANGED <<setup, initialized, registry, published>>

\* by kind and id, whoever filed it
Existing(item) == byId[item.kind][item.id]

\* getExecutableFromRoute, -MiddleFn, -RawMiddleFn: the executable that exists, or reflection
Lookup(c) ==
  /\ reg[c].wait = "run" /\ Wanted(c) # None
  /\ LET existing == Existing(Wanted(c)) IN
       Become(c, IF existing # None THEN [reg[c] EXCEPT !.wait = "tick", !.held = existing]
                                    ELSE [reg[c] EXCEPT !.wait = "reflect"])
  /\ UNCHANGED <<setup, initialized, registry, published>>

\* the executable of a route, a middleFn or a raw middleFn, and which call created it
Created(item, c) == [id |-> item.id, kind |-> item.kind, public |-> item.public, by |-> c]

\* getHandlerReflection has resolved: the executable is created and filed
Reflected(c) ==
  /\ Free /\ reg[c].wait = "reflect"
  /\ LET item == Wanted(c)
         made == Created(item, c)
     IN /\ item.typed
        /\ byId' = [byId EXCEPT ![item.kind][item.id] = made]
        /\ Become(c, [reg[c] EXCEPT !.wait = "tick", !.held = made])
  /\ UNCHANGED <<setup, initialized, names, flat, deps, startFns, endFns, published>>

\* fault: the rejection of a reflection is swallowed
RejectionSwallowed(c) == Free /\ reg[c].wait = "reflect" /\ ~Wanted(c).typed /\ UNCHANGED vars

\* MissingRtFnsError, RuntimeCodeGenBlockedError: what was filed before stays filed
ReflectionFails(c) ==
  /\ Free /\ reg[c].wait = "reflect" /\ ~Wanted(c).typed
  /\ Fail(c)
  /\ UNCHANGED <<setup, initialized, registry, published>>

\* the awaited executable is a start or end middleFn
ReceiveOuter(c) ==
  /\ Free /\ reg[c].wait = "tick" /\ reg[c].held # None /\ reg[c].phase \in {"start", "end"}
  /\ Become(c, [reg[c] EXCEPT !.wait = "run", !.held = None, !.got = Append(@, reg[c].held)])
  /\ UNCHANGED <<setup, initialized, registry, published>>

\* fault: the names in use are looked at, and not added to
Unnamed(item) == names

Named(item) == [names EXCEPT ![NameClass(item.kind)] = @ \cup {item.id}]

\* the awaited executable is entry i itself: its name must be new
ReceiveEntry(c) ==
  /\ Free /\ reg[c].wait = "tick" /\ reg[c].held # None /\ reg[c].phase = "walk"
  /\ Top(c).own = None
  /\ IF Entry(c).id \in names[NameClass(Entry(c).kind)]
       THEN Fail(c) /\ UNCHANGED names
       ELSE /\ names' = Named(Entry(c))
            /\ Become(c, SetTop([reg[c] EXCEPT !.wait = "run", !.held = None],
                 [Top(c) EXCEPT !.own = reg[c].held,
                    \* isBetweenRoutes: the lists of the entry before are kept
                    !.preLevel = IF BetweenRoutes(Top(c)) THEN @ ELSE <<>>,
                    !.postLevel = IF BetweenRoutes(Top(c)) THEN @ ELSE <<>>,
                    !.next = IF BetweenRoutes(Top(c)) THEN Len(Top(c).items) + 1 ELSE 1]))
  /\ UNCHANGED <<setup, initialized, byId, flat, deps, startFns, endFns, published>>

\* a group is an entry without an executable: the walk of its siblings starts at once
EnterGroup(c) ==
  /\ Running(c, "walk") /\ Top(c).own = None /\ Entry(c).kind = "group"
  /\ Become(c, SetTop(reg[c], [Top(c) EXCEPT !.own = Entry(c), !.next = 1,
                                             !.preLevel = <<>>, !.postLevel = <<>>]))
  /\ UNCHANGED <<setup, initialized, registry, published>>

\* numeric, comma or reserved names, or something that is no route
RejectEntry(c) ==
  /\ Running(c, "walk") /\ Top(c).own = None /\ Entry(c).kind = "invalid"
  /\ Fail(c)
  /\ UNCHANGED <<setup, initialized, registry, published>>

\* fault: a middleFn runs before the entry wherever it was declared
AlwaysBefore(f, j) == TRUE

DeclaredBefore(f, j) == j < f.i

\* the awaited executable is a sibling of entry i
ReceiveSibling(c) ==
  /\ Free /\ reg[c].wait = "tick" /\ reg[c].held # None /\ reg[c].phase = "walk"
  /\ Top(c).own # None
  /\ LET f == Top(c)
         j == Lowest(Siblings(f))
         f2 == [f EXCEPT !.next = j + 1]
     IN Become(c, SetTop([reg[c] EXCEPT !.wait = "run", !.held = None],
          IF DeclaredBefore(f, j)
            THEN [f2 EXCEPT !.preLevel = Append(@, reg[c].held)]
            ELSE [f2 EXCEPT !.postLevel = Append(@, reg[c].held)]))
  /\ UNCHANGED <<setup, initialized, registry, published>>

StartReady(c) ==
  /\ Running(c, "start") /\ Wanted(c) = None
  /\ startFns' = reg[c].got
  /\ Become(c, [reg[c] EXCEPT !.phase = "end", !.got = <<>>])
  /\ UNCHANGED <<setup, initialized, byId, names, flat, deps, endFns, published>>

\* recursiveFlatRoutes is entered for the tree; one without entries is refused
EndReady(c) ==
  /\ Running(c, "end") /\ Wanted(c) = None
  /\ endFns' = reg[c].got
  /\ LET tree == Trees[c][reg[c].n] IN
       IF tree = <<>> THEN Fail(c)
       ELSE Become(c, [reg[c] EXCEPT !.phase = "walk", !.got = <<>>,
                                     !.stack = <<Frame(tree, <<>>, <<>>)>>])
  /\ UNCHANGED <<setup, initialized, byId, names, flat, deps, startFns, published>>
-----------------------------------------------------------------------------
Before(f) == f.pre \o f.preLevel
After(f) == f.postLevel \o f.post

MethodsOf(f) == startFns \o Before(f) \o <<f.own>> \o After(f) \o endFns

\* getPublicMiddleFnIds: the public middleFns of the chain
PublicMiddleFnIds(methods) ==
  {methods[k].id : k \in {l \in DOMAIN methods :
     methods[l].kind = "middleFn" /\ methods[l].public /\ methods[l].id \notin Internal}}

\* fault: only the middleFns before the route are named
DepsBefore(f) == [deps EXCEPT ![<<f.own.id, f.own.by>>] = PublicMiddleFnIds(Before(f))]

\* middleFnIds is set on the executable itself
WithDeps(f) == [deps EXCEPT ![<<f.own.id, f.own.by>>] =
                  IF PublicMiddleFnIds(MethodsOf(f)) = {} THEN @ ELSE PublicMiddleFnIds(MethodsOf(f))]

\* entry i is a route whose neighbours are known: its chain is filed under its path
SetChain(c) ==
  /\ Running(c, "walk") /\ Scanned(c) /\ Top(c).own.kind = "route"
  /\ LET f == Top(c) IN
       /\ flat' = [flat EXCEPT ![f.own.id] =
            [routeIndex |-> Len(startFns) + Len(Before(f)) + 1, methods |-> MethodsOf(f),
             by |-> c, n |-> reg[c].n]]
       /\ deps' = WithDeps(f)
       /\ Become(c, [reg[c] EXCEPT !.wait = "tick"])
  /\ UNCHANGED <<setup, initialized, byId, names, startFns, endFns, published>>

\* entry i is a middleFn: it files nothing of its own
PassMiddleFn(c) ==
  /\ Running(c, "walk") /\ Scanned(c) /\ IsMiddleFn(Top(c).own)
  /\ Become(c, [reg[c] EXCEPT !.wait = "tick"])
  /\ UNCHANGED <<setup, initialized, registry, published>>

\* entry i is a group: the walk goes down, unless too deep or into nothing
Descend(c) ==
  /\ Running(c, "walk") /\ Scanned(c) /\ Top(c).own.kind = "group"
  /\ IF Depth(c) > MaxNesting \/ Top(c).own.sub = <<>>
       THEN Fail(c)
       ELSE Become(c, [reg[c] EXCEPT !.stack =
                         Append(@, Frame(Top(c).own.sub, Before(Top(c)), After(Top(c))))])
  /\ UNCHANGED <<setup, initialized, registry, published>>

\* recursiveCreateExecutionChain has resolved: the next entry, or back one level
NextEntry(c) ==
  /\ Free /\ reg[c].wait = "tick" /\ reg[c].held = None /\ reg[c].phase = "walk"
  /\ IF Top(c).i < Len(Top(c).items)
       THEN Become(c, SetTop([reg[c] EXCEPT !.wait = "run"],
                        [Top(c) EXCEPT !.i = @ + 1, !.own = None]))
       ELSE IF Depth(c) > 1
              THEN Become(c, [reg[c] EXCEPT !.stack = SubSeq(@, 1, Depth(c) - 1)])
              ELSE Become(c, [reg[c] EXCEPT !.phase = "return", !.wait = "run", !.stack = <<>>])
  /\ UNCHANGED <<setup, initialized, registry, published>>

\* fault: one registration too many
ReturnLate(c) ==
  /\ Running(c, "return")
  /\ Become(c, IF reg[c].n <= Len(Trees[c])
                 THEN [Idle EXCEPT !.wait = "run", !.n = reg[c].n + 1]
                 ELSE [Idle EXCEPT !.wait = "done", !.n = reg[c].n])
  /\ UNCHANGED <<setup, initialized, registry, published>>

\* registerRoutes returns; initRouter goes on to its next registration
Return(c) ==
  /\ Running(c, "return")
  /\ Become(c, IF reg[c].n < Len(Trees[c])
                 THEN [Idle EXCEPT !.wait = "run", !.n = reg[c].n + 1]
                 ELSE [Idle EXCEPT !.wait = "done", !.n = reg[c].n])
  /\ UNCHANGED <<setup, initialized, registry, published>>
-----------------------------------------------------------------------------
\* getSerializableMethod: what is published of a method is kept
Executable(id) == IF byId["middleFn"][id] # None THEN byId["middleFn"][id] ELSE byId["route"][id]

DepsOf(e) == deps[<<e.id, e.by>>]

Serializable(id) ==
  [of |-> Executable(id), middleFnIds |-> DepsOf(Executable(id)), early |-> flat[id] = None]

\* the ids a metadata request for `id` adds: the method and the middleFns of its chain
Requested(id) ==
  {i \in {id} \cup (IF published[id] # None THEN published[id].middleFnIds
                                            ELSE DepsOf(Executable(id))) :
     i \notin Internal /\ Executable(i) # None /\ Executable(i).public}

\* mionGetRemoteMethodsDataById, whatever registration waits
ServeMetadata(id) ==
  /\ Free /\ Executable(id) # None /\ Executable(id).public
  /\ published' = [i \in Ids |-> IF published[i] = None /\ i \in Requested(id)
                                   THEN Serializable(i) ELSE published[i]]
  /\ UNCHANGED <<setup, initialized, registry, reg>>

\* an object's keys keep their order when one is set again, or come last
WithKey(defs, item) ==
  LET same == {k \in DOMAIN defs : defs[k].id = item.id} IN
    IF same = {} THEN Append(defs, item) ELSE [defs EXCEPT ![CHOOSE k \in same : TRUE] = item]

\* the keys of `defs` spread after the item's own: of one in both, the one in `defs` stays
AfterKey(item, defs) ==
  LET same == {k \in DOMAIN defs : defs[k].id = item.id} IN
    IF same = {} THEN <<item>> \o defs
    ELSE LET k == CHOOSE k \in same : TRUE IN <<defs[k]>> \o RemoveAt(defs, k)

\* addStartMiddleFns, addEndMiddleFns: refused once the router is initialized
AddStartMiddleFns(item, before) ==
  /\ Free /\ ~initialized
  /\ startDef' = IF before THEN AfterKey(item, startDef) ELSE WithKey(startDef, item)
  /\ UNCHANGED <<awaited, endDef, initialized, registry, published, reg>>

AddEndMiddleFns(item, after) ==
  /\ Free /\ ~initialized
  /\ endDef' = IF after THEN WithKey(endDef, item) ELSE AfterKey(item, endDef)
  /\ UNCHANGED <<awaited, startDef, initialized, registry, published, reg>>

\* resetRouter, called while no registration is under way
ResetRouter ==
  /\ initialized /\ Free /\ \A c \in Calls : Settled(c) \/ reg[c].wait = "idle"
  /\ initialized' = FALSE
  /\ byId' = NoExecutables
  /\ names' = [k \in {"route", "middleFn"} |-> {}]
  /\ flat' = NoIds /\ deps' = NoDeps
  /\ startDef' = DefaultStart /\ endDef' = DefaultEnd
  /\ startFns' = <<>> /\ endFns' = <<>>
  /\ published' = NoIds
  /\ reg' = [c \in Calls |-> Idle]
  /\ UNCHANGED awaited

CallStep(c) ==
  \/ Lookup(c) \/ Reflected(c) \/ ReceiveOuter(c) \/ ReceiveEntry(c) \/ EnterGroup(c)
  \/ RejectEntry(c) \/ ReceiveSibling(c) \/ StartReady(c) \/ EndReady(c) \/ SetChain(c)
  \/ PassMiddleFn(c) \/ Descend(c) \/ NextEntry(c) \/ Return(c) \/ ReflectionFails(c)

Next ==
  \/ \E c \in Calls : Call(c) \/ CallStep(c)
  \/ \E id \in Asked : ServeMetadata(id)
  \/ \E item \in ExtraStart, before \in BOOLEAN : AddStartMiddleFns(item, before)
  \/ \E item \in ExtraEnd, after \in BOOLEAN : AddEndMiddleFns(item, after)
  \/ ResetRouter

Spec == Init /\ [][Next]_vars

\* promises that can settle do, and the event loop runs what is ready
FairSpec == Spec /\ \A c \in Calls : WF_vars(CallStep(c))
-----------------------------------------------------------------------------
(* What the position of an item in its tree says *)

At(tree, p) ==
  LET item[k \in 1..Len(p)] == IF k = 1 THEN tree[p[1]] ELSE item[k - 1].sub[p[k]]
  IN item[Len(p)]

Places(tree) ==
  LET AtDepth[d \in 0..MaxNesting] ==
        IF d = 0 THEN {<<i>> : i \in DOMAIN tree}
        ELSE UNION {{Append(p, i) : i \in DOMAIN At(tree, p).sub} : p \in AtDepth[d - 1]}
  IN UNION {AtDepth[d] : d \in 0..MaxNesting}

\* in the order they are written
Precedes(p, q) ==
  \E k \in DOMAIN p \cap DOMAIN q : p[k] < q[k] /\ SubSeq(p, 1, k - 1) = SubSeq(q, 1, k - 1)

\* a middleFn reaches the routes of its own level and of every level below it
InScope(m, p) == Len(m) <= Len(p) /\ SubSeq(m, 1, Len(m) - 1) = SubSeq(p, 1, Len(m) - 1)

\* the route at p and the middleFns in scope of it
Around(tree, p) == {p} \cup {m \in Places(tree) : IsMiddleFn(At(tree, m)) /\ InScope(m, p)}

\* the k-th of some places is the one that k - 1 of them precede
Nth(places, k) == CHOOSE m \in places : Cardinality({q \in places : Precedes(q, m)}) = k - 1

\* the route and the middleFns in scope, as written in the tree
Written(tree, p) ==
  LET places == Around(tree, p)
  IN [k \in 1..Cardinality(places) |-> At(tree, Nth(places, k)).id]

IdSeq(items) == [k \in DOMAIN items |-> items[k].id]
Registered == {id \in Ids : flat[id] # None}
RouteOf(chain) == chain.methods[chain.routeIndex]
-----------------------------------------------------------------------------
TypeOK ==
  /\ awaited \in BOOLEAN /\ initialized \in BOOLEAN
  /\ byId \in [ExecKinds -> [Ids -> Executables \cup {None}]]
  /\ names \in [{"route", "middleFn"} -> SUBSET Ids]
  /\ deps \in [Ids \X Calls -> SUBSET Ids]
  /\ \A id \in Registered : flat[id].routeIndex \in DOMAIN flat[id].methods
  /\ \A c \in Calls : /\ reg[c].held \in Executables \cup {None}
                      /\ reg[c].n \in DOMAIN Trees[c]

\* However registrations interleave, a route's chain is the start middleFns, then
\* the middleFns of its level and of the levels above, written before it, the
\* route itself, those written after it, and the end middleFns (router.ts:363-370).
ChainAsWritten ==
  \A id \in Registered :
    LET chain == flat[id]
        tree == Trees[chain.by][chain.n]
    IN /\ RouteOf(chain).id = id /\ RouteOf(chain).kind = "route"
       /\ \E p \in Places(tree) :
            /\ At(tree, p).kind = "route" /\ At(tree, p).id = id
            /\ IdSeq(chain.methods) = IdSeq(startDef) \o Written(tree, p) \o IdSeq(endDef)

\* In a program that awaits its registrations an id means one executable: every
\* chain holds the ones the registry answers for, and a route's chain was filed
\* by the call that brought its handler.  Two calls at once may both find an id
\* free before either files it (router.ts:419-453).
OneExecutablePerId ==
  awaited => \A id \in Registered :
    /\ RouteOf(flat[id]).by = flat[id].by
    /\ \A k \in DOMAIN flat[id].methods :
         LET e == flat[id].methods[k] IN byId[e.kind][e.id] = e

\* In a program that awaits its registrations the metadata a client gets of a route,
\* memoised at the first request (remoteMethods.ts:75-94), is that of the executable
\* its chain runs, and names the public middleFns of the chain.  The exception is
\* exactly the request served between the awaits of the registration, after the route
\* is filed and before its middleFnIds are (router.ts:528, 378): it names none, for good.
PublishedComplete ==
  awaited => \A id \in Registered :
    published[id] # None =>
      /\ published[id].of = RouteOf(flat[id])
      /\ published[id].middleFnIds =
           IF published[id].early THEN {} ELSE PublicMiddleFnIds(flat[id].methods)

\* A path that is served keeps its chain until the router is reset: a name that is
\* taken refuses the registration, whatever runs between the check and the filing.
FirstRegistrationStands ==
  [][initialized' => \A id \in Registered : flat'[id] = flat[id]]_vars

\* A registration that was begun ends, however others interleave with it.
EveryCallReturns == \A c \in Calls : reg[c].wait = "run" ~> Settled(c)

\* What the registry, the chains and the published metadata say of an id is the same
\* (router.ts:275-380, remoteMethods.ts:60-113).
RegistryAgrees == TypeOK /\ OneExecutablePerId /\ PublishedComplete
=============================================================================
