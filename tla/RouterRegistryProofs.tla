------------------------ MODULE RouterRegistryProofs ------------------------
(***************************************************************************)
(* Proofs about RouterRegistry, for any trees, any number of callers and   *)
(* any order in which their awaits are resumed: a route keeps the chain it *)
(* was first given; what the registry, the chains and the published        *)
(* metadata say of an id agree; and a chain holds, in the order of the     *)
(* written tree, the route and the middleFns that are around it.           *)
(*                                                                         *)
(* There are four invariants, each on top of Kept.  Kept                   *)
(* (RegistryTypes) says what the walk of a call carries: a stack of levels *)
(* whose lower ones stand at groups, and at a tick the executable of the   *)
(* entry it waits for.  Claimed says that the route a call is about to     *)
(* file is named, not filed, and no other call's: it needs no order among  *)
(* the calls.  Agreed is about programs that await each registration.      *)
(* Traced says where in its tree a walk is, and that the lists of a level  *)
(* hold the middleFns it has been past.  The last part reads them as the   *)
(* chain that is written: the places of a nested walk enumerate, in the    *)
(* order of the places, what is around its route, and an enumeration of a  *)
(* set in an order is unique.                                              *)
(***************************************************************************)
EXTENDS RouterRegistry, FiniteSetTheorems, SequenceTheorems, WellFoundedInduction, TLAPS

Waits == {"idle", "run", "reflect", "tick", "done", "failed"}
Phases == {"start", "end", "walk", "return"}

Levels ==
  [items : Seq(Items), i : Nat, pre : Seq(Executables), post : Seq(Executables),
   own : Executables \cup Items \cup {None}, next : Nat \ {0},
   preLevel : Seq(Executables), postLevel : Seq(Executables)]

CallRecords ==
  [wait : Waits, phase : Phases, n : Nat, held : Executables \cup {None},
   got : Seq(Executables), stack : Seq(Levels)]

Active(q) == q.wait \in {"run", "reflect", "tick"}
Level(q) == q.stack[Len(q.stack)]
AtEntry(q) == q.phase = "walk" /\ Level(q).own = None

\* A level stands at one of its items, and its own is that item's executable, or a group.
AtItem(f) ==
  /\ f.i \in DOMAIN f.items
  /\ f.own = None \/ f.own \in Executables \/ (f.own \in Items /\ f.own.kind = "group")

AtGroup(f) == f.own \in Items /\ f.own.kind = "group"

\* What one call carries.
Walks(q) ==
  /\ \A k \in DOMAIN q.stack : AtItem(q.stack[k])
  /\ Active(q) /\ q.phase = "walk" =>
       /\ q.stack # <<>>
       /\ \A k \in DOMAIN q.stack : k < Len(q.stack) => AtGroup(q.stack[k])
  /\ q.wait = "tick" /\ q.held = None => q.phase = "walk"
  /\ q.held # None => q.wait = "tick"
  /\ q.held # None /\ AtEntry(q) =>
       /\ q.held.id = Level(q).items[Level(q).i].id
       /\ q.held.kind = Level(q).items[Level(q).i].kind
  /\ q.held # None /\ q.phase = "walk" /\ Level(q).own # None => Siblings(Level(q)) # {}

\* Executables are filed under their kind and id, which are those of an item.
FiledRight ==
  \A k \in ExecKinds, id \in Ids :
    byId[k][id] # None =>
      /\ byId[k][id].kind = k /\ byId[k][id].id = id
      /\ \E item \in Items : item.kind = k /\ item.id = id

ChainsRight ==
  \A id \in Registered :
    /\ flat[id].routeIndex \in DOMAIN flat[id].methods
    /\ RouteOf(flat[id]).id = id /\ RouteOf(flat[id]).kind = "route"

RegistryTypes ==
  /\ awaited \in BOOLEAN /\ initialized \in BOOLEAN
  /\ startDef \in Seq(MiddleFnItems) /\ endDef \in Seq(MiddleFnItems)
  /\ startFns \in Seq(Executables) /\ endFns \in Seq(Executables)
  /\ byId \in [ExecKinds -> [Ids -> Executables \cup {None}]]
  /\ names \in [{"route", "middleFn"} -> SUBSET Ids]
  /\ deps \in [Ids \X Calls -> SUBSET Ids]
  /\ flat \in [Ids -> ExecutionChains \cup {None}]
  /\ published \in [Ids -> SerializableMethods \cup {None}]
  /\ reg \in [Calls -> CallRecords]

CallsRight ==
  \A c \in Calls :
    /\ Walks(reg[c])
    /\ reg[c].n \in DOMAIN Trees[c]
    /\ reg[c].wait = "reflect" => Wanted(c) # None
    /\ Active(reg[c]) => initialized

Kept == RegistryTypes /\ FiledRight /\ ChainsRight /\ CallsRight

\* The call is about to file the route it stands at.
Pends(q) ==
  /\ q.phase = "walk" /\ Active(q) /\ (q.wait = "tick" => q.held # None)
  /\ Level(q).own # None /\ Level(q).own.kind = "route"

\* Only one call at a time can file a route, and the first one's chain stays.
ClaimsApart ==
  /\ Registered \subseteq names["route"]
  /\ \A c \in Calls : Pends(reg[c]) =>
       Level(reg[c]).own.id \in names["route"] /\ flat[Level(reg[c]).own.id] = None
  /\ \A c, d \in Calls : c # d /\ Pends(reg[c]) /\ Pends(reg[d]) =>
       Level(reg[c]).own.id # Level(reg[d]).own.id

\* middleFnIds is set with the chain.
DepsRight ==
  /\ \A id \in Ids, c \in Calls : deps[<<id, c>>] # {} => id \in Registered
  /\ \A id \in Registered :
       deps[<<id, RouteOf(flat[id]).by>>] = PublicMiddleFnIds(flat[id].methods)

Claimed == Kept /\ ClaimsApart /\ DepsRight

Filed(e) == byId[e.kind][e.id] = e
AllFiled(s) == \A k \in DOMAIN s : Filed(s[k])

FiledLevel(f) ==
  /\ AllFiled(f.pre) /\ AllFiled(f.post) /\ AllFiled(f.preLevel) /\ AllFiled(f.postLevel)
  /\ f.own \in Executables => Filed(f.own)

\* All that a call carries is in the registry.
FiledCall(q) ==
  /\ AllFiled(q.got) /\ (q.held # None => Filed(q.held))
  /\ \A k \in DOMAIN q.stack : FiledLevel(q.stack[k])

InTurn == \A c \in Calls : reg[c].wait # "idle" => \A b \in Earlier[c] : Settled(b)

\* The call holds the executable of the route it stands at, whose name it has not looked at.
HoldsRoute(q, id) == AtEntry(q) /\ Active(q) /\ q.held # None /\ q.held.kind = "route" /\ q.held.id = id

\* The executable of a route is made by the call that names it.
RoutesOwn ==
  /\ \A c \in Calls, id \in Ids : HoldsRoute(reg[c], id) => reg[c].held.by = c \/ id \in names["route"]
  /\ \A id \in Ids : byId["route"][id] # None =>
       id \in names["route"] \/ \E c \in Calls : HoldsRoute(reg[c], id)
  /\ \A c \in Calls : Pends(reg[c]) => Level(reg[c]).own.by = c

\* What is published of an id is the executable that is filed.  Before the chain of a route
\* is filed its middleFns are not known, and after it they are those of the chain.
PublishedAgrees ==
  \A id \in Ids : published[id] # None =>
    /\ Filed(published[id].of) /\ published[id].of.id = id
    /\ published[id].of.kind \in {"route", "middleFn"}
    /\ published[id].early => published[id].middleFnIds = {}
    /\ ~published[id].early =>
         id \in Registered /\ published[id].middleFnIds = PublicMiddleFnIds(flat[id].methods)

AwaitedAgree ==
  /\ InTurn
  /\ AllFiled(startFns) /\ AllFiled(endFns)
  /\ \A c \in Calls :
       /\ FiledCall(reg[c])
       /\ reg[c].wait = "reflect" => byId[Wanted(c).kind][Wanted(c).id] = None
  /\ RoutesOwn
  /\ \A id \in Registered : RouteOf(flat[id]).by = flat[id].by /\ AllFiled(flat[id].methods)
  /\ PublishedAgrees

Agreed == Claimed /\ (awaited => AwaitedAgree)

-----------------------------------------------------------------------------
(***************************************************************************)
(* What a call carries.                                                    *)
(***************************************************************************)

\* A set of natural numbers that is not empty has a least member: Lowest finds it.
LEMMA LowestIn ==
  ASSUME NEW S \in SUBSET Nat, S # {}
  PROVE  Lowest(S) \in S /\ \A k \in S : Lowest(S) <= k
<1>1. PICK n \in S : \A m \in S : ~ (<<m, n>> \in OpToRel(<, Nat))
  BY NatLessThanWellFounded, WFMin
<1>2. \A m, k \in Nat : m < k => <<m, k>> \in OpToRel(<, Nat)
  BY DEF OpToRel
<1>3. \A m \in S : ~ (m < n)
  BY <1>1, <1>2
<1>4. \A m \in S : n <= m
  BY <1>3
<1> QED BY <1>4 DEF Lowest

\* No level, item or executable is None, and no item that is a group is an executable's.
LEMMA Distinct ==
  /\ \A e \in Executables : e # None /\ e.kind \in ExecKinds /\ e.id \in Ids /\ e.public \in BOOLEAN /\ e.by \in Calls
  /\ \A item \in Items : item # None /\ item.sub \in Seq(Items)
                         /\ (item.kind \in ExecKinds => item.id \in Ids /\ item.public \in BOOLEAN)
  /\ MiddleFnItems \subseteq Items
  /\ \A item \in MiddleFnItems : item.kind \in {"middleFn", "raw"} /\ item.kind \in ExecKinds
BY NoneAssumption, TreesAssumption DEF Executables, MiddleFnItems, IsMiddleFn, ExecKinds

\* The level a call stands at.
LEMMA LevelTyped ==
  ASSUME NEW q \in CallRecords, q.stack # <<>>
  PROVE  /\ Len(q.stack) \in DOMAIN q.stack /\ Len(q.stack) \in Nat /\ Len(q.stack) > 0
         /\ Level(q) \in Levels
<1>1. q.stack \in Seq(Levels)
  BY DEF CallRecords
<1> QED BY <1>1 DEF Level

\* Changing the level a call stands at changes nothing below it.
LEMMA TopSet ==
  ASSUME NEW q \in CallRecords, q.stack # <<>>, NEW f \in Levels
  PROVE  /\ SetTop(q, f) \in CallRecords
         /\ SetTop(q, f) = [q EXCEPT !.stack = SetTop(q, f).stack]
         /\ Len(SetTop(q, f).stack) = Len(q.stack)
         /\ DOMAIN SetTop(q, f).stack = DOMAIN q.stack
         /\ Level(SetTop(q, f)) = f
         /\ \A k \in DOMAIN q.stack : k # Len(q.stack) => SetTop(q, f).stack[k] = q.stack[k]
<1>1. q.stack \in Seq(Levels) /\ Len(q.stack) \in 1..Len(q.stack)
  BY LevelTyped DEF CallRecords
<1> DEFINE s == [q.stack EXCEPT ![Len(q.stack)] = f]
<1>2. /\ s \in Seq(Levels) /\ Len(s) = Len(q.stack)
      /\ \A j \in 1 .. Len(q.stack) : s[j] = IF j = Len(q.stack) THEN f ELSE q.stack[j]
  BY <1>1, ExceptSeq
<1>3. SetTop(q, f) = [q EXCEPT !.stack = s]
  BY DEF SetTop
<1> HIDE DEF s
<1>4. SetTop(q, f) \in CallRecords /\ SetTop(q, f).stack = s
  BY <1>2, <1>3 DEF CallRecords
<1>5. DOMAIN s = 1 .. Len(q.stack) /\ DOMAIN q.stack = 1 .. Len(q.stack)
  BY <1>1, <1>2
<1> QED BY <1>1, <1>2, <1>3, <1>4, <1>5 DEF Level

\* What the call asks for is an item that has an executable: its entry, or a middleFn.
LEMMA WantedItem ==
  ASSUME RegistryTypes, NEW c \in Calls, Walks(reg[c]), Active(reg[c]), Wanted(c) # None
  PROVE  /\ Wanted(c) \in Items /\ Wanted(c).kind \in ExecKinds /\ Wanted(c).id \in Ids
         /\ Wanted(c).public \in BOOLEAN
         /\ reg[c].phase \in {"start", "end", "walk"}
         /\ AtEntry(reg[c]) => Wanted(c) = Level(reg[c]).items[Level(reg[c]).i]
         /\ ~AtEntry(reg[c]) => Wanted(c).kind \in {"middleFn", "raw"}
         /\ reg[c].phase = "walk" /\ ~AtEntry(reg[c]) => Siblings(Level(reg[c])) # {}
<1>1. reg[c] \in CallRecords
  BY DEF RegistryTypes
<1>2. CASE reg[c].phase = "start"
  <2>1. Len(reg[c].got) < Len(startDef) /\ Wanted(c) = startDef[Len(reg[c].got) + 1]
    BY <1>2 DEF Wanted
  <2>2. reg[c].got \in Seq(Executables) /\ startDef \in Seq(MiddleFnItems)
    BY <1>1 DEF CallRecords, RegistryTypes
  <2>3. Wanted(c) \in MiddleFnItems
    BY <2>1, <2>2
  <2> QED BY <1>2, <2>3, Distinct DEF AtEntry
<1>3. CASE reg[c].phase = "end"
  <2>1. Len(reg[c].got) < Len(endDef) /\ Wanted(c) = endDef[Len(reg[c].got) + 1]
    BY <1>3 DEF Wanted
  <2>2. reg[c].got \in Seq(Executables) /\ endDef \in Seq(MiddleFnItems)
    BY <1>1 DEF CallRecords, RegistryTypes
  <2>3. Wanted(c) \in MiddleFnItems
    BY <2>1, <2>2
  <2> QED BY <1>3, <2>3, Distinct DEF AtEntry
<1>4. CASE reg[c].phase = "walk"
  <2> DEFINE f == Level(reg[c])
  <2>1. reg[c].stack # <<>>
    BY <1>4 DEF Walks
  <2>2. f \in Levels /\ Len(reg[c].stack) \in DOMAIN reg[c].stack
    BY <1>1, <2>1, LevelTyped
  <2>3. AtItem(f) /\ f = Top(c)
    BY <2>2 DEF Walks, Level, Top, Depth
  <2>4. f.items \in Seq(Items) /\ f.i \in DOMAIN f.items /\ f.items[f.i] \in Items /\ f.next \in Nat
    BY <2>2, <2>3 DEF Levels, AtItem
  <2>5. CASE f.own = None
    <3>1. Wanted(c) = f.items[f.i] /\ f.items[f.i].kind \in ExecKinds
      BY <1>4, <2>3, <2>5 DEF Wanted, Entry
    <3> QED BY <1>4, <2>4, <2>5, <3>1, Distinct DEF AtEntry
  <2>6. CASE f.own # None
    <3>1. Siblings(f) # {} /\ Wanted(c) = f.items[Lowest(Siblings(f))]
      BY <1>4, <2>3, <2>6 DEF Wanted
    <3>2. Siblings(f) \in SUBSET Nat
      BY <2>4 DEF Siblings
    <3>3. Lowest(Siblings(f)) \in Siblings(f)
      BY <3>1, <3>2, LowestIn
    <3> HIDE DEF f
    <3>4. Lowest(Siblings(f)) \in f.next .. Len(f.items) /\ IsMiddleFn(f.items[Lowest(Siblings(f))])
      BY <3>3 DEF Siblings
    <3>5. f.next \in Nat /\ f.next >= 1
      BY <2>2 DEF Levels
    <3>6. Lowest(Siblings(f)) \in DOMAIN f.items
      BY <2>4, <3>4, <3>5
    <3>7. f.items[Lowest(Siblings(f))] \in Items
      BY <2>4, <3>6
    <3> QED BY <1>4, <2>6, <3>1, <3>4, <3>7, Distinct DEF AtEntry, IsMiddleFn, ExecKinds, f
  <2> QED BY <2>5, <2>6
<1>5. CASE reg[c].phase = "return"
  BY <1>5 DEF Wanted
<1> QED BY <1>1, <1>2, <1>3, <1>4, <1>5 DEF CallRecords, Phases

-----------------------------------------------------------------------------
(***************************************************************************)
(* Every action keeps the types, and what a call carries.                  *)
(***************************************************************************)

\* What a call asks for depends on its walk alone.
LEMMA WantedKept ==
  ASSUME NEW c \in Calls, UNCHANGED <<startDef, endDef>>,
         reg'[c].phase = reg[c].phase, reg'[c].stack = reg[c].stack, reg'[c].got = reg[c].got
  PROVE  Wanted(c)' = Wanted(c)
BY DEF Wanted, Entry, Top, Depth

\* A step of one call leaves the others where they are.
LEMMA OneCall ==
  ASSUME RegistryTypes, CallsRight, NEW c \in Calls, NEW q \in CallRecords,
         Become(c, q), Walks(q), q.n \in DOMAIN Trees[c],
         q.wait = "reflect" => Wanted(c)' # None,
         Active(q) => initialized', initialized => initialized', UNCHANGED <<startDef, endDef>>
  PROVE  reg' \in [Calls -> CallRecords] /\ CallsRight'
<1>1. reg' = [reg EXCEPT ![c] = q] /\ reg \in [Calls -> CallRecords]
  BY DEF Become, RegistryTypes
<1>2. reg'[c] = q /\ \A d \in Calls : d # c => reg'[d] = reg[d]
  BY <1>1
<1>3. reg' \in [Calls -> CallRecords]
  BY <1>1
<1>4. ASSUME NEW d \in Calls
      PROVE  /\ Walks(reg'[d]) /\ reg'[d].n \in DOMAIN Trees[d]
             /\ reg'[d].wait = "reflect" => Wanted(d)' # None
             /\ Active(reg'[d]) => initialized'
  <2>1. CASE d = c
    BY <1>2, <2>1
  <2>2. CASE d # c
    <3>1. reg'[d] = reg[d]
      BY <1>2, <2>2
    <3>2. Wanted(d)' = Wanted(d)
      BY <3>1, WantedKept
    <3> QED BY <3>1, <3>2 DEF CallsRight
  <2> QED BY <2>1, <2>2
<1> QED BY <1>3, <1>4 DEF CallsRight

\* A step that files nothing.
LEMMA QuietKeeps ==
  ASSUME Kept, NEW c \in Calls, NEW q \in CallRecords,
         Become(c, q), Walks(q), q.n \in DOMAIN Trees[c],
         q.wait = "reflect" => Wanted(c)' # None,
         Active(q) => initialized', initialized => initialized', initialized' \in BOOLEAN,
         UNCHANGED <<setup, registry, published>>
  PROVE  Kept'
<1>1. UNCHANGED <<awaited, startDef, endDef, byId, names, flat, deps, startFns, endFns, published>>
  BY DEF setup, registry
<1>2. reg' \in [Calls -> CallRecords] /\ CallsRight'
  BY <1>1, OneCall DEF Kept
<1>3. RegistryTypes'
  BY <1>1, <1>2 DEF Kept, RegistryTypes
<1>4. FiledRight' /\ ChainsRight'
  BY <1>1 DEF Kept, FiledRight, ChainsRight, Registered, RouteOf
<1> QED BY <1>2, <1>3, <1>4 DEF Kept

\* A call that has failed carries nothing on.
LEMMA FailedCall ==
  ASSUME NEW q \in CallRecords, Walks(q)
  PROVE  LET f == [q EXCEPT !.wait = "failed", !.held = None] IN
           /\ f \in CallRecords /\ Walks(f) /\ ~Active(f) /\ f.wait = "failed" /\ f.n = q.n
           /\ f.held = None /\ f.stack = q.stack /\ f.got = q.got
<1> DEFINE f == [q EXCEPT !.wait = "failed", !.held = None]
<1>1. f \in CallRecords /\ f.wait = "failed" /\ f.n = q.n /\ f.held = None /\ f.stack = q.stack /\ f.got = q.got
  BY DEF CallRecords, Waits
<1> HIDE DEF f
<1>2. ~Active(f)
  BY <1>1 DEF Active
<1>3. Walks(f)
  BY <1>1, <1>2 DEF Walks
<1> QED BY <1>1, <1>2, <1>3 DEF f

\* Refusing an entry, a tree or a reflection.
LEMMA FailKeeps ==
  ASSUME Kept, NEW c \in Calls, Fail(c), UNCHANGED <<setup, initialized, registry, published>>
  PROVE  Kept'
<1> DEFINE q == [reg[c] EXCEPT !.wait = "failed", !.held = None]
<1>1. reg[c] \in CallRecords /\ Walks(reg[c]) /\ reg[c].n \in DOMAIN Trees[c] /\ initialized \in BOOLEAN
  BY DEF Kept, RegistryTypes, CallsRight
<1>2. q \in CallRecords /\ Walks(q) /\ ~Active(q) /\ q.wait = "failed" /\ q.n = reg[c].n
  BY <1>1, FailedCall
<1>3. Become(c, q)
  BY DEF Fail
<1> HIDE DEF q
<1> QED BY <1>1, <1>2, <1>3, QuietKeeps

\* A call that begins or ends a registration carries nothing.
LEMMA EmptyCall ==
  ASSUME NEW q \in CallRecords, q.held = None, q.stack = <<>>, q.phase = "start", q.wait # "tick"
  PROVE  Walks(q)
BY DEF Walks, AtEntry

\* Nothing is a sequence of anything.
LEMMA EmptySequences == <<>> \in Seq(Executables) /\ <<>> \in Seq(Levels)
OBVIOUS

\* Every caller has a first tree.
LEMMA FirstTree == \A c \in Calls : 1 \in DOMAIN Trees[c] /\ DOMAIN Trees[c] \subseteq Nat
BY TreesAssumption

\* initRouter and registerRoutes are called.
LEMMA CallKeeps == ASSUME Kept, NEW c \in Calls, Call(c) PROVE Kept'
<1>1. initialized \in BOOLEAN
  BY DEF Kept, RegistryTypes
<1>2. CASE c # InitCall /\ ~initialized
  BY <1>2, FailKeeps DEF Call
<1>3. CASE ~(c # InitCall /\ ~initialized)
  <2> DEFINE q == [Idle EXCEPT !.wait = "run"]
  <2>1. q \in CallRecords
    BY EmptySequences DEF Idle, CallRecords, Waits, Phases
  <2>2. q.n = 1 /\ q.wait = "run" /\ q.held = None /\ q.stack = <<>> /\ q.phase = "start"
    BY DEF Idle
  <2>3. Become(c, q) /\ initialized' = TRUE /\ UNCHANGED <<setup, registry, published>>
    BY <1>3 DEF Call
  <2> HIDE DEF q
  <2>4. Walks(q)
    BY <2>1, <2>2, EmptyCall
  <2> QED BY <2>1, <2>2, <2>3, <2>4, <1>1, FirstTree, QuietKeeps
<1> QED BY <1>2, <1>3

\* The state of a router that has been reset.
NothingYet ==
  /\ awaited \in BOOLEAN /\ initialized = FALSE /\ byId = NoExecutables
  /\ names = [k \in {"route", "middleFn"} |-> {}] /\ flat = NoIds /\ deps = NoDeps
  /\ startDef = DefaultStart /\ endDef = DefaultEnd /\ startFns = <<>> /\ endFns = <<>>
  /\ published = NoIds /\ reg = [c \in Calls |-> Idle]

\* The call has not been made.
Unmade(q) == q.wait = "idle" /\ q.held = None /\ q.got = <<>> /\ q.stack = <<>> /\ q.phase = "start"

Blank ==
  /\ Kept /\ Registered = {} /\ ~initialized /\ byId = NoExecutables /\ names["route"] = {}
  /\ deps = NoDeps /\ startFns = <<>> /\ endFns = <<>> /\ published = NoIds
  /\ \A c \in Calls : Unmade(reg[c])

\* Nothing has been registered, and nobody is registering.
LEMMA NothingRegistered == NothingYet => Blank
<1> SUFFICES ASSUME NothingYet PROVE Blank
  OBVIOUS
<1> USE DEF NothingYet
<1>1. /\ Idle \in CallRecords /\ Walks(Idle) /\ Idle.n = 1 /\ Idle.wait = "idle"
      /\ Idle.held = None /\ Idle.got = <<>> /\ Idle.stack = <<>> /\ Idle.phase = "start"
  <2>1. Idle \in CallRecords
    BY EmptySequences DEF Idle, CallRecords, Waits, Phases
  <2>2. /\ Idle.n = 1 /\ Idle.wait = "idle"
        /\ Idle.held = None /\ Idle.got = <<>> /\ Idle.stack = <<>> /\ Idle.phase = "start"
    BY DEF Idle
  <2> QED BY <2>1, <2>2, EmptyCall
<1>2. Registered = {}
  BY DEF Registered, NoIds
<1>3. RegistryTypes
  <2> DEFINE none == <<>>
  <2>1. none \in Seq(Executables) /\ startFns = none /\ endFns = none
    BY EmptySequences
  <2> HIDE DEF none
  <2>2. flat \in [Ids -> ExecutionChains \cup {None}] /\ published \in [Ids -> SerializableMethods \cup {None}]
    BY DEF NoIds
  <2>3. byId \in [ExecKinds -> [Ids -> Executables \cup {None}]] /\ deps \in [Ids \X Calls -> SUBSET Ids]
    BY DEF NoExecutables, NoIds, NoDeps
  <2>4. names \in [{"route", "middleFn"} -> SUBSET Ids] /\ reg \in [Calls -> CallRecords]
    BY <1>1
  <2>5. startDef \in Seq(MiddleFnItems) /\ endDef \in Seq(MiddleFnItems)
    BY TreesAssumption
  <2> QED BY <2>1, <2>2, <2>3, <2>4, <2>5 DEF RegistryTypes
<1>4. FiledRight /\ ChainsRight
  BY <1>2 DEF FiledRight, ChainsRight, NoExecutables, NoIds
<1>5. CallsRight
  BY <1>1, FirstTree DEF CallsRight, Active
<1> QED BY <1>1, <1>2, <1>3, <1>4, <1>5 DEF Kept, Blank, Unmade

\* What is known of a call between two awaits of a registration.
LEMMA CallFacts ==
  ASSUME Kept, NEW c \in Calls
  PROVE  /\ reg[c] \in CallRecords /\ Walks(reg[c]) /\ reg[c].n \in DOMAIN Trees[c] /\ initialized \in BOOLEAN
         /\ Active(reg[c]) => initialized
         /\ RegistryTypes /\ CallsRight
BY DEF Kept, RegistryTypes, CallsRight

\* The level of a walk, and the entry it stands at.
LEMMA WalkFacts ==
  ASSUME Kept, NEW c \in Calls, Active(reg[c]), reg[c].phase = "walk"
  PROVE  /\ reg[c].stack # <<>> /\ reg[c].stack \in Seq(Levels)
         /\ Len(reg[c].stack) \in DOMAIN reg[c].stack /\ Depth(c) = Len(reg[c].stack)
         /\ Depth(c) \in Nat /\ Depth(c) > 0
         /\ Top(c) = Level(reg[c]) /\ Level(reg[c]) \in Levels /\ AtItem(Level(reg[c]))
         /\ Level(reg[c]).items \in Seq(Items) /\ Level(reg[c]).i \in DOMAIN Level(reg[c]).items
         /\ Entry(c) = Level(reg[c]).items[Level(reg[c]).i] /\ Entry(c) \in Items
<1>1. reg[c] \in CallRecords /\ Walks(reg[c])
  BY CallFacts
<1>2. reg[c].stack # <<>> /\ reg[c].stack \in Seq(Levels)
  BY <1>1 DEF Walks, CallRecords
<1>3. Level(reg[c]) \in Levels /\ Len(reg[c].stack) \in DOMAIN reg[c].stack /\ Len(reg[c].stack) \in Nat /\ Len(reg[c].stack) > 0
  BY <1>1, <1>2, LevelTyped
<1>4. AtItem(Level(reg[c]))
  BY <1>1, <1>3 DEF Walks, Level
<1>5. Top(c) = Level(reg[c]) /\ Depth(c) = Len(reg[c].stack)
  BY DEF Top, Level, Depth
<1>6. Level(reg[c]).items \in Seq(Items) /\ Level(reg[c]).i \in DOMAIN Level(reg[c]).items
  BY <1>3, <1>4 DEF Levels, AtItem
<1>7. Entry(c) = Level(reg[c]).items[Level(reg[c]).i]
  BY <1>5 DEF Entry
<1> QED BY <1>2, <1>3, <1>4, <1>5, <1>6, <1>7

\* A walk goes on at a level it may stand at, with nothing in its hands.
LEMMA StepWalks ==
  ASSUME NEW q \in CallRecords, NEW p \in CallRecords, Walks(p), Active(p), p.phase = "walk",
         q.held = None, q.phase = "walk", DOMAIN q.stack = DOMAIN p.stack, Len(q.stack) = Len(p.stack),
         \A k \in DOMAIN p.stack : k # Len(p.stack) => q.stack[k] = p.stack[k], AtItem(Level(q))
  PROVE  Walks(q)
<1>1. p.stack # <<>> /\ \A k \in DOMAIN p.stack : k < Len(p.stack) => AtGroup(p.stack[k])
  BY DEF Walks
<1>2. p.stack \in Seq(Levels) /\ q.stack \in Seq(Levels)
  BY DEF CallRecords
<1>3. DOMAIN p.stack = 1 .. Len(p.stack) /\ Len(p.stack) \in Nat /\ Len(p.stack) > 0
  BY <1>1, <1>2
<1>4. q.stack # <<>>
  BY <1>2, <1>3
<1>5. \A k \in DOMAIN q.stack : AtItem(q.stack[k])
  BY DEF Walks, Level
<1>6. \A k \in DOMAIN q.stack : k < Len(q.stack) => AtGroup(q.stack[k])
  BY <1>1, <1>3
<1> QED BY <1>4, <1>5, <1>6 DEF Walks

\* The executable a call waited for arrives at the next tick.
LEMMA HeldWalks ==
  ASSUME NEW p \in CallRecords, Walks(p), Active(p), NEW e \in Executables,
         AtEntry(p) => e.id = Level(p).items[Level(p).i].id /\ e.kind = Level(p).items[Level(p).i].kind,
         p.phase = "walk" /\ ~AtEntry(p) => Siblings(Level(p)) # {}
  PROVE  LET q == [p EXCEPT !.wait = "tick", !.held = e] IN
           /\ q \in CallRecords /\ Walks(q) /\ q.n = p.n /\ q.wait = "tick" /\ q.held = e
           /\ q.phase = p.phase /\ q.stack = p.stack /\ q.got = p.got
<1> DEFINE q == [p EXCEPT !.wait = "tick", !.held = e]
<1>1. /\ q \in CallRecords /\ q.n = p.n /\ q.wait = "tick" /\ q.held = e
      /\ q.phase = p.phase /\ q.stack = p.stack /\ q.got = p.got
  BY DEF CallRecords, Waits
<1> HIDE DEF q
<1>2. e # None
  BY Distinct
<1>3. Walks(q)
  BY <1>1, <1>2 DEF Walks, Active, AtEntry, Level
<1> QED BY <1>1, <1>3 DEF q

\* getExecutableFrom...: the executable is there, or its reflection is awaited.
LEMMA LookupKeeps == ASSUME Kept, NEW c \in Calls, Lookup(c) PROVE Kept'
<1> DEFINE existing == Existing(Wanted(c))
<1>1. Active(reg[c]) /\ Wanted(c) # None
  BY DEF Lookup, Active
<1>2. /\ Wanted(c) \in Items /\ Wanted(c).kind \in ExecKinds /\ Wanted(c).id \in Ids
      /\ AtEntry(reg[c]) => Wanted(c) = Level(reg[c]).items[Level(reg[c]).i]
      /\ reg[c].phase = "walk" /\ ~AtEntry(reg[c]) => Siblings(Level(reg[c])) # {}
  BY <1>1, CallFacts, WantedItem
<1>3. existing \in Executables \cup {None}
  BY <1>2 DEF Existing, Kept, RegistryTypes
<1>4. CASE existing # None
  <2> DEFINE q == [reg[c] EXCEPT !.wait = "tick", !.held = existing]
  <2>1. existing.kind = Wanted(c).kind /\ existing.id = Wanted(c).id
    BY <1>2, <1>4 DEF Existing, Kept, FiledRight
  <2>2. AtEntry(reg[c]) => /\ existing.id = Level(reg[c]).items[Level(reg[c]).i].id
                           /\ existing.kind = Level(reg[c]).items[Level(reg[c]).i].kind
    BY <1>2, <2>1
  <2>a. reg[c] \in CallRecords /\ Walks(reg[c]) /\ existing \in Executables
    BY <1>3, <1>4, CallFacts
  <2> HIDE DEF existing
  <2>b. q \in CallRecords /\ Walks(q) /\ q.n = reg[c].n /\ q.wait = "tick"
    BY <1>1, <1>2, <2>2, <2>a, HeldWalks
  <2>3. Become(c, q) /\ UNCHANGED <<setup, initialized, registry, published>>
    BY <1>4 DEF Lookup, existing
  <2> HIDE DEF q
  <2> QED BY <1>1, <2>b, <2>3, CallFacts, QuietKeeps
<1>5. CASE existing = None
  <2> DEFINE q == [reg[c] EXCEPT !.wait = "reflect"]
  <2>1. /\ q \in CallRecords /\ q.n = reg[c].n /\ q.wait = "reflect" /\ q.held = reg[c].held
        /\ q.phase = reg[c].phase /\ q.stack = reg[c].stack /\ q.got = reg[c].got
    BY CallFacts DEF CallRecords, Waits
  <2>2. Become(c, q) /\ UNCHANGED <<setup, initialized, registry, published>>
    BY <1>5 DEF Lookup
  <2>3. reg[c].wait = "run" /\ reg[c].held = None
    BY CallFacts DEF Lookup, Walks
  <2> HIDE DEF q
  <2>4. Walks(q)
    BY <1>1, <2>1, <2>3, CallFacts DEF Walks, Active
  <2>5. reg'[c] = q
    BY <2>2 DEF Become, Kept, RegistryTypes
  <2>6. Wanted(c)' # None
    BY <1>1, <2>1, <2>2, <2>5, WantedKept DEF setup
  <2> QED BY <1>1, <2>1, <2>2, <2>4, <2>6, CallFacts, QuietKeeps
<1> QED BY <1>4, <1>5

\* The executable that was made is filed under its own kind and id.
LEMMA ReflectedKeeps == ASSUME Kept, NEW c \in Calls, Reflected(c) PROVE Kept'
<1> DEFINE item == Wanted(c)
           made == Created(item, c)
           q == [reg[c] EXCEPT !.wait = "tick", !.held = made]
<1>1. Active(reg[c]) /\ Wanted(c) # None
  BY DEF Reflected, Active, Kept, CallsRight
<1>2. /\ item \in Items /\ item.kind \in ExecKinds /\ item.id \in Ids /\ item.public \in BOOLEAN
      /\ AtEntry(reg[c]) => item = Level(reg[c]).items[Level(reg[c]).i]
      /\ reg[c].phase = "walk" /\ ~AtEntry(reg[c]) => Siblings(Level(reg[c])) # {}
  BY <1>1, CallFacts, WantedItem
<1>3. made \in Executables /\ made.kind = item.kind /\ made.id = item.id
  BY <1>2 DEF Created, Executables
<1>4. /\ byId' = [byId EXCEPT ![item.kind][item.id] = made] /\ Become(c, q)
      /\ UNCHANGED <<awaited, startDef, endDef, initialized, names, flat, deps, startFns, endFns, published>>
  BY DEF Reflected, setup
<1>a. AtEntry(reg[c]) => /\ made.id = Level(reg[c]).items[Level(reg[c]).i].id
                         /\ made.kind = Level(reg[c]).items[Level(reg[c]).i].kind
  BY <1>2, <1>3
<1>b. reg[c] \in CallRecords /\ Walks(reg[c])
  BY CallFacts
<1> HIDE DEF item, made
<1>5. q \in CallRecords /\ Walks(q) /\ q.n = reg[c].n /\ q.wait = "tick"
  BY <1>1, <1>2, <1>3, <1>a, <1>b, HeldWalks
<1> HIDE DEF q
<1>6. reg' \in [Calls -> CallRecords] /\ CallsRight'
  BY <1>1, <1>4, <1>5, CallFacts, OneCall
<1>7. byId' \in [ExecKinds -> [Ids -> Executables \cup {None}]]
  BY <1>2, <1>3, <1>4 DEF Kept, RegistryTypes
<1>8. \A k \in ExecKinds, id \in Ids :
        byId'[k][id] = IF k = item.kind /\ id = item.id THEN made ELSE byId[k][id]
  BY <1>2, <1>4 DEF Kept, RegistryTypes
<1>9. FiledRight'
  BY <1>2, <1>3, <1>8 DEF Kept, FiledRight
<1>10. RegistryTypes'
  BY <1>4, <1>6, <1>7 DEF Kept, RegistryTypes
<1>11. ChainsRight'
  BY <1>4 DEF Kept, ChainsRight, Registered, RouteOf
<1> QED BY <1>6, <1>9, <1>10, <1>11 DEF Kept
\* start and end middleFns are collected one by one.
LEMMA ReceiveOuterKeeps == ASSUME Kept, NEW c \in Calls, ReceiveOuter(c) PROVE Kept'
<1> DEFINE q == [reg[c] EXCEPT !.wait = "run", !.held = None, !.got = Append(@, reg[c].held)]
<1>1. reg[c] \in CallRecords /\ Walks(reg[c]) /\ Active(reg[c]) /\ reg[c].held \in Executables
  BY CallFacts DEF ReceiveOuter, CallRecords, Active
<1>2. Append(reg[c].got, reg[c].held) \in Seq(Executables)
  BY <1>1 DEF CallRecords
<1>3. /\ q \in CallRecords /\ q.n = reg[c].n /\ q.wait = "run" /\ q.held = None
      /\ q.phase = reg[c].phase /\ q.stack = reg[c].stack
  BY <1>1, <1>2 DEF CallRecords, Waits
<1>4. Become(c, q) /\ UNCHANGED <<setup, initialized, registry, published>> /\ reg[c].phase # "walk"
  BY DEF ReceiveOuter
<1> HIDE DEF q
<1>5. Walks(q)
  BY <1>1, <1>3, <1>4 DEF Walks
<1> QED BY <1>1, <1>3, <1>4, <1>5, CallFacts, QuietKeeps

\* A call that goes on at its level.
LEMMA LevelWalks ==
  ASSUME Kept, NEW c \in Calls, Active(reg[c]), reg[c].phase = "walk",
         NEW p \in CallRecords, p.stack = reg[c].stack, p.phase = "walk", p.held = None,
         NEW f \in Levels, AtItem(f)
  PROVE  /\ SetTop(p, f) \in CallRecords /\ Walks(SetTop(p, f)) /\ Level(SetTop(p, f)) = f
         /\ SetTop(p, f).n = p.n /\ SetTop(p, f).wait = p.wait /\ SetTop(p, f).held = None
         /\ SetTop(p, f).phase = "walk" /\ SetTop(p, f).got = p.got
         /\ DOMAIN SetTop(p, f).stack = DOMAIN reg[c].stack /\ Len(SetTop(p, f).stack) = Len(reg[c].stack)
         /\ \A k \in DOMAIN reg[c].stack : k # Len(reg[c].stack) => SetTop(p, f).stack[k] = reg[c].stack[k]
<1> DEFINE q == SetTop(p, f)
<1>1. p.stack # <<>>
  BY WalkFacts
<1>2. /\ q \in CallRecords /\ q = [p EXCEPT !.stack = q.stack]
      /\ DOMAIN q.stack = DOMAIN p.stack /\ Level(q) = f /\ Len(q.stack) = Len(p.stack)
      /\ \A k \in DOMAIN p.stack : k # Len(p.stack) => q.stack[k] = p.stack[k]
  BY <1>1, TopSet
<1> HIDE DEF q
<1>3. q.n = p.n /\ q.wait = p.wait /\ q.held = None /\ q.phase = "walk" /\ q.got = p.got
  BY <1>2 DEF CallRecords
<1>4. reg[c] \in CallRecords /\ Walks(reg[c])
  BY CallFacts
<1>5. Walks(q)
  BY <1>2, <1>3, <1>4, StepWalks
<1> QED BY <1>2, <1>3, <1>5 DEF q

\* What the level of an entry becomes when its executable has arrived.
Entered(f, e) ==
  [f EXCEPT !.own = e,
            !.preLevel = IF BetweenRoutes(f) THEN @ ELSE <<>>,
            !.postLevel = IF BetweenRoutes(f) THEN @ ELSE <<>>,
            !.next = IF BetweenRoutes(f) THEN Len(f.items) + 1 ELSE 1]

\* It stands where it stood, with that executable.
LEMMA EnteredLevel ==
  ASSUME NEW f \in Levels, AtItem(f), NEW e \in Executables \cup Items,
         e \in Executables \/ e.kind = "group"
  PROVE  /\ Entered(f, e) \in Levels /\ AtItem(Entered(f, e)) /\ Entered(f, e).own = e
         /\ Entered(f, e).i = f.i /\ Entered(f, e).items = f.items
         /\ Entered(f, e).pre = f.pre /\ Entered(f, e).post = f.post
         /\ Entered(f, e).preLevel \in {f.preLevel, <<>>} /\ Entered(f, e).postLevel \in {f.postLevel, <<>>}
<1>1. Len(f.items) + 1 \in Nat \ {0} /\ f.items \in Seq(Items)
  BY DEF Levels
<1> DEFINE pre == IF BetweenRoutes(f) THEN f.preLevel ELSE <<>>
           post == IF BetweenRoutes(f) THEN f.postLevel ELSE <<>>
           next == IF BetweenRoutes(f) THEN Len(f.items) + 1 ELSE 1
<1>a. pre \in Seq(Executables) /\ post \in Seq(Executables) /\ next \in Nat \ {0}
  BY <1>1 DEF Levels
<1>b. Entered(f, e) = [f EXCEPT !.own = e, !.preLevel = pre, !.postLevel = post, !.next = next]
  BY DEF Entered
<1> HIDE DEF pre, post, next
<1>2. Entered(f, e) \in Levels
  BY <1>a, <1>b DEF Levels
<1> USE DEF pre, post, next
<1>3. /\ Entered(f, e).own = e /\ Entered(f, e).i = f.i /\ Entered(f, e).items = f.items
      /\ Entered(f, e).pre = f.pre /\ Entered(f, e).post = f.post
      /\ Entered(f, e).preLevel \in {f.preLevel, <<>>} /\ Entered(f, e).postLevel \in {f.postLevel, <<>>}
  BY DEF Entered, Levels
<1> HIDE DEF Entered
<1> QED BY <1>2, <1>3 DEF AtItem

\* Entry i has its executable: the name is taken, or becomes the entry's.
LEMMA EntryArrives ==
  ASSUME Kept, NEW c \in Calls, ReceiveEntry(c)
  PROVE  LET p == [reg[c] EXCEPT !.wait = "run", !.held = None]
             q == SetTop(p, Entered(Level(reg[c]), reg[c].held))
         IN /\ reg[c].held \in Executables /\ reg[c].held.id = Entry(c).id /\ reg[c].held.kind = Entry(c).kind
            /\ AtEntry(reg[c]) /\ Active(reg[c]) /\ reg[c].wait = "tick"
            /\ \/ Entry(c).id \in names[NameClass(Entry(c).kind)] /\ Fail(c) /\ names' = names
               \/ /\ Entry(c).id \notin names[NameClass(Entry(c).kind)] /\ names' = Named(Entry(c))
                  /\ Become(c, q) /\ q \in CallRecords /\ Walks(q)
                  /\ Level(q) = Entered(Level(reg[c]), reg[c].held)
                  /\ q.n = reg[c].n /\ q.wait = "run" /\ q.held = None /\ q.phase = "walk" /\ q.got = reg[c].got
                  /\ DOMAIN q.stack = DOMAIN reg[c].stack /\ Len(q.stack) = Len(reg[c].stack)
                  /\ \A k \in DOMAIN reg[c].stack : k # Len(reg[c].stack) => q.stack[k] = reg[c].stack[k]
            /\ UNCHANGED <<setup, initialized, byId, flat, deps, startFns, endFns, published>>
<1> DEFINE f == Level(reg[c])
           p == [reg[c] EXCEPT !.wait = "run", !.held = None]
           q == SetTop(p, Entered(f, reg[c].held))
<1>1. reg[c] \in CallRecords /\ Walks(reg[c]) /\ Active(reg[c]) /\ reg[c].phase = "walk" /\ reg[c].wait = "tick"
  BY CallFacts DEF ReceiveEntry, Active
<1>2. Top(c) = f /\ f \in Levels /\ AtItem(f) /\ Entry(c) = f.items[f.i]
  BY <1>1, WalkFacts
<1>3. reg[c].held # None /\ f.own = None /\ reg[c].held \in Executables
  BY <1>1, <1>2 DEF ReceiveEntry, CallRecords
<1>4. AtEntry(reg[c])
  BY <1>1, <1>3 DEF AtEntry
<1>5. reg[c].held.id = Entry(c).id /\ reg[c].held.kind = Entry(c).kind
  BY <1>1, <1>2, <1>3, <1>4 DEF Walks
<1>6. Entered(f, reg[c].held) \in Levels /\ AtItem(Entered(f, reg[c].held))
  BY <1>2, <1>3, EnteredLevel
<1>7. /\ p \in CallRecords /\ p.stack = reg[c].stack /\ p.phase = "walk" /\ p.held = None
      /\ p.n = reg[c].n /\ p.wait = "run" /\ p.got = reg[c].got
  BY <1>1 DEF CallRecords, Waits
<1>8. UNCHANGED <<setup, initialized, byId, flat, deps, startFns, endFns, published>>
  BY DEF ReceiveEntry
<1>9. CASE Entry(c).id \in names[NameClass(Entry(c).kind)]
  <2>1. Fail(c) /\ names' = names
    BY <1>9 DEF ReceiveEntry
  <2> QED BY <1>1, <1>3, <1>4, <1>5, <1>8, <1>9, <2>1
<1>10. CASE Entry(c).id \notin names[NameClass(Entry(c).kind)]
  <2>1. names' = Named(Entry(c)) /\ Become(c, q)
    BY <1>2, <1>10 DEF ReceiveEntry, Entered
  <2> HIDE DEF p, f
  <2>2. /\ q \in CallRecords /\ Walks(q) /\ Level(q) = Entered(f, reg[c].held)
        /\ q.n = p.n /\ q.wait = p.wait /\ q.held = None /\ q.phase = "walk" /\ q.got = p.got
        /\ DOMAIN q.stack = DOMAIN reg[c].stack /\ Len(q.stack) = Len(reg[c].stack)
        /\ \A k \in DOMAIN reg[c].stack : k # Len(reg[c].stack) => q.stack[k] = reg[c].stack[k]
    BY <1>1, <1>6, <1>7, LevelWalks
  <2> HIDE DEF q
  <2>3. /\ q \in CallRecords /\ Walks(q) /\ Level(q) = Entered(f, reg[c].held)
        /\ q.n = reg[c].n /\ q.wait = "run" /\ q.held = None /\ q.phase = "walk" /\ q.got = reg[c].got
        /\ DOMAIN q.stack = DOMAIN reg[c].stack /\ Len(q.stack) = Len(reg[c].stack)
        /\ \A k \in DOMAIN reg[c].stack : k # Len(reg[c].stack) => q.stack[k] = reg[c].stack[k]
    BY <1>7, <2>2
  <2> QED BY <1>1, <1>3, <1>4, <1>5, <1>8, <1>10, <2>1, <2>3 DEF q, p, f
<1> QED BY <1>9, <1>10

\* A name is added to those of its class.
LEMMA NamedTyped ==
  ASSUME RegistryTypes, NEW item \in Items, item.kind \in ExecKinds
  PROVE  /\ Named(item) \in [{"route", "middleFn"} -> SUBSET Ids]
         /\ Named(item)["route"] = IF item.kind = "route" THEN names["route"] \cup {item.id} ELSE names["route"]
         /\ NameClass(item.kind) = "route" <=> item.kind = "route"
<1>1. item.id \in Ids /\ names \in [{"route", "middleFn"} -> SUBSET Ids]
  BY Distinct DEF RegistryTypes
<1>2. NameClass(item.kind) \in {"route", "middleFn"} /\ (NameClass(item.kind) = "route" <=> item.kind = "route")
  BY DEF NameClass
<1> QED BY <1>1, <1>2 DEF Named

\* An entry is named once its executable has arrived.
LEMMA ReceiveEntryKeeps == ASSUME Kept, NEW c \in Calls, ReceiveEntry(c) PROVE Kept'
<1> DEFINE q == SetTop([reg[c] EXCEPT !.wait = "run", !.held = None], Entered(Level(reg[c]), reg[c].held))
<1>1. UNCHANGED <<setup, initialized, byId, flat, deps, startFns, endFns, published>> /\ Active(reg[c])
  BY EntryArrives
<1>2. CASE Fail(c) /\ names' = names
  BY <1>1, <1>2, FailKeeps DEF registry
<1>3. CASE names' = Named(Entry(c)) /\ Become(c, q) /\ q \in CallRecords /\ Walks(q) /\ q.n = reg[c].n /\ q.wait = "run"
  <2> HIDE DEF q
  <2>1. reg' \in [Calls -> CallRecords] /\ CallsRight'
    BY <1>1, <1>3, CallFacts, OneCall DEF setup
  <2>2. Entry(c) \in Items /\ Entry(c).kind \in ExecKinds
    BY EntryArrives, WalkFacts, Distinct DEF AtEntry
  <2>3. names' \in [{"route", "middleFn"} -> SUBSET Ids]
    BY <1>3, <2>2, CallFacts, NamedTyped
  <2>4. RegistryTypes'
    BY <1>1, <2>1, <2>3 DEF Kept, RegistryTypes, setup
  <2>5. FiledRight' /\ ChainsRight'
    BY <1>1 DEF Kept, FiledRight, ChainsRight, Registered, RouteOf
  <2> QED BY <2>1, <2>4, <2>5 DEF Kept
<1> QED BY <1>2, <1>3, EntryArrives
\* The middleFns around an entry.
LEMMA AroundTyped ==
  ASSUME NEW f \in Levels
  PROVE  Before(f) \in Seq(Executables) /\ After(f) \in Seq(Executables)
<1>1. f.pre \in Seq(Executables) /\ f.preLevel \in Seq(Executables)
      /\ f.post \in Seq(Executables) /\ f.postLevel \in Seq(Executables)
  BY DEF Levels
<1> QED BY <1>1, ConcatProperties DEF Before, After

\* A level that is given another entry is a level.
LEMMA NewEntryLevel ==
  ASSUME NEW f \in Levels, NEW own \in Executables \cup Items \cup {None}, NEW n \in Nat \ {0},
         NEW pre \in Seq(Executables), NEW post \in Seq(Executables)
  PROVE  [f EXCEPT !.own = own, !.next = n, !.preLevel = pre, !.postLevel = post] \in Levels
BY DEF Levels

\* A walk enters a group with nothing around it yet.
LEMMA GroupEntered ==
  ASSUME Kept, NEW c \in Calls, EnterGroup(c)
  PROVE  \E f \in Levels :
           /\ f.own \in Items /\ f.own.kind = "group" /\ AtItem(f)
           /\ f.pre = Level(reg[c]).pre /\ f.post = Level(reg[c]).post /\ f.preLevel = <<>> /\ f.postLevel = <<>>
           /\ f.i = Level(reg[c]).i /\ f.items = Level(reg[c]).items /\ f.own = f.items[f.i] /\ f.next = 1
           /\ Become(c, SetTop(reg[c], f)) /\ AtEntry(reg[c])
           /\ Active(reg[c]) /\ reg[c].wait = "run" /\ reg[c].held = None
           /\ UNCHANGED <<setup, initialized, registry, published>>
<1> DEFINE old == Level(reg[c])
           none == <<>>
           f == [old EXCEPT !.own = Entry(c), !.next = 1, !.preLevel = none, !.postLevel = none]
<1>1. reg[c] \in CallRecords /\ Walks(reg[c]) /\ Active(reg[c]) /\ reg[c].phase = "walk" /\ reg[c].wait = "run"
  BY CallFacts DEF EnterGroup, Running, Active
<1>2. Top(c) = old /\ old \in Levels /\ AtItem(old) /\ Entry(c) \in Items /\ Entry(c).kind = "group"
  BY <1>1, WalkFacts DEF EnterGroup
<1>3. reg[c].held = None /\ AtEntry(reg[c])
  BY <1>1, <1>2 DEF Walks, EnterGroup, AtEntry
<1>a. none \in Seq(Executables) /\ 1 \in Nat \ {0}
  BY EmptySequences
<1>4. f \in Levels
  <2> HIDE DEF none, old
  <2> QED BY <1>2, <1>a, NewEntryLevel
<1>5. /\ f.own = Entry(c) /\ f.i = old.i /\ f.items = old.items /\ f.pre = old.pre /\ f.post = old.post
      /\ f.preLevel = <<>> /\ f.postLevel = <<>> /\ f.next = 1
  BY <1>2 DEF Levels
<1>6. Become(c, SetTop(reg[c], f)) /\ UNCHANGED <<setup, initialized, registry, published>>
  BY <1>2 DEF EnterGroup
<1> HIDE DEF f
<1>7. AtItem(f)
  BY <1>2, <1>5 DEF AtItem
<1>8. f.own = f.items[f.i]
  BY <1>1, <1>5, WalkFacts
<1> QED BY <1>1, <1>2, <1>3, <1>4, <1>5, <1>6, <1>7, <1>8

\* EnterGroup
LEMMA EnterGroupKeeps == ASSUME Kept, NEW c \in Calls, EnterGroup(c) PROVE Kept'
<1>1. PICK f \in Levels :
           /\ f.own \in Items /\ f.own.kind = "group" /\ AtItem(f)
           /\ Become(c, SetTop(reg[c], f)) /\ AtEntry(reg[c])
           /\ Active(reg[c]) /\ reg[c].wait = "run" /\ reg[c].held = None
           /\ UNCHANGED <<setup, initialized, registry, published>>
  BY GroupEntered
<1> DEFINE q == SetTop(reg[c], f)
<1>2. q \in CallRecords /\ Walks(q) /\ q.n = reg[c].n /\ q.wait = "run"
  BY <1>1, CallFacts, LevelWalks DEF AtEntry
<1>3. Become(c, q)
  BY <1>1
<1> HIDE DEF q
<1> QED BY <1>1, <1>2, <1>3, CallFacts, QuietKeeps

\* A sibling of the entry is filed before or after it.
LEMMA SiblingReceived ==
  ASSUME Kept, NEW c \in Calls, ReceiveSibling(c)
  PROVE  \E f \in Levels :
           /\ AtItem(f) /\ f.own = Level(reg[c]).own /\ f.own # None
           /\ f.pre = Level(reg[c]).pre /\ f.post = Level(reg[c]).post
           /\ f.i = Level(reg[c]).i /\ f.items = Level(reg[c]).items
           /\ f.next = Lowest(Siblings(Level(reg[c]))) + 1
           /\ \/ /\ DeclaredBefore(f, Lowest(Siblings(Level(reg[c]))))
                 /\ f.preLevel = Append(Level(reg[c]).preLevel, reg[c].held) /\ f.postLevel = Level(reg[c]).postLevel
              \/ /\ ~DeclaredBefore(f, Lowest(Siblings(Level(reg[c]))))
                 /\ f.postLevel = Append(Level(reg[c]).postLevel, reg[c].held) /\ f.preLevel = Level(reg[c]).preLevel
           /\ Become(c, SetTop([reg[c] EXCEPT !.wait = "run", !.held = None], f))
           /\ Active(reg[c]) /\ reg[c].wait = "tick" /\ reg[c].held \in Executables /\ reg[c].phase = "walk"
           /\ UNCHANGED <<setup, initialized, registry, published>>
<1> DEFINE old == Level(reg[c])
           j == Lowest(Siblings(old))
           f2 == [old EXCEPT !.next = j + 1]
           e == reg[c].held
<1>1. reg[c] \in CallRecords /\ Walks(reg[c]) /\ Active(reg[c]) /\ reg[c].phase = "walk" /\ reg[c].wait = "tick"
  BY CallFacts DEF ReceiveSibling, Active
<1>2. Top(c) = old /\ old \in Levels /\ AtItem(old)
  BY <1>1, WalkFacts
<1>3. old.own # None /\ e \in Executables
  BY <1>1, <1>2 DEF ReceiveSibling, CallRecords
<1>4. PICK f : f = IF DeclaredBefore(old, j) THEN [f2 EXCEPT !.preLevel = Append(@, e)]
                                             ELSE [f2 EXCEPT !.postLevel = Append(@, e)]
  OBVIOUS
<1>5. Become(c, SetTop([reg[c] EXCEPT !.wait = "run", !.held = None], f)) /\ UNCHANGED <<setup, initialized, registry, published>>
  BY <1>2, <1>4 DEF ReceiveSibling
<1>6. Append(old.preLevel, e) \in Seq(Executables) /\ Append(old.postLevel, e) \in Seq(Executables)
  BY <1>2, <1>3 DEF Levels
<1>7. j + 1 \in Nat \ {0}
  <2>1. Siblings(old) \in SUBSET Nat /\ old.next \in Nat
    BY <1>2 DEF Siblings, Levels
  <2>2. Siblings(old) # {}
    BY <1>1, <1>3, Distinct DEF Walks
  <2> QED BY <2>1, <2>2, LowestIn
<1>8. f2 \in Levels
  BY <1>2, <1>7 DEF Levels
<1>9. /\ f2.own = old.own /\ f2.i = old.i /\ f2.items = old.items /\ f2.pre = old.pre /\ f2.post = old.post
      /\ f2.preLevel = old.preLevel /\ f2.postLevel = old.postLevel /\ f2.next = j + 1
  BY <1>2 DEF Levels
<1> HIDE DEF f2, e, j, old
<1>10. /\ f \in Levels /\ f.own = old.own /\ f.i = old.i /\ f.items = old.items /\ f.pre = old.pre /\ f.post = old.post
       /\ f.next = j + 1
       /\ \/ DeclaredBefore(old, j) /\ f.preLevel = Append(old.preLevel, e) /\ f.postLevel = old.postLevel
          \/ ~DeclaredBefore(old, j) /\ f.postLevel = Append(old.postLevel, e) /\ f.preLevel = old.preLevel
  <2>1. CASE DeclaredBefore(old, j)
    BY <1>4, <1>6, <1>8, <1>9, <2>1 DEF Levels
  <2>2. CASE ~DeclaredBefore(old, j)
    BY <1>4, <1>6, <1>8, <1>9, <2>2 DEF Levels
  <2> QED BY <2>1, <2>2
<1>11. AtItem(f)
  BY <1>2, <1>10 DEF AtItem
<1>12. DeclaredBefore(f, j) <=> DeclaredBefore(old, j)
  BY <1>10 DEF DeclaredBefore
<1> QED BY <1>1, <1>3, <1>5, <1>10, <1>11, <1>12 DEF old, e, j
\* A call whose hands are empty again runs on.
LEMMA RunsOn ==
  ASSUME NEW q \in CallRecords, NEW w \in {"run", "tick"}
  PROVE  LET p == [q EXCEPT !.wait = w, !.held = None] IN
           /\ p \in CallRecords /\ p.wait = w /\ p.held = None /\ p.n = q.n /\ p.phase = q.phase
           /\ p.stack = q.stack /\ p.got = q.got
BY DEF CallRecords, Waits

\* ReceiveSibling
LEMMA ReceiveSiblingKeeps == ASSUME Kept, NEW c \in Calls, ReceiveSibling(c) PROVE Kept'
<1> DEFINE p == [reg[c] EXCEPT !.wait = "run", !.held = None]
<1>1. PICK f \in Levels :
        /\ AtItem(f) /\ Become(c, SetTop(p, f))
        /\ Active(reg[c]) /\ reg[c].phase = "walk"
        /\ UNCHANGED <<setup, initialized, registry, published>>
  BY SiblingReceived
<1>2. /\ p \in CallRecords /\ p.wait = "run" /\ p.held = None /\ p.n = reg[c].n /\ p.phase = reg[c].phase
      /\ p.stack = reg[c].stack
  BY CallFacts, RunsOn
<1> HIDE DEF p
<1> DEFINE q == SetTop(p, f)
<1>3. q \in CallRecords /\ Walks(q) /\ q.n = reg[c].n /\ q.wait = "run"
  BY <1>1, <1>2, LevelWalks
<1>4. Become(c, q)
  BY <1>1
<1> HIDE DEF q
<1> QED BY <1>1, <1>3, <1>4, CallFacts, QuietKeeps

\* The middleFns before every chain are ready.
LEMMA StartCollected ==
  ASSUME Kept, NEW c \in Calls, StartReady(c)
  PROVE  \E q \in CallRecords :
           /\ Become(c, q) /\ Walks(q) /\ q.n = reg[c].n /\ q.wait = "run" /\ q.phase = "end" /\ q.got = <<>>
           /\ q.held = None /\ q.stack = reg[c].stack /\ reg[c].got \in Seq(Executables)
           /\ startFns' = reg[c].got /\ Active(reg[c]) /\ reg[c].wait = "run" /\ reg[c].phase = "start"
           /\ UNCHANGED <<setup, initialized, byId, names, flat, deps, endFns, published>>
<1> DEFINE none == <<>>
           q == [reg[c] EXCEPT !.phase = "end", !.got = none]
<1>1. reg[c] \in CallRecords /\ Walks(reg[c]) /\ reg[c].wait = "run" /\ Active(reg[c]) /\ reg[c].phase = "start"
  BY CallFacts DEF StartReady, Running, Active
<1>2. none \in Seq(Executables)
  BY EmptySequences
<1>3. Become(c, q) /\ startFns' = reg[c].got /\ UNCHANGED <<setup, initialized, byId, names, flat, deps, endFns, published>>
  BY DEF StartReady
<1>4. reg[c].held = None
  BY <1>1 DEF Walks
<1> HIDE DEF none
<1>5. /\ q \in CallRecords /\ q.n = reg[c].n /\ q.wait = "run" /\ q.phase = "end" /\ q.held = None
      /\ q.stack = reg[c].stack /\ q.got = none /\ reg[c].got \in Seq(Executables)
  BY <1>1, <1>2, <1>4 DEF CallRecords, Phases
<1> HIDE DEF q
<1>6. Walks(q)
  BY <1>1, <1>5 DEF Walks
<1> QED BY <1>1, <1>3, <1>5, <1>6 DEF none

\* StartReady
LEMMA StartReadyKeeps == ASSUME Kept, NEW c \in Calls, StartReady(c) PROVE Kept'
<1>1. PICK q \in CallRecords :
           /\ Become(c, q) /\ Walks(q) /\ q.n = reg[c].n /\ q.wait = "run"
           /\ startFns' = reg[c].got /\ reg[c].got \in Seq(Executables) /\ Active(reg[c])
           /\ UNCHANGED <<setup, initialized, byId, names, flat, deps, endFns, published>>
  BY StartCollected
<1>2. reg' \in [Calls -> CallRecords] /\ CallsRight'
  BY <1>1, CallFacts, OneCall DEF setup
<1>3. RegistryTypes'
  BY <1>1, <1>2 DEF Kept, RegistryTypes, setup
<1>4. FiledRight' /\ ChainsRight'
  BY <1>1 DEF Kept, FiledRight, ChainsRight, Registered, RouteOf
<1> QED BY <1>2, <1>3, <1>4 DEF Kept

\* The first level of a tree, or of a group, with what is around it.
LEMMA FrameLevel ==
  ASSUME NEW tree \in Seq(Items), tree # <<>>, NEW pre \in Seq(Executables), NEW post \in Seq(Executables)
  PROVE  LET f == Frame(tree, pre, post) IN
           /\ f \in Levels /\ AtItem(f) /\ f.own = None /\ f.pre = pre /\ f.post = post
           /\ f.preLevel = <<>> /\ f.postLevel = <<>> /\ f.i = 1 /\ f.items = tree
<1> DEFINE f == Frame(tree, pre, post)
<1>1. f \in Levels
  BY EmptySequences DEF Frame, Levels
<1>2. f.own = None /\ f.pre = pre /\ f.post = post /\ f.i = 1 /\ f.items = tree /\ f.preLevel = <<>> /\ f.postLevel = <<>>
  BY DEF Frame
<1> HIDE DEF f
<1>3. AtItem(f)
  BY <1>2 DEF AtItem
<1> QED BY <1>1, <1>2, <1>3 DEF f

\* The walk of a tree begins, or the tree is refused.
LEMMA WalkBegun ==
  ASSUME Kept, NEW c \in Calls, EndReady(c)
  PROVE  /\ \/ Fail(c)
            \/ \E q \in CallRecords, f \in Levels :
                 /\ Become(c, q) /\ Walks(q) /\ q.n = reg[c].n /\ q.wait = "run" /\ q.phase = "walk" /\ q.got = <<>>
                 /\ q.held = None /\ q.stack = <<f>> /\ f.own = None
                 /\ f.pre = <<>> /\ f.post = <<>> /\ f.preLevel = <<>> /\ f.postLevel = <<>>
                 /\ f.i = 1 /\ f.items = Trees[c][reg[c].n] /\ f.items # <<>>
         /\ endFns' = reg[c].got /\ Active(reg[c]) /\ reg[c].wait = "run" /\ reg[c].phase = "end"
         /\ reg[c].got \in Seq(Executables)
         /\ UNCHANGED <<setup, initialized, byId, names, flat, deps, startFns, published>>
<1> DEFINE none == <<>>
           tree == Trees[c][reg[c].n]
           f == Frame(tree, none, none)
           s == <<f>>
           q == [reg[c] EXCEPT !.phase = "walk", !.got = none, !.stack = s]
<1>1. reg[c] \in CallRecords /\ Walks(reg[c]) /\ reg[c].wait = "run" /\ Active(reg[c]) /\ reg[c].phase = "end"
  BY CallFacts DEF EndReady, Running, Active
<1>2. none \in Seq(Executables) /\ reg[c].held = None /\ reg[c].got \in Seq(Executables)
  BY <1>1, EmptySequences DEF Walks, CallRecords
<1>3. tree \in Seq(Items)
  BY CallFacts, TreesAssumption
<1>4. endFns' = reg[c].got /\ UNCHANGED <<setup, initialized, byId, names, flat, deps, startFns, published>>
  BY DEF EndReady
<1>5. CASE tree = <<>>
  BY <1>1, <1>2, <1>4, <1>5 DEF EndReady
<1>6. CASE tree # <<>>
  <2>1. Become(c, q)
    BY <1>6 DEF EndReady
  <2> HIDE DEF tree
  <2>2. /\ f \in Levels /\ AtItem(f) /\ f.own = None /\ f.pre = none /\ f.post = none
        /\ f.preLevel = <<>> /\ f.postLevel = <<>> /\ f.i = 1 /\ f.items = tree /\ f.items # <<>>
    <3> HIDE DEF none
    <3> QED BY <1>2, <1>3, <1>6, FrameLevel
  <2> HIDE DEF f
  <2>3. s \in Seq(Levels) /\ Len(s) = 1 /\ s[1] = f /\ DOMAIN s = {1} /\ s # <<>>
    BY <2>2
  <2> HIDE DEF s, none
  <2>4. /\ q \in CallRecords /\ q.n = reg[c].n /\ q.wait = "run" /\ q.phase = "walk" /\ q.got = none
        /\ q.held = None /\ q.stack = s
    BY <1>1, <1>2, <2>3 DEF CallRecords, Phases
  <2> HIDE DEF q
  <2>a. \A k \in DOMAIN q.stack : k = 1 /\ q.stack[k] = f /\ ~(k < Len(q.stack))
    <3>1. \A k \in DOMAIN s : k = 1 /\ s[k] = f /\ ~(k < Len(s))
      BY <2>3
    <3> QED BY <3>1, <2>4
  <2>b. q.stack # <<>>
    BY <2>3, <2>4
  <2>5. Walks(q)
    BY <2>2, <2>4, <2>a, <2>b DEF Walks
  <2> QED BY <1>1, <1>2, <1>4, <2>1, <2>2, <2>4, <2>5 DEF s, none, tree
<1> QED BY <1>5, <1>6

\* EndReady
LEMMA EndReadyKeeps == ASSUME Kept, NEW c \in Calls, EndReady(c) PROVE Kept'
<1>1. /\ endFns' = reg[c].got /\ Active(reg[c]) /\ reg[c].got \in Seq(Executables)
      /\ UNCHANGED <<setup, initialized, byId, names, flat, deps, startFns, published>>
  BY WalkBegun
<1>2. \E q \in CallRecords :
        Become(c, q) /\ Walks(q) /\ q.n = reg[c].n /\ q.wait \in {"run", "failed"}
  <2>1. CASE Fail(c)
    BY <2>1, CallFacts, FailedCall DEF Fail
  <2> QED BY <2>1, WalkBegun
<1>3. reg' \in [Calls -> CallRecords] /\ CallsRight'
  BY <1>1, <1>2, CallFacts, OneCall DEF setup
<1>4. RegistryTypes'
  BY <1>1, <1>3 DEF Kept, RegistryTypes, setup
<1>5. FiledRight' /\ ChainsRight'
  BY <1>1 DEF Kept, FiledRight, ChainsRight, Registered, RouteOf
<1> QED BY <1>3, <1>4, <1>5 DEF Kept
\* Where a route is filed: with the middleFns around it, and itself in the middle.
LEMMA ChainFiled ==
  ASSUME Kept, NEW c \in Calls, SetChain(c)
  PROVE  LET f == Level(reg[c])
             chain == [routeIndex |-> Len(startFns) + Len(Before(f)) + 1, methods |-> MethodsOf(f),
                       by |-> c, n |-> reg[c].n]
         IN /\ f.own \in Executables /\ f.own.kind = "route" /\ f \in Levels
            /\ f.own.id \in Ids /\ f.own.by \in Calls
            /\ chain \in ExecutionChains /\ chain # None /\ RouteOf(chain) = f.own
            /\ chain.routeIndex \in DOMAIN chain.methods
            /\ flat' = [flat EXCEPT ![f.own.id] = chain] /\ deps' = WithDeps(f)
            /\ MethodsOf(f) \in Seq(Executables)
            /\ Become(c, [reg[c] EXCEPT !.wait = "tick", !.held = None])
            /\ Active(reg[c]) /\ reg[c].wait = "run" /\ reg[c].phase = "walk" /\ reg[c].held = None
            /\ UNCHANGED <<setup, initialized, byId, names, startFns, endFns, published>>
<1> DEFINE f == Level(reg[c])
           chain == [routeIndex |-> Len(startFns) + Len(Before(f)) + 1, methods |-> MethodsOf(f),
                     by |-> c, n |-> reg[c].n]
<1>1. reg[c] \in CallRecords /\ Walks(reg[c]) /\ reg[c].wait = "run" /\ Active(reg[c]) /\ reg[c].phase = "walk"
  BY CallFacts DEF SetChain, Running, Active
<1>2. Top(c) = f /\ f \in Levels /\ AtItem(f) /\ reg[c].held = None
  BY <1>1, WalkFacts DEF Walks
<1>3. f.own \in Executables /\ f.own.kind = "route" /\ f.own.id \in Ids /\ f.own.by \in Calls
  BY <1>2, Distinct DEF SetChain, Scanned, AtItem
<1>4. Before(f) \in Seq(Executables) /\ After(f) \in Seq(Executables) /\ startFns \in Seq(Executables) /\ endFns \in Seq(Executables)
  BY <1>2, AroundTyped DEF Kept, RegistryTypes
<1>5. /\ flat' = [flat EXCEPT ![f.own.id] = chain] /\ deps' = WithDeps(f)
      /\ UNCHANGED <<setup, initialized, byId, names, startFns, endFns, published>>
  BY <1>2 DEF SetChain
<1>6. Become(c, [reg[c] EXCEPT !.wait = "tick", !.held = None])
  <2>1. Become(c, [reg[c] EXCEPT !.wait = "tick"])
    BY DEF SetChain
  <2>2. [reg[c] EXCEPT !.wait = "tick"] = [reg[c] EXCEPT !.wait = "tick", !.held = None]
    BY <1>1, <1>2 DEF CallRecords
  <2> QED BY <2>1, <2>2
<1> DEFINE b == Before(f)
           a == After(f)
           at == Len(startFns) + Len(b) + 1
           ms == startFns \o b \o <<f.own>> \o a \o endFns
<1>7. MethodsOf(f) = ms
  BY DEF MethodsOf
<1> HIDE DEF f, b, a
<1>8. /\ <<f.own>> \in Seq(Executables) /\ Len(<<f.own>>) = 1 /\ <<f.own>>[1] = f.own
      /\ b \in Seq(Executables) /\ a \in Seq(Executables)
  BY <1>3, <1>4 DEF b, a
<1>9. /\ startFns \o b \in Seq(Executables) /\ Len(startFns \o b) = Len(startFns) + Len(b)
      /\ startFns \o b \o <<f.own>> \in Seq(Executables) /\ Len(startFns \o b \o <<f.own>>) = at
      /\ (startFns \o b \o <<f.own>>)[at] = f.own
  BY <1>4, <1>8
<1>10. /\ ms \in Seq(Executables) /\ at \in 1 .. Len(ms) /\ ms[at] = f.own
  <2> DEFINE h == startFns \o b \o <<f.own>>
  <2>1. h \in Seq(Executables) /\ Len(h) = at /\ h[at] = f.own /\ at \in Nat /\ at > 0
    BY <1>4, <1>8, <1>9
  <2> HIDE DEF h, at
  <2>2. h \o a \in Seq(Executables) /\ Len(h \o a) >= at /\ (h \o a)[at] = f.own
    BY <1>8, <2>1
  <2>3. (h \o a) \o endFns \in Seq(Executables) /\ Len((h \o a) \o endFns) >= at /\ ((h \o a) \o endFns)[at] = f.own
    BY <1>4, <2>1, <2>2
  <2> QED BY <2>1, <2>3 DEF h
<1> HIDE DEF ms, at
<1>11. chain.methods = ms /\ chain.routeIndex = at /\ chain \in ExecutionChains
  <2>1. chain.methods = ms /\ chain.routeIndex = at
    BY <1>7 DEF at, b
  <2>2. at \in Nat /\ ms \in Seq(Executables) /\ reg[c].n \in Nat
    BY <1>1, <1>10 DEF CallRecords
  <2>3. chain = [routeIndex |-> at, methods |-> ms, by |-> c, n |-> reg[c].n]
    BY <1>7 DEF at, b
  <2> HIDE DEF chain
  <2> QED BY <2>1, <2>2, <2>3 DEF ExecutionChains
<1> HIDE DEF chain
<1>12. RouteOf(chain) = f.own /\ chain.routeIndex \in DOMAIN chain.methods
  BY <1>10, <1>11 DEF RouteOf
<1>13. chain # None
  BY <1>11, NoneAssumption
<1> QED BY <1>1, <1>2, <1>3, <1>5, <1>6, <1>7, <1>10, <1>11, <1>12, <1>13 DEF f, chain

\* What metadata a route is given with its chain.
LEMMA DepsTyped ==
  ASSUME RegistryTypes, NEW f \in Levels, f.own \in Executables, MethodsOf(f) \in Seq(Executables)
  PROVE  /\ PublicMiddleFnIds(MethodsOf(f)) \in SUBSET Ids
         /\ WithDeps(f) \in [Ids \X Calls -> SUBSET Ids]
         /\ \A id \in Ids, d \in Calls :
              WithDeps(f)[<<id, d>>] =
                IF id = f.own.id /\ d = f.own.by /\ PublicMiddleFnIds(MethodsOf(f)) # {}
                  THEN PublicMiddleFnIds(MethodsOf(f)) ELSE deps[<<id, d>>]
<1>1. PublicMiddleFnIds(MethodsOf(f)) \in SUBSET Ids
  BY Distinct DEF PublicMiddleFnIds
<1>2. <<f.own.id, f.own.by>> \in Ids \X Calls /\ f.own.id \in Ids /\ f.own.by \in Calls
  BY Distinct
<1>3. deps \in [Ids \X Calls -> SUBSET Ids]
  BY DEF RegistryTypes
<1> DEFINE m == PublicMiddleFnIds(MethodsOf(f))
<1>4. WithDeps(f) = [deps EXCEPT ![<<f.own.id, f.own.by>>] = IF m = {} THEN @ ELSE m]
  BY DEF WithDeps
<1>5. m \in SUBSET Ids
  BY <1>1
<1> HIDE DEF m
<1>6. WithDeps(f) \in [Ids \X Calls -> SUBSET Ids]
  BY <1>2, <1>3, <1>4, <1>5
<1>7. ASSUME NEW id \in Ids, NEW d \in Calls
      PROVE  WithDeps(f)[<<id, d>>] = IF id = f.own.id /\ d = f.own.by /\ m # {} THEN m ELSE deps[<<id, d>>]
  BY <1>2, <1>3, <1>4
<1> QED BY <1>1, <1>6, <1>7 DEF m

\* SetChain
LEMMA SetChainKeeps == ASSUME Kept, NEW c \in Calls, SetChain(c) PROVE Kept'
<1> DEFINE f == Level(reg[c])
           chain == [routeIndex |-> Len(startFns) + Len(Before(f)) + 1, methods |-> MethodsOf(f),
                     by |-> c, n |-> reg[c].n]
           q == [reg[c] EXCEPT !.wait = "tick", !.held = None]
<1>1. /\ f.own \in Executables /\ f.own.kind = "route" /\ f \in Levels /\ f.own.id \in Ids
      /\ chain \in ExecutionChains /\ chain # None /\ RouteOf(chain) = f.own
      /\ chain.routeIndex \in DOMAIN chain.methods
      /\ flat' = [flat EXCEPT ![f.own.id] = chain] /\ deps' = WithDeps(f)
      /\ MethodsOf(f) \in Seq(Executables)
      /\ Become(c, q) /\ Active(reg[c]) /\ reg[c].phase = "walk"
      /\ UNCHANGED <<setup, initialized, byId, names, startFns, endFns, published>>
  BY ChainFiled
<1> HIDE DEF chain, f
<1>2. reg[c] \in CallRecords /\ Walks(reg[c])
  BY CallFacts
<1>3. /\ q \in CallRecords /\ q.wait = "tick" /\ q.held = None /\ q.n = reg[c].n /\ q.phase = "walk"
      /\ q.stack = reg[c].stack
  BY <1>1, <1>2, RunsOn
<1> HIDE DEF q
<1>4. Walks(q)
  BY <1>1, <1>2, <1>3 DEF Walks, Active
<1>5. reg' \in [Calls -> CallRecords] /\ CallsRight'
  BY <1>1, <1>3, <1>4, CallFacts, OneCall DEF setup
<1>6. deps' \in [Ids \X Calls -> SUBSET Ids]
  BY <1>1, CallFacts, DepsTyped
<1>7. flat' \in [Ids -> ExecutionChains \cup {None}] /\ \A id \in Ids : flat'[id] = IF id = f.own.id THEN chain ELSE flat[id]
  BY <1>1 DEF Kept, RegistryTypes
<1>8. RegistryTypes'
  BY <1>1, <1>5, <1>6, <1>7 DEF Kept, RegistryTypes, setup
<1>9. FiledRight'
  BY <1>1 DEF Kept, FiledRight
<1>10. ChainsRight'
  <2> SUFFICES ASSUME NEW id \in Ids, flat'[id] # None
               PROVE  /\ flat'[id].routeIndex \in DOMAIN flat'[id].methods
                      /\ RouteOf(flat'[id]).id = id /\ RouteOf(flat'[id]).kind = "route"
    BY DEF ChainsRight, Registered, RouteOf
  <2>1. CASE id = f.own.id
    BY <1>1, <1>7, <2>1
  <2>2. CASE id # f.own.id
    <3>1. flat'[id] = flat[id] /\ id \in Registered
      BY <1>7, <2>2 DEF Registered
    <3> QED BY <3>1 DEF Kept, ChainsRight
  <2> QED BY <2>1, <2>2
<1> QED BY <1>5, <1>8, <1>9, <1>10 DEF Kept

\* PassMiddleFn
LEMMA PassMiddleFnKeeps == ASSUME Kept, NEW c \in Calls, PassMiddleFn(c) PROVE Kept'
<1> DEFINE q == [reg[c] EXCEPT !.wait = "tick"]
<1>1. reg[c] \in CallRecords /\ Walks(reg[c]) /\ reg[c].wait = "run" /\ Active(reg[c]) /\ reg[c].phase = "walk"
  BY CallFacts DEF PassMiddleFn, Running, Active
<1>2. /\ q \in CallRecords /\ q.wait = "tick" /\ q.held = reg[c].held /\ q.n = reg[c].n /\ q.phase = "walk"
      /\ q.stack = reg[c].stack
  BY <1>1 DEF CallRecords, Waits
<1>3. Become(c, q) /\ UNCHANGED <<setup, initialized, registry, published>>
  BY DEF PassMiddleFn
<1> HIDE DEF q
<1>4. Walks(q)
  BY <1>1, <1>2 DEF Walks, Active
<1> QED BY <1>1, <1>2, <1>3, <1>4, CallFacts, QuietKeeps
\* The walk goes down into a group, or refuses it.
LEMMA Descended ==
  ASSUME Kept, NEW c \in Calls, Descend(c)
  PROVE  /\ \/ Fail(c)
            \/ \E q \in CallRecords, f \in Levels :
                 /\ Become(c, q) /\ Walks(q) /\ q.n = reg[c].n /\ q.wait = "run" /\ q.phase = "walk"
                 /\ q.got = reg[c].got /\ q.held = None /\ f.own = None /\ Level(q) = f
                 /\ f.pre = Before(Level(reg[c])) /\ f.post = After(Level(reg[c]))
                 /\ f.preLevel = <<>> /\ f.postLevel = <<>>
                 /\ f.i = 1 /\ f.items = Level(reg[c]).own.sub /\ f.items # <<>>
                 /\ Len(reg[c].stack) <= MaxNesting
                 /\ q.stack = Append(reg[c].stack, f)
         /\ Active(reg[c]) /\ reg[c].wait = "run" /\ reg[c].phase = "walk" /\ Level(reg[c]) \in Levels
         /\ UNCHANGED <<setup, initialized, registry, published>>
<1> DEFINE g == Level(reg[c])
           f == Frame(g.own.sub, Before(g), After(g))
           s == Append(reg[c].stack, f)
           q == [reg[c] EXCEPT !.stack = s]
<1>1. reg[c] \in CallRecords /\ Walks(reg[c]) /\ reg[c].wait = "run" /\ Active(reg[c]) /\ reg[c].phase = "walk"
  BY CallFacts DEF Descend, Running, Active
<1>2. /\ Top(c) = g /\ g \in Levels /\ AtItem(g) /\ reg[c].held = None
      /\ reg[c].stack \in Seq(Levels) /\ reg[c].stack # <<>> /\ Len(reg[c].stack) > 0
  BY <1>1, WalkFacts, LevelTyped DEF Walks
<1>3. AtGroup(g) /\ g.own.sub \in Seq(Items)
  BY <1>2, Distinct DEF Descend, Scanned, AtItem, AtGroup, ExecKinds
<1>4. Before(g) \in Seq(Executables) /\ After(g) \in Seq(Executables)
  BY <1>2, AroundTyped
<1>5. UNCHANGED <<setup, initialized, registry, published>>
  BY DEF Descend
<1>6. CASE Depth(c) > MaxNesting \/ Top(c).own.sub = <<>>
  <2>1. Fail(c)
    BY <1>6 DEF Descend
  <2> QED BY <1>1, <1>2, <1>5, <2>1
<1>7. CASE ~(Depth(c) > MaxNesting \/ Top(c).own.sub = <<>>)
  <2>1. Become(c, q)
    BY <1>2, <1>7 DEF Descend
  <2>2. g.own.sub # <<>>
    BY <1>2, <1>7
  <2> HIDE DEF g
  <2>3. /\ f \in Levels /\ AtItem(f) /\ f.own = None /\ f.pre = Before(g) /\ f.post = After(g)
        /\ f.preLevel = <<>> /\ f.postLevel = <<>> /\ f.i = 1 /\ f.items = g.own.sub /\ f.items # <<>>
    BY <1>3, <1>4, <2>2, FrameLevel
  <2>8. Len(reg[c].stack) <= MaxNesting
    BY <1>2, <1>7, RegistryAssumption DEF Depth
  <2> HIDE DEF f
  <2>4. /\ s \in Seq(Levels) /\ Len(s) = Len(reg[c].stack) + 1 /\ s[Len(s)] = f /\ s # <<>>
        /\ DOMAIN s = 1 .. Len(s) /\ DOMAIN reg[c].stack = 1 .. Len(reg[c].stack) /\ Len(reg[c].stack) \in Nat
        /\ \A k \in 1 .. Len(reg[c].stack) : s[k] = reg[c].stack[k]
    BY <1>2, <2>3, AppendProperties
  <2>5. \A k \in DOMAIN s : AtItem(s[k]) /\ (k < Len(s) => AtGroup(s[k]))
    <3> SUFFICES ASSUME NEW k \in DOMAIN s PROVE AtItem(s[k]) /\ (k < Len(s) => AtGroup(s[k]))
      OBVIOUS
    <3>1. CASE k = Len(s)
      BY <2>3, <2>4, <3>1
    <3>2. CASE k # Len(s) /\ k = Len(reg[c].stack)
      <4>1. s[k] = g
        BY <2>4, <3>2 DEF Level, g
      <4> QED BY <1>2, <1>3, <4>1
    <3>3. CASE k # Len(s) /\ k # Len(reg[c].stack)
      <4>1. k \in DOMAIN reg[c].stack /\ k < Len(reg[c].stack) /\ s[k] = reg[c].stack[k]
        BY <2>4, <3>3
      <4> QED BY <1>1, <4>1 DEF Walks
    <3> QED BY <3>1, <3>2, <3>3
  <2> HIDE DEF s
  <2>6. /\ q \in CallRecords /\ q.n = reg[c].n /\ q.wait = "run" /\ q.phase = "walk" /\ q.got = reg[c].got
        /\ q.held = None /\ q.stack = s
    BY <1>1, <1>2, <2>4 DEF CallRecords
  <2> HIDE DEF q
  <2>7. Walks(q) /\ Level(q) = f
    BY <2>4, <2>5, <2>6 DEF Walks, Level
  <2> QED BY <1>1, <1>2, <1>5, <2>1, <2>3, <2>6, <2>7, <2>8 DEF s, g
<1> QED BY <1>6, <1>7

\* A step that fails a call, or takes it on, and files nothing.
LEMMA FailOrQuiet ==
  ASSUME Kept, NEW c \in Calls, UNCHANGED <<setup, initialized, registry, published>>, Active(reg[c]),
         Fail(c) \/ \E q \in CallRecords : Become(c, q) /\ Walks(q) /\ q.n \in DOMAIN Trees[c] /\ q.wait # "reflect"
  PROVE  Kept'
BY CallFacts, FailKeeps, QuietKeeps

\* The walk goes on to the next entry, up one level, or is over.
LEMMA WentOn ==
  ASSUME Kept, NEW c \in Calls, NextEntry(c)
  PROVE  /\ \E q \in CallRecords :
              /\ Become(c, q) /\ Walks(q) /\ q.n = reg[c].n /\ q.wait \in {"run", "tick"}
              /\ q.got = reg[c].got /\ q.held = None
              /\ \/ /\ q.phase = "walk" /\ Level(q).own = None
                    /\ \E f \in Levels :
                         /\ Level(q) = f /\ DOMAIN q.stack = DOMAIN reg[c].stack /\ Len(q.stack) = Len(reg[c].stack)
                         /\ \A k \in DOMAIN reg[c].stack : k # Len(reg[c].stack) => q.stack[k] = reg[c].stack[k]
                         /\ f.pre = Level(reg[c]).pre /\ f.post = Level(reg[c]).post
                         /\ f.preLevel = Level(reg[c]).preLevel /\ f.postLevel = Level(reg[c]).postLevel
                         /\ f.i = Level(reg[c]).i + 1 /\ f.items = Level(reg[c]).items /\ f.i \in DOMAIN f.items
                         /\ q.wait = "run"
                 \/ /\ q.phase = "walk" /\ AtGroup(Level(q)) /\ DOMAIN q.stack \subseteq DOMAIN reg[c].stack
                    /\ q.stack # <<>> /\ Len(q.stack) < Len(reg[c].stack)
                    /\ \A k \in DOMAIN q.stack : q.stack[k] = reg[c].stack[k]
                 \/ q.phase = "return" /\ q.stack = <<>>
         /\ Active(reg[c]) /\ reg[c].wait = "tick" /\ reg[c].held = None /\ reg[c].phase = "walk"
         /\ UNCHANGED <<setup, initialized, registry, published>>
<1> DEFINE g == Level(reg[c])
           d == Len(reg[c].stack)
<1>1. reg[c] \in CallRecords /\ Walks(reg[c]) /\ reg[c].wait = "tick" /\ Active(reg[c]) /\ reg[c].phase = "walk" /\ reg[c].held = None
  BY CallFacts DEF NextEntry, Active
<1>2. /\ Top(c) = g /\ g \in Levels /\ AtItem(g) /\ reg[c].held = None /\ Depth(c) = d
      /\ reg[c].stack \in Seq(Levels) /\ reg[c].stack # <<>> /\ d > 0 /\ d \in Nat
  BY <1>1, WalkFacts, LevelTyped DEF Walks
<1>3. UNCHANGED <<setup, initialized, registry, published>>
  BY DEF NextEntry
<1>4. CASE g.i < Len(g.items)
  <2> DEFINE f == [g EXCEPT !.i = @ + 1, !.own = None]
             p == [reg[c] EXCEPT !.wait = "run"]
             q == SetTop(p, f)
  <2>1. Become(c, q)
    BY <1>2, <1>4 DEF NextEntry
  <2>a. g \in Levels /\ g.items \in Seq(Items) /\ g.i \in DOMAIN g.items
    BY <1>2 DEF Levels, AtItem
  <2> HIDE DEF g
  <2>b. DOMAIN g.items = 1 .. Len(g.items) /\ g.i \in Nat /\ g.i + 1 \in Nat
    BY <2>a
  <2>c. f = [g EXCEPT !.i = g.i + 1, !.own = None]
    OBVIOUS
  <2>d. f \in Levels
    BY <2>a, <2>b DEF Levels
  <2>2. /\ f \in Levels /\ f.own = None /\ f.i = g.i + 1 /\ f.items = g.items /\ f.pre = g.pre /\ f.post = g.post
        /\ f.preLevel = g.preLevel /\ f.postLevel = g.postLevel
    BY <2>a, <2>d DEF Levels
  <2> HIDE DEF f
  <2>3. AtItem(f)
    <3>1. g.i + 1 \in DOMAIN g.items
      BY <1>4, <2>a, <2>b
    <3> QED BY <2>2, <3>1 DEF AtItem
  <2>4. p \in CallRecords /\ p.stack = reg[c].stack /\ p.phase = "walk" /\ p.held = None /\ p.wait = "run" /\ p.n = reg[c].n /\ p.got = reg[c].got
    BY <1>1 DEF CallRecords, Waits
  <2> HIDE DEF p
  <2>5. /\ q \in CallRecords /\ Walks(q) /\ Level(q) = f /\ q.n = p.n /\ q.wait = p.wait /\ q.held = None
        /\ q.phase = "walk" /\ q.got = p.got /\ DOMAIN q.stack = DOMAIN reg[c].stack /\ Len(q.stack) = Len(reg[c].stack)
        /\ \A k \in DOMAIN reg[c].stack : k # Len(reg[c].stack) => q.stack[k] = reg[c].stack[k]
    BY <1>1, <2>2, <2>3, <2>4, LevelWalks
  <2> HIDE DEF q
  <2>6. f.i \in DOMAIN f.items
    BY <2>3 DEF AtItem
  <2> QED BY <1>1, <1>3, <2>1, <2>2, <2>4, <2>5, <2>6 DEF g
<1>5. CASE ~(g.i < Len(g.items)) /\ d > 1
  <2> DEFINE s == SubSeq(reg[c].stack, 1, d - 1)
             q == [reg[c] EXCEPT !.stack = s]
  <2>1. Become(c, q)
    BY <1>2, <1>5 DEF NextEntry
  <2>2. /\ s \in Seq(Levels) /\ Len(s) = d - 1 /\ DOMAIN s = 1 .. (d - 1) /\ DOMAIN reg[c].stack = 1 .. d
        /\ \A k \in 1 .. (d - 1) : s[k] = reg[c].stack[k]
    BY <1>2, <1>5
  <2> HIDE DEF s
  <2>3. /\ q \in CallRecords /\ q.n = reg[c].n /\ q.wait = "tick" /\ q.phase = "walk" /\ q.got = reg[c].got
        /\ q.held = None /\ q.stack = s
    BY <1>1, <2>2 DEF CallRecords
  <2> HIDE DEF q
  <2>4. \A k \in DOMAIN s : k \in DOMAIN reg[c].stack /\ k < d /\ s[k] = reg[c].stack[k]
    BY <1>2, <2>2
  <2>5. \A k \in DOMAIN s : AtItem(s[k]) /\ AtGroup(s[k])
    BY <1>1, <2>4 DEF Walks
  <2>6. s # <<>> /\ Len(s) \in DOMAIN s
    BY <1>2, <1>5, <2>2
  <2>7. Walks(q) /\ AtGroup(Level(q))
    BY <2>3, <2>5, <2>6 DEF Walks, Level
  <2>8. s # <<>> /\ Len(s) < d
    BY <1>2, <2>2, <2>6
  <2> QED BY <1>1, <1>3, <2>1, <2>3, <2>4, <2>7, <2>8
<1>6. CASE ~(g.i < Len(g.items)) /\ ~(d > 1)
  <2> DEFINE none == <<>>
             q == [reg[c] EXCEPT !.phase = "return", !.wait = "run", !.stack = none]
  <2>1. Become(c, q)
    BY <1>2, <1>6 DEF NextEntry
  <2>2. none \in Seq(Levels) /\ DOMAIN none = {}
    BY EmptySequences
  <2> HIDE DEF none
  <2>3. /\ q \in CallRecords /\ q.n = reg[c].n /\ q.wait = "run" /\ q.phase = "return" /\ q.got = reg[c].got
        /\ q.held = None /\ q.stack = none
    BY <1>1, <2>2 DEF CallRecords, Waits, Phases
  <2> HIDE DEF q
  <2>4. Walks(q)
    BY <2>2, <2>3 DEF Walks
  <2> QED BY <1>1, <1>3, <2>1, <2>3, <2>4 DEF none
<1> QED BY <1>4, <1>5, <1>6

\* registerRoutes returns, or initRouter goes on.
LEMMA Returned ==
  ASSUME Kept, NEW c \in Calls, Return(c)
  PROVE  /\ \E q \in CallRecords :
              /\ Become(c, q) /\ Walks(q) /\ q.n \in DOMAIN Trees[c] /\ q.wait \in {"run", "done"}
              /\ q.phase = "start" /\ q.got = <<>> /\ q.held = None /\ q.stack = <<>>
         /\ Active(reg[c]) /\ reg[c].wait = "run"
         /\ UNCHANGED <<setup, initialized, registry, published>>
<1> DEFINE last == ~(reg[c].n < Len(Trees[c]))
           w == IF last THEN "done" ELSE "run"
           n == IF last THEN reg[c].n ELSE reg[c].n + 1
           q == [Idle EXCEPT !.wait = w, !.n = n]
<1>1. reg[c].wait = "run" /\ Active(reg[c]) /\ UNCHANGED <<setup, initialized, registry, published>>
  BY DEF Return, Running, Active
<1>2. Become(c, q)
  BY DEF Return
<1>3. reg[c].n \in DOMAIN Trees[c] /\ Trees[c] \in Seq(Seq(Items))
  BY CallFacts, TreesAssumption
<1>4. n \in DOMAIN Trees[c] /\ n \in Nat /\ w \in {"run", "done"}
  BY <1>3
<1> HIDE DEF last, w, n
<1>5. q \in CallRecords
  BY <1>4, EmptySequences DEF Idle, CallRecords, Waits, Phases
<1>6. q.wait = w /\ q.n = n /\ q.held = None /\ q.stack = <<>> /\ q.got = <<>> /\ q.phase = "start"
  BY DEF Idle
<1> HIDE DEF q
<1>7. Walks(q)
  BY <1>4, <1>5, <1>6, EmptyCall
<1> QED BY <1>1, <1>2, <1>4, <1>5, <1>6, <1>7
\* Descend, NextEntry and Return file nothing.
LEMMA DescendKeeps == ASSUME Kept, NEW c \in Calls, Descend(c) PROVE Kept'
<1>1. reg[c].n \in DOMAIN Trees[c]
  BY CallFacts
<1> QED BY <1>1, Descended, FailOrQuiet

\* NextEntry
LEMMA NextEntryKeeps == ASSUME Kept, NEW c \in Calls, NextEntry(c) PROVE Kept'
<1>1. reg[c].n \in DOMAIN Trees[c]
  BY CallFacts
<1>2. \E q \in CallRecords : Become(c, q) /\ Walks(q) /\ q.n = reg[c].n /\ q.wait \in {"run", "tick"}
  BY WentOn
<1>3. Active(reg[c]) /\ UNCHANGED <<setup, initialized, registry, published>>
  BY WentOn
<1> QED BY <1>1, <1>2, <1>3, FailOrQuiet

\* Return
LEMMA ReturnKeeps == ASSUME Kept, NEW c \in Calls, Return(c) PROVE Kept'
<1>1. \E q \in CallRecords : Become(c, q) /\ Walks(q) /\ q.n \in DOMAIN Trees[c] /\ q.wait \in {"run", "done"}
  BY Returned
<1>2. Active(reg[c]) /\ UNCHANGED <<setup, initialized, registry, published>>
  BY Returned
<1> QED BY <1>1, <1>2, FailOrQuiet

\* What is published of an id is one of its executables, with its middleFns.
LEMMA RequestedTyped ==
  ASSUME RegistryTypes, NEW id \in Ids, Executable(id) # None
  PROVE  /\ Requested(id) \subseteq Ids
         /\ \A i \in Ids : Executable(i) \in Executables \cup {None}
         /\ \A i \in Requested(id) : Executable(i) \in Executables /\ Serializable(i) \in SerializableMethods
<1>1. \A i \in Ids : Executable(i) \in Executables \cup {None}
  BY DEF Executable, RegistryTypes, ExecKinds
<1>2. \A e \in Executables : DepsOf(e) \in SUBSET Ids
  BY Distinct DEF DepsOf, RegistryTypes
<1>3. published[id] # None => published[id].middleFnIds \in SUBSET Ids
  BY DEF RegistryTypes, SerializableMethods
<1>4. DepsOf(Executable(id)) \in SUBSET Ids
  BY <1>1, <1>2
<1>5. Requested(id) \subseteq Ids
  BY <1>3, <1>4 DEF Requested
<1>6. ASSUME NEW i \in Requested(id) PROVE Executable(i) \in Executables /\ Serializable(i) \in SerializableMethods
  <2>1. i \in Ids /\ Executable(i) # None
    BY <1>5 DEF Requested
  <2>2. Executable(i) \in Executables /\ DepsOf(Executable(i)) \in SUBSET Ids
    BY <1>1, <1>2, <2>1
  <2> QED BY <2>2 DEF Serializable, SerializableMethods
<1> QED BY <1>1, <1>5, <1>6

\* A request leaves the registry as it is.
LEMMA ServeMetadataKeeps == ASSUME Kept, NEW id \in Ids, ServeMetadata(id) PROVE Kept'
<1>1. /\ Executable(id) # None /\ UNCHANGED <<setup, initialized, registry, reg>>
      /\ published' = [i \in Ids |-> IF published[i] = None /\ i \in Requested(id) THEN Serializable(i) ELSE published[i]]
  BY DEF ServeMetadata
<1>2. \A i \in Requested(id) : Serializable(i) \in SerializableMethods
  BY <1>1, RequestedTyped DEF Kept
<1>3. published' \in [Ids -> SerializableMethods \cup {None}]
  BY <1>1, <1>2 DEF Kept, RegistryTypes
<1>4. RegistryTypes'
  BY <1>1, <1>3 DEF Kept, RegistryTypes, setup, registry
<1>5. FiledRight' /\ ChainsRight'
  BY <1>1 DEF Kept, FiledRight, ChainsRight, Registered, RouteOf, registry
<1>6. \A c \in Calls : Wanted(c)' = Wanted(c)
  BY <1>1, WantedKept DEF setup
<1>7. CallsRight'
  BY <1>1, <1>6 DEF Kept, CallsRight
<1> QED BY <1>4, <1>5, <1>7 DEF Kept

\* A middleFn that is set again keeps its place, or goes first or last.
LEMMA KeysTyped ==
  ASSUME NEW defs \in Seq(MiddleFnItems), NEW item \in MiddleFnItems
  PROVE  WithKey(defs, item) \in Seq(MiddleFnItems) /\ AfterKey(item, defs) \in Seq(MiddleFnItems)
<1> DEFINE same == {k \in DOMAIN defs : defs[k].id = item.id}
           at == CHOOSE k \in same : TRUE
<1>1. CASE same = {}
  <2>1. WithKey(defs, item) = Append(defs, item) /\ AfterKey(item, defs) = <<item>> \o defs
    BY <1>1 DEF WithKey, AfterKey
  <2>2. <<item>> \in Seq(MiddleFnItems)
    OBVIOUS
  <2> QED BY <2>1, <2>2, ConcatProperties, AppendProperties
<1>2. CASE same # {}
  <2>1. at \in DOMAIN defs /\ defs[at] \in MiddleFnItems
    BY <1>2
  <2>2. WithKey(defs, item) = [defs EXCEPT ![at] = item] /\ AfterKey(item, defs) = <<defs[at]>> \o RemoveAt(defs, at)
    BY <1>2 DEF WithKey, AfterKey
  <2> HIDE DEF at
  <2>3. WithKey(defs, item) \in Seq(MiddleFnItems)
    BY <2>1, <2>2, ExceptSeq
  <2>4. RemoveAt(defs, at) \in Seq(MiddleFnItems)
    <3>1. RemoveAt(defs, at) = SubSeq(defs, 1, at - 1) \o SubSeq(defs, at + 1, Len(defs))
      BY DEF RemoveAt
    <3>2. SubSeq(defs, 1, at - 1) \in Seq(MiddleFnItems) /\ SubSeq(defs, at + 1, Len(defs)) \in Seq(MiddleFnItems)
      BY <2>1
    <3> QED BY <3>1, <3>2, ConcatProperties
  <2>5. <<defs[at]>> \in Seq(MiddleFnItems)
    BY <2>1
  <2> QED BY <2>2, <2>3, <2>4, <2>5, ConcatProperties
<1> QED BY <1>1, <1>2

\* Before the router is opened, no call is under way: the middleFns around every chain may change.
LEMMA SetupKeeps ==
  ASSUME Kept, ~initialized, startDef' \in Seq(MiddleFnItems), endDef' \in Seq(MiddleFnItems),
         UNCHANGED <<awaited, initialized, registry, published, reg>>
  PROVE  Kept'
<1>1. RegistryTypes'
  BY DEF Kept, RegistryTypes, registry
<1>2. FiledRight' /\ ChainsRight'
  BY DEF Kept, FiledRight, ChainsRight, Registered, RouteOf, registry
<1>3. \A c \in Calls : ~Active(reg[c]) /\ reg[c].wait # "reflect"
  BY DEF Kept, CallsRight, Active
<1>4. CallsRight'
  BY <1>3 DEF Kept, CallsRight
<1> QED BY <1>1, <1>2, <1>4 DEF Kept

\* addStartMiddleFns and addEndMiddleFns
LEMMA AddMiddleFnsKeeps ==
  ASSUME Kept, \/ \E item \in ExtraStart, before \in BOOLEAN : AddStartMiddleFns(item, before)
               \/ \E item \in ExtraEnd, after \in BOOLEAN : AddEndMiddleFns(item, after)
  PROVE  Kept' /\ ~initialized /\ UNCHANGED <<awaited, initialized, registry, published, reg>>
<1>1. startDef \in Seq(MiddleFnItems) /\ endDef \in Seq(MiddleFnItems)
  BY DEF Kept, RegistryTypes
<1>2. ExtraStart \subseteq MiddleFnItems /\ ExtraEnd \subseteq MiddleFnItems
  BY TreesAssumption
<1>3. ~initialized /\ UNCHANGED <<awaited, initialized, registry, published, reg>>
  BY DEF AddStartMiddleFns, AddEndMiddleFns
<1>4. startDef' \in Seq(MiddleFnItems) /\ endDef' \in Seq(MiddleFnItems)
  <2>1. ASSUME NEW item \in ExtraStart, NEW before \in BOOLEAN, AddStartMiddleFns(item, before)
        PROVE  startDef' \in Seq(MiddleFnItems) /\ endDef' \in Seq(MiddleFnItems)
    <3>1. item \in MiddleFnItems /\ startDef' \in {AfterKey(item, startDef), WithKey(startDef, item)} /\ endDef' = endDef
      BY <1>2, <2>1 DEF AddStartMiddleFns
    <3> QED BY <1>1, <3>1, KeysTyped
  <2>2. ASSUME NEW item \in ExtraEnd, NEW after \in BOOLEAN, AddEndMiddleFns(item, after)
        PROVE  startDef' \in Seq(MiddleFnItems) /\ endDef' \in Seq(MiddleFnItems)
    <3>1. item \in MiddleFnItems /\ endDef' \in {AfterKey(item, endDef), WithKey(endDef, item)} /\ startDef' = startDef
      BY <1>2, <2>2 DEF AddEndMiddleFns
    <3> QED BY <1>1, <3>1, KeysTyped
  <2> QED BY <2>1, <2>2
<1> QED BY <1>3, <1>4, SetupKeeps

\* resetRouter leaves nothing.
LEMMA ResetKeeps == ASSUME Kept, ResetRouter PROVE Blank' /\ awaited' = awaited
<1>1. NothingYet'
  BY DEF ResetRouter, Kept, RegistryTypes, NothingYet
<1>2. NothingYet' => Blank'
  BY NothingRegistered, PTL
<1> QED BY <1>1, <1>2 DEF ResetRouter

\* Initially
LEMMA InitKept == Init => Blank
BY NothingRegistered DEF Init, NothingYet

\* Every step keeps the types, and what a call carries.
LEMMA NextKept == ASSUME Kept, [Next]_vars PROVE Kept'
<1>1. ASSUME NEW c \in Calls, Call(c) PROVE Kept'
  BY <1>1, CallKeeps
<1>2. ASSUME NEW c \in Calls, CallStep(c) PROVE Kept'
  <2>1. CASE Lookup(c) BY <2>1, LookupKeeps
  <2>2. CASE Reflected(c) BY <2>2, ReflectedKeeps
  <2>3. CASE ReceiveOuter(c) BY <2>3, ReceiveOuterKeeps
  <2>4. CASE ReceiveEntry(c) BY <2>4, ReceiveEntryKeeps
  <2>5. CASE EnterGroup(c) BY <2>5, EnterGroupKeeps
  <2>6. CASE RejectEntry(c) BY <2>6, FailKeeps DEF RejectEntry
  <2>7. CASE ReceiveSibling(c) BY <2>7, ReceiveSiblingKeeps
  <2>8. CASE StartReady(c) BY <2>8, StartReadyKeeps
  <2>9. CASE EndReady(c) BY <2>9, EndReadyKeeps
  <2>10. CASE SetChain(c) BY <2>10, SetChainKeeps
  <2>11. CASE PassMiddleFn(c) BY <2>11, PassMiddleFnKeeps
  <2>12. CASE Descend(c) BY <2>12, DescendKeeps
  <2>13. CASE NextEntry(c) BY <2>13, NextEntryKeeps
  <2>14. CASE Return(c) BY <2>14, ReturnKeeps
  <2>15. CASE ReflectionFails(c) BY <2>15, FailKeeps DEF ReflectionFails
  <2> QED BY <1>2, <2>1, <2>2, <2>3, <2>4, <2>5, <2>6, <2>7, <2>8, <2>9, <2>10, <2>11, <2>12, <2>13, <2>14, <2>15
          DEF CallStep
<1>3. ASSUME NEW id \in Asked, ServeMetadata(id) PROVE Kept'
  <2>1. id \in Ids
    BY RegistryAssumption
  <2> QED BY <1>3, <2>1, ServeMetadataKeeps
<1>4. CASE ResetRouter
  BY <1>4, ResetKeeps DEF Blank
<1>5. CASE UNCHANGED vars
  <2>1. \A c \in Calls : Wanted(c)' = Wanted(c)
    BY <1>5, WantedKept DEF vars, setup
  <2> QED BY <1>5, <2>1 DEF vars, setup, registry, Kept, RegistryTypes, FiledRight, ChainsRight, CallsRight, Registered, RouteOf
<1> QED BY <1>1, <1>2, <1>3, <1>4, <1>5, AddMiddleFnsKeeps DEF Next
-----------------------------------------------------------------------------
(***************************************************************************)
(* A route keeps the chain it was first given.                             *)
(***************************************************************************)

\* The state of the call that takes the step, and of the others.
LEMMA BecomeFacts ==
  ASSUME Kept, NEW c \in Calls, NEW q, Become(c, q)
  PROVE  reg'[c] = q /\ \A d \in Calls : d # c => reg'[d] = reg[d]
BY DEF Become, Kept, RegistryTypes

\* What a call asks for was there, or was not.
LEMMA LookedUp ==
  ASSUME Kept, NEW c \in Calls, Lookup(c)
  PROVE  /\ \E q \in CallRecords :
              /\ Become(c, q) /\ q.phase = reg[c].phase /\ q.stack = reg[c].stack /\ q.got = reg[c].got
              /\ q.n = reg[c].n
              /\ \/ /\ q.wait = "tick" /\ q.held \in Executables /\ byId[q.held.kind][q.held.id] = q.held
                    /\ q.held.kind = Wanted(c).kind /\ q.held.id = Wanted(c).id
                 \/ q.wait = "reflect" /\ q.held = None /\ byId[Wanted(c).kind][Wanted(c).id] = None
         /\ Active(reg[c]) /\ reg[c].wait = "run" /\ Wanted(c) # None
         /\ UNCHANGED <<setup, initialized, registry, published>>
<1> DEFINE existing == Existing(Wanted(c))
<1>1. /\ Active(reg[c]) /\ reg[c].wait = "run" /\ Wanted(c) # None
      /\ UNCHANGED <<setup, initialized, registry, published>>
  BY DEF Lookup, Active
<1>2. Wanted(c).kind \in ExecKinds /\ Wanted(c).id \in Ids
  BY <1>1, CallFacts, WantedItem
<1>3. existing \in Executables \cup {None} /\ existing = byId[Wanted(c).kind][Wanted(c).id]
  BY <1>2 DEF Existing, Kept, RegistryTypes
<1>4. reg[c] \in CallRecords /\ reg[c].held = None
  BY <1>1, CallFacts DEF Walks
<1>5. CASE existing # None
  <2> DEFINE q == [reg[c] EXCEPT !.wait = "tick", !.held = existing]
  <2>1. existing.kind = Wanted(c).kind /\ existing.id = Wanted(c).id
    BY <1>2, <1>3, <1>5 DEF Kept, FiledRight
  <2>2. Become(c, q)
    BY <1>5 DEF Lookup
  <2> HIDE DEF existing
  <2>3. /\ q \in CallRecords /\ q.wait = "tick" /\ q.held = existing /\ q.n = reg[c].n
        /\ q.phase = reg[c].phase /\ q.stack = reg[c].stack /\ q.got = reg[c].got
    BY <1>3, <1>4 DEF CallRecords, Waits
  <2> HIDE DEF q
  <2>4. q.held \in Executables /\ byId[q.held.kind][q.held.id] = q.held
    BY <1>3, <1>5, <2>1, <2>3
  <2> QED BY <1>1, <2>1, <2>2, <2>3, <2>4
<1>6. CASE existing = None
  <2> DEFINE q == [reg[c] EXCEPT !.wait = "reflect"]
  <2>1. Become(c, q)
    BY <1>6 DEF Lookup
  <2>2. /\ q \in CallRecords /\ q.wait = "reflect" /\ q.held = None /\ q.n = reg[c].n
        /\ q.phase = reg[c].phase /\ q.stack = reg[c].stack /\ q.got = reg[c].got
    BY <1>4 DEF CallRecords, Waits
  <2> HIDE DEF q
  <2> QED BY <1>1, <1>3, <1>6, <2>1, <2>2
<1> QED BY <1>5, <1>6

\* The executable a call waited for is made and filed.
LEMMA MadeAndFiled ==
  ASSUME Kept, NEW c \in Calls, Reflected(c)
  PROVE  /\ \E q \in CallRecords, made \in Executables :
              /\ Become(c, q) /\ q.phase = reg[c].phase /\ q.stack = reg[c].stack /\ q.got = reg[c].got
              /\ q.n = reg[c].n /\ q.wait = "tick" /\ q.held = made /\ made.by = c
              /\ made.kind = Wanted(c).kind /\ made.id = Wanted(c).id
              /\ \A k \in ExecKinds, id \in Ids :
                   byId'[k][id] = IF k = made.kind /\ id = made.id THEN made ELSE byId[k][id]
         /\ Active(reg[c]) /\ reg[c].wait = "reflect" /\ Wanted(c) # None
         /\ UNCHANGED <<setup, initialized, names, flat, deps, startFns, endFns, published>>
<1> DEFINE made == Created(Wanted(c), c)
           q == [reg[c] EXCEPT !.wait = "tick", !.held = made]
<1>1. /\ Active(reg[c]) /\ reg[c].wait = "reflect" /\ Wanted(c) # None
      /\ UNCHANGED <<setup, initialized, names, flat, deps, startFns, endFns, published>>
  BY DEF Reflected, Active, Kept, CallsRight
<1>2. Wanted(c).kind \in ExecKinds /\ Wanted(c).id \in Ids /\ Wanted(c).public \in BOOLEAN
  BY <1>1, CallFacts, WantedItem
<1>3. made \in Executables /\ made.kind = Wanted(c).kind /\ made.id = Wanted(c).id /\ made.by = c
  BY <1>2 DEF Created, Executables
<1>4. byId' = [byId EXCEPT ![Wanted(c).kind][Wanted(c).id] = made] /\ Become(c, q)
  BY DEF Reflected
<1> HIDE DEF made
<1>5. \A k \in ExecKinds, id \in Ids :
        byId'[k][id] = IF k = made.kind /\ id = made.id THEN made ELSE byId[k][id]
  BY <1>2, <1>3, <1>4 DEF Kept, RegistryTypes
<1>6. /\ q \in CallRecords /\ q.wait = "tick" /\ q.held = made /\ q.n = reg[c].n
      /\ q.phase = reg[c].phase /\ q.stack = reg[c].stack /\ q.got = reg[c].got
  BY <1>3, CallFacts DEF CallRecords, Waits
<1> HIDE DEF q
<1> QED BY <1>1, <1>3, <1>4, <1>5, <1>6

\* A start or end middleFn is collected.
LEMMA OuterReceived ==
  ASSUME Kept, NEW c \in Calls, ReceiveOuter(c)
  PROVE  /\ \E q \in CallRecords :
              /\ Become(c, q) /\ q.phase = reg[c].phase /\ q.stack = reg[c].stack
              /\ q.got = Append(reg[c].got, reg[c].held) /\ q.wait = "run" /\ q.held = None
              /\ q.n = reg[c].n
         /\ Active(reg[c]) /\ reg[c].wait = "tick" /\ reg[c].held \in Executables /\ reg[c].phase # "walk"
         /\ reg[c].got \in Seq(Executables)
         /\ UNCHANGED <<setup, initialized, registry, published>>
<1> DEFINE q == [reg[c] EXCEPT !.wait = "run", !.held = None, !.got = Append(@, reg[c].held)]
<1>1. reg[c] \in CallRecords /\ Active(reg[c]) /\ reg[c].held \in Executables
  BY CallFacts DEF ReceiveOuter, CallRecords, Active
<1>2. Append(reg[c].got, reg[c].held) \in Seq(Executables) /\ reg[c].got \in Seq(Executables)
  BY <1>1 DEF CallRecords
<1>3. /\ q \in CallRecords /\ q.wait = "run" /\ q.held = None /\ q.got = Append(reg[c].got, reg[c].held)
      /\ q.n = reg[c].n /\ q.phase = reg[c].phase /\ q.stack = reg[c].stack
  BY <1>1, <1>2 DEF CallRecords, Waits
<1>4. /\ Become(c, q) /\ UNCHANGED <<setup, initialized, registry, published>>
      /\ reg[c].phase # "walk" /\ reg[c].wait = "tick"
  BY DEF ReceiveOuter
<1> HIDE DEF q
<1> QED BY <1>1, <1>2, <1>3, <1>4

\* initRouter or registerRoutes is called, or refused.
LEMMA Called ==
  ASSUME Kept, NEW c \in Calls, Call(c)
  PROVE  /\ \E q \in CallRecords :
              /\ Become(c, q) /\ q.held = None /\ q.n = reg'[c].n
              /\ \/ Fail(c) /\ q.wait = "failed" /\ q.stack = reg[c].stack /\ q.got = reg[c].got
                 \/ q.wait = "run" /\ q.stack = <<>> /\ q.got = <<>> /\ q.phase = "start"
         /\ reg[c].wait = "idle" /\ MayCall(c) /\ UNCHANGED <<setup, registry, published>>
<1>1. reg[c].wait = "idle" /\ MayCall(c) /\ UNCHANGED <<setup, registry, published>>
  BY DEF Call
<1>2. CASE Fail(c)
  <2> DEFINE f == [reg[c] EXCEPT !.wait = "failed", !.held = None]
  <2>1. f \in CallRecords /\ f.wait = "failed" /\ f.held = None /\ f.stack = reg[c].stack /\ f.got = reg[c].got
    BY CallFacts, FailedCall
  <2>2. Become(c, f)
    BY <1>2 DEF Fail
  <2> HIDE DEF f
  <2>3. reg'[c] = f
    BY <2>2, BecomeFacts
  <2> QED BY <1>1, <1>2, <2>1, <2>2, <2>3
<1>3. CASE ~Fail(c)
  <2> DEFINE q == [Idle EXCEPT !.wait = "run"]
  <2>1. q \in CallRecords
    BY EmptySequences DEF Idle, CallRecords, Waits, Phases
  <2>2. q.wait = "run" /\ q.held = None /\ q.stack = <<>> /\ q.got = <<>> /\ q.phase = "start"
    BY DEF Idle
  <2>3. Become(c, q)
    BY <1>3 DEF Call
  <2> HIDE DEF q
  <2>4. reg'[c] = q
    BY <2>3, BecomeFacts
  <2> QED BY <1>1, <2>1, <2>2, <2>3, <2>4
<1> QED BY <1>2, <1>3
\* What a refused call becomes.
LEMMA Failed ==
  ASSUME Kept, NEW c \in Calls, Fail(c)
  PROVE  \E q \in CallRecords :
           /\ Become(c, q) /\ q.wait = "failed" /\ q.held = None /\ q.stack = reg[c].stack /\ q.got = reg[c].got
           /\ ~Active(q)
BY CallFacts, FailedCall DEF Fail

\* A step that files no chain, and after which the call is not closer to filing one.
LEMMA QuietClaims ==
  ASSUME Claimed, Kept', NEW c \in Calls, NEW q \in CallRecords, Become(c, q),
         Pends(q) => Pends(reg[c]) /\ Level(q).own = Level(reg[c]).own,
         UNCHANGED <<flat, deps>>, names["route"] \subseteq names'["route"]
  PROVE  Claimed'
<1>1. reg'[c] = q /\ \A d \in Calls : d # c => reg'[d] = reg[d]
  BY BecomeFacts DEF Claimed
<1>2. \A d \in Calls : Pends(reg'[d]) => Pends(reg[d]) /\ Level(reg'[d]).own = Level(reg[d]).own
  BY <1>1
<1>3. Registered' = Registered
  BY DEF Registered
<1>4. ClaimsApart'
  BY <1>2, <1>3 DEF Claimed, ClaimsApart
<1>5. DepsRight'
  BY <1>3 DEF Claimed, DepsRight, RouteOf
<1> QED BY <1>4, <1>5 DEF Claimed

\* A step of no call.
LEMMA StillClaims ==
  ASSUME Claimed, Kept', UNCHANGED <<reg, flat, deps, names>>
  PROVE  Claimed'
<1>1. Registered' = Registered
  BY DEF Registered
<1>2. ClaimsApart' /\ DepsRight'
  BY <1>1 DEF Claimed, ClaimsApart, DepsRight, RouteOf
<1> QED BY <1>2 DEF Claimed

\* An entry that is a route claims its name: it was nobody's.
LEMMA ReceiveEntryClaims == ASSUME Claimed, Kept', NEW c \in Calls, ReceiveEntry(c) PROVE Claimed'
<1> DEFINE q == SetTop([reg[c] EXCEPT !.wait = "run", !.held = None], Entered(Level(reg[c]), reg[c].held))
           e == reg[c].held
<1>a. Kept
  BY DEF Claimed
<1>1. /\ UNCHANGED <<setup, initialized, byId, flat, deps, startFns, endFns, published>> /\ Active(reg[c])
      /\ AtEntry(reg[c]) /\ e \in Executables /\ e.id = Entry(c).id /\ e.kind = Entry(c).kind
  BY <1>a, EntryArrives
<1>2. CASE Fail(c) /\ names' = names
  BY <1>a, <1>1, <1>2, Failed, QuietClaims DEF Pends
<1>3. CASE /\ Entry(c).id \notin names[NameClass(Entry(c).kind)] /\ names' = Named(Entry(c)) /\ Become(c, q)
           /\ q \in CallRecords /\ Level(q) = Entered(Level(reg[c]), e)
  <2>1. Entry(c) \in Items /\ Entry(c).kind \in ExecKinds /\ Level(reg[c]) \in Levels /\ AtItem(Level(reg[c]))
    BY <1>a, <1>1, WalkFacts, Distinct DEF AtEntry
  <2>2. Level(q).own = e
    BY <1>1, <1>3, <2>1, EnteredLevel
  <2>3. /\ names'["route"] = IF Entry(c).kind = "route" THEN names["route"] \cup {Entry(c).id} ELSE names["route"]
        /\ NameClass(Entry(c).kind) = "route" <=> Entry(c).kind = "route"
    BY <1>a, <1>3, <2>1, CallFacts, NamedTyped
  <2> HIDE DEF q, e
  <2>4. CASE Entry(c).kind # "route"
    <3>1. ~Pends(q)
      BY <1>1, <2>2, <2>4 DEF Pends
    <3> QED BY <1>1, <1>3, <2>3, <2>4, <3>1, QuietClaims
  <2>5. CASE Entry(c).kind = "route"
    <3>1. e.id \notin names["route"] /\ names'["route"] = names["route"] \cup {e.id} /\ e.id \in Ids
      BY <1>1, <1>3, <2>3, <2>5, Distinct
    <3>2. flat[e.id] = None
      BY <3>1 DEF Claimed, ClaimsApart, Registered
    <3>3. reg'[c] = q /\ \A d \in Calls : d # c => reg'[d] = reg[d]
      BY <1>a, <1>3, BecomeFacts
    <3>4. Registered' = Registered
      BY <1>1 DEF Registered
    <3>5. \A d \in Calls : d # c /\ Pends(reg[d]) => Level(reg[d]).own.id # e.id
      BY <3>1 DEF Claimed, ClaimsApart
    <3>6. \A d \in Calls : Pends(reg'[d]) =>
            Level(reg'[d]).own.id \in names'["route"] /\ flat'[Level(reg'[d]).own.id] = None
      <4> SUFFICES ASSUME NEW d \in Calls, Pends(reg'[d])
                   PROVE  Level(reg'[d]).own.id \in names'["route"] /\ flat'[Level(reg'[d]).own.id] = None
        OBVIOUS
      <4>1. CASE d = c
        BY <1>1, <2>2, <3>1, <3>2, <3>3, <4>1
      <4>2. CASE d # c
        BY <1>1, <3>1, <3>3, <4>2 DEF Claimed, ClaimsApart
      <4> QED BY <4>1, <4>2
    <3>7. \A b, d \in Calls : b # d /\ Pends(reg'[b]) /\ Pends(reg'[d]) =>
            Level(reg'[b]).own.id # Level(reg'[d]).own.id
      BY <2>2, <3>3, <3>5 DEF Claimed, ClaimsApart
    <3>8. ClaimsApart'
      BY <3>1, <3>4, <3>6, <3>7 DEF Claimed, ClaimsApart
    <3>9. DepsRight'
      BY <1>1, <3>4 DEF Claimed, DepsRight, RouteOf
    <3> QED BY <3>8, <3>9 DEF Claimed
  <2> QED BY <2>4, <2>5
<1> QED BY <1>a, <1>2, <1>3, EntryArrives

\* The chain of a route is filed where there was none, with its middleFnIds.
LEMMA SetChainClaims ==
  ASSUME Claimed, Kept', NEW c \in Calls, SetChain(c)
  PROVE  Claimed' /\ \A id \in Registered : flat'[id] = flat[id]
<1> DEFINE f == Level(reg[c])
           chain == [routeIndex |-> Len(startFns) + Len(Before(f)) + 1, methods |-> MethodsOf(f),
                     by |-> c, n |-> reg[c].n]
           q == [reg[c] EXCEPT !.wait = "tick", !.held = None]
           own == f.own
           public == PublicMiddleFnIds(MethodsOf(f))
<1>a. Kept /\ reg[c] \in CallRecords
  BY CallFacts DEF Claimed
<1>1. /\ own \in Executables /\ own.kind = "route" /\ f \in Levels /\ own.id \in Ids /\ own.by \in Calls
      /\ chain \in ExecutionChains /\ chain # None /\ RouteOf(chain) = own
      /\ flat' = [flat EXCEPT ![own.id] = chain] /\ deps' = WithDeps(f) /\ MethodsOf(f) \in Seq(Executables)
      /\ Become(c, q) /\ Active(reg[c]) /\ reg[c].wait = "run" /\ reg[c].phase = "walk"
      /\ UNCHANGED <<setup, initialized, byId, names, startFns, endFns, published>>
  BY <1>a, ChainFiled
<1>2. chain.methods = MethodsOf(f)
  OBVIOUS
<1>b. \A id \in Ids, d \in Calls :
        deps'[<<id, d>>] = IF id = own.id /\ d = own.by /\ public # {} THEN public ELSE deps[<<id, d>>]
  BY <1>a, <1>1, CallFacts, DepsTyped
<1>3. q \in CallRecords /\ q.wait = "tick" /\ q.held = None
  BY <1>a, RunsOn
<1> HIDE DEF q, chain
<1>4. ~Pends(q)
  BY <1>3 DEF Pends
<1>5. reg'[c] = q /\ \A d \in Calls : d # c => reg'[d] = reg[d]
  BY <1>a, <1>1, BecomeFacts
<1>6. Pends(reg[c])
  BY <1>1, Distinct DEF Pends
<1>7. own.id \in names["route"] /\ flat[own.id] = None
  BY <1>6 DEF Claimed, ClaimsApart
<1>8. \A id \in Ids : flat'[id] = IF id = own.id THEN chain ELSE flat[id]
  BY <1>a, <1>1 DEF Kept, RegistryTypes
<1>9. Registered' = Registered \cup {own.id} /\ own.id \notin Registered
  BY <1>1, <1>7, <1>8 DEF Registered
<1>10. \A d \in Calls : d # c /\ Pends(reg[d]) => Level(reg[d]).own.id # own.id
  BY <1>6 DEF Claimed, ClaimsApart
<1>11. \A d \in Calls : Pends(reg[d]) => Level(reg[d]).own.id \in Ids
  <2> SUFFICES ASSUME NEW d \in Calls, Pends(reg[d]) PROVE Level(reg[d]).own.id \in Ids
    OBVIOUS
  <2>1. AtItem(Level(reg[d]))
    BY <1>a, WalkFacts DEF Pends
  <2> QED BY <2>1, Distinct DEF Pends, AtItem
<1> HIDE DEF f, public
<1>12. ClaimsApart'
  <2>1. Registered' \subseteq names'["route"]
    BY <1>1, <1>7, <1>9 DEF Claimed, ClaimsApart
  <2>2. ASSUME NEW d \in Calls, Pends(reg'[d])
        PROVE  Level(reg'[d]).own.id \in names'["route"] /\ flat'[Level(reg'[d]).own.id] = None
    <3>1. d # c /\ reg'[d] = reg[d]
      BY <1>4, <1>5, <2>2
    <3>2. Level(reg[d]).own.id \in names["route"] /\ flat[Level(reg[d]).own.id] = None
      BY <2>2, <3>1 DEF Claimed, ClaimsApart
    <3> QED BY <1>1, <1>8, <1>10, <1>11, <2>2, <3>1, <3>2
  <2>3. \A b, d \in Calls : b # d /\ Pends(reg'[b]) /\ Pends(reg'[d]) =>
          Level(reg'[b]).own.id # Level(reg'[d]).own.id
    BY <1>4, <1>5 DEF Claimed, ClaimsApart
  <2> QED BY <2>1, <2>2, <2>3 DEF ClaimsApart
<1>13. DepsRight'
  <2>1. ASSUME NEW id \in Ids, NEW d \in Calls, deps'[<<id, d>>] # {} PROVE id \in Registered'
    BY <1>b, <1>9, <2>1 DEF Claimed, DepsRight
  <2>2. ASSUME NEW id \in Registered'
        PROVE  deps'[<<id, RouteOf(flat'[id]).by>>] = PublicMiddleFnIds(flat'[id].methods)
    <3>1. CASE id = own.id
      <4>1. flat'[id] = chain /\ RouteOf(flat'[id]).by = own.by /\ PublicMiddleFnIds(flat'[id].methods) = public
        BY <1>1, <1>2, <1>8, <3>1 DEF public
      <4>2. deps[<<own.id, own.by>>] = {}
        BY <1>1, <1>9 DEF Claimed, DepsRight
      <4> QED BY <1>1, <1>b, <3>1, <4>1, <4>2
    <3>2. CASE id # own.id
      <4>1. id \in Registered /\ flat'[id] = flat[id]
        BY <1>8, <1>9, <2>2, <3>2 DEF Registered
      <4>2. RouteOf(flat[id]) \in Executables
        <5>1. flat[id] \in ExecutionChains /\ flat[id].routeIndex \in DOMAIN flat[id].methods
          BY <1>a, <4>1 DEF Kept, RegistryTypes, ChainsRight, Registered
        <5> QED BY <5>1 DEF ExecutionChains, RouteOf
      <4>3. deps'[<<id, RouteOf(flat[id]).by>>] = deps[<<id, RouteOf(flat[id]).by>>]
        BY <1>b, <3>2, <4>1, <4>2, Distinct DEF Registered
      <4> QED BY <4>1, <4>3 DEF Claimed, DepsRight
    <3> QED BY <3>1, <3>2
  <2> QED BY <2>1, <2>2 DEF DepsRight, RouteOf
<1> QED BY <1>8, <1>9, <1>12, <1>13 DEF Claimed, Registered

\* Any other step of a call.
LEMMA CallStepClaims ==
  ASSUME Claimed, Kept', NEW c \in Calls, Call(c) \/ CallStep(c), ~ReceiveEntry(c), ~SetChain(c)
  PROVE  Claimed' /\ UNCHANGED flat
<1>a. Kept
  BY DEF Claimed
<1> SUFFICES /\ UNCHANGED <<flat, deps, names>>
             /\ \E q \in CallRecords : Become(c, q) /\ (Pends(q) => Pends(reg[c]) /\ Level(q).own = Level(reg[c]).own)
  BY QuietClaims
<1>1. ASSUME Fail(c), UNCHANGED <<flat, deps, names>>
      PROVE  /\ UNCHANGED <<flat, deps, names>>
             /\ \E q \in CallRecords : Become(c, q) /\ (Pends(q) => Pends(reg[c]) /\ Level(q).own = Level(reg[c]).own)
  BY <1>a, <1>1, Failed DEF Pends
<1>2. CASE Call(c)
  BY <1>a, <1>2, Called DEF Pends, registry, Active
<1>3. CASE Lookup(c)
  BY <1>a, <1>3, LookedUp DEF Pends, registry, Active, Level
<1>4. CASE Reflected(c)
  BY <1>a, <1>4, MadeAndFiled DEF Pends, Active, Level
<1>5. CASE ReceiveOuter(c)
  BY <1>a, <1>5, OuterReceived DEF Pends, registry
<1>6. CASE EnterGroup(c)
  <2>1. PICK f \in Levels : f.own.kind = "group" /\ AtItem(f) /\ Become(c, SetTop(reg[c], f)) /\ AtEntry(reg[c])
                            /\ Active(reg[c]) /\ reg[c].held = None /\ UNCHANGED registry
    BY <1>a, <1>6, GroupEntered
  <2>2. SetTop(reg[c], f) \in CallRecords /\ Level(SetTop(reg[c], f)) = f
    BY <1>a, <2>1, CallFacts, LevelWalks DEF AtEntry
  <2> QED BY <2>1, <2>2 DEF Pends, registry
<1>7. CASE RejectEntry(c)
  BY <1>1, <1>7 DEF RejectEntry, registry
<1>8. CASE ReceiveSibling(c)
  <2> DEFINE p == [reg[c] EXCEPT !.wait = "run", !.held = None]
  <2>1. PICK f \in Levels : f.own = Level(reg[c]).own /\ AtItem(f) /\ Become(c, SetTop(p, f)) /\ reg[c].phase = "walk"
                            /\ Active(reg[c]) /\ reg[c].held \in Executables /\ UNCHANGED registry
    BY <1>a, <1>8, SiblingReceived
  <2>2. /\ p \in CallRecords /\ p.wait = "run" /\ p.held = None /\ p.phase = reg[c].phase /\ p.stack = reg[c].stack
    BY <1>a, CallFacts, RunsOn
  <2> HIDE DEF p
  <2>3. SetTop(p, f) \in CallRecords /\ Level(SetTop(p, f)) = f /\ SetTop(p, f).phase = "walk"
    BY <1>a, <2>1, <2>2, LevelWalks
  <2> QED BY <2>1, <2>2, <2>3, Distinct DEF Pends, registry
<1>9. CASE StartReady(c)
  BY <1>a, <1>9, StartCollected DEF Pends
<1>10. CASE EndReady(c)
  <2>1. CASE Fail(c)
    BY <1>a, <1>1, <1>10, <2>1, WalkBegun
  <2>2. CASE ~Fail(c)
    <3>1. PICK q \in CallRecords, f \in Levels : Become(c, q) /\ q.stack = <<f>> /\ f.own = None
      BY <1>a, <1>10, <2>2, WalkBegun
    <3>2. Level(q) = f
      BY <3>1 DEF Level
    <3> QED BY <1>a, <1>10, <3>1, <3>2, WalkBegun DEF Pends
  <2> QED BY <2>1, <2>2
<1>11. CASE PassMiddleFn(c)
  <2> DEFINE q == [reg[c] EXCEPT !.wait = "tick"]
  <2>1. reg[c] \in CallRecords /\ reg[c].held = None /\ Become(c, q) /\ UNCHANGED registry
    BY <1>a, <1>11, CallFacts DEF PassMiddleFn, Walks, Running
  <2>2. q \in CallRecords /\ q.wait = "tick" /\ q.held = None
    BY <2>1 DEF CallRecords, Waits
  <2> HIDE DEF q
  <2> QED BY <2>1, <2>2 DEF Pends, registry
<1>12. CASE Descend(c)
  <2>1. CASE Fail(c)
    BY <1>1, <1>12, <2>1 DEF Descend, registry
  <2>2. CASE ~Fail(c)
    BY <1>a, <1>12, <2>2, Descended DEF Pends, registry
  <2> QED BY <2>1, <2>2
<1>13. CASE NextEntry(c)
  BY <1>a, <1>13, WentOn DEF Pends, registry, AtGroup
<1>14. CASE Return(c)
  BY <1>a, <1>14, Returned DEF Pends, registry
<1>15. CASE ReflectionFails(c)
  BY <1>1, <1>15 DEF ReflectionFails, registry
<1> QED BY <1>2, <1>3, <1>4, <1>5, <1>6, <1>7, <1>8, <1>9, <1>10, <1>11, <1>12, <1>13, <1>14, <1>15 DEF CallStep

\* With nothing registered there is nothing to claim.
LEMMA BlankClaims == Blank => Claimed
<1> SUFFICES ASSUME Blank PROVE Claimed
  OBVIOUS
<1>1. \A c \in Calls : ~Pends(reg[c])
  BY DEF Blank, Unmade, Pends
<1>2. \A id \in Ids, c \in Calls : deps[<<id, c>>] = {}
  BY DEF Blank, NoDeps
<1> QED BY <1>1, <1>2 DEF Blank, Claimed, ClaimsApart, DepsRight

\* Every step keeps the claims, and until the router is reset every chain.
LEMMA NextClaimed ==
  ASSUME Claimed, [Next]_vars
  PROVE  Claimed' /\ (initialized' => \A id \in Registered : flat'[id] = flat[id])
<1>1. Kept /\ Kept'
  BY NextKept DEF Claimed
<1>2. ASSUME NEW c \in Calls, Call(c) \/ CallStep(c)
      PROVE  Claimed' /\ (initialized' => \A id \in Registered : flat'[id] = flat[id])
  <2>1. CASE ReceiveEntry(c)
    BY <1>1, <2>1, ReceiveEntryClaims DEF ReceiveEntry
  <2>2. CASE SetChain(c)
    BY <1>1, <2>2, SetChainClaims
  <2>3. CASE ~ReceiveEntry(c) /\ ~SetChain(c)
    BY <1>1, <1>2, <2>3, CallStepClaims
  <2> QED BY <2>1, <2>2, <2>3
<1>3. ASSUME NEW id \in Asked, ServeMetadata(id) PROVE Claimed' /\ UNCHANGED flat
  BY <1>1, <1>3, StillClaims DEF ServeMetadata, registry
<1>4. CASE ResetRouter
  <2>1. Blank' => Claimed'
    BY BlankClaims, PTL
  <2> QED BY <1>1, <1>4, <2>1, ResetKeeps DEF Blank
<1>5. ASSUME \/ \E item \in ExtraStart, before \in BOOLEAN : AddStartMiddleFns(item, before)
             \/ \E item \in ExtraEnd, after \in BOOLEAN : AddEndMiddleFns(item, after)
      PROVE  Claimed' /\ UNCHANGED flat
  BY <1>1, <1>5, AddMiddleFnsKeeps, StillClaims DEF registry
<1>6. CASE UNCHANGED vars
  BY <1>1, <1>6, StillClaims DEF vars, registry
<1> QED BY <1>2, <1>3, <1>4, <1>5, <1>6 DEF Next

\* A path that is served keeps its chain until the router is reset, however many
\* registrations interleave (router.ts:275-380): a name is claimed in one run with
\* the check that it is free, and the chain is filed by the call that claimed it.
THEOREM FirstChainStands == Spec => FirstRegistrationStands
<1>1. Init => Claimed
  BY InitKept, BlankClaims
<1>2. Claimed /\ [Next]_vars => Claimed'
  BY NextClaimed
<1>3. Claimed /\ [Next]_vars => [initialized' => \A id \in Registered : flat'[id] = flat[id]]_vars
  BY NextClaimed
<1> QED BY <1>1, <1>2, <1>3, PTL DEF Spec, FirstRegistrationStands
-----------------------------------------------------------------------------
(***************************************************************************)
(* A program that awaits its registrations: an id means one executable.    *)
(***************************************************************************)

\* One registration is under way at a time.
LEMMA OnlyOne ==
  ASSUME awaited, InTurn, NEW c \in Calls, Active(reg[c])
  PROVE  \A d \in Calls : d # c => ~Active(reg[d])
<1> SUFFICES ASSUME NEW d \in Calls, d # c PROVE ~Active(reg[d])
  OBVIOUS
<1>1. c \in Earlier[d] \/ d \in Earlier[c]
  BY ProgramAssumption
<1>2. CASE c \in Earlier[d]
  BY <1>2 DEF InTurn, Active, Settled
<1>3. CASE d \in Earlier[c]
  BY <1>3 DEF InTurn, Active, Settled
<1> QED BY <1>1, <1>2, <1>3

\* A call is made when those before it are settled, and they stay settled.
LEMMA InTurnKeeps ==
  ASSUME Kept, awaited, InTurn, NEW c \in Calls, NEW q, Become(c, q),
         Active(reg[c]) \/ (reg[c].wait = "idle" /\ MayCall(c))
  PROVE  InTurn'
<1>1. reg'[c] = q /\ \A d \in Calls : d # c => reg'[d] = reg[d]
  BY BecomeFacts
<1>2. ~Settled(c) /\ \A b \in Earlier[c] : Settled(b)
  BY DEF Settled, Active, InTurn, MayCall
<1>3. Earlier \in [Calls -> SUBSET Calls]
  BY RegistryAssumption
<1> SUFFICES ASSUME NEW d \in Calls, reg'[d].wait # "idle", NEW b \in Earlier[d]
             PROVE  Settled(b)'
  BY DEF InTurn
<1>4. b \in Calls
  BY <1>3
<1>5. Settled(b)
  <2>1. CASE d = c
    BY <1>2, <2>1
  <2>2. CASE d # c
    BY <1>1, <2>2 DEF InTurn
  <2> QED BY <2>1, <2>2
<1>6. b # c
  BY <1>2, <1>5
<1> QED BY <1>1, <1>4, <1>5, <1>6 DEF Settled

\* What a call carries stays filed while what is filed stays.
LEMMA FiledStays ==
  ASSUME NEW r \in CallRecords, FiledCall(r), \A e \in Executables : Filed(e) => Filed(e)'
  PROVE  FiledCall(r)'
<1>1. \A s \in Seq(Executables) : AllFiled(s) => AllFiled(s)'
  BY DEF AllFiled
<1>2. r.got \in Seq(Executables) /\ (r.held # None => r.held \in Executables) /\ r.stack \in Seq(Levels)
  BY DEF CallRecords
<1>3. AllFiled(r.got)' /\ (r.held # None => Filed(r.held)')
  BY <1>1, <1>2 DEF FiledCall
<1>4. ASSUME NEW f \in Levels, FiledLevel(f) PROVE FiledLevel(f)'
  <2>1. /\ f.pre \in Seq(Executables) /\ f.post \in Seq(Executables)
        /\ f.preLevel \in Seq(Executables) /\ f.postLevel \in Seq(Executables)
    BY DEF Levels
  <2> QED BY <1>1, <1>4, <2>1 DEF FiledLevel
<1>5. \A k \in DOMAIN r.stack : r.stack[k] \in Levels /\ FiledLevel(r.stack[k])
  BY <1>2 DEF FiledCall
<1>6. \A k \in DOMAIN r.stack : FiledLevel(r.stack[k])'
  BY <1>4, <1>5
<1> QED BY <1>3, <1>6 DEF FiledCall

\* Sequences of what is filed.
LEMMA FiledSequences ==
  /\ AllFiled(<<>>)
  /\ \A s \in Seq(Executables), e \in Executables : AllFiled(s) /\ Filed(e) => AllFiled(Append(s, e))
  /\ \A s, t \in Seq(Executables) : AllFiled(s) /\ AllFiled(t) => AllFiled(s \o t)
<1>1. AllFiled(<<>>)
  BY DEF AllFiled
<1>2. ASSUME NEW s \in Seq(Executables), NEW e \in Executables, AllFiled(s), Filed(e)
      PROVE  AllFiled(Append(s, e))
  <2> SUFFICES ASSUME NEW k \in DOMAIN Append(s, e) PROVE Filed(Append(s, e)[k])
    BY DEF AllFiled
  <2>1. CASE k = Len(s) + 1
    BY <1>2, <2>1
  <2>2. CASE k # Len(s) + 1
    <3>1. k \in DOMAIN s /\ Append(s, e)[k] = s[k]
      BY <2>2
    <3> QED BY <1>2, <3>1 DEF AllFiled
  <2> QED BY <2>1, <2>2
<1>3. ASSUME NEW s \in Seq(Executables), NEW t \in Seq(Executables), AllFiled(s), AllFiled(t)
      PROVE  AllFiled(s \o t)
  <2> SUFFICES ASSUME NEW k \in DOMAIN (s \o t) PROVE Filed((s \o t)[k])
    BY DEF AllFiled
  <2>1. CASE k <= Len(s)
    <3>1. k \in DOMAIN s /\ (s \o t)[k] = s[k]
      BY <2>1
    <3> QED BY <1>3, <3>1 DEF AllFiled
  <2>2. CASE ~(k <= Len(s))
    <3>1. k - Len(s) \in DOMAIN t /\ (s \o t)[k] = t[k - Len(s)]
      BY <2>2
    <3> QED BY <1>3, <3>1 DEF AllFiled
  <2> QED BY <2>1, <2>2
<1> QED BY <1>1, <1>2, <1>3

\* What is published stays true while what is filed stays.
LEMMA PublishedStays ==
  ASSUME RegistryTypes, PublishedAgrees, UNCHANGED published, \A e \in Executables : Filed(e) => Filed(e)',
         Registered \subseteq Registered', \A id \in Registered : flat'[id] = flat[id]
  PROVE  PublishedAgrees'
<1> SUFFICES ASSUME NEW id \in Ids, published[id] # None
             PROVE  /\ Filed(published[id].of)' /\ published[id].of.id = id
                    /\ published[id].of.kind \in {"route", "middleFn"}
                    /\ published[id].early => published[id].middleFnIds = {}
                    /\ ~published[id].early =>
                         id \in Registered' /\ published[id].middleFnIds = PublicMiddleFnIds(flat[id].methods)'
  BY DEF PublishedAgrees, PublicMiddleFnIds, Filed
<1>1. published[id].of \in Executables
  BY DEF RegistryTypes, SerializableMethods
<1>2. Filed(published[id].of)'
  BY <1>1 DEF PublishedAgrees, Filed
<1>3. ASSUME ~published[id].early
      PROVE  id \in Registered' /\ published[id].middleFnIds = PublicMiddleFnIds(flat[id].methods)'
  BY <1>3 DEF PublishedAgrees, PublicMiddleFnIds
<1> QED BY <1>2, <1>3 DEF PublishedAgrees

\* A step of the call that is under way.
LEMMA StepAgrees ==
  ASSUME Claimed, awaited, AwaitedAgree, Kept', NEW c \in Calls, NEW q \in CallRecords, Become(c, q),
         Active(reg[c]), UNCHANGED <<setup, published>>,
         \A e \in Executables : Filed(e) => Filed(e)',
         FiledCall(q)',
         q.wait = "reflect" => byId'[Wanted(c)'.kind][Wanted(c)'.id] = None,
         AllFiled(startFns)', AllFiled(endFns)',
         names["route"] \subseteq names'["route"],
         \A id \in Ids : HoldsRoute(q, id) => q.held.by = c \/ id \in names'["route"],
         \A id \in Ids : byId'["route"][id] # None =>
           \/ byId["route"][id] # None /\ ~HoldsRoute(reg[c], id)
           \/ id \in names'["route"] \/ HoldsRoute(q, id),
         Pends(q) => Level(q).own.by = c,
         Registered \subseteq Registered', \A id \in Registered : flat'[id] = flat[id],
         \A id \in Registered' :
           id \in Registered \/ (RouteOf(flat'[id]).by = flat'[id].by /\ AllFiled(flat[id].methods)')
  PROVE  AwaitedAgree'
<1>1. Kept /\ InTurn
  BY DEF Claimed, AwaitedAgree
<1>2. reg'[c] = q /\ \A d \in Calls : d # c => reg'[d] = reg[d] /\ ~Active(reg[d])
  BY <1>1, BecomeFacts, OnlyOne
<1>3. InTurn'
  BY <1>1, InTurnKeeps
<1>4. ASSUME NEW d \in Calls
      PROVE  /\ FiledCall(reg[d])'
             /\ reg'[d].wait = "reflect" => byId'[Wanted(d)'.kind][Wanted(d)'.id] = None
  <2>1. CASE d = c
    <3>1. reg'[d] = q
      BY <1>2, <2>1
    <3>2. q.wait = "reflect" => byId'[Wanted(d)'.kind][Wanted(d)'.id] = None
      BY <2>1
    <3> QED BY ONLY <3>1, <3>2, FiledCall(q)' DEF FiledCall, AllFiled, FiledLevel, Filed
  <2>2. CASE d # c
    <3>1. PICK r : r = reg[d]
      OBVIOUS
    <3>2. r \in CallRecords /\ FiledCall(r)
      BY <1>1, <3>1, CallFacts DEF AwaitedAgree
    <3>3. FiledCall(r)'
      BY <3>2, FiledStays
    <3>4. reg'[d] = r /\ r.wait # "reflect"
      BY <1>2, <2>2, <3>1 DEF Active
    <3> QED BY <3>3, <3>4 DEF FiledCall, AllFiled, FiledLevel, Filed
  <2> QED BY <2>1, <2>2
<1>5. RoutesOwn'
  <2>1. ASSUME NEW d \in Calls, NEW id \in Ids, HoldsRoute(reg'[d], id)
        PROVE  reg'[d].held.by = d \/ id \in names'["route"]
    BY <1>2, <2>1 DEF HoldsRoute
  <2>2. ASSUME NEW id \in Ids, byId'["route"][id] # None
        PROVE  id \in names'["route"] \/ \E d \in Calls : HoldsRoute(reg'[d], id)
    <3>1. CASE byId["route"][id] # None /\ ~HoldsRoute(reg[c], id)
      <4>1. id \in names["route"] \/ \E d \in Calls : HoldsRoute(reg[d], id)
        BY <3>1 DEF AwaitedAgree, RoutesOwn
      <4> QED BY <1>2, <3>1, <4>1
    <3>2. CASE id \in names'["route"] \/ HoldsRoute(q, id)
      BY <1>2, <3>2
    <3> QED BY <2>2, <3>1, <3>2
  <2>3. ASSUME NEW d \in Calls, Pends(reg'[d])
        PROVE  Level(reg'[d]).own.by = d
    BY <1>2, <2>3 DEF Pends
  <2> QED BY <2>1, <2>2, <2>3 DEF RoutesOwn
<1>6. \A id \in Registered' :
        RouteOf(flat'[id]).by = flat'[id].by /\ AllFiled(flat[id].methods)'
  <2> SUFFICES ASSUME NEW id \in Registered', id \in Registered, flat'[id] = flat[id]
               PROVE  RouteOf(flat'[id]).by = flat'[id].by /\ AllFiled(flat[id].methods)'
    OBVIOUS
  <2>1. flat[id] \in ExecutionChains
    BY <1>1 DEF Kept, RegistryTypes, Registered
  <2>2. \A k \in DOMAIN flat[id].methods : flat[id].methods[k] \in Executables
    BY <2>1 DEF ExecutionChains
  <2>3. AllFiled(flat[id].methods)'
    BY <2>2 DEF AwaitedAgree, AllFiled, Filed
  <2> QED BY <2>3 DEF AwaitedAgree
<1>7. PublishedAgrees'
  BY <1>1, PublishedStays DEF Kept, AwaitedAgree
<1> QED BY <1>3, <1>4, <1>5, <1>6, <1>7 DEF AwaitedAgree

\* A step that files nothing, of the call that is under way.
LEMMA QuietAgrees ==
  ASSUME Claimed, awaited, AwaitedAgree, Kept', NEW c \in Calls, NEW q \in CallRecords, Become(c, q),
         Active(reg[c]), UNCHANGED <<setup, registry, published>>, FiledCall(q),
         q.wait = "reflect" => byId[Wanted(c)'.kind][Wanted(c)'.id] = None,
         \A id \in Ids : HoldsRoute(q, id) => q.held.by = c \/ id \in names["route"],
         \A id \in Ids : ~HoldsRoute(reg[c], id),
         Pends(q) => Pends(reg[c]) /\ Level(q).own = Level(reg[c]).own
  PROVE  AwaitedAgree'
<1>1. UNCHANGED <<byId, names, flat, deps, startFns, endFns>>
  BY DEF registry
<1>2. \A e \in Executables : Filed(e) => Filed(e)'
  BY <1>1 DEF Filed
<1>3. FiledCall(q)'
  BY <1>2, FiledStays
<1>4. AllFiled(startFns)' /\ AllFiled(endFns)'
  BY <1>1 DEF AwaitedAgree, AllFiled, Filed
<1>5. Pends(q) => Level(q).own.by = c
  BY DEF AwaitedAgree, RoutesOwn
<1>6. Registered' = Registered /\ \A id \in Registered : flat'[id] = flat[id]
  BY <1>1 DEF Registered
<1> QED BY <1>1, <1>2, <1>3, <1>4, <1>5, <1>6, StepAgrees

\* What the call under way carries, and the level it stands at.
LEMMA CarriedFiled ==
  ASSUME Kept, AwaitedAgree, NEW c \in Calls
  PROVE  /\ FiledCall(reg[c]) /\ AllFiled(reg[c].got) /\ (reg[c].held # None => Filed(reg[c].held))
         /\ Active(reg[c]) /\ reg[c].phase = "walk" => FiledLevel(Level(reg[c]))
         /\ reg[c].held = None => \A id \in Ids : ~HoldsRoute(reg[c], id)
         /\ ~AtEntry(reg[c]) => \A id \in Ids : ~HoldsRoute(reg[c], id)
         /\ reg[c].wait # "tick" => reg[c].held = None
<1>1. FiledCall(reg[c]) /\ AllFiled(reg[c].got) /\ (reg[c].held # None => Filed(reg[c].held))
  BY DEF AwaitedAgree, FiledCall
<1>2. ASSUME Active(reg[c]), reg[c].phase = "walk" PROVE FiledLevel(Level(reg[c]))
  BY <1>1, <1>2, WalkFacts DEF FiledCall, Level
<1>3. \A id \in Ids : HoldsRoute(reg[c], id) => reg[c].held # None /\ AtEntry(reg[c])
  BY DEF HoldsRoute
<1>4. reg[c].wait # "tick" => reg[c].held = None
  BY CallFacts DEF Walks
<1> QED BY <1>1, <1>2, <1>3, <1>4

\* A call that is refused.
LEMMA FailAgrees ==
  ASSUME Claimed, awaited, AwaitedAgree, Kept', NEW c \in Calls, Fail(c), Active(reg[c]),
         UNCHANGED <<setup, registry, published>>, \A id \in Ids : ~HoldsRoute(reg[c], id)
  PROVE  AwaitedAgree'
<1>a. Kept
  BY DEF Claimed
<1>1. PICK q \in CallRecords :
        /\ Become(c, q) /\ q.wait = "failed" /\ q.held = None /\ q.stack = reg[c].stack /\ q.got = reg[c].got /\ ~Active(q)
  BY <1>a, Failed
<1>2. FiledCall(q)
  BY <1>a, <1>1, CarriedFiled DEF FiledCall
<1>3. ~Pends(q) /\ \A id \in Ids : ~HoldsRoute(q, id)
  BY <1>1 DEF Pends, HoldsRoute
<1> QED BY <1>1, <1>2, <1>3, QuietAgrees

\* Changing the level a call stands at to one that is filed.
LEMMA TopFiled ==
  ASSUME NEW p \in CallRecords, FiledCall(p), NEW q \in CallRecords, q.got = p.got, q.held = None,
         DOMAIN q.stack = DOMAIN p.stack, q.stack # <<>>, Len(q.stack) = Len(p.stack), FiledLevel(Level(q)),
         \A k \in DOMAIN p.stack : k # Len(p.stack) => q.stack[k] = p.stack[k]
  PROVE  FiledCall(q)
<1>1. \A k \in DOMAIN q.stack : FiledLevel(q.stack[k])
  BY DEF FiledCall, Level
<1> QED BY <1>1 DEF FiledCall

\* Lookup
LEMMA LookupAgrees ==
  ASSUME Claimed, awaited, AwaitedAgree, Kept', NEW c \in Calls, Lookup(c)
  PROVE  AwaitedAgree'
<1>a. Kept /\ RegistryTypes /\ Walks(reg[c])
  BY CallFacts DEF Claimed
<1>1. /\ Active(reg[c]) /\ reg[c].wait = "run" /\ Wanted(c) # None /\ reg[c].held = None
      /\ UNCHANGED <<setup, initialized, registry, published>>
  BY <1>a, LookedUp, CarriedFiled
<1>2. PICK q \in CallRecords :
        /\ Become(c, q) /\ q.phase = reg[c].phase /\ q.stack = reg[c].stack /\ q.got = reg[c].got
        /\ \/ /\ q.wait = "tick" /\ q.held \in Executables /\ byId[q.held.kind][q.held.id] = q.held
              /\ q.held.kind = Wanted(c).kind /\ q.held.id = Wanted(c).id
           \/ q.wait = "reflect" /\ q.held = None /\ byId[Wanted(c).kind][Wanted(c).id] = None
  BY <1>a, LookedUp
<1>3. FiledCall(q)
  BY <1>a, <1>2, CarriedFiled DEF FiledCall, Filed
<1>4. \A id \in Ids : ~HoldsRoute(reg[c], id)
  BY <1>a, <1>1, CarriedFiled
<1>5. Pends(q) => Pends(reg[c]) /\ Level(q).own = Level(reg[c]).own
  BY <1>1, <1>2 DEF Pends, Level
<1>6. ASSUME q.wait = "reflect" PROVE byId[Wanted(c)'.kind][Wanted(c)'.id] = None
  <2>1. reg'[c] = q
    BY <1>a, <1>2, BecomeFacts
  <2>2. Wanted(c)' = Wanted(c)
    BY <1>1, <1>2, <2>1, WantedKept DEF setup
  <2> QED BY <1>2, <1>6, <2>2
<1>7. ASSUME NEW id \in Ids, HoldsRoute(q, id) PROVE id \in names["route"]
  <2>1. q.held # None /\ byId["route"][id] = q.held
    BY <1>2, <1>7 DEF HoldsRoute
  <2>2. \A d \in Calls : ~HoldsRoute(reg[d], id)
    BY <1>1, <1>4, OnlyOne DEF HoldsRoute, AwaitedAgree
  <2> QED BY <2>1, <2>2 DEF AwaitedAgree, RoutesOwn
<1> QED BY <1>1, <1>2, <1>3, <1>4, <1>5, <1>6, <1>7, QuietAgrees

\* What is made was not there, so that everything that is filed stays.
LEMMA ReflectedAgrees ==
  ASSUME Claimed, awaited, AwaitedAgree, Kept', NEW c \in Calls, Reflected(c)
  PROVE  AwaitedAgree'
<1>a. Kept /\ RegistryTypes /\ Walks(reg[c])
  BY CallFacts DEF Claimed
<1>1. /\ Active(reg[c]) /\ reg[c].wait = "reflect" /\ Wanted(c) # None /\ reg[c].held = None
      /\ UNCHANGED <<setup, initialized, names, flat, deps, startFns, endFns, published>>
  BY <1>a, MadeAndFiled, CarriedFiled
<1>2. PICK q \in CallRecords, made \in Executables :
        /\ Become(c, q) /\ q.phase = reg[c].phase /\ q.stack = reg[c].stack /\ q.got = reg[c].got
        /\ q.wait = "tick" /\ q.held = made /\ made.by = c
        /\ made.kind = Wanted(c).kind /\ made.id = Wanted(c).id
        /\ \A k \in ExecKinds, id \in Ids :
             byId'[k][id] = IF k = made.kind /\ id = made.id THEN made ELSE byId[k][id]
  BY <1>a, MadeAndFiled
<1>3. byId[made.kind][made.id] = None
  BY <1>1, <1>2 DEF AwaitedAgree
<1>4. \A e \in Executables : Filed(e) => Filed(e)'
  <2> SUFFICES ASSUME NEW e \in Executables, Filed(e) PROVE byId'[e.kind][e.id] = e
    BY DEF Filed
  <2>1. ~(e.kind = made.kind /\ e.id = made.id)
    BY <1>3, Distinct DEF Filed
  <2>2. e.kind \in ExecKinds /\ e.id \in Ids
    BY Distinct
  <2>3. byId'[e.kind][e.id] = byId[e.kind][e.id]
    BY <1>2, <2>1, <2>2
  <2> QED BY <2>3 DEF Filed
<1>5. PICK r : r = reg[c]
  OBVIOUS
<1>6. FiledCall(r)' /\ r.got = q.got /\ r.stack = q.stack
  BY <1>a, <1>2, <1>4, <1>5, CallFacts, CarriedFiled, FiledStays
<1>7. Filed(made)'
  BY <1>2, Distinct DEF Filed
<1>8. FiledCall(q)'
  BY <1>2, <1>6, <1>7 DEF FiledCall
<1>9. AllFiled(startFns)' /\ AllFiled(endFns)'
  <2>1. startFns \in Seq(Executables) /\ endFns \in Seq(Executables)
    BY <1>a DEF RegistryTypes
  <2>2. \A k \in DOMAIN startFns : startFns[k] \in Executables /\ Filed(startFns[k])
    BY <2>1 DEF AwaitedAgree, AllFiled
  <2>3. \A k \in DOMAIN endFns : endFns[k] \in Executables /\ Filed(endFns[k])
    BY <2>1 DEF AwaitedAgree, AllFiled
  <2> QED BY <1>1, <1>4, <2>2, <2>3 DEF AllFiled, Filed
<1>10. Pends(q) => Level(q).own.by = c
  <2>1. Pends(q) => Pends(reg[c]) /\ Level(q).own = Level(reg[c]).own
    BY <1>1, <1>2 DEF Pends, Level
  <2> QED BY <2>1 DEF AwaitedAgree, RoutesOwn
<1>11. Registered' = Registered /\ \A id \in Registered : flat'[id] = flat[id]
  BY <1>1 DEF Registered
<1>12. ASSUME NEW id \in Ids, byId'["route"][id] # None, ~HoldsRoute(q, id)
       PROVE  byId["route"][id] # None /\ ~HoldsRoute(reg[c], id)
  <2>1. ~HoldsRoute(reg[c], id)
    BY <1>a, <1>1, CarriedFiled
  <2>2. made.kind = "route" /\ made.id = id => HoldsRoute(q, id)
    <3> SUFFICES ASSUME made.kind = "route", made.id = id PROVE HoldsRoute(q, id)
      OBVIOUS
    <3>1. AtEntry(reg[c])
      BY <1>a, <1>1, <1>2, WantedItem
    <3>2. AtEntry(q)
      BY <1>2, <3>1 DEF AtEntry, Level
    <3> QED BY <1>2, <3>2, Distinct DEF HoldsRoute, Active
  <2>3. "route" \in ExecKinds
    BY DEF ExecKinds
  <2> QED BY <1>2, <1>12, <2>1, <2>2, <2>3
<1>13. \A id \in Ids : HoldsRoute(q, id) => q.held.by = c
  BY <1>2
<1> QED BY <1>1, <1>2, <1>4, <1>8, <1>9, <1>10, <1>11, <1>12, <1>13, StepAgrees

\* ReceiveOuter
LEMMA ReceiveOuterAgrees ==
  ASSUME Claimed, awaited, AwaitedAgree, Kept', NEW c \in Calls, ReceiveOuter(c)
  PROVE  AwaitedAgree'
<1>a. Kept
  BY DEF Claimed
<1>1. /\ Active(reg[c]) /\ reg[c].held \in Executables /\ reg[c].phase # "walk" /\ reg[c].got \in Seq(Executables)
      /\ UNCHANGED <<setup, initialized, registry, published>>
  BY <1>a, OuterReceived
<1>2. PICK q \in CallRecords :
        /\ Become(c, q) /\ q.phase = reg[c].phase /\ q.stack = reg[c].stack
        /\ q.got = Append(reg[c].got, reg[c].held) /\ q.wait = "run" /\ q.held = None
  BY <1>a, OuterReceived
<1>3. AllFiled(q.got)
  BY <1>a, <1>1, <1>2, CarriedFiled, FiledSequences, Distinct
<1>4. FiledCall(q)
  BY <1>a, <1>2, <1>3, CarriedFiled DEF FiledCall
<1>5. ~Pends(q) /\ \A id \in Ids : ~HoldsRoute(q, id) /\ ~HoldsRoute(reg[c], id)
  BY <1>1, <1>2 DEF Pends, HoldsRoute, AtEntry
<1> QED BY <1>1, <1>2, <1>4, <1>5, QuietAgrees
\* An entry that is a route is named by the call that made its executable.
LEMMA ReceiveEntryAgrees ==
  ASSUME Claimed, awaited, AwaitedAgree, Kept', NEW c \in Calls, ReceiveEntry(c)
  PROVE  AwaitedAgree'
<1> DEFINE g == Level(reg[c])
           e == reg[c].held
<1>a. Kept /\ RegistryTypes /\ reg[c] \in CallRecords
  BY CallFacts DEF Claimed
<1>1. /\ UNCHANGED <<setup, initialized, byId, flat, deps, startFns, endFns, published>> /\ Active(reg[c])
      /\ AtEntry(reg[c]) /\ e \in Executables /\ e.id = Entry(c).id /\ e.kind = Entry(c).kind /\ reg[c].wait = "tick"
  BY <1>a, EntryArrives
<1>2. /\ Entry(c) \in Items /\ Entry(c).kind \in ExecKinds /\ Entry(c).id \in Ids
      /\ g \in Levels /\ AtItem(g) /\ FiledLevel(g) /\ Filed(e) /\ reg[c].stack # <<>>
  BY <1>a, <1>1, WalkFacts, CarriedFiled, Distinct DEF AtEntry
<1>3. /\ NameClass(Entry(c).kind) = "route" <=> Entry(c).kind = "route"
      /\ Named(Entry(c))["route"] = IF Entry(c).kind = "route" THEN names["route"] \cup {Entry(c).id} ELSE names["route"]
  BY <1>a, <1>2, NamedTyped
<1>4. \E q \in CallRecords :
        /\ Become(c, q) /\ FiledCall(q) /\ q.wait # "reflect" /\ q.held = None
        /\ \/ ~Active(q) /\ Entry(c).id \in names[NameClass(Entry(c).kind)] /\ names' = names
           \/ /\ Level(q).own = e /\ Entry(c).id \notin names[NameClass(Entry(c).kind)]
              /\ names' = Named(Entry(c))
  <2>1. CASE Entry(c).id \in names[NameClass(Entry(c).kind)] /\ Fail(c) /\ names' = names
    <3>1. PICK q \in CallRecords :
            Become(c, q) /\ q.wait = "failed" /\ q.held = None /\ q.stack = reg[c].stack /\ q.got = reg[c].got /\ ~Active(q)
      BY <1>a, <2>1, Failed
    <3>2. FiledCall(q)
      BY <1>a, <3>1, CarriedFiled DEF FiledCall
    <3> QED BY <2>1, <3>1, <3>2
  <2>2. CASE ~(Entry(c).id \in names[NameClass(Entry(c).kind)] /\ Fail(c) /\ names' = names)
    <3> HIDE DEF g, e
    <3>1. PICK q : q = SetTop([reg[c] EXCEPT !.wait = "run", !.held = None], Entered(g, e))
      OBVIOUS
    <3>2. /\ Entry(c).id \notin names[NameClass(Entry(c).kind)] /\ names' = Named(Entry(c))
          /\ Become(c, q) /\ q \in CallRecords /\ Level(q) = Entered(g, e)
          /\ q.wait = "run" /\ q.held = None /\ q.got = reg[c].got
          /\ DOMAIN q.stack = DOMAIN reg[c].stack /\ Len(q.stack) = Len(reg[c].stack)
          /\ \A k \in DOMAIN reg[c].stack : k # Len(reg[c].stack) => q.stack[k] = reg[c].stack[k]
      BY <1>a, <2>2, <3>1, EntryArrives DEF g, e
    <3>3. /\ Entered(g, e).own = e /\ Entered(g, e).pre = g.pre /\ Entered(g, e).post = g.post
          /\ Entered(g, e).preLevel \in {g.preLevel, <<>>} /\ Entered(g, e).postLevel \in {g.postLevel, <<>>}
      BY <1>1, <1>2, EnteredLevel
    <3>4. FiledLevel(Entered(g, e))
      BY <1>2, <3>3, FiledSequences DEF FiledLevel
    <3>5. q.stack # <<>>
      <4>1. Len(reg[c].stack) > 0
        BY <1>a, <1>2, LevelTyped
      <4> QED BY <3>2, <4>1
    <3>6. FiledCall(q)
      BY <1>a, <3>2, <3>4, <3>5, CarriedFiled, TopFiled
    <3> QED BY <3>2, <3>3, <3>6
  <2> QED BY <2>1, <2>2
<1>5. PICK q \in CallRecords :
        /\ Become(c, q) /\ FiledCall(q) /\ q.wait # "reflect" /\ q.held = None
        /\ \/ ~Active(q) /\ Entry(c).id \in names[NameClass(Entry(c).kind)] /\ names' = names
           \/ /\ Level(q).own = e /\ Entry(c).id \notin names[NameClass(Entry(c).kind)]
              /\ names' = Named(Entry(c))
  BY <1>4
<1>6. \A x \in Executables : Filed(x) => Filed(x)'
  BY <1>1 DEF Filed
<1>7. FiledCall(q)'
  BY <1>5, <1>6, FiledStays
<1>8. AllFiled(startFns)' /\ AllFiled(endFns)'
  BY <1>1 DEF AwaitedAgree, AllFiled, Filed
<1>9. Registered' = Registered /\ \A id \in Registered : flat'[id] = flat[id]
  BY <1>1 DEF Registered
<1>10. names["route"] \subseteq names'["route"]
  BY <1>3, <1>5
<1>11. \A id \in Ids : HoldsRoute(reg[c], id) => id \in names'["route"]
  <2> SUFFICES ASSUME NEW id \in Ids, HoldsRoute(reg[c], id) PROVE id \in names'["route"]
    OBVIOUS
  <2>1. e.kind = "route" /\ e.id = id
    BY DEF HoldsRoute
  <2> HIDE DEF e
  <2> QED BY <1>1, <1>3, <1>5, <2>1
<1>12. ASSUME Pends(q) PROVE Level(q).own.by = c
  <2>1. Level(q).own = e /\ Entry(c).id \notin names[NameClass(Entry(c).kind)] /\ e.kind = "route"
    BY <1>5, <1>12 DEF Pends
  <2>2. e.id \notin names["route"] /\ e.id \in Ids
    BY <1>1, <1>2, <1>3, <2>1
  <2>3. HoldsRoute(reg[c], e.id)
    BY <1>1, <2>1, Distinct DEF HoldsRoute
  <2>4. e.by = c
    BY <2>2, <2>3 DEF AwaitedAgree, RoutesOwn
  <2> QED BY <2>1, <2>4
<1>13. ASSUME NEW id \in Ids, byId'["route"][id] # None
       PROVE  \/ byId["route"][id] # None /\ ~HoldsRoute(reg[c], id)
              \/ id \in names'["route"] \/ HoldsRoute(q, id)
  BY <1>1, <1>11, <1>13
<1>14. \A id \in Ids : ~HoldsRoute(q, id)
  BY <1>5 DEF HoldsRoute
<1> QED BY <1>1, <1>5, <1>6, <1>7, <1>8, <1>9, <1>10, <1>12, <1>13, <1>14, StepAgrees

\* EnterGroup
LEMMA EnterGroupAgrees ==
  ASSUME Claimed, awaited, AwaitedAgree, Kept', NEW c \in Calls, EnterGroup(c)
  PROVE  AwaitedAgree'
<1>a. Kept /\ reg[c] \in CallRecords
  BY CallFacts DEF Claimed
<1>1. PICK f \in Levels :
           /\ f.own \in Items /\ f.own.kind = "group" /\ AtItem(f)
           /\ f.pre = Level(reg[c]).pre /\ f.post = Level(reg[c]).post /\ f.preLevel = <<>> /\ f.postLevel = <<>>
           /\ Become(c, SetTop(reg[c], f)) /\ AtEntry(reg[c])
           /\ Active(reg[c]) /\ reg[c].wait = "run" /\ reg[c].held = None
           /\ UNCHANGED <<setup, initialized, registry, published>>
  BY <1>a, GroupEntered
<1>2. PICK q : q = SetTop(reg[c], f)
  OBVIOUS
<1>3. /\ q \in CallRecords /\ Level(q) = f /\ q.held = None /\ q.got = reg[c].got /\ q.wait = "run"
      /\ DOMAIN q.stack = DOMAIN reg[c].stack /\ Len(q.stack) = Len(reg[c].stack)
      /\ \A k \in DOMAIN reg[c].stack : k # Len(reg[c].stack) => q.stack[k] = reg[c].stack[k]
  BY <1>a, <1>1, <1>2, LevelWalks DEF AtEntry
<1>4. FiledLevel(Level(reg[c])) /\ FiledCall(reg[c]) /\ reg[c].stack # <<>> /\ Len(reg[c].stack) > 0
  BY <1>a, <1>1, CarriedFiled, WalkFacts, LevelTyped DEF AtEntry
<1>5. FiledLevel(f)
  BY <1>1, <1>4, FiledSequences, Distinct DEF FiledLevel, ExecKinds
<1>6. q.stack # <<>>
  BY <1>3, <1>4
<1>7. FiledCall(q)
  BY <1>a, <1>3, <1>4, <1>5, <1>6, TopFiled
<1>8. ~Pends(q) /\ \A id \in Ids : ~HoldsRoute(q, id) /\ ~HoldsRoute(reg[c], id)
  BY <1>1, <1>3 DEF Pends, HoldsRoute
<1> QED BY <1>1, <1>2, <1>3, <1>7, <1>8, QuietAgrees

\* ReceiveSibling
LEMMA ReceiveSiblingAgrees ==
  ASSUME Claimed, awaited, AwaitedAgree, Kept', NEW c \in Calls, ReceiveSibling(c)
  PROVE  AwaitedAgree'
<1> DEFINE p == [reg[c] EXCEPT !.wait = "run", !.held = None]
<1>a. Kept /\ reg[c] \in CallRecords
  BY CallFacts DEF Claimed
<1>1. PICK f \in Levels :
           /\ AtItem(f) /\ f.own = Level(reg[c]).own /\ f.own # None
           /\ f.pre = Level(reg[c]).pre /\ f.post = Level(reg[c]).post
           /\ \/ f.preLevel = Append(Level(reg[c]).preLevel, reg[c].held) /\ f.postLevel = Level(reg[c]).postLevel
              \/ f.postLevel = Append(Level(reg[c]).postLevel, reg[c].held) /\ f.preLevel = Level(reg[c]).preLevel
           /\ Become(c, SetTop(p, f))
           /\ Active(reg[c]) /\ reg[c].wait = "tick" /\ reg[c].held \in Executables /\ reg[c].phase = "walk"
           /\ UNCHANGED <<setup, initialized, registry, published>>
  BY <1>a, SiblingReceived
<1>b. /\ p \in CallRecords /\ p.wait = "run" /\ p.held = None /\ p.phase = reg[c].phase
      /\ p.stack = reg[c].stack /\ p.got = reg[c].got
  BY <1>a, RunsOn
<1> HIDE DEF p
<1>2. PICK q : q = SetTop(p, f)
  OBVIOUS
<1>3. /\ q \in CallRecords /\ Level(q) = f /\ q.held = None /\ q.got = reg[c].got /\ q.wait = "run" /\ q.phase = "walk"
      /\ DOMAIN q.stack = DOMAIN reg[c].stack /\ Len(q.stack) = Len(reg[c].stack)
      /\ \A k \in DOMAIN reg[c].stack : k # Len(reg[c].stack) => q.stack[k] = reg[c].stack[k]
  BY <1>a, <1>1, <1>b, <1>2, LevelWalks
<1>4. /\ FiledLevel(Level(reg[c])) /\ FiledCall(reg[c]) /\ reg[c].stack # <<>> /\ Len(reg[c].stack) > 0
      /\ Level(reg[c]) \in Levels /\ Filed(reg[c].held)
  BY <1>a, <1>1, CarriedFiled, WalkFacts, LevelTyped, Distinct
<1>5. FiledLevel(f)
  <2>1. Level(reg[c]).preLevel \in Seq(Executables) /\ Level(reg[c]).postLevel \in Seq(Executables)
    BY <1>4 DEF Levels
  <2> QED BY <1>1, <1>4, <2>1, FiledSequences DEF FiledLevel
<1>6. q.stack # <<>>
  BY <1>3, <1>4
<1>7. FiledCall(q)
  BY <1>a, <1>3, <1>4, <1>5, <1>6, TopFiled
<1>8. /\ \A id \in Ids : ~HoldsRoute(q, id) /\ ~HoldsRoute(reg[c], id)
      /\ Pends(q) => Pends(reg[c]) /\ Level(q).own = Level(reg[c]).own
  BY <1>1, <1>3, Distinct DEF Pends, HoldsRoute, AtEntry
<1> QED BY <1>1, <1>2, <1>3, <1>7, <1>8, QuietAgrees

\* PassMiddleFn
LEMMA PassMiddleFnAgrees ==
  ASSUME Claimed, awaited, AwaitedAgree, Kept', NEW c \in Calls, PassMiddleFn(c)
  PROVE  AwaitedAgree'
<1>a. Kept /\ reg[c] \in CallRecords
  BY CallFacts DEF Claimed
<1>1. /\ reg[c].wait = "run" /\ Active(reg[c]) /\ reg[c].held = None
      /\ UNCHANGED <<setup, initialized, registry, published>>
  BY <1>a, CarriedFiled DEF PassMiddleFn, Running, Active
<1>2. PICK q : q = [reg[c] EXCEPT !.wait = "tick"]
  OBVIOUS
<1>3. /\ q \in CallRecords /\ q.wait = "tick" /\ q.held = None /\ q.stack = reg[c].stack /\ q.got = reg[c].got /\ Become(c, q)
  BY <1>a, <1>1, <1>2 DEF CallRecords, Waits, PassMiddleFn
<1>4. FiledCall(q)
  BY <1>a, <1>3, CarriedFiled DEF FiledCall
<1>5. ~Pends(q) /\ \A id \in Ids : ~HoldsRoute(q, id) /\ ~HoldsRoute(reg[c], id)
  BY <1>1, <1>3 DEF Pends, HoldsRoute
<1> QED BY <1>1, <1>3, <1>4, <1>5, QuietAgrees

\* Descend
LEMMA DescendAgrees ==
  ASSUME Claimed, awaited, AwaitedAgree, Kept', NEW c \in Calls, Descend(c)
  PROVE  AwaitedAgree'
<1>a. Kept /\ reg[c] \in CallRecords
  BY CallFacts DEF Claimed
<1>1. /\ Active(reg[c]) /\ reg[c].wait = "run" /\ reg[c].phase = "walk" /\ Level(reg[c]) \in Levels /\ reg[c].held = None
      /\ UNCHANGED <<setup, initialized, registry, published>>
  BY <1>a, Descended, CarriedFiled
<1>2. \A id \in Ids : ~HoldsRoute(reg[c], id)
  BY <1>1 DEF HoldsRoute
<1>3. CASE Fail(c)
  BY <1>1, <1>2, <1>3, FailAgrees
<1>4. CASE ~Fail(c)
  <2> DEFINE g == Level(reg[c])
  <2>1. PICK q \in CallRecords, f \in Levels :
                 /\ Become(c, q) /\ q.wait = "run" /\ q.phase = "walk"
                 /\ q.got = reg[c].got /\ q.held = None /\ f.own = None /\ Level(q) = f
                 /\ f.pre = Before(g) /\ f.post = After(g) /\ f.preLevel = <<>> /\ f.postLevel = <<>>
                 /\ q.stack = Append(reg[c].stack, f)
    BY <1>a, <1>4, Descended
  <2>2. FiledLevel(g) /\ FiledCall(reg[c]) /\ reg[c].stack \in Seq(Levels)
    BY <1>a, <1>1, CarriedFiled, WalkFacts
  <2>3. AllFiled(Before(g)) /\ AllFiled(After(g))
    <3>1. /\ g.pre \in Seq(Executables) /\ g.preLevel \in Seq(Executables)
          /\ g.post \in Seq(Executables) /\ g.postLevel \in Seq(Executables)
      BY <1>1 DEF Levels
    <3> QED BY <2>2, <3>1, FiledSequences DEF FiledLevel, Before, After
  <2>4. FiledLevel(f)
    BY <2>1, <2>3, FiledSequences, Distinct DEF FiledLevel
  <2>5. \A k \in DOMAIN q.stack : FiledLevel(q.stack[k])
    <3> SUFFICES ASSUME NEW k \in DOMAIN q.stack PROVE FiledLevel(q.stack[k])
      OBVIOUS
    <3>1. k = Len(reg[c].stack) + 1 \/ (k \in DOMAIN reg[c].stack /\ k # Len(reg[c].stack) + 1)
      BY <2>1, <2>2
    <3>2. CASE k = Len(reg[c].stack) + 1
      BY <2>1, <2>2, <2>4, <3>2
    <3>3. CASE k \in DOMAIN reg[c].stack /\ k # Len(reg[c].stack) + 1
      <4>1. q.stack[k] = reg[c].stack[k]
        BY <2>1, <2>2, <3>3
      <4> QED BY <2>2, <3>3, <4>1 DEF FiledCall
    <3> QED BY <3>1, <3>2, <3>3
  <2>6. FiledCall(q)
    BY <2>1, <2>2, <2>5 DEF FiledCall
  <2>7. ~Pends(q) /\ \A id \in Ids : ~HoldsRoute(q, id)
    BY <2>1 DEF Pends, HoldsRoute
  <2> QED BY <1>1, <1>2, <2>1, <2>6, <2>7, QuietAgrees
<1> QED BY <1>3, <1>4
\* NextEntry
LEMMA NextEntryAgrees ==
  ASSUME Claimed, awaited, AwaitedAgree, Kept', NEW c \in Calls, NextEntry(c)
  PROVE  AwaitedAgree'
<1> DEFINE g == Level(reg[c])
<1>a. Kept /\ reg[c] \in CallRecords
  BY CallFacts DEF Claimed
<1>1. /\ Active(reg[c]) /\ reg[c].wait = "tick" /\ reg[c].held = None /\ reg[c].phase = "walk"
      /\ UNCHANGED <<setup, initialized, registry, published>>
  BY <1>a, WentOn
<1>2. PICK q \in CallRecords :
              /\ Become(c, q) /\ q.wait \in {"run", "tick"} /\ q.got = reg[c].got /\ q.held = None
              /\ \/ /\ q.phase = "walk" /\ Level(q).own = None
                    /\ \E f \in Levels :
                         /\ Level(q) = f /\ DOMAIN q.stack = DOMAIN reg[c].stack /\ Len(q.stack) = Len(reg[c].stack)
                         /\ \A k \in DOMAIN reg[c].stack : k # Len(reg[c].stack) => q.stack[k] = reg[c].stack[k]
                         /\ f.pre = g.pre /\ f.post = g.post /\ f.preLevel = g.preLevel /\ f.postLevel = g.postLevel
                 \/ /\ q.phase = "walk" /\ AtGroup(Level(q)) /\ DOMAIN q.stack \subseteq DOMAIN reg[c].stack
                    /\ \A k \in DOMAIN q.stack : q.stack[k] = reg[c].stack[k]
                 \/ q.phase = "return" /\ q.stack = <<>>
  BY <1>a, WentOn
<1>3. FiledLevel(g) /\ FiledCall(reg[c]) /\ reg[c].stack # <<>> /\ Len(reg[c].stack) > 0
  BY <1>a, <1>1, CarriedFiled, WalkFacts, LevelTyped
<1>4. FiledCall(q)
  <2>1. CASE Level(q).own = None /\ \E f \in Levels :
               /\ Level(q) = f /\ DOMAIN q.stack = DOMAIN reg[c].stack /\ Len(q.stack) = Len(reg[c].stack)
               /\ \A k \in DOMAIN reg[c].stack : k # Len(reg[c].stack) => q.stack[k] = reg[c].stack[k]
               /\ f.pre = g.pre /\ f.post = g.post /\ f.preLevel = g.preLevel /\ f.postLevel = g.postLevel
    <3>1. FiledLevel(Level(q))
      BY <1>3, <2>1, Distinct DEF FiledLevel
    <3>2. q.stack # <<>>
      BY <1>3, <2>1
    <3> QED BY <1>a, <1>2, <1>3, <2>1, <3>1, <3>2, TopFiled
  <2>2. CASE DOMAIN q.stack \subseteq DOMAIN reg[c].stack /\ \A k \in DOMAIN q.stack : q.stack[k] = reg[c].stack[k]
    BY <1>2, <1>3, <2>2 DEF FiledCall
  <2>3. CASE q.stack = <<>>
    BY <1>2, <1>3, <2>3 DEF FiledCall
  <2> QED BY <1>2, <2>1, <2>2, <2>3
<1>5. ~Pends(q)
  BY <1>2 DEF Pends, AtGroup
<1>6. \A id \in Ids : ~HoldsRoute(q, id) /\ ~HoldsRoute(reg[c], id)
  BY <1>1, <1>2 DEF HoldsRoute
<1>7. q.wait # "reflect"
  BY <1>2
<1> QED BY <1>1, <1>2, <1>4, <1>5, <1>6, <1>7, QuietAgrees

\* Return
LEMMA ReturnAgrees ==
  ASSUME Claimed, awaited, AwaitedAgree, Kept', NEW c \in Calls, Return(c)
  PROVE  AwaitedAgree'
<1>a. Kept
  BY DEF Claimed
<1>1. Active(reg[c]) /\ reg[c].held = None /\ UNCHANGED <<setup, initialized, registry, published>>
  BY <1>a, Returned, CarriedFiled
<1>2. PICK q \in CallRecords :
        /\ Become(c, q) /\ q.wait \in {"run", "done"} /\ q.phase = "start"
        /\ q.got = <<>> /\ q.held = None /\ q.stack = <<>>
  BY <1>a, Returned
<1>3. FiledCall(q)
  BY <1>2 DEF FiledCall, AllFiled
<1>4. ~Pends(q) /\ \A id \in Ids : ~HoldsRoute(q, id) /\ ~HoldsRoute(reg[c], id)
  BY <1>1, <1>2 DEF Pends, HoldsRoute
<1>5. q.wait # "reflect"
  BY <1>2
<1> QED BY <1>1, <1>2, <1>3, <1>4, <1>5, QuietAgrees

\* The middleFns around every chain are replaced by the ones that were collected.
LEMMA AroundAgrees ==
  ASSUME Claimed, awaited, AwaitedAgree, Kept', NEW c \in Calls, NEW q \in CallRecords, Become(c, q),
         Active(reg[c]), reg[c].held = None, UNCHANGED <<setup, byId, names, flat, deps, published>>,
         FiledCall(q), q.wait # "reflect", q.held = None, ~Pends(q), AllFiled(startFns)', AllFiled(endFns)'
  PROVE  AwaitedAgree'
<1>1. \A e \in Executables : Filed(e) => Filed(e)'
  BY DEF Filed
<1>2. FiledCall(q)'
  BY <1>1, FiledStays
<1>3. Registered' = Registered /\ \A id \in Registered : flat'[id] = flat[id]
  BY DEF Registered
<1>4. \A id \in Ids : ~HoldsRoute(q, id) /\ ~HoldsRoute(reg[c], id)
  BY DEF HoldsRoute
<1> QED BY <1>1, <1>2, <1>3, <1>4, StepAgrees

\* StartReady
LEMMA StartReadyAgrees ==
  ASSUME Claimed, awaited, AwaitedAgree, Kept', NEW c \in Calls, StartReady(c)
  PROVE  AwaitedAgree'
<1>a. Kept
  BY DEF Claimed
<1>1. PICK q \in CallRecords :
           /\ Become(c, q) /\ q.wait = "run" /\ q.phase = "end" /\ q.got = <<>>
           /\ q.held = None /\ q.stack = reg[c].stack
           /\ startFns' = reg[c].got /\ Active(reg[c]) /\ reg[c].wait = "run"
           /\ UNCHANGED <<setup, initialized, byId, names, flat, deps, endFns, published>>
  BY <1>a, StartCollected
<1>2. FiledCall(reg[c]) /\ AllFiled(reg[c].got) /\ reg[c].held = None
  BY <1>a, <1>1, CarriedFiled
<1>3. FiledCall(q)
  BY <1>1, <1>2, FiledSequences DEF FiledCall
<1>4. AllFiled(startFns)' /\ AllFiled(endFns)'
  BY <1>1, <1>2 DEF AwaitedAgree, AllFiled, Filed
<1>5. ~Pends(q)
  BY <1>1 DEF Pends
<1> QED BY <1>1, <1>2, <1>3, <1>4, <1>5, AroundAgrees

\* EndReady
LEMMA EndReadyAgrees ==
  ASSUME Claimed, awaited, AwaitedAgree, Kept', NEW c \in Calls, EndReady(c)
  PROVE  AwaitedAgree'
<1>a. Kept
  BY DEF Claimed
<1>1. /\ endFns' = reg[c].got /\ Active(reg[c]) /\ reg[c].wait = "run"
      /\ UNCHANGED <<setup, initialized, byId, names, flat, deps, startFns, published>>
  BY <1>a, WalkBegun
<1>2. FiledCall(reg[c]) /\ AllFiled(reg[c].got) /\ reg[c].held = None
  BY <1>a, <1>1, CarriedFiled
<1>3. AllFiled(startFns)' /\ AllFiled(endFns)'
  BY <1>1, <1>2 DEF AwaitedAgree, AllFiled, Filed
<1>4. \E q \in CallRecords : Become(c, q) /\ FiledCall(q) /\ q.wait # "reflect" /\ q.held = None /\ ~Pends(q)
  <2>1. CASE Fail(c)
    <3>1. PICK q \in CallRecords :
            Become(c, q) /\ q.wait = "failed" /\ q.held = None /\ q.stack = reg[c].stack /\ q.got = reg[c].got /\ ~Active(q)
      BY <1>a, <2>1, Failed
    <3> QED BY <1>2, <3>1 DEF FiledCall, Pends
  <2>2. CASE ~Fail(c)
    <3>1. PICK q \in CallRecords, f \in Levels :
                 /\ Become(c, q) /\ q.wait = "run" /\ q.phase = "walk" /\ q.got = <<>>
                 /\ q.held = None /\ q.stack = <<f>> /\ f.own = None
                 /\ f.pre = <<>> /\ f.post = <<>> /\ f.preLevel = <<>> /\ f.postLevel = <<>>
      BY <1>a, <2>2, WalkBegun
    <3>2. FiledLevel(f)
      BY <3>1, FiledSequences, Distinct DEF FiledLevel
    <3>3. Level(q) = f /\ \A k \in DOMAIN q.stack : q.stack[k] = f
      BY <3>1 DEF Level
    <3>4. FiledCall(q)
      BY <3>1, <3>2, <3>3, FiledSequences DEF FiledCall
    <3> QED BY <3>1, <3>3, <3>4 DEF Pends
  <2> QED BY <2>1, <2>2
<1> QED BY <1>1, <1>2, <1>3, <1>4, AroundAgrees

\* What runs around a route and the route itself are in the registry when its chain is filed.
LEMMA SetChainAgrees ==
  ASSUME Claimed, awaited, AwaitedAgree, Kept', NEW c \in Calls, SetChain(c)
  PROVE  AwaitedAgree'
<1> DEFINE f == Level(reg[c])
           chain == [routeIndex |-> Len(startFns) + Len(Before(f)) + 1, methods |-> MethodsOf(f),
                     by |-> c, n |-> reg[c].n]
<1>a. Kept /\ reg[c] \in CallRecords /\ RegistryTypes
  BY CallFacts DEF Claimed
<1>1. /\ f.own \in Executables /\ f.own.kind = "route" /\ f \in Levels /\ f.own.id \in Ids /\ f.own.by \in Calls
      /\ chain \in ExecutionChains /\ chain # None /\ RouteOf(chain) = f.own
      /\ flat' = [flat EXCEPT ![f.own.id] = chain]
      /\ Become(c, [reg[c] EXCEPT !.wait = "tick", !.held = None]) /\ Active(reg[c])
      /\ reg[c].wait = "run" /\ reg[c].phase = "walk" /\ reg[c].held = None
      /\ UNCHANGED <<setup, initialized, byId, names, startFns, endFns, published>>
  BY <1>a, ChainFiled
<1>2. chain.methods = MethodsOf(f) /\ chain.by = c
  OBVIOUS
<1>3. PICK q : q = [reg[c] EXCEPT !.wait = "tick", !.held = None]
  OBVIOUS
<1>4. q \in CallRecords /\ q.wait = "tick" /\ q.held = None /\ q.stack = reg[c].stack /\ q.got = reg[c].got
  BY <1>a, <1>3, RunsOn
<1>5. Pends(reg[c])
  BY <1>1, Distinct DEF Pends
<1>6. f.own.by = c /\ f.own.id \notin Registered
  BY <1>5 DEF AwaitedAgree, RoutesOwn, Claimed, ClaimsApart, Registered
<1>7. FiledLevel(f) /\ FiledCall(reg[c])
  BY <1>a, <1>1, CarriedFiled
<1> HIDE DEF chain, f
<1>8. AllFiled(MethodsOf(f))
  <2>1. /\ f.pre \in Seq(Executables) /\ f.preLevel \in Seq(Executables)
        /\ f.post \in Seq(Executables) /\ f.postLevel \in Seq(Executables)
    BY <1>1 DEF Levels
  <2>2. /\ AllFiled(Before(f)) /\ AllFiled(After(f))
        /\ Before(f) \in Seq(Executables) /\ After(f) \in Seq(Executables)
    BY <1>1, <1>7, <2>1, FiledSequences, AroundTyped DEF FiledLevel, Before, After
  <2>3. startFns \in Seq(Executables) /\ endFns \in Seq(Executables) /\ AllFiled(startFns) /\ AllFiled(endFns)
    BY <1>a DEF RegistryTypes, AwaitedAgree
  <2>4. <<f.own>> \in Seq(Executables) /\ AllFiled(<<f.own>>)
    BY <1>1, <1>7 DEF FiledLevel, AllFiled
  <2> DEFINE a == startFns \o Before(f)
             b == a \o <<f.own>>
             d == b \o After(f)
  <2>5. a \in Seq(Executables) /\ AllFiled(a)
    BY <2>2, <2>3, FiledSequences, ConcatProperties
  <2> HIDE DEF a
  <2>6. b \in Seq(Executables) /\ AllFiled(b)
    BY <2>4, <2>5, FiledSequences, ConcatProperties
  <2> HIDE DEF b
  <2>7. d \in Seq(Executables) /\ AllFiled(d)
    BY <2>2, <2>6, FiledSequences, ConcatProperties
  <2> HIDE DEF d
  <2>8. AllFiled(d \o endFns)
    BY <2>3, <2>7, FiledSequences
  <2> QED BY <2>8 DEF MethodsOf, a, b, d
<1>9. \A e \in Executables : Filed(e) => Filed(e)'
  BY <1>1 DEF Filed
<1>10. FiledCall(q)
  BY <1>4, <1>7 DEF FiledCall
<1>11. FiledCall(q)'
  BY <1>4, <1>9, <1>10, FiledStays
<1>12. AllFiled(startFns)' /\ AllFiled(endFns)'
  BY <1>1 DEF AwaitedAgree, AllFiled, Filed
<1>13. ~Pends(q) /\ \A id \in Ids : ~HoldsRoute(q, id) /\ ~HoldsRoute(reg[c], id)
  BY <1>1, <1>4 DEF Pends, HoldsRoute
<1>14. \A id \in Ids : flat'[id] = IF id = f.own.id THEN chain ELSE flat[id]
  BY <1>a, <1>1 DEF RegistryTypes
<1>16. Registered \subseteq Registered' /\ \A id \in Registered : flat'[id] = flat[id]
  BY <1>6, <1>14 DEF Registered
<1>17. ASSUME NEW id \in Registered'
       PROVE  id \in Registered \/ (RouteOf(flat'[id]).by = flat'[id].by /\ AllFiled(flat[id].methods)')
  <2>1. CASE id = f.own.id
    <3>1. flat'[id] = chain
      BY <1>1, <1>14, <2>1
    <3>2. byId' = byId /\ flat'[id].methods = MethodsOf(f)
      BY <1>1, <1>2, <3>1
    <3>3. AllFiled(flat[id].methods)'
      BY <1>8, <3>2 DEF AllFiled, Filed
    <3> QED BY <1>1, <1>2, <1>6, <3>1, <3>3
  <2>2. CASE id # f.own.id
    BY <1>14, <2>2 DEF Registered
  <2> QED BY <2>1, <2>2
<1>15. Become(c, q)
  BY <1>1, <1>3
<1> QED BY <1>1, <1>4, <1>9, <1>11, <1>12, <1>13, <1>15, <1>16, <1>17, StepAgrees
\* Every step of a registration.
LEMMA CallStepAgrees ==
  ASSUME Claimed, awaited, AwaitedAgree, Kept', NEW c \in Calls, CallStep(c)
  PROVE  AwaitedAgree'
<1>a. Kept
  BY DEF Claimed
<1>1. CASE Lookup(c) BY <1>1, LookupAgrees
<1>2. CASE Reflected(c) BY <1>2, ReflectedAgrees
<1>3. CASE ReceiveOuter(c) BY <1>3, ReceiveOuterAgrees
<1>4. CASE ReceiveEntry(c) BY <1>4, ReceiveEntryAgrees
<1>5. CASE EnterGroup(c) BY <1>5, EnterGroupAgrees
<1>6. CASE RejectEntry(c)
  <2>1. Active(reg[c]) /\ reg[c].held = None /\ Fail(c) /\ UNCHANGED <<setup, registry, published>>
    BY <1>a, <1>6, CarriedFiled DEF RejectEntry, Running, Active
  <2> QED BY <2>1, FailAgrees DEF HoldsRoute
<1>7. CASE ReceiveSibling(c) BY <1>7, ReceiveSiblingAgrees
<1>8. CASE StartReady(c) BY <1>8, StartReadyAgrees
<1>9. CASE EndReady(c) BY <1>9, EndReadyAgrees
<1>10. CASE SetChain(c) BY <1>10, SetChainAgrees
<1>11. CASE PassMiddleFn(c) BY <1>11, PassMiddleFnAgrees
<1>12. CASE Descend(c) BY <1>12, DescendAgrees
<1>13. CASE NextEntry(c) BY <1>13, NextEntryAgrees
<1>14. CASE Return(c) BY <1>14, ReturnAgrees
<1>15. CASE ReflectionFails(c)
  <2>1. Active(reg[c]) /\ reg[c].held = None /\ Fail(c) /\ UNCHANGED <<setup, registry, published>>
    BY <1>a, <1>15, CarriedFiled DEF ReflectionFails, Active
  <2> QED BY <2>1, FailAgrees DEF HoldsRoute
<1> QED BY <1>1, <1>2, <1>3, <1>4, <1>5, <1>6, <1>7, <1>8, <1>9, <1>10, <1>11, <1>12, <1>13, <1>14, <1>15 DEF CallStep

\* A call that does not move carries what it carried.
LEMMA CarriedStays ==
  ASSUME Kept, AwaitedAgree, NEW c \in Calls, reg'[c] = reg[c], UNCHANGED byId
  PROVE  FiledCall(reg[c])'
<1>1. PICK r : r = reg[c]
  OBVIOUS
<1>2. r \in CallRecords /\ FiledCall(r)
  BY <1>1, CallFacts DEF AwaitedAgree
<1>3. \A e \in Executables : Filed(e) => Filed(e)'
  BY DEF Filed
<1>4. FiledCall(r)'
  BY <1>2, <1>3, FiledStays
<1>5. reg'[c] = r
  BY <1>1
<1> QED BY <1>4, <1>5 DEF FiledCall, FiledLevel, AllFiled, Filed

\* A step that files and publishes nothing, and takes the executable of a route from nobody.
LEMMA CallAgrees ==
  ASSUME Claimed, awaited, AwaitedAgree, Kept', NEW c \in Calls, Call(c)
  PROVE  AwaitedAgree'
<1>a. Kept
  BY DEF Claimed
<1>1. PICK q \in CallRecords :
        /\ Become(c, q) /\ q.held = None
        /\ \/ q.wait = "failed" /\ q.stack = reg[c].stack /\ q.got = reg[c].got
           \/ q.wait = "run" /\ q.stack = <<>> /\ q.got = <<>> /\ q.phase = "start"
  BY <1>a, Called
<1>2. /\ reg[c].wait = "idle" /\ MayCall(c)
      /\ UNCHANGED <<awaited, startDef, endDef, byId, names, flat, deps, startFns, endFns, published>>
  BY <1>a, Called DEF setup, registry
<1>3. reg'[c] = q /\ \A d \in Calls : d # c => reg'[d] = reg[d]
  BY <1>a, <1>1, BecomeFacts
<1>4. InTurn'
  BY <1>a, <1>1, <1>2, InTurnKeeps DEF AwaitedAgree
<1>5. FiledCall(q) /\ q.wait # "reflect" /\ ~Pends(q) /\ \A id \in Ids : ~HoldsRoute(q, id) /\ ~HoldsRoute(reg[c], id)
  <2>1. FiledCall(reg[c])
    BY DEF AwaitedAgree
  <2>2. FiledCall(q)
    BY <1>1, <2>1, FiledSequences DEF FiledCall
  <2> QED BY <1>1, <1>2, <2>2 DEF Pends, HoldsRoute, Active
<1>6. \A e \in Executables : Filed(e) => Filed(e)'
  BY <1>2 DEF Filed
<1>7. \A r \in CallRecords : FiledCall(r) => FiledCall(r)'
  BY <1>6, FiledStays
<1>8. ASSUME NEW d \in Calls
      PROVE  /\ FiledCall(reg[d])'
             /\ reg'[d].wait = "reflect" => byId'[Wanted(d)'.kind][Wanted(d)'.id] = None
  <2>1. PICK r : r = reg'[d]
    OBVIOUS
  <2>2. r \in CallRecords /\ FiledCall(r)
    BY <1>a, <1>1, <1>3, <1>5, <2>1, CallFacts DEF AwaitedAgree
  <2>3. FiledCall(r)'
    BY <1>7, <2>2
  <2>4. FiledCall(reg[d])'
    BY <2>1, <2>3 DEF FiledCall, FiledLevel, AllFiled, Filed
  <2>5. ASSUME reg'[d].wait = "reflect" PROVE byId'[Wanted(d)'.kind][Wanted(d)'.id] = None
    <3>1. d # c /\ reg'[d] = reg[d]
      BY <1>3, <1>5, <2>5
    <3>2. Wanted(d)' = Wanted(d)
      BY <1>2, <3>1, WantedKept
    <3> QED BY <1>2, <2>5, <3>1, <3>2 DEF AwaitedAgree
  <2> QED BY <2>4, <2>5
<1>9. RoutesOwn'
  BY <1>2, <1>3, <1>5 DEF AwaitedAgree, RoutesOwn
<1>10. AllFiled(startFns)' /\ AllFiled(endFns)'
  BY <1>2 DEF AwaitedAgree, AllFiled, Filed
<1>11. \A id \in Registered' : RouteOf(flat'[id]).by = flat'[id].by /\ AllFiled(flat[id].methods)'
  BY <1>2 DEF AwaitedAgree, Registered, RouteOf, AllFiled, Filed
<1>12. Registered' = Registered /\ \A id \in Registered : flat'[id] = flat[id]
  BY <1>2 DEF Registered
<1>13. PublishedAgrees'
  BY <1>a, <1>2, <1>6, <1>12, PublishedStays DEF Kept, AwaitedAgree
<1> QED BY <1>4, <1>8, <1>9, <1>10, <1>11, <1>13 DEF AwaitedAgree

\* What is published of a route is its executable, with the middleFns of its chain; a route
\* whose chain is not filed yet has no middleFnIds, and is published without any.
LEMMA ServeMetadataAgrees ==
  ASSUME Claimed, awaited, AwaitedAgree, NEW id \in Ids, ServeMetadata(id)
  PROVE  AwaitedAgree'
<1>a. Kept /\ RegistryTypes
  BY DEF Claimed, Kept
<1>1. /\ Executable(id) # None
      /\ UNCHANGED <<awaited, startDef, endDef, initialized, byId, names, flat, deps, startFns, endFns, reg>>
      /\ published' = [i \in Ids |-> IF published[i] = None /\ i \in Requested(id) THEN Serializable(i) ELSE published[i]]
  BY DEF ServeMetadata, setup, registry
<1>2. \A c \in Calls : Wanted(c)' = Wanted(c)
  BY <1>1, WantedKept
<1>3. /\ Requested(id) \subseteq Ids
      /\ \A i \in Requested(id) : Executable(i) \in Executables /\ Executable(i) # None
  BY <1>a, <1>1, RequestedTyped, Distinct
<1>4. ASSUME NEW i \in Requested(id)
      PROVE  /\ Filed(Executable(i)) /\ Executable(i).id = i /\ Executable(i).kind \in {"route", "middleFn"}
             /\ i \in Registered => Executable(i) = RouteOf(flat[i])
             /\ i \notin Registered => DepsOf(Executable(i)) = {}
  <2>1. i \in Ids /\ {"route", "middleFn"} \subseteq ExecKinds
    BY <1>3 DEF ExecKinds
  <2>2. \A k \in {"route", "middleFn"} : byId[k][i] # None =>
          /\ byId[k][i].kind = k /\ byId[k][i].id = i /\ \E item \in Items : item.kind = k /\ item.id = i
    BY <1>a, <2>1 DEF Kept, FiledRight
  <2>3. \E k \in {"route", "middleFn"} : Executable(i) = byId[k][i]
    BY DEF Executable
  <2>4. Filed(Executable(i)) /\ Executable(i).id = i /\ Executable(i).kind \in {"route", "middleFn"}
    BY <1>3, <2>2, <2>3 DEF Filed
  <2>5. ASSUME i \notin Registered PROVE DepsOf(Executable(i)) = {}
    <3>1. Executable(i).by \in Calls /\ Executable(i).id = i
      BY <1>3, <2>4, Distinct
    <3> QED BY <2>1, <2>5, <3>1 DEF DepsOf, Claimed, DepsRight
  <2>6. ASSUME i \in Registered PROVE Executable(i) = RouteOf(flat[i])
    <3> DEFINE own == RouteOf(flat[i])
    <3>1. own.id = i /\ own.kind = "route" /\ flat[i].routeIndex \in DOMAIN flat[i].methods
      BY <1>a, <2>6 DEF Kept, ChainsRight
    <3>2. flat[i] \in ExecutionChains
      BY <1>a, <2>6 DEF RegistryTypes, Registered
    <3>3. own \in Executables /\ Filed(own)
      BY <2>6, <3>1, <3>2 DEF RouteOf, ExecutionChains, AwaitedAgree, AllFiled
    <3> HIDE DEF own
    <3>4. byId["route"][i] = own /\ own # None
      BY <3>1, <3>3, Distinct DEF Filed
    <3>5. byId["middleFn"][i] = None
      BY <2>2, <3>4, ProgramAssumption
    <3> QED BY <3>4, <3>5 DEF Executable, own
  <2> QED BY <2>4, <2>5, <2>6
<1>5. Registered' = Registered
  BY <1>1 DEF Registered
<1>6. PublishedAgrees'
  <2> SUFFICES ASSUME NEW i \in Ids, published'[i] # None
               PROVE  /\ Filed(published'[i].of) /\ published'[i].of.id = i
                      /\ published'[i].of.kind \in {"route", "middleFn"}
                      /\ published'[i].early => published'[i].middleFnIds = {}
                      /\ ~published'[i].early =>
                           i \in Registered /\ published'[i].middleFnIds = PublicMiddleFnIds(flat[i].methods)
    BY <1>1, <1>5 DEF PublishedAgrees, PublicMiddleFnIds, Filed
  <2>1. CASE published[i] = None /\ i \in Requested(id)
    <3>1. published'[i] = Serializable(i)
      BY <1>1, <2>1
    <3>2. published'[i].of = Executable(i) /\ published'[i].middleFnIds = DepsOf(Executable(i))
      BY <3>1 DEF Serializable
    <3>4. published'[i].early = (flat[i] = None)
      BY <3>1 DEF Serializable
    <3>5. (published'[i].early => i \notin Registered) /\ (~published'[i].early => i \in Registered)
      BY <3>4, Zenon DEF Registered
    <3>3. ASSUME i \in Registered PROVE DepsOf(Executable(i)) = PublicMiddleFnIds(flat[i].methods)
      <4>1. Executable(i) = RouteOf(flat[i]) /\ Executable(i).id = i
        BY <1>4, <2>1, <3>3
      <4> QED BY <3>3, <4>1 DEF DepsOf, Claimed, DepsRight
    <3> QED BY <1>4, <2>1, <3>2, <3>3, <3>5
  <2>2. CASE ~(published[i] = None /\ i \in Requested(id))
    <3>1. published'[i] = published[i]
      BY <1>1, <2>2
    <3> QED BY <3>1 DEF AwaitedAgree, PublishedAgrees
  <2> QED BY <2>1, <2>2
<1>7. InTurn' /\ AllFiled(startFns)' /\ AllFiled(endFns)'
  BY <1>1 DEF AwaitedAgree, InTurn, Settled, AllFiled, Filed
<1>8. \A c \in Calls : FiledCall(reg[c])'
  BY <1>a, <1>1, CarriedStays
<1>9. \A c \in Calls : reg'[c].wait = "reflect" => byId'[Wanted(c)'.kind][Wanted(c)'.id] = None
  BY <1>1, <1>2 DEF AwaitedAgree
<1>10. RoutesOwn'
  BY <1>1 DEF AwaitedAgree, RoutesOwn
<1>11. \A i \in Registered' : RouteOf(flat'[i]).by = flat'[i].by /\ AllFiled(flat[i].methods)'
  BY <1>1, <1>5 DEF AwaitedAgree, RouteOf, AllFiled, Filed
<1> QED BY <1>6, <1>7, <1>8, <1>9, <1>10, <1>11 DEF AwaitedAgree

\* A step that takes no call on, and leaves the registry and what is published.
LEMMA StillAgrees ==
  ASSUME Claimed, AwaitedAgree, UNCHANGED <<reg, registry, published>>,
         \A c \in Calls : reg[c].wait = "reflect" => Wanted(c)' = Wanted(c)
  PROVE  AwaitedAgree'
<1>1. UNCHANGED <<byId, names, flat, deps, startFns, endFns>>
  BY DEF registry
<1>2. InTurn' /\ AllFiled(startFns)' /\ AllFiled(endFns)'
  BY <1>1 DEF AwaitedAgree, InTurn, Settled, AllFiled, Filed
<1>3. \A c \in Calls : FiledCall(reg[c])'
  BY <1>1, CarriedStays DEF Claimed
<1>4. \A c \in Calls : reg'[c].wait = "reflect" => byId'[Wanted(c)'.kind][Wanted(c)'.id] = None
  BY <1>1 DEF AwaitedAgree
<1>5. RoutesOwn'
  BY <1>1 DEF AwaitedAgree, RoutesOwn
<1>6. \A i \in Registered' : RouteOf(flat'[i]).by = flat'[i].by /\ AllFiled(flat[i].methods)'
  BY <1>1 DEF AwaitedAgree, Registered, RouteOf, AllFiled, Filed
<1>7. PublishedAgrees'
  BY <1>1, PublishedStays DEF Claimed, Kept, AwaitedAgree, Registered, Filed
<1> QED BY <1>2, <1>3, <1>4, <1>5, <1>6, <1>7 DEF AwaitedAgree

\* With nothing registered there is nothing to disagree about.
LEMMA BlankAgrees == Blank => AwaitedAgree
<1> SUFFICES ASSUME Blank PROVE AwaitedAgree
  OBVIOUS
<1>1. \A c \in Calls : ~Pends(reg[c]) /\ FiledCall(reg[c]) /\ \A id \in Ids : ~HoldsRoute(reg[c], id)
  BY DEF Blank, Unmade, Pends, FiledCall, AllFiled, HoldsRoute
<1>2. \A id \in Ids : byId["route"][id] = None /\ published[id] = None
  BY DEF Blank, NoExecutables, NoIds, ExecKinds
<1>3. RoutesOwn
  BY <1>1, <1>2 DEF RoutesOwn
<1> QED BY <1>1, <1>2, <1>3 DEF Blank, Unmade, AwaitedAgree, PublishedAgrees, InTurn, AllFiled

\* Every step keeps the agreement.
LEMMA NextAgreed == ASSUME Agreed, [Next]_vars PROVE Agreed'
<1>1. Claimed /\ Kept /\ Claimed' /\ Kept'
  BY NextKept, NextClaimed DEF Agreed, Claimed
<1> SUFFICES ASSUME awaited' PROVE AwaitedAgree'
  BY <1>1 DEF Agreed
<1>2. CASE UNCHANGED awaited
  <2>1. awaited /\ AwaitedAgree
    BY <1>2 DEF Agreed
  <2>2. ASSUME NEW c \in Calls, Call(c) \/ CallStep(c) PROVE AwaitedAgree'
    BY <1>1, <2>1, <2>2, CallAgrees, CallStepAgrees
  <2>3. ASSUME NEW id \in Asked, ServeMetadata(id) PROVE AwaitedAgree'
    <3>1. id \in Ids
      BY RegistryAssumption
    <3> QED BY <1>1, <2>1, <2>3, <3>1, ServeMetadataAgrees
  <2>4. ASSUME \/ \E item \in ExtraStart, before \in BOOLEAN : AddStartMiddleFns(item, before)
               \/ \E item \in ExtraEnd, after \in BOOLEAN : AddEndMiddleFns(item, after)
        PROVE  AwaitedAgree'
    <3>1. ~initialized /\ UNCHANGED <<registry, published, reg>>
      BY <1>1, <2>4, AddMiddleFnsKeeps
    <3>2. \A c \in Calls : reg[c].wait # "reflect"
      BY <1>1, <3>1 DEF Kept, CallsRight, Active
    <3> QED BY <1>1, <2>1, <3>1, <3>2, StillAgrees
  <2>5. CASE ResetRouter
    <3>1. Blank' => AwaitedAgree'
      BY BlankAgrees, PTL
    <3> QED BY <1>1, <2>5, <3>1, ResetKeeps
  <2>6. CASE UNCHANGED vars
    <3>1. \A c \in Calls : Wanted(c)' = Wanted(c)
      BY <2>6, WantedKept DEF vars, setup
    <3> QED BY <1>1, <2>1, <2>6, <3>1, StillAgrees DEF vars
  <2> QED BY <2>2, <2>3, <2>4, <2>5, <2>6 DEF Next
<1>3. UNCHANGED awaited
  <2>1. ASSUME NEW c \in Calls, Call(c) \/ CallStep(c) PROVE UNCHANGED awaited
    BY <2>1 DEF Call, CallStep, Lookup, Reflected, ReceiveOuter, ReceiveEntry, EnterGroup, RejectEntry,
       ReceiveSibling, StartReady, EndReady, SetChain, PassMiddleFn, Descend, NextEntry, Return, ReflectionFails, setup
  <2> QED BY <2>1 DEF Next, ServeMetadata, AddStartMiddleFns, AddEndMiddleFns, ResetRouter, vars, setup
<1> QED BY <1>2, <1>3

\* What is published of a route that is served is the executable its chain runs: an id is not
\* a route's and a middleFn's.
LEMMA RouteDescribed ==
  ASSUME Kept, AwaitedAgree, NEW id \in Registered, published[id] # None
  PROVE  published[id].of = RouteOf(flat[id])
<1> DEFINE own == RouteOf(flat[id])
           of == published[id].of
<1>a. RegistryTypes /\ id \in Ids /\ {"route", "middleFn"} \subseteq ExecKinds
  BY DEF Kept, Registered, ExecKinds
<1>1. own.id = id /\ own.kind = "route" /\ flat[id].routeIndex \in DOMAIN flat[id].methods
  BY DEF Kept, ChainsRight
<1>2. flat[id] \in ExecutionChains
  BY <1>a DEF RegistryTypes, Registered
<1>3. own \in Executables /\ Filed(own)
  BY <1>1, <1>2 DEF RouteOf, ExecutionChains, AwaitedAgree, AllFiled
<1>4. of \in Executables
  BY <1>a DEF RegistryTypes, SerializableMethods
<1>5. Filed(of) /\ of.id = id /\ of.kind \in {"route", "middleFn"}
  BY <1>a DEF AwaitedAgree, PublishedAgrees
<1> HIDE DEF own, of
<1>6. \A k \in {"route", "middleFn"} : byId[k][id] # None => \E item \in Items : item.kind = k /\ item.id = id
  BY <1>a DEF Kept, FiledRight
<1>7. byId["route"][id] = own /\ own # None
  BY <1>1, <1>3, Distinct DEF Filed
<1>8. of.kind # "middleFn"
  BY <1>4, <1>5, <1>6, <1>7, Distinct, ProgramAssumption DEF Filed
<1>9. of = own
  BY <1>5, <1>7, <1>8 DEF Filed
<1> QED BY <1>9 DEF own, of

\* The invariant says what is claimed of a program that awaits its registrations.
LEMMA AgreedMeans == Agreed => RegistryAgrees
<1> SUFFICES ASSUME Agreed PROVE RegistryAgrees
  OBVIOUS
<1>1. Kept /\ Claimed /\ (awaited => AwaitedAgree)
  BY DEF Agreed, Claimed
<1>2. \A c \in Calls : reg[c] \in CallRecords
  BY <1>1 DEF Kept, RegistryTypes
<1>3. TypeOK
  BY <1>1, <1>2 DEF TypeOK, Kept, RegistryTypes, ChainsRight, CallsRight, CallRecords
<1>4. OneExecutablePerId
  BY <1>1 DEF OneExecutablePerId, AwaitedAgree, AllFiled, Filed
<1>5. PublishedComplete
  <2> SUFFICES ASSUME awaited, NEW id \in Registered, published[id] # None
               PROVE  /\ published[id].of = RouteOf(flat[id])
                      /\ published[id].middleFnIds =
                           IF published[id].early THEN {} ELSE PublicMiddleFnIds(flat[id].methods)
    BY DEF PublishedComplete
  <2>1. published[id].of = RouteOf(flat[id])
    BY <1>1, RouteDescribed
  <2> QED BY <1>1, <2>1 DEF AwaitedAgree, PublishedAgrees, Registered
<1> QED BY <1>3, <1>4, <1>5 DEF RegistryAgrees

\* In a program that awaits its registrations an id means one executable, in every chain
\* and in the metadata; and the metadata of a route names what its chain runs, unless it was
\* asked for between the awaits that make the route and its middleFnIds: then it names none
\* for good (router.ts:378-453, 528, remoteMethods.ts:75-94).
THEOREM RegistryIsConsistent == Spec => []RegistryAgrees
<1>1. Init => Agreed
  BY InitKept, BlankClaims, BlankAgrees DEF Agreed
<1>2. Agreed /\ [Next]_vars => Agreed'
  BY NextAgreed
<1>3. Agreed => RegistryAgrees
  BY AgreedMeans
<1> QED BY <1>1, <1>2, <1>3, PTL DEF Spec
-----------------------------------------------------------------------------
(***************************************************************************)
(* Sequences that spell a set in an order.                                 *)
(***************************************************************************)

\* The executables of s are those named at the members of S, each once, in the order R.
Enumerates(e, s, S, name, R) ==
  /\ e \in Seq(S) /\ Len(e) = Len(s)
  /\ \A k \in 1..Len(s) : s[k].id = name[e[k]]
  /\ \A x \in S : \E k \in 1..Len(s) : e[k] = x
  /\ \A j, k \in 1..Len(s) : j < k => <<e[j], e[k]>> \in R

Spells(s, S, name, R) == \E e \in Seq(S) : Enumerates(e, s, S, name, R)

\* Nothing spells nothing.
LEMMA SpellsNothing ==
  ASSUME NEW name, NEW R
  PROVE  Spells(<<>>, {}, name, R)
<1>1. <<>> \in Seq({}) /\ Len(<<>>) = 0
  OBVIOUS
<1>2. Enumerates(<<>>, <<>>, {}, name, R)
  BY <1>1 DEF Enumerates
<1> QED BY <1>1, <1>2 DEF Spells

\* One executable spells the one place it is named at.
LEMMA SpellsOne ==
  ASSUME NEW e, NEW x, NEW name, NEW R, e.id = name[x]
  PROVE  Spells(<<e>>, {x}, name, R)
<1>1. <<x>> \in Seq({x}) /\ Len(<<x>>) = 1 /\ <<x>>[1] = x /\ Len(<<e>>) = 1 /\ <<e>>[1] = e
  OBVIOUS
<1> DEFINE g == <<x>>
<1> DEFINE s == <<e>>
<1>2. 1..1 = {1} /\ ~ (1 < 1)
  OBVIOUS
<1>3. \A k \in 1..Len(s) : k = 1
  BY <1>1, <1>2
<1>4. s[1] = e /\ g[1] = x /\ Len(g) = Len(s) /\ g \in Seq({x}) /\ 1 \in 1..Len(s)
  BY <1>1, <1>2
<1> HIDE DEF g, s
<1>5. Enumerates(g, s, {x}, name, R)
  BY <1>2, <1>3, <1>4 DEF Enumerates
<1> QED BY <1>4, <1>5 DEF Spells, g, s

\* One after the other, when all of the first set is before all of the second.
LEMMA SpellsBoth ==
  ASSUME NEW X, NEW s \in Seq(X), NEW t \in Seq(X), NEW S, NEW T, NEW name, NEW R,
         Spells(s, S, name, R), Spells(t, T, name, R),
         \A x \in S, y \in T : <<x, y>> \in R
  PROVE  Spells(s \o t, S \cup T, name, R)
<1>1. PICK d \in Seq(S) : Enumerates(d, s, S, name, R)
  BY DEF Spells
<1>2. PICK e \in Seq(T) : Enumerates(e, t, T, name, R)
  BY DEF Spells
<1>3. /\ d \in Seq(S \cup T) /\ e \in Seq(S \cup T)
      /\ Len(d) \in Nat /\ Len(e) \in Nat /\ Len(d) = Len(s) /\ Len(e) = Len(t)
      /\ \A k \in 1..Len(s) : d[k] \in S
      /\ \A k \in 1..Len(t) : e[k] \in T
  BY <1>1, <1>2 DEF Enumerates
<1>4. /\ d \o e \in Seq(S \cup T) /\ Len(d \o e) = Len(s) + Len(t)
      /\ \A i \in 1 .. Len(s) + Len(t) : (d \o e)[i] = IF i <= Len(s) THEN d[i] ELSE e[i - Len(s)]
  <2>1. d \in Seq(S \cup T) /\ e \in Seq(S \cup T)
    BY <1>3
  <2>2. /\ d \o e \in Seq(S \cup T) /\ Len(d \o e) = Len(d) + Len(e)
        /\ \A i \in 1 .. Len(d) + Len(e) : (d \o e)[i] = IF i <= Len(d) THEN d[i] ELSE e[i - Len(d)]
    BY <2>1, ConcatProperties, Zenon
  <2> QED BY <1>3, <2>2
<1>5. /\ Len(s \o t) = Len(s) + Len(t)
      /\ \A i \in 1 .. Len(s) + Len(t) : (s \o t)[i] = IF i <= Len(s) THEN s[i] ELSE t[i - Len(s)]
  BY ConcatProperties
<1> DEFINE g == d \o e
<1> DEFINE u == s \o t
<1> HIDE DEF g, u
<1>6. ASSUME NEW k \in 1..Len(u) PROVE u[k].id = name[g[k]]
  <2>1. CASE k <= Len(s)
    <3>1. k \in 1..Len(s)
      BY <1>3, <1>5, <2>1 DEF u
    <3>2. u[k] = s[k] /\ g[k] = d[k]
      BY <1>3, <1>4, <1>5, <3>1 DEF g, u
    <3>3. s[k].id = name[d[k]]
      BY <1>1, <3>1 DEF Enumerates
    <3> QED BY <3>2, <3>3
  <2>2. CASE k > Len(s)
    <3>1. k - Len(s) \in 1..Len(t)
      BY <1>3, <1>5, <2>2 DEF u
    <3>2. u[k] = t[k - Len(s)] /\ g[k] = e[k - Len(s)]
      BY <1>3, <1>4, <1>5, <2>2, <3>1 DEF g, u
    <3>3. t[k - Len(s)].id = name[e[k - Len(s)]]
      BY <1>2, <3>1 DEF Enumerates
    <3> QED BY <3>2, <3>3
  <2> QED BY <2>1, <2>2, <1>3
<1>7. ASSUME NEW x \in S \cup T PROVE \E k \in 1..Len(u) : g[k] = x
  <2>1. CASE x \in S
    <3>1. PICK k \in 1..Len(s) : d[k] = x
      BY <1>1, <2>1 DEF Enumerates
    <3> QED BY <1>3, <1>4, <1>5, <3>1 DEF g, u
  <2>2. CASE x \in T
    <3>1. PICK k \in 1..Len(t) : e[k] = x
      BY <1>2, <2>2 DEF Enumerates
    <3>2. k + Len(s) \in 1..Len(u) /\ ~ (k + Len(s) <= Len(s)) /\ (k + Len(s)) - Len(s) = k
      BY <1>3, <1>5, <3>1 DEF u
    <3> QED BY <1>3, <1>4, <1>5, <3>1, <3>2 DEF g, u
  <2> QED BY <2>1, <2>2
<1>8. ASSUME NEW j \in 1..Len(u), NEW k \in 1..Len(u), j < k PROVE <<g[j], g[k]>> \in R
  <2>1. CASE k <= Len(s)
    BY <1>1, <1>3, <1>4, <1>5, <1>8, <2>1 DEF g, u, Enumerates
  <2>2. CASE j <= Len(s) /\ k > Len(s)
    <3>1. j \in 1..Len(s) /\ k - Len(s) \in 1..Len(t)
      BY <1>3, <1>5, <2>2 DEF u
    <3>2. g[j] = d[j] /\ g[k] = e[k - Len(s)]
      BY <1>3, <1>4, <1>5, <2>2 DEF g, u
    <3> QED BY <1>3, <3>1, <3>2
  <2>3. CASE j > Len(s)
    <3>1. j - Len(s) \in 1..Len(t) /\ k - Len(s) \in 1..Len(t) /\ j - Len(s) < k - Len(s) /\ k > Len(s)
      BY <1>3, <1>5, <1>8, <2>3 DEF u
    <3>2. g[j] = e[j - Len(s)] /\ g[k] = e[k - Len(s)]
      BY <1>3, <1>4, <1>5, <2>3, <3>1 DEF g, u
    <3> QED BY <1>2, <3>1, <3>2 DEF Enumerates
  <2> QED BY <2>1, <2>2, <2>3, <1>3
<1>9. g \in Seq(S \cup T) /\ Len(g) = Len(u)
  BY <1>4, <1>5 DEF g, u
<1>10. Enumerates(g, u, S \cup T, name, R)
  BY <1>6, <1>7, <1>8, <1>9 DEF Enumerates
<1> QED BY <1>9, <1>10 DEF Spells, u

\* The same executables spell the images of the places.
LEMMA SpellsImage ==
  ASSUME NEW s, NEW S, NEW T, NEW name, NEW R, NEW other, NEW Q, NEW F \in [S -> T],
         Len(s) \in Nat, Spells(s, S, name, R),
         \A x \in S : other[F[x]] = name[x],
         \A y \in T : \E x \in S : F[x] = y,
         \A x, y \in S : <<x, y>> \in R => <<F[x], F[y]>> \in Q
  PROVE  Spells(s, T, other, Q)
<1>1. PICK e \in Seq(S) : Enumerates(e, s, S, name, R)
  BY DEF Spells
<1> DEFINE g == [k \in 1..Len(s) |-> F[e[k]]]
<1>2. \A k \in 1..Len(s) : e[k] \in S
  BY <1>1 DEF Enumerates
<1>3. g \in Seq(T) /\ Len(g) = Len(s)
  BY <1>2
<1>4. \A k \in 1..Len(s) : g[k] = F[e[k]]
  OBVIOUS
<1> HIDE DEF g
<1>5. ASSUME NEW k \in 1..Len(s) PROVE s[k].id = other[g[k]]
  <2>1. s[k].id = name[e[k]]
    BY <1>1 DEF Enumerates
  <2>2. other[F[e[k]]] = name[e[k]]
    BY <1>2
  <2> QED BY <1>4, <2>1, <2>2
<1>6. ASSUME NEW y \in T PROVE \E k \in 1..Len(s) : g[k] = y
  <2>1. PICK x \in S : F[x] = y
    OBVIOUS
  <2>2. PICK k \in 1..Len(s) : e[k] = x
    BY <1>1 DEF Enumerates
  <2> QED BY <1>4, <2>1, <2>2
<1>7. ASSUME NEW j \in 1..Len(s), NEW k \in 1..Len(s), j < k PROVE <<g[j], g[k]>> \in Q
  <2>1. <<e[j], e[k]>> \in R
    BY <1>1, <1>7 DEF Enumerates
  <2> QED BY <1>2, <1>4, <2>1
<1>8. Enumerates(g, s, T, other, Q)
  BY <1>3, <1>5, <1>6, <1>7 DEF Enumerates
<1> QED BY <1>3, <1>8 DEF Spells

-----------------------------------------------------------------------------
(***************************************************************************)
(* The order in which places are written.                                  *)
(***************************************************************************)

\* A place precedes another when it is smaller where they first differ.
LEMMA PrecedesMeans ==
  ASSUME NEW p \in Seq(Nat), NEW q \in Seq(Nat)
  PROVE  Precedes(p, q) <=>
           \E k \in 1..Len(p) : k <= Len(q) /\ p[k] < q[k] /\ \A j \in 1..k - 1 : p[j] = q[j]
<1>1. /\ Len(p) \in Nat /\ DOMAIN p = 1..Len(p) /\ \A k \in 1..Len(p) : p[k] \in Nat
      /\ Len(q) \in Nat /\ DOMAIN q = 1..Len(q) /\ \A k \in 1..Len(q) : q[k] \in Nat
  OBVIOUS
<1>2. ASSUME NEW k \in 1..Len(p), k <= Len(q)
      PROVE  SubSeq(p, 1, k - 1) = SubSeq(q, 1, k - 1) <=> \A j \in 1..k - 1 : p[j] = q[j]
  <2>1. /\ SubSeq(p, 1, k - 1) = [i \in 1..k - 1 |-> p[i]]
        /\ SubSeq(q, 1, k - 1) = [i \in 1..k - 1 |-> q[i]]
    <3>1. k \in 1..Len(q)
      BY <1>1, <1>2
    <3> QED BY <3>1
  <2> DEFINE a == [i \in 1..k - 1 |-> p[i]]
  <2> DEFINE b == [i \in 1..k - 1 |-> q[i]]
  <2>2. a = b <=> \A i \in 1..k - 1 : p[i] = q[i]
    OBVIOUS
  <2> QED BY <2>1, <2>2
<1>3. \A k : k \in DOMAIN p \cap DOMAIN q <=> k \in 1..Len(p) /\ k <= Len(q)
  BY <1>1
<1> QED BY <1>2, <1>3 DEF Precedes

\* No two places precede each other.
LEMMA PrecedesOneWay ==
  ASSUME NEW p \in Seq(Nat), NEW q \in Seq(Nat), Precedes(p, q)
  PROVE  ~ Precedes(q, p)
<1>0. /\ Len(p) \in Nat /\ \A j \in 1..Len(p) : p[j] \in Nat
      /\ Len(q) \in Nat /\ \A j \in 1..Len(q) : q[j] \in Nat
  OBVIOUS
<1> SUFFICES ASSUME Precedes(q, p) PROVE FALSE
  OBVIOUS
<1>1. PICK k \in 1..Len(p) : k <= Len(q) /\ p[k] < q[k] /\ \A j \in 1..k - 1 : p[j] = q[j]
  BY PrecedesMeans
<1>2. PICK l \in 1..Len(q) : l <= Len(p) /\ q[l] < p[l] /\ \A j \in 1..l - 1 : q[j] = p[j]
  BY PrecedesMeans
<1>3. /\ k \in Nat /\ l \in Nat /\ k >= 1 /\ l >= 1
      /\ p[k] \in Nat /\ q[k] \in Nat /\ p[l] \in Nat /\ q[l] \in Nat
  <2>1. k \in Nat /\ l \in Nat /\ k >= 1 /\ l >= 1
    BY <1>0
  <2>2. k \in 1..Len(q) /\ l \in 1..Len(p)
    BY <1>0, <1>1, <1>2, <2>1
  <2> QED BY <1>0, <2>1, <2>2
<1>4. CASE k < l
  <2>1. k \in 1..l - 1
    BY <1>3, <1>4
  <2>2. q[k] = p[k]
    BY <1>2, <2>1
  <2> QED BY <1>1, <1>3, <2>2
<1>5. CASE l < k
  <2>1. l \in 1..k - 1
    BY <1>3, <1>5
  <2>2. p[l] = q[l]
    BY <1>1, <2>1
  <2> QED BY <1>2, <1>3, <2>2
<1>6. CASE k = l
  BY <1>1, <1>2, <1>3, <1>6
<1> QED BY <1>3, <1>4, <1>5, <1>6

\* The k-th place of those that are enumerated in order.
LEMMA NthEnumerated ==
  ASSUME NEW S \in SUBSET Seq(Nat), NEW e \in Seq(S),
         \A x \in S : \E k \in 1..Len(e) : e[k] = x,
         \A j, k \in 1..Len(e) : j < k => Precedes(e[j], e[k])
  PROVE  Cardinality(S) = Len(e) /\ \A k \in 1..Len(e) : Nth(S, k) = e[k]
<1>1. Len(e) \in Nat /\ \A k \in 1..Len(e) : e[k] \in S /\ e[k] \in Seq(Nat)
  OBVIOUS
<1>2. \A x, y \in S : Precedes(x, y) => ~ Precedes(y, x)
  BY PrecedesOneWay
<1>3. \A j, k \in 1..Len(e) : Precedes(e[j], e[k]) <=> j < k
  <2> SUFFICES ASSUME NEW j \in 1..Len(e), NEW k \in 1..Len(e), Precedes(e[j], e[k]) PROVE j < k
    OBVIOUS
  <2>1. ~ Precedes(e[k], e[j])
    BY <1>1, <1>2
  <2>2. j # k
    BY <2>1
  <2> QED BY <2>1, <2>2
<1>4. \A j, k \in 1..Len(e) : e[j] = e[k] => j = k
  <2> SUFFICES ASSUME NEW j \in 1..Len(e), NEW k \in 1..Len(e), e[j] = e[k], j < k PROVE FALSE
    OBVIOUS
  <2>1. Precedes(e[j], e[k]) /\ ~ Precedes(e[k], e[j])
    BY <1>1, <1>2
  <2> QED BY <2>1
<1>5. ASSUME NEW n \in 0..Len(e), NEW T, T = {e[j] : j \in 1..n}
      PROVE  Cardinality(T) = n
  <2> DEFINE F == [j \in 1..n |-> e[j]]
  <2>1. n \in Nat /\ IsFiniteSet(1..n) /\ Cardinality(1..n) = n
    BY <1>1, FS_Interval
  <2>2. F \in Bijection(1..n, T)
    <3>1. \A j \in 1..n : j \in 1..Len(e) /\ F[j] = e[j] /\ F[j] \in T
      BY <1>1, <1>5
    <3>2. F \in [1..n -> T]
      BY <3>1
    <3>3. \A t \in T : \E j \in 1..n : F[j] = t
      BY <1>5, <3>1
    <3> HIDE DEF F
    <3>4. \A a, b \in 1..n : F[a] = F[b] => a = b
      BY <1>4, <3>1
    <3>5. F \in [1..n -> T] /\ \A a, b \in 1..n : F[a] = F[b] => a = b
      BY <3>2, <3>4
    <3>6. F \in [1..n -> T] /\ \A t \in T : \E j \in 1..n : F[j] = t
      BY <3>2, <3>3
    <3>7. DOMAIN F = 1..n
      BY <3>2
    <3> QED BY <3>5, <3>6, <3>7 DEF Bijection, Injection, Surjection, IsInjective
  <2>3. ExistsBijection(1..n, T)
    BY <2>2 DEF ExistsBijection
  <2> QED BY <2>1, <2>3, FS_Bijection
<1>6. Cardinality(S) = Len(e)
  <2>1. S = {e[j] : j \in 1..Len(e)}
    <3>1. \A x \in S : x \in {e[j] : j \in 1..Len(e)}
      OBVIOUS
    <3>2. \A x \in {e[j] : j \in 1..Len(e)} : x \in S
      BY <1>1
    <3> QED BY <3>1, <3>2
  <2>2. Len(e) \in 0..Len(e)
    BY <1>1
  <2> QED BY <1>5, <2>1, <2>2
<1>7. ASSUME NEW k \in 1..Len(e) PROVE Cardinality({q \in S : Precedes(q, e[k])}) = k - 1
  <2>1. {q \in S : Precedes(q, e[k])} = {e[j] : j \in 1..k - 1}
    <3>1. ASSUME NEW q \in S, Precedes(q, e[k]) PROVE \E j \in 1..k - 1 : q = e[j]
      <4>1. PICK j \in 1..Len(e) : e[j] = q
        OBVIOUS
      <4>2. Precedes(e[j], e[k])
        BY <3>1, <4>1
      <4>3. j < k
        BY <1>3, <4>2
      <4>4. j \in 1..k - 1
        BY <1>1, <4>3
      <4> QED BY <4>1, <4>4
    <3>2. ASSUME NEW j \in 1..k - 1 PROVE e[j] \in S /\ Precedes(e[j], e[k])
      <4>1. j \in 1..Len(e) /\ j < k
        BY <1>1
      <4> QED BY <1>1, <1>3, <4>1
    <3> QED BY <3>1, <3>2
  <2>2. k - 1 \in 0..Len(e)
    BY <1>1
  <2> QED BY <1>5, <2>1, <2>2
<1>8. ASSUME NEW k \in 1..Len(e) PROVE Nth(S, k) = e[k]
  <2>1. ASSUME NEW m \in S, Cardinality({q \in S : Precedes(q, m)}) = k - 1 PROVE m = e[k]
    <3>1. PICK l \in 1..Len(e) : e[l] = m
      OBVIOUS
    <3>2. Cardinality({q \in S : Precedes(q, e[l])}) = l - 1
      BY <1>7
    <3>3. l - 1 = k - 1
      BY <2>1, <3>1, <3>2
    <3>4. l = k
      BY <1>1, <3>3
    <3> QED BY <3>1, <3>4
  <2>2. e[k] \in S /\ Cardinality({q \in S : Precedes(q, e[k])}) = k - 1
    BY <1>1, <1>7
  <2> QED BY <2>1, <2>2 DEF Nth
<1> QED BY <1>6, <1>8

-----------------------------------------------------------------------------
(***************************************************************************)
(* The item at a place, and the places of a tree.                          *)
(***************************************************************************)

\* Induction over the natural numbers, of what holds in a set of them.
LEMMA Induction ==
  ASSUME NEW H \in SUBSET Nat, 0 \in H, \A n \in H : n + 1 \in H
  PROVE  \A n \in Nat : n \in H
<1> SUFFICES ASSUME Nat \ H # {} PROVE FALSE
  OBVIOUS
<1> DEFINE n == Lowest(Nat \ H)
<1>1. n \in Nat \ H /\ \A m \in Nat \ H : n <= m
  BY LowestIn
<1> HIDE DEF n
<1>2. n # 0 /\ n - 1 \in Nat /\ n - 1 < n
  BY <1>1
<1>3. n - 1 \in H
  BY <1>1, <1>2
<1> QED BY <1>1, <1>2, <1>3

\* The items on the way down to a place.
Descent(g, tree, p) ==
  g = [k \in 1..Len(p) |-> IF k = 1 THEN tree[p[1]] ELSE g[k - 1].sub[p[k]]]

\* There is one way down.
LEMMA DescentExists ==
  ASSUME NEW tree, NEW p, Len(p) \in Nat
  PROVE  \E g : Descent(g, tree, p)
<1> DEFINE Goes(g, n) == g = [k \in 1..n |-> IF k = 1 THEN tree[p[1]] ELSE g[k - 1].sub[p[k]]]
<1> DEFINE H == {n \in Nat : \E g : Goes(g, n)}
<1>1. 0 \in H
  <2> DEFINE h == [k \in 1..0 |-> 0]
  <2>1. h = [k \in 1..0 |-> IF k = 1 THEN tree[p[1]] ELSE h[k - 1].sub[p[k]]]
    OBVIOUS
  <2> HIDE DEF h
  <2> QED BY <2>1
<1>2. ASSUME NEW n \in H PROVE n + 1 \in H
  <2>1. PICK g : Goes(g, n)
    OBVIOUS
  <2>0. \A k \in 1..n : g[k] = IF k = 1 THEN tree[p[1]] ELSE g[k - 1].sub[p[k]]
    BY <2>1
  <2> DEFINE h == [k \in 1..n + 1 |-> IF k = 1 THEN tree[p[1]]
                                        ELSE IF k <= n THEN g[k] ELSE g[k - 1].sub[p[k]]]
  <2>2. n \in Nat
    OBVIOUS
  <2>3. ASSUME NEW k \in 1..n + 1 PROVE h[k] = IF k = 1 THEN tree[p[1]] ELSE h[k - 1].sub[p[k]]
    <3>1. CASE k = 1
      BY <3>1
    <3>2. CASE k # 1
      <4>1. k - 1 \in 1..n /\ k - 1 \in 1..n + 1 /\ k \in Nat
        BY <2>2, <3>2
      <4>2. h[k - 1] = g[k - 1]
        BY <2>0, <4>1
      <4>3. h[k] = IF k <= n THEN g[k] ELSE g[k - 1].sub[p[k]]
        BY <3>2
      <4>4. k <= n => k \in 1..n
        BY <4>1
      <4> HIDE DEF h
      <4> QED BY <2>0, <3>2, <4>2, <4>3, <4>4
    <3> QED BY <3>1, <3>2
  <2>4. h = [k \in 1..n + 1 |-> h[k]]
    OBVIOUS
  <2> HIDE DEF h
  <2>5. Goes(h, n + 1)
    BY <2>3, <2>4
  <2> QED BY <2>2, <2>5
<1> HIDE DEF H
<1>3. Len(p) \in H
  <2>1. H \in SUBSET Nat
    BY DEF H
  <2> QED BY <1>1, <1>2, <2>1, Induction
<1> QED BY <1>3 DEF H, Descent

\* Descents along paths that begin alike pass the same items.
LEMMA DescentUnique ==
  ASSUME NEW tree, NEW p, NEW q, Len(p) \in Nat, Len(q) \in Nat, Len(p) <= Len(q),
         \A k \in 1..Len(p) : p[k] = q[k],
         NEW g, NEW h, Descent(g, tree, p), Descent(h, tree, q)
  PROVE  \A k \in 1..Len(p) : g[k] = h[k]
<1>1. ASSUME NEW k \in 1..Len(p)
      PROVE  /\ g[k] = IF k = 1 THEN tree[p[1]] ELSE g[k - 1].sub[p[k]]
             /\ h[k] = IF k = 1 THEN tree[p[1]] ELSE h[k - 1].sub[p[k]]
  <2>1. k \in 1..Len(q) /\ q[k] = p[k] /\ 1 \in 1..Len(p) /\ q[1] = p[1]
    OBVIOUS
  <2>2. g[k] = IF k = 1 THEN tree[p[1]] ELSE g[k - 1].sub[p[k]]
    BY DEF Descent
  <2>3. h[k] = IF k = 1 THEN tree[q[1]] ELSE h[k - 1].sub[q[k]]
    BY <2>1 DEF Descent
  <2> QED BY <2>1, <2>2, <2>3
<1> DEFINE H == {n \in Nat : n \in 1..Len(p) => g[n] = h[n]}
<1>2. 0 \in H
  OBVIOUS
<1>3. ASSUME NEW n \in H PROVE n + 1 \in H
  <2>1. n \in Nat /\ (n \in 1..Len(p) => g[n] = h[n]) /\ (n + 1) - 1 = n
    OBVIOUS
  <2> SUFFICES ASSUME n + 1 \in 1..Len(p) PROVE g[n + 1] = h[n + 1]
    BY <2>1
  <2>2. CASE n = 0
    BY <1>1, <2>2
  <2>3. CASE n # 0
    <3>1. n + 1 # 1 /\ n \in 1..Len(p)
      BY <2>1, <2>3
    <3> QED BY <1>1, <2>1, <3>1
  <2> QED BY <2>2, <2>3
<1>4. H \in SUBSET Nat
  OBVIOUS
<1> HIDE DEF H
<1>5. \A n \in Nat : n \in H
  BY <1>2, <1>3, <1>4, Induction
<1> QED BY <1>5 DEF H

\* At is the last item on the way.
LEMMA AtDescent ==
  ASSUME NEW tree, NEW p, Len(p) \in Nat \ {0}
  PROVE  \E g : Descent(g, tree, p) /\ At(tree, p) = g[Len(p)]
<1> DEFINE f == CHOOSE item : item = [k \in 1..Len(p) |-> IF k = 1 THEN tree[p[1]] ELSE item[k - 1].sub[p[k]]]
<1>1. \E item : item = [k \in 1..Len(p) |-> IF k = 1 THEN tree[p[1]] ELSE item[k - 1].sub[p[k]]]
  <2>1. PICK g : Descent(g, tree, p)
    BY DescentExists
  <2> QED BY <2>1 DEF Descent
<1>2. f = [k \in 1..Len(p) |-> IF k = 1 THEN tree[p[1]] ELSE f[k - 1].sub[p[k]]]
  BY <1>1
<1>3. At(tree, p) = f[Len(p)]
  BY DEF At
<1> HIDE DEF f
<1> QED BY <1>2, <1>3 DEF Descent

\* The item at a path of one step is the tree's own.
LEMMA AtRoot ==
  ASSUME NEW tree, NEW i \in Nat
  PROVE  At(tree, <<i>>) = tree[i]
<1> DEFINE p == <<i>>
<1>1. Len(p) = 1 /\ Len(p) \in Nat \ {0} /\ p[1] = i /\ 1 \in 1..Len(p)
  OBVIOUS
<1> HIDE DEF p
<1>2. PICK g : Descent(g, tree, p) /\ At(tree, p) = g[Len(p)]
  BY <1>1, AtDescent
<1>3. g[1] = tree[i]
  BY <1>1, <1>2 DEF Descent
<1> QED BY <1>1, <1>2, <1>3 DEF p

\* The item below another one.
LEMMA AtBelow ==
  ASSUME NEW tree, NEW p \in Seq(Nat), p # <<>>, NEW i \in Nat
  PROVE  At(tree, Append(p, i)) = At(tree, p).sub[i]
<1> DEFINE q == Append(p, i)
<1>1. Len(p) \in Nat \ {0} /\ Len(q) = Len(p) + 1 /\ q[Len(q)] = i /\ \A k \in 1..Len(p) : p[k] = q[k]
  OBVIOUS
<1> HIDE DEF q
<1>2. PICK g : Descent(g, tree, p) /\ At(tree, p) = g[Len(p)]
  BY <1>1, AtDescent
<1>3. PICK h : Descent(h, tree, q) /\ At(tree, q) = h[Len(q)]
  BY <1>1, AtDescent
<1>4. g[Len(p)] = h[Len(p)]
  BY <1>1, <1>2, <1>3, DescentUnique
<1>5. Len(q) \in 1..Len(q) /\ Len(q) # 1 /\ Len(q) - 1 = Len(p)
  BY <1>1
<1>6. h[Len(q)] = h[Len(q) - 1].sub[q[Len(q)]]
  BY <1>3, <1>5 DEF Descent
<1> QED BY <1>1, <1>2, <1>3, <1>4, <1>5, <1>6 DEF q

\* The places of one depth, and of the next.
Roots(tree) == {<<i>> : i \in DOMAIN tree}
Below(tree, ps) == UNION {{Append(p, i) : i \in DOMAIN At(tree, p).sub} : p \in ps}
Deepening(g, tree, n) == g = [d \in 0..n |-> IF d = 0 THEN Roots(tree) ELSE Below(tree, g[d - 1])]

\* The places of each depth are the ones below those of the depth before.
LEMMA DeepeningExists ==
  ASSUME NEW tree
  PROVE  \A n \in Nat : \E g : Deepening(g, tree, n)
<1> DEFINE H == {n \in Nat : \E g : Deepening(g, tree, n)}
<1>1. 0 \in H
  <2> DEFINE h == [d \in 0..0 |-> Roots(tree)]
  <2>1. \A d \in 0..0 : d = 0
    OBVIOUS
  <2>2. h = [d \in 0..0 |-> IF d = 0 THEN Roots(tree) ELSE Below(tree, h[d - 1])]
    BY <2>1
  <2> HIDE DEF h
  <2>3. Deepening(h, tree, 0)
    BY <2>2 DEF Deepening
  <2> QED BY <2>3
<1>2. ASSUME NEW n \in H PROVE n + 1 \in H
  <2>1. PICK g : Deepening(g, tree, n)
    OBVIOUS
  <2>2. n \in Nat
    OBVIOUS
  <2>3. \A d \in 0..n : g[d] = IF d = 0 THEN Roots(tree) ELSE Below(tree, g[d - 1])
    BY <2>1 DEF Deepening
  <2> DEFINE h == [d \in 0..n + 1 |-> IF d = 0 THEN Roots(tree)
                                        ELSE IF d <= n THEN g[d] ELSE Below(tree, g[d - 1])]
  <2>4. ASSUME NEW d \in 0..n + 1 PROVE h[d] = IF d = 0 THEN Roots(tree) ELSE Below(tree, h[d - 1])
    <3>1. CASE d = 0
      BY <3>1
    <3>2. CASE d # 0
      <4>1. d - 1 \in 0..n /\ d - 1 \in 0..n + 1 /\ (d <= n => d \in 0..n)
        BY <2>2, <3>2
      <4>2. h[d - 1] = g[d - 1]
        BY <2>3, <4>1
      <4>3. h[d] = IF d <= n THEN g[d] ELSE Below(tree, g[d - 1])
        BY <3>2
      <4> HIDE DEF h
      <4> QED BY <2>3, <3>2, <4>1, <4>2, <4>3
    <3> QED BY <3>1, <3>2
  <2>5. h = [d \in 0..n + 1 |-> h[d]]
    OBVIOUS
  <2> HIDE DEF h
  <2>6. h = [d \in 0..n + 1 |-> IF d = 0 THEN Roots(tree) ELSE Below(tree, h[d - 1])]
    BY <2>4, <2>5
  <2>7. Deepening(h, tree, n + 1)
    BY <2>6 DEF Deepening
  <2> QED BY <2>2, <2>7
<1>3. H \in SUBSET Nat
  OBVIOUS
<1> HIDE DEF H
<1>4. \A n \in Nat : n \in H
  BY <1>1, <1>2, <1>3, Induction
<1> QED BY <1>4 DEF H

\* Places is all the depths together.
LEMMA PlacesDeepening ==
  ASSUME NEW tree
  PROVE  \E g : /\ Deepening(g, tree, MaxNesting)
                /\ Places(tree) = UNION {g[d] : d \in 0..MaxNesting}
<1> DEFINE f == CHOOSE a : a = [d \in 0..MaxNesting |->
                  IF d = 0 THEN {<<i>> : i \in DOMAIN tree}
                  ELSE UNION {{Append(p, i) : i \in DOMAIN At(tree, p).sub} : p \in a[d - 1]}]
<1>1. MaxNesting \in Nat
  BY RegistryAssumption
<1>2. \E a : a = [d \in 0..MaxNesting |->
                  IF d = 0 THEN {<<i>> : i \in DOMAIN tree}
                  ELSE UNION {{Append(p, i) : i \in DOMAIN At(tree, p).sub} : p \in a[d - 1]}]
  <2>1. PICK g : Deepening(g, tree, MaxNesting)
    BY <1>1, DeepeningExists
  <2> QED BY <2>1 DEF Deepening, Roots, Below
<1>3. f = [d \in 0..MaxNesting |->
                  IF d = 0 THEN {<<i>> : i \in DOMAIN tree}
                  ELSE UNION {{Append(p, i) : i \in DOMAIN At(tree, p).sub} : p \in f[d - 1]}]
  BY <1>2
<1>4. Places(tree) = UNION {f[d] : d \in 0..MaxNesting}
  BY DEF Places
<1> HIDE DEF f
<1> QED BY <1>3, <1>4 DEF Deepening, Roots, Below

\* What is a place: an entry of the tree, or an entry of the tree of a place.
LEMMA PlacesAre ==
  ASSUME NEW tree \in Seq(Items)
  PROVE  /\ \A i \in DOMAIN tree : <<i>> \in Places(tree)
         /\ \A p \in Places(tree) : Len(p) <= MaxNesting =>
              \A i \in DOMAIN At(tree, p).sub : Append(p, i) \in Places(tree)
         /\ \A m \in Places(tree) :
              /\ m \in Seq(Nat) /\ m # <<>> /\ Len(m) <= MaxNesting + 1 /\ At(tree, m) \in Items
              /\ \/ \E i \in DOMAIN tree : m = <<i>>
                 \/ \E p \in Places(tree) : \E i \in DOMAIN At(tree, p).sub : m = Append(p, i)
<1>1. PICK g : Deepening(g, tree, MaxNesting) /\ Places(tree) = UNION {g[d] : d \in 0..MaxNesting}
  BY PlacesDeepening
<1>2. MaxNesting \in Nat /\ DOMAIN tree \subseteq Nat /\ \A i \in DOMAIN tree : tree[i] \in Items
  BY RegistryAssumption
<1>3. \A d \in 0..MaxNesting : g[d] = IF d = 0 THEN Roots(tree) ELSE Below(tree, g[d - 1])
  BY <1>1 DEF Deepening
<1> DEFINE Fits(d) == \A m \in g[d] : m \in Seq(Nat) /\ Len(m) = d + 1 /\ At(tree, m) \in Items
<1> DEFINE H == {d \in Nat : d \in 0..MaxNesting => Fits(d)}
<1>4. 0 \in H
  <2>1. ASSUME NEW m \in g[0] PROVE m \in Seq(Nat) /\ Len(m) = 0 + 1 /\ At(tree, m) \in Items
    <3>0. 0 \in 0..MaxNesting
      BY <1>2
    <3>1. PICK i \in DOMAIN tree : m = <<i>>
      BY <1>3, <3>0 DEF Roots
    <3>2. i \in Nat
      BY <1>2
    <3> QED BY <1>2, <3>1, <3>2, AtRoot
  <2> QED BY <2>1
<1>5. ASSUME NEW d \in H PROVE d + 1 \in H
  <2>1. d \in Nat
    OBVIOUS
  <2>2. ASSUME d + 1 \in 0..MaxNesting, NEW m \in g[d + 1]
        PROVE  m \in Seq(Nat) /\ Len(m) = (d + 1) + 1 /\ At(tree, m) \in Items
    <3>1. d \in 0..MaxNesting /\ d + 1 # 0 /\ (d + 1) - 1 = d
      BY <1>2, <2>1, <2>2
    <3>2. m \in Below(tree, g[d])
      BY <1>3, <2>2, <3>1
    <3>3. PICK p \in g[d] : \E i \in DOMAIN At(tree, p).sub : m = Append(p, i)
      BY <3>2 DEF Below
    <3>4. PICK i \in DOMAIN At(tree, p).sub : m = Append(p, i)
      BY <3>3
    <3>5. p \in Seq(Nat) /\ Len(p) = d + 1 /\ At(tree, p) \in Items
      BY <3>1
    <3>6. At(tree, p).sub \in Seq(Items) /\ i \in Nat /\ At(tree, p).sub[i] \in Items
      <4>1. At(tree, p).sub \in Seq(Items)
        BY <3>5, Distinct
      <4> HIDE DEF H
      <4> QED BY <4>1
    <3>7. p # <<>>
      BY <2>1, <3>5
    <3>8. At(tree, m) \in Items
      BY <3>4, <3>5, <3>6, <3>7, AtBelow
    <3> QED BY <3>4, <3>5, <3>6, <3>8
  <2> QED BY <2>1, <2>2
<1>6. H \in SUBSET Nat
  OBVIOUS
<1> HIDE DEF H
<1>7. \A d \in Nat : d \in H
  BY <1>4, <1>5, <1>6, Induction
<1>8. ASSUME NEW d \in 0..MaxNesting PROVE Fits(d)
  BY <1>2, <1>7 DEF H
<1>9. ASSUME NEW i \in DOMAIN tree PROVE <<i>> \in Places(tree)
  <2>0. 0 \in 0..MaxNesting
    BY <1>2
  <2>1. 0 \in 0..MaxNesting /\ <<i>> \in g[0]
    BY <1>3, <2>0 DEF Roots
  <2> QED BY <1>1, <2>1
<1>10. ASSUME NEW p \in Places(tree), Len(p) <= MaxNesting, NEW i \in DOMAIN At(tree, p).sub
       PROVE  Append(p, i) \in Places(tree)
  <2>1. PICK d \in 0..MaxNesting : p \in g[d]
    BY <1>1
  <2>2. Len(p) = d + 1
    BY <1>8, <2>1
  <2>3. d + 1 \in 0..MaxNesting /\ d + 1 # 0 /\ (d + 1) - 1 = d
    BY <1>2, <1>10, <2>2
  <2>4. Append(p, i) \in g[d + 1]
    <3>1. g[d + 1] = Below(tree, g[d])
      BY <1>3, <2>3
    <3>2. Append(p, i) \in Below(tree, g[d])
      BY <2>1 DEF Below
    <3> QED BY <3>1, <3>2
  <2> QED BY <1>1, <2>3, <2>4
<1>11. ASSUME NEW m \in Places(tree)
       PROVE  /\ m \in Seq(Nat) /\ m # <<>> /\ Len(m) <= MaxNesting + 1 /\ At(tree, m) \in Items
              /\ \/ \E i \in DOMAIN tree : m = <<i>>
                 \/ \E p \in Places(tree) : \E i \in DOMAIN At(tree, p).sub : m = Append(p, i)
  <2>1. PICK d \in 0..MaxNesting : m \in g[d]
    BY <1>1
  <2>2. m \in Seq(Nat) /\ Len(m) = d + 1 /\ At(tree, m) \in Items
    BY <1>8, <2>1
  <2>3. m # <<>> /\ Len(m) <= MaxNesting + 1
    BY <1>2, <2>2
  <2>4. CASE d = 0
    BY <1>3, <2>1, <2>2, <2>3, <2>4 DEF Roots
  <2>5. CASE d # 0
    <3>1. d - 1 \in 0..MaxNesting
      BY <1>2, <2>5
    <3>2. m \in Below(tree, g[d - 1])
      BY <1>3, <2>1, <2>5
    <3>3. \E p \in g[d - 1] : \E i \in DOMAIN At(tree, p).sub : m = Append(p, i)
      BY <3>2 DEF Below
    <3> QED BY <1>1, <2>2, <2>3, <3>1, <3>3
  <2> QED BY <2>4, <2>5
<1> QED BY <1>9, <1>10, <1>11

-----------------------------------------------------------------------------
(***************************************************************************)
(* What a stack of levels says of the tree.                                *)
(***************************************************************************)

\* The place of the entry of a level, and of the item j beside it.
Path(s, d) == [k \in 1..d |-> s[k].i]
Beside(s, d, j) == Append(Path(s, d - 1), j)

\* The middleFns of a level, what its items are called, and the order of its entries.
Fns(f) == {j \in DOMAIN f.items : IsMiddleFn(f.items[j])}
EntryIds(f) == [j \in DOMAIN f.items |-> f.items[j].id]
Less == {x \in Nat \X Nat : x[1] < x[2]}

\* A level has all the middleFns before and after its entry.
Complete(f) ==
  /\ Spells(f.preLevel, {j \in Fns(f) : j < f.i}, EntryIds(f), Less)
  /\ Spells(f.postLevel, {j \in Fns(f) : j > f.i}, EntryIds(f), Less)

\* Each level is the group the one above it stands at, and carries what was around it.
Nested(s, tree) ==
  /\ s \in Seq(Levels) /\ s # <<>> /\ Len(s) <= MaxNesting + 1
  /\ s[1].items = tree /\ s[1].pre = <<>> /\ s[1].post = <<>>
  /\ \A k \in DOMAIN s : s[k].i \in DOMAIN s[k].items
  /\ \A k \in DOMAIN s : k < Len(s) =>
       /\ s[k].items[s[k].i].kind = "group"
       /\ s[k + 1].items = s[k].items[s[k].i].sub
       /\ s[k + 1].pre = Before(s[k]) /\ s[k + 1].post = After(s[k])

\* The levels, and their entries.
LEMMA NestedLevels ==
  ASSUME NEW tree, NEW s, Nested(s, tree)
  PROVE  /\ Len(s) \in Nat /\ Len(s) >= 1 /\ DOMAIN s = 1..Len(s)
         /\ \A k \in 1..Len(s) : /\ s[k] \in Levels /\ s[k].items \in Seq(Items)
                               /\ DOMAIN s[k].items \subseteq Nat
                               /\ s[k].i \in DOMAIN s[k].items /\ s[k].i \in Nat
         /\ \A k \in 1..Len(s) : Path(s, k) \in Seq(Nat) /\ Len(Path(s, k)) = k
         /\ \A k \in 0..Len(s) : Path(s, k) \in Seq(Nat) /\ Len(Path(s, k)) = k
<1>1. s \in Seq(Levels) /\ s # <<>>
  BY DEF Nested
<1>2. Len(s) \in Nat /\ Len(s) >= 1 /\ DOMAIN s = 1..Len(s) /\ \A k \in 1..Len(s) : s[k] \in Levels
  BY <1>1
<1>3. ASSUME NEW k \in 1..Len(s)
      PROVE  /\ s[k].items \in Seq(Items) /\ DOMAIN s[k].items \subseteq Nat
             /\ s[k].i \in DOMAIN s[k].items /\ s[k].i \in Nat
  <2>1. s[k].items \in Seq(Items) /\ s[k].i \in Nat
    BY <1>2 DEF Levels
  <2>2. s[k].i \in DOMAIN s[k].items
    BY <1>2 DEF Nested
  <2> QED BY <2>1, <2>2
<1>4. ASSUME NEW k \in 0..Len(s) PROVE Path(s, k) \in Seq(Nat) /\ Len(Path(s, k)) = k
  <2>1. k \in Nat /\ \A l \in 1..k : s[l].i \in Nat
    BY <1>2, <1>3
  <2> DEFINE p == [l \in 1..k |-> s[l].i]
  <2>2. p \in [1..k -> Nat]
    BY <2>1
  <2> HIDE DEF p
  <2>3. p \in Seq(Nat) /\ Len(p) = k
    BY <2>1, <2>2
  <2> QED BY <2>3 DEF p, Path
<1> QED BY <1>2, <1>3, <1>4

\* The entry of a level is beside itself.
LEMMA PathBeside ==
  ASSUME NEW tree, NEW s, Nested(s, tree), NEW b \in 1..Len(s)
  PROVE  Beside(s, b, s[b].i) = Path(s, b)
<1> DEFINE p == Path(s, b - 1)
<1> DEFINE q == Path(s, b)
<1>1. b \in Nat /\ b >= 1 /\ b - 1 \in 0..Len(s) /\ b \in 0..Len(s)
  BY NestedLevels
<1>2. p \in Seq(Nat) /\ Len(p) = b - 1 /\ q \in Seq(Nat) /\ Len(q) = b /\ s[b].i \in Nat
  BY <1>1, NestedLevels
<1>3. (\A k \in 1..b - 1 : p[k] = s[k].i) /\ (\A k \in 1..b : q[k] = s[k].i)
  BY DEF Path
<1> DEFINE a == Append(p, s[b].i)
<1> HIDE DEF p, q
<1>4. /\ a \in Seq(Nat) /\ Len(a) = b
      /\ \A k \in 1..b - 1 : a[k] = p[k]
      /\ a[b] = s[b].i
  <2>1. /\ a \in Seq(Nat) /\ Len(a) = Len(p) + 1
        /\ \A k \in 1..Len(p) : a[k] = p[k]
        /\ a[Len(p) + 1] = s[b].i
    BY <1>2, AppendProperties
  <2>2. (b - 1) + 1 = b
    BY <1>1
  <2> QED BY <1>2, <2>1, <2>2
<1> HIDE DEF a
<1>5. ASSUME NEW k \in 1..b PROVE a[k] = q[k]
  <2>1. k = b \/ k \in 1..b - 1
    BY <1>1
  <2> QED BY <1>1, <1>3, <1>4, <2>1
<1>6. a = q
  BY <1>2, <1>4, <1>5
<1> QED BY <1>6 DEF a, p, q, Beside

\* The place beside the entry of a level is a place of the tree, of the item that is there.
LEMMA BesidePlaces ==
  ASSUME NEW tree \in Seq(Items), NEW s, Nested(s, tree), NEW d \in 1..Len(s), NEW j \in DOMAIN s[d].items
  PROVE  /\ Beside(s, d, j) \in Places(tree) /\ Beside(s, d, j) \in Seq(Nat)
         /\ Len(Beside(s, d, j)) = d
         /\ At(tree, Beside(s, d, j)) = s[d].items[j]
<1> DEFINE Right(b) == \A i \in DOMAIN s[b].items :
                         Beside(s, b, i) \in Places(tree) /\ At(tree, Beside(s, b, i)) = s[b].items[i]
<1> DEFINE H == {b \in Nat : b \in 1..Len(s) => Right(b)}
<1>1. 0 \in H
  OBVIOUS
<1>2. /\ Len(s) \in Nat /\ Len(s) >= 1 /\ DOMAIN s = 1..Len(s)
      /\ \A k \in 1..Len(s) : DOMAIN s[k].items \subseteq Nat /\ s[k].i \in DOMAIN s[k].items
      /\ \A k \in 0..Len(s) : Path(s, k) \in Seq(Nat) /\ Len(Path(s, k)) = k
  BY NestedLevels
<1>3. ASSUME NEW b \in H PROVE b + 1 \in H
  <2>1. b \in Nat /\ (b \in 1..Len(s) => Right(b)) /\ (b + 1) - 1 = b
    OBVIOUS
  <2> HIDE DEF H
  <2>2. ASSUME b + 1 \in 1..Len(s), NEW i \in DOMAIN s[b + 1].items
        PROVE  Beside(s, b + 1, i) \in Places(tree) /\ At(tree, Beside(s, b + 1, i)) = s[b + 1].items[i]
    <3>1. i \in Nat /\ Beside(s, b + 1, i) = Append(Path(s, b), i)
      BY <1>2, <2>1, <2>2 DEF Beside
    <3>2. CASE b = 0
      <4>1. Path(s, 0) \in Seq(Nat) /\ Len(Path(s, 0)) = 0
        BY <1>2
      <4>2. Path(s, 0) = <<>>
        BY <4>1
      <4>3. Append(Path(s, b), i) = <<i>>
        <5>1. Append(<<>>, i) = <<i>>
          OBVIOUS
        <5> QED BY <3>2, <4>2, <5>1
      <4>4. s[b + 1].items = tree
        BY <3>2 DEF Nested
      <4> QED BY <2>2, <3>1, <4>3, <4>4, AtRoot, PlacesAre
    <3>3. CASE b # 0
      <4>1. b \in 1..Len(s) /\ b < Len(s) /\ b - 1 \in 0..Len(s)
        <5>1. Len(s) \in Nat /\ b \in Nat /\ b # 0 /\ b + 1 \in 1..Len(s)
          BY <1>2, <2>1, <2>2, <3>3
        <5> QED BY ONLY <5>1
      <4>2. Path(s, b) \in Seq(Nat) /\ Len(Path(s, b)) = b /\ Path(s, b) # <<>>
        BY <1>2, <3>3, <4>1
      <4>3. Beside(s, b, s[b].i) = Path(s, b)
        BY <4>1, PathBeside
      <4>4. Path(s, b) \in Places(tree) /\ At(tree, Path(s, b)) = s[b].items[s[b].i]
        BY <1>2, <2>1, <4>1, <4>3
      <4>5. s[b + 1].items = s[b].items[s[b].i].sub /\ Len(s) <= MaxNesting + 1
        BY <1>2, <4>1 DEF Nested
      <4>6. Len(Path(s, b)) <= MaxNesting
        BY <1>2, <4>1, <4>2, <4>5, RegistryAssumption
      <4>7. Append(Path(s, b), i) \in Places(tree)
        BY <2>2, <4>4, <4>5, <4>6, PlacesAre
      <4>8. At(tree, Append(Path(s, b), i)) = s[b + 1].items[i]
        BY <3>1, <4>2, <4>4, <4>5, AtBelow
      <4> QED BY <3>1, <4>7, <4>8
    <3> QED BY <3>2, <3>3
  <2> QED BY <2>1, <2>2 DEF H
<1>4. H \in SUBSET Nat
  OBVIOUS
<1> HIDE DEF H
<1>5. \A b \in Nat : b \in H
  BY <1>1, <1>3, <1>4, Induction
<1>6. Right(d)
  <2>1. d \in Nat /\ d \in 1..Len(s)
    BY <1>2
  <2>2. d \in H
    BY <1>5, <2>1
  <2> HIDE DEF Right
  <2> QED BY <2>1, <2>2 DEF H
<1>7. Path(s, d - 1) \in Seq(Nat) /\ Len(Path(s, d - 1)) = d - 1 /\ j \in Nat
  <2>1. d - 1 \in 0..Len(s)
    BY <1>2
  <2> QED BY <1>2, <2>1
<1>8. Beside(s, d, j) \in Seq(Nat) /\ Len(Beside(s, d, j)) = d
  BY <1>2, <1>7 DEF Beside
<1> QED BY <1>6, <1>8

\* What such a place is made of.
Made(m, s, d, j) ==
  m \in Seq(Nat) /\ Len(m) = d /\ (\A k \in 1..d - 1 : m[k] = s[k].i) /\ m[d] = j

\* A place beside a walk is the walk's own up to its last step.
LEMMA BesideMade ==
  ASSUME NEW tree, NEW s, Nested(s, tree), NEW d \in 1..Len(s), NEW j \in Nat
  PROVE  Made(Beside(s, d, j), s, d, j)
<1>1. d \in Nat /\ d >= 1 /\ d - 1 \in 0..Len(s)
  BY NestedLevels
<1> DEFINE p == Path(s, d - 1)
<1>2. p \in Seq(Nat) /\ Len(p) = d - 1
  BY <1>1, NestedLevels
<1>3. \A k \in 1..d - 1 : p[k] = s[k].i
  BY DEF Path
<1> DEFINE a == Append(p, j)
<1> HIDE DEF p
<1>4. /\ a \in Seq(Nat) /\ Len(a) = Len(p) + 1
      /\ \A k \in 1..Len(p) : a[k] = p[k]
      /\ a[Len(p) + 1] = j
  BY <1>2, AppendProperties
<1>5. (d - 1) + 1 = d
  BY <1>1
<1> HIDE DEF a
<1>6. a \in Seq(Nat) /\ Len(a) = d /\ (\A k \in 1..d - 1 : a[k] = s[k].i) /\ a[d] = j
  BY <1>2, <1>3, <1>4, <1>5
<1> QED BY <1>6 DEF a, p, Beside, Made

\* Items are written in the order of their entries, and what is beside a level's
\* entry is before, or after, all that is below that entry.
LEMMA BesideOrder ==
  ASSUME NEW tree, NEW s, Nested(s, tree), NEW b \in 1..Len(s), NEW d \in 1..Len(s),
         NEW i \in Nat, NEW j \in Nat,
         \/ b = d /\ i < j
         \/ b < d /\ i < s[b].i
         \/ d < b /\ s[d].i < j
  PROVE  Precedes(Beside(s, b, i), Beside(s, d, j))
<1> DEFINE p == Beside(s, b, i)
<1> DEFINE q == Beside(s, d, j)
<1>1. /\ p \in Seq(Nat) /\ Len(p) = b /\ (\A k \in 1..b - 1 : p[k] = s[k].i) /\ p[b] = i
      /\ q \in Seq(Nat) /\ Len(q) = d /\ (\A k \in 1..d - 1 : q[k] = s[k].i) /\ q[d] = j
  <2>1. Made(p, s, b, i) /\ Made(q, s, d, j)
    BY BesideMade
  <2> HIDE DEF p, q
  <2> QED BY <2>1 DEF Made
<1> HIDE DEF p, q
<1>2. b \in Nat /\ d \in Nat /\ b >= 1 /\ d >= 1
  BY NestedLevels
<1>3. ASSUME NEW k \in 1..b, k <= d, p[k] < q[k], \A l \in 1..k - 1 : p[l] = q[l]
      PROVE  Precedes(p, q)
  BY <1>1, <1>3, PrecedesMeans
<1>4. CASE b = d /\ i < j
  <2>1. \A l \in 1..b - 1 : p[l] = q[l]
    BY <1>1, <1>4
  <2>2. b \in 1..b /\ b <= d /\ p[b] < q[b]
    BY <1>1, <1>2, <1>4
  <2> QED BY <1>3, <2>1, <2>2 DEF p, q
<1>5. CASE b < d /\ i < s[b].i
  <2>1. b \in 1..b /\ b <= d /\ b \in 1..d - 1 /\ \A l \in 1..b - 1 : l \in 1..d - 1
    BY <1>2, <1>5
  <2>2. p[b] < q[b] /\ \A l \in 1..b - 1 : p[l] = q[l]
    BY <1>1, <1>5, <2>1
  <2> QED BY <1>3, <2>1, <2>2 DEF p, q
<1>6. CASE d < b /\ s[d].i < j
  <2>1. d \in 1..b /\ d <= d /\ d \in 1..b - 1 /\ \A l \in 1..d - 1 : l \in 1..b - 1
    BY <1>2, <1>6
  <2>2. p[d] < q[d] /\ \A l \in 1..d - 1 : p[l] = q[l]
    BY <1>1, <1>6, <2>1
  <2> QED BY <1>3, <2>1, <2>2 DEF p, q
<1> QED BY <1>4, <1>5, <1>6

\* The middleFns beside the entries down to a level, before and after them.
Sooner(s, d) == UNION {{Beside(s, b, j) : j \in {i \in Fns(s[b]) : i < s[b].i}} : b \in 1..d}
Later(s, d) == UNION {{Beside(s, b, j) : j \in {i \in Fns(s[b]) : i > s[b].i}} : b \in 1..d}

\* Those are the middleFns in scope of the route the walk stands at.
LEMMA ScopeIs ==
  ASSUME NEW tree \in Seq(Items), NEW s, Nested(s, tree), s[Len(s)].items[s[Len(s)].i].kind = "route"
  PROVE  LET p == Path(s, Len(s)) IN
         /\ p \in Places(tree) /\ At(tree, p) = s[Len(s)].items[s[Len(s)].i]
         /\ Around(tree, p) = (Sooner(s, Len(s)) \cup {p}) \cup Later(s, Len(s))
<1> DEFINE n == Len(s)
<1> DEFINE p == Path(s, n)
<1>1. /\ n \in Nat /\ n \in 1..n
      /\ \A k \in 1..n : DOMAIN s[k].items \subseteq Nat /\ s[k].i \in DOMAIN s[k].items /\ s[k].i \in Nat
      /\ \A k \in 0..n : Path(s, k) \in Seq(Nat) /\ Len(Path(s, k)) = k
  BY NestedLevels
<1>2. p = Beside(s, n, s[n].i)
  BY <1>1, PathBeside
<1>3. p \in Places(tree) /\ At(tree, p) = s[n].items[s[n].i] /\ p \in Seq(Nat) /\ Len(p) = n
  BY <1>1, <1>2, BesidePlaces
<1>4. \A k \in 1..n : p[k] = s[k].i
  BY DEF Path
<1> HIDE DEF p
<1>5. ASSUME NEW d \in 1..n PROVE SubSeq(p, 1, d - 1) = Path(s, d - 1)
  <2>1. d - 1 \in 0..n /\ \A k \in 1..d - 1 : k \in 1..n
    BY <1>1
  <2>2. SubSeq(p, 1, d - 1) = [k \in 1..d - 1 |-> p[k]]
    BY <1>3
  <2> QED BY <1>4, <2>1, <2>2 DEF Path
<1>6. ASSUME NEW d \in 1..n, NEW j \in Fns(s[d])
      PROVE  /\ Beside(s, d, j) \in Places(tree) /\ IsMiddleFn(At(tree, Beside(s, d, j)))
             /\ InScope(Beside(s, d, j), p)
  <2> DEFINE m == Beside(s, d, j)
  <2>1. j \in DOMAIN s[d].items /\ IsMiddleFn(s[d].items[j])
    BY DEF Fns
  <2>2. j \in Nat
    BY <1>1, <2>1
  <2>3. m \in Places(tree) /\ m \in Seq(Nat) /\ Len(m) = d /\ At(tree, m) = s[d].items[j]
    BY <2>1, BesidePlaces
  <2>4. \A k \in 1..d - 1 : m[k] = s[k].i
    <3>1. Made(m, s, d, j)
      BY <2>2, BesideMade
    <3> HIDE DEF m
    <3> QED BY <3>1 DEF Made
  <2> HIDE DEF m
  <2>5. SubSeq(m, 1, d - 1) = [k \in 1..d - 1 |-> m[k]]
    BY <1>1, <2>3
  <2>6. SubSeq(m, 1, d - 1) = Path(s, d - 1)
    BY <2>4, <2>5 DEF Path
  <2>7. InScope(m, p)
    <3>1. SubSeq(p, 1, d - 1) = Path(s, d - 1) /\ d <= n
      BY <1>1, <1>5
    <3> QED BY <1>3, <2>3, <2>6, <3>1 DEF InScope
  <2> QED BY <2>1, <2>3, <2>7 DEF m
<1>7. ASSUME NEW m \in Places(tree), IsMiddleFn(At(tree, m)), InScope(m, p)
      PROVE  \E d \in 1..n : \E j \in Fns(s[d]) : j # s[d].i /\ m = Beside(s, d, j)
  <2> DEFINE d == Len(m)
  <2>1. m \in Seq(Nat) /\ m # <<>>
    BY PlacesAre
  <2>2. d \in 1..n
    BY <1>1, <1>3, <1>7, <2>1 DEF InScope
  <2>3. SubSeq(m, 1, d - 1) = Path(s, d - 1)
    BY <1>5, <1>7, <2>2 DEF InScope
  <2>4. ASSUME NEW j \in DOMAIN s[d].items, m = Beside(s, d, j) PROVE j \in Fns(s[d]) /\ j # s[d].i
    <3>1. At(tree, m) = s[d].items[j]
      BY <2>2, <2>4, BesidePlaces
    <3>2. IsMiddleFn(s[d].items[j])
      BY <1>7, <3>1
    <3>3. s[d].items[s[d].i].kind \in {"group", "route"}
      <4>1. CASE d = n
        BY <4>1
      <4>2. CASE d # n
        <5>1. d < n /\ d \in DOMAIN s
          BY <1>1, <2>2, <4>2, NestedLevels
        <5> QED BY <5>1 DEF Nested
      <4> QED BY <4>1, <4>2
    <3> QED BY <3>2, <3>3 DEF Fns, IsMiddleFn
  <2>5. CASE \E i \in DOMAIN tree : m = <<i>>
    <3>1. PICK i \in DOMAIN tree : m = <<i>>
      BY <2>5
    <3>2. i \in Nat /\ d = 1 /\ s[d].items = tree
      BY <2>1, <3>1 DEF Nested
    <3>3. Path(s, 0) \in Seq(Nat) /\ Len(Path(s, 0)) = 0
      <4>1. 0 \in 0..n
        BY <1>1
      <4> QED BY <1>1, <4>1
    <3>4. Append(<<>>, i) = <<i>>
      OBVIOUS
    <3>5. Path(s, 0) = <<>> /\ d - 1 = 0
      BY <3>2, <3>3
    <3>6. m = Beside(s, d, i)
      BY <3>1, <3>4, <3>5 DEF Beside
    <3> QED BY <2>2, <2>4, <3>2, <3>6
  <2>6. CASE \E q \in Places(tree) : \E i \in DOMAIN At(tree, q).sub : m = Append(q, i)
    <3>1. PICK q \in Places(tree) : \E i \in DOMAIN At(tree, q).sub : m = Append(q, i)
      BY <2>6
    <3>2. PICK i \in DOMAIN At(tree, q).sub : m = Append(q, i)
      BY <3>1
    <3>3. q \in Seq(Nat) /\ q # <<>> /\ At(tree, q) \in Items
      BY PlacesAre
    <3>4. i \in Nat
      <4>1. At(tree, q).sub \in Seq(Items)
        BY <3>3, Distinct
      <4> QED BY <4>1
    <3>5. d = Len(q) + 1 /\ Len(q) \in Nat /\ Len(q) # 0 /\ \A k \in 1..Len(q) : m[k] = q[k]
      BY <3>2, <3>3, <3>4
    <3>6. d - 1 = Len(q) /\ d - 1 \in 1..n /\ d - 1 < Len(s) /\ (d - 1) + 1 = d
      BY <1>1, <2>2, <3>5
    <3>7. SubSeq(m, 1, d - 1) = q
      <4>1. SubSeq(m, 1, d - 1) = [k \in 1..d - 1 |-> m[k]]
        BY <2>1, <3>6
      <4>2. q = [k \in 1..Len(q) |-> q[k]]
        BY <3>3
      <4> QED BY <3>5, <3>6, <4>1, <4>2
    <3>8. q = Beside(s, d - 1, s[d - 1].i)
      BY <2>3, <3>6, <3>7, PathBeside
    <3>9. At(tree, q) = s[d - 1].items[s[d - 1].i]
      <4>1. s[d - 1].i \in DOMAIN s[d - 1].items
        BY <1>1, <3>6
      <4> QED BY <3>6, <3>8, <4>1, BesidePlaces
    <3>10. s[d].items = s[d - 1].items[s[d - 1].i].sub
      <4>1. d - 1 \in DOMAIN s
        BY <3>6, NestedLevels
      <4> QED BY <3>6, <4>1 DEF Nested
    <3>11. i \in DOMAIN s[d].items /\ m = Beside(s, d, i)
      BY <2>3, <3>2, <3>7, <3>9, <3>10 DEF Beside
    <3> QED BY <2>2, <2>4, <3>11
  <2> QED BY <2>5, <2>6, PlacesAre
<1>8. ASSUME NEW m PROVE m \in Around(tree, p) <=> m \in (Sooner(s, n) \cup {p}) \cup Later(s, n)
  <2>1. ASSUME m \in Around(tree, p) PROVE m \in (Sooner(s, n) \cup {p}) \cup Later(s, n)
    <3>1. CASE m = p
      BY <3>1
    <3>2. CASE m # p
      <4>1. m \in Places(tree) /\ IsMiddleFn(At(tree, m)) /\ InScope(m, p)
        BY <2>1, <3>2 DEF Around
      <4>2. PICK d \in 1..n : \E j \in Fns(s[d]) : j # s[d].i /\ m = Beside(s, d, j)
        BY <1>7, <4>1
      <4>3. PICK j \in Fns(s[d]) : j # s[d].i /\ m = Beside(s, d, j)
        BY <4>2
      <4>4. j \in Nat /\ s[d].i \in Nat
        BY <1>1 DEF Fns
      <4>5. CASE j < s[d].i
        BY <4>3, <4>5 DEF Sooner
      <4>6. CASE j > s[d].i
        BY <4>3, <4>6 DEF Later
      <4> QED BY <4>3, <4>4, <4>5, <4>6
    <3> QED BY <3>1, <3>2
  <2>2. ASSUME m \in (Sooner(s, n) \cup {p}) \cup Later(s, n) PROVE m \in Around(tree, p)
    <3>1. CASE m = p
      BY <3>1 DEF Around
    <3>2. CASE m # p
      <4>1. PICK d \in 1..n : \E j \in Fns(s[d]) : m = Beside(s, d, j)
        BY <2>2, <3>2 DEF Sooner, Later
      <4> QED BY <1>6, <4>1 DEF Around
    <3> QED BY <3>1, <3>2
  <2> QED BY <2>1, <2>2
<1>9. Around(tree, p) = (Sooner(s, n) \cup {p}) \cup Later(s, n)
  BY <1>8
<1> QED BY <1>3, <1>9 DEF p

\* The entry ids of the items at the places, and the order of places.
PlaceIds(tree) == [m \in Places(tree) |-> At(tree, m).id]
WrittenBefore == {x \in Seq(Nat) \X Seq(Nat) : Precedes(x[1], x[2])}

\* The places beside one entry, in the order of the level.
LEMMA LevelSpells ==
  ASSUME NEW tree \in Seq(Items), NEW s, Nested(s, tree), NEW d \in 1..Len(s),
         NEW fns \in Seq(Executables), NEW S, S \subseteq Fns(s[d]), Spells(fns, S, EntryIds(s[d]), Less)
  PROVE  Spells(fns, {Beside(s, d, j) : j \in S}, PlaceIds(tree), WrittenBefore)
<1> DEFINE T == {Beside(s, d, j) : j \in S}
<1> DEFINE F == [j \in S |-> Beside(s, d, j)]
<1>1. \A j \in S : j \in DOMAIN s[d].items /\ j \in Nat
  BY NestedLevels DEF Fns
<1>2. \A j \in S : /\ Beside(s, d, j) \in Places(tree) /\ Beside(s, d, j) \in Seq(Nat)
                   /\ At(tree, Beside(s, d, j)) = s[d].items[j]
  BY <1>1, BesidePlaces
<1>3. F \in [S -> T] /\ (\A y \in T : \E x \in S : F[x] = y) /\ \A x \in S : F[x] = Beside(s, d, x)
  OBVIOUS
<1> HIDE DEF F, T
<1>4. \A x \in S : PlaceIds(tree)[F[x]] = EntryIds(s[d])[x]
  BY <1>1, <1>2, <1>3 DEF PlaceIds, EntryIds
<1>5. ASSUME NEW x \in S, NEW y \in S, <<x, y>> \in Less PROVE <<F[x], F[y]>> \in WrittenBefore
  <2>1. x \in Nat /\ y \in Nat /\ x < y
    BY <1>1, <1>5 DEF Less
  <2>2. Precedes(Beside(s, d, x), Beside(s, d, y))
    BY <2>1, BesideOrder
  <2> QED BY <1>2, <1>3, <2>2 DEF WrittenBefore
<1>6. Len(fns) \in Nat
  OBVIOUS
<1>7. Spells(fns, T, PlaceIds(tree), WrittenBefore)
  BY <1>3, <1>4, <1>5, <1>6, SpellsImage
<1> QED BY <1>7 DEF T

\* What is written before the entry of a level, and of those above it.
LEMMA BeforeSpells ==
  ASSUME NEW tree \in Seq(Items), NEW s, Nested(s, tree), \A k \in 1..Len(s) : Complete(s[k])
  PROVE  \A d \in 1..Len(s) : /\ Spells(Before(s[d]), Sooner(s, d), PlaceIds(tree), WrittenBefore)
                             /\ Spells(After(s[d]), Later(s, d), PlaceIds(tree), WrittenBefore)
<1> DEFINE Right(d) == /\ Spells(Before(s[d]), Sooner(s, d), PlaceIds(tree), WrittenBefore)
                       /\ Spells(After(s[d]), Later(s, d), PlaceIds(tree), WrittenBefore)
<1> DEFINE H == {d \in Nat : d \in 1..Len(s) => Right(d)}
<1>1. 0 \in H
  OBVIOUS
<1>2. /\ Len(s) \in Nat
      /\ \A k \in 1..Len(s) : s[k] \in Levels /\ s[k].i \in Nat /\ DOMAIN s[k].items \subseteq Nat
  BY NestedLevels
<1> DEFINE Pre(d) == {j \in Fns(s[d]) : j < s[d].i}
<1> DEFINE Post(d) == {j \in Fns(s[d]) : j > s[d].i}
<1> DEFINE BesidePre(d) == {Beside(s, d, j) : j \in Pre(d)}
<1> DEFINE BesidePost(d) == {Beside(s, d, j) : j \in Post(d)}
<1>3. ASSUME NEW d \in 1..Len(s)
      PROVE  /\ s[d].pre \in Seq(Executables) /\ s[d].preLevel \in Seq(Executables)
             /\ s[d].post \in Seq(Executables) /\ s[d].postLevel \in Seq(Executables)
             /\ Spells(s[d].preLevel, BesidePre(d), PlaceIds(tree), WrittenBefore)
             /\ Spells(s[d].postLevel, BesidePost(d), PlaceIds(tree), WrittenBefore)
  <2>1. /\ s[d].pre \in Seq(Executables) /\ s[d].preLevel \in Seq(Executables)
        /\ s[d].post \in Seq(Executables) /\ s[d].postLevel \in Seq(Executables)
    BY <1>2 DEF Levels
  <2>2. /\ Spells(s[d].preLevel, Pre(d), EntryIds(s[d]), Less)
        /\ Spells(s[d].postLevel, Post(d), EntryIds(s[d]), Less)
    BY DEF Complete
  <2>3. Pre(d) \subseteq Fns(s[d]) /\ Post(d) \subseteq Fns(s[d])
    OBVIOUS
  <2> HIDE DEF Pre, Post
  <2>4. Spells(s[d].preLevel, BesidePre(d), PlaceIds(tree), WrittenBefore)
    BY <2>1, <2>2, <2>3, LevelSpells
  <2>5. Spells(s[d].postLevel, BesidePost(d), PlaceIds(tree), WrittenBefore)
    BY <2>1, <2>2, <2>3, LevelSpells
  <2> QED BY <2>1, <2>4, <2>5
<1>4. ASSUME NEW d \in H PROVE d + 1 \in H
  <2>1. d \in Nat /\ (d \in 1..Len(s) => Right(d))
    OBVIOUS
  <2> SUFFICES ASSUME d + 1 \in 1..Len(s) PROVE Right(d + 1)
    BY <2>1
  <2> HIDE DEF H, Right
  <2>2. CASE d = 0
    <3>0. 1 \in 1..Len(s)
      BY <2>2
    <3>1. s[1].pre = <<>> /\ s[1].post = <<>>
      BY DEF Nested
    <3>2. s[1].preLevel \in Seq(Executables) /\ s[1].postLevel \in Seq(Executables)
      BY <1>3, <3>0
    <3>3. Before(s[1]) = s[1].preLevel /\ After(s[1]) = s[1].postLevel
      BY <3>1, <3>2, ConcatEmptySeq DEF Before, After
    <3>4. \A b : b \in 1..1 <=> b = 1
      OBVIOUS
    <3>5. Sooner(s, 1) = BesidePre(1) /\ Later(s, 1) = BesidePost(1)
      BY <3>4 DEF Sooner, Later
    <3>6. d + 1 = 1
      BY <2>2
    <3> HIDE DEF BesidePre, BesidePost
    <3> QED BY <1>3, <3>0, <3>3, <3>5, <3>6 DEF Right
  <2>3. CASE d # 0
    <3>1. d \in 1..Len(s) /\ d < Len(s)
      BY ONLY <1>2, <2>1, <2>3, d + 1 \in 1..Len(s)
    <3>2. s[d + 1].pre = Before(s[d]) /\ s[d + 1].post = After(s[d])
      BY <3>1, NestedLevels DEF Nested
    <3>3. /\ Spells(Before(s[d]), Sooner(s, d), PlaceIds(tree), WrittenBefore)
          /\ Spells(After(s[d]), Later(s, d), PlaceIds(tree), WrittenBefore)
      BY <2>1, <3>1 DEF Right
    <3>4. \A b : b \in 1..d + 1 <=> b \in 1..d \/ b = d + 1
      BY <2>1
    <3>5. /\ Sooner(s, d + 1) = Sooner(s, d) \cup BesidePre(d + 1)
          /\ Later(s, d + 1) = BesidePost(d + 1) \cup Later(s, d)
      BY <3>4 DEF Sooner, Later
    <3>6. ASSUME NEW x \in Sooner(s, d), NEW y \in BesidePre(d + 1) PROVE <<x, y>> \in WrittenBefore
      <4>1. PICK b \in 1..d : \E j \in Pre(b) : x = Beside(s, b, j)
        BY DEF Sooner
      <4>2. PICK i \in Pre(b) : x = Beside(s, b, i)
        BY <4>1
      <4>3. PICK j \in Pre(d + 1) : y = Beside(s, d + 1, j)
        OBVIOUS
      <4>4. b \in 1..Len(s) /\ b < d + 1
        BY ONLY <1>2, <2>1, <3>1, b \in 1..d
      <4>5. /\ i \in DOMAIN s[b].items /\ i \in Nat /\ i < s[b].i
            /\ j \in DOMAIN s[d + 1].items /\ j \in Nat
        BY <1>2, <4>4 DEF Fns
      <4>6. Precedes(Beside(s, b, i), Beside(s, d + 1, j))
        BY <4>4, <4>5, BesideOrder
      <4>7. x \in Seq(Nat) /\ y \in Seq(Nat)
        BY <4>2, <4>3, <4>4, <4>5, BesidePlaces
      <4> QED BY <4>2, <4>3, <4>6, <4>7 DEF WrittenBefore
    <3>7. ASSUME NEW x \in BesidePost(d + 1), NEW y \in Later(s, d) PROVE <<x, y>> \in WrittenBefore
      <4>1. PICK b \in 1..d : \E j \in Post(b) : y = Beside(s, b, j)
        BY DEF Later
      <4>2. PICK i \in Post(b) : y = Beside(s, b, i)
        BY <4>1
      <4>3. PICK j \in Post(d + 1) : x = Beside(s, d + 1, j)
        OBVIOUS
      <4>4. b \in 1..Len(s) /\ b < d + 1
        BY ONLY <1>2, <2>1, <3>1, b \in 1..d
      <4>5. /\ i \in DOMAIN s[b].items /\ i \in Nat /\ s[b].i < i
            /\ j \in DOMAIN s[d + 1].items /\ j \in Nat
        BY <1>2, <4>4 DEF Fns
      <4>6. Precedes(Beside(s, d + 1, j), Beside(s, b, i))
        BY <4>4, <4>5, BesideOrder
      <4>7. x \in Seq(Nat) /\ y \in Seq(Nat)
        BY <4>2, <4>3, <4>4, <4>5, BesidePlaces
      <4> QED BY <4>2, <4>3, <4>6, <4>7 DEF WrittenBefore
    <3> HIDE DEF BesidePre, BesidePost
    <3> DEFINE f == s[d + 1]
    <3>8. /\ f.pre \in Seq(Executables) /\ f.preLevel \in Seq(Executables)
          /\ f.post \in Seq(Executables) /\ f.postLevel \in Seq(Executables)
          /\ Spells(f.preLevel, BesidePre(d + 1), PlaceIds(tree), WrittenBefore)
          /\ Spells(f.postLevel, BesidePost(d + 1), PlaceIds(tree), WrittenBefore)
          /\ Spells(f.pre, Sooner(s, d), PlaceIds(tree), WrittenBefore)
          /\ Spells(f.post, Later(s, d), PlaceIds(tree), WrittenBefore)
      BY <1>3, <3>2, <3>3
    <3> HIDE DEF f
    <3>9. Spells(f.pre \o f.preLevel, Sooner(s, d) \cup BesidePre(d + 1), PlaceIds(tree), WrittenBefore)
      BY <3>6, <3>8, SpellsBoth
    <3>10. Spells(f.postLevel \o f.post, BesidePost(d + 1) \cup Later(s, d), PlaceIds(tree), WrittenBefore)
      BY <3>7, <3>8, SpellsBoth
    <3> QED BY <3>5, <3>9, <3>10 DEF Right, Before, After, f
  <2> QED BY <2>2, <2>3
<1>5. H \in SUBSET Nat
  OBVIOUS
<1> HIDE DEF H
<1>6. \A d \in Nat : d \in H
  BY <1>1, <1>4, <1>5, Induction
<1> QED BY <1>2, <1>6 DEF H

\* The chain of the route a walk stands at is written that way in the tree.
LEMMA WrittenIs ==
  ASSUME NEW tree \in Seq(Items), NEW s, Nested(s, tree), \A k \in 1..Len(s) : Complete(s[k]),
         NEW f, f = s[Len(s)], f.items[f.i].kind = "route",
         NEW e \in Executables, e.id = f.items[f.i].id
  PROVE  \E p \in Places(tree) :
           /\ At(tree, p).kind = "route" /\ At(tree, p).id = e.id
           /\ IdSeq((Before(f) \o <<e>>) \o After(f)) = Written(tree, p)
<1> DEFINE n == Len(s)
<1> DEFINE p == Path(s, n)
<1>1. /\ n \in Nat /\ n \in 1..n
      /\ \A k \in 1..n : s[k] \in Levels /\ DOMAIN s[k].items \subseteq Nat
                       /\ s[k].i \in DOMAIN s[k].items /\ s[k].i \in Nat
  BY NestedLevels
<1>2. /\ p \in Places(tree) /\ At(tree, p) = f.items[f.i]
      /\ Around(tree, p) = (Sooner(s, n) \cup {p}) \cup Later(s, n)
  BY ScopeIs
<1>3. p = Beside(s, n, s[n].i)
  BY <1>1, PathBeside
<1> HIDE DEF p
<1>4. p \in Seq(Nat)
  BY <1>2, PlacesAre
<1>5. ASSUME NEW x \in Sooner(s, n)
      PROVE  /\ x \in Seq(Nat) /\ \E b \in 1..n : \E i \in Nat : i < s[b].i /\ x = Beside(s, b, i)
  <2>1. PICK b \in 1..n : \E i \in Fns(s[b]) : i < s[b].i /\ x = Beside(s, b, i)
    BY DEF Sooner
  <2>2. PICK i \in Fns(s[b]) : i < s[b].i /\ x = Beside(s, b, i)
    BY <2>1
  <2>3. i \in DOMAIN s[b].items /\ i \in Nat
    BY <1>1 DEF Fns
  <2> QED BY <2>2, <2>3, BesidePlaces
<1>6. ASSUME NEW y \in Later(s, n)
      PROVE  /\ y \in Seq(Nat) /\ \E b \in 1..n : \E i \in Nat : s[b].i < i /\ y = Beside(s, b, i)
  <2>1. PICK b \in 1..n : \E i \in Fns(s[b]) : i > s[b].i /\ y = Beside(s, b, i)
    BY DEF Later
  <2>2. PICK i \in Fns(s[b]) : i > s[b].i /\ y = Beside(s, b, i)
    BY <2>1
  <2>3. i \in DOMAIN s[b].items /\ i \in Nat
    BY <1>1 DEF Fns
  <2>4. s[b].i < i
    BY <1>1, <2>2, <2>3
  <2> QED BY <2>2, <2>3, <2>4, BesidePlaces
<1>7. ASSUME NEW x \in Sooner(s, n) PROVE <<x, p>> \in WrittenBefore
  <2>1. PICK b \in 1..n : \E i \in Nat : i < s[b].i /\ x = Beside(s, b, i)
    BY <1>5
  <2>2. PICK i \in Nat : i < s[b].i /\ x = Beside(s, b, i)
    BY <2>1
  <2>3. b = n \/ b < n
    BY <1>1
  <2>4. Precedes(x, p)
    BY <1>1, <1>3, <2>2, <2>3, BesideOrder
  <2> QED BY <1>4, <1>5, <2>4 DEF WrittenBefore
<1>8. ASSUME NEW y \in Later(s, n) PROVE <<p, y>> \in WrittenBefore
  <2>1. PICK b \in 1..n : \E i \in Nat : s[b].i < i /\ y = Beside(s, b, i)
    BY <1>6
  <2>2. PICK i \in Nat : s[b].i < i /\ y = Beside(s, b, i)
    BY <2>1
  <2>3. b = n \/ b < n
    BY <1>1
  <2>4. Precedes(p, y)
    BY <1>1, <1>3, <2>2, <2>3, BesideOrder
  <2> QED BY <1>4, <1>6, <2>4 DEF WrittenBefore
<1>9. ASSUME NEW x \in Sooner(s, n), NEW y \in Later(s, n) PROVE <<x, y>> \in WrittenBefore
  <2>1. PICK b \in 1..n : \E i \in Nat : i < s[b].i /\ x = Beside(s, b, i)
    BY <1>5
  <2>2. PICK i \in Nat : i < s[b].i /\ x = Beside(s, b, i)
    BY <2>1
  <2>3. PICK d \in 1..n : \E j \in Nat : s[d].i < j /\ y = Beside(s, d, j)
    BY <1>6
  <2>4. PICK j \in Nat : s[d].i < j /\ y = Beside(s, d, j)
    BY <2>3
  <2>5. b \in Nat /\ d \in Nat /\ s[b].i \in Nat /\ s[d].i \in Nat
    BY <1>1
  <2>6. b = d \/ b < d \/ d < b
    BY <2>5
  <2>7. b = d => i < j
    BY <2>2, <2>4, <2>5
  <2>8. Precedes(x, y)
    BY <2>2, <2>4, <2>6, <2>7, BesideOrder
  <2> QED BY <1>5, <1>6, <2>8 DEF WrittenBefore
<1> DEFINE core == (Before(f) \o <<e>>) \o After(f)
<1>10. /\ Before(f) \in Seq(Executables) /\ After(f) \in Seq(Executables) /\ <<e>> \in Seq(Executables)
       /\ Before(f) \o <<e>> \in Seq(Executables) /\ core \in Seq(Executables)
  <2>1. f \in Levels
    BY <1>1
  <2>2. f.pre \in Seq(Executables) /\ f.preLevel \in Seq(Executables) /\ f.post \in Seq(Executables) /\ f.postLevel \in Seq(Executables)
    BY <2>1 DEF Levels
  <2>3. Before(f) \in Seq(Executables) /\ After(f) \in Seq(Executables) /\ <<e>> \in Seq(Executables)
    BY <2>2 DEF Before, After
  <2> QED BY <2>3
<1>11. /\ Spells(Before(f), Sooner(s, n), PlaceIds(tree), WrittenBefore)
       /\ Spells(After(f), Later(s, n), PlaceIds(tree), WrittenBefore)
  BY <1>1, BeforeSpells
<1>12. Spells(<<e>>, {p}, PlaceIds(tree), WrittenBefore)
  <2>1. e.id = PlaceIds(tree)[p]
    BY <1>2 DEF PlaceIds
  <2> QED BY <2>1, SpellsOne
<1>13. Spells(Before(f) \o <<e>>, Sooner(s, n) \cup {p}, PlaceIds(tree), WrittenBefore)
  BY <1>7, <1>10, <1>11, <1>12, SpellsBoth
<1>14. Spells(core, (Sooner(s, n) \cup {p}) \cup Later(s, n), PlaceIds(tree), WrittenBefore)
  <2>1. \A x \in Sooner(s, n) \cup {p}, y \in Later(s, n) : <<x, y>> \in WrittenBefore
    BY <1>8, <1>9
  <2> QED BY <1>10, <1>11, <1>13, <2>1, SpellsBoth
<1> HIDE DEF core
<1> DEFINE A == Around(tree, p)
<1>15. PICK g \in Seq(A) : Enumerates(g, core, A, PlaceIds(tree), WrittenBefore)
  BY <1>2, <1>14 DEF Spells
<1>16. A \in SUBSET Seq(Nat) /\ A \in SUBSET Places(tree)
  <2>1. A \in SUBSET Places(tree)
    BY <1>2 DEF Around
  <2> QED BY <2>1, PlacesAre
<1> HIDE DEF A
<1>17. Len(g) = Len(core) /\ Len(g) \in Nat /\ \A k \in 1..Len(g) : g[k] \in A
  BY <1>15 DEF Enumerates
<1>18. \A j, k \in 1..Len(g) : j < k => Precedes(g[j], g[k])
  BY <1>15, <1>17 DEF Enumerates, WrittenBefore
<1>19. \A x \in A : \E k \in 1..Len(g) : g[k] = x
  BY <1>15, <1>17 DEF Enumerates
<1>20. Cardinality(A) = Len(g) /\ \A k \in 1..Len(g) : Nth(A, k) = g[k]
  BY <1>16, <1>18, <1>19, NthEnumerated
<1>21. \A k \in 1..Len(g) : At(tree, Nth(A, k)).id = core[k].id
  <2> SUFFICES ASSUME NEW k \in 1..Len(g) PROVE At(tree, Nth(A, k)).id = core[k].id
    OBVIOUS
  <2>1. core[k].id = PlaceIds(tree)[g[k]]
    BY <1>15, <1>17 DEF Enumerates
  <2>2. PlaceIds(tree)[g[k]] = At(tree, g[k]).id
    BY <1>16, <1>17 DEF PlaceIds
  <2> QED BY <1>20, <2>1, <2>2
<1>22. Written(tree, p) = [k \in 1..Len(g) |-> At(tree, Nth(A, k)).id]
  BY <1>20 DEF Written, A
<1>23. IdSeq(core) = [k \in 1..Len(g) |-> core[k].id]
  BY <1>10, <1>17 DEF IdSeq
<1>24. IdSeq(core) = Written(tree, p)
  BY <1>21, <1>22, <1>23
<1> QED BY <1>2, <1>24 DEF core
-----------------------------------------------------------------------------
(***************************************************************************)
(* A route's chain is as it is written in its tree.                        *)
(***************************************************************************)

\* What was collected so far is called as what is to be collected.
Follows(fns, items) ==
  Len(fns) <= Len(items) /\ \A k \in 1..Len(fns) : fns[k].id = items[k].id

\* All of it was.
Collected(fns, items) == Len(fns) = Len(items) /\ Follows(fns, items)

\* The middleFns of a level that the walk has been at are around its entry.
Scanning(f) ==
  /\ Spells(f.preLevel, {j \in Fns(f) : j < f.i /\ j < f.next}, EntryIds(f), Less)
  /\ Spells(f.postLevel, {j \in Fns(f) : j > f.i /\ j < f.next}, EntryIds(f), Less)

\* The executable of a level is its entry's; a route between two routes finds its lists complete.
LevelRight(f) ==
  /\ f.own # None =>
       /\ f.own.id = f.items[f.i].id /\ f.own.kind = f.items[f.i].kind
       /\ f.own.kind = "group" => f.own = f.items[f.i]
       /\ Scanning(f)
  /\ f.own = None /\ BetweenRoutes(f) => Complete(f)

\* Where a walk is in its tree.
OnWay(q, tree) ==
  /\ Nested(q.stack, tree)
  /\ \A k \in DOMAIN q.stack : LevelRight(q.stack[k]) /\ (k < Len(q.stack) => Siblings(q.stack[k]) = {})
  /\ q.wait = "tick" /\ q.held = None => Level(q).own # None /\ Siblings(Level(q)) = {}

\* What a call has collected is what the definitions and the tree say.
Traces(c) ==
  /\ reg[c].held # None => Wanted(c) # None /\ reg[c].held.id = Wanted(c).id
  /\ reg[c].phase = "start" => Follows(reg[c].got, startDef)
  /\ reg[c].phase = "end" => Follows(reg[c].got, endDef)
  /\ reg[c].phase \in {"end", "walk"} => Collected(startFns, startDef)
  /\ reg[c].phase = "walk" => Collected(endFns, endDef) /\ OnWay(reg[c], Trees[c][reg[c].n])

Traced ==
  /\ Kept /\ ChainAsWritten
  /\ \A c \in Calls : Active(reg[c]) => Traces(c)
  /\ ~initialized => Registered = {}

\* Having looked at no sibling, or only at ones that are no middleFns.
LEMMA NothingScanned ==
  ASSUME NEW f \in Levels, f.next = 1, f.preLevel = <<>>, f.postLevel = <<>>
  PROVE  Scanning(f)
<1>1. \A j \in Fns(f) : j \in Nat /\ ~(j < 1)
  <2>1. f.items \in Seq(Items)
    BY DEF Levels
  <2> QED BY <2>1 DEF Fns
<1>2. {j \in Fns(f) : j < f.i /\ j < f.next} = {} /\ {j \in Fns(f) : j > f.i /\ j < f.next} = {}
  BY <1>1
<1> QED BY <1>2, SpellsNothing DEF Scanning

\* With no sibling left the lists of a level are complete.
LEMMA ScannedComplete ==
  ASSUME NEW f \in Levels, Scanning(f), Siblings(f) = {}
  PROVE  Complete(f)
<1>1. f.items \in Seq(Items) /\ f.i \in Nat /\ f.next \in Nat
  BY DEF Levels
<1>2. ASSUME NEW j \in Fns(f), j # f.i PROVE j < f.next
  <2>1. j \in DOMAIN f.items /\ IsMiddleFn(f.items[j]) /\ j \notin Siblings(f)
    BY DEF Fns
  <2>2. j \notin f.next .. Len(f.items)
    BY <1>2, <2>1 DEF Siblings
  <2> QED BY <1>1, <2>1, <2>2
<1>3. \A j \in Fns(f) : j \in Nat
  BY <1>1 DEF Fns
<1>4. {j \in Fns(f) : j < f.i /\ j < f.next} = {j \in Fns(f) : j < f.i}
  BY <1>1, <1>2, <1>3
<1>5. {j \in Fns(f) : j > f.i /\ j < f.next} = {j \in Fns(f) : j > f.i}
  BY <1>1, <1>2, <1>3
<1> QED BY <1>4, <1>5 DEF Scanning, Complete

\* A level whose lists are complete has been at all of its items.
LEMMA CompleteScanned ==
  ASSUME NEW f \in Levels, Complete(f), f.next = Len(f.items) + 1
  PROVE  Scanning(f)
<1>1. f.items \in Seq(Items)
  BY DEF Levels
<1>2. \A j \in Fns(f) : j < f.next
  BY <1>1 DEF Fns
<1>4. {j \in Fns(f) : j < f.i /\ j < f.next} = {j \in Fns(f) : j < f.i}
  BY <1>2
<1>5. {j \in Fns(f) : j > f.i /\ j < f.next} = {j \in Fns(f) : j > f.i}
  BY <1>2
<1> QED BY <1>4, <1>5 DEF Scanning, Complete

\* The middleFns before and after a route are those before and after the route next to it.
LEMMA NextRoute ==
  ASSUME NEW f \in Levels, Complete(f), NEW g \in Levels, g.items = f.items, g.i = f.i + 1,
         g.preLevel = f.preLevel, g.postLevel = f.postLevel,
         f.items[f.i].kind = "route", g.items[g.i].kind = "route"
  PROVE  Complete(g)
<1>1. f.items \in Seq(Items) /\ f.i \in Nat
  BY DEF Levels
<1>2. Fns(g) = Fns(f) /\ EntryIds(g) = EntryIds(f)
  BY DEF Fns, EntryIds
<1>3. \A j \in Fns(f) : j \in Nat /\ j # f.i /\ j # f.i + 1
  BY <1>1 DEF Fns, IsMiddleFn
<1>4. {j \in Fns(g) : j < g.i} = {j \in Fns(f) : j < f.i}
  BY <1>1, <1>2, <1>3
<1>5. {j \in Fns(g) : j > g.i} = {j \in Fns(f) : j > f.i}
  BY <1>1, <1>2, <1>3
<1> QED BY <1>2, <1>4, <1>5 DEF Complete

\* The next sibling joins the list of its side.
LEMMA SiblingScanned ==
  ASSUME NEW f \in Levels, Scanning(f), Siblings(f) # {}, NEW j, j = Lowest(Siblings(f)),
         NEW e \in Executables, e.id = f.items[j].id,
         NEW g \in Levels, g.items = f.items, g.i = f.i, g.next = j + 1,
         \/ DeclaredBefore(g, j) /\ g.preLevel = Append(f.preLevel, e) /\ g.postLevel = f.postLevel
         \/ ~DeclaredBefore(g, j) /\ g.postLevel = Append(f.postLevel, e) /\ g.preLevel = f.preLevel
  PROVE  Scanning(g)
<1>1. /\ f.items \in Seq(Items) /\ f.i \in Nat /\ f.next \in Nat /\ f.next >= 1
      /\ f.preLevel \in Seq(Executables) /\ f.postLevel \in Seq(Executables)
  BY DEF Levels
<1>2. /\ j \in f.next .. Len(f.items) /\ j # f.i /\ IsMiddleFn(f.items[j])
      /\ \A k \in Siblings(f) : j <= k
  <2>1. Siblings(f) \in SUBSET Nat
    BY <1>1 DEF Siblings
  <2>2. j \in Siblings(f) /\ \A k \in Siblings(f) : j <= k
    BY <2>1, LowestIn
  <2> QED BY <2>2 DEF Siblings
<1>3. j \in Nat /\ j \in DOMAIN f.items /\ j \in Fns(f)
  BY <1>1, <1>2 DEF Fns
<1>4. ASSUME NEW k \in Fns(f), k # f.i PROVE k \in Nat /\ (k < j + 1 <=> k < f.next \/ k = j)
  <2>1. k \in DOMAIN f.items /\ k \in Nat /\ IsMiddleFn(f.items[k])
    BY <1>1 DEF Fns
  <2>2. k < f.next \/ k \in Siblings(f)
    BY <1>1, <1>4, <2>1 DEF Siblings
  <2> QED BY <1>1, <1>2, <1>3, <2>1, <2>2
<1>5. Fns(g) = Fns(f) /\ EntryIds(g) = EntryIds(f) /\ EntryIds(f)[j] = f.items[j].id
  BY <1>3 DEF Fns, EntryIds
<1> DEFINE Pre == {k \in Fns(f) : k < f.i /\ k < f.next}
<1> DEFINE Post == {k \in Fns(f) : k > f.i /\ k < f.next}
<1>6. \A k \in Pre \cup Post : <<k, j>> \in Less
  BY <1>1, <1>2, <1>3, <1>4 DEF Less
<1>7. Spells(<<e>>, {j}, EntryIds(f), Less)
  BY <1>5, SpellsOne
<1>8. <<e>> \in Seq(Executables)
  OBVIOUS
<1>a. ASSUME NEW k \in Fns(f)
      PROVE  /\ (k < f.i /\ k < j + 1) <=> (k < f.i /\ k < f.next) \/ (j < f.i /\ k = j)
             /\ (k > f.i /\ k < j + 1) <=> (k > f.i /\ k < f.next) \/ (~(j < f.i) /\ k = j)
  <2>1. CASE k = f.i
    BY <1>1, <1>2, <2>1
  <2>2. CASE k # f.i
    <3>1. k \in Nat /\ (k < j + 1 <=> k < f.next \/ k = j)
      BY <1>4, <2>2
    <3> QED BY ONLY <1>1, <1>2, <1>3, <2>2, <3>1
  <2> QED BY <2>1, <2>2
<1>b. Append(f.preLevel, e) = f.preLevel \o <<e>> /\ Append(f.postLevel, e) = f.postLevel \o <<e>>
  BY <1>1, AppendIsConcat
<1>9. CASE j < f.i
  <2>1. {k \in Fns(g) : k < g.i /\ k < g.next} = Pre \cup {j}
    BY <1>3, <1>5, <1>9, <1>a
  <2>2. {k \in Fns(g) : k > g.i /\ k < g.next} = Post
    BY <1>5, <1>9, <1>a
  <2>3. g.preLevel = Append(f.preLevel, e) /\ g.postLevel = f.postLevel
    BY <1>9 DEF DeclaredBefore
  <2>5. Spells(f.preLevel, Pre, EntryIds(f), Less) /\ Spells(f.postLevel, Post, EntryIds(f), Less)
    BY DEF Scanning
  <2> HIDE DEF Pre, Post
  <2>6. Spells(f.preLevel \o <<e>>, Pre \cup {j}, EntryIds(f), Less)
    BY <1>1, <1>6, <1>7, <1>8, <2>5, SpellsBoth
  <2> QED BY <1>5, <1>b, <2>1, <2>2, <2>3, <2>5, <2>6 DEF Scanning
<1>10. CASE ~(j < f.i)
  <2>1. {k \in Fns(g) : k < g.i /\ k < g.next} = Pre
    BY <1>5, <1>10, <1>a
  <2>2. {k \in Fns(g) : k > g.i /\ k < g.next} = Post \cup {j}
    BY <1>3, <1>5, <1>10, <1>a
  <2>3. g.postLevel = Append(f.postLevel, e) /\ g.preLevel = f.preLevel
    BY <1>10 DEF DeclaredBefore
  <2>5. Spells(f.preLevel, Pre, EntryIds(f), Less) /\ Spells(f.postLevel, Post, EntryIds(f), Less)
    BY DEF Scanning
  <2> HIDE DEF Pre, Post
  <2>6. Spells(f.postLevel \o <<e>>, Post \cup {j}, EntryIds(f), Less)
    BY <1>1, <1>6, <1>7, <1>8, <2>5, SpellsBoth
  <2> QED BY <1>5, <1>b, <2>1, <2>2, <2>3, <2>5, <2>6 DEF Scanning
<1> QED BY <1>9, <1>10

\* Changing the level a walk stands at leaves it on its way.
LEMMA TopOnWay ==
  ASSUME NEW tree, NEW p \in CallRecords, OnWay(p, tree), NEW q \in CallRecords,
         DOMAIN q.stack = DOMAIN p.stack, Len(q.stack) = Len(p.stack),
         \A k \in DOMAIN p.stack : k # Len(p.stack) => q.stack[k] = p.stack[k],
         NEW f \in Levels, Level(q) = f, f.items = Level(p).items, f.pre = Level(p).pre, f.post = Level(p).post,
         f.i \in DOMAIN f.items, LevelRight(f), q.wait # "tick" \/ q.held # None
  PROVE  OnWay(q, tree)
<1>1. /\ Nested(p.stack, tree)
      /\ \A k \in DOMAIN p.stack : LevelRight(p.stack[k]) /\ (k < Len(p.stack) => Siblings(p.stack[k]) = {})
  BY DEF OnWay
<1>2. Len(p.stack) \in Nat /\ Len(p.stack) >= 1 /\ DOMAIN p.stack = 1..Len(p.stack)
  BY <1>1, NestedLevels
<1> DEFINE n == Len(p.stack)
<1>3. q.stack \in Seq(Levels) /\ q.stack # <<>>
  <2>1. q.stack \in Seq(Levels)
    BY DEF CallRecords
  <2> QED BY <1>2, <2>1
<1>4. q.stack[n] = f /\ p.stack[n] = Level(p) /\ Len(q.stack) = n /\ DOMAIN q.stack = 1..n
  BY <1>2 DEF Level
<1>5. ASSUME NEW k \in 1..n
      PROVE  /\ q.stack[k].items = p.stack[k].items /\ q.stack[k].pre = p.stack[k].pre
             /\ q.stack[k].post = p.stack[k].post /\ q.stack[k].i \in DOMAIN q.stack[k].items
             /\ LevelRight(q.stack[k])
             /\ k < n => q.stack[k] = p.stack[k] /\ Siblings(q.stack[k]) = {}
  <2>1. CASE k = n
    BY <1>2, <1>4, <2>1
  <2>2. CASE k # n
    BY <1>1, <1>2, <2>2 DEF Nested
  <2> QED BY <2>1, <2>2
<1>6. 1 \in 1..n /\ \A k \in 1..n : k < n => k + 1 \in 1..n
  BY <1>2
<1>7. Nested(q.stack, tree)
  <2>1. /\ Len(q.stack) <= MaxNesting + 1
        /\ q.stack[1].items = tree /\ q.stack[1].pre = <<>> /\ q.stack[1].post = <<>>
    BY <1>1, <1>4, <1>5, <1>6 DEF Nested
  <2>2. ASSUME NEW k \in DOMAIN q.stack, k < Len(q.stack)
        PROVE  /\ q.stack[k].items[q.stack[k].i].kind = "group"
               /\ q.stack[k + 1].items = q.stack[k].items[q.stack[k].i].sub
               /\ q.stack[k + 1].pre = Before(q.stack[k]) /\ q.stack[k + 1].post = After(q.stack[k])
    <3>1. k \in 1..n /\ k < n /\ k + 1 \in 1..n /\ k \in DOMAIN p.stack
      BY <1>2, <1>4, <1>6, <2>2
    <3>2. q.stack[k] = p.stack[k]
      BY <1>5, <3>1
    <3>3. q.stack[k + 1].items = p.stack[k + 1].items /\ q.stack[k + 1].pre = p.stack[k + 1].pre /\ q.stack[k + 1].post = p.stack[k + 1].post
      BY <1>5, <3>1
    <3>4. /\ p.stack[k].items[p.stack[k].i].kind = "group"
          /\ p.stack[k + 1].items = p.stack[k].items[p.stack[k].i].sub
          /\ p.stack[k + 1].pre = Before(p.stack[k]) /\ p.stack[k + 1].post = After(p.stack[k])
      BY <1>1, <3>1 DEF Nested
    <3> QED BY <3>2, <3>3, <3>4
  <2> QED BY <1>3, <1>4, <1>5, <2>1, <2>2 DEF Nested
<1> QED BY <1>4, <1>5, <1>7 DEF OnWay

\* A collection begins with nothing.
LEMMA FollowsNothing == ASSUME NEW items, items \in Seq(MiddleFnItems) PROVE Follows(<<>>, items)
<1>1. Len(<<>>) = 0 /\ 1..0 = {} /\ Len(items) \in Nat
  OBVIOUS
<1> QED BY <1>1 DEF Follows

\* One more follows.
LEMMA FollowsOn ==
  ASSUME NEW got \in Seq(Executables), NEW items \in Seq(MiddleFnItems), Follows(got, items),
         Len(got) < Len(items), NEW e \in Executables, e.id = items[Len(got) + 1].id
  PROVE  Follows(Append(got, e), items)
<1> DEFINE a == Append(got, e)
<1>1. /\ Len(got) \in Nat /\ Len(items) \in Nat /\ Len(a) = Len(got) + 1
      /\ a[Len(got) + 1] = e /\ \A k \in 1..Len(got) : a[k] = got[k]
  BY AppendProperties
<1> HIDE DEF a
<1>2. ASSUME NEW k \in 1..Len(a) PROVE a[k].id = items[k].id
  <2>1. CASE k = Len(got) + 1
    BY <1>1, <2>1
  <2>2. CASE k # Len(got) + 1
    <3>1. k \in 1..Len(got)
      BY <1>1, <2>2
    <3> QED BY <1>1, <3>1 DEF Follows
  <2> QED BY <2>1, <2>2
<1>3. Len(a) <= Len(items)
  BY <1>1
<1> QED BY <1>2, <1>3 DEF Follows, a

\* A step of one call that files no chain.
LEMMA OneTraced ==
  ASSUME Traced, Kept', NEW c \in Calls, NEW q, Become(c, q), UNCHANGED <<startDef, endDef, flat>>,
         initialized => initialized',
         startFns' = startFns \/ Collected(startFns', startDef),
         endFns' = endFns \/ Collected(endFns', endDef),
         Active(q) => Traces(c)'
  PROVE  Traced'
<1>1. reg'[c] = q /\ \A d \in Calls : d # c => reg'[d] = reg[d]
  BY BecomeFacts DEF Traced
<1>2. Registered' = Registered
  BY DEF Registered
<1>3. ChainAsWritten'
  BY <1>2 DEF Traced, ChainAsWritten, RouteOf
<1>4. ASSUME NEW d \in Calls, Active(reg'[d]) PROVE Traces(d)'
  <2>1. CASE d = c
    BY <1>1, <1>4, <2>1
  <2>2. CASE d # c
    <3>1. reg'[d] = reg[d] /\ Traces(d)
      BY <1>1, <1>4, <2>2 DEF Traced
    <3>2. Wanted(d)' = Wanted(d)
      BY <3>1, WantedKept
    <3>3. /\ reg[d].phase \in {"end", "walk"} => Collected(startFns', startDef)
          /\ reg[d].phase = "walk" => Collected(endFns', endDef)
      BY <3>1 DEF Traces
    <3> QED BY <3>1, <3>2, <3>3 DEF Traces
  <2> QED BY <2>1, <2>2
<1>5. ~initialized' => Registered' = {}
  BY <1>2 DEF Traced
<1> QED BY <1>3, <1>4, <1>5 DEF Traced

\* A call that has failed traces nothing.
LEMMA FailTraced ==
  ASSUME Traced, Kept', NEW c \in Calls, Fail(c), initialized => initialized',
         UNCHANGED <<startDef, endDef, flat, startFns, endFns>>
  PROVE  Traced'
<1>1. PICK q \in CallRecords : Become(c, q) /\ ~Active(q)
  BY Failed DEF Traced
<1> QED BY <1>1, OneTraced

\* A call that stays where it is, and asks for an executable or has it.
LEMMA AskingTraced ==
  ASSUME Traced, Kept', NEW c \in Calls, NEW q \in CallRecords, Become(c, q), Active(reg[c]),
         q.phase = reg[c].phase, q.stack = reg[c].stack, q.got = reg[c].got, q.n = reg[c].n,
         UNCHANGED <<startDef, endDef, initialized, flat, startFns, endFns>>,
         q.held # None => Wanted(c) # None /\ q.held.id = Wanted(c).id,
         q.phase = "walk" /\ q.wait = "tick" /\ q.held = None => Level(q).own # None /\ Siblings(Level(q)) = {}
  PROVE  Traced'
<1>1. reg'[c] = q
  BY BecomeFacts DEF Traced
<1>2. Wanted(c)' = Wanted(c)
  BY <1>1, WantedKept
<1>3. Traces(c)
  BY DEF Traced
<1>4. reg[c].phase = "walk" => OnWay(q, Trees[c][q.n])
  BY <1>3 DEF Traces, OnWay
<1>5. Traces(c)'
  BY <1>1, <1>2, <1>3, <1>4 DEF Traces
<1> QED BY <1>5, OneTraced

\* A walk that goes on with nothing in its hands.
LEMMA WalkTraced ==
  ASSUME Traced, Kept', NEW c \in Calls, NEW q \in CallRecords, Become(c, q), Active(reg[c]), reg[c].phase = "walk",
         q.phase = "walk", q.held = None, q.n = reg[c].n, OnWay(reg[c], Trees[c][reg[c].n]) => OnWay(q, Trees[c][q.n]),
         UNCHANGED <<startDef, endDef, initialized, flat, startFns, endFns>>
  PROVE  Traced'
<1>1. reg'[c] = q
  BY BecomeFacts DEF Traced
<1>2. Traces(c)
  BY DEF Traced
<1>3. Traces(c)'
  BY <1>1, <1>2 DEF Traces
<1> QED BY <1>3, OneTraced

\* What a walk that is on its way says of its level.
LEMMA WayFacts ==
  ASSUME Traced, NEW c \in Calls, Active(reg[c]), reg[c].phase = "walk"
  PROVE  /\ OnWay(reg[c], Trees[c][reg[c].n]) /\ LevelRight(Level(reg[c]))
         /\ Trees[c][reg[c].n] \in Seq(Items)
<1>1. OnWay(reg[c], Trees[c][reg[c].n])
  BY DEF Traced, Traces
<1>2. Len(reg[c].stack) \in DOMAIN reg[c].stack
  BY WalkFacts DEF Traced
<1>3. LevelRight(Level(reg[c]))
  BY <1>1, <1>2 DEF OnWay, Level
<1>4. reg[c].n \in DOMAIN Trees[c]
  BY CallFacts DEF Traced
<1> QED BY <1>1, <1>3, <1>4, TreesAssumption

\* initRouter and registerRoutes are called.
LEMMA CallTraced == ASSUME Traced, Kept', NEW c \in Calls, Call(c) PROVE Traced'
<1>a. Kept
  BY DEF Traced
<1>1. UNCHANGED <<startDef, endDef, flat, startFns, endFns>> /\ (initialized => initialized')
  BY <1>a, CallFacts DEF Call, setup, registry
<1>2. PICK q \in CallRecords :
        /\ Become(c, q) /\ q.held = None
        /\ \/ q.wait = "failed"
           \/ q.wait = "run" /\ q.got = <<>> /\ q.phase = "start"
  BY <1>a, Called
<1>3. reg'[c] = q
  BY <1>a, <1>2, BecomeFacts
<1>4. Active(q) => Traces(c)'
  <2> SUFFICES ASSUME Active(q) PROVE Traces(c)'
    OBVIOUS
  <2>1. q.got = <<>> /\ q.phase = "start"
    BY <1>2 DEF Active
  <2>2. Follows(q.got, startDef)
    BY <1>a, <2>1, FollowsNothing DEF Kept, RegistryTypes
  <2> QED BY <1>1, <1>2, <1>3, <2>1, <2>2 DEF Traces
<1> QED BY <1>1, <1>2, <1>4, OneTraced

\* What was looked up, or made, is what was asked for.
LEMMA LookupTraced == ASSUME Traced, Kept', NEW c \in Calls, Lookup(c) PROVE Traced'
<1>1. PICK q \in CallRecords :
        /\ Become(c, q) /\ q.phase = reg[c].phase /\ q.stack = reg[c].stack /\ q.got = reg[c].got /\ q.n = reg[c].n
        /\ \/ q.wait = "tick" /\ q.held \in Executables /\ q.held.id = Wanted(c).id
           \/ q.wait = "reflect" /\ q.held = None
  BY LookedUp DEF Traced
<1>2. Active(reg[c]) /\ Wanted(c) # None /\ UNCHANGED <<startDef, endDef, initialized, flat, startFns, endFns>>
  BY LookedUp DEF Traced, setup, registry
<1>3. q.wait = "tick" => q.held # None
  BY <1>1, Distinct
<1> QED BY <1>1, <1>2, <1>3, AskingTraced

\* getHandlerReflection has resolved.
LEMMA ReflectedTraced == ASSUME Traced, Kept', NEW c \in Calls, Reflected(c) PROVE Traced'
<1>1. PICK q \in CallRecords, made \in Executables :
        /\ Become(c, q) /\ q.phase = reg[c].phase /\ q.stack = reg[c].stack /\ q.got = reg[c].got /\ q.n = reg[c].n
        /\ q.held = made /\ made.id = Wanted(c).id
  BY MadeAndFiled DEF Traced
<1>2. Active(reg[c]) /\ Wanted(c) # None /\ UNCHANGED <<startDef, endDef, initialized, flat, startFns, endFns>>
  BY MadeAndFiled DEF Traced, setup
<1>3. q.held # None
  BY <1>1, Distinct
<1> QED BY <1>1, <1>2, <1>3, AskingTraced

\* One more of the start or end middleFns.
LEMMA ReceiveOuterTraced == ASSUME Traced, Kept', NEW c \in Calls, ReceiveOuter(c) PROVE Traced'
<1>a. Kept
  BY DEF Traced
<1>1. PICK q \in CallRecords :
        /\ Become(c, q) /\ q.phase = reg[c].phase
        /\ q.got = Append(reg[c].got, reg[c].held) /\ q.held = None
  BY <1>a, OuterReceived
<1>2. /\ Active(reg[c]) /\ reg[c].held \in Executables /\ reg[c].got \in Seq(Executables)
      /\ UNCHANGED <<startDef, endDef, initialized, flat, startFns, endFns>>
  BY <1>a, OuterReceived DEF setup, registry
<1>3. reg[c].phase \in {"start", "end"}
  BY DEF ReceiveOuter
<1>4. reg'[c] = q /\ Traces(c)
  BY <1>a, <1>1, <1>2, BecomeFacts DEF Traced
<1>5. Wanted(c) # None /\ reg[c].held.id = Wanted(c).id
  BY <1>2, <1>4, Distinct DEF Traces
<1>6. startDef \in Seq(MiddleFnItems) /\ endDef \in Seq(MiddleFnItems)
  BY <1>a DEF Kept, RegistryTypes
<1>7. reg[c].phase = "start" => Follows(q.got, startDef)
  <2> SUFFICES ASSUME reg[c].phase = "start" PROVE Follows(q.got, startDef)
    OBVIOUS
  <2>1. Len(reg[c].got) < Len(startDef) /\ Wanted(c) = startDef[Len(reg[c].got) + 1]
    BY <1>5 DEF Wanted
  <2> QED BY <1>1, <1>2, <1>4, <1>5, <1>6, <2>1, FollowsOn DEF Traces
<1>8. reg[c].phase = "end" => Follows(q.got, endDef)
  <2> SUFFICES ASSUME reg[c].phase = "end" PROVE Follows(q.got, endDef)
    OBVIOUS
  <2>1. Len(reg[c].got) < Len(endDef) /\ Wanted(c) = endDef[Len(reg[c].got) + 1]
    BY <1>5 DEF Wanted
  <2> QED BY <1>1, <1>2, <1>4, <1>5, <1>6, <2>1, FollowsOn DEF Traces
<1>9. Traces(c)'
  BY <1>1, <1>2, <1>3, <1>4, <1>7, <1>8 DEF Traces
<1> QED BY <1>1, <1>2, <1>9, OneTraced

\* A collection that asks for no more is the whole.
LEMMA AllCollected ==
  ASSUME NEW got \in Seq(Executables), NEW items \in Seq(MiddleFnItems), Follows(got, items),
         (IF Len(got) < Len(items) THEN items[Len(got) + 1] ELSE None) = None
  PROVE  Collected(got, items)
<1>1. Len(got) \in Nat /\ Len(items) \in Nat /\ Len(got) <= Len(items)
  BY DEF Follows
<1>2. ~(Len(got) < Len(items))
  <2> SUFFICES ASSUME Len(got) < Len(items) PROVE FALSE
    OBVIOUS
  <2>1. items[Len(got) + 1] \in MiddleFnItems
    BY <1>1
  <2> QED BY <2>1, Distinct
<1> QED BY <1>1, <1>2 DEF Collected

\* StartReady
LEMMA StartReadyTraced == ASSUME Traced, Kept', NEW c \in Calls, StartReady(c) PROVE Traced'
<1>a. Kept
  BY DEF Traced
<1>1. PICK q \in CallRecords :
        /\ Become(c, q) /\ q.phase = "end" /\ q.got = <<>> /\ q.held = None
        /\ reg[c].got \in Seq(Executables) /\ startFns' = reg[c].got /\ Active(reg[c]) /\ reg[c].phase = "start"
        /\ UNCHANGED <<startDef, endDef, initialized, flat, endFns>>
  BY <1>a, StartCollected DEF setup
<1>2. reg'[c] = q /\ Traces(c) /\ startDef \in Seq(MiddleFnItems) /\ endDef \in Seq(MiddleFnItems)
  BY <1>a, <1>1, BecomeFacts DEF Traced, Kept, RegistryTypes
<1>3. Wanted(c) = None
  BY DEF StartReady
<1>4. Collected(startFns', startDef)
  BY <1>1, <1>2, <1>3, AllCollected DEF Wanted, Traces
<1>5. Follows(q.got, endDef)
  BY <1>1, <1>2, FollowsNothing
<1>6. Traces(c)'
  BY <1>1, <1>2, <1>4, <1>5 DEF Traces
<1> QED BY <1>1, <1>4, <1>6, OneTraced

\* EndReady: the walk begins at the first entry of the tree.
LEMMA EndReadyTraced == ASSUME Traced, Kept', NEW c \in Calls, EndReady(c) PROVE Traced'
<1>a. Kept
  BY DEF Traced
<1>1. /\ endFns' = reg[c].got /\ Active(reg[c]) /\ reg[c].phase = "end" /\ reg[c].got \in Seq(Executables)
      /\ UNCHANGED <<startDef, endDef, initialized, flat, startFns>>
  BY <1>a, WalkBegun DEF setup
<1>2. Traces(c) /\ startDef \in Seq(MiddleFnItems) /\ endDef \in Seq(MiddleFnItems)
  BY <1>a, <1>1 DEF Traced, Kept, RegistryTypes
<1>3. Wanted(c) = None
  BY DEF EndReady
<1>4. Collected(endFns', endDef)
  BY <1>1, <1>2, <1>3, AllCollected DEF Wanted, Traces
<1>5. CASE Fail(c)
  <2>1. PICK q \in CallRecords : Become(c, q) /\ ~Active(q)
    BY <1>a, <1>5, Failed
  <2> QED BY <1>1, <1>4, <2>1, OneTraced
<1>6. CASE ~Fail(c)
  <2>1. PICK q \in CallRecords, f \in Levels :
          /\ Become(c, q) /\ q.n = reg[c].n /\ q.wait = "run" /\ q.phase = "walk"
          /\ q.held = None /\ q.stack = <<f>> /\ f.own = None /\ f.pre = <<>> /\ f.post = <<>>
          /\ f.i = 1 /\ f.items = Trees[c][reg[c].n] /\ f.items # <<>>
    BY <1>a, <1>6, WalkBegun
  <2> DEFINE s == <<f>>
  <2>2. s \in Seq(Levels) /\ Len(s) = 1 /\ s[1] = f /\ DOMAIN s = {1} /\ s # <<>> /\ ~(1 < 1)
    OBVIOUS
  <2>3. f.items \in Seq(Items)
    BY DEF Levels
  <2>4. 1 \in DOMAIN f.items /\ 1 <= MaxNesting + 1
    BY <2>1, <2>3, RegistryAssumption
  <2>5. q.stack = s
    BY <2>1
  <2> HIDE DEF s
  <2>6. Nested(q.stack, Trees[c][q.n])
    BY <2>1, <2>2, <2>4, <2>5 DEF Nested
  <2>7. LevelRight(f)
    BY <2>1 DEF LevelRight, BetweenRoutes
  <2>8. OnWay(q, Trees[c][q.n])
    BY <2>1, <2>2, <2>5, <2>6, <2>7 DEF OnWay
  <2>9. reg'[c] = q
    BY <1>a, <2>1, BecomeFacts
  <2>10. Traces(c)'
    BY <1>1, <1>2, <1>4, <2>1, <2>8, <2>9 DEF Traces
  <2> QED BY <1>1, <1>4, <2>1, <2>10, OneTraced
<1> QED BY <1>5, <1>6

\* ReceiveEntry: the executable is the entry's, and the lists begin anew or are complete.
LEMMA ReceiveEntryTraced == ASSUME Traced, Kept', NEW c \in Calls, ReceiveEntry(c) PROVE Traced'
<1>a. Kept
  BY DEF Traced
<1> DEFINE f == Level(reg[c])
           e == reg[c].held
           g == Entered(f, e)
           q == SetTop([reg[c] EXCEPT !.wait = "run", !.held = None], g)
<1>1. /\ e \in Executables /\ e.id = Entry(c).id /\ e.kind = Entry(c).kind
      /\ AtEntry(reg[c]) /\ Active(reg[c]) /\ reg[c].wait = "tick"
      /\ UNCHANGED <<startDef, endDef, initialized, flat, startFns, endFns>>
  BY <1>a, EntryArrives DEF setup
<1>2. CASE Fail(c)
  BY <1>1, <1>2, FailTraced
<1>3. CASE ~Fail(c)
  <2>1. /\ Become(c, q) /\ q \in CallRecords /\ Level(q) = g
        /\ q.n = reg[c].n /\ q.wait = "run" /\ q.held = None /\ q.phase = "walk"
        /\ DOMAIN q.stack = DOMAIN reg[c].stack /\ Len(q.stack) = Len(reg[c].stack)
        /\ \A k \in DOMAIN reg[c].stack : k # Len(reg[c].stack) => q.stack[k] = reg[c].stack[k]
    BY <1>a, <1>3, EntryArrives
  <2>2. reg[c].phase = "walk" /\ f.own = None
    BY <1>1 DEF AtEntry
  <2>3. f \in Levels /\ AtItem(f) /\ Entry(c) = f.items[f.i] /\ f.i \in DOMAIN f.items
    BY <1>a, <1>1, <2>2, WalkFacts
  <2>4. OnWay(reg[c], Trees[c][reg[c].n]) /\ LevelRight(f)
    BY <1>1, <2>2, WayFacts
  <2>5. e # None /\ e.kind # "group"
    BY <1>1, Distinct DEF ExecKinds
  <2> HIDE DEF f, e, q
  <2>6. /\ g \in Levels /\ g.own = e /\ g.i = f.i /\ g.items = f.items /\ g.pre = f.pre /\ g.post = f.post
    BY <1>1, <2>3, EnteredLevel
  <2>7. /\ BetweenRoutes(f) => g.preLevel = f.preLevel /\ g.postLevel = f.postLevel /\ g.next = Len(f.items) + 1
        /\ ~BetweenRoutes(f) => g.preLevel = <<>> /\ g.postLevel = <<>> /\ g.next = 1
    BY <2>3 DEF Entered, Levels
  <2> HIDE DEF g
  <2>8. Scanning(g)
    <3>1. CASE BetweenRoutes(f)
      <4>1. Complete(f)
        BY <2>2, <2>4, <3>1 DEF LevelRight
      <4>2. Complete(g)
        BY <2>6, <2>7, <3>1, <4>1 DEF Complete, Fns, EntryIds
      <4> QED BY <2>6, <2>7, <3>1, <4>2, CompleteScanned
    <3>2. CASE ~BetweenRoutes(f)
      BY <2>6, <2>7, <3>2, NothingScanned
    <3> QED BY <3>1, <3>2
  <2>9. LevelRight(g)
    BY <1>1, <2>3, <2>5, <2>6, <2>8 DEF LevelRight
  <2>10. OnWay(q, Trees[c][q.n])
    <3>1. reg[c] \in CallRecords
      BY <1>a, CallFacts
    <3> QED BY <2>1, <2>3, <2>4, <2>6, <2>9, <3>1, TopOnWay DEF f
  <2> QED BY <1>1, <2>1, <2>2, <2>10, WalkTraced
<1> QED BY <1>2, <1>3

\* EnterGroup
LEMMA EnterGroupTraced == ASSUME Traced, Kept', NEW c \in Calls, EnterGroup(c) PROVE Traced'
<1>a. Kept
  BY DEF Traced
<1>1. PICK f \in Levels :
        /\ f.own \in Items /\ f.own.kind = "group" /\ AtItem(f)
        /\ f.pre = Level(reg[c]).pre /\ f.post = Level(reg[c]).post /\ f.preLevel = <<>> /\ f.postLevel = <<>>
        /\ f.i = Level(reg[c]).i /\ f.items = Level(reg[c]).items /\ f.own = f.items[f.i] /\ f.next = 1
        /\ Become(c, SetTop(reg[c], f)) /\ AtEntry(reg[c])
        /\ Active(reg[c]) /\ reg[c].wait = "run" /\ reg[c].held = None
        /\ UNCHANGED <<setup, initialized, registry, published>>
  BY <1>a, GroupEntered
<1> DEFINE q == SetTop(reg[c], f)
<1>2. reg[c] \in CallRecords /\ reg[c].phase = "walk"
  BY <1>a, <1>1, CallFacts DEF AtEntry
<1>3. /\ q \in CallRecords /\ Level(q) = f /\ q.n = reg[c].n /\ q.wait = "run" /\ q.held = None /\ q.phase = "walk"
      /\ DOMAIN q.stack = DOMAIN reg[c].stack /\ Len(q.stack) = Len(reg[c].stack)
      /\ \A k \in DOMAIN reg[c].stack : k # Len(reg[c].stack) => q.stack[k] = reg[c].stack[k]
  BY <1>a, <1>1, <1>2, LevelWalks
<1>4. Become(c, q)
  BY <1>1
<1> HIDE DEF q
<1>5. LevelRight(f)
  <2>1. Scanning(f) /\ f.own # None
    BY <1>1, NothingScanned, Distinct
  <2> QED BY <1>1, <2>1 DEF LevelRight
<1>6. f.i \in DOMAIN f.items
  BY <1>1 DEF AtItem
<1>7. OnWay(reg[c], Trees[c][reg[c].n])
  BY <1>1, <1>2, WayFacts
<1>8. OnWay(q, Trees[c][q.n])
  BY <1>1, <1>2, <1>3, <1>5, <1>6, <1>7, TopOnWay
<1>9. UNCHANGED <<startDef, endDef, initialized, flat, startFns, endFns>>
  BY <1>1 DEF setup, registry
<1> QED BY <1>1, <1>2, <1>3, <1>4, <1>8, <1>9, WalkTraced

\* ReceiveSibling
LEMMA ReceiveSiblingTraced == ASSUME Traced, Kept', NEW c \in Calls, ReceiveSibling(c) PROVE Traced'
<1>a. Kept
  BY DEF Traced
<1> DEFINE p == [reg[c] EXCEPT !.wait = "run", !.held = None]
           g == Level(reg[c])
           j == Lowest(Siblings(g))
<1>1. PICK f \in Levels :
        /\ AtItem(f) /\ f.own = g.own /\ f.own # None
        /\ f.pre = g.pre /\ f.post = g.post /\ f.i = g.i /\ f.items = g.items /\ f.next = j + 1
        /\ \/ DeclaredBefore(f, j) /\ f.preLevel = Append(g.preLevel, reg[c].held) /\ f.postLevel = g.postLevel
           \/ ~DeclaredBefore(f, j) /\ f.postLevel = Append(g.postLevel, reg[c].held) /\ f.preLevel = g.preLevel
        /\ Become(c, SetTop(p, f))
        /\ Active(reg[c]) /\ reg[c].wait = "tick" /\ reg[c].held \in Executables /\ reg[c].phase = "walk"
        /\ UNCHANGED <<setup, initialized, registry, published>>
  BY <1>a, SiblingReceived
<1>2. /\ p \in CallRecords /\ p.wait = "run" /\ p.held = None /\ p.n = reg[c].n /\ p.phase = reg[c].phase
      /\ p.stack = reg[c].stack /\ reg[c] \in CallRecords
  BY <1>a, CallFacts, RunsOn
<1>3. g \in Levels /\ Top(c) = g /\ OnWay(reg[c], Trees[c][reg[c].n]) /\ LevelRight(g) /\ Traces(c)
  BY <1>a, <1>1, WalkFacts, WayFacts DEF Traced
<1> HIDE DEF p
<1> DEFINE q == SetTop(p, f)
<1>4. /\ q \in CallRecords /\ Level(q) = f /\ q.n = p.n /\ q.wait = p.wait /\ q.held = None /\ q.phase = "walk"
      /\ DOMAIN q.stack = DOMAIN reg[c].stack /\ Len(q.stack) = Len(reg[c].stack)
      /\ \A k \in DOMAIN reg[c].stack : k # Len(reg[c].stack) => q.stack[k] = reg[c].stack[k]
  BY <1>a, <1>1, <1>2, LevelWalks
<1>5. Become(c, q)
  BY <1>1
<1> HIDE DEF q
<1>6. reg[c].held.id = Wanted(c).id /\ Wanted(c) # None
  BY <1>1, <1>3, Distinct DEF Traces
<1>7. Siblings(g) # {} /\ Wanted(c) = g.items[j]
  BY <1>1, <1>3, <1>6 DEF Wanted
<1> HIDE DEF g, j
<1>8. Scanning(f)
  <2>1. Scanning(g)
    BY <1>1, <1>3 DEF LevelRight
  <2>2. reg[c].held.id = g.items[j].id
    BY <1>6, <1>7
  <2> QED BY <1>1, <1>3, <1>7, <2>1, <2>2, SiblingScanned DEF j
<1>9. LevelRight(f)
  BY <1>1, <1>3, <1>8 DEF LevelRight
<1>10. f.i \in DOMAIN f.items
  BY <1>1 DEF AtItem
<1>11. OnWay(q, Trees[c][q.n])
  BY <1>1, <1>2, <1>3, <1>4, <1>9, <1>10, TopOnWay DEF g
<1>12. UNCHANGED <<startDef, endDef, initialized, flat, startFns, endFns>>
  BY <1>1 DEF setup, registry
<1> QED BY <1>1, <1>2, <1>4, <1>5, <1>11, <1>12, WalkTraced

\* A middleFn is passed when its siblings were scanned.
LEMMA PassMiddleFnTraced == ASSUME Traced, Kept', NEW c \in Calls, PassMiddleFn(c) PROVE Traced'
<1>a. Kept
  BY DEF Traced
<1> DEFINE q == [reg[c] EXCEPT !.wait = "tick"]
<1>1. /\ reg[c] \in CallRecords /\ Walks(reg[c]) /\ reg[c].wait = "run" /\ Active(reg[c]) /\ reg[c].phase = "walk"
      /\ Become(c, q) /\ UNCHANGED <<setup, initialized, registry, published>> /\ Scanned(c)
  BY <1>a, CallFacts DEF PassMiddleFn, Running, Active
<1>2. /\ q \in CallRecords /\ q.wait = "tick" /\ q.held = reg[c].held /\ q.n = reg[c].n /\ q.phase = reg[c].phase
      /\ q.stack = reg[c].stack /\ q.got = reg[c].got
  BY <1>1 DEF CallRecords, Waits
<1> HIDE DEF q
<1>3. reg[c].held = None
  BY <1>1 DEF Walks
<1>4. Level(q).own # None /\ Siblings(Level(q)) = {}
  <2>1. Level(q) = Top(c)
    BY <1>2 DEF Level, Top, Depth
  <2> QED BY <1>1, <2>1 DEF Scanned
<1>5. UNCHANGED <<startDef, endDef, initialized, flat, startFns, endFns>>
  BY <1>1 DEF setup, registry
<1> QED BY <1>1, <1>2, <1>3, <1>4, <1>5, AskingTraced

\* Descend: the group's items are the next level, the lists of this one are around it.
LEMMA DescendTraced == ASSUME Traced, Kept', NEW c \in Calls, Descend(c) PROVE Traced'
<1>a. Kept
  BY DEF Traced
<1>1. /\ Active(reg[c]) /\ reg[c].phase = "walk" /\ Level(reg[c]) \in Levels
      /\ UNCHANGED <<startDef, endDef, initialized, flat, startFns, endFns>>
  BY <1>a, Descended DEF setup, registry
<1>2. CASE Fail(c)
  BY <1>1, <1>2, FailTraced
<1>3. CASE ~Fail(c)
  <2> DEFINE g == Level(reg[c])
             s == reg[c].stack
             n == Len(s)
             tree == Trees[c][reg[c].n]
  <2>1. PICK q \in CallRecords, f \in Levels :
          /\ Become(c, q) /\ q.n = reg[c].n /\ q.wait = "run" /\ q.phase = "walk" /\ q.held = None
          /\ f.own = None /\ Level(q) = f /\ f.pre = Before(g) /\ f.post = After(g)
          /\ f.i = 1 /\ f.items = g.own.sub /\ f.items # <<>>
          /\ n <= MaxNesting /\ q.stack = Append(s, f)
    BY <1>a, <1>3, Descended
  <2>2. /\ OnWay(reg[c], tree) /\ LevelRight(g) /\ g = Top(c) /\ s \in Seq(Levels) /\ n \in Nat /\ n > 0
        /\ AtItem(g)
    BY <1>a, <1>1, WayFacts, WalkFacts
  <2>3. g.own # None /\ Siblings(g) = {} /\ g.own.kind = "group"
    BY <2>2 DEF Descend, Scanned
  <2>4. g.own = g.items[g.i] /\ s[n] = g
    BY <2>2, <2>3 DEF LevelRight, Level
  <2> HIDE DEF g
  <2>5. /\ q.stack \in Seq(Levels) /\ Len(q.stack) = n + 1 /\ q.stack[n + 1] = f /\ q.stack # <<>>
        /\ \A k \in 1..n : q.stack[k] = s[k]
    BY <2>1, <2>2, AppendProperties
  <2>6. DOMAIN q.stack = 1..(n + 1) /\ DOMAIN s = 1..n
    BY <2>2, <2>5
  <2>7. 1 \in DOMAIN f.items
    <3>1. f.items \in Seq(Items)
      BY DEF Levels
    <3> QED BY <2>1, <3>1
  <2>8. Nested(s, tree) /\ \A k \in 1..n : LevelRight(s[k]) /\ (k < n => Siblings(s[k]) = {})
    BY <2>2, <2>6 DEF OnWay
  <2> HIDE DEF s, tree
  <2>9. ASSUME NEW k \in 1..n
        PROVE  /\ q.stack[k].i \in DOMAIN q.stack[k].items
               /\ q.stack[k].items[q.stack[k].i].kind = "group"
               /\ q.stack[k + 1].items = q.stack[k].items[q.stack[k].i].sub
               /\ q.stack[k + 1].pre = Before(q.stack[k]) /\ q.stack[k + 1].post = After(q.stack[k])
    <3>1. CASE k = n
      BY <2>1, <2>3, <2>4, <2>5, <2>6, <2>8, <3>1 DEF Nested
    <3>2. CASE k # n
      <4>1. k < n /\ k + 1 \in 1..n /\ k \in DOMAIN s
        BY <2>2, <2>6, <3>2
      <4>2. q.stack[k] = s[k] /\ q.stack[k + 1] = s[k + 1]
        BY <2>5, <4>1
      <4> QED BY <2>8, <4>1, <4>2 DEF Nested
    <3> QED BY <3>1, <3>2
  <2>10. Nested(q.stack, tree)
    <3>1. n + 1 <= MaxNesting + 1 /\ 1 \in 1..n
      BY <2>1, <2>2, RegistryAssumption
    <3>2. q.stack[1].items = tree /\ q.stack[1].pre = <<>> /\ q.stack[1].post = <<>>
      BY <2>5, <2>8, <3>1 DEF Nested
    <3>3. \A k \in DOMAIN q.stack : q.stack[k].i \in DOMAIN q.stack[k].items
      <4>1. \A k \in 1..(n + 1) : k = n + 1 \/ k \in 1..n
        BY <2>2
      <4> QED BY <2>1, <2>5, <2>6, <2>7, <2>9, <4>1
    <3>4. \A k \in DOMAIN q.stack : k < Len(q.stack) => k \in 1..n
      BY <2>2, <2>5, <2>6
    <3> QED BY <2>5, <2>9, <3>1, <3>2, <3>3, <3>4 DEF Nested
  <2>11. LevelRight(f)
    BY <2>1 DEF LevelRight, BetweenRoutes
  <2>12. ASSUME NEW k \in 1..(n + 1) PROVE LevelRight(q.stack[k]) /\ (k < n + 1 => Siblings(q.stack[k]) = {})
    <3>1. CASE k = n + 1
      BY <2>2, <2>5, <2>11, <3>1
    <3>2. CASE k # n + 1
      <4>1. k \in 1..n /\ q.stack[k] = s[k] /\ (k = n \/ k < n)
        BY <2>2, <2>5, <3>2
      <4> QED BY <2>3, <2>4, <2>8, <4>1
    <3> QED BY <3>1, <3>2
  <2>13. OnWay(q, tree)
    BY <2>1, <2>5, <2>6, <2>10, <2>12 DEF OnWay
  <2> QED BY <1>1, <2>1, <2>13, WalkTraced DEF tree
<1> QED BY <1>2, <1>3

\* The levels above a level are on the way to it.
LEMMA UpOnWay ==
  ASSUME NEW tree, NEW p \in CallRecords, OnWay(p, tree), NEW q \in CallRecords, q.stack # <<>>,
         Len(q.stack) < Len(p.stack), \A k \in DOMAIN q.stack : q.stack[k] = p.stack[k],
         Level(q).own # None
  PROVE  OnWay(q, tree)
<1> DEFINE n == Len(p.stack)
           m == Len(q.stack)
<1>1. /\ Nested(p.stack, tree)
      /\ \A k \in DOMAIN p.stack : LevelRight(p.stack[k]) /\ (k < n => Siblings(p.stack[k]) = {})
  BY DEF OnWay
<1>2. n \in Nat /\ DOMAIN p.stack = 1..n
  BY <1>1, NestedLevels
<1>3. q.stack \in Seq(Levels) /\ m \in Nat /\ m >= 1 /\ DOMAIN q.stack = 1..m /\ 1 \in 1..m
  <2>1. q.stack \in Seq(Levels)
    BY DEF CallRecords
  <2> QED BY <2>1
<1>4. \A k \in 1..m : k \in 1..n /\ k < n /\ q.stack[k] = p.stack[k] /\ (k < m => k + 1 \in 1..m)
  BY <1>2, <1>3
<1>5. Nested(q.stack, tree)
  <2>1. n <= MaxNesting + 1 /\ m <= MaxNesting + 1
    BY <1>1, <1>2, <1>3, RegistryAssumption DEF Nested
  <2>2. q.stack[1].items = tree /\ q.stack[1].pre = <<>> /\ q.stack[1].post = <<>>
    BY <1>1, <1>3, <1>4 DEF Nested
  <2>3. \A k \in 1..m : q.stack[k].i \in DOMAIN q.stack[k].items
    BY <1>1, <1>2, <1>4 DEF Nested
  <2>4. ASSUME NEW k \in 1..m, k < m
        PROVE  /\ q.stack[k].items[q.stack[k].i].kind = "group"
               /\ q.stack[k + 1].items = q.stack[k].items[q.stack[k].i].sub
               /\ q.stack[k + 1].pre = Before(q.stack[k]) /\ q.stack[k + 1].post = After(q.stack[k])
    <3>1. k \in DOMAIN p.stack /\ k < n /\ q.stack[k] = p.stack[k] /\ q.stack[k + 1] = p.stack[k + 1]
      BY <1>2, <1>4, <2>4
    <3> QED BY <1>1, <3>1 DEF Nested
  <2> QED BY <1>3, <2>1, <2>2, <2>3, <2>4 DEF Nested
<1>6. \A k \in 1..m : LevelRight(q.stack[k]) /\ Siblings(q.stack[k]) = {}
  BY <1>1, <1>2, <1>4
<1>7. Level(q) = q.stack[m] /\ m \in 1..m
  BY <1>3 DEF Level
<1> QED BY <1>3, <1>5, <1>6, <1>7 DEF OnWay

\* NextEntry: a route between two routes finds the lists of the one before.
LEMMA NextEntryTraced == ASSUME Traced, Kept', NEW c \in Calls, NextEntry(c) PROVE Traced'
<1>a. Kept
  BY DEF Traced
<1> DEFINE g == Level(reg[c])
           tree == Trees[c][reg[c].n]
<1>1. /\ Active(reg[c]) /\ reg[c].wait = "tick" /\ reg[c].held = None /\ reg[c].phase = "walk"
      /\ UNCHANGED <<startDef, endDef, initialized, flat, startFns, endFns>>
  BY <1>a, WentOn DEF setup, registry
<1>2. /\ OnWay(reg[c], tree) /\ LevelRight(g) /\ g \in Levels /\ AtItem(g) /\ reg[c] \in CallRecords
      /\ g.own # None /\ Siblings(g) = {}
  BY <1>a, <1>1, WayFacts, WalkFacts, CallFacts DEF OnWay
<1>3. Complete(g)
  BY <1>2, ScannedComplete DEF LevelRight
<1>4. PICK q \in CallRecords :
        /\ Become(c, q) /\ q.n = reg[c].n /\ q.held = None
        /\ \/ /\ q.phase = "walk" /\ Level(q).own = None
              /\ \E f \in Levels :
                   /\ Level(q) = f /\ DOMAIN q.stack = DOMAIN reg[c].stack /\ Len(q.stack) = Len(reg[c].stack)
                   /\ \A k \in DOMAIN reg[c].stack : k # Len(reg[c].stack) => q.stack[k] = reg[c].stack[k]
                   /\ f.pre = Level(reg[c]).pre /\ f.post = Level(reg[c]).post
                   /\ f.preLevel = Level(reg[c]).preLevel /\ f.postLevel = Level(reg[c]).postLevel
                   /\ f.i = Level(reg[c]).i + 1 /\ f.items = Level(reg[c]).items /\ f.i \in DOMAIN f.items
                   /\ q.wait = "run"
           \/ /\ q.phase = "walk" /\ AtGroup(Level(q))
              /\ q.stack # <<>> /\ Len(q.stack) < Len(reg[c].stack)
              /\ \A k \in DOMAIN q.stack : q.stack[k] = reg[c].stack[k]
           \/ q.phase = "return" /\ q.stack = <<>>
  BY <1>a, WentOn
<1>5. CASE q.phase = "walk" /\ Level(q).own = None
  <2>1. PICK f \in Levels :
          /\ Level(q) = f /\ DOMAIN q.stack = DOMAIN reg[c].stack /\ Len(q.stack) = Len(reg[c].stack)
          /\ \A k \in DOMAIN reg[c].stack : k # Len(reg[c].stack) => q.stack[k] = reg[c].stack[k]
          /\ f.pre = g.pre /\ f.post = g.post /\ f.preLevel = g.preLevel /\ f.postLevel = g.postLevel
          /\ f.i = g.i + 1 /\ f.items = g.items /\ f.i \in DOMAIN f.items /\ q.wait = "run"
    BY <1>4, <1>5, Distinct DEF AtGroup
  <2>2. f.own = None
    BY <1>5, <2>1
  <2> HIDE DEF g
  <2>3. BetweenRoutes(f) => Complete(f)
    <3> SUFFICES ASSUME BetweenRoutes(f) PROVE Complete(f)
      OBVIOUS
    <3>1. g.i \in Nat /\ f.i - 1 = g.i
      BY <1>2, <2>1 DEF Levels
    <3>2. f.items[g.i].kind = "route" /\ f.items[f.i].kind = "route"
      BY <3>1 DEF BetweenRoutes
    <3> QED BY <1>2, <1>3, <2>1, <3>2, NextRoute
  <2>4. LevelRight(f)
    BY <2>2, <2>3 DEF LevelRight
  <2>5. OnWay(q, tree)
    BY <1>2, <2>1, <2>4, TopOnWay DEF g
  <2> QED BY <1>1, <1>4, <1>5, <2>5, WalkTraced
<1>6. CASE /\ q.phase = "walk" /\ AtGroup(Level(q))
           /\ q.stack # <<>> /\ Len(q.stack) < Len(reg[c].stack)
           /\ \A k \in DOMAIN q.stack : q.stack[k] = reg[c].stack[k]
  <2>1. Level(q).own # None
    BY <1>6, Distinct DEF AtGroup
  <2>2. OnWay(q, tree)
    BY <1>2, <1>6, <2>1, UpOnWay
  <2> QED BY <1>1, <1>4, <1>6, <2>2, WalkTraced
<1>7. CASE q.phase = "return"
  <2>1. reg'[c] = q
    BY <1>a, <1>4, BecomeFacts
  <2>2. Traces(c)'
    BY <1>4, <1>7, <2>1 DEF Traces
  <2> QED BY <1>1, <1>4, <2>2, OneTraced
<1> QED BY <1>4, <1>5, <1>6, <1>7

\* Return: the next registration begins with nothing, or there is none.
LEMMA ReturnTraced == ASSUME Traced, Kept', NEW c \in Calls, Return(c) PROVE Traced'
<1>a. Kept
  BY DEF Traced
<1>1. PICK q \in CallRecords : Become(c, q) /\ q.phase = "start" /\ q.got = <<>> /\ q.held = None
  BY <1>a, Returned
<1>2. UNCHANGED <<startDef, endDef, initialized, flat, startFns, endFns>>
  BY <1>a, Returned DEF setup, registry
<1>3. reg'[c] = q /\ startDef \in Seq(MiddleFnItems)
  BY <1>a, <1>1, BecomeFacts DEF Kept, RegistryTypes
<1>4. Follows(q.got, startDef)
  BY <1>1, <1>3, FollowsNothing
<1>5. Traces(c)'
  BY <1>1, <1>2, <1>3, <1>4 DEF Traces
<1> QED BY <1>1, <1>2, <1>5, OneTraced

\* Two sequences one after the other, called by their ids.
LEMMA IdsOfBoth ==
  ASSUME NEW s \in Seq(Executables), NEW t \in Seq(Executables)
  PROVE  IdSeq(s \o t) = IdSeq(s) \o IdSeq(t)
<1> DEFINE u == s \o t
           a == IdSeq(s)
           b == IdSeq(t)
<1>1. /\ Len(s) \in Nat /\ Len(t) \in Nat /\ Len(u) = Len(s) + Len(t) /\ DOMAIN u = 1..Len(u)
      /\ DOMAIN s = 1..Len(s) /\ DOMAIN t = 1..Len(t)
      /\ \A k \in 1..Len(s) : s[k] \in Executables
      /\ \A k \in 1..Len(t) : t[k] \in Executables
      /\ \A k \in 1..Len(s) + Len(t) : u[k] = IF k <= Len(s) THEN s[k] ELSE t[k - Len(s)]
  BY ConcatProperties
<1>2. /\ a \in Seq(Ids) /\ Len(a) = Len(s) /\ (\A k \in 1..Len(s) : a[k] = s[k].id)
  <2>1. a = [k \in 1..Len(s) |-> s[k].id]
    BY <1>1 DEF IdSeq
  <2>2. \A k \in 1..Len(s) : s[k].id \in Ids
    BY <1>1, Distinct
  <2>3. a \in [1..Len(s) -> Ids]
    BY <2>1, <2>2
  <2> HIDE DEF a
  <2> QED BY <1>1, <2>1, <2>3
<1>3. /\ b \in Seq(Ids) /\ Len(b) = Len(t) /\ (\A k \in 1..Len(t) : b[k] = t[k].id)
  <2>1. b = [k \in 1..Len(t) |-> t[k].id]
    BY <1>1 DEF IdSeq
  <2>2. \A k \in 1..Len(t) : t[k].id \in Ids
    BY <1>1, Distinct
  <2>3. b \in [1..Len(t) -> Ids]
    BY <2>1, <2>2
  <2> HIDE DEF b
  <2> QED BY <1>1, <2>1, <2>3
<1>4. IdSeq(u) = [k \in 1..Len(s) + Len(t) |-> u[k].id]
  BY <1>1 DEF IdSeq
<1> DEFINE v == a \o b
<1>5. /\ v \in Seq(Ids) /\ Len(v) = Len(s) + Len(t) /\ DOMAIN v = 1..Len(s) + Len(t)
      /\ \A k \in 1..Len(s) + Len(t) : v[k] = IF k <= Len(s) THEN a[k] ELSE b[k - Len(s)]
  <2> HIDE DEF a, b
  <2>1. v \in Seq(Ids) /\ Len(v) = Len(a) + Len(b)
    BY <1>2, <1>3, ConcatProperties
  <2>2. \A k \in 1..Len(a) + Len(b) : v[k] = IF k <= Len(a) THEN a[k] ELSE b[k - Len(a)]
    BY <1>2, <1>3, ConcatProperties
  <2> HIDE DEF v
  <2>3. DOMAIN v = 1..Len(v)
    BY <2>1
  <2> QED BY <1>2, <1>3, <2>1, <2>2, <2>3
<1> HIDE DEF u, a, b, v
<1>6. ASSUME NEW k \in 1..Len(s) + Len(t) PROVE v[k] = u[k].id
  <2>1. CASE k <= Len(s)
    <3>1. k \in 1..Len(s)
      BY <1>1, <2>1
    <3> QED BY <1>1, <1>2, <1>5, <2>1, <3>1
  <2>2. CASE ~(k <= Len(s))
    <3>1. k - Len(s) \in 1..Len(t)
      BY <1>1, <2>2
    <3> QED BY <1>1, <1>3, <1>5, <2>2, <3>1
  <2> QED BY <2>1, <2>2
<1>7. v = [k \in 1..Len(s) + Len(t) |-> v[k]]
  BY <1>5
<1>8. IdSeq(u) = v
  BY <1>4, <1>6, <1>7
<1> QED BY <1>8 DEF u, v, a, b

\* What was collected is called as the definitions are.
LEMMA CollectedIds ==
  ASSUME NEW fns \in Seq(Executables), NEW items \in Seq(MiddleFnItems), Collected(fns, items)
  PROVE  IdSeq(fns) = IdSeq(items)
<1>1. DOMAIN fns = 1..Len(fns) /\ DOMAIN items = 1..Len(fns) /\ \A k \in 1..Len(fns) : fns[k].id = items[k].id
  BY DEF Collected, Follows
<1> QED BY <1>1 DEF IdSeq

\* One sequence after another: the name keeps the provers from taking it apart.
Joined(s, t) == s \o t

\* Sequences of executables can be joined, in any grouping, and the ids of what
\* is joined are the ids joined.
LEMMA JoinedFacts ==
  /\ \A s, t \in Seq(Executables) : Joined(s, t) \in Seq(Executables)
  /\ \A s, d, a \in Seq(Executables) : Joined(Joined(s, d), a) = Joined(s, Joined(d, a))
  /\ \A s, t \in Seq(Executables) : IdSeq(Joined(s, t)) = Joined(IdSeq(s), IdSeq(t))
<1>1. ASSUME NEW s \in Seq(Executables), NEW t \in Seq(Executables)
      PROVE  s \o t \in Seq(Executables) /\ IdSeq(s \o t) = IdSeq(s) \o IdSeq(t)
  BY ConcatProperties, IdsOfBoth
<1>2. ASSUME NEW s \in Seq(Executables), NEW d \in Seq(Executables), NEW a \in Seq(Executables)
      PROVE  (s \o d) \o a = s \o (d \o a)
  BY ConcatAssociative, SMTT(30)
<1> QED BY <1>1, <1>2 DEF Joined

\* The ids of what is filed are those of the start, of what is around the
\* route, and of the end.
LEMMA IdsFiled ==
  \A s, b, r, a, e \in Seq(Executables) :
    IdSeq(Joined(Joined(Joined(Joined(s, b), r), a), e))
      = Joined(Joined(IdSeq(s), IdSeq(Joined(Joined(b, r), a))), IdSeq(e))
<1> SUFFICES ASSUME NEW s \in Seq(Executables), NEW b \in Seq(Executables), NEW r \in Seq(Executables),
                    NEW a \in Seq(Executables), NEW e \in Seq(Executables)
             PROVE  IdSeq(Joined(Joined(Joined(Joined(s, b), r), a), e))
                      = Joined(Joined(IdSeq(s), IdSeq(Joined(Joined(b, r), a))), IdSeq(e))
  OBVIOUS
<1> DEFINE d == Joined(Joined(b, r), a)
<1>1. /\ Joined(b, r) \in Seq(Executables) /\ d \in Seq(Executables)
      /\ Joined(s, d) \in Seq(Executables)
  BY JoinedFacts
<1>2. Joined(Joined(Joined(s, b), r), a) = Joined(s, d)
  BY <1>1, JoinedFacts
<1> HIDE DEF d
<1>3. IdSeq(Joined(Joined(s, d), e)) = Joined(Joined(IdSeq(s), IdSeq(d)), IdSeq(e))
  BY <1>1, JoinedFacts
<1> QED BY <1>2, <1>3 DEF d

\* The chain that is filed for the route a walk stands at is as written.
LEMMA FiledAsWritten ==
  ASSUME Traced, NEW c \in Calls, SetChain(c)
  PROVE  LET tree == Trees[c][reg[c].n]
             own == Level(reg[c]).own
         IN \E p \in Places(tree) :
              /\ At(tree, p).kind = "route" /\ At(tree, p).id = own.id
              /\ IdSeq(MethodsOf(Level(reg[c]))) = IdSeq(startDef) \o Written(tree, p) \o IdSeq(endDef)
<1>a. Kept
  BY DEF Traced
<1> DEFINE f == Level(reg[c])
           s == reg[c].stack
           tree == Trees[c][reg[c].n]
           b == Before(f)
           a == After(f)
           r == <<f.own>>
<1>1. f.own \in Executables /\ f.own.kind = "route" /\ f \in Levels /\ Active(reg[c]) /\ reg[c].phase = "walk"
  BY <1>a, ChainFiled
<1>2. /\ OnWay(reg[c], tree) /\ LevelRight(f) /\ tree \in Seq(Items) /\ Traces(c) /\ Top(c) = f
      /\ Walks(reg[c]) /\ f = s[Len(s)]
  BY <1>a, <1>1, WayFacts, WalkFacts, CallFacts DEF Traced, Level
<1>3. Siblings(f) = {} /\ f.own # None
  BY <1>2 DEF SetChain, Scanned
<1>4. Nested(s, tree) /\ \A k \in DOMAIN s : LevelRight(s[k]) /\ (k < Len(s) => Siblings(s[k]) = {})
  BY <1>2 DEF OnWay
<1>5. /\ Len(s) \in Nat /\ DOMAIN s = 1..Len(s) /\ \A k \in 1..Len(s) : s[k] \in Levels
  BY <1>4, NestedLevels
<1>6. ASSUME NEW k \in 1..Len(s) PROVE Complete(s[k])
  <2>1. s[k].own # None
    <3>1. CASE k = Len(s)
      BY <1>2, <1>3, <3>1
    <3>2. CASE k # Len(s)
      <4>1. k < Len(s) /\ k \in DOMAIN s
        BY <1>5, <3>2
      <4>2. AtGroup(s[k])
        BY <1>1, <1>2, <4>1 DEF Walks
      <4> QED BY <4>2, Distinct DEF AtGroup
    <3> QED BY <3>1, <3>2
  <2>2. Siblings(s[k]) = {}
    <3>1. k = Len(s) \/ k < Len(s)
      BY <1>5
    <3> QED BY <1>2, <1>3, <1>4, <1>5, <3>1
  <2>3. Scanning(s[k])
    BY <1>4, <1>5, <2>1 DEF LevelRight
  <2> QED BY <1>5, <2>2, <2>3, ScannedComplete
<1>7. f.own.id = f.items[f.i].id /\ f.items[f.i].kind = "route"
  BY <1>1, <1>2, <1>3 DEF LevelRight
<1> HIDE DEF s, tree
<1>8. PICK p \in Places(tree) :
        /\ At(tree, p).kind = "route" /\ At(tree, p).id = f.own.id
        /\ IdSeq((Before(f) \o <<f.own>>) \o After(f)) = Written(tree, p)
  BY <1>1, <1>2, <1>4, <1>6, <1>7, WrittenIs
<1>9. /\ startFns \in Seq(Executables) /\ endFns \in Seq(Executables) /\ b \in Seq(Executables)
      /\ a \in Seq(Executables) /\ r \in Seq(Executables)
      /\ startDef \in Seq(MiddleFnItems) /\ endDef \in Seq(MiddleFnItems)
  BY <1>a, <1>1, AroundTyped DEF Kept, RegistryTypes
<1>10. MethodsOf(f) = Joined(Joined(Joined(Joined(startFns, b), r), a), endFns)
  BY DEF MethodsOf, Joined
<1>11. IdSeq(Joined(Joined(b, r), a)) = Written(tree, p)
  BY <1>8 DEF Joined
<1>12. IdSeq(startFns) = IdSeq(startDef) /\ IdSeq(endFns) = IdSeq(endDef)
  BY <1>1, <1>2, <1>9, CollectedIds DEF Traces
<1> HIDE DEF f, a, b, r
<1>13. IdSeq(MethodsOf(f))
         = Joined(Joined(IdSeq(startFns), IdSeq(Joined(Joined(b, r), a))), IdSeq(endFns))
  BY <1>9, <1>10, IdsFiled
<1>14. IdSeq(MethodsOf(f)) = (IdSeq(startDef) \o Written(tree, p)) \o IdSeq(endDef)
  BY <1>11, <1>12, <1>13 DEF Joined
<1> QED BY <1>8, <1>14 DEF f, tree

\* SetChain
LEMMA SetChainTraced == ASSUME Traced, Kept', NEW c \in Calls, SetChain(c) PROVE Traced'
<1>a. Kept
  BY DEF Traced
<1> DEFINE f == Level(reg[c])
           chain == [routeIndex |-> Len(startFns) + Len(Before(f)) + 1, methods |-> MethodsOf(f),
                     by |-> c, n |-> reg[c].n]
           tree == Trees[c][reg[c].n]
           q == [reg[c] EXCEPT !.wait = "tick", !.held = None]
<1>1. /\ f.own \in Executables /\ f.own.kind = "route" /\ f \in Levels /\ f.own.id \in Ids
      /\ RouteOf(chain) = f.own /\ flat' = [flat EXCEPT ![f.own.id] = chain]
      /\ Become(c, q) /\ Active(reg[c]) /\ reg[c].phase = "walk" /\ reg[c].held = None
      /\ UNCHANGED <<startDef, endDef, initialized, startFns, endFns>>
  BY <1>a, ChainFiled DEF setup
<1>2. chain.methods = MethodsOf(f) /\ chain.by = c /\ chain.n = reg[c].n
  OBVIOUS
<1>3. PICK p \in Places(tree) :
        /\ At(tree, p).kind = "route" /\ At(tree, p).id = f.own.id
        /\ IdSeq(MethodsOf(f)) = IdSeq(startDef) \o Written(tree, p) \o IdSeq(endDef)
  BY FiledAsWritten
<1>4. /\ OnWay(reg[c], tree) /\ Top(c) = f /\ reg[c] \in CallRecords /\ initialized /\ Traces(c)
  BY <1>a, <1>1, WayFacts, WalkFacts, CallFacts DEF Traced
<1>5. Siblings(f) = {} /\ f.own # None
  BY <1>4 DEF SetChain, Scanned
<1>6. /\ q \in CallRecords /\ q.held = None /\ q.n = reg[c].n /\ q.phase = "walk" /\ q.stack = reg[c].stack
  BY <1>1, <1>4, RunsOn
<1>7. OnWay(q, tree)
  <2>1. Level(q) = f
    BY <1>6 DEF Level
  <2> HIDE DEF q, f, tree
  <2> QED BY <1>4, <1>5, <1>6, <2>1 DEF OnWay
<1> HIDE DEF q, f, chain, tree
<1>8. reg'[c] = q /\ \A d \in Calls : d # c => reg'[d] = reg[d]
  BY <1>a, <1>1, BecomeFacts
<1>9. ASSUME NEW d \in Calls, Active(reg'[d]) PROVE Traces(d)'
  <2>1. CASE d = c
    <3>1. OnWay(q, Trees[c][q.n])
      BY <1>6, <1>7 DEF tree
    <3>2. Collected(startFns, startDef) /\ Collected(endFns, endDef)
      BY <1>1, <1>4 DEF Traces
    <3> QED BY <1>1, <1>6, <1>8, <2>1, <3>1, <3>2 DEF Traces
  <2>2. CASE d # c
    <3>1. reg'[d] = reg[d] /\ Traces(d)
      BY <1>8, <1>9, <2>2 DEF Traced
    <3>2. Wanted(d)' = Wanted(d)
      BY <1>1, <3>1, WantedKept
    <3> QED BY <1>1, <3>1, <3>2 DEF Traces
  <2> QED BY <2>1, <2>2
<1>10. flat \in [Ids -> ExecutionChains \cup {None}]
  BY <1>a DEF Kept, RegistryTypes
<1>11. \A id \in Ids : flat'[id] = IF id = f.own.id THEN chain ELSE flat[id]
  BY <1>1, <1>10
<1>12. ChainAsWritten'
  <2> SUFFICES ASSUME NEW id \in Ids, flat'[id] # None
               PROVE  /\ RouteOf(flat'[id]).id = id /\ RouteOf(flat'[id]).kind = "route"
                      /\ \E x \in Places(Trees[flat'[id].by][flat'[id].n]) :
                           /\ At(Trees[flat'[id].by][flat'[id].n], x).kind = "route"
                           /\ At(Trees[flat'[id].by][flat'[id].n], x).id = id
                           /\ IdSeq(flat'[id].methods) = IdSeq(startDef) \o Written(Trees[flat'[id].by][flat'[id].n], x) \o IdSeq(endDef)
    <3>1. startDef' = startDef /\ endDef' = endDef
      BY <1>1
    <3> QED BY <3>1 DEF ChainAsWritten, Registered
  <2>1. CASE id = f.own.id
    <3>1. flat'[id] = chain /\ Trees[flat'[id].by][flat'[id].n] = tree
      BY <1>2, <1>11, <2>1 DEF tree
    <3> QED BY <1>1, <1>2, <1>3, <2>1, <3>1
  <2>2. CASE id # f.own.id
    <3>1. flat'[id] = flat[id] /\ id \in Registered
      BY <1>11, <2>2 DEF Registered
    <3>2. PICK chained : chained = flat[id]
      OBVIOUS
    <3>3. /\ RouteOf(chained).id = id /\ RouteOf(chained).kind = "route"
          /\ \E x \in Places(Trees[chained.by][chained.n]) :
               /\ At(Trees[chained.by][chained.n], x).kind = "route"
               /\ At(Trees[chained.by][chained.n], x).id = id
               /\ IdSeq(chained.methods) = IdSeq(startDef) \o Written(Trees[chained.by][chained.n], x) \o IdSeq(endDef)
      BY <3>1, <3>2 DEF Traced, ChainAsWritten
    <3> QED BY <3>1, <3>2, <3>3
  <2> QED BY <2>1, <2>2
<1> QED BY <1>1, <1>4, <1>9, <1>12 DEF Traced

\* A step of no call that files nothing.
LEMMA StillTraced ==
  ASSUME Traced, Kept', UNCHANGED <<startDef, endDef, initialized, flat, startFns, endFns, reg>>
  PROVE  Traced'
<1>1. Registered' = Registered
  BY DEF Registered
<1>2. ChainAsWritten'
  BY <1>1 DEF Traced, ChainAsWritten, RouteOf
<1>3. \A c \in Calls : Wanted(c)' = Wanted(c)
  BY WantedKept
<1>4. \A c \in Calls : Active(reg'[c]) => Traces(c)'
  BY <1>3 DEF Traced, Traces
<1> QED BY <1>1, <1>2, <1>4 DEF Traced

\* The router is not open.
Closed == Kept /\ ~initialized /\ Registered = {}

\* Before it is, nobody is under way.
LEMMA ClosedTraced == Closed => Traced
<1> SUFFICES ASSUME Closed PROVE Traced
  OBVIOUS
<1> USE DEF Closed
<1>1. \A c \in Calls : ~Active(reg[c])
  BY CallFacts
<1> QED BY <1>1 DEF Traced, ChainAsWritten

\* Every step keeps it.
LEMMA NextTraced == ASSUME Traced, [Next]_vars PROVE Traced'
<1>1. Kept /\ Kept'
  BY NextKept DEF Traced
<1>2. ASSUME NEW c \in Calls, Call(c) PROVE Traced'
  BY <1>1, <1>2, CallTraced
<1>3. ASSUME NEW c \in Calls, CallStep(c) PROVE Traced'
  <2>1. CASE Lookup(c) BY <1>1, <2>1, LookupTraced
  <2>2. CASE Reflected(c) BY <1>1, <2>2, ReflectedTraced
  <2>3. CASE ReceiveOuter(c) BY <1>1, <2>3, ReceiveOuterTraced
  <2>4. CASE ReceiveEntry(c) BY <1>1, <2>4, ReceiveEntryTraced
  <2>5. CASE EnterGroup(c) BY <1>1, <2>5, EnterGroupTraced
  <2>6. CASE RejectEntry(c) BY <1>1, <2>6, FailTraced DEF RejectEntry, setup, registry
  <2>7. CASE ReceiveSibling(c) BY <1>1, <2>7, ReceiveSiblingTraced
  <2>8. CASE StartReady(c) BY <1>1, <2>8, StartReadyTraced
  <2>9. CASE EndReady(c) BY <1>1, <2>9, EndReadyTraced
  <2>10. CASE SetChain(c) BY <1>1, <2>10, SetChainTraced
  <2>11. CASE PassMiddleFn(c) BY <1>1, <2>11, PassMiddleFnTraced
  <2>12. CASE Descend(c) BY <1>1, <2>12, DescendTraced
  <2>13. CASE NextEntry(c) BY <1>1, <2>13, NextEntryTraced
  <2>14. CASE Return(c) BY <1>1, <2>14, ReturnTraced
  <2>15. CASE ReflectionFails(c) BY <1>1, <2>15, FailTraced DEF ReflectionFails, setup, registry
  <2> QED BY <1>3, <2>1, <2>2, <2>3, <2>4, <2>5, <2>6, <2>7, <2>8, <2>9, <2>10, <2>11, <2>12, <2>13, <2>14, <2>15
          DEF CallStep
<1>4. ASSUME NEW id \in Asked, ServeMetadata(id) PROVE Traced'
  BY <1>1, <1>4, StillTraced DEF ServeMetadata, setup, registry
<1>a. Closed' => Traced'
  BY ClosedTraced, PTL
<1>5. CASE ResetRouter
  BY <1>1, <1>5, <1>a, ResetKeeps DEF Blank, Closed
<1>6. ASSUME \/ \E item \in ExtraStart, before \in BOOLEAN : AddStartMiddleFns(item, before)
             \/ \E item \in ExtraEnd, after \in BOOLEAN : AddEndMiddleFns(item, after)
      PROVE  Traced'
  <2>1. ~initialized /\ ~initialized' /\ flat' = flat
    BY <1>6 DEF AddStartMiddleFns, AddEndMiddleFns, registry
  <2>2. Registered' = {}
    BY <2>1 DEF Traced, Registered
  <2> QED BY <1>1, <1>a, <2>1, <2>2 DEF Closed
<1>7. CASE UNCHANGED vars
  BY <1>1, <1>7, StillTraced DEF vars, setup, registry
<1> QED BY <1>2, <1>3, <1>4, <1>5, <1>6, <1>7 DEF Next

\* However registrations interleave, a route's chain is the start middleFns, then
\* the middleFns in scope written before it, the route, those written after it and
\* the end middleFns (router.ts:363-370): for any trees, callers and order of awaits.
THEOREM ChainsAreWritten == Spec => []ChainAsWritten
<1>1. Init => Traced
  BY InitKept, ClosedTraced DEF Blank, Closed
<1>2. Traced /\ [Next]_vars => Traced'
  BY NextTraced
<1>3. Traced => ChainAsWritten
  BY DEF Traced
<1> QED BY <1>1, <1>2, <1>3, PTL DEF Spec
=============================================================================
