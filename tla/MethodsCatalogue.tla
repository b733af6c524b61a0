--------------------------- MODULE MethodsCatalogue ---------------------------
(***************************************************************************)
(* What a client knows of remote methods: their metadata and the compiled  *)
(* functions it names, in the memory of the page (core/src/routerUtils.ts, *)
(* runtypes/mionAdapter.ts) and in the browser's storage, which survives   *)
(* reloads (client/src/lib/clientMethodsMetadata.ts).  Servers describe    *)
(* their methods (router/src/lib/remoteMethods.ts) and are deployed anew   *)
(* while pages are open; a page may talk to several of them.               *)
(*                                                                         *)
(* The functions of one type are kept together: they are generated, sent,  *)
(* stored and looked up by the type's id.  Those of a type may call those  *)
(* of others.  Answers arrive in any order, late, or never; a page may be  *)
(* gone in the middle of writing one to the storage; and the storage may   *)
(* refuse any item, for its quota, which the client only warns of.         *)
(***************************************************************************)
EXTENDS Naturals, FiniteSets

CONSTANTS
  Servers,       \* base URLs
  Methods,
  MiddleFnIds,   \* method -> the middleFns of its chain
  Types,         \* type ids: the hashes of the compiled functions
  RtDeps,        \* type -> the types its functions call
  TypesOf,       \* server -> method -> the types its versions have had
  MaxInFlight,
  MaxRefused,    \* types whose functions the storage may lack, a bound of the model
  None

ASSUME CatalogueAssumption ==
  /\ MiddleFnIds \in [Methods -> SUBSET Methods]
  /\ RtDeps \in [Types -> SUBSET Types]
  /\ TypesOf \in [Servers -> [Methods -> SUBSET Types]]
  /\ MaxInFlight \in Nat /\ MaxRefused \in Nat
  /\ None \notin Types

VARIABLES
  serves,        \* server -> method -> its type today, None when it has no such method
  methods,       \* methodsCache
  fns,           \* the types whose functions are in the runtime cache
  restored,      \* the methods whose metadata came from the storage
  storedMethods, \* server -> method -> type: what the storage holds under its base URL
  storedFns,     \* server -> types
  refused,       \* server -> types it sent functions of that the storage did not take
  answers,       \* the answers on their way: [server, methods, fns]
  talked         \* the servers this page has had anything from

storage == <<storedMethods, storedFns, refused>>
page == <<methods, fns, restored, talked>>
vars == <<serves, page, storage, answers>>

Nothing == [m \in Methods |-> None]

Init ==
  /\ serves \in [Servers -> [Methods -> Types \cup {None}]]
  /\ \A s \in Servers, m \in Methods : serves[s][m] \in TypesOf[s][m] \cup {None}
  /\ methods = Nothing /\ fns = {} /\ restored = {}
  /\ storedMethods = [s \in Servers |-> Nothing] /\ storedFns = [s \in Servers |-> {}]
  /\ refused = [s \in Servers |-> {}]
  /\ answers = {} /\ talked = {}
-----------------------------------------------------------------------------
(* The server *)

\* another version of a method, or none
Deploy(s, m, t) ==
  /\ t \in TypesOf[s][m] \cup {None} /\ t # serves[s][m]
  /\ serves' = [serves EXCEPT ![s][m] = t]
  /\ UNCHANGED <<page, storage, answers>>

\* serializeJitFn: the functions of these types and all they call, however deep
FnsFor(ts) ==
  {u \in Types : \A S \in SUBSET Types :
     ts \subseteq S /\ (\A v \in S : RtDeps[v] \subseteq S) => u \in S}

\* addRequiredRemoteMethodsToResponse
Described(ids) == ids \cup UNION {MiddleFnIds[id] : id \in ids}

\* mionGetRemoteMethodsDataById: one unknown id makes it an error
Describes(s, ids) == \A id \in Described(ids) : serves[s][id] # None

AnswerTo(s, ids) ==
  [server |-> s,
   methods |-> [m \in Methods |-> IF m \in Described(ids) THEN serves[s][m] ELSE None],
   fns |-> FnsFor({serves[s][m] : m \in Described(ids)})]

-----------------------------------------------------------------------------
(* The client *)

\* fault: restored functions are named by their storage keys
FnsByKey(s) == fns \cup {<<s, t>> : t \in storedFns[s]}

\* restoreAllDependencies: every function stored under this base URL
FnsRestored(s) == fns \cup storedFns[s]

\* fault: whatever any server has stored
StoredAnywhere(s, m) ==
  IF \E r \in Servers : storedMethods[r][m] # None
    THEN storedMethods[CHOOSE r \in Servers : storedMethods[r][m] # None][m] ELSE None

\* getItem of the method's key, which ends in the base URL
StoredUnder(s, m) == storedMethods[s][m]

\* fault: what arrives replaces what is there
Overwriting(new) == [m \in Methods |-> IF new[m] # None THEN new[m] ELSE methods[m]]

\* addRoutesToCache: what is there stays
AddRoutesToCache(new) == [m \in Methods |-> IF methods[m] # None THEN methods[m] ELSE new[m]]

\* fetchRemoteMethodsMetadata: restoreFromLocalStorage first, then the server is asked
Restored(s, ids) == [m \in Methods |-> IF m \in ids THEN StoredUnder(s, m) ELSE None]

Fetch(s, ids) ==
  LET missing == {id \in ids : AddRoutesToCache(Restored(s, ids))[id] = None} IN
  /\ methods' = AddRoutesToCache(Restored(s, ids)) /\ fns' = FnsRestored(s)
  /\ restored' = restored \cup {m \in Methods : methods[m] = None /\ Restored(s, ids)[m] # None}
  /\ talked' = talked \cup {s}
  /\ IF missing # {} /\ Describes(s, missing)
       THEN /\ Cardinality(answers) < MaxInFlight
            /\ answers' = answers \cup {AnswerTo(s, missing)}
       ELSE UNCHANGED answers
  /\ UNCHANGED <<serves, storage>>

\* an optimistic call asks for all its ids and restores nothing
AskAlong(s, ids) ==
  /\ \E id \in ids : methods[id] = None
  /\ Describes(s, ids) /\ Cardinality(answers) < MaxInFlight
  /\ answers' = answers \cup {AnswerTo(s, ids)}
  /\ UNCHANGED <<serves, page, storage>>

\* storeDependencies, one setItem after the other: these were stored, those refused; an
\* item that is refused leaves what was under its key
StoreFns(a, ts, lost) ==
  /\ storedFns' = [storedFns EXCEPT ![a.server] = @ \cup ts]
  /\ refused' = [refused EXCEPT ![a.server] = (@ \cup (lost \ storedFns[a.server])) \ ts]
  /\ Cardinality(UNION {refused'[s] : s \in Servers}) <= MaxRefused

\* storeMethodsMetadata, likewise
StoreMethods(a, ids) ==
  storedMethods' = [storedMethods EXCEPT ![a.server] =
    [m \in Methods |-> IF m \in ids /\ a.methods[m] # None THEN a.methods[m] ELSE @[m]]]

\* fault: what was refused is not used either
OnlyStored(a, ts) == ts

\* addToCaches adds all of an answer, whatever was stored of it
Added(a, ts) == a.fns

\* processMethodsMetadata
Receive(a, ts, ids) ==
  /\ a \in answers /\ answers' = answers \ {a}
  /\ StoreFns(a, ts, a.fns \ ts) /\ StoreMethods(a, ids)
  /\ fns' = fns \cup Added(a, ts)
  /\ methods' = AddRoutesToCache(a.methods)
  /\ talked' = talked \cup {a.server}
  /\ UNCHANGED <<serves, restored>>

\* fault: the methods are stored before the functions
MethodsFirst(a, tried, ids) == tried # {} => ids = Methods

\* how far it may have come when the page is gone: the functions are tried first
StoredSoFar(a, tried, ids) == ids # {} => tried = a.fns

PageGone == methods' = Nothing /\ fns' = {} /\ restored' = {} /\ talked' = {} /\ answers' = {}

CutShort(a, ts, lost, ids) ==
  /\ a \in answers /\ StoredSoFar(a, ts \cup lost, ids)
  /\ StoreFns(a, ts, lost) /\ StoreMethods(a, ids) /\ PageGone
  /\ UNCHANGED serves

Lose(a) ==
  /\ a \in answers /\ answers' = answers \ {a}
  /\ UNCHANGED <<serves, page, storage>>

Reload == PageGone /\ UNCHANGED <<serves, storage>>

Next ==
  \/ \E s \in Servers, m \in Methods, t \in Types \cup {None} : Deploy(s, m, t)
  \/ \E s \in Servers, ids \in SUBSET Methods \ {{}} : Fetch(s, ids) \/ AskAlong(s, ids)
  \/ \E a \in answers : Lose(a)
  \/ \E a \in answers : \E ts \in SUBSET a.fns, ids \in SUBSET Methods :
       Receive(a, ts, ids) \/ \E lost \in SUBSET (a.fns \ ts) : CutShort(a, ts, lost, ids)
  \/ Reload

Spec == Init /\ [][Next]_vars
-----------------------------------------------------------------------------
(* Properties *)

\* Types of every variable.
TypeOK ==
  /\ serves \in [Servers -> [Methods -> Types \cup {None}]]
  /\ methods \in [Methods -> Types \cup {None}] /\ fns \subseteq Types /\ restored \subseteq Methods
  /\ storedMethods \in [Servers -> [Methods -> Types \cup {None}]]
  /\ storedFns \in [Servers -> SUBSET Types] /\ refused \in [Servers -> SUBSET Types]
  /\ answers \subseteq [server : Servers, methods : [Methods -> Types \cup {None}], fns : SUBSET Types]
  /\ talked \subseteq Servers

\* getJitFunctionsFromHash finds every function of the type, and those find what they call
Closed(S) == \A v \in S : RtDeps[v] \subseteq S
Usable(t, known) == \E S \in SUBSET known : t \in S /\ Closed(S)

\* what the storage of the servers this page has to do with did not take
Refused == UNION {refused[s] : s \in talked}

\* A method a server described to the page can be used: no call fails for a compiled
\* function that is missing.  One that came back from the storage after a reload can be
\* used too, wherever an earlier page was cut off while it stored an answer, but for
\* functions the storage refused (clientMethodsMetadata.ts:64-92, routerUtils.ts:205).
Resolvable ==
  \A m \in Methods :
    methods[m] # None => Usable(methods[m], IF m \in restored THEN fns \cup Refused ELSE fns)

\* What the page holds and what it stored has its type, and can be used.
MetadataUsable == TypeOK /\ Resolvable

\* A page that has talked to one server describes methods as that server does or
\* did: nothing another server at another base URL stored ever leaks into it.
OneServerMemory ==
  \A s \in Servers : talked \subseteq {s} =>
    \A m \in Methods : methods[m] \in TypesOf[s][m] \cup {None}

\* While a page lives the description of a method does not change under the calls
\* that were serialized with it, whatever is deployed and whichever answers arrive.
SteadyMetadata ==
  [][\A m \in Methods : methods[m] # None => methods'[m] = methods[m] \/ PageGone]_vars
=============================================================================
