----------------------- MODULE MethodsCatalogueProofs -----------------------
(* That what a page knows of remote methods can be used, for any servers,  *)
(* methods, types and dependencies between types.                          *)
EXTENDS MethodsCatalogue, TLAPS

\* serializeJitFn's result is closed and holds what it was asked for.
LEMMA FnsForClosed ==
  ASSUME NEW ts, ts \subseteq Types
  PROVE  FnsFor(ts) \subseteq Types /\ ts \subseteq FnsFor(ts) /\ Closed(FnsFor(ts))
<1>1. FnsFor(ts) \subseteq Types /\ ts \subseteq FnsFor(ts)
  BY DEF FnsFor
<1>2. ASSUME NEW u \in FnsFor(ts), NEW v \in RtDeps[u]
      PROVE  v \in FnsFor(ts)
  <2>1. v \in Types
    BY <1>1, CatalogueAssumption
  <2>2. ASSUME NEW S \in SUBSET Types, ts \subseteq S, \A w \in S : RtDeps[w] \subseteq S
        PROVE  v \in S
    BY <2>2 DEF FnsFor
  <2> QED
    BY <2>1, <2>2 DEF FnsFor
<1> QED
  BY <1>1, <1>2 DEF Closed

\* What is usable stays usable when more functions are known.
LEMMA UsableMonotone ==
  ASSUME NEW t, NEW known, NEW more, known \subseteq more, Usable(t, known)
  PROVE  Usable(t, more)
BY DEF Usable
-----------------------------------------------------------------------------
(* Type correctness *)

MethodTypes == [Methods -> Types \cup {None}]

\* An answer has its type.
LEMMA AnswerTyped ==
  ASSUME TypeOK, NEW s \in Servers, NEW ids \in SUBSET Methods, Describes(s, ids)
  PROVE  /\ AnswerTo(s, ids) \in [server : Servers, methods : MethodTypes, fns : SUBSET Types]
         /\ \A m \in Methods : AnswerTo(s, ids).methods[m] # None
              => Usable(AnswerTo(s, ids).methods[m], AnswerTo(s, ids).fns)
<1> DEFINE ts == {serves[s][m] : m \in Described(ids)}
<1>1. Described(ids) \subseteq Methods
  BY CatalogueAssumption DEF Described
<1>2. \A m \in Methods : serves[s][m] \in Types \cup {None}
  BY DEF TypeOK
<1>3. ts \subseteq Types
  BY <1>1, <1>2 DEF Describes
<1>4. FnsFor(ts) \subseteq Types /\ ts \subseteq FnsFor(ts) /\ Closed(FnsFor(ts))
  BY <1>3, FnsForClosed
<1>5. [m \in Methods |-> IF m \in Described(ids) THEN serves[s][m] ELSE None] \in MethodTypes
  BY <1>2 DEF MethodTypes
<1>6. AnswerTo(s, ids) = [server |-> s,
        methods |-> [m \in Methods |-> IF m \in Described(ids) THEN serves[s][m] ELSE None],
        fns |-> FnsFor(ts)]
  BY DEF AnswerTo
<1>7. AnswerTo(s, ids) \in [server : Servers, methods : MethodTypes, fns : SUBSET Types]
  <2> HIDE DEF ts
  <2> QED BY <1>4, <1>5, <1>6
<1>8. ASSUME NEW m \in Methods, AnswerTo(s, ids).methods[m] # None
      PROVE  Usable(AnswerTo(s, ids).methods[m], AnswerTo(s, ids).fns)
  <2>1. m \in Described(ids) /\ AnswerTo(s, ids).methods[m] = serves[s][m]
    BY <1>6, <1>8
  <2>2. serves[s][m] \in FnsFor(ts)
    BY <2>1, <1>4
  <2>3. AnswerTo(s, ids).fns = FnsFor(ts)
    BY <1>6
  <2> QED
    BY <2>1, <2>2, <2>3, <1>4 DEF Usable
<1> QED
  BY <1>7, <1>8
\* What a page adds to its metadata has its type, and comes from one of the two.
LEMMA AddedFromEither ==
  ASSUME TypeOK, NEW new \in MethodTypes
  PROVE  /\ AddRoutesToCache(new) \in MethodTypes
         /\ \A m \in Methods : \/ AddRoutesToCache(new)[m] = methods[m]
                               \/ methods[m] = None /\ AddRoutesToCache(new)[m] = new[m]
BY DEF AddRoutesToCache, MethodTypes, TypeOK

\* What a page restores has its type, and comes from its storage.
LEMMA RestoredTyped ==
  ASSUME TypeOK, NEW s \in Servers, NEW ids
  PROVE  /\ Restored(s, ids) \in MethodTypes
         /\ \A m \in Methods : Restored(s, ids)[m] \in {None, storedMethods[s][m]}
BY DEF Restored, StoredUnder, MethodTypes, TypeOK

\* The storage after the functions ts and the methods ids of an answer were written
\* and the functions lost were refused.
LEMMA StorageTyped ==
  ASSUME TypeOK, NEW a \in answers, NEW ts \in SUBSET a.fns, NEW lost \in SUBSET a.fns, NEW ids,
         StoreFns(a, ts, lost), StoreMethods(a, ids)
  PROVE  /\ storedFns' \in [Servers -> SUBSET Types] /\ refused' \in [Servers -> SUBSET Types]
         /\ storedMethods' \in [Servers -> MethodTypes]
         /\ \A s \in Servers : /\ storedFns[s] \cup refused[s] \subseteq storedFns'[s] \cup refused'[s]
                              /\ refused[s] \subseteq refused'[s] \cup ts
         /\ ts \cup lost \subseteq storedFns'[a.server] \cup refused'[a.server]
         /\ \A s \in Servers, m \in Methods :
              \/ storedMethods'[s][m] = storedMethods[s][m]
              \/ s = a.server /\ m \in ids /\ a.methods[m] # None
                   /\ storedMethods'[s][m] = a.methods[m]
<1>1. a.server \in Servers /\ a.methods \in MethodTypes /\ a.fns \subseteq Types
  BY DEF TypeOK, MethodTypes
<1>2. /\ storedFns' \in [Servers -> SUBSET Types] /\ refused' \in [Servers -> SUBSET Types]
      /\ \A s \in Servers : /\ storedFns[s] \cup refused[s] \subseteq storedFns'[s] \cup refused'[s]
                           /\ refused[s] \subseteq refused'[s] \cup ts
      /\ ts \cup lost \subseteq storedFns'[a.server] \cup refused'[a.server]
  <2>1. /\ storedFns' = [storedFns EXCEPT ![a.server] = @ \cup ts]
        /\ refused' = [refused EXCEPT ![a.server] = (@ \cup (lost \ storedFns[a.server])) \ ts]
    BY DEF StoreFns
  <2> QED
    BY <1>1, <2>1 DEF TypeOK
<1> DEFINE after == [m \in Methods |->
      IF m \in ids /\ a.methods[m] # None THEN a.methods[m] ELSE storedMethods[a.server][m]]
<1>3. storedMethods' = [storedMethods EXCEPT ![a.server] = after]
  BY DEF StoreMethods
<1>4. after \in MethodTypes
  BY <1>1 DEF MethodTypes, TypeOK
<1>5. storedMethods \in [Servers -> MethodTypes]
  BY DEF TypeOK, MethodTypes
<1>6. storedMethods' \in [Servers -> MethodTypes]
  <2> HIDE DEF after
  <2> QED BY <1>1, <1>3, <1>4, <1>5
<1>7. ASSUME NEW s \in Servers, NEW m \in Methods
      PROVE  \/ storedMethods'[s][m] = storedMethods[s][m]
             \/ s = a.server /\ m \in ids /\ a.methods[m] # None
                  /\ storedMethods'[s][m] = a.methods[m]
  BY <1>1, <1>3, <1>5
<1> QED
  BY <1>2, <1>6, <1>7
-----------------------------------------------------------------------------
(* The invariant *)

\* Answers carry what they need, and so does the storage of every server, but for what
\* it refused: a page that restores from it, or receives an answer, is left with methods
\* it can use as far as Resolvable says.
AnswersWhole ==
  \A a \in answers, m \in Methods : a.methods[m] # None => Usable(a.methods[m], a.fns)
StorageWhole ==
  \A s \in Servers, m \in Methods :
    storedMethods[s][m] # None => Usable(storedMethods[s][m], storedFns[s] \cup refused[s])
IInv == TypeOK /\ AnswersWhole /\ StorageWhole /\ Resolvable

\* At first nothing is known of any method.
LEMMA InitHolds == Init => IInv
BY DEF Init, IInv, TypeOK, AnswersWhole, StorageWhole, Resolvable, Nothing

\* Writing an answer, wholly or up to where the page was gone, keeps the storage whole.
LEMMA StorageStaysWhole ==
  ASSUME IInv, NEW a \in answers, NEW ts \in SUBSET a.fns, NEW lost \in SUBSET a.fns, NEW ids \in SUBSET Methods,
         ids # {} => ts \cup lost = a.fns, StoreFns(a, ts, lost), StoreMethods(a, ids)
  PROVE  StorageWhole'
<1> SUFFICES ASSUME NEW s \in Servers, NEW m \in Methods, storedMethods'[s][m] # None
             PROVE  Usable(storedMethods'[s][m], storedFns'[s] \cup refused'[s])
  BY DEF StorageWhole, Usable, Closed
<1>1. TypeOK
  BY DEF IInv
<1>2. /\ \A r \in Servers : storedFns[r] \cup refused[r] \subseteq storedFns'[r] \cup refused'[r]
      /\ ts \cup lost \subseteq storedFns'[a.server] \cup refused'[a.server]
      /\ \A r \in Servers, n \in Methods :
           \/ storedMethods'[r][n] = storedMethods[r][n]
           \/ r = a.server /\ n \in ids /\ a.methods[n] # None
                /\ storedMethods'[r][n] = a.methods[n]
  BY <1>1, StorageTyped
<1>3. CASE storedMethods'[s][m] = storedMethods[s][m]
  <2>1. Usable(storedMethods[s][m], storedFns[s] \cup refused[s])
    BY <1>3 DEF IInv, StorageWhole
  <2>2. storedFns[s] \cup refused[s] \subseteq storedFns'[s] \cup refused'[s]
    BY <1>2
  <2> QED
    BY <1>3, <2>1, <2>2, UsableMonotone
<1>4. CASE s = a.server /\ m \in ids /\ a.methods[m] # None /\ storedMethods'[s][m] = a.methods[m]
  <2>1. Usable(a.methods[m], a.fns)
    BY <1>4 DEF IInv, AnswersWhole
  <2>2. a.fns \subseteq storedFns'[s] \cup refused'[s]
    BY <1>2, <1>4
  <2> QED
    BY <1>4, <2>1, <2>2, UsableMonotone
<1> QED
  BY <1>2, <1>3, <1>4

\* A page that adds methods it can use is left with methods it can use.
LEMMA AddedResolvable ==
  ASSUME TypeOK, Resolvable, NEW new \in MethodTypes, fns \subseteq fns',
         fns \cup Refused \subseteq fns' \cup Refused',
         \A m \in Methods : methods[m] # None => (m \in restored' <=> m \in restored),
         \A m \in Methods : methods[m] = None /\ new[m] # None =>
           \/ Usable(new[m], fns')
           \/ m \in restored' /\ Usable(new[m], fns' \cup Refused'),
         methods' = AddRoutesToCache(new)
  PROVE  Resolvable'
<1> SUFFICES ASSUME NEW m \in Methods, methods'[m] # None
             PROVE  Usable(methods'[m], IF m \in restored' THEN fns' \cup Refused' ELSE fns')
  BY DEF Resolvable, Usable, Closed, Refused
<1>1. \/ methods'[m] = methods[m] /\ methods[m] # None
      \/ methods[m] = None /\ methods'[m] = new[m]
  BY AddedFromEither
<1>2. CASE methods'[m] = methods[m] /\ methods[m] # None
  <2>1. Usable(methods[m], IF m \in restored THEN fns \cup Refused ELSE fns)
    BY <1>2 DEF Resolvable
  <2> QED
    BY <1>2, <2>1, UsableMonotone
<1>3. CASE methods[m] = None /\ methods'[m] = new[m]
  BY <1>3, UsableMonotone
<1> QED
  BY <1>1, <1>2, <1>3

\* Where neither page nor storage changes, what they hold is as usable as it was.
LEMMA HeldAsItIs ==
  ASSUME StorageWhole, Resolvable, UNCHANGED <<page, storage>>
  PROVE  StorageWhole' /\ Resolvable'
<1>1. UNCHANGED <<methods, fns, restored, talked, storedMethods, storedFns, refused>>
  BY DEF page, storage
<1>2. Refused' = Refused
  BY <1>1 DEF Refused
<1>3. StorageWhole'
  BY <1>1 DEF StorageWhole, Usable, Closed
<1>4. Resolvable'
  BY <1>1, <1>2 DEF Resolvable, Usable, Closed
<1> QED
  BY <1>3, <1>4

\* Every step keeps the invariant.
LEMMA StepHolds == IInv /\ [Next]_vars => IInv'
<1> SUFFICES ASSUME IInv, [Next]_vars
             PROVE  IInv'
  OBVIOUS
<1>0. TypeOK /\ AnswersWhole /\ StorageWhole /\ Resolvable
  BY DEF IInv
<1>1. CASE UNCHANGED vars
  <2>1. UNCHANGED <<page, storage>>
    BY <1>1 DEF vars
  <2>2. StorageWhole' /\ Resolvable'
    BY <1>0, <2>1, HeldAsItIs
  <2>3. TypeOK' /\ AnswersWhole'
    BY <1>0, <1>1 DEF TypeOK, AnswersWhole, Usable, Closed, vars, page, storage
  <2> QED
    BY <2>2, <2>3 DEF IInv
<1>2. ASSUME NEW s \in Servers, NEW m \in Methods, NEW t \in Types \cup {None}, Deploy(s, m, t)
      PROVE  IInv'
  <2>1. serves' \in [Servers -> [Methods -> Types \cup {None}]]
    <3>1. [serves[s] EXCEPT ![m] = t] \in [Methods -> Types \cup {None}]
      BY <1>0 DEF TypeOK
    <3>2. serves' = [serves EXCEPT ![s] = [serves[s] EXCEPT ![m] = t]]
      BY <1>2 DEF Deploy
    <3> QED
      BY <1>0, <3>1, <3>2 DEF TypeOK
  <2>2. UNCHANGED <<methods, fns, restored, talked, storedMethods, storedFns, refused, answers>>
    BY <1>2 DEF Deploy, page, storage
  <2>3. TypeOK'
    BY <1>0, <2>1, <2>2 DEF TypeOK
  <2>4. AnswersWhole'
    BY <1>0, <2>2 DEF AnswersWhole, Usable, Closed
  <2>5. StorageWhole' /\ Resolvable'
    BY <1>0, <2>2, HeldAsItIs DEF page, storage
  <2> QED
    BY <2>3, <2>4, <2>5 DEF IInv
<1>3. ASSUME NEW s \in Servers, NEW ids \in SUBSET Methods, Fetch(s, ids)
      PROVE  IInv'
  <2>1. Restored(s, ids) \in MethodTypes
    BY <1>0, RestoredTyped
  <2>2. /\ methods' = AddRoutesToCache(Restored(s, ids)) /\ fns' = fns \cup storedFns[s]
        /\ restored' = restored \cup {m \in Methods : methods[m] = None /\ Restored(s, ids)[m] # None}
        /\ talked' = talked \cup {s}
        /\ UNCHANGED <<serves, storedMethods, storedFns, refused>>
    BY <1>3 DEF Fetch, FnsRestored, storage
  <2>3. Resolvable'
    <3>1. Refused \subseteq Refused' /\ refused[s] \subseteq Refused'
      BY <2>2 DEF Refused
    <3>2. ASSUME NEW m \in Methods, methods[m] = None, Restored(s, ids)[m] # None
          PROVE  m \in restored' /\ Usable(Restored(s, ids)[m], fns' \cup Refused')
      <4>1. Restored(s, ids)[m] = storedMethods[s][m]
        BY <1>0, <3>2, RestoredTyped
      <4>2. storedFns[s] \cup refused[s] \subseteq fns' \cup Refused'
        BY <2>2, <3>1
      <4>3. Usable(Restored(s, ids)[m], storedFns[s] \cup refused[s])
        BY <1>0, <3>2, <4>1 DEF StorageWhole
      <4> QED
        BY <2>2, <3>2, <4>2, <4>3, UsableMonotone
    <3> QED
      BY <1>0, <2>1, <2>2, <3>1, <3>2, AddedResolvable
  <2>4. methods' \in MethodTypes
    BY <1>0, <2>1, <2>2, AddedFromEither
  <2>5. /\ answers' \subseteq [server : Servers, methods : MethodTypes, fns : SUBSET Types]
        /\ AnswersWhole'
    <3> DEFINE missing == {id \in ids : AddRoutesToCache(Restored(s, ids))[id] = None}
    <3>1. CASE UNCHANGED answers
      BY <1>0, <3>1 DEF TypeOK, AnswersWhole, MethodTypes, Usable, Closed
    <3>2. CASE Describes(s, missing) /\ answers' = answers \cup {AnswerTo(s, missing)}
      <4>1. missing \in SUBSET Methods
        OBVIOUS
      <4> HIDE DEF missing
      <4>2. /\ AnswerTo(s, missing) \in [server : Servers, methods : MethodTypes, fns : SUBSET Types]
            /\ \A m \in Methods : AnswerTo(s, missing).methods[m] # None
                 => Usable(AnswerTo(s, missing).methods[m], AnswerTo(s, missing).fns)
        BY <1>0, <3>2, <4>1, AnswerTyped
      <4> QED
        BY <1>0, <3>2, <4>2 DEF TypeOK, AnswersWhole, MethodTypes, Usable, Closed
    <3> QED
      BY <1>3, <3>1, <3>2 DEF Fetch
  <2>6. StorageWhole'
    BY <1>0, <2>2 DEF StorageWhole, Usable, Closed
  <2>7. TypeOK'
    BY <1>0, <2>2, <2>4, <2>5 DEF TypeOK, MethodTypes
  <2> QED
    BY <2>3, <2>5, <2>6, <2>7 DEF IInv
<1>4. ASSUME NEW s \in Servers, NEW ids \in SUBSET Methods, AskAlong(s, ids)
      PROVE  IInv'
  <2>1. /\ AnswerTo(s, ids) \in [server : Servers, methods : MethodTypes, fns : SUBSET Types]
        /\ \A m \in Methods : AnswerTo(s, ids).methods[m] # None
             => Usable(AnswerTo(s, ids).methods[m], AnswerTo(s, ids).fns)
    BY <1>0, <1>4, AnswerTyped DEF AskAlong
  <2>2. /\ answers' = answers \cup {AnswerTo(s, ids)}
        /\ UNCHANGED <<serves, methods, fns, restored, talked, storedMethods, storedFns, refused>>
    BY <1>4 DEF AskAlong, page, storage
  <2>3. AnswersWhole'
    BY <1>0, <2>1, <2>2 DEF AnswersWhole, Usable, Closed
  <2>4. StorageWhole' /\ Resolvable'
    BY <1>0, <2>2, HeldAsItIs DEF page, storage
  <2>5. TypeOK'
    BY <1>0, <2>1, <2>2 DEF TypeOK, MethodTypes
  <2> QED
    BY <2>3, <2>4, <2>5 DEF IInv
<1>5. ASSUME NEW a \in answers, NEW ts \in SUBSET a.fns, NEW ids \in SUBSET Methods, Receive(a, ts, ids)
      PROVE  IInv'
  <2>1. /\ answers' = answers \ {a}
        /\ StoreFns(a, ts, a.fns \ ts) /\ StoreMethods(a, ids)
        /\ fns' = fns \cup a.fns /\ methods' = AddRoutesToCache(a.methods)
        /\ talked' = talked \cup {a.server} /\ UNCHANGED <<serves, restored>>
    BY <1>5 DEF Receive, Added
  <2>2. a.server \in Servers /\ a.methods \in MethodTypes /\ a.fns \subseteq Types
    BY <1>0 DEF TypeOK, MethodTypes
  <2> DEFINE lost == a.fns \ ts
  <2>3. lost \in SUBSET a.fns /\ ts \cup lost = a.fns /\ StoreFns(a, ts, lost)
    BY <2>1
  <2> HIDE DEF lost
  <2>4. StorageWhole'
    BY <2>1, <2>3, StorageStaysWhole
  <2>5. /\ storedFns' \in [Servers -> SUBSET Types] /\ storedMethods' \in [Servers -> MethodTypes]
        /\ refused' \in [Servers -> SUBSET Types]
        /\ \A s \in Servers : refused[s] \subseteq refused'[s] \cup ts
    BY <1>0, <2>1, <2>3, StorageTyped
  <2>6. Resolvable'
    <3>1. Refused \subseteq fns' \cup Refused'
      <4>1. talked \subseteq Servers
        BY <1>0 DEF TypeOK
      <4> QED
        BY <2>1, <2>5, <4>1 DEF Refused
    <3>2. \A m \in Methods : a.methods[m] # None => Usable(a.methods[m], fns')
      BY <1>0, <2>1, UsableMonotone DEF AnswersWhole
    <3> QED
      BY <1>0, <2>1, <2>2, <3>1, <3>2, AddedResolvable
  <2>7. methods' \in MethodTypes
    BY <1>0, <2>1, <2>2, AddedFromEither
  <2>8. TypeOK'
    BY <1>0, <2>1, <2>2, <2>5, <2>7 DEF TypeOK, MethodTypes
  <2>9. AnswersWhole'
    BY <1>0, <2>1 DEF AnswersWhole, Usable, Closed
  <2> QED
    BY <2>4, <2>6, <2>8, <2>9 DEF IInv
<1>6. ASSUME NEW a \in answers, Lose(a)
      PROVE  IInv'
  <2>1. StorageWhole' /\ Resolvable'
    BY <1>0, <1>6, HeldAsItIs DEF Lose
  <2>2. TypeOK' /\ AnswersWhole'
    BY <1>0, <1>6 DEF Lose, TypeOK, AnswersWhole, Usable, Closed, page, storage
  <2> QED
    BY <2>1, <2>2 DEF IInv
<1>7. ASSUME NEW a \in answers, NEW ts \in SUBSET a.fns, NEW ids \in SUBSET Methods,
             NEW lost \in SUBSET (a.fns \ ts), CutShort(a, ts, lost, ids)
      PROVE  IInv'
  <2>1. /\ StoreFns(a, ts, lost) /\ StoreMethods(a, ids) /\ PageGone
        /\ ids # {} => ts \cup lost = a.fns
        /\ UNCHANGED serves
    BY <1>7 DEF CutShort, StoredSoFar
  <2>2. lost \in SUBSET a.fns
    OBVIOUS
  <2>3. StorageWhole'
    BY <2>1, <2>2, StorageStaysWhole
  <2>4. /\ storedFns' \in [Servers -> SUBSET Types] /\ storedMethods' \in [Servers -> MethodTypes]
        /\ refused' \in [Servers -> SUBSET Types]
    BY <1>0, <2>1, <2>2, StorageTyped
  <2>5. TypeOK' /\ AnswersWhole' /\ Resolvable'
    BY <1>0, <2>1, <2>4 DEF PageGone, TypeOK, MethodTypes, AnswersWhole, Resolvable, Nothing
  <2> QED
    BY <2>3, <2>5 DEF IInv
<1>8. CASE Reload
  BY <1>0, <1>8 DEF Reload, PageGone, Nothing, IInv, TypeOK, AnswersWhole, StorageWhole, Resolvable, Usable, Closed, storage
<1> QED
  BY <1>1, <1>2, <1>3, <1>4, <1>5, <1>6, <1>7, <1>8 DEF Next

\* Whatever servers, methods and types there are, wherever a page was cut off and
\* whatever the storage refused: a method that a server described to the page can be used
\* (routerUtils.ts getMethodJitFns), and one that was restored too, but for functions
\* that were refused.
THEOREM MetadataAlwaysUsable == Spec => []MetadataUsable
<1>1. IInv => MetadataUsable
  BY DEF IInv, MetadataUsable
<1> QED
  BY <1>1, InitHolds, StepHolds, PTL DEF Spec

\* The description of a method is never replaced while its page lives.
THEOREM MetadataSteady == Spec => SteadyMetadata
<1> DEFINE Steady == \A m \in Methods : methods[m] # None => methods'[m] = methods[m] \/ PageGone
<1>1. IInv /\ [Next]_vars => [Steady]_vars
  <2> SUFFICES ASSUME IInv, Next, NEW m \in Methods, methods[m] # None
               PROVE  methods'[m] = methods[m] \/ PageGone
    OBVIOUS
  <2>1. ASSUME NEW new, methods' = AddRoutesToCache(new)
        PROVE  methods'[m] = methods[m]
    BY <2>1 DEF AddRoutesToCache
  <2>2. \/ PageGone
        \/ UNCHANGED methods
        \/ \E s \in Servers, ids \in SUBSET Methods : methods' = AddRoutesToCache(Restored(s, ids))
        \/ \E a \in answers : methods' = AddRoutesToCache(a.methods)
    BY DEF Next, Deploy, Fetch, AskAlong, Receive, Lose, CutShort, Reload, page
  <2> QED
    BY <2>1, <2>2
<1> QED
  BY <1>1, InitHolds, StepHolds, PTL DEF Spec, SteadyMetadata
-----------------------------------------------------------------------------
(* Whose descriptions a page holds *)

\* Every description is one its server gave: today's, those on their way, those
\* stored under its base URL; and the page's come from servers it has talked to.
ServedOwn == \A s \in Servers, m \in Methods : serves[s][m] \in TypesOf[s][m] \cup {None}
AnsweredOwn == \A a \in answers, m \in Methods : a.methods[m] \in TypesOf[a.server][m] \cup {None}
StoredOwn == \A s \in Servers, m \in Methods : storedMethods[s][m] \in TypesOf[s][m] \cup {None}
HeldOwn == \A m \in Methods : methods[m] # None => \E s \in talked : methods[m] \in TypesOf[s][m]
OwnInv == ServedOwn /\ AnsweredOwn /\ StoredOwn /\ HeldOwn

\* At first nobody serves, stores or holds anything.
LEMMA OwnInit == Init => OwnInv
BY DEF Init, OwnInv, ServedOwn, AnsweredOwn, StoredOwn, HeldOwn, Nothing

\* What a server answers is its own.
LEMMA AnswerOwn ==
  ASSUME ServedOwn, NEW s \in Servers, NEW ids
  PROVE  \A m \in Methods : AnswerTo(s, ids).server = s
                          /\ AnswerTo(s, ids).methods[m] \in TypesOf[s][m] \cup {None}
BY DEF ServedOwn, AnswerTo

\* A page that adds the descriptions of one server holds those of servers it has talked to.
LEMMA AddedOwn ==
  ASSUME HeldOwn, NEW s \in Servers, NEW new,
         \A m \in Methods : new[m] \in TypesOf[s][m] \cup {None},
         methods' = AddRoutesToCache(new), talked' = talked \cup {s}
  PROVE  HeldOwn'
<1> SUFFICES ASSUME NEW m \in Methods, methods'[m] # None
             PROVE  \E r \in talked' : methods'[m] \in TypesOf[r][m]
  BY DEF HeldOwn
<1>1. methods'[m] = IF methods[m] # None THEN methods[m] ELSE new[m]
  BY DEF AddRoutesToCache
<1>2. CASE methods[m] # None
  BY <1>1, <1>2 DEF HeldOwn
<1>3. CASE methods[m] = None
  BY <1>1, <1>3
<1> QED
  BY <1>2, <1>3

\* Writing any part of an answer stores descriptions of its server under that server.
LEMMA StoredStaysOwn ==
  ASSUME TypeOK, StoredOwn, AnsweredOwn, NEW a \in answers, NEW ids, StoreMethods(a, ids)
  PROVE  StoredOwn'
<1> SUFFICES ASSUME NEW s \in Servers, NEW m \in Methods
             PROVE  storedMethods'[s][m] \in TypesOf[s][m] \cup {None}
  BY DEF StoredOwn
<1>1. \/ storedMethods'[s][m] = storedMethods[s][m]
      \/ s = a.server /\ m \in ids /\ a.methods[m] # None
           /\ storedMethods'[s][m] = a.methods[m]
  BY DEF StoreMethods, TypeOK
<1> QED
  BY <1>1 DEF StoredOwn, AnsweredOwn

\* Each step keeps methods with the servers they are of.
LEMMA OwnStep == IInv /\ OwnInv /\ [Next]_vars => OwnInv'
<1> SUFFICES ASSUME TypeOK, ServedOwn, AnsweredOwn, StoredOwn, HeldOwn, [Next]_vars
             PROVE  OwnInv'
  BY DEF IInv, OwnInv
<1>1. CASE UNCHANGED vars
  BY <1>1 DEF OwnInv, ServedOwn, AnsweredOwn, StoredOwn, HeldOwn, vars, page, storage
<1>2. ASSUME NEW s \in Servers, NEW m \in Methods, NEW t \in Types \cup {None}, Deploy(s, m, t)
      PROVE  OwnInv'
  <2>1. UNCHANGED <<methods, fns, talked, storedMethods, storedFns, answers>>
    BY <1>2 DEF Deploy, page, storage
  <2>2. ASSUME NEW r \in Servers, NEW n \in Methods
        PROVE  serves'[r][n] = IF r = s /\ n = m THEN t ELSE serves[r][n]
    BY <1>2 DEF Deploy, TypeOK
  <2>3. ServedOwn'
    BY <1>2, <2>2 DEF ServedOwn, Deploy
  <2> QED
    BY <2>1, <2>3 DEF OwnInv, AnsweredOwn, StoredOwn, HeldOwn
<1>3. ASSUME NEW s \in Servers, NEW ids \in SUBSET Methods, Fetch(s, ids)
      PROVE  OwnInv'
  <2>1. /\ methods' = AddRoutesToCache(Restored(s, ids)) /\ talked' = talked \cup {s}
        /\ UNCHANGED <<serves, storedMethods>>
        /\ UNCHANGED answers \/ \E missing : answers' = answers \cup {AnswerTo(s, missing)}
    BY <1>3 DEF Fetch, storage
  <2>2. \A m \in Methods : Restored(s, ids)[m] \in TypesOf[s][m] \cup {None}
    BY RestoredTyped DEF StoredOwn
  <2>3. HeldOwn'
    BY <2>1, <2>2, AddedOwn
  <2>4. AnsweredOwn'
    <3>1. CASE UNCHANGED answers
      BY <3>1 DEF AnsweredOwn
    <3>2. ASSUME NEW missing, answers' = answers \cup {AnswerTo(s, missing)}
          PROVE  AnsweredOwn'
      BY <3>2, AnswerOwn DEF AnsweredOwn
    <3> QED
      BY <2>1, <3>1, <3>2
  <2> QED
    BY <2>1, <2>3, <2>4 DEF OwnInv, ServedOwn, StoredOwn
<1>4. ASSUME NEW s \in Servers, NEW ids \in SUBSET Methods, AskAlong(s, ids)
      PROVE  OwnInv'
  <2>1. /\ answers' = answers \cup {AnswerTo(s, ids)}
        /\ UNCHANGED <<serves, methods, talked, storedMethods>>
    BY <1>4 DEF AskAlong, page, storage
  <2>2. AnsweredOwn'
    BY <2>1, AnswerOwn DEF AnsweredOwn
  <2> QED
    BY <2>1, <2>2 DEF OwnInv, ServedOwn, StoredOwn, HeldOwn
<1>5. ASSUME NEW a \in answers, NEW ts \in SUBSET a.fns, NEW ids \in SUBSET Methods, Receive(a, ts, ids)
      PROVE  OwnInv'
  <2>1. /\ answers' = answers \ {a} /\ StoreMethods(a, ids)
        /\ methods' = AddRoutesToCache(a.methods) /\ talked' = talked \cup {a.server}
        /\ UNCHANGED serves
    BY <1>5 DEF Receive
  <2>2. a.server \in Servers /\ \A m \in Methods : a.methods[m] \in TypesOf[a.server][m] \cup {None}
    BY DEF TypeOK, AnsweredOwn
  <2>3. StoredOwn'
    BY <2>1, StoredStaysOwn
  <2>4. HeldOwn'
    BY <2>1, <2>2, AddedOwn
  <2> QED
    BY <2>1, <2>3, <2>4 DEF OwnInv, ServedOwn, AnsweredOwn
<1>6. ASSUME NEW a \in answers, Lose(a)
      PROVE  OwnInv'
  BY <1>6 DEF Lose, OwnInv, ServedOwn, AnsweredOwn, StoredOwn, HeldOwn, page, storage
<1>7. ASSUME NEW a \in answers, NEW ts \in SUBSET a.fns, NEW ids \in SUBSET Methods,
             NEW lost \in SUBSET (a.fns \ ts), CutShort(a, ts, lost, ids)
      PROVE  OwnInv'
  <2>1. StoreMethods(a, ids) /\ PageGone /\ UNCHANGED serves
    BY <1>7 DEF CutShort
  <2>2. StoredOwn'
    BY <2>1, StoredStaysOwn
  <2> QED
    BY <2>1, <2>2 DEF PageGone, Nothing, OwnInv, ServedOwn, AnsweredOwn, HeldOwn
<1>8. CASE Reload
  BY <1>8 DEF Reload, PageGone, Nothing, OwnInv, ServedOwn, AnsweredOwn, StoredOwn, HeldOwn, storage
<1> QED
  BY <1>1, <1>2, <1>3, <1>4, <1>5, <1>6, <1>7, <1>8 DEF Next

\* A page that talked to one server holds only what that server said of its methods.
THEOREM OneServersWord == Spec => []OneServerMemory
<1>1. OwnInv => OneServerMemory
  BY DEF OwnInv, HeldOwn, OneServerMemory
<1> QED
  BY <1>1, InitHolds, StepHolds, OwnInit, OwnStep, PTL DEF Spec
=============================================================================
