---------------------------- MODULE ClientProofs ----------------------------
(***************************************************************************)
(* Proofs about Client, for any number of calls and prefills and any route *)
(* chains, parameters and handlers: every part of an answer reaches whom   *)
(* it is meant for, once, and a call sends what is due, and again only for *)
(* a reason.                                                               *)
(*                                                                         *)
(* The invariant speaks of one call at a time, of what is in memory and of *)
(* what is prefilled.  Each conjunct says what a call carries where it     *)
(* waits; the operators of the module (Made, Prepared, Resolved, Settled)  *)
(* are each shown to keep it, and an action changes one call by one of     *)
(* them.  What the server answers is a FoldLeft over the chain, whose      *)
(* rounds FoldInduction gives.                                             *)
(***************************************************************************)
EXTENDS Client, FiniteSetTheorems, SequenceTheorems, TLAPS

Walking == INSTANCE FoldInduction WITH Op <- Dispatched

IsFunctionOn(f, S) == f = [x \in S |-> f[x]]

Waits == {"idle", "prefills", "metadata", "fetch", "body", "settled"}
CallFields ==
  {"wait", "route", "own", "subs", "after", "missing", "optimistic", "aborted", "answer", "errors",
   "resolved", "fired", "result", "sent", "ran", "refused", "claimed", "knew", "due"}
AnswerFields == {"down", "values", "declared", "thrown", "refused", "claimed", "meta"}

Shaped(call) ==
  /\ IsFunctionOn(call, CallFields)
  /\ call.wait \in Waits /\ call.sent \in 0 .. Many /\ call.ran \in 0 .. Many

\* Before its first await a call has done nothing, and before it settles it has no result.
Fresh(call) ==
  /\ call.wait \in {"idle", "prefills"} =>
       /\ ~call.optimistic /\ ~call.knew /\ call.sent = 0 /\ call.ran = 0 /\ call.due = {}
       /\ call.subs = NoParams
  /\ call.wait = "metadata" => ~call.optimistic
  /\ call.wait \notin {"body", "settled"} => call.answer = None
  /\ call.wait # "settled" => call.errors = NoParams /\ call.resolved = {} /\ call.fired = <<>>

Named(call) ==
  call.wait # "idle" =>
    call.route \in DOMAIN Chains /\ call.route \in DOMAIN call.own /\ DOMAIN call.own \subseteq Public

Typed(call) ==
  /\ DOMAIN call.subs \subseteq Public \cup {Meta}
  /\ \A id \in DOMAIN call.errors : call.errors[id] \in Kinds
  /\ call.wait = "settled" <=> call.result # None
  /\ Meta \in DOMAIN call.subs => call.optimistic
  /\ call.optimistic /\ call.wait \in {"fetch", "body"} => Meta \in DOMAIN call.subs
  /\ call.wait = "metadata" => call.missing \subseteq DOMAIN call.subs

\* What the caller passed is sent as passed.
Carries(call) ==
  call.wait \notin {"idle", "prefills"} =>
    \A id \in DOMAIN call.own : id \in DOMAIN call.subs /\ call.subs[id] = call.own[id]

\* What was prefilled is still due, and is there once the request is made.
DueKept(call, cache, pre) ==
  /\ call.due \subseteq MiddleFnIds(call.route)
  /\ \A id \in call.due : pre[id] # None
  /\ call.knew => call.route \in cache
  /\ call.knew /\ (call.wait \in {"fetch", "body"} \/ call.answer # None) => call.due \subseteq DOMAIN call.subs

\* A handler gave an error that is taken for a refusal, or the server refused a middleFn
\* that comes behind the route.
Grounds(call) ==
  \/ call.claimed # {}
  \/ \E j, k \in DOMAIN Chains[call.route] :
       /\ j < k /\ Chains[call.route][j] = call.route
       /\ Chains[call.route][k] \in call.refused

Repeats(call) ==
  /\ call.ran > 1 => Grounds(call)
  /\ call.wait \in {"metadata", "fetch"} /\ call.ran > 0 => Grounds(call)
  /\ call.wait = "body" /\ call.ran > 0 /\ TakenForRefusal(call.answer) => Grounds(call)

\* If the server has every id that is asked for, its answer ends the optimism.
Counted(call) ==
  Public \subseteq Known =>
    /\ call.sent <= 2
    /\ call.wait \in {"metadata", "fetch"} => call.sent <= 1
    /\ call.wait = "fetch" /\ call.optimistic => call.sent = 0
    /\ call.wait = "body" /\ call.optimistic => call.sent <= 1
    /\ call.wait = "body" /\ call.optimistic /\ TakenForRefusal(call.answer) =>
         DOMAIN call.subs \ {Meta} \subseteq call.answer.meta

\* Every method of the chain is in one part of the answer at most.
Apart(a, ids) ==
  /\ IsFunctionOn(a, AnswerFields)
  /\ a.values \subseteq ids /\ a.declared \subseteq ids /\ a.thrown \subseteq ids /\ a.refused \subseteq ids
  /\ a.values \cap (a.declared \cup a.thrown \cup a.refused) = {}
  /\ a.thrown \cap (a.declared \cup a.refused) = {} /\ a.declared \cap a.refused = {}
  /\ a.meta \subseteq Public

Answered(call) == call.wait = "body" => Apart(call.answer, ToSet(Chains[call.route]))

HasAnswer(call) == call.wait = "settled" /\ call.answer # None /\ Request \notin DOMAIN call.errors
Own(call) == call.answer.refused \cup (call.answer.declared \cap DOMAIN call.subs)
Nobodys(call) ==
  call.answer.thrown \cup (call.answer.declared \ DOMAIN call.subs) \cup (call.answer.refused \ DOMAIN call.subs)

Slots(call) ==
  HasAnswer(call) =>
    /\ call.result.routeError = (call.route \in Own(call))
    /\ call.result.middleFnErrors = Own(call) \cap MiddleFns(call)
    /\ call.result.routeResult = (call.route \in call.answer.values)
    /\ call.result.middleFnResults = call.answer.values \cap MiddleFns(call)
    /\ (call.result.fatal = None) = (Nobodys(call) = {})
    /\ call.result.fatal # None => call.result.fatal \in Nobodys(call)

IdsOf(fired) == [k \in DOMAIN fired |-> fired[k][1]]
Hears(call) ==
  /\ IsInjective(IdsOf(call.fired))
  /\ HasAnswer(call) =>
       ToSet(IdsOf(call.fired)) =
         MiddleFns(call) \cap (call.answer.values \cup call.answer.declared \cup call.answer.refused)

Good(call, cache, pre) ==
  /\ Shaped(call) /\ Fresh(call) /\ Named(call) /\ Typed(call) /\ Carries(call)
  /\ DueKept(call, cache, pre) /\ Repeats(call) /\ Counted(call) /\ Answered(call)
  /\ Slots(call) /\ Hears(call)

OpInv(op) ==
  op = NoOp \/ (/\ IsFunctionOn(op, {"wait", "setup", "missing"})
                /\ op.wait = "metadata" /\ op.setup \in OpSetups /\ op.missing \subseteq {op.setup.id})

IInv ==
  /\ cached \subseteq Public /\ stored \subseteq Public
  /\ IsFunctionOn(prefilled, Public)
  /\ IsFunctionOn(ops, Ops) /\ \A o \in Ops : OpInv(ops[o])
  /\ IsFunctionOn(calls, Calls) /\ \A c \in Calls : Good(calls[c], cached, prefilled)
-----------------------------------------------------------------------------
(* What the server answers *)

Ends(id, call, behaviour, outcomes) ==
  id \in ToSet(Chains[call.route]) /\ Outcome(id, call, behaviour) \in outcomes

\* So far every method is where its outcome says.
Sorted(a, call, behaviour) ==
  /\ IsFunctionOn(a, AnswerFields) /\ a.meta = {}
  /\ \A id \in a.values : Ends(id, call, behaviour, {"value"})
  /\ \A id \in a.declared : Ends(id, call, behaviour, {"declared", "claims"})
  /\ \A id \in a.thrown : Ends(id, call, behaviour, {"throws", "unread"})
  /\ \A id \in a.refused : Ends(id, call, behaviour, {"refused", "invalid"})

\* One round of the chain keeps every method in its part of the answer.
LEMMA DispatchedSorts ==
  ASSUME NEW call, NEW behaviour, NEW a, Sorted(a, call, behaviour), NEW turn,
         Ends(turn.id, call, behaviour, {turn.outcome})
  PROVE  Sorted(Dispatched(a, turn), call, behaviour)
<1> DEFINE b == Dispatched(a, turn)
<1> USE DEF IsFunctionOn, AnswerFields
<1>1. CASE b = a
  BY <1>1
<1>2. CASE turn.outcome = "refused" /\ b = [a EXCEPT !.refused = @ \cup {turn.id}]
  BY <1>2 DEF Sorted, Ends
<1>3. CASE turn.outcome = "value" /\ b = [a EXCEPT !.values = @ \cup {turn.id}]
  BY <1>3 DEF Sorted, Ends
<1>4. CASE turn.outcome = "declared" /\ b = [a EXCEPT !.declared = @ \cup {turn.id}]
  BY <1>4 DEF Sorted, Ends
<1>5. CASE turn.outcome = "throws" /\ b = [a EXCEPT !.thrown = @ \cup {turn.id}]
  BY <1>5 DEF Sorted, Ends
<1>6. CASE turn.outcome = "claims" /\ b = [a EXCEPT !.declared = @ \cup {turn.id}, !.claimed = @ \cup {turn.id}]
  <2>1. IsFunctionOn(b, AnswerFields) /\ b.declared = a.declared \cup {turn.id}
    BY <1>6 DEF Sorted
  <2>2. \A f \in AnswerFields \ {"declared", "claimed"} : b[f] = a[f]
    BY <1>6 DEF Sorted
  <2>3. b.values = a.values /\ b.thrown = a.thrown /\ b.refused = a.refused /\ b.meta = a.meta
    BY <2>2
  <2>4. /\ a.meta = {} /\ \A id \in a.values : Ends(id, call, behaviour, {"value"})
        /\ \A id \in a.declared : Ends(id, call, behaviour, {"declared", "claims"})
        /\ \A id \in a.thrown : Ends(id, call, behaviour, {"throws", "unread"})
        /\ \A id \in a.refused : Ends(id, call, behaviour, {"refused", "invalid"})
    BY DEF Sorted
  <2>5. Ends(turn.id, call, behaviour, {"declared", "claims"})
    BY <1>6 DEF Ends
  <2> HIDE DEF b
  <2>6. Sorted(b, call, behaviour)
    BY <2>1, <2>3, <2>4, <2>5 DEF Sorted
  <2> QED BY <2>6 DEF b
<1>7. CASE turn.outcome = "unread" /\ b = [a EXCEPT !.thrown = @ \cup {turn.id}, !.claimed = @ \cup {turn.id}]
  <2>1. IsFunctionOn(b, AnswerFields) /\ b.thrown = a.thrown \cup {turn.id}
    BY <1>7 DEF Sorted
  <2>2. \A f \in AnswerFields \ {"thrown", "claimed"} : b[f] = a[f]
    BY <1>7 DEF Sorted
  <2>3. b.values = a.values /\ b.declared = a.declared /\ b.refused = a.refused /\ b.meta = a.meta
    BY <2>2
  <2>4. /\ a.meta = {} /\ \A id \in a.values : Ends(id, call, behaviour, {"value"})
        /\ \A id \in a.declared : Ends(id, call, behaviour, {"declared", "claims"})
        /\ \A id \in a.thrown : Ends(id, call, behaviour, {"throws", "unread"})
        /\ \A id \in a.refused : Ends(id, call, behaviour, {"refused", "invalid"})
    BY DEF Sorted
  <2>5. Ends(turn.id, call, behaviour, {"throws", "unread"})
    BY <1>7 DEF Ends
  <2> HIDE DEF b
  <2>6. Sorted(b, call, behaviour)
    BY <2>1, <2>3, <2>4, <2>5 DEF Sorted
  <2> QED BY <2>6 DEF b
<1>8. CASE turn.outcome = "invalid" /\ b = [a EXCEPT !.refused = @ \cup {turn.id}, !.claimed = @ \cup {turn.id}]
  <2>1. IsFunctionOn(b, AnswerFields) /\ b.refused = a.refused \cup {turn.id}
    BY <1>8 DEF Sorted
  <2>2. \A f \in AnswerFields \ {"refused", "claimed"} : b[f] = a[f]
    BY <1>8 DEF Sorted
  <2>3. b.values = a.values /\ b.declared = a.declared /\ b.thrown = a.thrown /\ b.meta = a.meta
    BY <2>2
  <2>4. /\ a.meta = {} /\ \A id \in a.values : Ends(id, call, behaviour, {"value"})
        /\ \A id \in a.declared : Ends(id, call, behaviour, {"declared", "claims"})
        /\ \A id \in a.thrown : Ends(id, call, behaviour, {"throws", "unread"})
        /\ \A id \in a.refused : Ends(id, call, behaviour, {"refused", "invalid"})
    BY DEF Sorted
  <2>5. Ends(turn.id, call, behaviour, {"refused", "invalid"})
    BY <1>8 DEF Ends
  <2> HIDE DEF b
  <2>6. Sorted(b, call, behaviour)
    BY <2>1, <2>3, <2>4, <2>5 DEF Sorted
  <2> QED BY <2>6 DEF b
<1> QED BY <1>1, <1>2, <1>3, <1>4, <1>5, <1>6, <1>7, <1>8 DEF Dispatched

\* The chain as a whole does.
LEMMA AnswerSorted ==
  ASSUME NEW call, call.route \in DOMAIN Chains, NEW behaviour
  PROVE  Sorted(FoldLeft(Dispatched, Answer, Turns(call, behaviour)), call, behaviour)
<1> DEFINE ids == Chains[call.route]
           turns == Turns(call, behaviour)
           T == {turns[k] : k \in DOMAIN turns}
<1>1. ids \in Seq(ToSet(ids))
  BY ChainsAssumption
<1>2. Len(ids) \in Nat /\ DOMAIN ids = 1 .. Len(ids) /\ \A k \in 1 .. Len(ids) : ids[k] \in ToSet(ids)
  BY <1>1 DEF ToSet
<1>3. /\ DOMAIN turns = 1 .. Len(ids)
      /\ \A k \in 1 .. Len(ids) : /\ turns[k].id = ids[k]
                                  /\ turns[k].outcome = Outcome(ids[k], call, behaviour)
  BY <1>2 DEF Turns
<1>4. turns \in Seq(T) /\ Len(turns) = Len(ids)
  <2>1. turns = [k \in 1 .. Len(ids) |-> turns[k]]
    BY <1>2 DEF Turns
  <2> HIDE DEF turns
  <2>2. turns \in Seq(T)
    BY <1>2, <2>1, IsASeq
  <2> QED BY <1>2, <1>3, <2>2, LenProperties
<1> HIDE DEF turns
<1>5. PICK run : /\ run[0] = Answer
                 /\ \A n \in 1 .. Len(turns) : run[n] = Dispatched(run[n - 1], turns[n])
                 /\ Walking!Fold(Answer, turns) = run[Len(turns)]
  BY <1>4, Walking!FoldLeftRuns
<1> DEFINE H == {n \in Nat : n <= Len(ids) => Sorted(run[n], call, behaviour)}
<1>6. 0 \in H
  BY <1>5 DEF Sorted, Answer, IsFunctionOn, AnswerFields
<1>7. ASSUME NEW n \in H PROVE n + 1 \in H
  <2> SUFFICES ASSUME n + 1 <= Len(ids) PROVE Sorted(run[n + 1], call, behaviour)
    OBVIOUS
  <2>1. Sorted(run[n], call, behaviour) /\ n + 1 \in 1 .. Len(ids)
    BY <1>2
  <2>2. run[n + 1] = Dispatched(run[n], turns[n + 1])
    BY <1>4, <1>5, <2>1
  <2>3. Ends(turns[n + 1].id, call, behaviour, {turns[n + 1].outcome})
    BY <1>2, <1>3, <2>1 DEF Ends
  <2> QED BY <2>1, <2>2, <2>3, DispatchedSorts
<1>8. H \in SUBSET Nat
  OBVIOUS
<1>9. Len(ids) \in H
  <2> HIDE DEF H
  <2> QED BY <1>2, <1>6, <1>7, <1>8, Walking!Induction
<1>10. Sorted(run[Len(ids)], call, behaviour)
  BY <1>2, <1>9
<1>11. FoldLeft(Dispatched, Answer, turns) = Walking!Fold(Answer, turns)
  BY DEF Walking!Fold, FoldLeft, Walking!FoldLeft, MapThenFoldSet, Walking!MapThenFoldSet, Max, Walking!Max
<1> QED BY <1>4, <1>5, <1>10, <1>11 DEF turns

\* Metadata is given of public methods only.
LEMMA MetadataPublic ==
  ASSUME NEW ids \in SUBSET Public
  PROVE  MetadataOf(ids) \subseteq Public
BY DEF MetadataOf, MiddleFnIds

\* If the server has all that is asked for, it describes all of it.
LEMMA MetadataWhole ==
  ASSUME NEW ids \in SUBSET Public, Public \subseteq Known
  PROVE  ids \subseteq MetadataOf(ids)
BY DEF MetadataOf

\* In the answer to a call no method is in two parts; the metadata asked for is in it.
LEMMA AnswerApart ==
  ASSUME NEW call, call.route \in DOMAIN Chains, DOMAIN call.subs \subseteq Public \cup {Meta},
         NEW behaviour
  PROVE  LET a == AnswerTo(call, behaviour) IN
           /\ Apart(a, ToSet(Chains[call.route]))
           /\ Public \subseteq Known /\ Meta \in DOMAIN call.subs =>
                DOMAIN call.subs \ {Meta} \subseteq a.meta
<1> DEFINE f == FoldLeft(Dispatched, Answer, Turns(call, behaviour))
           asked == DOMAIN call.subs \ {Meta}
           a == AnswerTo(call, behaviour)
           ids == ToSet(Chains[call.route])
<1>1. Sorted(f, call, behaviour)
  BY AnswerSorted
<1>2. a = IF Meta \in DOMAIN call.subs THEN [f EXCEPT !.meta = MetadataOf(asked)] ELSE f
  BY DEF AnswerTo
<1> HIDE DEF f, a
<1>3. asked \in SUBSET Public
  OBVIOUS
<1>4. MetadataOf(asked) \subseteq Public /\ (Public \subseteq Known => asked \subseteq MetadataOf(asked))
  BY <1>3, MetadataPublic, MetadataWhole
<1> HIDE DEF asked
<1>5. /\ IsFunctionOn(f, AnswerFields)
      /\ f.values \subseteq ids /\ f.declared \subseteq ids /\ f.thrown \subseteq ids /\ f.refused \subseteq ids
      /\ f.values \cap (f.declared \cup f.thrown \cup f.refused) = {}
      /\ f.thrown \cap (f.declared \cup f.refused) = {} /\ f.declared \cap f.refused = {}
      /\ f.meta = {}
  BY <1>1 DEF Sorted, Ends
<1>6. /\ IsFunctionOn(a, AnswerFields)
      /\ a.values = f.values /\ a.declared = f.declared /\ a.thrown = f.thrown /\ a.refused = f.refused
      /\ a.meta = IF Meta \in DOMAIN call.subs THEN MetadataOf(asked) ELSE {}
  BY <1>2, <1>5 DEF IsFunctionOn, AnswerFields
<1>7. Apart(a, ids)
  BY <1>4, <1>5, <1>6 DEF Apart
<1>8. Public \subseteq Known /\ Meta \in DOMAIN call.subs => asked \subseteq a.meta
  BY <1>4, <1>6
<1> QED BY <1>7, <1>8 DEF a, asked
-----------------------------------------------------------------------------
(* Settling *)

\* A sequence of a finite set has every member once.
LEMMA SetInSequence ==
  ASSUME NEW S, IsFiniteSet(S)
  PROVE  SetToSeq(S) \in Seq(S) /\ IsInjective(SetToSeq(S)) /\ ToSet(SetToSeq(S)) = S
<1> DEFINE n == Cardinality(S)
           q == SetToSeq(S)
<1>1. n \in Nat /\ ExistsBijection(1 .. n, S)
  BY FS_CardinalityType
<1>2. \E f \in [1 .. n -> S] : IsInjective(f)
  BY <1>1 DEF ExistsBijection, Bijection, Injection
<1>3. q \in [1 .. n -> S] /\ IsInjective(q)
  BY <1>2 DEF SetToSeq
<1>4. q \in Surjection(1 .. n, S)
  <2>1. q \in Injection(1 .. n, S)
    BY <1>3 DEF Injection
  <2>2. Cardinality(1 .. n) = n
    <3>1. Cardinality(1 .. n) = IF 1 > n THEN 0 ELSE n - 1 + 1
      BY <1>1, FS_Interval
    <3> QED BY <1>1, <3>1
  <2> HIDE DEF q
  <2> QED BY <2>1, <2>2, FS_Injection
<1> HIDE DEF q
<1>5. q \in Seq(S)
  BY <1>1, <1>3
<1>6. ToSet(q) = S
  BY <1>3, <1>4 DEF ToSet, Surjection
<1> QED BY <1>3, <1>5, <1>6 DEF q

HeardErrors(call) == MiddleFns(call) \cap ErrorsOf(call, {"declared", "validation"})
HeardValues(call) == MiddleFns(call) \cap (call.resolved \ DOMAIN call.errors)

\* The handlers of a middleFn are run once, for its error or for its value.
LEMMA HeardApart ==
  ASSUME NEW call, DOMAIN call.subs \subseteq Public \cup {Meta}
  PROVE  /\ <<>> \o Heard(call) = Heard(call)
         /\ IsInjective(IdsOf(Heard(call)))
         /\ ToSet(IdsOf(Heard(call))) = HeardErrors(call) \cup HeardValues(call)
<1> DEFINE E == {<<id, "error">> : id \in HeardErrors(call)}
           V == {<<id, "success">> : id \in HeardValues(call)}
           S == E \cup V
           q == SetToSeq(S)
<1>1. Heard(call) = q
  BY DEF Heard, HeardErrors, HeardValues
<1>2. MiddleFns(call) \subseteq Public /\ IsFiniteSet(MiddleFns(call))
  <2>1. MiddleFns(call) \subseteq Public
    BY DEF MiddleFns
  <2> QED BY <2>1, ChainsAssumption, FS_Subset
<1>3. HeardErrors(call) \cap HeardValues(call) = {}
  BY DEF HeardErrors, HeardValues, ErrorsOf
<1>4. IsFiniteSet(S)
  <2>1. S \in SUBSET (MiddleFns(call) \X {"error", "success"})
    BY DEF HeardErrors, HeardValues
  <2>2. IsFiniteSet({"error", "success"})
    <3>1. IsFiniteSet({"error"}) /\ {"error", "success"} = {"error"} \cup {"success"}
      BY FS_Singleton
    <3> QED BY <3>1, FS_AddElement
  <2>3. IsFiniteSet(MiddleFns(call) \X {"error", "success"})
    BY <1>2, <2>2, FS_Product
  <2> HIDE DEF S
  <2> QED BY <2>1, <2>3, FS_Subset
<1>5. q \in Seq(S) /\ IsInjective(q) /\ ToSet(q) = S
  BY <1>4, SetInSequence
<1> HIDE DEF q
<1>6. \A k \in DOMAIN q : q[k] \in S
  BY <1>5 DEF ToSet
<1>7. IsInjective(IdsOf(q))
  <2> SUFFICES ASSUME NEW j \in DOMAIN q, NEW k \in DOMAIN q, q[j][1] = q[k][1]
               PROVE  q[j] = q[k]
    BY <1>5 DEF IsInjective, IdsOf
  <2>1. q[j] \in S /\ q[k] \in S
    BY <1>6
  <2> QED BY <1>3, <2>1
<1>8. ToSet(IdsOf(q)) = {q[k][1] : k \in DOMAIN q}
  BY DEF ToSet, IdsOf
<1>9. \A id \in HeardErrors(call) \cup HeardValues(call) : \E k \in DOMAIN q : q[k][1] = id
  <2>1. \A p \in S : \E k \in DOMAIN q : q[k] = p
    BY <1>5 DEF ToSet
  <2>2. \A id \in HeardErrors(call) : \E k \in DOMAIN q : q[k] = <<id, "error">>
    BY <2>1
  <2>3. \A id \in HeardValues(call) : \E k \in DOMAIN q : q[k] = <<id, "success">>
    BY <2>1
  <2> QED BY <2>2, <2>3
<1>10. \A k \in DOMAIN q : q[k][1] \in HeardErrors(call) \cup HeardValues(call)
  BY <1>6
<1>11. ToSet(IdsOf(q)) = HeardErrors(call) \cup HeardValues(call)
  BY <1>8, <1>9, <1>10
<1>12. <<>> \o q = q
  BY <1>5
<1> QED BY <1>1, <1>7, <1>11, <1>12

Fatals(call) == ErrorsOf(call, {"fatal"})
Others(call) == DOMAIN call.errors \ (MiddleFns(call) \cup {call.route, Meta})

\* The fatal slot holds one of those errors, if there is one.
LEMMA FatalChosen ==
  ASSUME NEW call, None \notin DOMAIN call.errors
  PROVE  LET all == (MiddleFns(call) \cap Fatals(call)) \cup ({call.route} \cap Fatals(call)) \cup Others(call)
         IN /\ FatalPart(call) = None <=> all = {}
            /\ FatalPart(call) # None => FatalPart(call) \in all
<1> DEFINE of == MiddleFns(call) \cap Fatals(call)
           others == Others(call)
<1>1. of \subseteq DOMAIN call.errors /\ Fatals(call) \subseteq DOMAIN call.errors /\ others \subseteq DOMAIN call.errors
  BY DEF Fatals, ErrorsOf, Others
<1>2. FatalPart(call) =
        CASE of # {} -> CHOOSE id \in of : TRUE
          [] of = {} /\ call.route \in Fatals(call) -> call.route
          [] of = {} /\ call.route \notin Fatals(call) /\ others # {} -> CHOOSE id \in others : TRUE
          [] OTHER -> None
  BY DEF FatalPart, Fatals, Others
<1> HIDE DEF of, others
<1>3. CASE of # {}
  BY <1>1, <1>2, <1>3 DEF of
<1>4. CASE of = {} /\ call.route \in Fatals(call)
  BY <1>1, <1>2, <1>4
<1>5. CASE of = {} /\ call.route \notin Fatals(call) /\ others # {}
  BY <1>1, <1>2, <1>5 DEF others
<1>6. CASE of = {} /\ call.route \notin Fatals(call) /\ others = {}
  BY <1>2, <1>6 DEF of, others
<1> QED BY <1>3, <1>4, <1>5, <1>6

\* The result is the 5-tuple, and not None.
LEMMA ResultTyped ==
  ASSUME NEW call, DOMAIN call.subs \subseteq Public \cup {Meta}, DOMAIN call.errors \subseteq Ids
  PROVE  ResultOf(call) # None
<1>1. MiddleFns(call) \subseteq Public
  BY DEF MiddleFns
<1>2. FatalPart(call) \in Ids \cup {None}
  <2>1. None \notin DOMAIN call.errors
    BY NoneAssumption
  <2>2. FatalPart(call) # None => FatalPart(call) \in DOMAIN call.errors
    BY <2>1, FatalChosen DEF Fatals, ErrorsOf, Others
  <2> QED BY <2>2
<1>3. ResultOf(call) \in Results
  BY <1>1, <1>2 DEF ResultOf, Results
<1> QED BY <1>3, NoneAssumption

\* What a call keeps wherever it waits, before it has settled.
Base(call, cache, pre) ==
  /\ IsFunctionOn(call, CallFields) /\ call.sent \in 0 .. Many /\ call.ran \in 0 .. Many
  /\ call.fired = <<>> /\ call.resolved = {}
  /\ call.route \in DOMAIN Chains /\ call.route \in DOMAIN call.own /\ DOMAIN call.own \subseteq Public
  /\ DOMAIN call.subs \subseteq Public \cup {Meta}
  /\ Meta \in DOMAIN call.subs => call.optimistic
  /\ \A id \in DOMAIN call.own : id \in DOMAIN call.subs /\ call.subs[id] = call.own[id]
  /\ call.due \subseteq MiddleFnIds(call.route) /\ \A id \in call.due : pre[id] # None
  /\ call.knew => call.route \in cache
  /\ call.knew /\ call.answer # None => call.due \subseteq DOMAIN call.subs
  /\ call.ran > 1 => Grounds(call)
  /\ Public \subseteq Known => call.sent <= 2

\* Its errors and values are those of the answer.
FromAnswer(call) ==
  LET a == call.answer
      ids == a.thrown \cup a.refused \cup a.declared
  IN /\ Apart(a, ToSet(Chains[call.route]))
     /\ DOMAIN call.errors = ids
     /\ \A id \in ids : call.errors[id] = IF id \in a.refused THEN "validation"
                                          ELSE IF id \in a.declared /\ id \in DOMAIN call.subs THEN "declared"
                                          ELSE "fatal"
     /\ call.resolved = a.values \cap (DOMAIN call.subs \ {Meta})

\* An answer is taken apart into the slots of those it is about.
LEMMA SlotsFromAnswer ==
  ASSUME NEW call, FromAnswer(call), call.route \in DOMAIN Chains, call.route \in DOMAIN call.subs,
         call.route # Meta
  PROVE  LET r == ResultOf(call) IN
           /\ r.routeError = (call.route \in Own(call))
           /\ r.middleFnErrors = Own(call) \cap MiddleFns(call)
           /\ r.routeResult = (call.route \in call.answer.values)
           /\ r.middleFnResults = call.answer.values \cap MiddleFns(call)
           /\ (r.fatal = None) = (Nobodys(call) = {})
           /\ r.fatal # None => r.fatal \in Nobodys(call)
<1> DEFINE a == call.answer
           ids == a.thrown \cup a.refused \cup a.declared
           S == DOMAIN call.subs
           r == ResultOf(call)
<1>1. DOMAIN call.errors = ids /\ ids \subseteq ToSet(Chains[call.route])
  BY DEF FromAnswer, Apart
<1>2. None \notin ids /\ Meta \notin ids
  BY <1>1, ChainsAssumption, NoneAssumption DEF Ids
<1>3. ErrorsOf(call, {"declared", "validation"}) = Own(call)
  BY DEF FromAnswer, ErrorsOf, Own
<1>4. Fatals(call) = ids \ Own(call)
  BY DEF FromAnswer, Fatals, ErrorsOf, Own
<1>5. MiddleFns(call) = S \ {call.route, Meta}
  BY DEF MiddleFns
<1>6. /\ r.routeError = (call.route \in Own(call))
      /\ r.middleFnErrors = Own(call) \cap MiddleFns(call)
  BY <1>3 DEF ResultOf
<1>7. call.resolved = a.values \cap (S \ {Meta})
  BY DEF FromAnswer
<1>8. /\ r.routeResult = (call.route \in a.values)
      /\ r.middleFnResults = a.values \cap MiddleFns(call)
  BY <1>5, <1>7 DEF ResultOf
<1>9. (MiddleFns(call) \cap Fatals(call)) \cup ({call.route} \cap Fatals(call)) \cup Others(call) = Nobodys(call)
  <2>1. a.thrown \cap (a.declared \cup a.refused) = {} /\ a.declared \cap a.refused = {}
    BY DEF FromAnswer, Apart
  <2>2. Others(call) = ids \ (S \cup {call.route, Meta})
    BY <1>1, <1>5 DEF Others
  <2>3. Nobodys(call) = a.thrown \cup (a.declared \ S) \cup (a.refused \ S)
    BY DEF Nobodys
  <2>4. Own(call) = a.refused \cup (a.declared \cap S)
    BY DEF Own
  <2>5. \A id : id \in (MiddleFns(call) \cap Fatals(call)) \cup ({call.route} \cap Fatals(call)) \cup Others(call)
                <=> id \in Nobodys(call)
    BY <1>2, <1>4, <1>5, <2>1, <2>2, <2>3, <2>4
  <2> QED BY <2>5
<1>10. r.fatal = FatalPart(call)
  BY DEF ResultOf
<1>11. (r.fatal = None <=> Nobodys(call) = {}) /\ (r.fatal # None => r.fatal \in Nobodys(call))
  BY <1>1, <1>2, <1>9, <1>10, FatalChosen
<1> HIDE DEF r, a
<1>12. (r.fatal = None) = (Nobodys(call) = {})
  BY <1>11
<1> QED BY <1>6, <1>8, <1>11, <1>12 DEF r, a

\* A call that settles, with errors of its answer or with one of its own, is in order.
LEMMA SettledGood ==
  ASSUME NEW cache, NEW pre, NEW call,
         Base([call EXCEPT !.errors = NoParams, !.resolved = {}], cache, pre), IsFunctionOn(call, CallFields),
         DOMAIN call.errors \subseteq Ids, \A id \in DOMAIN call.errors : call.errors[id] \in Kinds,
         Request \in DOMAIN call.errors \/ call.answer = None \/ FromAnswer(call)
  PROVE  Good(Settled(call), cache, pre)
<1> DEFINE base == [call EXCEPT !.errors = NoParams, !.resolved = {}]
           q == Settled(call)
<1>1. Base(base, cache, pre) /\ \A f \in CallFields \ {"errors", "resolved"} : base[f] = call[f]
  BY DEF IsFunctionOn
<1> HIDE DEF base
<1>2. /\ call.sent \in 0 .. Many /\ call.ran \in 0 .. Many
      /\ call.fired = <<>>
      /\ call.route \in DOMAIN Chains /\ call.route \in DOMAIN call.own /\ DOMAIN call.own \subseteq Public
      /\ DOMAIN call.subs \subseteq Public \cup {Meta}
      /\ Meta \in DOMAIN call.subs => call.optimistic
      /\ \A id \in DOMAIN call.own : id \in DOMAIN call.subs /\ call.subs[id] = call.own[id]
      /\ call.due \subseteq MiddleFnIds(call.route) /\ \A id \in call.due : pre[id] # None
      /\ call.knew => call.route \in cache
      /\ call.knew /\ call.answer # None => call.due \subseteq DOMAIN call.subs
      /\ call.ran > 1 => Grounds(call)
      /\ Public \subseteq Known => call.sent <= 2
  BY <1>1 DEF Base, Grounds, CallFields
<1>3. /\ IsFunctionOn(q, CallFields)
      /\ q.wait = "settled" /\ q.fired = <<>> \o Heard(call) /\ q.result = ResultOf(call)
      /\ q.aborted = FALSE /\ q.missing = {}
      /\ \A f \in CallFields \ {"wait", "fired", "result", "aborted", "missing"} : q[f] = call[f]
  BY <1>2 DEF Settled, IsFunctionOn, CallFields
<1> HIDE DEF q
<1>4. /\ q.route = call.route /\ q.own = call.own /\ q.subs = call.subs /\ q.answer = call.answer
      /\ q.errors = call.errors /\ q.resolved = call.resolved /\ q.sent = call.sent /\ q.ran = call.ran
      /\ q.refused = call.refused /\ q.claimed = call.claimed /\ q.knew = call.knew /\ q.due = call.due /\ q.optimistic = call.optimistic
  BY <1>3 DEF CallFields
<1>5. q.result # None
  BY <1>2, <1>3, ResultTyped
<1>6. Shaped(q) /\ Fresh(q) /\ Named(q) /\ Typed(q) /\ Carries(q)
  BY <1>2, <1>3, <1>4, <1>5 DEF Shaped, Fresh, Named, Typed, Carries, Waits
<1>7. DueKept(q, cache, pre) /\ Repeats(q) /\ Counted(q) /\ Answered(q)
  BY <1>2, <1>3, <1>4 DEF DueKept, Repeats, Grounds, Counted, Answered
<1>8. MiddleFns(q) = MiddleFns(call) /\ Own(q) = Own(call) /\ Nobodys(q) = Nobodys(call)
  BY <1>4 DEF MiddleFns, Own, Nobodys
<1>9. HasAnswer(q) => FromAnswer(call)
  BY <1>4 DEF HasAnswer
<1>10. call.route \in DOMAIN call.subs /\ call.route # Meta
  BY <1>2, ChainsAssumption
<1>11. Slots(q)
  BY <1>2, <1>3, <1>4, <1>8, <1>9, <1>10, SlotsFromAnswer DEF Slots
<1>12. q.fired = Heard(call) /\ IsInjective(IdsOf(q.fired))
       /\ ToSet(IdsOf(q.fired)) = HeardErrors(call) \cup HeardValues(call)
  BY <1>2, <1>3, HeardApart
<1>13. ASSUME FromAnswer(call)
       PROVE  HeardErrors(call) \cup HeardValues(call)
                = MiddleFns(call) \cap (call.answer.values \cup call.answer.declared \cup call.answer.refused)
  <2> DEFINE a == call.answer
             ids == a.thrown \cup a.refused \cup a.declared
  <2>1. MiddleFns(call) \subseteq DOMAIN call.subs \ {Meta}
    BY DEF MiddleFns
  <2>2. HeardErrors(call) = MiddleFns(call) \cap (a.refused \cup a.declared)
    BY <1>13, <2>1 DEF FromAnswer, HeardErrors, ErrorsOf, Apart
  <2>3. HeardValues(call) = MiddleFns(call) \cap a.values
    BY <1>13, <2>1 DEF FromAnswer, HeardValues, Apart
  <2> QED BY <2>2, <2>3
<1>14. HasAnswer(q) => ToSet(IdsOf(q.fired)) =
                           MiddleFns(q) \cap (q.answer.values \cup q.answer.declared \cup q.answer.refused)
  BY <1>4, <1>8, <1>9, <1>12, <1>13
<1>15. Hears(q)
  BY <1>12, <1>14 DEF Hears
<1> QED BY <1>6, <1>7, <1>11, <1>15 DEF Good, q

\* A call that has not settled is as much in order without its answer.
LEMMA UnansweredBase ==
  ASSUME NEW cache, NEW pre, NEW call, Base(call, cache, pre),
         NEW q, IsFunctionOn(q, CallFields), q.answer = None,
         \A f \in CallFields \ {"answer"} : q[f] = call[f]
  PROVE  Base(q, cache, pre)
<1>1. /\ q.wait = call.wait /\ q.route = call.route /\ q.own = call.own /\ q.subs = call.subs
      /\ q.optimistic = call.optimistic /\ q.resolved = call.resolved /\ q.fired = call.fired
      /\ q.sent = call.sent /\ q.ran = call.ran /\ q.refused = call.refused
      /\ q.claimed = call.claimed /\ q.knew = call.knew /\ q.due = call.due
  BY DEF CallFields
<1> QED BY <1>1 DEF Base, Grounds

\* A call that fails as a whole is in order.
LEMMA FailedGood ==
  ASSUME NEW cache, NEW pre, NEW call, Base(call, cache, pre), call.errors = NoParams
  PROVE  Good(FailedCall(call), cache, pre)
<1> DEFINE q == [call EXCEPT !.errors = [id \in {Request} |-> "fatal"], !.answer = None]
           b == [q EXCEPT !.errors = NoParams, !.resolved = {}]
<1>1. /\ IsFunctionOn(q, CallFields) /\ q.errors = [id \in {Request} |-> "fatal"]
      /\ Base(b, cache, pre)
  <2>1. IsFunctionOn(call, CallFields) /\ call.resolved = {}
    BY DEF Base
  <2>2. IsFunctionOn(q, CallFields) /\ q.errors = [id \in {Request} |-> "fatal"] /\ q.answer = None
        /\ \A f \in CallFields \ {"errors", "answer"} : q[f] = call[f]
    BY <2>1 DEF IsFunctionOn, CallFields
  <2> HIDE DEF q
  <2>3. IsFunctionOn(b, CallFields) /\ b.errors = NoParams /\ b.resolved = {}
        /\ \A f \in CallFields \ {"errors", "resolved"} : b[f] = q[f]
    BY <2>2 DEF IsFunctionOn, CallFields
  <2> HIDE DEF b
  <2>4. b.answer = None /\ \A f \in CallFields \ {"answer"} : b[f] = call[f]
    BY <2>1, <2>2, <2>3 DEF CallFields
  <2>5. Base(b, cache, pre)
    BY <2>3, <2>4, UnansweredBase
  <2> QED BY <2>2, <2>5 DEF b
<1>2. FailedCall(call) = Settled(q)
  BY DEF FailedCall
<1> HIDE DEF q, b
<1>3. DOMAIN q.errors = {Request} /\ q.errors[Request] = "fatal"
  BY <1>1
<1>4. Request \in Ids
  BY DEF Ids
<1>5. /\ Base([q EXCEPT !.errors = NoParams, !.resolved = {}], cache, pre)
      /\ DOMAIN q.errors \subseteq Ids /\ \A id \in DOMAIN q.errors : q.errors[id] \in Kinds
      /\ Request \in DOMAIN q.errors
  BY <1>1, <1>3, <1>4 DEF Kinds, b
<1>6. Good(Settled(q), cache, pre)
  BY <1>1, <1>5, SettledGood
<1> QED BY <1>2, <1>6
-----------------------------------------------------------------------------
(* Making a request *)

\* A call is in order whatever it no longer waits for, whether it was aborted, when
\* less is due, and when more is in memory.
LEMMA TouchedGood ==
  ASSUME NEW cache, NEW pre, NEW call, Good(call, cache, pre), NEW cache2, cache \subseteq cache2,
         NEW q, IsFunctionOn(q, CallFields),
         \A f \in CallFields \ {"after", "aborted", "due"} : q[f] = call[f],
         q.due \subseteq call.due, NEW pre2, \A id \in q.due : pre2[id] # None
  PROVE  Good(q, cache2, pre2)
<1>1. /\ q.wait = call.wait /\ q.route = call.route /\ q.own = call.own /\ q.subs = call.subs
      /\ q.optimistic = call.optimistic /\ q.answer = call.answer /\ q.errors = call.errors
      /\ q.resolved = call.resolved /\ q.fired = call.fired /\ q.result = call.result /\ q.sent = call.sent
      /\ q.ran = call.ran /\ q.refused = call.refused /\ q.claimed = call.claimed /\ q.knew = call.knew /\ q.missing = call.missing
  BY DEF CallFields
<1>2. Shaped(q) /\ Fresh(q) /\ Named(q) /\ Typed(q) /\ Carries(q)
  BY <1>1 DEF Good, Shaped, Fresh, Named, Typed, Carries
<1>3. DueKept(q, cache2, pre2) /\ Repeats(q) /\ Counted(q) /\ Answered(q)
  BY <1>1 DEF Good, DueKept, Repeats, Grounds, Counted, Answered
<1>4. MiddleFns(q) = MiddleFns(call) /\ Own(q) = Own(call) /\ Nobodys(q) = Nobodys(call)
      /\ (HasAnswer(q) <=> HasAnswer(call))
  BY <1>1 DEF MiddleFns, Own, Nobodys, HasAnswer
<1>5. Slots(q) /\ Hears(q)
  BY <1>1, <1>4 DEF Good, Slots, Hears
<1> QED BY <1>2, <1>3, <1>5 DEF Good

\* A call under way has not settled yet.
LEMMA UnderWay ==
  ASSUME NEW cache, NEW pre, NEW call, Good(call, cache, pre), call.wait \in {"metadata", "fetch", "body"}
  PROVE  Base(call, cache, pre) /\ call.errors = NoParams /\ call.result = None
<1>1. call.errors = NoParams /\ call.result = None /\ call.fired = <<>> /\ call.resolved = {}
  BY DEF Good, Fresh, Typed
<1> QED BY <1>1 DEF Good, Base, Shaped, Named, Typed, Carries, DueKept, Repeats, Counted

\* What is restored is added to what the call has.
LEMMA RestoredAdds ==
  ASSUME NEW call, NEW cache
  PROVE  LET r == Restored(call, cache) IN
           /\ DOMAIN call.subs \subseteq DOMAIN r /\ DOMAIN r \subseteq DOMAIN call.subs \cup Public
           /\ \A id \in DOMAIN call.subs : r[id] = call.subs[id]
           /\ call.route \in cache =>
                \A id \in MiddleFnIds(call.route) : prefilled[id] # None => id \in DOMAIN r
<1>1. MiddleFnIds(call.route) \subseteq Public
  BY DEF MiddleFnIds
<1>2. CASE call.route \notin cache
  BY <1>2 DEF Restored
<1>3. CASE call.route \in cache
  <2> DEFINE ids == {id \in MiddleFnIds(call.route) \ DOMAIN call.subs : prefilled[id] # None}
  <2>1. Restored(call, cache) = [i \in DOMAIN call.subs \cup ids |-> IF i \in ids THEN prefilled[i] ELSE call.subs[i]]
    BY <1>3 DEF Restored
  <2> QED BY <1>1, <2>1
<1> QED BY <1>2, <1>3

\* With the prefilled middleFns restored a call keeps all it had, and carries what is due.
LEMMA RestoredBase ==
  ASSUME NEW cache, NEW call, Base(call, cache, prefilled)
  PROVE  LET q == [call EXCEPT !.subs = Restored(call, cache)] IN
           /\ Base(q, cache, prefilled)
           /\ q.subs = Restored(call, cache) /\ \A f \in CallFields \ {"subs"} : q[f] = call[f]
           /\ Meta \in DOMAIN q.subs <=> Meta \in DOMAIN call.subs
           /\ q.knew => q.due \subseteq DOMAIN q.subs
<1> DEFINE q == [call EXCEPT !.subs = Restored(call, cache)]
<1>1. IsFunctionOn(q, CallFields) /\ q.subs = Restored(call, cache) /\ \A f \in CallFields \ {"subs"} : q[f] = call[f]
  BY DEF Base, IsFunctionOn, CallFields
<1> HIDE DEF q
<1>2. /\ q.route = call.route /\ q.own = call.own /\ q.optimistic = call.optimistic
      /\ q.answer = call.answer /\ q.resolved = call.resolved /\ q.fired = call.fired /\ q.sent = call.sent
      /\ q.ran = call.ran /\ q.refused = call.refused /\ q.claimed = call.claimed /\ q.knew = call.knew /\ q.due = call.due
  BY <1>1 DEF CallFields
<1>3. /\ DOMAIN call.subs \subseteq DOMAIN q.subs /\ DOMAIN q.subs \subseteq DOMAIN call.subs \cup Public
      /\ \A id \in DOMAIN call.subs : q.subs[id] = call.subs[id]
      /\ call.route \in cache =>
           \A id \in MiddleFnIds(call.route) : prefilled[id] # None => id \in DOMAIN q.subs
  BY <1>1, RestoredAdds
<1>4. Meta \in DOMAIN q.subs <=> Meta \in DOMAIN call.subs
  BY <1>3, ChainsAssumption
<1>5. q.knew => q.due \subseteq DOMAIN q.subs
  BY <1>2, <1>3 DEF Base
<1>6. Base(q, cache, prefilled)
  <2>1. /\ q.sent \in 0 .. Many /\ q.ran \in 0 .. Many /\ q.fired = <<>> /\ q.resolved = {}
        /\ q.route \in DOMAIN Chains /\ q.route \in DOMAIN q.own /\ DOMAIN q.own \subseteq Public
        /\ q.ran > 1 => Grounds(q)
        /\ Public \subseteq Known => q.sent <= 2
    BY <1>2 DEF Base, Grounds
  <2>2. /\ DOMAIN q.subs \subseteq Public \cup {Meta}
        /\ Meta \in DOMAIN q.subs => q.optimistic
        /\ \A id \in DOMAIN q.own : id \in DOMAIN q.subs /\ q.subs[id] = q.own[id]
    BY <1>2, <1>3, <1>4 DEF Base
  <2>3. /\ q.due \subseteq MiddleFnIds(q.route) /\ \A id \in q.due : prefilled[id] # None
        /\ q.knew => q.route \in cache
    BY <1>2 DEF Base
  <2> QED BY <1>1, <1>5, <2>1, <2>2, <2>3 DEF Base
<1> QED BY <1>1, <1>4, <1>5, <1>6 DEF q

\* A call between two requests, of which a second one is due.
Again(call) ==
  /\ call.errors = NoParams /\ call.answer = None /\ call.result = None /\ Meta \notin DOMAIN call.subs
  /\ call.ran > 0 => Grounds(call)
  /\ Public \subseteq Known => call.sent <= 1

\* A call that waits for metadata is in order.
LEMMA AwaitGood ==
  ASSUME NEW cache, NEW store, NEW pre, NEW call, Base(call, cache, pre), Again(call)
  PROVE  Good(AwaitMetadata(call, cache, store), cache, pre)
<1> DEFINE q == AwaitMetadata(call, cache, store)
<1>1. /\ IsFunctionOn(q, CallFields) /\ q.wait = "metadata" /\ q.optimistic = FALSE
      /\ q.missing \subseteq DOMAIN call.subs
      /\ \A f \in CallFields \ {"wait", "optimistic", "missing"} : q[f] = call[f]
  BY DEF Base, IsFunctionOn, CallFields, AwaitMetadata
<1> HIDE DEF q
<1>2. /\ q.route = call.route /\ q.own = call.own /\ q.subs = call.subs
      /\ q.answer = call.answer /\ q.resolved = call.resolved /\ q.fired = call.fired /\ q.sent = call.sent
      /\ q.ran = call.ran /\ q.refused = call.refused /\ q.claimed = call.claimed /\ q.knew = call.knew /\ q.due = call.due
      /\ q.errors = call.errors /\ q.result = call.result
  BY <1>1 DEF CallFields
<1>3. Shaped(q) /\ Fresh(q) /\ Named(q) /\ Carries(q)
  BY <1>1, <1>2 DEF Base, Again, Shaped, Fresh, Named, Carries, Waits
<1>4. Typed(q)
  <2>1. DOMAIN q.errors = {}
    BY <1>2 DEF Again, NoParams
  <2> QED BY <1>1, <1>2, <2>1 DEF Base, Again, Typed
<1>5. DueKept(q, cache, pre) /\ Repeats(q) /\ Counted(q) /\ Answered(q)
  BY <1>1, <1>2 DEF Base, Again, DueKept, Repeats, Grounds, Counted, Answered
<1>6. Slots(q)
  BY <1>1 DEF Slots, HasAnswer
<1>7. Hears(q)
  BY <1>1, <1>2 DEF Base, Hears, HasAnswer, IdsOf, IsInjective
<1> QED BY <1>3, <1>4, <1>5, <1>6, <1>7 DEF Good, q

\* A call whose request is out is in order.
LEMMA FetchGood ==
  ASSUME NEW cache, NEW pre, NEW call, Base(call, cache, pre), call.wait = "fetch",
         call.errors = NoParams, call.answer = None, call.result = None,
         call.optimistic => Meta \in DOMAIN call.subs, call.knew => call.due \subseteq DOMAIN call.subs,
         call.ran > 0 => Grounds(call),
         Public \subseteq Known => call.sent <= 1 /\ (call.optimistic => call.sent = 0)
  PROVE  Good(call, cache, pre)
<1>1. Shaped(call) /\ Fresh(call) /\ Named(call) /\ Carries(call)
  BY DEF Base, Shaped, Fresh, Named, Carries, Waits
<1>2. Typed(call)
  <2>1. DOMAIN call.errors = {}
    BY DEF NoParams
  <2> QED BY <2>1 DEF Base, Typed
<1>3. DueKept(call, cache, pre) /\ Repeats(call) /\ Counted(call) /\ Answered(call)
  BY DEF Base, DueKept, Repeats, Grounds, Counted, Answered
<1>4. Slots(call) /\ Hears(call)
  BY DEF Base, Slots, Hears, HasAnswer, IdsOf, IsInjective
<1> QED BY <1>1, <1>2, <1>3, <1>4 DEF Good

\* A call that is made, or made again with all it needs in memory, is in order.
LEMMA MadeGood ==
  ASSUME NEW cache, NEW store, NEW call, Base(call, cache, prefilled), Again(call),
         Public \subseteq Known => call.sent = 0 \/ DOMAIN call.subs \subseteq cache
  PROVE  Good(Made(call, cache, store), cache, prefilled)
<1> DEFINE subs == Restored(call, cache)
           full == [call EXCEPT !.subs = subs]
           asking == [call EXCEPT !.wait = "fetch", !.optimistic = TRUE, !.subs = With(subs, Meta, "plain")]
<1>1. CASE DOMAIN call.subs \subseteq cache
  BY <1>1, AwaitGood DEF Made
<1>2. CASE ~(DOMAIN call.subs \subseteq cache) /\ \E id \in DOMAIN subs : subs[id] = "bigint"
  <2>1. Made(call, cache, store) = AwaitMetadata(full, cache, store)
    BY <1>2 DEF Made
  <2>2. /\ Base(full, cache, prefilled) /\ full.subs = subs
        /\ \A f \in CallFields \ {"subs"} : full[f] = call[f]
        /\ Meta \in DOMAIN full.subs <=> Meta \in DOMAIN call.subs
    BY RestoredBase
  <2> HIDE DEF full
  <2>3. Again(full)
    BY <2>2 DEF Again, Grounds, CallFields
  <2> QED BY <2>1, <2>2, <2>3, AwaitGood
<1>3. CASE ~(DOMAIN call.subs \subseteq cache) /\ ~ \E id \in DOMAIN subs : subs[id] = "bigint"
  <2>1. Made(call, cache, store) = asking
    BY <1>3 DEF Made
  <2>2. /\ Base(full, cache, prefilled) /\ full.subs = subs
        /\ \A f \in CallFields \ {"subs"} : full[f] = call[f]
        /\ Meta \in DOMAIN full.subs <=> Meta \in DOMAIN call.subs
        /\ full.knew => full.due \subseteq DOMAIN full.subs
    BY RestoredBase
  <2> HIDE DEF full, subs
  <2>3. /\ DOMAIN With(subs, Meta, "plain") = DOMAIN subs \cup {Meta}
        /\ \A id \in DOMAIN subs \ {Meta} : With(subs, Meta, "plain")[id] = subs[id]
    BY DEF With
  <2>4. /\ IsFunctionOn(asking, CallFields) /\ asking.wait = "fetch" /\ asking.optimistic = TRUE
        /\ asking.subs = With(subs, Meta, "plain")
        /\ \A f \in CallFields \ {"wait", "optimistic", "subs"} : asking[f] = call[f]
    BY DEF Base, IsFunctionOn, CallFields
  <2> HIDE DEF asking
  <2>5. \A f \in CallFields \ {"wait", "optimistic", "subs"} : asking[f] = full[f]
    BY <2>2, <2>4
  <2>6. /\ asking.route = full.route /\ asking.own = full.own
        /\ asking.answer = full.answer /\ asking.resolved = full.resolved /\ asking.fired = full.fired
        /\ asking.sent = full.sent /\ asking.ran = full.ran /\ asking.refused = full.refused /\ asking.claimed = full.claimed
        /\ asking.knew = full.knew /\ asking.due = full.due
        /\ asking.errors = full.errors /\ asking.result = full.result
    BY <2>5 DEF CallFields
  <2>7. Base(asking, cache, prefilled)
    <3>1. /\ asking.sent \in 0 .. Many /\ asking.ran \in 0 .. Many
          /\ asking.fired = <<>> /\ asking.resolved = {}
          /\ asking.route \in DOMAIN Chains /\ asking.route \in DOMAIN asking.own /\ DOMAIN asking.own \subseteq Public
          /\ asking.due \subseteq MiddleFnIds(asking.route) /\ \A id \in asking.due : prefilled[id] # None
          /\ asking.knew => asking.route \in cache
          /\ asking.ran > 1 => Grounds(asking)
          /\ Public \subseteq Known => asking.sent <= 2
      BY <2>2, <2>6 DEF Base, Grounds
    <3>2. Meta \notin Public
      BY ChainsAssumption
    <3>3. \A id \in DOMAIN asking.own : id \in DOMAIN asking.subs /\ asking.subs[id] = asking.own[id]
      BY <2>2, <2>3, <2>4, <2>6, <3>2 DEF Base
    <3>4. DOMAIN asking.subs \subseteq Public \cup {Meta}
      BY <2>2, <2>3, <2>4 DEF Base
    <3>5. asking.knew => asking.due \subseteq DOMAIN asking.subs
      BY <2>2, <2>3, <2>4, <2>6
    <3> QED BY <2>4, <3>1, <3>3, <3>4, <3>5 DEF Base
  <2>8. full.errors = NoParams /\ full.answer = None /\ full.result = None
        /\ (full.ran > 0 => Grounds(full)) /\ (Public \subseteq Known => full.sent = 0)
    BY <1>3, <2>2 DEF Again, Grounds, CallFields
  <2>9. asking.ran > 0 => Grounds(asking)
    BY <2>6, <2>8 DEF Grounds
  <2>10. asking.knew => asking.due \subseteq DOMAIN asking.subs
    BY <2>2, <2>3, <2>4, <2>6
  <2>11. Meta \in DOMAIN asking.subs
    BY <2>3, <2>4
  <2> QED BY <2>1, <2>4, <2>6, <2>7, <2>8, <2>9, <2>10, <2>11, FetchGood
<1> QED BY <1>1, <1>2, <1>3

\* A call that has not begun.
Ready(call) ==
  /\ IsFunctionOn(call, CallFields)
  /\ call.sent = 0 /\ call.ran = 0 /\ call.fired = <<>> /\ call.resolved = {}
  /\ call.errors = NoParams /\ call.answer = None /\ call.result = None /\ call.optimistic = FALSE
  /\ call.route \in DOMAIN Chains /\ call.route \in DOMAIN call.own /\ DOMAIN call.own \subseteq Public

\* A call that begins is in order: what it knows of its route, and what is due, is noted.
LEMMA LaunchedGood ==
  ASSUME NEW call, Ready(call)
  PROVE  Good(Launched(call), cached, prefilled)
<1> DEFINE fresh == [call EXCEPT !.subs = call.own, !.after = {}, !.knew = call.route \in cached,
                                 !.due = {id \in MiddleFnIds(call.route) : prefilled[id] # None}]
<1>1. /\ IsFunctionOn(fresh, CallFields) /\ fresh.subs = call.own /\ fresh.knew = (call.route \in cached)
      /\ fresh.due = {id \in MiddleFnIds(call.route) : prefilled[id] # None}
      /\ \A f \in CallFields \ {"subs", "after", "knew", "due"} : fresh[f] = call[f]
  BY DEF Ready, IsFunctionOn, CallFields
<1>2. Launched(call) = IF call.aborted THEN FailedCall(fresh) ELSE Made(fresh, cached, stored)
  BY DEF Launched
<1> HIDE DEF fresh
<1>3. /\ fresh.route = call.route /\ fresh.own = call.own /\ fresh.sent = 0 /\ fresh.ran = 0
      /\ fresh.fired = <<>> /\ fresh.resolved = {} /\ fresh.errors = NoParams /\ fresh.answer = None
      /\ fresh.result = None /\ fresh.optimistic = FALSE
  BY <1>1 DEF Ready, CallFields
<1>4. Meta \notin DOMAIN fresh.subs
  BY <1>1, ChainsAssumption DEF Ready
<1>5. Base(fresh, cached, prefilled)
  <2>1. /\ fresh.sent \in 0 .. Many /\ fresh.ran \in 0 .. Many /\ ~(fresh.ran > 1) /\ fresh.sent <= 2
    BY <1>3 DEF Many
  <2>2. /\ fresh.route \in DOMAIN Chains /\ fresh.route \in DOMAIN fresh.own /\ DOMAIN fresh.own \subseteq Public
        /\ DOMAIN fresh.subs \subseteq Public \cup {Meta}
        /\ \A id \in DOMAIN fresh.own : id \in DOMAIN fresh.subs /\ fresh.subs[id] = fresh.own[id]
    BY <1>1, <1>3 DEF Ready
  <2>3. /\ fresh.due \subseteq MiddleFnIds(fresh.route) /\ \A id \in fresh.due : prefilled[id] # None
        /\ fresh.knew => fresh.route \in cached
    BY <1>1, <1>3
  <2> QED BY <1>1, <1>3, <1>4, <2>1, <2>2, <2>3 DEF Base
<1>6. Again(fresh)
  BY <1>3, <1>4 DEF Again
<1>7. CASE call.aborted
  BY <1>2, <1>3, <1>5, <1>7, FailedGood
<1>8. CASE ~call.aborted
  BY <1>2, <1>3, <1>5, <1>6, <1>8, MadeGood
<1> QED BY <1>7, <1>8

\* With the metadata in memory a call goes on, or settles, in order.
LEMMA PreparedGood ==
  ASSUME NEW cache, cache \subseteq Public, NEW call, Good(call, cache, prefilled), call.wait = "metadata"
  PROVE  Good(Prepared(call, cache), cache, prefilled)
<1> DEFINE full == [call EXCEPT !.subs = Restored(call, cache)]
           bad == LocallyInvalid(full)
           refused == [full EXCEPT !.errors = [id \in bad |-> "validation"]]
           sent == [full EXCEPT !.wait = "fetch"]
<1>1. Base(call, cache, prefilled) /\ call.errors = NoParams /\ call.result = None
  BY UnderWay
<1>2. /\ Base(full, cache, prefilled) /\ full.subs = Restored(call, cache)
      /\ \A f \in CallFields \ {"subs"} : full[f] = call[f]
      /\ Meta \in DOMAIN full.subs <=> Meta \in DOMAIN call.subs
      /\ full.knew => full.due \subseteq DOMAIN full.subs
  BY <1>1, RestoredBase
<1>3. Prepared(call, cache) =
        IF ~(Checked(full) \subseteq cache) THEN FailedCall(full)
        ELSE IF bad # {} THEN Settled(refused) ELSE sent
  BY DEF Prepared
<1> HIDE DEF full
<1>4. /\ full.errors = NoParams /\ full.answer = None /\ full.result = None /\ ~full.optimistic
      /\ full.ran > 0 => Grounds(full)
      /\ Public \subseteq Known => full.sent <= 1
  BY <1>1, <1>2 DEF Good, Fresh, Repeats, Counted, Grounds, CallFields
<1>5. CASE ~(Checked(full) \subseteq cache)
  BY <1>2, <1>3, <1>4, <1>5, FailedGood
<1>6. CASE Checked(full) \subseteq cache /\ bad # {}
  <2>1. bad \subseteq Checked(full)
    BY DEF LocallyInvalid
  <2> HIDE DEF bad
  <2>2. bad \subseteq Ids
    BY <1>6, <2>1 DEF Ids
  <2>3. /\ IsFunctionOn(refused, CallFields) /\ refused.errors = [id \in bad |-> "validation"]
        /\ \A f \in CallFields \ {"errors"} : refused[f] = full[f]
    BY <1>2 DEF Base, IsFunctionOn, CallFields
  <2>4. [refused EXCEPT !.errors = NoParams, !.resolved = {}] = full
    <3> HIDE DEF refused
    <3> DEFINE b == [refused EXCEPT !.errors = NoParams, !.resolved = {}]
    <3>1. IsFunctionOn(b, CallFields) /\ b.errors = NoParams /\ b.resolved = {}
          /\ \A f \in CallFields \ {"errors", "resolved"} : b[f] = refused[f]
      BY <2>3 DEF IsFunctionOn, CallFields
    <3> HIDE DEF b
    <3>2. IsFunctionOn(full, CallFields) /\ full.resolved = {}
      BY <1>2 DEF Base
    <3>3. \A f \in CallFields : b[f] = full[f]
      BY <1>4, <2>3, <3>1, <3>2
    <3>4. b = full
      BY <3>1, <3>2, <3>3 DEF IsFunctionOn
    <3> QED BY <3>4 DEF b
  <2> HIDE DEF refused
  <2>5. DOMAIN refused.errors \subseteq Ids /\ \A id \in DOMAIN refused.errors : refused.errors[id] \in Kinds
    BY <2>2, <2>3 DEF Kinds
  <2>6. refused.answer = None
    BY <1>4, <2>3 DEF CallFields
  <2>7. Good(Settled(refused), cache, prefilled)
    BY <1>2, <2>3, <2>4, <2>5, <2>6, SettledGood
  <2> QED BY <1>3, <1>6, <2>7
<1>7. CASE Checked(full) \subseteq cache /\ bad = {}
  <2>1. IsFunctionOn(sent, CallFields) /\ sent.wait = "fetch" /\ \A f \in CallFields \ {"wait"} : sent[f] = full[f]
    BY <1>2 DEF Base, IsFunctionOn, CallFields
  <2>2. Prepared(call, cache) = sent
    BY <1>3, <1>7
  <2> HIDE DEF sent, bad
  <2>3. /\ sent.route = full.route /\ sent.own = full.own /\ sent.optimistic = full.optimistic
        /\ sent.answer = full.answer /\ sent.resolved = full.resolved /\ sent.fired = full.fired
        /\ sent.sent = full.sent /\ sent.ran = full.ran /\ sent.refused = full.refused /\ sent.claimed = full.claimed
        /\ sent.knew = full.knew /\ sent.due = full.due /\ sent.subs = full.subs
        /\ sent.errors = full.errors /\ sent.result = full.result
    BY <2>1 DEF CallFields
  <2>4. Base(sent, cache, prefilled)
    BY <1>2, <2>1, <2>3 DEF Base, Grounds
  <2>5. sent.ran > 0 => Grounds(sent)
    BY <1>4, <2>3 DEF Grounds
  <2> QED BY <1>2, <1>4, <2>1, <2>2, <2>3, <2>4, <2>5, FetchGood
<1> QED BY <1>5, <1>6, <1>7
-----------------------------------------------------------------------------
(* The answer *)

\* Grounds to repeat a call stay when more ids are refused or claimed.
LEMMA GroundsStay ==
  ASSUME NEW call, NEW q, q.route = call.route, call.refused \subseteq q.refused,
         call.claimed \subseteq q.claimed, Grounds(call)
  PROVE  Grounds(q)
BY DEF Grounds

\* If the route ran and the answer is taken for a refusal, there are grounds for it.
LEMMA RefusedBehind ==
  ASSUME NEW call, call.route \in DOMAIN Chains, NEW a, RouteRan(call, a), TakenForRefusal(a),
         a.refused \subseteq ToSet(Chains[call.route]),
         a.refused \ a.claimed \subseteq call.refused, a.claimed \subseteq call.claimed
  PROVE  Grounds(call)
<1> DEFINE ids == Chains[call.route]
<1> SUFFICES ASSUME a.claimed = {} PROVE Grounds(call)
  BY DEF Grounds
<1>0. a.refused # {} /\ a.refused \subseteq call.refused
  BY DEF TakenForRefusal
<1>1. ids \in Seq(ToSet(ids)) /\ call.route \in ToSet(ids)
  BY ChainsAssumption
<1>2. Len(ids) \in Nat /\ DOMAIN ids = 1 .. Len(ids)
  BY <1>1
<1>3. PICK j \in DOMAIN ids : ids[j] = call.route
  BY <1>1 DEF ToSet
<1>4. PICK k \in DOMAIN ids : ids[k] \in a.refused
  BY <1>0 DEF ToSet
<1>5. a.refused \cap {ids[i] : i \in 1 .. j} = {}
  BY <1>3 DEF RouteRan
<1>6. j < k
  <2> SUFFICES ASSUME ~(j < k) PROVE FALSE
    OBVIOUS
  <2>1. k \in 1 .. j
    BY <1>2, <1>3, <1>4
  <2> QED BY <1>4, <1>5, <2>1
<1> QED BY <1>0, <1>3, <1>4, <1>6 DEF Grounds

\* A request that was answered: the answer is told apart, and counted.
LEMMA ServedGood ==
  ASSUME NEW cache, NEW pre, NEW call, Good(call, cache, pre), call.wait = "fetch", NEW behaviour
  PROVE  LET a == AnswerTo(call, behaviour) IN
           Good([call EXCEPT !.wait = "body", !.answer = a, !.refused = @ \cup (a.refused \ a.claimed),
                             !.sent = OneMore(@), !.claimed = @ \cup a.claimed,
                       !.ran = IF RouteRan(call, a) THEN OneMore(@) ELSE @],
                cache, pre)
<1> DEFINE a == AnswerTo(call, behaviour)
           q == [call EXCEPT !.wait = "body", !.answer = a, !.refused = @ \cup (a.refused \ a.claimed),
                             !.sent = OneMore(@), !.claimed = @ \cup a.claimed,
                       !.ran = IF RouteRan(call, a) THEN OneMore(@) ELSE @]
<1>1. Base(call, cache, pre) /\ call.errors = NoParams /\ call.result = None
  BY UnderWay
<1>2. /\ Apart(a, ToSet(Chains[call.route]))
      /\ Public \subseteq Known /\ Meta \in DOMAIN call.subs => DOMAIN call.subs \ {Meta} \subseteq a.meta
  BY <1>1, AnswerApart DEF Base
<1> HIDE DEF a
<1>3. /\ IsFunctionOn(q, CallFields) /\ q.wait = "body" /\ q.answer = a
      /\ q.refused = call.refused \cup (a.refused \ a.claimed) /\ q.claimed = call.claimed \cup a.claimed
      /\ q.sent = OneMore(call.sent)
      /\ q.ran = IF RouteRan(call, a) THEN OneMore(call.ran) ELSE call.ran
      /\ \A f \in CallFields \ {"wait", "answer", "refused", "claimed", "sent", "ran"} : q[f] = call[f]
  BY <1>1 DEF Base, IsFunctionOn, CallFields
<1> HIDE DEF q
<1>4. /\ q.route = call.route /\ q.own = call.own /\ q.optimistic = call.optimistic
      /\ q.resolved = call.resolved /\ q.fired = call.fired
      /\ q.knew = call.knew /\ q.due = call.due /\ q.subs = call.subs
      /\ q.errors = call.errors /\ q.result = call.result
  BY <1>3 DEF CallFields
<1>5. /\ q.sent \in 0 .. Many /\ q.ran \in 0 .. Many
      /\ q.sent <= call.sent + 1 /\ (q.ran = call.ran \/ RouteRan(call, a))
      /\ q.ran > 1 => call.ran > 0
  BY <1>1, <1>3 DEF Base, OneMore, Many
<1>6. call.ran > 0 => Grounds(q)
  <2>1. call.ran > 0 => Grounds(call)
    BY DEF Good, Repeats
  <2> QED BY <1>3, <1>4, <2>1, GroundsStay
<1>7. RouteRan(call, a) /\ TakenForRefusal(a) => Grounds(q)
  <2>1. RouteRan(q, a) <=> RouteRan(call, a)
    BY <1>4 DEF RouteRan
  <2>2. /\ a.refused \subseteq ToSet(Chains[q.route]) /\ q.route \in DOMAIN Chains
       /\ a.refused \ a.claimed \subseteq q.refused /\ a.claimed \subseteq q.claimed
    BY <1>1, <1>2, <1>3, <1>4 DEF Base, Apart
  <2> QED BY <2>1, <2>2, RefusedBehind
<1>8. Repeats(q)
  <2>1. q.ran > 1 => Grounds(q)
    BY <1>5, <1>6
  <2>2. q.ran > 0 /\ TakenForRefusal(a) => Grounds(q)
    BY <1>5, <1>6, <1>7
  <2> QED BY <1>3, <2>1, <2>2 DEF Repeats
<1>9. Counted(q)
  <2> SUFFICES ASSUME Public \subseteq Known
               PROVE  /\ q.sent <= 2 /\ (q.optimistic => q.sent <= 1)
                      /\ q.optimistic => DOMAIN q.subs \ {Meta} \subseteq a.meta
    BY <1>3 DEF Counted
  <2>1. call.sent <= 1 /\ (call.optimistic => call.sent = 0)
    BY DEF Good, Counted
  <2>2. call.optimistic => Meta \in DOMAIN call.subs
    BY DEF Good, Typed
  <2>3. call.sent \in Nat /\ q.sent \in Nat
    BY <1>1, <1>5 DEF Base, Many
  <2>4. q.sent <= 2 /\ (q.optimistic => q.sent <= 1)
    BY <1>4, <1>5, <2>1, <2>3
  <2> QED BY <1>2, <1>4, <2>2, <2>4
<1>10. Shaped(q) /\ Fresh(q) /\ Named(q) /\ Typed(q) /\ Carries(q)
  BY <1>1, <1>3, <1>4, <1>5 DEF Good, Base, Shaped, Fresh, Named, Typed, Carries, Waits
<1>11. DueKept(q, cache, pre) /\ Answered(q)
  BY <1>2, <1>3, <1>4 DEF Good, DueKept, Answered
<1>12. Slots(q) /\ Hears(q)
  BY <1>1, <1>3, <1>4 DEF Base, Slots, Hears, HasAnswer, IdsOf, IsInjective
<1>13. Good(q, cache, pre)
  BY <1>8, <1>9, <1>10, <1>11, <1>12 DEF Good
<1> QED BY <1>13 DEF q, a

\* An answer of the platform's own is empty.
LEMMA PlatformGood ==
  ASSUME NEW cache, NEW pre, NEW call, Good(call, cache, pre), call.wait = "fetch"
  PROVE  Good([call EXCEPT !.wait = "body", !.answer = [Answer EXCEPT !.down = TRUE]], cache, pre)
<1> DEFINE a == [Answer EXCEPT !.down = TRUE]
           q == [call EXCEPT !.wait = "body", !.answer = a]
<1>1. Base(call, cache, pre) /\ call.errors = NoParams /\ call.result = None
  BY UnderWay
<1>2. Apart(a, ToSet(Chains[call.route])) /\ ~TakenForRefusal(a)
  BY DEF TakenForRefusal, Apart, Answer, IsFunctionOn, AnswerFields
<1> HIDE DEF a
<1>3. /\ IsFunctionOn(q, CallFields) /\ q.wait = "body" /\ q.answer = a
      /\ \A f \in CallFields \ {"wait", "answer"} : q[f] = call[f]
  BY <1>1 DEF Base, IsFunctionOn, CallFields
<1> HIDE DEF q
<1>4. /\ q.route = call.route /\ q.own = call.own /\ q.optimistic = call.optimistic
      /\ q.resolved = call.resolved /\ q.fired = call.fired /\ q.sent = call.sent
      /\ q.ran = call.ran /\ q.refused = call.refused /\ q.claimed = call.claimed
      /\ q.knew = call.knew /\ q.due = call.due /\ q.subs = call.subs
      /\ q.errors = call.errors /\ q.result = call.result
  BY <1>3 DEF CallFields
<1>5. Shaped(q) /\ Fresh(q) /\ Named(q) /\ Typed(q) /\ Carries(q)
  BY <1>1, <1>3, <1>4 DEF Good, Base, Shaped, Fresh, Named, Typed, Carries, Waits
<1>6. DueKept(q, cache, pre) /\ Answered(q)
  BY <1>2, <1>3, <1>4 DEF Good, DueKept, Answered
<1>7. Repeats(q)
  BY <1>2, <1>3, <1>4 DEF Good, Repeats, Grounds
<1>8. Counted(q)
  <2> SUFFICES ASSUME Public \subseteq Known
               PROVE  q.sent <= 2 /\ (q.optimistic => q.sent <= 1)
    BY <1>2, <1>3 DEF Counted
  <2>1. call.sent <= 1 /\ call.sent \in 0 .. Many
    BY <1>1 DEF Good, Counted, Base
  <2> QED BY <1>4, <2>1 DEF Many
<1>9. Slots(q) /\ Hears(q)
  BY <1>1, <1>3, <1>4 DEF Base, Slots, Hears, HasAnswer, IdsOf, IsInjective
<1>10. Good(q, cache, pre)
  BY <1>5, <1>6, <1>7, <1>8, <1>9 DEF Good
<1> QED BY <1>10 DEF q, a

\* A request that is made again leaves out the one for metadata, and keeps the rest.
LEMMA RetriedGood ==
  ASSUME NEW call, Good(call, cached, prefilled), call.wait = "body", MustRetry(call),
         NEW cache, cache = cached \cup call.answer.meta
  PROVE  Good(Retried(call, cache), cache, prefilled)
<1> DEFINE b == [call EXCEPT !.subs = Without(@, Meta), !.answer = None]
<1>1. Base(call, cached, prefilled) /\ call.errors = NoParams /\ call.result = None
  BY UnderWay
<1>2. Retried(call, cache) = Made(b, cache, stored')
  BY DEF Retried
<1>3. /\ IsFunctionOn(b, CallFields) /\ b.subs = Without(call.subs, Meta) /\ b.answer = None
      /\ \A f \in CallFields \ {"subs", "answer"} : b[f] = call[f]
  BY <1>1 DEF Base, IsFunctionOn, CallFields
<1> HIDE DEF b
<1>4. /\ b.route = call.route /\ b.own = call.own
      /\ b.resolved = call.resolved /\ b.fired = call.fired /\ b.sent = call.sent
      /\ b.ran = call.ran /\ b.refused = call.refused /\ b.claimed = call.claimed /\ b.knew = call.knew /\ b.due = call.due
      /\ b.errors = call.errors /\ b.result = call.result
  BY <1>3 DEF CallFields
<1>5. /\ DOMAIN b.subs = DOMAIN call.subs \ {Meta}
      /\ \A id \in DOMAIN b.subs : b.subs[id] = call.subs[id]
  BY <1>3 DEF Without
<1>6. Meta \notin DOMAIN b.own
  BY <1>1, <1>4, ChainsAssumption DEF Base
<1>7. Base(b, cache, prefilled)
  <2>1. /\ b.sent \in 0 .. Many /\ b.ran \in 0 .. Many /\ b.fired = <<>> /\ b.resolved = {}
        /\ b.route \in DOMAIN Chains /\ b.route \in DOMAIN b.own /\ DOMAIN b.own \subseteq Public
        /\ b.ran > 1 => Grounds(b)
        /\ Public \subseteq Known => b.sent <= 2
    BY <1>1, <1>4 DEF Base, Grounds
  <2>2. /\ DOMAIN b.subs \subseteq Public \cup {Meta} /\ Meta \notin DOMAIN b.subs
        /\ \A id \in DOMAIN b.own : id \in DOMAIN b.subs /\ b.subs[id] = b.own[id]
    BY <1>1, <1>4, <1>5, <1>6 DEF Base
  <2>3. /\ b.due \subseteq MiddleFnIds(b.route) /\ \A id \in b.due : prefilled[id] # None
        /\ b.knew => b.route \in cache
    BY <1>1, <1>4 DEF Base
  <2> QED BY <1>3, <2>1, <2>2, <2>3 DEF Base
<1>8. call.optimistic /\ TakenForRefusal(call.answer)
  BY DEF MustRetry
<1>9. Again(b)
  <2>1. b.ran > 0 => Grounds(b)
    BY <1>4, <1>8 DEF Good, Repeats, Grounds
  <2>2. Public \subseteq Known => b.sent <= 1
    BY <1>4, <1>8 DEF Good, Counted
  <2> QED BY <1>1, <1>3, <1>4, <1>5, <2>1, <2>2 DEF Again
<1>10. Public \subseteq Known => DOMAIN b.subs \subseteq cache
  BY <1>5, <1>8 DEF Good, Counted
<1> QED BY <1>2, <1>7, <1>9, <1>10, MadeGood

\* A call whose answer is final settles in order.
LEMMA ResolvedGood ==
  ASSUME NEW cache, NEW pre, NEW call, Good(call, cache, pre), call.wait = "body"
  PROVE  Good(Settled(Resolved(call)), cache, pre)
<1> DEFINE a == call.answer
           ids == a.thrown \cup a.refused \cup a.declared
           errors == [id \in ids |-> IF id \in a.refused THEN "validation"
                                     ELSE IF id \in a.declared /\ id \in DOMAIN call.subs THEN "declared"
                                     ELSE "fatal"]
           r == Resolved(call)
<1>1. Base(call, cache, pre) /\ call.errors = NoParams /\ call.result = None
  BY UnderWay
<1>2. r = [call EXCEPT !.errors = errors, !.resolved = a.values \cap (DOMAIN call.subs \ {Meta})]
  BY DEF Resolved
<1>3. DOMAIN errors = ids /\ \A id \in ids : errors[id] = IF id \in a.refused THEN "validation"
                                     ELSE IF id \in a.declared /\ id \in DOMAIN call.subs THEN "declared"
                                     ELSE "fatal"
  OBVIOUS
<1> HIDE DEF errors, r
<1>4. /\ IsFunctionOn(r, CallFields) /\ r.errors = errors
      /\ r.resolved = a.values \cap (DOMAIN call.subs \ {Meta})
      /\ \A f \in CallFields \ {"errors", "resolved"} : r[f] = call[f]
  BY <1>1, <1>2 DEF Base, IsFunctionOn, CallFields
<1>5. r.route = call.route /\ r.subs = call.subs /\ r.answer = call.answer
  BY <1>4 DEF CallFields
<1>6. Apart(a, ToSet(Chains[call.route])) /\ call.route \in DOMAIN Chains
  BY <1>1 DEF Good, Base, Answered
<1>7. FromAnswer(r)
  BY <1>3, <1>4, <1>5, <1>6 DEF FromAnswer
<1>8. [r EXCEPT !.errors = NoParams, !.resolved = {}] = call
  <2> DEFINE b == [r EXCEPT !.errors = NoParams, !.resolved = {}]
  <2>1. IsFunctionOn(b, CallFields) /\ b.errors = NoParams /\ b.resolved = {}
        /\ \A f \in CallFields \ {"errors", "resolved"} : b[f] = r[f]
    BY <1>4 DEF IsFunctionOn, CallFields
  <2> HIDE DEF b
  <2>2. IsFunctionOn(call, CallFields) /\ call.resolved = {}
    BY <1>1 DEF Base
  <2>3. \A f \in CallFields : b[f] = call[f]
    BY <1>1, <1>4, <2>1, <2>2
  <2>4. b = call
    BY <2>1, <2>2, <2>3 DEF IsFunctionOn
  <2> QED BY <2>4 DEF b
<1>9. DOMAIN r.errors \subseteq Ids
  <2>1. ids \subseteq ToSet(Chains[call.route])
    BY <1>6 DEF Apart
  <2> QED BY <1>3, <1>4, <1>6, <2>1 DEF Ids
<1>10. \A id \in DOMAIN r.errors : r.errors[id] \in Kinds
  BY <1>3, <1>4 DEF Kinds
<1>11. Good(Settled(r), cache, pre)
  BY <1>1, <1>4, <1>7, <1>8, <1>9, <1>10, SettledGood
<1> QED BY <1>11 DEF r
-----------------------------------------------------------------------------
(* The steps *)

\* What comes from storage is public.
LEMMA StoragePublic ==
  ASSUME NEW call, NEW cache, cache \subseteq Public, NEW store, store \subseteq Public
  PROVE  cache \subseteq CacheAfter(call, cache, store) /\ CacheAfter(call, cache, store) \subseteq Public
BY DEF CacheAfter, FromStorage

\* A step of one call leaves the others as they were.
LEMMA OneCall ==
  ASSUME IInv, NEW c \in Calls, NEW q, Become(c, q), Good(q, cached', prefilled),
         cached \subseteq cached', cached' \subseteq Public, stored' \subseteq Public,
         UNCHANGED <<prefilled, ops>>
  PROVE  IInv'
<1>1. ASSUME NEW d \in Calls PROVE Good(calls'[d], cached', prefilled')
  <2>1. CASE d = c
    <3>1. calls'[d] = q
      BY <2>1 DEF Become, IInv, IsFunctionOn
    <3> QED BY <3>1
  <2>2. CASE d # c
    <3>1. calls'[d] = calls[d] /\ Good(calls[d], cached, prefilled)
      BY <2>2 DEF Become, IInv, IsFunctionOn
    <3>2. IsFunctionOn(calls[d], CallFields) /\ \A id \in calls[d].due : prefilled[id] # None
      BY <3>1 DEF Good, Shaped, DueKept
    <3>3. Good(calls[d], cached', prefilled)
      BY <3>1, <3>2, TouchedGood
    <3> QED BY <3>1, <3>3
  <2> QED BY <2>1, <2>2
<1>2. IsFunctionOn(calls', Calls)
  BY DEF Become, IInv, IsFunctionOn
<1>3. IsFunctionOn(prefilled', Public) /\ IsFunctionOn(ops', Ops) /\ \A o \in Ops : OpInv(ops'[o])
  BY DEF IInv, IsFunctionOn
<1> QED BY <1>1, <1>2, <1>3 DEF IInv

\* A step that only touches the calls leaves them in order.
LEMMA TouchedCalls ==
  ASSUME IInv, IsFunctionOn(calls', Calls),
         \A c \in Calls : /\ IsFunctionOn(calls'[c], CallFields) /\ calls'[c].due \subseteq calls[c].due
                          /\ \A f \in CallFields \ {"after", "aborted", "due"} : calls'[c][f] = calls[c][f]
                          /\ \A id \in calls'[c].due : prefilled'[id] # None,
         cached \subseteq cached', cached' \subseteq Public, stored' \subseteq Public,
         IsFunctionOn(prefilled', Public), IsFunctionOn(ops', Ops), \A o \in Ops : OpInv(ops'[o])
  PROVE  IInv'
<1>1. ASSUME NEW c \in Calls PROVE Good(calls'[c], cached', prefilled')
  <2>1. Good(calls[c], cached, prefilled)
    BY DEF IInv
  <2> QED BY <2>1, TouchedGood
<1> QED BY <1>1 DEF IInv

\* A call begins: what it is made with is a call that is ready.
LEMMA LaunchKeeps ==
  ASSUME IInv, NEW c \in Calls, NEW call, Ready(call), Launch(c, call), UNCHANGED <<stored, prefilled, ops>>
  PROVE  IInv'
<1>1. Good(Launched(call), cached, prefilled) /\ IsFunctionOn(Launched(call), CallFields)
  BY LaunchedGood DEF Good, Shaped
<1>2. cached \subseteq cached' /\ cached' \subseteq Public /\ stored' \subseteq Public
  BY StoragePublic DEF Launch, IInv
<1>3. \A id \in Launched(call).due : prefilled[id] # None
  BY <1>1 DEF Good, DueKept
<1>4. Good(Launched(call), cached', prefilled)
  BY <1>1, <1>2, <1>3, TouchedGood
<1> QED BY <1>2, <1>4, OneCall DEF Launch

\* A call is made, at once or after the prefills that are under way.
LEMMA CallKeeps ==
  ASSUME IInv, NEW c \in Calls, NEW setup \in Setups, Call(c, setup)
  PROVE  IInv'
<1> DEFINE call == [NoCall EXCEPT !.route = setup.route, !.own = setup.params, !.after = Pending]
           q == [call EXCEPT !.wait = "prefills"]
<1>1. setup.route \in DOMAIN Chains /\ setup.route \in DOMAIN setup.params /\ DOMAIN setup.params \subseteq Public
  BY ClientAssumption, ChainsAssumption
<1>2. /\ IsFunctionOn(call, CallFields) /\ call.route = setup.route /\ call.own = setup.params
      /\ \A f \in CallFields \ {"route", "own", "after"} : call[f] = NoCall[f]
  BY DEF NoCall, IsFunctionOn, CallFields
<1>3. IF Pending # {} THEN Become(c, q) /\ UNCHANGED cached ELSE Launch(c, call)
  BY DEF Call
<1> HIDE DEF call
<1>4. Ready(call)
  BY <1>1, <1>2 DEF Ready, NoCall, CallFields
<1>5. CASE Pending # {}
  <2>1. /\ IsFunctionOn(q, CallFields) /\ q.wait = "prefills"
        /\ \A f \in CallFields \ {"wait"} : q[f] = call[f]
    BY <1>2 DEF IsFunctionOn, CallFields
  <2> HIDE DEF q
  <2>2. /\ q.route = setup.route /\ q.own = setup.params /\ q.subs = NoParams /\ q.optimistic = FALSE
        /\ q.answer = None /\ q.errors = NoParams /\ q.resolved = {} /\ q.fired = <<>> /\ q.result = None
        /\ q.sent = 0 /\ q.ran = 0 /\ q.knew = FALSE /\ q.due = {}
    BY <1>2, <2>1 DEF NoCall, CallFields
  <2>3. DOMAIN NoParams = {}
    BY DEF NoParams
  <2>4. Shaped(q) /\ Fresh(q) /\ Named(q) /\ Carries(q)
    BY <1>1, <2>1, <2>2 DEF Shaped, Fresh, Named, Carries, Waits, Many
  <2>5. Typed(q)
    BY <2>1, <2>2, <2>3 DEF Typed
  <2>6. DueKept(q, cached, prefilled) /\ Repeats(q) /\ Counted(q) /\ Answered(q)
    BY <2>1, <2>2 DEF DueKept, Repeats, Counted, Answered
  <2>7. Slots(q) /\ Hears(q)
    BY <2>1, <2>2 DEF Slots, Hears, HasAnswer, IdsOf, IsInjective
  <2>8. Good(q, cached, prefilled)
    BY <2>4, <2>5, <2>6, <2>7 DEF Good
  <2>9. UNCHANGED <<cached, stored, prefilled, ops>> /\ cached \subseteq Public /\ stored \subseteq Public
    BY <1>3, <1>5 DEF Call, IInv
  <2> QED BY <1>3, <1>5, <2>8, <2>9, OneCall
<1>6. CASE Pending = {}
  BY <1>3, <1>4, <1>6, LaunchKeeps DEF Call
<1> QED BY <1>5, <1>6

\* The prefills it waited for have settled.
LEMMA PrefillsSettledKeeps ==
  ASSUME IInv, NEW c \in Calls, PrefillsSettled(c)
  PROVE  IInv'
<1>1. Good(calls[c], cached, prefilled) /\ calls[c].wait = "prefills"
  BY DEF IInv, PrefillsSettled
<1>2. Ready(calls[c])
  BY <1>1 DEF Good, Shaped, Fresh, Named, Typed, Hears, Ready
<1> QED BY <1>2, LaunchKeeps DEF PrefillsSettled

\* The metadata is there, or has arrived.
LEMMA MetadataKeeps ==
  ASSUME IInv, NEW c \in Calls, MetadataReady(c) \/ MetadataArrives(c)
  PROVE  IInv'
<1> DEFINE call == calls[c]
<1>1. Good(call, cached, prefilled) /\ call.wait = "metadata" /\ IsFunctionOn(call, CallFields)
  BY DEF IInv, MetadataReady, MetadataArrives, Good, Shaped
<1>2. CASE MetadataReady(c)
  <2>1. UNCHANGED <<cached, stored, prefilled, ops>> /\ cached \subseteq Public /\ stored \subseteq Public
    BY <1>2 DEF MetadataReady, metadata, IInv
  <2>2. Good(Prepared(call, cached), cached, prefilled)
    BY <1>1, <2>1, PreparedGood
  <2>3. Become(c, Prepared(call, cached))
    BY <1>2 DEF MetadataReady
  <2> QED BY <2>1, <2>2, <2>3, OneCall
<1>3. CASE MetadataArrives(c)
  <2> DEFINE ids == MetadataOf(call.missing)
             cache == cached \cup ids
  <2>1. cached' = cache /\ Kept(ids) /\ Become(c, Prepared(call, cache)) /\ UNCHANGED <<prefilled, ops>>
    BY <1>3 DEF MetadataArrives
  <2>2. call.missing \subseteq Public
    BY <1>1 DEF Good, Fresh, Typed
  <2>3. cache \subseteq Public /\ stored' \subseteq Public
    BY <2>1, <2>2, MetadataPublic DEF IInv, Kept
  <2> HIDE DEF ids
  <2>4. \A id \in call.due : prefilled[id] # None
    BY <1>1 DEF Good, DueKept
  <2>5. Good(call, cache, prefilled)
    BY <1>1, <2>4, TouchedGood
  <2>6. Good(Prepared(call, cache), cache, prefilled)
    BY <1>1, <2>3, <2>5, PreparedGood
  <2> QED BY <2>1, <2>3, <2>6, OneCall
<1> QED BY <1>2, <1>3

\* The request fails as a whole.
LEMMA FailureKeeps ==
  ASSUME IInv, NEW c \in Calls,
         MetadataFails(c) \/ FetchFails(c) \/ BodyAborted(c) \/ ReadPlatformError(c)
  PROVE  IInv'
<1>1. Good(calls[c], cached, prefilled) /\ calls[c].wait \in {"metadata", "fetch", "body"}
  BY DEF IInv, MetadataFails, FetchFails, BodyAborted, ReadPlatformError
<1>2. Become(c, FailedCall(calls[c])) /\ UNCHANGED <<cached, stored, prefilled, ops>>
  BY DEF MetadataFails, FetchFails, BodyAborted, ReadPlatformError, metadata
<1>3. Good(FailedCall(calls[c]), cached, prefilled)
  BY <1>1, UnderWay, FailedGood
<1> QED BY <1>2, <1>3, OneCall DEF IInv

\* The server answers, or its platform.
LEMMA AnswerKeeps ==
  ASSUME IInv, NEW c \in Calls, (\E behaviour \in Behaviours : Served(c, behaviour)) \/ PlatformFails(c)
  PROVE  IInv'
<1>1. Good(calls[c], cached, prefilled) /\ calls[c].wait = "fetch"
  BY DEF IInv, Served, PlatformFails
<1>2. UNCHANGED <<cached, stored, prefilled, ops>> /\ cached \subseteq Public /\ stored \subseteq Public
  BY DEF Served, PlatformFails, metadata, IInv
<1>3. ASSUME NEW behaviour \in Behaviours, Served(c, behaviour) PROVE IInv'
  <2> DEFINE a == AnswerTo(calls[c], behaviour)
             q == [calls[c] EXCEPT !.wait = "body", !.answer = a, !.refused = @ \cup (a.refused \ a.claimed),
                       !.sent = OneMore(@), !.claimed = @ \cup a.claimed,
                       !.ran = IF RouteRan(calls[c], a) THEN OneMore(@) ELSE @]
  <2>1. Become(c, q)
    BY <1>3 DEF Served
  <2>2. Good(q, cached, prefilled)
    BY <1>1, ServedGood
  <2> HIDE DEF q
  <2> QED BY <1>2, <2>1, <2>2, OneCall
<1>4. CASE PlatformFails(c)
  <2> DEFINE q == [calls[c] EXCEPT !.wait = "body", !.answer = [Answer EXCEPT !.down = TRUE]]
  <2>1. Become(c, q)
    BY <1>4 DEF PlatformFails
  <2>2. Good(q, cached, prefilled)
    BY <1>1, PlatformGood
  <2> HIDE DEF q
  <2> QED BY <1>2, <2>1, <2>2, OneCall
<1> QED BY <1>3, <1>4

\* The body is read: a failure, another request, or the end.
LEMMA ReadBodyKeeps ==
  ASSUME IInv, NEW c \in Calls, ReadBody(c)
  PROVE  IInv'
<1> DEFINE call == calls[c]
           cache == cached \cup call.answer.meta
           readable == call.answer.values \cup call.answer.declared \subseteq cache
           next == IF ~readable THEN FailedCall(call)
                   ELSE IF MustRetry(call) THEN Retried(call, cache)
                   ELSE Settled(Resolved(call))
<1>1. Good(call, cached, prefilled) /\ call.wait = "body" /\ IsFunctionOn(call, CallFields)
  BY DEF IInv, ReadBody, Good, Shaped
<1>2. Become(c, next) /\ Kept(call.answer.meta) /\ cached' = CacheAfter(next, cache, stored')
      /\ UNCHANGED <<prefilled, ops>>
  BY DEF ReadBody
<1>3. call.answer.meta \subseteq Public
  BY <1>1 DEF Good, Answered, Apart
<1>4. cache \subseteq Public /\ stored' \subseteq Public
  BY <1>2, <1>3 DEF IInv, Kept
<1>5. \A id \in call.due : prefilled[id] # None
  BY <1>1 DEF Good, DueKept
<1>6. Good(call, cache, prefilled)
  BY <1>1, <1>5, TouchedGood
<1>7. Good(FailedCall(call), cache, prefilled)
  BY <1>1, <1>6, UnderWay, FailedGood
<1>8. MustRetry(call) => Good(Retried(call, cache), cache, prefilled)
  BY <1>1, RetriedGood
<1>9. Good(Settled(Resolved(call)), cache, prefilled)
  BY <1>1, <1>6, ResolvedGood
<1>10. Good(next, cache, prefilled)
  BY <1>7, <1>8, <1>9
<1> HIDE DEF next
<1>11. cache \subseteq cached' /\ cached' \subseteq Public
  <2> HIDE DEF cache
  <2> QED BY <1>2, <1>4, StoragePublic
<1>12. IsFunctionOn(next, CallFields) /\ \A id \in next.due : prefilled[id] # None
  BY <1>10 DEF Good, Shaped, DueKept
<1>13. Good(next, cached', prefilled)
  <2> HIDE DEF cache
  <2> QED BY <1>10, <1>11, <1>12, TouchedGood
<1> QED BY <1>2, <1>4, <1>11, <1>13, OneCall

\* Calls are aborted.
LEMMA AbortKeeps ==
  ASSUME IInv, AbortAll \/ \E c \in Calls : Abort(c)
  PROVE  IInv'
<1>1. UNCHANGED <<cached, stored, prefilled, ops>> /\ cached \subseteq Public /\ stored \subseteq Public
  BY DEF AbortAll, Abort, metadata, IInv
<1>2. IsFunctionOn(calls', Calls)
        /\ \A c \in Calls : calls'[c] = calls[c] \/ calls'[c] = [calls[c] EXCEPT !.aborted = TRUE]
  BY DEF AbortAll, Abort, Become, IInv, IsFunctionOn
<1>3. ASSUME NEW c \in Calls
      PROVE  /\ IsFunctionOn(calls'[c], CallFields) /\ calls'[c].due \subseteq calls[c].due
             /\ \A f \in CallFields \ {"after", "aborted", "due"} : calls'[c][f] = calls[c][f]
             /\ \A id \in calls'[c].due : prefilled'[id] # None
  <2> DEFINE call == calls[c]
             q == calls'[c]
  <2>1. IsFunctionOn(call, CallFields) /\ \A id \in call.due : prefilled[id] # None
    BY DEF IInv, Good, Shaped, DueKept
  <2>2. q = call \/ q = [call EXCEPT !.aborted = TRUE]
    BY <1>2
  <2> HIDE DEF call, q
  <2>3. IsFunctionOn(q, CallFields) /\ \A f \in CallFields \ {"aborted"} : q[f] = call[f]
    BY <2>1, <2>2 DEF IsFunctionOn, CallFields
  <2>4. q.due = call.due
    BY <2>3 DEF CallFields
  <2>5. \A f \in CallFields \ {"after", "aborted", "due"} : q[f] = call[f]
    BY <2>3
  <2> QED BY <1>1, <2>1, <2>3, <2>4, <2>5 DEF call, q
<1>4. IsFunctionOn(prefilled', Public) /\ IsFunctionOn(ops', Ops) /\ \A o \in Ops : OpInv(ops'[o])
  BY <1>1 DEF IInv, IsFunctionOn
<1> QED BY <1>1, <1>2, <1>3, <1>4, TouchedCalls

\* An operation begins: what it asks for may come from storage.
LEMMA BeginKeeps ==
  ASSUME IInv, NEW o \in Ops, NEW setup \in OpSetups, BeginOp(o, setup)
  PROVE  IInv'
<1> DEFINE op == [wait |-> "metadata", setup |-> setup, missing |-> OpMissing(setup)]
<1>1. /\ cached \subseteq cached' /\ cached' \subseteq Public /\ stored' \subseteq Public
      /\ UNCHANGED <<prefilled, calls>>
  BY DEF BeginOp, FromStorage, IInv
<1>2. IsFunctionOn(ops', Ops) /\ \A p \in Ops : OpInv(ops'[p])
  <2>1. OpInv(op)
    BY DEF OpInv, OpMissing, IsFunctionOn
  <2>2. ops' = [ops EXCEPT ![o] = op]
    BY DEF BeginOp, SetOp
  <2> HIDE DEF op
  <2> QED BY <2>1, <2>2 DEF IInv, IsFunctionOn
<1>3. ASSUME NEW c \in Calls
      PROVE  /\ IsFunctionOn(calls'[c], CallFields) /\ calls'[c].due \subseteq calls[c].due
             /\ \A f \in CallFields \ {"after", "aborted", "due"} : calls'[c][f] = calls[c][f]
             /\ \A id \in calls'[c].due : prefilled'[id] # None
  BY <1>1 DEF IInv, Good, Shaped, DueKept
<1>4. IsFunctionOn(calls', Calls) /\ IsFunctionOn(prefilled', Public)
  BY <1>1 DEF IInv, IsFunctionOn
<1> QED BY <1>1, <1>2, <1>3, <1>4, TouchedCalls

\* An operation is over, whichever way: what was prefilled before is still prefilled.
LEMMA OpKeeps ==
  ASSUME IInv, NEW o \in Ops, OpStep(o)
  PROVE  IInv'
<1> DEFINE setup == ops[o].setup
<1>1. Over(o)
  BY DEF OpStep, OpReady, OpMetadataArrives, OpFails
<1>2. ops[o] # NoOp
  BY DEF OpStep, OpReady, OpMetadataArrives, OpFails, NoOp
<1>3. setup \in OpSetups /\ ops[o].missing \subseteq {setup.id}
  BY <1>2 DEF IInv, OpInv
<1>4. setup.id \in Public /\ setup.quality # None
  BY <1>3, ClientAssumption, NoneAssumption
<1>5. Finished(setup) \/ UNCHANGED prefilled
  BY DEF OpStep, OpReady, OpMetadataArrives, OpFails
<1> HIDE DEF setup
<1>6. IsFunctionOn(prefilled', Public) /\ \A id \in Public : prefilled[id] # None => prefilled'[id] # None
  BY <1>4, <1>5 DEF Finished, IInv, IsFunctionOn
<1>7. cached \subseteq cached' /\ cached' \subseteq Public /\ stored' \subseteq Public
  <2>1. CASE UNCHANGED <<cached, stored>>
    BY <2>1 DEF IInv
  <2>2. CASE OpMetadataArrives(o)
    <3> DEFINE ids == MetadataOf(ops[o].missing)
    <3>1. ids \subseteq Public
      BY <1>3, <1>4, MetadataPublic
    <3>2. cached' = cached \cup ids /\ (stored' = stored \/ stored' = stored \cup ids)
      BY <2>2 DEF OpMetadataArrives, Kept
    <3> HIDE DEF ids
    <3> QED BY <3>1, <3>2 DEF IInv
  <2> QED BY <2>1, <2>2 DEF OpStep, OpReady, OpFails, metadata
<1>8. IsFunctionOn(ops', Ops) /\ \A p \in Ops : OpInv(ops'[p])
  <2>1. OpInv(NoOp)
    BY DEF OpInv
  <2> QED BY <1>1, <2>1 DEF Over, SetOp, IInv, IsFunctionOn
<1>9. ASSUME NEW c \in Calls
      PROVE  /\ IsFunctionOn(calls'[c], CallFields) /\ calls'[c].due \subseteq calls[c].due
             /\ \A f \in CallFields \ {"after", "aborted", "due"} : calls'[c][f] = calls[c][f]
             /\ \A id \in calls'[c].due : prefilled'[id] # None
  <2> DEFINE call == calls[c]
             q == calls'[c]
  <2>1. IsFunctionOn(call, CallFields) /\ call.due \subseteq MiddleFnIds(call.route)
        /\ \A id \in call.due : prefilled[id] # None
    BY DEF IInv, Good, Shaped, DueKept
  <2>2. q = [call EXCEPT !.after = @ \ {o}]
    BY <1>1 DEF Over
  <2> HIDE DEF call, q
  <2>3. IsFunctionOn(q, CallFields) /\ \A f \in CallFields \ {"after"} : q[f] = call[f]
    BY <2>1, <2>2 DEF IsFunctionOn, CallFields
  <2>4. q.due = call.due
    BY <2>3 DEF CallFields
  <2>5. \A id \in q.due : prefilled'[id] # None
    BY <1>6, <2>1, <2>4 DEF MiddleFnIds
  <2> QED BY <2>3, <2>4, <2>5 DEF call, q
<1>10. IsFunctionOn(calls', Calls)
  BY <1>1 DEF Over, IsFunctionOn
<1> QED BY <1>6, <1>7, <1>8, <1>9, <1>10, TouchedCalls

\* What is removed is no longer due.
LEMMA RemoveKeeps ==
  ASSUME IInv, NEW id \in Public, RemovePrefill(id)
  PROVE  IInv'
<1>1. UNCHANGED <<cached, stored, ops>> /\ cached \subseteq Public /\ stored \subseteq Public
  BY DEF RemovePrefill, metadata, IInv
<1>2. IsFunctionOn(prefilled', Public) /\ \A i \in Public \ {id} : prefilled'[i] = prefilled[i]
  BY DEF RemovePrefill, IInv, IsFunctionOn
<1>3. ASSUME NEW c \in Calls
      PROVE  /\ IsFunctionOn(calls'[c], CallFields) /\ calls'[c].due \subseteq calls[c].due
             /\ \A f \in CallFields \ {"after", "aborted", "due"} : calls'[c][f] = calls[c][f]
             /\ \A i \in calls'[c].due : prefilled'[i] # None
  <2> DEFINE call == calls[c]
             q == calls'[c]
  <2>1. IsFunctionOn(call, CallFields) /\ call.due \subseteq MiddleFnIds(call.route)
        /\ \A i \in call.due : prefilled[i] # None
    BY DEF IInv, Good, Shaped, DueKept
  <2>2. q = [call EXCEPT !.due = @ \ {id}]
    BY DEF RemovePrefill
  <2> HIDE DEF call, q
  <2>3. IsFunctionOn(q, CallFields) /\ q.due = call.due \ {id}
        /\ \A f \in CallFields \ {"due"} : q[f] = call[f]
    BY <2>1, <2>2 DEF IsFunctionOn, CallFields
  <2>4. \A i \in q.due : prefilled'[i] # None
    BY <1>2, <2>1, <2>3 DEF MiddleFnIds
  <2> QED BY <2>3, <2>4 DEF call, q
<1>4. IsFunctionOn(calls', Calls)
  BY DEF RemovePrefill, IsFunctionOn
<1>5. IsFunctionOn(ops', Ops) /\ \A o \in Ops : OpInv(ops'[o])
  BY <1>1 DEF IInv, IsFunctionOn
<1> QED BY <1>1, <1>2, <1>3, <1>4, <1>5, TouchedCalls

\* A call that has not been made is in order.
LEMMA NoCallGood ==
  ASSUME NEW cache, NEW pre
  PROVE  Good(NoCall, cache, pre)
<1> DEFINE q == NoCall
<1>1. /\ IsFunctionOn(q, CallFields) /\ q.wait = "idle" /\ q.subs = NoParams /\ q.optimistic = FALSE
      /\ q.answer = None /\ q.errors = NoParams /\ q.resolved = {} /\ q.fired = <<>> /\ q.result = None
      /\ q.sent = 0 /\ q.ran = 0 /\ q.knew = FALSE /\ q.due = {}
  BY DEF NoCall, IsFunctionOn, CallFields
<1> HIDE DEF q
<1>2. DOMAIN NoParams = {}
  BY DEF NoParams
<1>3. Shaped(q) /\ Fresh(q) /\ Named(q) /\ Carries(q)
  BY <1>1 DEF Shaped, Fresh, Named, Carries, Waits, Many
<1>4. Typed(q)
  BY <1>1, <1>2 DEF Typed
<1>5. DueKept(q, cache, pre) /\ Repeats(q) /\ Counted(q) /\ Answered(q)
  BY <1>1 DEF DueKept, Repeats, Counted, Answered
<1>6. Slots(q) /\ Hears(q)
  BY <1>1 DEF Slots, Hears, HasAnswer, IdsOf, IsInjective
<1> QED BY <1>3, <1>4, <1>5, <1>6 DEF Good, q

\* A page that was just loaded is in order, whatever its storage kept.
LEMMA FreshPage ==
  ASSUME NEW store, store \subseteq Public
  PROVE  /\ {} \subseteq Public /\ store \subseteq Public
         /\ IsFunctionOn([id \in Public |-> None], Public)
         /\ IsFunctionOn([o \in Ops |-> NoOp], Ops) /\ \A o \in Ops : OpInv([p \in Ops |-> NoOp][o])
         /\ IsFunctionOn([c \in Calls |-> NoCall], Calls)
         /\ \A c \in Calls : Good([d \in Calls |-> NoCall][c], {}, [id \in Public |-> None])
BY NoCallGood DEF IsFunctionOn, OpInv

\* Every step keeps the invariant.
LEMMA StepKeeps ==
  ASSUME IInv, [Next]_vars
  PROVE  IInv'
<1>1. ASSUME NEW c \in Calls, NEW setup \in Setups, Call(c, setup) PROVE IInv'
  BY <1>1, CallKeeps
<1>2. ASSUME NEW c \in Calls, CallStep(c) PROVE IInv'
  BY <1>2, PrefillsSettledKeeps, MetadataKeeps, FailureKeeps, AnswerKeeps, ReadBodyKeeps DEF CallStep
<1>3. ASSUME NEW c \in Calls, Abort(c) PROVE IInv'
  BY <1>3, AbortKeeps
<1>4. ASSUME NEW o \in Ops, NEW setup \in OpSetups, BeginOp(o, setup) PROVE IInv'
  BY <1>4, BeginKeeps
<1>5. ASSUME NEW o \in Ops, OpStep(o) PROVE IInv'
  BY <1>5, OpKeeps
<1>6. ASSUME NEW id \in Public, RemovePrefill(id) PROVE IInv'
  BY <1>6, RemoveKeeps
<1>7. CASE AbortAll
  BY <1>7, AbortKeeps
<1>8. CASE Reload
  <2>1. stored' \subseteq Public
    BY <1>8 DEF Reload, IInv
  <2> QED BY <1>8, <2>1, FreshPage DEF Reload, IInv
<1>9. CASE UNCHANGED vars
  BY <1>9 DEF vars, metadata, IInv, IsFunctionOn
<1> QED BY <1>1, <1>2, <1>3, <1>4, <1>5, <1>6, <1>7, <1>8, <1>9 DEF Next

\* In every state of every page each call carries what its place says.
THEOREM ClientInvariant == Spec => []IInv
<1>1. Init => IInv
  BY FreshPage DEF Init, IInv
<1>2. IInv /\ [Next]_vars => IInv'
  BY StepKeeps
<1> QED BY <1>1, <1>2, PTL DEF Spec

\* Types, slots and handlers: whatever the server answers, every part of an answer is
\* heard once, by whom it is meant for (client.ts:160-274, request.ts:249-278).
THEOREM EveryAnswerReaches == Spec => []AnswersReachTheirOwn
<1>1. IInv => TypeOK
  BY DEF IInv, Good, Typed, TypeOK
<1>2. IInv => SlotsKeepApart
  <2> SUFFICES ASSUME IInv, NEW c \in Calls, HasAnswer(calls[c])
               PROVE  LET call == calls[c]
                          a == call.answer
                          own == a.refused \cup (a.declared \cap DOMAIN call.subs)
                          nobodys == a.thrown \cup (a.declared \ DOMAIN call.subs) \cup (a.refused \ DOMAIN call.subs)
                      IN /\ call.result.routeError = (call.route \in own)
                         /\ call.result.middleFnErrors = own \cap MiddleFns(call)
                         /\ call.result.routeResult = (call.route \in a.values)
                         /\ call.result.middleFnResults = a.values \cap MiddleFns(call)
                         /\ (call.result.fatal = None) = (nobodys = {})
                         /\ call.result.fatal # None => call.result.fatal \in nobodys
    BY DEF SlotsKeepApart, HasAnswer
  <2>1. Slots(calls[c])
    BY DEF IInv, Good
  <2> QED BY <2>1 DEF Slots, Own, Nobodys
<1>3. IInv => HandlersHearOnce
  <2> SUFFICES ASSUME IInv, NEW c \in Calls
               PROVE  /\ IsInjective(IdsOf(calls[c].fired))
                      /\ calls[c].wait # "settled" => calls[c].fired = <<>>
                      /\ HasAnswer(calls[c]) =>
                           ToSet(IdsOf(calls[c].fired)) = MiddleFns(calls[c]) \cap
                             (calls[c].answer.values \cup calls[c].answer.declared \cup calls[c].answer.refused)
    BY DEF HandlersHearOnce, HasAnswer, IdsOf
  <2>1. Hears(calls[c]) /\ Fresh(calls[c])
    BY DEF IInv, Good
  <2> QED BY <2>1 DEF Hears, Fresh
<1>4. IInv => AnswersReachTheirOwn
  BY <1>1, <1>2, <1>3 DEF AnswersReachTheirOwn
<1> QED BY <1>4, ClientInvariant, PTL

\* Once the client has the metadata of a route, a call carries what was prefilled
\* before, and always what the caller passed (request.ts:334-366).
THEOREM PrefillsAreSent == Spec => []KnownPrefillsSent
<1>1. IInv => KnownPrefillsSent
  <2> SUFFICES ASSUME IInv, NEW c \in Calls, calls[c].answer # None
               PROVE  /\ calls[c].knew => calls[c].due \subseteq DOMAIN calls[c].subs
                      /\ \A id \in DOMAIN calls[c].own : calls[c].subs[id] = calls[c].own[id]
    BY DEF KnownPrefillsSent
  <2>1. Fresh(calls[c]) /\ Carries(calls[c]) /\ DueKept(calls[c], cached, prefilled)
    BY DEF IInv, Good
  <2>2. calls[c].wait \notin {"idle", "prefills"}
    BY <2>1 DEF Fresh
  <2> QED BY <2>1, <2>2 DEF Carries, DueKept
<1> QED BY <1>1, ClientInvariant, PTL

\* A request whose route has run is repeated only after a middleFn behind the route
\* was refused, or a handler gave an error that is taken for a refusal
\* (request.ts:155-176).
THEOREM RoutesRunOnce == Spec => []RouteRunsOnce
<1>1. IInv => RouteRunsOnce
  BY DEF IInv, Good, Repeats, Grounds, RouteRunsOnce
<1> QED BY <1>1, ClientInvariant, PTL

\* If the server has every id the page names, all that is sent is due and no call sends
\* more than two requests (request.ts:141-176, 334-366).
THEOREM SentIsDue ==
  ASSUME Public \subseteq Known
  PROVE  Spec => []SentAsDue
<1>1. IInv => SendsTwiceAtMost
  BY DEF IInv, Good, Counted, SendsTwiceAtMost
<1>2. Spec => []SendsTwiceAtMost
  BY <1>1, ClientInvariant, PTL
<1>3. KnownPrefillsSent /\ RouteRunsOnce /\ SendsTwiceAtMost <=> SentAsDue
  BY DEF SentAsDue
<1> QED BY <1>2, <1>3, PrefillsAreSent, RoutesRunOnce, PTL
=============================================================================
