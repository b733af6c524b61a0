--------------------------- MODULE PlatformsProofs ---------------------------
(***************************************************************************)
(* Proofs about Dispatch, NodeHttp and Platforms, in two parts.            *)
(*                                                                         *)
(* First, of Dispatch on any platform: for any requests, chains and pool   *)
(* size, a context shell serves one request at a time; a response that was *)
(* returned to the platform does not change while the platform reads it,   *)
(* tells of its own request only, and its header, status and body agree    *)
(* about the errors; an error of a method that runs before the params are  *)
(* read reaches the client.                                                *)
(*                                                                         *)
(* The actions fall into four shapes.  A request starts on a shell and a   *)
(* response nobody uses (StartShape), goes on with what is its own         *)
(* (ProgressShape), gives its shell back with a new response (EndShape),   *)
(* or touches neither.  Each action is shown to have a shape, and each     *)
(* shape to keep the invariant; only then do the details of the serializer *)
(* and of the error handling no longer matter.                             *)
(*                                                                         *)
(* Second, every adapter keeps to what Dispatch supposes of its platform,  *)
(* so what is proved of Dispatch holds of every platform: for any number   *)
(* of requests, any chains, any pool size and any set of buffers.          *)
(*                                                                         *)
(* That argument is a step simulation with the identity as its mapping: an *)
(* action of an adapter either leaves the variables of Dispatch alone,     *)
(* seals a request's headers (AnswerEarly), drops a response (Reply), or   *)
(* is an action of Dispatch with the adapter's own bookkeeping.  Of that   *)
(* bookkeeping two invariants are proved: no two requests of a node server *)
(* share what they read into, and every request is answered once.          *)
(***************************************************************************)
EXTENDS Platforms, FiniteSetTheorems, SequenceTheorems, TLAPS

IsFunctionOn(f, S) == f = [x \in S |-> f[x]]

Phases == {"new", "running", "awaiting", "delivered", "replied", "rejected"}

CallRecord ==
  [pc : Phases, ctx : Contexts \cup {None}, resp : Responses \cup {None},
   chain : Chains \cup {None}, i : Nat, threw : BOOLEAN]

Shell == [thrown : Requests \cup {None}, response : Responses \cup {None}]

\* The types the argument needs; the fields of a response are not among them.
HeapTypes ==
  /\ pool \in Seq(Contexts)
  /\ ctx \in [Contexts -> Shell]
  /\ call \in [Requests -> CallRecord]
  /\ IsFunctionOn(heap, Responses)
  /\ IsFunctionOn(errorsOf, Requests)

\* What a request in flight holds: a shell, the response that shell refers to,
\* errors of its own, and a place in its chain.
HoldsOwn(r) ==
  /\ call[r].ctx \in Contexts
  /\ call[r].resp = ctx[call[r].ctx].response
  /\ ctx[call[r].ctx].thrown \in {r, None}
  /\ call[r].chain \in Chains
  /\ call[r].pc = "awaiting" => call[r].i \in DOMAIN Methods(r)

\* A response is read by one request, and a pooled shell refers to one that no
\* request reads and no other pooled shell refers to.
ResponseExclusive ==
  /\ \A r \in Requests : HasResponse(r) => call[r].resp \in Responses
  /\ \A r, q \in Requests : HasResponse(r) /\ HasResponse(q) /\ r # q => call[r].resp # call[q].resp
  /\ \A c \in PooledContexts : ctx[c].response \in Responses
  /\ \A c, d \in PooledContexts : c # d => ctx[c].response # ctx[d].response
  /\ \A c \in PooledContexts, r \in Requests : HasResponse(r) => call[r].resp # ctx[c].response

HeapInv ==
  /\ HeapTypes
  /\ ContextExclusive
  /\ \A r \in Requests : InFlight(r) => HoldsOwn(r)
  /\ ResponseExclusive

\* A request that neither starts, goes on nor ends keeps its record.
OthersKeepCalls(r) == \A q \in Requests \ {r} : call'[q] = call[q]

StaysFrozen ==
  \A r \in Requests : Delivered(r) /\ Delivered(r)' =>
    Response(r)' = Response(r) /\ errorsOf[r]' = errorsOf[r]
-----------------------------------------------------------------------------
(* The shapes of the actions. *)

\* r is in flight and stays so, with its shell and its response
ProgressShape(r) ==
  /\ InFlight(r)
  /\ pool' = pool
  /\ call' \in [Requests -> CallRecord] /\ OthersKeepCalls(r)
  /\ call'[r].pc \in {"running", "awaiting"}
  /\ call'[r].ctx = call[r].ctx /\ call'[r].resp = call[r].resp /\ call'[r].chain = call[r].chain
  /\ call'[r].pc = "awaiting" => call'[r].i \in DOMAIN Methods(r)
  /\ ctx' \in [Contexts -> Shell]
  /\ \A c \in Contexts : ctx'[c].response = ctx[c].response
  /\ \A c \in Contexts \ {call[r].ctx} : ctx'[c] = ctx[c]
  /\ ctx'[call[r].ctx].thrown \in {r, None}
  /\ IsFunctionOn(heap', Responses)
  /\ \A o \in Responses \ {call[r].resp} : heap'[o] = heap[o]
  /\ IsFunctionOn(errorsOf', Requests)
  /\ \A q \in Requests \ {r} : errorsOf'[q] = errorsOf[q]

\* r starts with shell c and response o, which no other request and no shell
\* left in the pool refers to
StartShape(r, c, o) ==
  /\ call[r].pc = "new"
  /\ pool' \in Seq(Contexts)
  /\ \A i, j \in DOMAIN pool' : pool'[i] = pool'[j] => i = j
  /\ \A i \in DOMAIN pool' : pool'[i] \in PooledContexts /\ pool'[i] # c /\ ctx[pool'[i]].response # o
  /\ c \in Contexts /\ c \notin UsedContexts
  /\ o \in Responses /\ \A q \in Requests : HasResponse(q) => call[q].resp # o
  /\ \E chain \in Chains : Start(r, c, o, chain)

\* r ends, in state pc; its shell is dropped, or pooled with a fresh response
EndShape(r, pc) ==
  /\ InFlight(r)
  /\ ReleaseContext(call[r].ctx)
  /\ call' \in [Requests -> CallRecord] /\ OthersKeepCalls(r)
  /\ call'[r].pc = pc
  /\ \/ pc = "rejected"
     \/ pc = "delivered" /\ call'[r].resp = call[r].resp
  /\ UNCHANGED errorsOf
-----------------------------------------------------------------------------
(* Each shape keeps the invariant, and what was returned stays as it is. *)

\* Going on with one's own shell, response and errors disturbs nobody.
LEMMA ProgressKeeps ==
  ASSUME HeapInv, NEW r \in Requests, ProgressShape(r)
  PROVE  HeapInv' /\ StaysFrozen
<1>1. \A q \in Requests : call'[q].ctx = call[q].ctx /\ call'[q].resp = call[q].resp
                           /\ call'[q].chain = call[q].chain
  BY DEF ProgressShape, OthersKeepCalls
<1>2. \A q \in Requests : InFlight(q)' <=> InFlight(q)
  BY DEF ProgressShape, OthersKeepCalls, InFlight
<1>3. \A q \in Requests : HasResponse(q)' <=> HasResponse(q)
  BY <1>2 DEF ProgressShape, OthersKeepCalls, HasResponse, Delivered, InFlight
<1>4. PooledContexts' = PooledContexts
  BY DEF ProgressShape, PooledContexts
<1>5. HeapTypes'
  BY DEF HeapInv, HeapTypes, ProgressShape
<1>6. ContextExclusive'
  BY <1>1, <1>2, <1>4 DEF HeapInv, ContextExclusive, ProgressShape
<1>7. \A q \in Requests : InFlight(q)' => HoldsOwn(q)'
  <2> SUFFICES ASSUME NEW q \in Requests, InFlight(q) PROVE HoldsOwn(q)'
    BY <1>2
  <2>1. HoldsOwn(q)
    BY DEF HeapInv
  <2>2. ctx'[call[q].ctx].thrown \in {q, None}
    <3>1. CASE q = r
      BY <3>1 DEF ProgressShape
    <3>2. CASE q # r
      BY <3>2, <2>1 DEF HeapInv, ContextExclusive, ProgressShape, HoldsOwn
    <3> QED BY <3>1, <3>2
  <2>3. call'[q].pc = "awaiting" => call'[q].i \in DOMAIN Methods(q)'
    <3>1. Methods(q)' = Methods(q)
      BY <1>1 DEF Methods
    <3> QED BY <2>1, <3>1 DEF HoldsOwn, ProgressShape, OthersKeepCalls
  <2> QED BY <1>1, <2>1, <2>2, <2>3 DEF HoldsOwn, ProgressShape
<1>8. ResponseExclusive'
  <2>1. \A c \in PooledContexts : c \in Contexts
    BY DEF HeapInv, HeapTypes, PooledContexts
  <2>2. \A c \in Contexts : ctx'[c].response = ctx[c].response
    BY DEF ProgressShape
  <2> QED BY <1>1, <1>3, <1>4, <2>1, <2>2 DEF HeapInv, ResponseExclusive
<1>9. StaysFrozen
  <2> SUFFICES ASSUME NEW q \in Requests, Delivered(q), Delivered(q)'
               PROVE  Response(q)' = Response(q) /\ errorsOf'[q] = errorsOf[q]
    BY DEF StaysFrozen
  <2>1. q # r
    BY DEF ProgressShape, InFlight, Delivered
  <2>2. call[q].resp \in Responses \ {call[r].resp}
    BY <2>1 DEF HeapInv, ResponseExclusive, HasResponse, ProgressShape
  <2>3. Response(q)' = Response(q)
    BY <1>1, <2>2 DEF Response, ProgressShape
  <2>4. errorsOf'[q] = errorsOf[q]
    BY <2>1 DEF ProgressShape
  <2> QED BY <2>3, <2>4
<1> QED BY <1>5, <1>6, <1>7, <1>8, <1>9 DEF HeapInv

\* A request that starts takes a shell and a response that were nobody's.
LEMMA StartKeeps ==
  ASSUME HeapInv, NEW r \in Requests, NEW c, NEW o, StartShape(r, c, o)
  PROVE  HeapInv' /\ StaysFrozen
<1> USE DEF HeapInv
<1>0. PICK chain \in Chains : Start(r, c, o, chain)
  BY DEF StartShape
<1>1. c \in Contexts /\ o \in Responses
  BY DEF StartShape
<1>2. /\ ctx' = [ctx EXCEPT ![c] = [thrown |-> None, response |-> o]]
      /\ heap' = [heap EXCEPT ![o] = Fresh(r, chain.serializer)]
      /\ errorsOf' = errorsOf
  BY <1>0 DEF Start
<1>3. call' = [call EXCEPT ![r] = [pc |-> "running", ctx |-> c, resp |-> o, chain |-> chain,
                                    i |-> 1, threw |-> FALSE]]
  BY <1>0 DEF Start
<1>4. HeapTypes'
  <2>1. call' \in [Requests -> CallRecord]
    BY <1>1, <1>3 DEF HeapTypes, CallRecord, Phases
  <2>2. ctx' \in [Contexts -> Shell]
    BY <1>1, <1>2 DEF HeapTypes, Shell
  <2>3. IsFunctionOn(heap', Responses) /\ IsFunctionOn(errorsOf', Requests)
    BY <1>2 DEF HeapTypes, IsFunctionOn
  <2>4. pool' \in Seq(Contexts)
    BY DEF StartShape
  <2> QED BY <2>1, <2>2, <2>3, <2>4 DEF HeapTypes
<1>5. /\ call'[r].pc = "running" /\ call'[r].ctx = c /\ call'[r].resp = o /\ call'[r].chain = chain
      /\ \A q \in Requests \ {r} : call'[q] = call[q]
  BY <1>3 DEF HeapTypes
<1>6. /\ InFlight(r)' /\ HasResponse(r)'
      /\ \A q \in Requests \ {r} : (InFlight(q)' <=> InFlight(q)) /\ (HasResponse(q)' <=> HasResponse(q))
  BY <1>5 DEF InFlight, HasResponse, Delivered
<1>7. \A d \in PooledContexts' : d \in PooledContexts /\ d \in Contexts /\ d # c /\ ctx[d].response # o
  BY DEF StartShape, PooledContexts, HeapTypes
<1>8. /\ ctx'[c] = [thrown |-> None, response |-> o]
      /\ \A d \in Contexts \ {c} : ctx'[d] = ctx[d]
  BY <1>1, <1>2 DEF HeapTypes
<1>9. \A q \in Requests : InFlight(q) => call[q].ctx # c
  BY DEF StartShape, UsedContexts
<1>10. ContextExclusive'
  <2>1. \A i, j \in DOMAIN pool' : pool'[i] = pool'[j] => i = j
    BY DEF StartShape
  <2>2. ASSUME NEW q \in Requests, InFlight(q)'
        PROVE  /\ call'[q].ctx \notin PooledContexts'
               /\ \A p \in Requests \ {q} : InFlight(p)' => call'[p].ctx # call'[q].ctx
    <3>1. CASE q = r
      BY <3>1, <1>5, <1>6, <1>7, <1>9
    <3>2. CASE q # r
      BY <3>2, <2>2, <1>5, <1>6, <1>7, <1>9 DEF ContextExclusive
    <3> QED BY <3>1, <3>2
  <2> QED BY <2>1, <2>2 DEF ContextExclusive
<1>11. \A q \in Requests : InFlight(q)' => HoldsOwn(q)'
  <2> SUFFICES ASSUME NEW q \in Requests, InFlight(q)' PROVE HoldsOwn(q)'
    OBVIOUS
  <2>1. CASE q = r
    BY <2>1, <1>1, <1>5, <1>8 DEF HoldsOwn
  <2>2. CASE q # r
    BY <2>2, <1>5, <1>6, <1>8, <1>9 DEF HoldsOwn, Methods
  <2> QED BY <2>1, <2>2
<1>12. ResponseExclusive'
  <2>1. \A q \in Requests : HasResponse(q) => call[q].resp # o
    BY DEF StartShape
  <2>2. \A q \in Requests : HasResponse(q)' => call'[q].resp \in Responses
    BY <1>1, <1>5, <1>6 DEF ResponseExclusive
  <2>3. \A q, p \in Requests : HasResponse(q)' /\ HasResponse(p)' /\ q # p => call'[q].resp # call'[p].resp
    BY <2>1, <1>5, <1>6 DEF ResponseExclusive
  <2>4. \A d \in PooledContexts' : ctx'[d] = ctx[d]
    BY <1>7, <1>8
  <2>5. \A d \in PooledContexts', q \in Requests : HasResponse(q)' => call'[q].resp # ctx'[d].response
    BY <2>4, <1>5, <1>6, <1>7 DEF ResponseExclusive
  <2> QED BY <2>2, <2>3, <2>4, <2>5, <1>7 DEF ResponseExclusive
<1>13. StaysFrozen
  <2> SUFFICES ASSUME NEW q \in Requests, Delivered(q), Delivered(q)'
               PROVE  Response(q)' = Response(q) /\ errorsOf'[q] = errorsOf[q]
    BY DEF StaysFrozen
  <2>1. q # r
    BY DEF StartShape, Delivered
  <2>2. call[q].resp \in Responses /\ call[q].resp # o
    BY DEF StartShape, HasResponse, ResponseExclusive
  <2> QED BY <2>1, <2>2, <1>2, <1>5 DEF Response, HeapTypes, IsFunctionOn
<1> QED BY <1>4, <1>10, <1>11, <1>12, <1>13
\* A fresh identity is one of those it is chosen from.
LEMMA NewIsFresh ==
  ASSUME NEW S, NEW x \in New(S)
  PROVE  x \in S
BY DEF New

\* A request that ends leaves its shell to nobody or to the pool, and keeps at
\* most the response it is delivered with.
LEMMA EndKeeps ==
  ASSUME HeapInv, NEW r \in Requests, NEW pc, EndShape(r, pc)
  PROVE  HeapInv' /\ StaysFrozen
<1> DEFINE c == call[r].ctx
<1>1. InFlight(r) /\ HoldsOwn(r) /\ c \in Contexts /\ c \notin PooledContexts
  BY DEF EndShape, HeapInv, HoldsOwn, ContextExclusive
<1>2. \A q \in Requests \ {r} : call'[q] = call[q]
  BY DEF EndShape, OthersKeepCalls
<1>3. ~InFlight(r)' /\ (\A q \in Requests : InFlight(q)' => q # r /\ InFlight(q))
  BY <1>2 DEF EndShape, InFlight
<1>4. \A q \in Requests : HasResponse(q)' => HasResponse(q) /\ call'[q].resp = call[q].resp
  <2> SUFFICES ASSUME NEW q \in Requests, HasResponse(q)'
               PROVE  HasResponse(q) /\ call'[q].resp = call[q].resp
    OBVIOUS
  <2>1. CASE q = r
    BY <2>1, <1>1 DEF EndShape, HasResponse, Delivered, InFlight
  <2>2. CASE q # r
    BY <2>2, <1>2 DEF HasResponse, Delivered, InFlight
  <2> QED BY <2>1, <2>2
<1>5. \A q \in Requests : Delivered(q) => q # r /\ call[q].resp \in Responses
  BY <1>1 DEF HeapInv, ResponseExclusive, HasResponse, Delivered, InFlight
<1>6. errorsOf' = errorsOf /\ call' \in [Requests -> CallRecord]
  BY DEF EndShape
<1>7. CASE pool' = pool /\ ctx' = ctx /\ heap' = heap
  <2>1. PooledContexts' = PooledContexts
    BY <1>7 DEF PooledContexts
  <2>2. HeapTypes'
    BY <1>6, <1>7 DEF HeapInv, HeapTypes
  <2>3. ContextExclusive'
    BY <1>2, <1>3, <1>7, <2>1 DEF HeapInv, ContextExclusive
  <2>4. \A q \in Requests : InFlight(q)' => HoldsOwn(q)'
    BY <1>2, <1>3, <1>7 DEF HeapInv, HoldsOwn, Methods
  <2>5. ResponseExclusive'
    BY <1>4, <1>7, <2>1 DEF HeapInv, ResponseExclusive
  <2>6. StaysFrozen
    BY <1>2, <1>5, <1>6, <1>7 DEF StaysFrozen, Response
  <2> QED BY <2>2, <2>3, <2>4, <2>5, <2>6 DEF HeapInv
<1>8. ASSUME NEW o \in New(FreshResponses),
             pool' = Append(pool, c),
             ctx' = [ctx EXCEPT ![c] = [thrown |-> None, response |-> o]],
             heap' = [heap EXCEPT ![o] = Fresh(None, "json")]
      PROVE  HeapInv' /\ StaysFrozen
  <2>1. /\ o \in Responses
        /\ \A d \in PooledContexts : ctx[d].response # o
        /\ \A q \in Requests : call[q].resp # o
    BY <1>8, NewIsFresh DEF FreshResponses
  <2>2. pool \in Seq(Contexts) /\ ctx \in [Contexts -> Shell] /\ PooledContexts \subseteq Contexts
    BY DEF HeapInv, HeapTypes, PooledContexts
  <2>3. /\ pool' \in Seq(Contexts) /\ Len(pool') = Len(pool) + 1 /\ pool'[Len(pool) + 1] = c
        /\ \A i \in 1..Len(pool) : pool'[i] = pool[i]
    BY <1>1, <1>8, <2>2
  <2>4. PooledContexts' = PooledContexts \cup {c}
    BY <2>2, <2>3 DEF PooledContexts
  <2>5. /\ ctx'[c] = [thrown |-> None, response |-> o]
        /\ \A d \in Contexts \ {c} : ctx'[d] = ctx[d]
    BY <1>1, <1>8, <2>2
  <2>6. HeapTypes'
    <3>1. ctx' \in [Contexts -> Shell]
      BY <1>1, <1>8, <2>1, <2>2 DEF Shell
    <3>2. IsFunctionOn(heap', Responses) /\ IsFunctionOn(errorsOf', Requests)
      BY <1>6, <1>8 DEF HeapInv, HeapTypes, IsFunctionOn
    <3> QED BY <1>6, <2>3, <3>1, <3>2 DEF HeapTypes
  <2>7. ContextExclusive'
    <3>1. ASSUME NEW i \in DOMAIN pool', NEW j \in DOMAIN pool', pool'[i] = pool'[j] PROVE i = j
      <4>1. i \in 1..(Len(pool) + 1) /\ j \in 1..(Len(pool) + 1) /\ Len(pool) \in Nat
        BY <2>2, <2>3
      <4>2. \A k \in 1..Len(pool) : pool[k] # c
        BY <1>1, <2>2 DEF PooledContexts
      <4>3. \A k, l \in 1..Len(pool) : pool[k] = pool[l] => k = l
        BY <2>2 DEF HeapInv, ContextExclusive
      <4> QED BY <2>3, <3>1, <4>1, <4>2, <4>3
    <3>2. ASSUME NEW q \in Requests, InFlight(q)'
          PROVE  /\ call'[q].ctx \notin PooledContexts'
                 /\ \A p \in Requests \ {q} : InFlight(p)' => call'[p].ctx # call'[q].ctx
      BY <1>1, <1>2, <1>3, <2>4, <3>2 DEF HeapInv, ContextExclusive
    <3> QED BY <3>1, <3>2 DEF ContextExclusive
  <2>8. \A q \in Requests : InFlight(q)' => HoldsOwn(q)'
    <3> SUFFICES ASSUME NEW q \in Requests, InFlight(q)' PROVE HoldsOwn(q)'
      OBVIOUS
    <3>1. q # r /\ InFlight(q) /\ HoldsOwn(q) /\ call[q].ctx # c
      BY <1>1, <1>3 DEF HeapInv, ContextExclusive
    <3> QED BY <3>1, <1>2, <2>5 DEF HoldsOwn, Methods
  <2>9. ResponseExclusive'
    <3>1. \A d \in PooledContexts : d # c /\ d \in Contexts /\ ctx'[d] = ctx[d]
      BY <1>1, <2>2, <2>5
    <3> QED BY <1>4, <2>1, <2>4, <2>5, <3>1 DEF HeapInv, ResponseExclusive
  <2>10. StaysFrozen
    <3> SUFFICES ASSUME NEW q \in Requests, Delivered(q), Delivered(q)'
                 PROVE  Response(q)' = Response(q) /\ errorsOf'[q] = errorsOf[q]
      BY DEF StaysFrozen
    <3>1. q # r /\ call[q].resp \in Responses /\ call[q].resp # o
      BY <1>5, <2>1
    <3> QED BY <3>1, <1>2, <1>6, <1>8 DEF Response, HeapInv, HeapTypes, IsFunctionOn
  <2> QED BY <2>6, <2>7, <2>8, <2>9, <2>10 DEF HeapInv
<1> QED BY <1>7, <1>8 DEF EndShape, ReleaseContext

\* A step that leaves pool, shells, responses and errors alone, and takes away at
\* most what one request that is not in flight refers to.
LEMMA QuietKeeps ==
  ASSUME HeapInv, NEW r \in Requests, OthersKeepCalls(r),
         call'[r] = call[r] \/ ~HasResponse(r)', call' \in [Requests -> CallRecord],
         UNCHANGED <<ctx, heap, errorsOf>>,
         pool' \in Seq(Contexts),
         \A i \in DOMAIN pool' : i \in DOMAIN pool /\ pool'[i] = pool[i]
  PROVE  HeapInv' /\ StaysFrozen
<1>1. PooledContexts' \subseteq PooledContexts
  BY DEF PooledContexts
<1>2. \A q \in Requests : HasResponse(q)' => HasResponse(q) /\ call'[q] = call[q]
  BY DEF OthersKeepCalls, HasResponse, InFlight, Delivered
<1>3. \A q \in Requests : InFlight(q)' => InFlight(q) /\ call'[q] = call[q]
  BY <1>2 DEF HasResponse, InFlight, Delivered
<1>4. HeapTypes'
  BY DEF HeapInv, HeapTypes
<1>5. ContextExclusive'
  BY <1>1, <1>3 DEF HeapInv, ContextExclusive
<1>6. \A q \in Requests : InFlight(q)' => HoldsOwn(q)'
  BY <1>3 DEF HeapInv, HoldsOwn, Methods
<1>7. ResponseExclusive'
  BY <1>1, <1>2 DEF HeapInv, ResponseExclusive
<1>8. StaysFrozen
  BY <1>2 DEF StaysFrozen, HasResponse, Response
<1> QED BY <1>4, <1>5, <1>6, <1>7, <1>8 DEF HeapInv

-----------------------------------------------------------------------------
(* Each action has a shape. *)

\* The methods of a request in flight are a sequence of methods.
LEMMA MethodsTyped ==
  ASSUME NEW r \in Requests, call[r].chain \in Chains
  PROVE  Methods(r) \in Seq(Method)
BY ChainsAssumption DEF Methods, Chain

\* A step that only moves r's place in its chain: what Awaits and Continue do.
LEMMA CallMoves ==
  ASSUME HeapTypes, NEW r \in Requests, InFlight(r), HoldsOwn(r),
         (\E k \in DOMAIN Methods(r), threw \in BOOLEAN : Awaits(r, k, threw)) \/ Continue(r)
  PROVE  /\ call' \in [Requests -> CallRecord] /\ OthersKeepCalls(r)
         /\ call'[r].pc \in {"running", "awaiting"}
         /\ call'[r].ctx = call[r].ctx /\ call'[r].resp = call[r].resp /\ call'[r].chain = call[r].chain
         /\ call'[r].pc = "awaiting" => call'[r].i \in DOMAIN Methods(r)
<1>1. DOMAIN Methods(r) \subseteq Nat
  BY MethodsTyped DEF HoldsOwn
<1>2. call[r] \in CallRecord /\ call \in [Requests -> CallRecord]
  BY DEF HeapTypes
<1>3. ASSUME NEW k \in DOMAIN Methods(r), NEW threw \in BOOLEAN, Awaits(r, k, threw)
      PROVE  /\ call' \in [Requests -> CallRecord] /\ OthersKeepCalls(r)
             /\ call'[r].pc \in {"running", "awaiting"}
             /\ call'[r].ctx = call[r].ctx /\ call'[r].resp = call[r].resp
             /\ call'[r].chain = call[r].chain /\ call'[r].i \in DOMAIN Methods(r)
  BY <1>1, <1>2, <1>3 DEF Awaits, CallRecord, Phases, OthersKeepCalls
<1>4. ASSUME Continue(r)
      PROVE  /\ call' \in [Requests -> CallRecord] /\ OthersKeepCalls(r)
             /\ call'[r].pc = "running"
             /\ call'[r].ctx = call[r].ctx /\ call'[r].resp = call[r].resp
             /\ call'[r].chain = call[r].chain
  BY <1>2, <1>4 DEF Continue, CallRecord, Phases, OthersKeepCalls
<1> QED BY <1>3, <1>4

\* onExecutableError stores errors in the request's own object and changes its
\* own response.
LEMMA RecordKeepsOwn ==
  ASSUME HeapTypes, NEW r \in Requests, HoldsOwn(r), NEW resp, NEW errs, RecordErrors(r, resp, errs)
  PROVE  /\ ctx' \in [Contexts -> Shell]
         /\ \A c \in Contexts : ctx'[c].response = ctx[c].response
         /\ \A c \in Contexts \ {call[r].ctx} : ctx'[c] = ctx[c]
         /\ ctx'[call[r].ctx].thrown \in {r, None}
         /\ IsFunctionOn(heap', Responses)
         /\ \A o \in Responses \ {call[r].resp} : heap'[o] = heap[o]
         /\ IsFunctionOn(errorsOf', Requests)
         /\ \A q \in Requests \ {r} : errorsOf'[q] = errorsOf[q]
<1>1. ErrorStore(r) = r
  BY DEF ErrorStore, HoldsOwn
<1>2. ctx' = [ctx EXCEPT ![call[r].ctx].thrown = r]
  BY <1>1 DEF RecordErrors
<1>3. /\ ctx' \in [Contexts -> Shell]
      /\ \A c \in Contexts : ctx'[c].response = ctx[c].response
      /\ \A c \in Contexts \ {call[r].ctx} : ctx'[c] = ctx[c]
      /\ ctx'[call[r].ctx].thrown = r
  BY <1>2 DEF HeapTypes, HoldsOwn, Shell
<1>4. PICK new : heap' = [heap EXCEPT ![call[r].resp] = new]
  BY DEF RecordErrors
<1>5. PICK errors : errorsOf' = [errorsOf EXCEPT ![r] = errors]
  BY <1>1 DEF RecordErrors
<1> QED BY <1>3, <1>4, <1>5 DEF HeapTypes, IsFunctionOn

\* Calling a method: the serializer and the metadata middleFn change the
\* response of their own request and nothing else that is shared.
LEMMA CallProgresses ==
  ASSUME HeapInv, NEW r \in Requests, CallMethod(r)
  PROVE  ProgressShape(r)
<1>1. InFlight(r) /\ HoldsOwn(r) /\ HeapTypes
  BY DEF CallMethod, InFlight, HeapInv
<1>2. ctx \in [Contexts -> Shell] /\ IsFunctionOn(heap, Responses) /\ IsFunctionOn(errorsOf, Requests)
      /\ call[r].ctx \in Contexts /\ ctx[call[r].ctx].thrown \in {r, None}
  BY <1>1 DEF HeapTypes, HoldsOwn
<1>3. PICK k \in DOMAIN Methods(r) : CallHandler(r, k) \/ CallMetadata(r, k) \/ CallSerialize(r, k)
  BY DEF CallMethod
<1>4. CASE CallHandler(r, k)
  <2>1. Awaits(r, k, FALSE)
    BY <1>4 DEF CallHandler
  <2> QED BY <1>1, <1>2, <1>4, <2>1, CallMoves DEF CallHandler, ProgressShape
<1>5. CASE CallMetadata(r, k)
  <2>1. Awaits(r, k, FALSE)
    BY <1>5 DEF CallMetadata
  <2>2. heap' = heap \/ heap' = [heap EXCEPT ![call[r].resp].serializer = "stringifyJson"]
    BY <1>5 DEF CallMetadata
  <2>3. IsFunctionOn(heap', Responses) /\ \A o \in Responses \ {call[r].resp} : heap'[o] = heap[o]
    BY <1>2, <2>2 DEF IsFunctionOn
  <2> QED BY <1>1, <1>2, <1>5, <2>1, <2>3, CallMoves DEF CallMetadata, ProgressShape
<1>6. CASE CallSerialize(r, k)
  <2>1. pool' = pool
    BY <1>6 DEF CallSerialize
  <2>2. ASSUME NEW failed \in SUBSET ReturnedIndexes(r), NEW thrownFails \in BOOLEAN,
               SerializeJson(r, k, failed, thrownFails)
        PROVE  ProgressShape(r)
    <3>1. Awaits(r, k, FALSE)
      BY <2>2 DEF SerializeJson
    <3>2. CASE \E resp, errs : RecordErrors(r, resp, errs)
      BY <1>1, <2>1, <3>1, <3>2, CallMoves, RecordKeepsOwn DEF ProgressShape
    <3>3. CASE \E resp : heap' = [heap EXCEPT ![call[r].resp] = resp] /\ UNCHANGED <<ctx, errorsOf>>
      <4>1. IsFunctionOn(heap', Responses) /\ \A o \in Responses \ {call[r].resp} : heap'[o] = heap[o]
        BY <1>2, <3>3 DEF IsFunctionOn
      <4> QED BY <1>1, <1>2, <2>1, <3>1, <3>3, <4>1, CallMoves DEF ProgressShape
    <3> QED BY <2>2, <3>2, <3>3 DEF SerializeJson
  <2>3. ASSUME NEW fails \in BOOLEAN, SerializeBinary(r, k, fails)
        PROVE  ProgressShape(r)
    <3>1. Awaits(r, k, fails) /\ UNCHANGED <<ctx, errorsOf>>
      BY <2>3 DEF SerializeBinary
    <3>2. IsFunctionOn(heap', Responses) /\ \A o \in Responses \ {call[r].resp} : heap'[o] = heap[o]
      BY <1>2, <2>3 DEF SerializeBinary, IsFunctionOn
    <3> QED BY <1>1, <1>2, <2>1, <3>1, <3>2, CallMoves DEF ProgressShape
  <2>4. CASE SerializeRefused(r, k)
    <3>1. Awaits(r, k, TRUE) /\ UNCHANGED <<ctx, errorsOf>>
      BY <2>4 DEF SerializeRefused
    <3>2. IsFunctionOn(heap', Responses) /\ \A o \in Responses \ {call[r].resp} : heap'[o] = heap[o]
      BY <1>2, <2>4 DEF SerializeRefused, IsFunctionOn
    <3> QED BY <1>1, <1>2, <2>1, <3>1, <3>2, CallMoves DEF ProgressShape
  <2> QED BY <1>6, <2>2, <2>3, <2>4 DEF CallSerialize
<1> QED BY <1>3, <1>4, <1>5, <1>6

\* What runExecutionChain does with a result or an exception stays with its own
\* request, unless the error handling itself throws.
LEMMA SettleHasShape ==
  ASSUME HeapInv, NEW r \in Requests, Settle(r)
  PROVE  ProgressShape(r) \/ EndShape(r, "rejected")
<1>1. InFlight(r) /\ HoldsOwn(r) /\ HeapTypes
  BY DEF Settle, SettleWithoutValue, SettleWithValue, SettleWithError, Reject, InFlight, HeapInv
<1>2. ctx \in [Contexts -> Shell] /\ IsFunctionOn(heap, Responses) /\ IsFunctionOn(errorsOf, Requests)
      /\ call[r].ctx \in Contexts /\ ctx[call[r].ctx].thrown \in {r, None}
  BY <1>1 DEF HeapTypes, HoldsOwn
<1>3. CASE SettleWithoutValue(r)
  <2>1. Continue(r) /\ UNCHANGED <<pool, ctx, heap, errorsOf>>
    BY <1>3 DEF SettleWithoutValue
  <2> QED BY <1>1, <1>2, <2>1, CallMoves DEF ProgressShape
<1>4. CASE SettleWithValue(r)
  <2>1. Continue(r) /\ UNCHANGED <<pool, ctx, errorsOf>>
    BY <1>4 DEF SettleWithValue
  <2>2. IsFunctionOn(heap', Responses) /\ \A o \in Responses \ {call[r].resp} : heap'[o] = heap[o]
    BY <1>2, <1>4 DEF SettleWithValue, IsFunctionOn
  <2> QED BY <1>1, <1>2, <2>1, <2>2, CallMoves DEF ProgressShape
<1>5. CASE SettleWithError(r)
  <2>1. Continue(r) /\ pool' = pool
    BY <1>5 DEF SettleWithError
  <2>2. \E resp, errs : RecordErrors(r, resp, errs)
    BY <1>5 DEF SettleWithError
  <2> QED BY <1>1, <2>1, <2>2, CallMoves, RecordKeepsOwn DEF ProgressShape
<1>6. CASE Reject(r)
  <2>1. call' = [call EXCEPT ![r].pc = "rejected", ![r].ctx = None, ![r].resp = None]
    BY <1>6 DEF Reject
  <2>2. [call EXCEPT ![r].pc = "rejected", ![r].ctx = None] \in [Requests -> CallRecord]
    BY <1>1 DEF HeapTypes, CallRecord, Phases
  <2>3. call' \in [Requests -> CallRecord]
    <3>1. call' = [[call EXCEPT ![r].pc = "rejected", ![r].ctx = None] EXCEPT ![r].resp = None]
      BY <2>1
    <3>2. ASSUME NEW f \in [Requests -> CallRecord]
          PROVE  [f EXCEPT ![r].resp = None] \in [Requests -> CallRecord]
      BY DEF CallRecord
    <3> QED BY <2>2, <3>1, <3>2
  <2>4. OthersKeepCalls(r) /\ call'[r].pc = "rejected"
    BY <1>1, <2>1 DEF HeapTypes, CallRecord, OthersKeepCalls
  <2>5. ReleaseContext(call[r].ctx) /\ UNCHANGED errorsOf
    BY <1>6 DEF Reject
  <2>6. EndShape(r, "rejected")
    BY <1>1, <2>3, <2>4, <2>5 DEF EndShape
  <2> QED BY <2>6
<1> QED BY <1>3, <1>4, <1>5, <1>6 DEF Settle

\* A chain that is done ends its request, delivered.
LEMMA CompleteEnds ==
  ASSUME HeapInv, NEW r \in Requests, Complete(r)
  PROVE  EndShape(r, "delivered")
<1>1. InFlight(r) /\ HeapTypes
  BY DEF Complete, InFlight, HeapInv
<1>2. call' = [call EXCEPT ![r].pc = "delivered", ![r].ctx = None]
  BY DEF Complete
<1>3. /\ call' \in [Requests -> CallRecord] /\ OthersKeepCalls(r)
      /\ call'[r].pc = "delivered" /\ call'[r].resp = call[r].resp
  BY <1>1, <1>2 DEF HeapTypes, CallRecord, Phases, OthersKeepCalls
<1> QED BY <1>1, <1>3 DEF Complete, EndShape

\* What is left of the stack once its top is popped: the same shells in the same
\* places, and not the top.
LEMMA RestOfPool ==
  ASSUME pool \in Seq(Contexts), pool # << >>,
         \A i, j \in DOMAIN pool : pool[i] = pool[j] => i = j
  PROVE  /\ Rest(pool) \in Seq(Contexts)
         /\ \A i \in DOMAIN Rest(pool) : i \in DOMAIN pool /\ Rest(pool)[i] = pool[i]
         /\ \A i \in DOMAIN Rest(pool) : Rest(pool)[i] # pool[Len(pool)]
<1>1. Len(pool) \in Nat \ {0} /\ DOMAIN pool = 1..Len(pool)
  OBVIOUS
<1>2. /\ Rest(pool) \in Seq(Contexts) /\ DOMAIN Rest(pool) = 1..(Len(pool) - 1)
      /\ \A i \in 1..(Len(pool) - 1) : Rest(pool)[i] = pool[i]
  BY <1>1 DEF Rest
<1> QED BY <1>1, <1>2

\* acquireCallContext takes a shell from the pool, or makes one.
LEMMA AcquireStarts ==
  ASSUME HeapInv, NEW r \in Requests, NEW chain \in Chains,
         AcquirePooled(r, chain) \/ AcquireNew(r, chain)
  PROVE  \E c, o : StartShape(r, c, o)
<1>1. /\ pool \in Seq(Contexts) /\ (\A i, j \in DOMAIN pool : pool[i] = pool[j] => i = j)
      /\ PooledContexts \subseteq Contexts
  BY DEF HeapInv, HeapTypes, ContextExclusive, PooledContexts
<1>2. CASE AcquirePooled(r, chain)
  <2> DEFINE c == pool[Len(pool)]
             o == ctx[c].response
  <2>1. pool # << >> /\ pool' = Rest(pool) /\ call[r].pc = "new" /\ Start(r, c, o, chain)
    BY <1>2 DEF AcquirePooled
  <2>2. c \in PooledContexts /\ c \in Contexts
    BY <1>1, <2>1 DEF PooledContexts
  <2>3. /\ pool' \in Seq(Contexts)
        /\ \A i \in DOMAIN pool' : i \in DOMAIN pool /\ pool'[i] = pool[i] /\ pool'[i] # c
    BY <1>1, <2>1, RestOfPool
  <2>4. /\ \A i, j \in DOMAIN pool' : pool'[i] = pool'[j] => i = j
        /\ \A i \in DOMAIN pool' : pool'[i] \in PooledContexts
    BY <1>1, <2>3 DEF PooledContexts
  <2>5. \A i \in DOMAIN pool' : ctx[pool'[i]].response # o
    BY <2>2, <2>3, <2>4 DEF HeapInv, ResponseExclusive
  <2>6. c \notin UsedContexts
    BY <2>2 DEF UsedContexts, HeapInv, ContextExclusive
  <2>7. o \in Responses /\ \A q \in Requests : HasResponse(q) => call[q].resp # o
    BY <2>2 DEF HeapInv, ResponseExclusive
  <2>8. StartShape(r, c, o)
    BY <2>1, <2>2, <2>3, <2>4, <2>5, <2>6, <2>7 DEF StartShape
  <2> QED BY <2>8
<1>3. CASE AcquireNew(r, chain)
  <2>1. PICK c \in New(FreshContexts), o \in New(FreshResponses) : Start(r, c, o, chain)
    BY <1>3 DEF AcquireNew
  <2>2. pool = << >> /\ pool' = pool /\ call[r].pc = "new"
    BY <1>3 DEF AcquireNew
  <2>3. c \in Contexts /\ c \notin UsedContexts
    BY <2>1, NewIsFresh DEF FreshContexts
  <2>4. o \in Responses /\ \A q \in Requests : call[q].resp # o
    BY <2>1, NewIsFresh DEF FreshResponses
  <2>5. DOMAIN pool' = {}
    BY <2>2
  <2>6. StartShape(r, c, o)
    BY <1>1, <2>1, <2>2, <2>3, <2>4, <2>5 DEF StartShape
  <2> QED BY <2>6
<1> QED BY <1>2, <1>3
-----------------------------------------------------------------------------
(* The invariant, and what follows from it. *)

\* Nothing is pooled and nobody is in flight at first.
LEMMA HeapInit == Init => HeapInv
<1> SUFFICES ASSUME Init PROVE HeapInv
  OBVIOUS
<1>1. HeapTypes
  BY DEF Init, HeapTypes, IsFunctionOn, Shell, CallRecord, Phases, NoCall
<1>2. PooledContexts = {}
  BY DEF Init, PooledContexts
<1>3. \A r \in Requests : call[r].pc = "new"
  BY DEF Init, NoCall
<1>4. \A r \in Requests : ~InFlight(r) /\ ~HasResponse(r)
  BY <1>3 DEF InFlight, HasResponse, Delivered
<1>5. ContextExclusive
  BY <1>2, <1>4 DEF ContextExclusive, Init
<1> QED BY <1>1, <1>2, <1>4, <1>5 DEF HeapInv, ResponseExclusive

\* The three actions that neither start, go on nor end.
LEMMA QuietActions ==
  ASSUME HeapInv, NEW r \in Requests, AcquireFails(r) \/ Reply(r) \/ AnswerEarly(r)
  PROVE  HeapInv' /\ StaysFrozen
<1>1. pool \in Seq(Contexts) /\ call \in [Requests -> CallRecord] /\ call[r] \in CallRecord
  BY DEF HeapInv, HeapTypes
<1>2. CASE AcquireFails(r)
  <2>1. call' = [call EXCEPT ![r].pc = "rejected"]
    BY <1>2 DEF AcquireFails
  <2>2. call' \in [Requests -> CallRecord] /\ OthersKeepCalls(r) /\ ~HasResponse(r)'
    BY <1>1, <2>1 DEF CallRecord, Phases, OthersKeepCalls, HasResponse, InFlight, Delivered
  <2>3. /\ pool' \in Seq(Contexts)
        /\ \A i \in DOMAIN pool' : i \in DOMAIN pool /\ pool'[i] = pool[i]
    BY <1>1, <1>2, RestOfPool DEF AcquireFails, HeapInv, ContextExclusive
  <2> QED BY <1>2, <2>2, <2>3, QuietKeeps DEF AcquireFails
<1>3. CASE Reply(r)
  <2>1. call' = [call EXCEPT ![r].pc = "replied", ![r].resp = None]
    BY <1>3 DEF Reply
  <2>2. call' \in [Requests -> CallRecord] /\ OthersKeepCalls(r) /\ ~HasResponse(r)'
    BY <1>1, <2>1 DEF CallRecord, Phases, OthersKeepCalls, HasResponse, InFlight, Delivered
  <2> QED BY <1>1, <1>3, <2>2, QuietKeeps DEF Reply
<1>4. CASE AnswerEarly(r)
  BY <1>1, <1>4, QuietKeeps DEF AnswerEarly, OthersKeepCalls
<1> QED BY <1>2, <1>3, <1>4

\* Every step keeps the invariant and every response the platform reads.
LEMMA HeapStep ==
  ASSUME HeapInv, [Next]_vars
  PROVE  HeapInv' /\ StaysFrozen
<1>1. CASE UNCHANGED vars
  BY <1>1 DEF vars, HeapInv, HeapTypes, ContextExclusive, HoldsOwn, Methods, ResponseExclusive, StaysFrozen,
              InFlight, HasResponse, Delivered, PooledContexts, IsFunctionOn, Response
<1>2. ASSUME NEW r \in Requests, Acquire(r) PROVE HeapInv' /\ StaysFrozen
  BY <1>2, AcquireStarts, StartKeeps, QuietActions DEF Acquire
<1>3. ASSUME NEW r \in Requests, CallMethod(r) PROVE HeapInv' /\ StaysFrozen
  BY <1>3, CallProgresses, ProgressKeeps
<1>4. ASSUME NEW r \in Requests, Settle(r) PROVE HeapInv' /\ StaysFrozen
  BY <1>4, SettleHasShape, ProgressKeeps, EndKeeps
<1>5. ASSUME NEW r \in Requests, Complete(r) PROVE HeapInv' /\ StaysFrozen
  BY <1>5, CompleteEnds, EndKeeps
<1>6. ASSUME NEW r \in Requests, Reply(r) \/ AnswerEarly(r) PROVE HeapInv' /\ StaysFrozen
  BY <1>6, QuietActions
<1> QED BY <1>1, <1>2, <1>3, <1>4, <1>5, <1>6 DEF Next

\* The invariant holds in every state.
LEMMA HeapInductive == Spec => []HeapInv
<1>1. HeapInv /\ [Next]_vars => HeapInv'
  BY HeapStep
<1> QED BY HeapInit, <1>1, PTL DEF Spec

\* A context shell serves one request at a time (callContext.ts), for any number
\* of requests, any chains and any pool size.
THEOREM ContextsExclusive == Spec => []ContextExclusive
<1>1. HeapInv => ContextExclusive
  BY DEF HeapInv
<1> QED BY <1>1, HeapInductive, PTL

\* The response the platform was given does not change while it reads it
\* (releaseCallContext gives the pooled shell a response of its own).
THEOREM ResponsesFrozen == Spec => DeliveredFrozen
<1>1. HeapInv /\ [Next]_vars => [StaysFrozen]_vars
  BY HeapStep
<1>2. Spec => [][StaysFrozen]_vars
  BY <1>1, HeapInductive, PTL DEF Spec
<1> QED BY <1>2 DEF StaysFrozen, DeliveredFrozen
-----------------------------------------------------------------------------
(* The errors of one serialization, in chain order. *)

\* A member of a finite set of numbers has fewer smaller ones than there are members.
LEMMA RankBelow ==
  ASSUME NEW S \in SUBSET Nat, IsFiniteSet(S), NEW m \in S
  PROVE  /\ IsFiniteSet({j \in S : j < m})
         /\ Cardinality({j \in S : j < m}) \in 0..(Cardinality(S) - 1)
<1> DEFINE below == {j \in S : j < m}
<1>1. IsFiniteSet(S \ {m}) /\ Cardinality(S \ {m}) = Cardinality(S) - 1
  BY FS_RemoveElement, SMT
<1>2. below \in SUBSET (S \ {m})
  OBVIOUS
<1>3. IsFiniteSet(below) /\ Cardinality(below) <= Cardinality(S) - 1
  BY <1>1, <1>2, FS_Subset
<1>4. Cardinality(below) \in Nat /\ Cardinality(S) \in Nat
  BY <1>3, FS_CardinalityType
<1> QED BY <1>3, <1>4

\* Two members do not have the same number of smaller ones.
LEMMA RankDistinct ==
  ASSUME NEW S \in SUBSET Nat, IsFiniteSet(S), NEW m \in S, NEW k \in S,
         Cardinality({j \in S : j < m}) = Cardinality({j \in S : j < k})
  PROVE  m = k
<1> DEFINE Below(x) == {j \in S : j < x}
<1>1. ASSUME NEW x \in S, NEW y \in S, x < y
      PROVE  Cardinality(Below(x)) # Cardinality(Below(y))
  <2>1. \A j \in S : j < x => j < y
    BY <1>1
  <2>2. Below(x) \in SUBSET Below(y)
    BY <2>1
  <2>3. x \in Below(y) /\ x \notin Below(x)
    BY <1>1
  <2>4. IsFiniteSet(Below(y)) /\ Below(x) # Below(y)
    BY <2>3, RankBelow
  <2> HIDE DEF Below
  <2> QED BY <2>2, <2>4, FS_Subset
<1>2. m < k \/ k < m \/ m = k
  OBVIOUS
<1> QED BY <1>1, <1>2

\* In a finite set of numbers there is one with n - 1 smaller ones, for each n.
LEMMA RankExists ==
  ASSUME NEW S \in SUBSET Nat, IsFiniteSet(S), NEW n \in 1..Cardinality(S)
  PROVE  \E m \in S : Cardinality({j \in S : j < m}) = n - 1
<1> DEFINE c == Cardinality(S)
           Below(m) == {j \in S : j < m}
           rank == [m \in S |-> Cardinality(Below(m))]
           T == (0..(c - 1)) \ {n - 1}
<1>1. c \in Nat
  BY FS_CardinalityType
<1> SUFFICES ASSUME \A m \in S : Cardinality(Below(m)) # n - 1
             PROVE  FALSE
  OBVIOUS
<1>4. rank \in [S -> T]
  <2>1. \A m \in S : Cardinality(Below(m)) \in T
    BY RankBelow
  <2> HIDE DEF T, Below
  <2> QED BY <2>1
<1>5. IsFiniteSet(T) /\ Cardinality(T) < c
  <2>1. n \in 1..c
    OBVIOUS
  <2> HIDE DEF c
  <2> DEFINE d == c - 1
             I == 0..d
  <2>2. c \in Nat /\ c >= 1 /\ d \in Int /\ ~(0 > d)
    BY <1>1, <2>1
  <2>3. IsFiniteSet(I) /\ Cardinality(I) = d - 0 + 1
    <3> HIDE DEF d
    <3> QED BY <2>2, FS_Interval
  <2>4. n - 1 \in I
    BY <2>1, <2>2
  <2>5. IsFiniteSet(I \ {n - 1}) /\ Cardinality(I \ {n - 1}) = Cardinality(I) - 1
    <3> HIDE DEF I
    <3> QED BY <2>3, <2>4, FS_RemoveElement
  <2> QED BY <2>2, <2>3, <2>5
<1>6. \E x, y \in S : x # y /\ rank[x] = rank[y]
  <2> HIDE DEF rank, T, c
  <2> QED BY <1>4, <1>5, FS_PigeonHole DEF c
<1>7. PICK x \in S, y \in S : x # y /\ Cardinality(Below(x)) = Cardinality(Below(y))
  BY <1>6
<1> QED BY <1>7, RankDistinct
-----------------------------------------------------------------------------
(* What a request has of its own: values, errors, response, header.        *)

ErrorsBy(r) == [id : STRING \cup {ThrownErrorsId}, req : {r}, during : {"run", "serialize"}]
ValuesBy(r) == [id : STRING, req : {r}]

\* A response as a whole, and one in which nothing is of another request.
ResponseOf(owners, values, errors) ==
  [status : errors \cup {None}, hasErrors : BOOLEAN, headersOf : owners,
   body : SUBSET values, attached : owners \cup {None}, raw : SUBSET (values \cup errors),
   bin : {None} \cup SUBSET values, serializer : Modes]

AnyResponse == ResponseOf(Requests \cup {None}, Value, Error)
OwnResponse(r) == ResponseOf({r}, ValuesBy(r), ErrorsBy(r))

\* ErrorsAgree, from the moment the context is acquired.
Agrees(r) ==
  /\ Response(r).hasErrors <=> errorsOf[r] # {}
  /\ Response(r).hasErrors <=> Response(r).status # None
  /\ header[r] # None => Response(r).hasErrors
  /\ Response(r).hasErrors /\ r \notin sealed => header[r] # None

\* why a request that has its chain may be rejected: the error of its method is the
\* first, and its headers were sent or are not able to carry the error's type
HasCause(r) ==
  errorsOf[r] = {} /\ (r \in sealed \/ call[r].chain.methods[call[r].i].id \in OddlyTyped)

OwnCall(r) ==
  /\ errorsOf[r] \subseteq ErrorsBy(r) /\ header[r] \in ErrorsBy(r) \cup {None}
  /\ HasResponse(r) => Response(r) \in OwnResponse(r) /\ Agrees(r)
  /\ call[r].pc = "new" => call[r].chain = None /\ errorsOf[r] = {} /\ header[r] = None
  /\ call[r].pc = "rejected" => call[r].chain = None \/ HasCause(r)

OwnInv ==
  /\ HeapInv
  /\ heap \in [Responses -> AnyResponse]
  /\ header \in [Requests -> Error \cup {None}]
  /\ sealed \subseteq Requests
  /\ \A r \in Requests : OwnCall(r)

\* The error header of a request is never replaced.
HeaderKept == \A r \in Requests : header[r] # None => header[r]' = header[r]

\* What a request has of its own is part of what any request may have.
LEMMA OwnIsSome ==
  ASSUME NEW r \in Requests
  PROVE  /\ ErrorsBy(r) \subseteq Error /\ ValuesBy(r) \subseteq Value
         /\ OwnResponse(r) \subseteq AnyResponse
         /\ None \notin ErrorsBy(r)
<1>1. ErrorsBy(r) \subseteq Error /\ ValuesBy(r) \subseteq Value
  BY DEF ErrorsBy, ValuesBy, Error, Value
<1>2. OwnResponse(r) \subseteq AnyResponse
  <2> SUFFICES ASSUME NEW o \in OwnResponse(r) PROVE o \in AnyResponse
    OBVIOUS
  <2> QED BY <1>1 DEF OwnResponse, AnyResponse, ResponseOf
<1> QED BY <1>1, <1>2, NoneAssumption

\* The errors of a serialization are of the request whose response it is.
LEMMA FailureSequenceOwn ==
  ASSUME NEW r \in Requests, call[r].chain \in Chains,
         NEW failed \in SUBSET ReturnedIndexes(r), NEW thrownToo \in BOOLEAN
  PROVE  FailureSequence(r, failed, thrownToo) \in Seq(ErrorsBy(r))
<1>1. Methods(r) \in Seq(Method)
  BY MethodsTyped
<1>2. DOMAIN Methods(r) = 1..Len(Methods(r)) /\ Len(Methods(r)) \in Nat
  BY <1>1
<1>3. failed \in SUBSET (1..Len(Methods(r))) /\ failed \in SUBSET Nat
  BY <1>2 DEF ReturnedIndexes
<1>4. IsFiniteSet(failed)
  <2>1. IsFiniteSet(1..Len(Methods(r)))
    BY <1>2, FS_Interval
  <2> QED BY <1>3, <2>1, FS_Subset
<1> DEFINE c == Cardinality(failed)
           order == [n \in 1..c |-> CHOOSE m \in failed : Cardinality({j \in failed : j < m}) = n - 1]
           errs == [n \in DOMAIN order |-> SerializeError(r, Methods(r)[order[n]].id)]
<1>5. \A n \in 1..c : order[n] \in failed
  <2> SUFFICES ASSUME NEW n \in 1..c
               PROVE  (CHOOSE m \in failed : Cardinality({j \in failed : j < m}) = n - 1) \in failed
    OBVIOUS
  <2> QED BY <1>3, <1>4, RankExists
<1>6. \A n \in 1..c : SerializeError(r, Methods(r)[order[n]].id) \in ErrorsBy(r)
  <2> SUFFICES ASSUME NEW n \in 1..c
               PROVE  SerializeError(r, Methods(r)[order[n]].id) \in ErrorsBy(r)
    OBVIOUS
  <2>1. order[n] \in failed
    BY <1>5
  <2> HIDE DEF order
  <2>2. order[n] \in 1..Len(Methods(r))
    BY <1>3, <2>1
  <2>3. Methods(r)[order[n]] \in Method
    BY <1>1, <2>2
  <2> QED BY <2>3 DEF SerializeError, ErrorsBy, Method
<1>7. DOMAIN order = 1..c /\ c \in Nat
  BY <1>4, FS_CardinalityType
<1>8. errs \in Seq(ErrorsBy(r))
  <2> HIDE DEF order, c
  <2>1. errs = [n \in 1..c |-> SerializeError(r, Methods(r)[order[n]].id)]
    BY <1>7
  <2>2. errs \in [1..c -> ErrorsBy(r)]
    BY <1>6, <2>1
  <2> HIDE DEF errs
  <2> QED BY <1>7, <2>2, SeqDef
<1>9. SerializeError(r, ThrownErrorsId) \in ErrorsBy(r)
  BY DEF SerializeError, ErrorsBy
<1>10. FailureSequence(r, failed, thrownToo)
         = IF thrownToo THEN Append(errs, SerializeError(r, ThrownErrorsId)) ELSE errs
  BY DEF FailureSequence
<1> HIDE DEF errs
<1> QED BY <1>8, <1>9, <1>10

\* They are one for each index that failed, and one for thrownErrors if those did.
LEMMA FailureSequenceCovers ==
  ASSUME NEW r \in Requests, call[r].chain \in Chains,
         NEW failed \in SUBSET ReturnedIndexes(r), NEW thrownToo \in BOOLEAN
  PROVE  LET errs == FailureSequence(r, failed, thrownToo)
         IN /\ \A m \in failed : \E k \in DOMAIN errs : errs[k].id = Methods(r)[m].id
            /\ thrownToo => \E k \in DOMAIN errs : errs[k].id = ThrownErrorsId
            /\ \A k \in DOMAIN errs : errs[k].during = "serialize"
<1>1. failed \in SUBSET Nat /\ IsFiniteSet(failed)
  <2>1. Methods(r) \in Seq(Method)
    BY MethodsTyped
  <2>2. DOMAIN Methods(r) = 1..Len(Methods(r)) /\ Len(Methods(r)) \in Nat
    BY <2>1
  <2>3. IsFiniteSet(1..Len(Methods(r)))
    BY <2>2, FS_Interval
  <2>4. failed \in SUBSET (1..Len(Methods(r)))
    BY <2>2 DEF ReturnedIndexes
  <2>5. IsFiniteSet(failed)
    BY <2>3, <2>4, FS_Subset
  <2> QED BY <2>2, <2>4, <2>5
<1> DEFINE c == Cardinality(failed)
           Rank(m) == Cardinality({j \in failed : j < m})
           order == [n \in 1..c |-> CHOOSE m \in failed : Rank(m) = n - 1]
           errs == [n \in DOMAIN order |-> SerializeError(r, Methods(r)[order[n]].id)]
           last == SerializeError(r, ThrownErrorsId)
<1>2. c \in Nat
  BY <1>1, FS_CardinalityType
<1>3. ASSUME NEW m \in failed PROVE \E n \in 1..c : order[n] = m
  <2> DEFINE n == Rank(m) + 1
  <2>1. Rank(m) \in 0..(c - 1)
    BY <1>1, RankBelow
  <2>2. n \in 1..c /\ Rank(m) = n - 1
    <3> HIDE DEF Rank, c
    <3> QED BY <1>2, <2>1
  <2> HIDE DEF n
  <2>3. order[n] \in failed /\ Rank(order[n]) = n - 1
    <3>1. order[n] = CHOOSE x \in failed : Rank(x) = n - 1
      BY <2>2
    <3> HIDE DEF Rank, order
    <3> QED BY <2>2, <3>1
  <2>4. order[n] = m
    <3> DEFINE x == order[n]
    <3>1. Rank(x) = Rank(m) /\ x \in failed
      <4> HIDE DEF Rank, order
      <4> QED BY <2>2, <2>3
    <3> HIDE DEF x
    <3>2. x = m
      BY <1>1, <3>1, RankDistinct
    <3> QED BY <3>2 DEF x
  <2> QED BY <2>2, <2>4
<1>4. /\ DOMAIN errs = 1..c
      /\ \A n \in 1..c : errs[n] = SerializeError(r, Methods(r)[order[n]].id)
  OBVIOUS
<1>5. FailureSequence(r, failed, thrownToo) = IF thrownToo THEN Append(errs, last) ELSE errs
  BY DEF FailureSequence
<1> HIDE DEF errs, order, last
<1>6. ASSUME thrownToo
      PROVE  LET all == Append(errs, last)
             IN /\ DOMAIN all = 1..(c + 1) /\ all[c + 1] = last
                /\ \A n \in 1..c : all[n] = errs[n]
  <2>1. errs \in Seq({errs[n] : n \in 1..c})
    <3> DEFINE R == {errs[n] : n \in 1..c}
    <3>1. errs \in [1..c -> R]
      BY <1>4 DEF errs
    <3> HIDE DEF R, c
    <3> QED BY <1>2, <3>1, SeqDef
  <2>2. Len(errs) = c
    BY <1>2, <1>4, <2>1
  <2> QED BY <2>1, <2>2
<1>7. last.id = ThrownErrorsId /\ last.during = "serialize"
  BY DEF last, SerializeError
<1>8. ASSUME NEW m \in failed PROVE \E n \in 1..c : errs[n].id = Methods(r)[m].id
  BY <1>3, <1>4 DEF SerializeError
<1>9. \A n \in 1..c : errs[n].during = "serialize"
  BY <1>4 DEF SerializeError
<1>10. CASE thrownToo
  BY <1>2, <1>5, <1>6, <1>7, <1>8, <1>9, <1>10
<1>11. CASE ~thrownToo
  BY <1>4, <1>5, <1>8, <1>9, <1>11
<1> QED BY <1>10, <1>11
-----------------------------------------------------------------------------
(* A step of one request leaves what is the others' alone. *)

\* The part of the invariant about a request depends on its own variables only.
LEMMA OtherCallKept ==
  ASSUME NEW q \in Requests, OwnCall(q), call'[q] = call[q], errorsOf'[q] = errorsOf[q],
         header'[q] = header[q], sealed \subseteq sealed',
         HasResponse(q) => heap'[call[q].resp] = heap[call[q].resp]
  PROVE  OwnCall(q)'
<1>1. HasResponse(q)' <=> HasResponse(q)
  BY DEF HasResponse, InFlight, Delivered
<1>2. HasResponse(q) => Response(q)' = Response(q)
  BY DEF Response
<1>3. HasResponse(q) => Response(q)' \in OwnResponse(q) /\ Agrees(q)'
  <2> SUFFICES ASSUME HasResponse(q) PROVE Response(q)' \in OwnResponse(q) /\ Agrees(q)'
    OBVIOUS
  <2> QED BY <1>2 DEF OwnCall, Agrees
<1>4. HasCause(q)' <=> HasCause(q) \/ (errorsOf[q] = {} /\ q \in sealed')
  BY DEF HasCause
<1> QED BY <1>1, <1>3, <1>4 DEF OwnCall, HasCause

\* A request that goes on with what is its own keeps the invariant if what it
\* makes of its response, its errors and its header is its own and agrees.
LEMMA OwnProgress ==
  ASSUME OwnInv, NEW r \in Requests, ProgressShape(r), UNCHANGED sealed,
         Response(r)' \in OwnResponse(r), Agrees(r)', errorsOf'[r] \subseteq ErrorsBy(r),
         header' = [header EXCEPT ![r] = header'[r]],
         header'[r] \in ErrorsBy(r) \cup {None}, header[r] # None => header'[r] = header[r]
  PROVE  OwnInv' /\ HeaderKept
<1>1. HeapInv' /\ InFlight(r) /\ call'[r].resp = call[r].resp /\ call[r].resp \in Responses
  BY ProgressKeeps DEF OwnInv, HeapInv, ResponseExclusive, HasResponse, ProgressShape
<1>2. \A q \in Requests \ {r} : header'[q] = header[q]
  BY DEF OwnInv
<1>3. ASSUME NEW q \in Requests \ {r} PROVE OwnCall(q)'
  <2>1. HasResponse(q) => call[q].resp \in Responses \ {call[r].resp}
    BY <1>1 DEF OwnInv, HeapInv, ResponseExclusive, HasResponse
  <2> QED BY <1>2, <2>1, OtherCallKept DEF OwnInv, ProgressShape, OthersKeepCalls
<1>4. OwnCall(r)'
  BY DEF OwnCall, ProgressShape
<1>5. heap' \in [Responses -> AnyResponse]
  <2>1. heap'[call[r].resp] \in AnyResponse
    BY <1>1, OwnIsSome DEF Response
  <2>2. \A o \in Responses \ {call[r].resp} : heap'[o] \in AnyResponse
    BY DEF OwnInv, ProgressShape
  <2> QED BY <2>1, <2>2 DEF ProgressShape, IsFunctionOn
<1>6. header' \in [Requests -> Error \cup {None}]
  BY OwnIsSome DEF OwnInv
<1> QED BY <1>1, <1>2, <1>3, <1>4, <1>5, <1>6 DEF OwnInv, HeaderKept

\* onExecutableError, for the errors of one request and its own response.
LEMMA RecordOwn ==
  ASSUME OwnInv, NEW r \in Requests, InFlight(r),
         NEW resp \in OwnResponse(r), resp.hasErrors = Response(r).hasErrors,
         NEW errs \in Seq(ErrorsBy(r)), errs # << >>, RecordErrors(r, resp, errs),
         call'[r].resp = call[r].resp, UNCHANGED sealed
  PROVE  /\ Response(r)' \in OwnResponse(r) /\ Agrees(r)'
         /\ errorsOf'[r] \subseteq ErrorsBy(r)
         /\ header' = [header EXCEPT ![r] = header'[r]]
         /\ header'[r] \in ErrorsBy(r) \cup {None}
         /\ header[r] # None => header'[r] = header[r]
<1>1. HoldsOwn(r) /\ call[r].resp \in Responses /\ OwnCall(r) /\ HasResponse(r)
  BY DEF OwnInv, HeapInv, ResponseExclusive, HasResponse
<1>2. Agrees(r) /\ Response(r) \in OwnResponse(r)
  BY <1>1 DEF OwnCall
<1>3. ErrorStore(r) = r
  BY <1>1 DEF ErrorStore, HoldsOwn
<1>4. /\ Len(errs) \in Nat \ {0} /\ errs[1] \in ErrorsBy(r) /\ errs[Len(errs)] \in ErrorsBy(r)
      /\ \A k \in DOMAIN errs : errs[k] \in ErrorsBy(r)
      /\ {errs[k] : k \in DOMAIN errs} # {}
  <2>1. Len(errs) \in Nat \ {0} /\ DOMAIN errs = 1..Len(errs)
    OBVIOUS
  <2>2. 1 \in DOMAIN errs /\ Len(errs) \in DOMAIN errs
    BY <2>1
  <2> QED BY <2>1, <2>2
<1>5. resp.headersOf = r /\ resp.hasErrors \in BOOLEAN
  BY DEF OwnResponse, ResponseOf
<1>6. heap'[call[r].resp] = [resp EXCEPT !.hasErrors = TRUE, !.status = errs[Len(errs)]]
  BY <1>1 DEF RecordErrors, OwnInv
<1>7. /\ Response(r)' \in OwnResponse(r) /\ Response(r)'.hasErrors
      /\ Response(r)'.status = errs[Len(errs)]
  BY <1>4, <1>6 DEF Response, OwnResponse, ResponseOf
<1>8. errorsOf'[r] \subseteq ErrorsBy(r) /\ errorsOf'[r] # {}
  <2>1. PICK old \in SUBSET errorsOf[r] : errorsOf'[r] = old \cup {errs[k] : k \in DOMAIN errs}
    <3>1. errorsOf' = [errorsOf EXCEPT ![r] =
                         {x \in @ : x.id \notin {errs[k].id : k \in DOMAIN errs}}
                           \cup {errs[k] : k \in DOMAIN errs}]
      BY <1>3 DEF RecordErrors
    <3> DEFINE kept == {x \in errorsOf[r] : x.id \notin {errs[k].id : k \in DOMAIN errs}}
    <3>2. errorsOf'[r] = kept \cup {errs[k] : k \in DOMAIN errs}
      BY <3>1 DEF OwnInv, HeapInv, HeapTypes, IsFunctionOn
    <3> QED BY <3>2
  <2> QED BY <1>1, <1>4, <2>1 DEF OwnCall
<1>9. header' = IF resp.hasErrors THEN header ELSE [header EXCEPT ![r] = errs[1]]
  BY <1>5 DEF RecordErrors, HeaderAfter
<1>10. CASE resp.hasErrors
  <2>1. header' = header
    BY <1>9, <1>10
  <2>2. header' = [header EXCEPT ![r] = header'[r]] /\ header'[r] = header[r]
    BY <2>1 DEF OwnInv
  <2>3. Agrees(r)'
    BY <1>2, <1>4, <1>7, <1>8, <1>10, <2>1, OwnIsSome DEF Agrees
  <2> QED BY <1>1, <1>7, <1>8, <2>1, <2>2, <2>3 DEF OwnCall
<1>11. CASE ~resp.hasErrors
  <2>1. header' = [header EXCEPT ![r] = errs[1]] /\ header'[r] = errs[1]
    BY <1>9, <1>11 DEF OwnInv
  <2>2. header[r] = None
    BY <1>2, <1>11 DEF Agrees
  <2>3. Agrees(r)'
    BY <1>4, <1>7, <1>8, <2>1, OwnIsSome DEF Agrees
  <2> QED BY <1>4, <1>7, <1>8, <2>1, <2>2, <2>3
<1> QED BY <1>10, <1>11
-----------------------------------------------------------------------------
(* Each action keeps what a request has its own. *)

\* What is known of a request in flight.
LEMMA OwnInFlight ==
  ASSUME OwnInv, NEW r \in Requests, InFlight(r)
  PROVE  /\ HeapInv /\ HoldsOwn(r) /\ call[r].resp \in Responses /\ call[r].chain \in Chains
         /\ HasResponse(r) /\ Response(r) \in OwnResponse(r) /\ Agrees(r)
         /\ errorsOf[r] \subseteq ErrorsBy(r) /\ header[r] \in ErrorsBy(r) \cup {None}
         /\ heap \in [Responses -> AnyResponse] /\ header \in [Requests -> Error \cup {None}]
<1>1. HeapInv /\ HasResponse(r) /\ OwnCall(r)
  BY DEF OwnInv, HasResponse
<1>2. HoldsOwn(r) /\ call[r].resp \in Responses
  BY <1>1 DEF HeapInv, ResponseExclusive
<1> QED BY <1>1, <1>2 DEF OwnInv, OwnCall, HoldsOwn

\* A step that changes the response of its request, and neither its errors nor
\* what the response says of them.
LEMMA OwnInPlace ==
  ASSUME OwnInv, NEW r \in Requests, ProgressShape(r),
         NEW resp \in OwnResponse(r),
         resp.hasErrors = Response(r).hasErrors, resp.status = Response(r).status,
         heap' = [heap EXCEPT ![call[r].resp] = resp], UNCHANGED <<errorsOf, header, sealed>>
  PROVE  OwnInv' /\ HeaderKept
<1>1. InFlight(r) /\ call'[r].resp = call[r].resp
  BY DEF ProgressShape
<1>2. Response(r)' = resp
  BY <1>1, OwnInFlight DEF Response
<1>3. Response(r)' \in OwnResponse(r) /\ Agrees(r)'
  <2>1. Agrees(r)
    BY <1>1, OwnInFlight
  <2>2. /\ (Response(r)').hasErrors = Response(r).hasErrors
        /\ (Response(r)').status = Response(r).status
    BY <1>2
  <2> QED BY <1>2, <2>1, <2>2 DEF Agrees
<1>4. header' = [header EXCEPT ![r] = header'[r]]
  BY DEF OwnInv
<1> QED BY <1>1, <1>3, <1>4, OwnProgress, OwnInFlight

\* What the serializer attaches and writes is of its own request.
LEMMA SerializesOwn ==
  ASSUME OwnInv, NEW r \in Requests, InFlight(r)
  PROVE  /\ Attached(r) \in {r, None}
         /\ \A indexes : ReturnedBy(r, indexes) \subseteq ValuesBy(r)
         /\ \A n \in DOMAIN Methods(r) : Methods(r)[n] \in Method
<1>1. Attached(r) \in {r, None}
  BY OwnInFlight DEF Attached, HoldsOwn
<1>2. Response(r).body \subseteq ValuesBy(r)
  BY OwnInFlight DEF OwnResponse, ResponseOf
<1>3. Methods(r) \in Seq(Method)
  BY OwnInFlight, MethodsTyped
<1>4. \A n \in DOMAIN Methods(r) : Methods(r)[n] \in Method
  BY <1>3
<1> QED BY <1>1, <1>2, <1>4 DEF ReturnedBy

\* mionSerializeResponse on the JSON lanes.
LEMMA JsonKeepsOwn ==
  ASSUME OwnInv, NEW r \in Requests, ProgressShape(r), UNCHANGED sealed,
         NEW k, NEW failed \in SUBSET ReturnedIndexes(r), NEW thrownFails \in BOOLEAN,
         SerializeJson(r, k, failed, thrownFails)
  PROVE  OwnInv' /\ HeaderKept
<1> DEFINE attached == Attached(r)
           errs == FailureSequence(r, failed, thrownFails)
           lost == {Methods(r)[n].id : n \in failed}
           written == ReturnedBy(r, ReturnedIndexes(r) \ failed)
           errsWritten == IF attached = None \/ thrownFails THEN {}
                          ELSE {x \in errorsOf[attached] : x.id \notin lost}
                                 \cup {SerializeError(r, id) : id \in lost}
           resp == [Response(r) EXCEPT !.attached = attached,
                      !.raw = IF Response(r).serializer = "stringifyJson"
                                THEN written \cup errsWritten ELSE @]
<1>1. InFlight(r) /\ call'[r].resp = call[r].resp
  BY DEF ProgressShape
<1>2. /\ Response(r) \in OwnResponse(r) /\ call[r].chain \in Chains
      /\ errorsOf[r] \subseteq ErrorsBy(r)
  BY <1>1, OwnInFlight
<1>3. attached \in {r, None} /\ written \subseteq ValuesBy(r)
  BY <1>1, SerializesOwn
<1>4. \A id \in lost : SerializeError(r, id) \in ErrorsBy(r)
  <2>1. \A n \in failed : Methods(r)[n].id \in STRING
    BY <1>1, SerializesOwn DEF ReturnedIndexes, Method
  <2> QED BY <2>1 DEF SerializeError, ErrorsBy
<1>5. errsWritten \subseteq ErrorsBy(r)
  BY <1>2, <1>3, <1>4
<1>6. written \cup errsWritten \in SUBSET (ValuesBy(r) \cup ErrorsBy(r))
  BY <1>3, <1>5
<1>7. resp \in OwnResponse(r) /\ resp.hasErrors = Response(r).hasErrors
      /\ resp.status = Response(r).status
  <2> HIDE DEF written, errsWritten, attached
  <2> QED BY <1>2, <1>3, <1>6 DEF OwnResponse, ResponseOf
<1>8. errs \in Seq(ErrorsBy(r))
  BY <1>2, FailureSequenceOwn
<1>9. \/ errs = << >> /\ heap' = [heap EXCEPT ![call[r].resp] = resp] /\ UNCHANGED <<errorsOf, header>>
      \/ errs # << >> /\ RecordErrors(r, resp, errs)
  BY DEF SerializeJson
<1> HIDE DEF resp, errs
<1>10. CASE errs = << >>
  BY <1>7, <1>9, <1>10, OwnInPlace
<1>11. CASE errs # << >>
  <2>1. /\ Response(r)' \in OwnResponse(r) /\ Agrees(r)'
        /\ errorsOf'[r] \subseteq ErrorsBy(r)
        /\ header' = [header EXCEPT ![r] = header'[r]]
        /\ header'[r] \in ErrorsBy(r) \cup {None}
        /\ header[r] # None => header'[r] = header[r]
    BY <1>1, <1>7, <1>8, <1>9, <1>11, RecordOwn
  <2> QED BY <2>1, OwnProgress
<1> QED BY <1>10, <1>11

\* Calling a method.
LEMMA CallKeepsOwn ==
  ASSUME OwnInv, NEW r \in Requests, CallMethod(r)
  PROVE  OwnInv' /\ HeaderKept
<1>1. ProgressShape(r) /\ InFlight(r)
  BY CallProgresses DEF OwnInv, ProgressShape
<1>2. Response(r) \in OwnResponse(r) /\ heap = [heap EXCEPT ![call[r].resp] = Response(r)]
  BY <1>1, OwnInFlight DEF Response
<1>3. PICK k \in DOMAIN Methods(r) : CallHandler(r, k) \/ CallMetadata(r, k) \/ CallSerialize(r, k)
  BY DEF CallMethod
<1>4. CASE CallHandler(r, k)
  <2>1. UNCHANGED <<heap, errorsOf, header, sealed>>
    BY <1>4 DEF CallHandler
  <2> QED BY <1>1, <1>2, <2>1, OwnInPlace
<1>5. CASE CallMetadata(r, k)
  <2> DEFINE resp == [Response(r) EXCEPT !.serializer = "stringifyJson"]
  <2>1. UNCHANGED <<errorsOf, header, sealed>>
    BY <1>5 DEF CallMetadata
  <2>2. heap' = heap \/ heap' = [heap EXCEPT ![call[r].resp] = resp]
    BY <1>5 DEF CallMetadata, Response
  <2>3. /\ resp \in OwnResponse(r) /\ resp.hasErrors = Response(r).hasErrors
        /\ resp.status = Response(r).status
    BY <1>2 DEF OwnResponse, ResponseOf, Modes
  <2> HIDE DEF resp
  <2>4. CASE heap' = heap
    BY <1>1, <1>2, <2>1, <2>4, OwnInPlace
  <2>5. CASE heap' = [heap EXCEPT ![call[r].resp] = resp]
    BY <1>1, <2>1, <2>3, <2>5, OwnInPlace
  <2> QED BY <2>2, <2>4, <2>5
<1>6. CASE CallSerialize(r, k)
  <2>1. UNCHANGED sealed
    BY <1>6 DEF CallSerialize
  <2>2. Attached(r) \in {r, None} /\ ReturnedBy(r, ReturnedIndexes(r)) \subseteq ValuesBy(r)
    BY <1>1, SerializesOwn
  <2>3. ASSUME NEW failed \in SUBSET ReturnedIndexes(r), NEW thrownFails \in BOOLEAN,
               SerializeJson(r, k, failed, thrownFails)
        PROVE  OwnInv' /\ HeaderKept
    BY <1>1, <2>1, <2>3, JsonKeepsOwn
  <2>4. ASSUME NEW fails \in BOOLEAN, SerializeBinary(r, k, fails)
        PROVE  OwnInv' /\ HeaderKept
    <3> DEFINE resp == [Response(r) EXCEPT !.attached = Attached(r),
                          !.bin = IF fails THEN @ ELSE ReturnedBy(r, ReturnedIndexes(r))]
    <3>1. UNCHANGED <<errorsOf, header>> /\ heap' = [heap EXCEPT ![call[r].resp] = resp]
      BY <2>4 DEF SerializeBinary, Response
    <3>2. /\ resp \in OwnResponse(r) /\ resp.hasErrors = Response(r).hasErrors
          /\ resp.status = Response(r).status
      BY <1>2, <2>2 DEF OwnResponse, ResponseOf
    <3> HIDE DEF resp
    <3> QED BY <1>1, <2>1, <3>1, <3>2, OwnInPlace
  <2>5. CASE SerializeRefused(r, k)
    <3> DEFINE resp == [Response(r) EXCEPT !.attached = Attached(r)]
    <3>1. UNCHANGED <<errorsOf, header>> /\ heap' = [heap EXCEPT ![call[r].resp] = resp]
      BY <2>5 DEF SerializeRefused, Response
    <3>2. /\ resp \in OwnResponse(r) /\ resp.hasErrors = Response(r).hasErrors
          /\ resp.status = Response(r).status
      BY <1>2, <2>2 DEF OwnResponse, ResponseOf
    <3> HIDE DEF resp
    <3> QED BY <1>1, <2>1, <3>1, <3>2, OwnInPlace
  <2> QED BY <1>6, <2>3, <2>4, <2>5 DEF CallSerialize
<1> QED BY <1>3, <1>4, <1>5, <1>6

\* A request that ends keeps its response, its errors and its header.
LEMMA EndKeepsOwn ==
  ASSUME OwnInv, NEW r \in Requests, NEW pc, EndShape(r, pc), UNCHANGED <<header, sealed>>,
         pc = "rejected" => HasCause(r)'
  PROVE  OwnInv' /\ HeaderKept
<1>1. HeapInv'
  BY EndKeeps DEF OwnInv
<1>2. /\ InFlight(r) /\ pc \in {"rejected", "delivered"} /\ errorsOf' = errorsOf /\ call'[r].pc = pc
      /\ \A q \in Requests \ {r} : call'[q] = call[q]
  BY DEF EndShape, OthersKeepCalls
<1>3. heap' = heap \/ \E o \in New(FreshResponses) : heap' = [heap EXCEPT ![o] = Fresh(None, "json")]
  BY DEF EndShape, ReleaseContext
<1>4. /\ heap' \in [Responses -> AnyResponse]
      /\ \A q \in Requests : call[q].resp \in Responses => heap'[call[q].resp] = heap[call[q].resp]
  <2>1. CASE heap' = heap
    BY <2>1 DEF OwnInv
  <2>2. ASSUME NEW o \in New(FreshResponses), heap' = [heap EXCEPT ![o] = Fresh(None, "json")]
        PROVE  /\ heap' \in [Responses -> AnyResponse]
               /\ \A q \in Requests : call[q].resp \in Responses => heap'[call[q].resp] = heap[call[q].resp]
    <3>1. o \in FreshResponses
      BY NewIsFresh
    <3>2. o \in Responses /\ \A q \in Requests : call[q].resp # o
      BY <3>1 DEF FreshResponses
    <3>3. Fresh(None, "json") \in AnyResponse
      BY DEF Fresh, AnyResponse, ResponseOf, Modes
    <3> HIDE DEF AnyResponse
    <3> QED BY <2>2, <3>2, <3>3 DEF OwnInv
  <2> QED BY <1>3, <2>1, <2>2
<1>5. ASSUME NEW q \in Requests \ {r} PROVE OwnCall(q)'
  <2>1. HasResponse(q) => call[q].resp \in Responses
    BY DEF OwnInv, HeapInv, ResponseExclusive
  <2> QED BY <1>2, <1>4, <2>1, OtherCallKept DEF OwnInv
<1>6. OwnCall(r)'
  <2>1. /\ Response(r) \in OwnResponse(r) /\ Agrees(r) /\ call[r].resp \in Responses
        /\ errorsOf[r] \subseteq ErrorsBy(r) /\ header[r] \in ErrorsBy(r) \cup {None}
    BY <1>2, OwnInFlight
  <2>2. HasResponse(r)' => Response(r)' = Response(r)
    BY <1>2, <1>4, <2>1 DEF HasResponse, InFlight, Delivered, Response, EndShape
  <2>3. HasResponse(r)' => Response(r)' \in OwnResponse(r) /\ Agrees(r)'
    <3> SUFFICES ASSUME HasResponse(r)' PROVE Response(r)' \in OwnResponse(r) /\ Agrees(r)'
      OBVIOUS
    <3> QED BY <1>2, <2>1, <2>2 DEF Agrees
  <2> QED BY <1>2, <2>1, <2>3 DEF OwnCall
<1> QED BY <1>1, <1>4, <1>5, <1>6 DEF OwnInv, HeaderKept

\* What runExecutionChain does with a result or an exception.
LEMMA SettleKeepsOwn ==
  ASSUME OwnInv, NEW r \in Requests, Settle(r)
  PROVE  OwnInv' /\ HeaderKept
<1>1. InFlight(r) /\ (ProgressShape(r) \/ EndShape(r, "rejected"))
  BY SettleHasShape DEF OwnInv, ProgressShape, EndShape
<1>2. /\ Response(r) \in OwnResponse(r) /\ heap = [heap EXCEPT ![call[r].resp] = Response(r)]
      /\ call[r] \in CallRecord /\ Methods(r) \in Seq(Method)
  BY <1>1, OwnInFlight, MethodsTyped DEF Response, HeapInv, HeapTypes
<1>3. ASSUME Continue(r) PROVE ProgressShape(r) /\ call'[r].resp = call[r].resp
  <2>1. call'[r].pc = "running"
    BY <1>3, OwnInFlight, <1>1 DEF Continue, HeapInv, HeapTypes, CallRecord
  <2> QED BY <1>1, <2>1 DEF EndShape, ProgressShape
<1>4. CASE SettleWithoutValue(r)
  <2>1. UNCHANGED <<heap, errorsOf, header, sealed>> /\ ProgressShape(r)
    BY <1>3, <1>4 DEF SettleWithoutValue
  <2> QED BY <1>2, <2>1, OwnInPlace
<1>5. call[r].pc = "awaiting" => Current(r).id \in STRING
  <2> SUFFICES ASSUME call[r].pc = "awaiting" PROVE Methods(r)[call[r].i] \in Method
    BY DEF Current, Method
  <2>1. call[r].i \in DOMAIN Methods(r)
    BY <1>1, OwnInFlight DEF HoldsOwn
  <2> QED BY <1>2, <2>1
<1>6. CASE SettleWithValue(r)
  <2> DEFINE resp == [Response(r) EXCEPT !.body = @ \cup {[id |-> Current(r).id, req |-> r]}]
  <2>1. /\ UNCHANGED <<errorsOf, header, sealed>> /\ ProgressShape(r)
        /\ heap' = [heap EXCEPT ![call[r].resp] = resp]
    BY <1>3, <1>6 DEF SettleWithValue, Response
  <2>2. [id |-> Current(r).id, req |-> r] \in ValuesBy(r)
    BY <1>5, <1>6 DEF SettleWithValue, ValuesBy
  <2>3. /\ resp \in OwnResponse(r) /\ resp.hasErrors = Response(r).hasErrors
        /\ resp.status = Response(r).status
    BY <1>2, <2>2 DEF OwnResponse, ResponseOf
  <2> HIDE DEF resp
  <2> QED BY <2>1, <2>3, OwnInPlace
<1>7. CASE SettleWithError(r)
  <2> DEFINE error == [id |-> Current(r).id, req |-> r, during |-> "run"]
             errs == <<error>>
  <2>1. UNCHANGED sealed /\ ProgressShape(r) /\ call'[r].resp = call[r].resp
        /\ RecordErrors(r, Response(r), errs)
    BY <1>3, <1>7 DEF SettleWithError
  <2>2. error \in ErrorsBy(r)
    BY <1>5, <1>7 DEF SettleWithError, ErrorsBy
  <2>3. errs \in Seq(ErrorsBy(r)) /\ errs # << >>
    <3> HIDE DEF error
    <3> QED BY <2>2
  <2> HIDE DEF errs
  <2>4. /\ Response(r)' \in OwnResponse(r) /\ Agrees(r)'
        /\ errorsOf'[r] \subseteq ErrorsBy(r)
        /\ header' = [header EXCEPT ![r] = header'[r]]
        /\ header'[r] \in ErrorsBy(r) \cup {None}
        /\ header[r] # None => header'[r] = header[r]
    BY <1>1, <1>2, <2>1, <2>3, RecordOwn
  <2> QED BY <2>1, <2>4, OwnProgress
<1>8. CASE Reject(r)
  <2>1. UNCHANGED <<header, sealed>>
    BY <1>8 DEF Reject
  <2>2. call'[r].pc = "rejected"
    BY <1>1, <1>8, OwnInFlight DEF Reject, HeapInv, HeapTypes, CallRecord
  <2>3. EndShape(r, "rejected")
    BY <1>1, <2>2 DEF ProgressShape
  <2>4. ~Response(r).hasErrors /\ (r \in sealed \/ TypeRefused(r))
    BY <1>2, <1>8 DEF Reject, ErrorHandlingThrows, HeaderRefused, OwnResponse, ResponseOf
  <2>5. errorsOf[r] = {} /\ errorsOf' = errorsOf
    BY <1>1, <1>8, <2>4, OwnInFlight DEF Reject, ReleaseContext, Agrees
  <2>6. call'[r].chain = call[r].chain /\ call'[r].i = call[r].i
    BY <1>1, <1>8, OwnInFlight DEF Reject, HeapInv, HeapTypes, CallRecord
  <2>7. HasCause(r)'
    BY <2>1, <2>4, <2>5, <2>6 DEF HasCause, TypeRefused
  <2> QED BY <2>1, <2>3, <2>7, EndKeepsOwn
<1> QED BY <1>4, <1>6, <1>7, <1>8 DEF Settle

\* A request that starts gets a response in which there is nothing yet.
LEMMA StartKeepsOwn ==
  ASSUME OwnInv, NEW r \in Requests, NEW c, NEW o, StartShape(r, c, o)
  PROVE  OwnInv' /\ HeaderKept
<1>1. HeapInv'
  BY StartKeeps DEF OwnInv
<1>2. PICK chain \in Chains : Start(r, c, o, chain)
  BY DEF StartShape
<1>3. /\ call[r].pc = "new" /\ o \in Responses
      /\ \A q \in Requests : HasResponse(q) => call[q].resp \in Responses \ {o}
  BY DEF StartShape, OwnInv, HeapInv, ResponseExclusive
<1>4. /\ heap' = [heap EXCEPT ![o] = Fresh(r, chain.serializer)]
      /\ UNCHANGED <<errorsOf, header, sealed>>
      /\ call'[r].pc = "running" /\ call'[r].resp = o
      /\ \A q \in Requests \ {r} : call'[q] = call[q]
  BY <1>2 DEF Start, OwnInv, HeapInv, HeapTypes
<1>5. Fresh(r, chain.serializer) \in OwnResponse(r)
  BY ChainsAssumption DEF Chain, Fresh, OwnResponse, ResponseOf
<1>6. heap' \in [Responses -> AnyResponse] /\ heap'[o] = Fresh(r, chain.serializer)
  BY <1>3, <1>4, <1>5, OwnIsSome DEF OwnInv
<1>7. ASSUME NEW q \in Requests \ {r} PROVE OwnCall(q)'
  <2>1. HasResponse(q) => heap'[call[q].resp] = heap[call[q].resp]
    BY <1>3, <1>4 DEF OwnInv
  <2> QED BY <1>4, <2>1, OtherCallKept DEF OwnInv
<1>8. OwnCall(r)'
  <2>1. errorsOf[r] = {} /\ header[r] = None
    BY <1>3 DEF OwnInv, OwnCall
  <2>2. Response(r)' = Fresh(r, chain.serializer)
    BY <1>4, <1>6 DEF Response
  <2>3. Agrees(r)'
    BY <1>4, <2>1, <2>2 DEF Agrees, Fresh
  <2> QED BY <1>4, <1>5, <2>1, <2>2, <2>3 DEF OwnCall
<1> QED BY <1>1, <1>4, <1>6, <1>7, <1>8 DEF OwnInv, HeaderKept

\* The actions that neither start, go on nor end.
LEMMA QuietKeepsOwn ==
  ASSUME OwnInv, NEW r \in Requests, AcquireFails(r) \/ Reply(r) \/ AnswerEarly(r)
  PROVE  OwnInv' /\ HeaderKept
<1>1. HeapInv' /\ call \in [Requests -> CallRecord]
  BY QuietActions DEF OwnInv, HeapInv, HeapTypes
<1>2. UNCHANGED <<heap, errorsOf, header>> /\ sealed \subseteq sealed' /\ sealed' \subseteq Requests
  <2>1. UNCHANGED <<heap, errorsOf, header>>
    BY DEF AcquireFails, Reply, AnswerEarly
  <2>2. sealed' \in {sealed, sealed \cup {r}} /\ sealed \subseteq Requests
    BY DEF AcquireFails, Reply, AnswerEarly, OwnInv
  <2> QED BY <2>1, <2>2
<1>3. \A q \in Requests \ {r} : call'[q] = call[q]
  BY <1>1 DEF AcquireFails, Reply, AnswerEarly
<1>4. ASSUME NEW q \in Requests \ {r} PROVE OwnCall(q)'
  BY <1>2, <1>3, OtherCallKept DEF OwnInv
<1>5. OwnCall(r)'
  <2>1. CASE AcquireFails(r)
    <3>1. call[r].pc = "new" /\ call'[r].pc = "rejected" /\ call'[r].chain = call[r].chain
      BY <1>1, <2>1 DEF AcquireFails, CallRecord
    <3> QED BY <1>2, <3>1 DEF OwnInv, OwnCall, HasResponse, InFlight, Delivered
  <2>2. CASE Reply(r)
    <3>1. call'[r].pc = "replied"
      BY <1>1, <2>2 DEF Reply, CallRecord
    <3> QED BY <1>2, <3>1 DEF OwnInv, OwnCall, HasResponse, InFlight, Delivered
  <2>3. CASE AnswerEarly(r)
    BY <1>2, <2>3, OtherCallKept DEF AnswerEarly, OwnInv
  <2> QED BY <2>1, <2>2, <2>3
<1>6. heap' \in [Responses -> AnyResponse] /\ header' \in [Requests -> Error \cup {None}]
  BY <1>2 DEF OwnInv
<1> QED BY <1>1, <1>2, <1>4, <1>5, <1>6 DEF OwnInv, HeaderKept

\* Nobody has anything at first.
LEMMA OwnInit == Init => OwnInv
<1> SUFFICES ASSUME Init PROVE OwnInv
  OBVIOUS
<1>1. HeapInv
  BY HeapInit
<1>2. heap \in [Responses -> AnyResponse]
  <2>1. Fresh(None, "json") \in AnyResponse
    BY DEF Fresh, AnyResponse, ResponseOf, Modes
  <2> QED BY <2>1 DEF Init
<1>3. ASSUME NEW r \in Requests PROVE OwnCall(r)
  <2>1. call[r].pc = "new" /\ call[r].chain = None /\ errorsOf[r] = {} /\ header[r] = None
    BY DEF Init, NoCall
  <2> QED BY <2>1 DEF OwnCall, HasResponse, InFlight, Delivered
<1>4. header \in [Requests -> Error \cup {None}] /\ sealed \subseteq Requests
  BY DEF Init
<1> QED BY <1>1, <1>2, <1>3, <1>4 DEF OwnInv

\* Every step keeps the invariant and every error header.
LEMMA OwnStep ==
  ASSUME OwnInv, [Next]_vars
  PROVE  OwnInv' /\ HeaderKept
<1>1. CASE UNCHANGED vars
  <2>1. HeapInv'
    BY HeapStep DEF OwnInv
  <2>2. \A r \in Requests : OwnCall(r)'
    BY <1>1, OtherCallKept DEF vars, OwnInv
  <2> QED BY <1>1, <2>1, <2>2 DEF vars, OwnInv, HeaderKept
<1>2. ASSUME NEW r \in Requests, Acquire(r) PROVE OwnInv' /\ HeaderKept
  <2>1. CASE AcquireFails(r)
    BY <2>1, QuietKeepsOwn
  <2>2. ASSUME NEW chain \in Chains, AcquirePooled(r, chain) \/ AcquireNew(r, chain)
        PROVE  OwnInv' /\ HeaderKept
    <3>1. \E c, o : StartShape(r, c, o)
      BY <2>2, AcquireStarts DEF OwnInv
    <3> QED BY <3>1, StartKeepsOwn
  <2> QED BY <1>2, <2>1, <2>2 DEF Acquire
<1>3. ASSUME NEW r \in Requests, Complete(r) PROVE OwnInv' /\ HeaderKept
  <2>1. EndShape(r, "delivered") /\ UNCHANGED <<header, sealed>>
    BY <1>3, CompleteEnds DEF OwnInv, Complete
  <2> QED BY <2>1, EndKeepsOwn
<1> QED BY <1>1, <1>2, <1>3, CallKeepsOwn, SettleKeepsOwn, QuietKeepsOwn DEF Next

\* The invariant holds in every state.
LEMMA OwnInductive == Spec => []OwnInv
<1>1. OwnInv /\ [Next]_vars => OwnInv'
  BY OwnStep
<1> QED BY OwnInit, <1>1, PTL DEF Spec
-----------------------------------------------------------------------------
(* What follows from it. *)

\* The invariant has the types of every variable, those of the response fields
\* included.
LEMMA OwnIsTyped == OwnInv => TypeOK
<1> SUFFICES ASSUME OwnInv PROVE TypeOK
  OBVIOUS
<1>1. HeapTypes /\ \A r \in Requests : OwnCall(r)
  BY DEF OwnInv, HeapInv
<1>2. ctx \in [Contexts -> [thrown : Requests \cup {None}, response : Responses \cup {None}]]
  BY <1>1 DEF HeapTypes, Shell
<1>3. errorsOf \in [Requests -> SUBSET Error]
  <2>1. \A r \in Requests : errorsOf[r] \subseteq Error
    BY <1>1, OwnIsSome DEF OwnCall
  <2> QED BY <1>1, <2>1 DEF HeapTypes, IsFunctionOn
<1>4. ASSUME NEW o \in Responses
      PROVE  /\ heap[o].status \in Error \cup {None} /\ heap[o].hasErrors \in BOOLEAN
             /\ heap[o].headersOf \in Requests \cup {None} /\ heap[o].body \subseteq Value
             /\ heap[o].attached \in Requests \cup {None} /\ heap[o].serializer \in Modes
  <2>1. heap[o] \in AnyResponse
    BY DEF OwnInv
  <2> QED BY <2>1 DEF AnyResponse, ResponseOf
<1>5. ASSUME NEW r \in Requests
      PROVE  /\ call[r].pc \in {"new", "running", "awaiting", "delivered", "replied", "rejected"}
             /\ call[r].chain \in Chains \cup {None}
             /\ InFlight(r) => call[r].ctx \in Contexts /\ call[r].resp \in Responses
  <2>1. call[r] \in CallRecord
    BY <1>1 DEF HeapTypes
  <2>2. InFlight(r) => call[r].ctx \in Contexts /\ call[r].resp \in Responses
    BY OwnInFlight DEF HoldsOwn
  <2> QED BY <2>1, <2>2 DEF CallRecord, Phases
<1>6. pool \in Seq(Contexts) /\ header \in [Requests -> Error \cup {None}] /\ sealed \subseteq Requests
  BY <1>1 DEF OwnInv, HeapTypes
<1> QED BY <1>2, <1>3, <1>4, <1>5, <1>6 DEF TypeOK

\* Every variable of Dispatch keeps its type (callContext.ts, dispatch.ts), for any
\* number of requests, any chains and any pool size.
THEOREM DispatchTypes == Spec => []TypeOK
BY OwnIsTyped, OwnInductive, PTL

\* A request leads the platform to read its own values, errors and headers only,
\* from the moment its context is acquired until the reply, whatever the pool
\* hands round (callContext.ts:84-150).
THEOREM NoResponseCrosses == Spec => []NoCrossTalk
<1>1. OwnInv => NoCrossTalk
  <2> SUFFICES ASSUME OwnInv, NEW r \in Requests, HasResponse(r)
               PROVE  /\ Response(r).headersOf = r
                      /\ \A v \in Response(r).body : v.req = r
                      /\ Response(r).attached \in {r, None}
                      /\ InFlight(r) => ctx[call[r].ctx].thrown \in {r, None}
                      /\ \A e \in errorsOf[r] : e.req = r
                      /\ header[r] # None => header[r].req = r
    BY DEF NoCrossTalk
  <2>1. OwnCall(r) /\ Response(r) \in OwnResponse(r)
    BY DEF OwnInv, OwnCall
  <2>2. /\ Response(r).headersOf = r /\ Response(r).attached \in {r, None}
        /\ \A v \in Response(r).body : v.req = r
    BY <2>1 DEF OwnResponse, ResponseOf, ValuesBy
  <2>3. InFlight(r) => ctx[call[r].ctx].thrown \in {r, None}
    BY OwnInFlight DEF HoldsOwn
  <2>4. /\ \A e \in errorsOf[r] : e.req = r
        /\ header[r] # None => header[r].req = r
    BY <2>1 DEF OwnCall, ErrorsBy
  <2> QED BY <2>2, <2>3, <2>4
<1> QED BY <1>1, OwnInductive, PTL

\* When dispatchRoute returns, the flag, the status, the collected errors and the
\* error header agree (dispatchError.ts:29-70).
THEOREM ErrorsAgreeAlways == Spec => []ErrorsAgree
<1>1. OwnInv => ErrorsAgree
  BY DEF OwnInv, OwnCall, HasResponse, Agrees, ErrorsAgree
<1> QED BY <1>1, OwnInductive, PTL

\* No later error replaces the header of the first (dispatchError.ts:50-60).
THEOREM HeaderOfFirstError == Spec => FirstErrorKeepsHeader
<1>1. OwnInv /\ [Next]_vars => [HeaderKept]_vars
  BY OwnStep
<1>2. Spec => [][HeaderKept]_vars
  BY <1>1, OwnInductive, PTL DEF Spec
<1> QED BY <1>2 DEF HeaderKept, FirstErrorKeepsHeader

\* dispatchRoute rejects only a request that never got a chain, or one for the error
\* of whose method no header could be set: it had no error before, and its headers
\* were sent behind its back or are not able to carry the error's type
\* (dispatch.ts:62-82, dispatchError.ts:50-60).
THEOREM RejectionsExplained == Spec => []RejectedForCause
<1>1. OwnInv => RejectedForCause
  BY DEF OwnInv, OwnCall, HasCause, RejectedForCause
<1> QED BY <1>1, OwnInductive, PTL
-----------------------------------------------------------------------------
(* Errors that were thrown before the response was serialized are in it. *)

\* mionSerializeResponse has done its work
Serialized(r) ==
  \/ Delivered(r)
  \/ call[r].pc = "awaiting" /\ SerializerIndex(r) <= call[r].i
  \/ call[r].pc = "running" /\ SerializerIndex(r) < call[r].i

\* What EarlyErrorsReturned says, from then on.
ErrorsIn(r) ==
  r \notin sealed /\ Response(r).serializer # "binary" /\ ErrorsConverted(r) =>
    \A e \in errorsOf[r] : e.during = "run" /\ Precedes(r, e) => e \in Payload(r)

\* A request's context refers to its errors as soon as there are any, so that the
\* serializer can not miss those that come before it.
EarlyCall(r) ==
  /\ InFlight(r) => (ctx[call[r].ctx].thrown = None <=> errorsOf[r] = {})
  /\ HasResponse(r) /\ Serialized(r) => ErrorsIn(r)

EarlyInv == OwnInv /\ \A r \in Requests : EarlyCall(r)

\* The chain of a request has one serializer, after the metadata middleFn.
LEMMA SerializerFound ==
  ASSUME NEW r \in Requests, call[r].chain \in Chains
  PROVE  LET s == SerializerIndex(r)
         IN /\ s \in DOMAIN Methods(r) /\ s \in Nat /\ DOMAIN Methods(r) \subseteq Nat
            /\ Methods(r)[s].kind = "serialize" /\ Methods(r)[s].runOnError
            /\ \A k \in DOMAIN Methods(r) : Methods(r)[k].kind = "serialize" => k = s
            /\ \A k \in DOMAIN Methods(r) : Methods(r)[k].kind = "metadata" => k < s
            /\ \A j, k \in DOMAIN Methods(r) : j < s /\ s <= k => Methods(r)[j].id # Methods(r)[k].id
<1>1. PICK s \in DOMAIN Methods(r) : SerializesAt(call[r].chain, s)
  BY SerializerAssumption DEF Methods
<1>2. /\ Methods(r)[s].kind = "serialize" /\ Methods(r)[s].runOnError
      /\ \A k \in DOMAIN Methods(r) \ {s} : Methods(r)[k].kind # "serialize"
      /\ \A k \in DOMAIN Methods(r) : Methods(r)[k].kind = "metadata" => k < s
      /\ \A j, k \in DOMAIN Methods(r) : j < s /\ s <= k => Methods(r)[j].id # Methods(r)[k].id
  BY <1>1 DEF SerializesAt, Methods
<1>3. SerializerIndex(r) = s
  BY <1>2 DEF SerializerIndex
<1>4. DOMAIN Methods(r) \subseteq Nat
  BY MethodsTyped
<1> QED BY <1>2, <1>3, <1>4

\* A method after the serializer is called only once that one was.
LEMMA SerializerNotSkipped ==
  ASSUME OwnInv, NEW r \in Requests, call[r].pc = "running"
  PROVE  /\ \A k \in DOMAIN Methods(r) :
              Reaches(r, k) /\ SerializerIndex(r) < k => SerializerIndex(r) < call[r].i
         /\ Runnable(r) = {} => SerializerIndex(r) < call[r].i
<1>1. call[r].chain \in Chains /\ call[r].i \in Nat
  BY OwnInFlight DEF InFlight, HeapInv, HeapTypes, CallRecord
<1>2. /\ SerializerIndex(r) \in DOMAIN Methods(r) /\ SerializerIndex(r) \in Nat
      /\ Methods(r)[SerializerIndex(r)].runOnError
  BY <1>1, SerializerFound
<1>3. SerializerIndex(r) < call[r].i \/ SerializerIndex(r) \in Runnable(r)
  BY <1>1, <1>2 DEF Runnable
<1>4. \A k \in DOMAIN Methods(r) : k \in Nat
  BY <1>1, MethodsTyped
<1> QED BY <1>2, <1>3, <1>4 DEF Reaches

\* The chain of a request and what is derived from it.
LEMMA ChainKept ==
  ASSUME NEW r \in Requests, call'[r].chain = call[r].chain
  PROVE  /\ Methods(r)' = Methods(r) /\ SerializerIndex(r)' = SerializerIndex(r)
         /\ \A e : Precedes(r, e)' <=> Precedes(r, e)
<1>1. Methods(r)' = Methods(r)
  BY DEF Methods
<1>2. SerializerIndex(r)' = SerializerIndex(r)
  BY <1>1 DEF SerializerIndex
<1> QED BY <1>1, <1>2 DEF Precedes

\* A response in which nothing changes, and no error of its request, has the same
\* payload.
LEMMA PayloadKept ==
  ASSUME OwnInv, NEW r \in Requests, HasResponse(r), Response(r)' = Response(r),
         errorsOf'[r] = errorsOf[r]
  PROVE  Payload(r)' = Payload(r)
<1>1. Response(r) \in OwnResponse(r)
  BY DEF OwnInv, OwnCall
<1>2. Response(r).attached \in {r, None}
  BY <1>1 DEF OwnResponse, ResponseOf
<1> QED BY <1>2 DEF Payload

\* A request whose own variables keep their values.
LEMMA OtherEarlyKept ==
  ASSUME OwnInv, NEW q \in Requests, EarlyCall(q), call'[q] = call[q], errorsOf'[q] = errorsOf[q],
         sealed \subseteq sealed',
         HasResponse(q) => heap'[call[q].resp] = heap[call[q].resp],
         InFlight(q) => ctx'[call[q].ctx] = ctx[call[q].ctx]
  PROVE  EarlyCall(q)'
<1>1. (HasResponse(q)' <=> HasResponse(q)) /\ (InFlight(q)' <=> InFlight(q))
  BY DEF HasResponse, InFlight, Delivered
<1>2. /\ Methods(q)' = Methods(q) /\ SerializerIndex(q)' = SerializerIndex(q)
      /\ \A e : Precedes(q, e)' <=> Precedes(q, e)
  BY ChainKept
<1>3. Serialized(q)' <=> Serialized(q)
  BY <1>2 DEF Serialized, Delivered
<1>4. HasResponse(q) => Response(q)' = Response(q) /\ Payload(q)' = Payload(q)
  BY PayloadKept DEF Response
<1>5. ErrorsConverted(q)' <=> ErrorsConverted(q)
  BY DEF ErrorsConverted
<1>6. HasResponse(q) /\ ErrorsIn(q) => ErrorsIn(q)'
  BY <1>2, <1>4, <1>5 DEF ErrorsIn
<1> QED BY <1>1, <1>3, <1>6 DEF EarlyCall

\* A request that goes on leaves the others' errors and payloads alone.
LEMMA EarlyProgress ==
  ASSUME EarlyInv, NEW r \in Requests, ProgressShape(r), OwnInv', UNCHANGED sealed, EarlyCall(r)'
  PROVE  EarlyInv'
<1>1. ASSUME NEW q \in Requests \ {r} PROVE EarlyCall(q)'
  <2>1. HeapInv /\ InFlight(r)
    BY DEF EarlyInv, OwnInv, ProgressShape
  <2>2. HasResponse(q) => call[q].resp \in Responses \ {call[r].resp}
    BY <2>1 DEF HeapInv, ResponseExclusive, HasResponse
  <2>3. InFlight(q) => call[q].ctx \in Contexts \ {call[r].ctx}
    BY <2>1 DEF HeapInv, HoldsOwn, ContextExclusive
  <2> QED BY <2>2, <2>3, OtherEarlyKept DEF EarlyInv, ProgressShape, OthersKeepCalls
<1> QED BY <1>1 DEF EarlyInv

\* A step that changes no error of its request, does not do the serializer's work,
\* and takes nothing out of the payload.
LEMMA EarlyInPlace ==
  ASSUME EarlyInv, NEW r \in Requests, ProgressShape(r), OwnInv', UNCHANGED <<ctx, errorsOf, sealed>>,
         Serialized(r)' => /\ Serialized(r) /\ Payload(r) \subseteq Payload(r)'
                           /\ (Response(r)').serializer = Response(r).serializer
  PROVE  EarlyInv'
<1>1. /\ call'[r].ctx = call[r].ctx /\ call'[r].chain = call[r].chain
      /\ InFlight(r) /\ HasResponse(r) /\ EarlyCall(r)
  BY DEF ProgressShape, EarlyInv, HasResponse
<1>2. \A e : Precedes(r, e)' <=> Precedes(r, e)
  BY <1>1, ChainKept
<1>3. ErrorsConverted(r)' <=> ErrorsConverted(r)
  BY DEF ErrorsConverted
<1>4. Serialized(r)' => ErrorsIn(r)'
  <2> SUFFICES ASSUME Serialized(r)' PROVE ErrorsIn(r)'
    OBVIOUS
  <2>1. ErrorsIn(r)
    BY <1>1 DEF EarlyCall
  <2> QED BY <1>2, <1>3, <2>1 DEF ErrorsIn
<1>5. EarlyCall(r)'
  BY <1>1, <1>4 DEF EarlyCall
<1> QED BY <1>5, EarlyProgress

\* The errors of r after some more, and the response that tells of them.
ErrorsAfter(r, errs) ==
  {x \in errorsOf[r] : x.id \notin {errs[k].id : k \in DOMAIN errs}} \cup {errs[k] : k \in DOMAIN errs}

Failed(resp, errs) == [resp EXCEPT !.hasErrors = TRUE, !.status = errs[Len(errs)]]

\* What onExecutableError makes of the errors of its request: those it is given
\* replace the ones of the same methods, and the context refers to them.
LEMMA ErrorsRecorded ==
  ASSUME OwnInv, NEW r \in Requests, InFlight(r), NEW resp,
         NEW errs \in Seq(ErrorsBy(r)), errs # << >>, RecordErrors(r, resp, errs)
  PROVE  /\ errorsOf'[r] = ErrorsAfter(r, errs)
         /\ ErrorsConverted(r)' => ErrorsConverted(r)
         /\ ctx'[call[r].ctx].thrown # None /\ errorsOf'[r] # {}
         /\ heap'[call[r].resp] = Failed(resp, errs)
<1> DEFINE new == {errs[k] : k \in DOMAIN errs}
           ids == {errs[k].id : k \in DOMAIN errs}
<1>1. HoldsOwn(r) /\ HeapTypes /\ call[r].resp \in Responses /\ heap \in [Responses -> AnyResponse]
  BY OwnInFlight DEF HeapInv
<1>2. ErrorStore(r) = r /\ r # None
  BY <1>1, NoneAssumption DEF ErrorStore, HoldsOwn
<1>3. errorsOf'[r] = {x \in errorsOf[r] : x.id \notin ids} \cup new
  BY <1>1, <1>2 DEF RecordErrors, HeapTypes, IsFunctionOn
<1>4. errorsOf'[r] # {}
  <2>1. 1 \in DOMAIN errs
    OBVIOUS
  <2> QED BY <1>3, <2>1
<1>5. ErrorsConverted(r)' => ErrorsConverted(r)
  <2> SUFFICES ASSUME ErrorsConverted(r)', NEW e \in errorsOf[r] PROVE e.id # ThrownErrorsId
    BY DEF ErrorsConverted
  <2>1. \A x \in errorsOf'[r] : x.id # ThrownErrorsId
    BY DEF ErrorsConverted
  <2>2. CASE e.id \in ids
    BY <1>3, <2>1, <2>2
  <2>3. CASE e.id \notin ids
    BY <1>3, <2>1, <2>3
  <2> QED BY <2>2, <2>3
<1>6. ctx'[call[r].ctx].thrown # None
  BY <1>1, <1>2 DEF RecordErrors, HeapTypes, HoldsOwn, Shell
<1>7. heap'[call[r].resp] = Failed(resp, errs)
  BY <1>1 DEF RecordErrors, Failed
<1> QED BY <1>3, <1>4, <1>5, <1>6, <1>7 DEF ErrorsAfter

\* mionSerializeResponse on the JSON lanes writes the errors there are, itself or
\* with the body.
LEMMA EarlyJson ==
  ASSUME EarlyInv, NEW r \in Requests, ProgressShape(r), OwnInv', UNCHANGED sealed,
         NEW place, NEW failed \in SUBSET ReturnedIndexes(r), NEW thrownFails \in BOOLEAN,
         SerializeJson(r, place, failed, thrownFails)
  PROVE  EarlyInv'
<1> DEFINE attached == Attached(r)
           errs == FailureSequence(r, failed, thrownFails)
           lost == {Methods(r)[n].id : n \in failed}
           written == ReturnedBy(r, ReturnedIndexes(r) \ failed)
           errsWritten == IF attached = None \/ thrownFails THEN {}
                          ELSE {x \in errorsOf[attached] : x.id \notin lost}
                                 \cup {SerializeError(r, id) : id \in lost}
           resp == [Response(r) EXCEPT !.attached = attached,
                      !.raw = IF Response(r).serializer = "stringifyJson"
                                THEN written \cup errsWritten ELSE @]
<1>1. /\ call'[r].ctx = call[r].ctx /\ call'[r].resp = call[r].resp /\ call'[r].chain = call[r].chain
      /\ InFlight(r) /\ OwnInv /\ call[r].chain \in Chains
  BY OwnInFlight DEF ProgressShape, EarlyInv
<1>2. /\ attached \in {r, None} /\ Response(r) \in OwnResponse(r) /\ call[r].resp \in Responses
      /\ attached = ctx[call[r].ctx].thrown /\ (attached = None <=> errorsOf[r] = {})
      /\ heap \in [Responses -> AnyResponse]
  BY <1>1, OwnInFlight, SerializesOwn DEF Attached, EarlyInv, EarlyCall
<1>3. errs \in Seq(ErrorsBy(r))
  BY <1>1, FailureSequenceOwn
<1>4. /\ \A m \in failed : \E n \in DOMAIN errs : errs[n].id = Methods(r)[m].id
      /\ thrownFails => \E n \in DOMAIN errs : errs[n].id = ThrownErrorsId
      /\ \A n \in DOMAIN errs : errs[n].during = "serialize"
  BY <1>1, FailureSequenceCovers
<1>5. \/ errs = << >> /\ heap' = [heap EXCEPT ![call[r].resp] = resp] /\ UNCHANGED <<ctx, errorsOf>>
      \/ errs # << >> /\ RecordErrors(r, resp, errs)
  BY DEF SerializeJson
<1>6. /\ resp.attached = attached /\ resp.serializer = Response(r).serializer
      /\ resp.serializer = "stringifyJson" => resp.raw = written \cup errsWritten
      /\ resp.serializer # "binary" /\ resp.serializer \in Modes
  <2>1. Response(r).serializer # "binary"
    BY DEF SerializeJson
  <2> HIDE DEF written, errsWritten, attached
  <2> QED BY <1>2, <2>1 DEF OwnResponse, ResponseOf
<1>7. written \subseteq Value /\ errsWritten \subseteq Error
  <2>1. ReturnedBy(r, ReturnedIndexes(r) \ failed) \subseteq Value
    BY <1>1, SerializesOwn, OwnIsSome
  <2>2. \A id \in lost : SerializeError(r, id) \in Error
    <3>1. \A n \in failed : Methods(r)[n].id \in STRING
      BY <1>1, SerializesOwn DEF ReturnedIndexes, Method
    <3> QED BY <3>1 DEF SerializeError, Error
  <2>3. attached # None => errorsOf[attached] \subseteq Error
    BY <1>1, <1>2, OwnInFlight, OwnIsSome
  <2> QED BY <2>1, <2>2, <2>3
<1> HIDE DEF errs, resp
<1>8. /\ (Response(r)').serializer = resp.serializer /\ (Response(r)').attached = resp.attached
      /\ (Response(r)').raw = resp.raw
      /\ ctx'[call[r].ctx].thrown = None <=> errorsOf'[r] = {}
      /\ \A e \in errorsOf'[r] : e.during = "run" => e \in errorsOf[r] /\ e.id \notin lost
      /\ ErrorsConverted(r)' => ~thrownFails
  <2>1. CASE errs = << >>
    <3>1. heap'[call[r].resp] = resp /\ UNCHANGED <<ctx, errorsOf>>
      BY <1>2, <1>5, <2>1
    <3>2. failed = {} /\ ~thrownFails
      BY <1>4, <2>1
    <3> QED BY <1>1, <1>2, <3>1, <3>2 DEF Response
  <2>2. CASE errs # << >>
    <3>1. /\ errorsOf'[r] = ErrorsAfter(r, errs)
          /\ ctx'[call[r].ctx].thrown # None /\ errorsOf'[r] # {}
          /\ heap'[call[r].resp] = Failed(resp, errs)
      BY <1>1, <1>3, <1>5, <2>2, ErrorsRecorded
    <3>2. Response(r)' = Failed(resp, errs)
      BY <1>1, <3>1 DEF Response
    <3>3. ASSUME NEW e \in errorsOf'[r], e.during = "run" PROVE e \in errorsOf[r] /\ e.id \notin lost
      BY <1>4, <3>1, <3>3 DEF ErrorsAfter
    <3>4. ErrorsConverted(r)' => ~thrownFails
      BY <1>4, <3>1 DEF ErrorsConverted, ErrorsAfter
    <3> QED BY <3>1, <3>2, <3>3, <3>4 DEF resp, Failed
  <2> QED BY <2>1, <2>2
<1>9. ErrorsIn(r)'
  <2> SUFFICES ASSUME ErrorsConverted(r)', NEW e \in errorsOf'[r], e.during = "run"
               PROVE  e \in Payload(r)'
    BY DEF ErrorsIn
  <2>1. e \in errorsOf[r] /\ e.id \notin lost /\ ~thrownFails /\ attached = r /\ r # None
    BY <1>2, <1>8, NoneAssumption
  <2>2. CASE resp.serializer = "stringifyJson"
    <3>1. e \in errsWritten
      BY <2>1
    <3>2. (Response(r)').raw = written \cup errsWritten
      BY <1>6, <1>8, <2>2
    <3> QED BY <1>8, <2>2, <3>1, <3>2 DEF Payload
  <2>3. CASE resp.serializer = "json"
    BY <1>6, <1>8, <2>1, <2>3 DEF Payload
  <2> QED BY <1>6, <2>2, <2>3 DEF Modes
<1>10. EarlyCall(r)'
  BY <1>1, <1>8, <1>9 DEF EarlyCall
<1> QED BY <1>10, EarlyProgress

\* Calling a method.
LEMMA EarlyCalls ==
  ASSUME EarlyInv, NEW r \in Requests, CallMethod(r)
  PROVE  EarlyInv'
<1>1. OwnInv /\ OwnInv' /\ ProgressShape(r) /\ InFlight(r) /\ call[r].pc = "running"
  BY CallKeepsOwn, CallProgresses DEF EarlyInv, OwnInv, ProgressShape, CallMethod
<1>2. /\ HasResponse(r) /\ call[r].chain \in Chains /\ call[r] \in CallRecord
      /\ call'[r].chain = call[r].chain /\ call'[r].resp = call[r].resp
      /\ call \in [Requests -> CallRecord]
  BY <1>1, OwnInFlight DEF ProgressShape, HeapInv, HeapTypes
<1>3. /\ SerializerIndex(r) \in Nat /\ DOMAIN Methods(r) \subseteq Nat
      /\ \A k \in DOMAIN Methods(r) : /\ Methods(r)[k].kind = "serialize" => k = SerializerIndex(r)
                                      /\ Methods(r)[k].kind = "metadata" => k < SerializerIndex(r)
      /\ Methods(r)[SerializerIndex(r)].kind = "serialize"
  BY <1>2, SerializerFound
<1>4. SerializerIndex(r)' = SerializerIndex(r)
  BY <1>2, ChainKept
<1>5. ASSUME NEW k \in DOMAIN Methods(r), NEW threw \in BOOLEAN, Awaits(r, k, threw)
      PROVE  Serialized(r)' => SerializerIndex(r) <= k
  <2>1. call'[r].pc = "awaiting" /\ call'[r].i = k
    BY <1>2, <1>5 DEF Awaits, CallRecord
  <2> QED BY <1>4, <2>1 DEF Serialized, Delivered
<1>6. PICK k \in DOMAIN Methods(r) : CallHandler(r, k) \/ CallMetadata(r, k) \/ CallSerialize(r, k)
  BY DEF CallMethod
<1>7. CASE CallHandler(r, k)
  <2>1. Reaches(r, k) /\ Awaits(r, k, FALSE) /\ UNCHANGED <<ctx, heap, errorsOf, sealed>>
        /\ Methods(r)[k].kind # "serialize"
    BY <1>7 DEF CallHandler
  <2>2. Serialized(r)' => Serialized(r)
    <3> SUFFICES ASSUME Serialized(r)' PROVE Serialized(r)
      OBVIOUS
    <3>1. SerializerIndex(r) <= k
      BY <1>5, <2>1
    <3>2. SerializerIndex(r) < k
      BY <1>3, <1>6, <2>1, <3>1
    <3> QED BY <1>1, <2>1, <3>2, SerializerNotSkipped DEF Serialized
  <2>3. Response(r)' = Response(r)
    BY <1>2, <2>1 DEF Response
  <2>4. Payload(r)' = Payload(r)
    BY <1>1, <1>2, <2>1, <2>3, PayloadKept
  <2> QED BY <1>1, <2>1, <2>2, <2>3, <2>4, EarlyInPlace
<1>8. CASE CallMetadata(r, k)
  <2>1. Awaits(r, k, FALSE) /\ UNCHANGED <<ctx, errorsOf, sealed>> /\ Methods(r)[k].kind = "metadata"
    BY <1>8 DEF CallMetadata
  <2>2. k < SerializerIndex(r)
    BY <1>3, <1>6, <2>1
  <2>3. ~(SerializerIndex(r) <= k)
    BY <1>3, <1>6, <2>2
  <2>4. ~Serialized(r)'
    BY <1>5, <2>1, <2>3
  <2> QED BY <1>1, <2>1, <2>4, EarlyInPlace
<1>9. CASE CallSerialize(r, k)
  <2>1. UNCHANGED sealed
    BY <1>9 DEF CallSerialize
  <2>2. ASSUME NEW failed \in SUBSET ReturnedIndexes(r), NEW thrownFails \in BOOLEAN,
               SerializeJson(r, k, failed, thrownFails)
        PROVE  EarlyInv'
    BY <1>1, <2>1, <2>2, EarlyJson
  <2>3. ASSUME NEW resp, heap' = [heap EXCEPT ![call[r].resp] = resp], UNCHANGED <<ctx, errorsOf>>,
               resp.serializer = "binary" \/ HeaderRefused(r)
        PROVE  EarlyInv'
    <3>1. Response(r)' = resp /\ Response(r) \in OwnResponse(r)
      BY <1>1, <1>2, <2>3, OwnInFlight DEF Response
    <3>2. HeaderRefused(r) => r \in sealed
      BY <3>1 DEF HeaderRefused, OwnResponse, ResponseOf
    <3>3. ErrorsIn(r)'
      BY <2>1, <2>3, <3>1, <3>2 DEF ErrorsIn
    <3>4. EarlyCall(r)'
      <4>1. InFlight(r) => (ctx[call[r].ctx].thrown = None <=> errorsOf[r] = {})
        BY DEF EarlyInv, EarlyCall
      <4> QED BY <1>1, <2>3, <3>3, <4>1 DEF EarlyCall, ProgressShape
    <3> QED BY <1>1, <2>1, <3>4, EarlyProgress
  <2>4. ASSUME NEW fails \in BOOLEAN, SerializeBinary(r, k, fails)
        PROVE  EarlyInv'
    <3> DEFINE resp == [Response(r) EXCEPT !.attached = Attached(r),
                          !.bin = IF fails THEN @ ELSE ReturnedBy(r, ReturnedIndexes(r))]
    <3>1. UNCHANGED <<ctx, errorsOf>> /\ heap' = [heap EXCEPT ![call[r].resp] = resp]
      BY <2>4 DEF SerializeBinary, Response
    <3>2. resp.serializer = "binary"
      <4>1. Response(r) \in OwnResponse(r) /\ Response(r).serializer = "binary"
        BY <1>1, <2>4, OwnInFlight DEF SerializeBinary
      <4> QED BY <4>1 DEF OwnResponse, ResponseOf
    <3> HIDE DEF resp
    <3> QED BY <2>3, <3>1, <3>2
  <2>5. CASE SerializeRefused(r, k)
    <3> DEFINE resp == [Response(r) EXCEPT !.attached = Attached(r)]
    <3>1. UNCHANGED <<ctx, errorsOf>> /\ heap' = [heap EXCEPT ![call[r].resp] = resp] /\ HeaderRefused(r)
      BY <2>5 DEF SerializeRefused, Response
    <3> HIDE DEF resp
    <3> QED BY <2>3, <3>1
  <2> QED BY <1>9, <2>2, <2>4, <2>5 DEF CallSerialize
<1> QED BY <1>6, <1>7, <1>8, <1>9

\* A request that ends has been through the serializer, or is rejected.
LEMMA EarlyEnd ==
  ASSUME EarlyInv, NEW r \in Requests, NEW pc, EndShape(r, pc), OwnInv', UNCHANGED sealed,
         pc = "delivered" => Serialized(r) /\ call'[r].chain = call[r].chain
  PROVE  EarlyInv'
<1>1. /\ OwnInv /\ HeapInv /\ InFlight(r) /\ HasResponse(r) /\ errorsOf' = errorsOf
      /\ call'[r].pc = pc /\ pc \in {"rejected", "delivered"}
      /\ \A q \in Requests \ {r} : call'[q] = call[q]
  BY DEF EarlyInv, OwnInv, EndShape, OthersKeepCalls, HasResponse
<1>2. /\ \A q \in Requests : call[q].resp \in Responses => heap'[call[q].resp] = heap[call[q].resp]
      /\ \A c \in Contexts \ {call[r].ctx} : ctx'[c] = ctx[c]
  <2>1. CASE heap' = heap /\ ctx' = ctx
    BY <2>1
  <2>2. ASSUME NEW o \in New(FreshResponses), heap' = [heap EXCEPT ![o] = Fresh(None, "json")],
               ctx' = [ctx EXCEPT ![call[r].ctx] = [thrown |-> None, response |-> o]]
        PROVE  /\ \A q \in Requests : call[q].resp \in Responses => heap'[call[q].resp] = heap[call[q].resp]
               /\ \A c \in Contexts \ {call[r].ctx} : ctx'[c] = ctx[c]
    <3>1. o \in FreshResponses
      BY NewIsFresh
    <3>2. \A q \in Requests : call[q].resp # o
      BY <3>1 DEF FreshResponses
    <3>3. ctx \in [Contexts -> Shell] /\ heap = [x \in Responses |-> heap[x]]
      BY <1>1 DEF HeapInv, HeapTypes, IsFunctionOn
    <3> QED BY <2>2, <3>2, <3>3
  <2> QED BY <2>1, <2>2 DEF EndShape, ReleaseContext
<1>3. ASSUME NEW q \in Requests \ {r} PROVE EarlyCall(q)'
  <2>1. HasResponse(q) => call[q].resp \in Responses
    BY <1>1 DEF HeapInv, ResponseExclusive
  <2>2. InFlight(q) => call[q].ctx \in Contexts \ {call[r].ctx}
    BY <1>1 DEF HeapInv, HoldsOwn, ContextExclusive
  <2> QED BY <1>1, <1>2, <2>1, <2>2, OtherEarlyKept DEF EarlyInv
<1>4. CASE pc = "rejected"
  <2>1. ~InFlight(r)' /\ ~HasResponse(r)'
    BY <1>1, <1>4 DEF InFlight, HasResponse, Delivered
  <2>2. EarlyCall(r)'
    BY <2>1 DEF EarlyCall
  <2> QED BY <1>3, <2>2 DEF EarlyInv
<1>5. CASE pc = "delivered"
  <2>1. /\ call'[r].resp = call[r].resp /\ call'[r].chain = call[r].chain
        /\ call[r].resp \in Responses /\ ErrorsIn(r) /\ ~InFlight(r)'
    BY <1>1, <1>5, OwnInFlight DEF EndShape, EarlyInv, EarlyCall, InFlight
  <2>2. Response(r)' = Response(r)
    BY <1>2, <2>1 DEF Response
  <2>3. Payload(r)' = Payload(r)
    BY <1>1, <2>2, PayloadKept
  <2>4. \A e : Precedes(r, e)' <=> Precedes(r, e)
    BY <2>1, ChainKept
  <2>5. ErrorsIn(r)'
    BY <1>1, <2>1, <2>2, <2>3, <2>4 DEF ErrorsIn, ErrorsConverted
  <2>6. EarlyCall(r)'
    BY <2>1, <2>5 DEF EarlyCall
  <2> QED BY <1>3, <2>6 DEF EarlyInv
<1> QED BY <1>1, <1>4, <1>5

\* What runExecutionChain does with a result or an exception.
LEMMA EarlySettles ==
  ASSUME EarlyInv, NEW r \in Requests, Settle(r)
  PROVE  EarlyInv'
<1>1. /\ OwnInv /\ OwnInv' /\ InFlight(r) /\ call[r].pc = "awaiting"
      /\ ProgressShape(r) \/ EndShape(r, "rejected")
  BY SettleKeepsOwn, SettleHasShape
     DEF EarlyInv, OwnInv, ProgressShape, EndShape, Settle, SettleWithoutValue, SettleWithValue,
         SettleWithError, Reject
<1>2. /\ HasResponse(r) /\ call[r].chain \in Chains /\ call \in [Requests -> CallRecord]
      /\ call[r] \in CallRecord /\ Response(r) \in OwnResponse(r) /\ call[r].resp \in Responses
      /\ call[r].i \in DOMAIN Methods(r) /\ heap \in [Responses -> AnyResponse]
  BY <1>1, OwnInFlight DEF HeapInv, HeapTypes, HoldsOwn
<1>3. /\ SerializerIndex(r) \in DOMAIN Methods(r) /\ SerializerIndex(r) \in Nat
      /\ DOMAIN Methods(r) \subseteq Nat
      /\ \A j, k \in DOMAIN Methods(r) : j < SerializerIndex(r) /\ SerializerIndex(r) <= k =>
           Methods(r)[j].id # Methods(r)[k].id
      /\ Methods(r) \in Seq(Method)
  BY <1>2, SerializerFound, MethodsTyped
<1>4. ASSUME Continue(r)
      PROVE  /\ ProgressShape(r) /\ call'[r].resp = call[r].resp /\ call'[r].chain = call[r].chain
             /\ Serialized(r)' => SerializerIndex(r) <= call[r].i /\ Serialized(r)
  <2>1. call'[r].pc = "running" /\ call'[r].i = call[r].i + 1
    BY <1>2, <1>4 DEF Continue, CallRecord
  <2>2. ProgressShape(r)
    BY <1>1, <2>1 DEF EndShape
  <2>3. call'[r].resp = call[r].resp /\ call'[r].chain = call[r].chain
    BY <2>2 DEF ProgressShape
  <2>4. SerializerIndex(r)' = SerializerIndex(r)
    BY <2>3, ChainKept
  <2>5. Serialized(r)' => SerializerIndex(r) < call[r].i + 1
    BY <2>1, <2>4 DEF Serialized, Delivered
  <2>6. call[r].i \in Nat
    BY <1>2, <1>3
  <2>7. SerializerIndex(r) < call[r].i + 1 => SerializerIndex(r) <= call[r].i
    BY <1>3, <2>6
  <2>8. SerializerIndex(r) <= call[r].i => Serialized(r)
    BY <1>1 DEF Serialized
  <2> QED BY <2>2, <2>3, <2>5, <2>7, <2>8
<1>5. CASE SettleWithoutValue(r)
  <2>1. Continue(r) /\ UNCHANGED <<ctx, heap, errorsOf, sealed>>
    BY <1>5 DEF SettleWithoutValue
  <2>2. Response(r)' = Response(r)
    BY <1>4, <2>1 DEF Response
  <2>3. Payload(r)' = Payload(r)
    BY <1>1, <1>2, <2>1, <2>2, PayloadKept
  <2> QED BY <1>1, <1>4, <2>1, <2>2, <2>3, EarlyInPlace
<1>6. CASE SettleWithValue(r)
  <2> DEFINE new == [id |-> Current(r).id, req |-> r]
             resp == [Response(r) EXCEPT !.body = @ \cup {new}]
  <2>1. /\ Continue(r) /\ UNCHANGED <<ctx, errorsOf, sealed>>
        /\ heap' = [heap EXCEPT ![call[r].resp] = resp]
    BY <1>6 DEF SettleWithValue, Response
  <2>2. Response(r)' = resp
    BY <1>2, <1>4, <2>1 DEF Response
  <2>3. /\ resp.body = Response(r).body \cup {new} /\ resp.serializer = Response(r).serializer
        /\ resp.raw = Response(r).raw /\ resp.bin = Response(r).bin
        /\ resp.attached = Response(r).attached
        /\ resp.serializer \in Modes
    <3> HIDE DEF new
    <3> QED BY <1>2 DEF OwnResponse, ResponseOf
  <2> HIDE DEF resp, new
  <2>4. Payload(r) \subseteq Payload(r)'
    <3>1. CASE resp.serializer = "json"
      BY <2>1, <2>2, <2>3, <3>1 DEF Payload
    <3>2. CASE resp.serializer # "json"
      BY <2>1, <2>2, <2>3, <3>2 DEF Payload, Modes
    <3> QED BY <3>1, <3>2
  <2> QED BY <1>1, <1>4, <2>1, <2>2, <2>3, <2>4, EarlyInPlace
<1>7. CASE SettleWithError(r)
  <2> DEFINE error == [id |-> Current(r).id, req |-> r, during |-> "run"]
             errs == <<error>>
  <2>1. Continue(r) /\ UNCHANGED sealed /\ RecordErrors(r, Response(r), errs)
    BY <1>7 DEF SettleWithError
  <2>2. error \in ErrorsBy(r)
    <3>1. Methods(r)[call[r].i] \in Method
      BY <1>2, <1>3
    <3> QED BY <3>1 DEF ErrorsBy, Current, Method
  <2>3. /\ errs \in Seq(ErrorsBy(r)) /\ errs # << >> /\ {errs[k] : k \in DOMAIN errs} = {error}
        /\ error.id = Methods(r)[call[r].i].id
    <3>1. error.id = Methods(r)[call[r].i].id
      BY DEF Current
    <3> HIDE DEF error
    <3> QED BY <2>2, <3>1
  <2> HIDE DEF errs, error
  <2>4. /\ errorsOf'[r] = ErrorsAfter(r, errs) /\ (ErrorsConverted(r)' => ErrorsConverted(r))
        /\ ctx'[call[r].ctx].thrown # None /\ errorsOf'[r] # {}
        /\ heap'[call[r].resp] = Failed(Response(r), errs)
    BY <1>1, <2>1, <2>3, ErrorsRecorded
  <2>5. /\ (Response(r)').body = Response(r).body /\ (Response(r)').serializer = Response(r).serializer
        /\ (Response(r)').raw = Response(r).raw /\ (Response(r)').attached = Response(r).attached
        /\ Response(r).attached \in {r, None} /\ Response(r).serializer \in Modes
    <3>1. Response(r)' = Failed(Response(r), errs)
      BY <1>4, <2>1, <2>4 DEF Response
    <3> QED BY <1>2, <3>1 DEF Failed, OwnResponse, ResponseOf
  <2>6. Serialized(r)' => ErrorsIn(r)'
    <3> SUFFICES ASSUME Serialized(r)', r \notin sealed, (Response(r)').serializer # "binary",
                        ErrorsConverted(r)', NEW e \in errorsOf'[r], e.during = "run", Precedes(r, e)'
                 PROVE  e \in Payload(r)'
      BY <2>1 DEF ErrorsIn
    <3>1. SerializerIndex(r) <= call[r].i /\ Serialized(r) /\ Precedes(r, e)
      BY <1>4, <2>1, ChainKept
    <3>2. PICK j \in 1..(SerializerIndex(r) - 1) : Methods(r)[j].id = e.id
      BY <3>1 DEF Precedes
    <3>3. j \in DOMAIN Methods(r) /\ j < SerializerIndex(r)
      BY <1>3, <3>2
    <3>4. e.id # error.id
      BY <1>2, <1>3, <2>3, <3>1, <3>2, <3>3
    <3>5. e \in errorsOf[r]
      BY <2>3, <2>4, <3>4 DEF ErrorsAfter
    <3>6. e \in Payload(r)
      BY <1>2, <2>4, <2>5, <3>1, <3>5 DEF EarlyInv, EarlyCall, ErrorsIn
    <3>7. CASE Response(r).serializer = "json"
      BY <2>5, <3>6, <3>7 DEF Payload
    <3>8. CASE Response(r).serializer = "stringifyJson"
      BY <2>5, <3>6, <3>8 DEF Payload
    <3> QED BY <2>5, <3>7, <3>8 DEF Modes
  <2>7. EarlyCall(r)'
    <3>1. call'[r].ctx = call[r].ctx
      BY <1>4, <2>1 DEF ProgressShape
    <3> QED BY <2>4, <2>6, <3>1 DEF EarlyCall
  <2> QED BY <1>1, <1>4, <2>1, <2>7, EarlyProgress
<1>8. CASE Reject(r)
  <2>1. call'[r].pc = "rejected" /\ UNCHANGED sealed
    BY <1>2, <1>8 DEF Reject, CallRecord
  <2>2. EndShape(r, "rejected")
    BY <1>1, <2>1 DEF ProgressShape
  <2> QED BY <1>1, <2>1, <2>2, EarlyEnd
<1> QED BY <1>5, <1>6, <1>7, <1>8 DEF Settle

\* A request that starts has thrown nothing yet, and its serializer has not run.
LEMMA EarlyStart ==
  ASSUME EarlyInv, NEW r \in Requests, NEW c, NEW o, StartShape(r, c, o)
  PROVE  EarlyInv'
<1>1. OwnInv /\ OwnInv' /\ HeapTypes
  BY StartKeepsOwn DEF EarlyInv, OwnInv, HeapInv
<1>2. PICK chain \in Chains : Start(r, c, o, chain)
  BY DEF StartShape
<1>3. /\ call[r].pc = "new" /\ o \in Responses /\ c \in Contexts
      /\ \A q \in Requests : HasResponse(q) => call[q].resp # o
      /\ \A q \in Requests : InFlight(q) => call[q].ctx # c
  BY DEF StartShape, UsedContexts
<1>4. /\ call'[r].pc = "running" /\ call'[r].i = 1 /\ call'[r].chain = chain /\ call'[r].ctx = c
      /\ \A q \in Requests \ {r} : call'[q] = call[q]
  BY <1>1, <1>2 DEF Start, HeapTypes
<1>5. UNCHANGED <<errorsOf, sealed>>
  BY <1>2 DEF Start
<1>6. ctx'[c].thrown = None /\ \A x \in Contexts \ {c} : ctx'[x] = ctx[x]
  BY <1>1, <1>2, <1>3 DEF Start, HeapTypes
<1>7. \A x \in Responses \ {o} : heap'[x] = heap[x]
  BY <1>1, <1>2, <1>3 DEF Start, HeapTypes, IsFunctionOn
<1>8. ASSUME NEW q \in Requests \ {r} PROVE EarlyCall(q)'
  <2>1. HasResponse(q) => call[q].resp \in Responses \ {o}
    BY <1>1, <1>3 DEF OwnInv, HeapInv, ResponseExclusive
  <2>2. InFlight(q) => call[q].ctx \in Contexts \ {c}
    BY <1>1, <1>3 DEF OwnInv, HeapInv, HoldsOwn
  <2> QED BY <1>1, <1>4, <1>5, <1>6, <1>7, <2>1, <2>2, OtherEarlyKept DEF EarlyInv
<1>9. EarlyCall(r)'
  <2>1. errorsOf'[r] = {}
    BY <1>1, <1>3, <1>5 DEF OwnInv, OwnCall
  <2>2. SerializerIndex(r)' \in DOMAIN Methods(r)' /\ DOMAIN Methods(r)' = 1..Len(chain.methods)
    <3>1. PICK s \in DOMAIN chain.methods : SerializesAt(chain, s)
      BY SerializerAssumption
    <3>2. Methods(r)' = chain.methods
      BY <1>4 DEF Methods
    <3>3. SerializerIndex(r)' = CHOOSE k \in DOMAIN chain.methods : chain.methods[k].kind = "serialize"
      BY <3>2 DEF SerializerIndex
    <3>4. chain.methods[s].kind = "serialize"
      BY <3>1 DEF SerializesAt
    <3>5. chain.methods \in Seq(Method)
      BY ChainsAssumption DEF Chain
    <3> QED BY <3>1, <3>2, <3>3, <3>4, <3>5
  <2>3. SerializerIndex(r)' \in 1..Len(chain.methods) /\ Len(chain.methods) \in Nat
    <3>1. chain.methods \in Seq(Method)
      BY ChainsAssumption DEF Chain
    <3> QED BY <2>2, <3>1
  <2>4. ~(SerializerIndex(r)' < 1)
    BY <2>3
  <2>5. ~Serialized(r)'
    BY <1>4, <2>4 DEF Serialized, Delivered
  <2> QED BY <1>4, <1>6, <2>1, <2>5 DEF EarlyCall
<1> QED BY <1>1, <1>8, <1>9 DEF EarlyInv

\* The actions that neither start, go on nor end.
LEMMA EarlyQuiet ==
  ASSUME EarlyInv, NEW r \in Requests, AcquireFails(r) \/ Reply(r) \/ AnswerEarly(r)
  PROVE  EarlyInv'
<1>1. OwnInv /\ OwnInv' /\ call \in [Requests -> CallRecord] /\ sealed \subseteq sealed'
  <2>1. sealed \subseteq sealed'
    BY DEF AcquireFails, Reply, AnswerEarly
  <2> QED BY <2>1, QuietKeepsOwn DEF EarlyInv, OwnInv, HeapInv, HeapTypes
<1>2. UNCHANGED <<ctx, heap, errorsOf>>
  BY DEF AcquireFails, Reply, AnswerEarly
<1>3. \A q \in Requests \ {r} : call'[q] = call[q]
  BY <1>1 DEF AcquireFails, Reply, AnswerEarly
<1>4. ASSUME NEW q \in Requests, call'[q] = call[q] PROVE EarlyCall(q)'
  BY <1>1, <1>2, <1>4, OtherEarlyKept DEF EarlyInv
<1>5. EarlyCall(r)'
  <2>1. CASE AcquireFails(r) \/ Reply(r)
    <3>1. call'[r].pc \in {"rejected", "replied"}
      BY <1>1, <2>1 DEF AcquireFails, Reply, CallRecord
    <3> QED BY <3>1 DEF EarlyCall, HasResponse, InFlight, Delivered
  <2>2. CASE AnswerEarly(r)
    BY <1>4, <2>2 DEF AnswerEarly
  <2> QED BY <2>1, <2>2
<1> QED BY <1>1, <1>3, <1>4, <1>5 DEF EarlyInv

\* A chain that is done has been through its serializer.
LEMMA EarlyCompletes ==
  ASSUME EarlyInv, NEW r \in Requests, Complete(r)
  PROVE  EarlyInv'
<1>1. OwnInv /\ HeapInv /\ call \in [Requests -> CallRecord] /\ call[r].pc = "running"
  BY DEF EarlyInv, OwnInv, HeapInv, HeapTypes, Complete
<1>2. EndShape(r, "delivered") /\ UNCHANGED <<header, sealed>>
  BY <1>1, CompleteEnds DEF Complete
<1>3. OwnInv'
  BY <1>1, <1>2, EndKeepsOwn
<1>4. SerializerIndex(r) < call[r].i
  BY <1>1, SerializerNotSkipped DEF Complete
<1>5. Serialized(r) /\ call'[r].chain = call[r].chain
  BY <1>1, <1>4 DEF Serialized, Complete, CallRecord
<1> QED BY <1>2, <1>3, <1>5, EarlyEnd

\* Nobody has thrown anything at first.
LEMMA EarlyInit == Init => EarlyInv
<1> SUFFICES ASSUME Init, NEW r \in Requests PROVE OwnInv /\ EarlyCall(r)
  BY OwnInit DEF EarlyInv
<1>1. call[r].pc = "new"
  BY DEF Init, NoCall
<1> QED BY <1>1, OwnInit DEF EarlyCall, HasResponse, InFlight, Delivered

\* Every step keeps the invariant.
LEMMA EarlyStep ==
  ASSUME EarlyInv, [Next]_vars
  PROVE  EarlyInv'
<1>1. CASE UNCHANGED vars
  <2>1. OwnInv'
    BY OwnStep DEF EarlyInv
  <2>2. \A r \in Requests : EarlyCall(r)'
    BY <1>1, OtherEarlyKept DEF vars, EarlyInv
  <2> QED BY <2>1, <2>2 DEF EarlyInv
<1>2. ASSUME NEW r \in Requests, Acquire(r) PROVE EarlyInv'
  <2>1. CASE AcquireFails(r)
    BY <2>1, EarlyQuiet
  <2>2. ASSUME NEW chain \in Chains, AcquirePooled(r, chain) \/ AcquireNew(r, chain)
        PROVE  EarlyInv'
    <3>1. \E c, o : StartShape(r, c, o)
      BY <2>2, AcquireStarts DEF EarlyInv, OwnInv
    <3> QED BY <3>1, EarlyStart
  <2> QED BY <1>2, <2>1, <2>2 DEF Acquire
<1> QED BY <1>1, <1>2, EarlyCalls, EarlySettles, EarlyCompletes, EarlyQuiet DEF Next

\* The invariant holds in every state.
LEMMA EarlyInductive == Spec => []EarlyInv
<1>1. EarlyInv /\ [Next]_vars => EarlyInv'
  BY EarlyStep
<1> QED BY EarlyInit, <1>1, PTL DEF Spec

\* On the JSON lanes what a method threw before mionSerializeResponse ran is in the
\* answer, whatever throws, whatever can not be converted, and whichever methods of
\* the chain run on errors (serializer.routes.ts:75-95).
THEOREM EarlyErrorsReachClient == Spec => []EarlyErrorsReturned
<1>1. EarlyInv => EarlyErrorsReturned
  BY DEF EarlyInv, EarlyCall, ErrorsIn, Serialized, HasResponse, EarlyErrorsReturned
<1> QED BY <1>1, EarlyInductive, PTL

-----------------------------------------------------------------------------
(***************************************************************************)
(* The adapters.                                                           *)
(***************************************************************************)

\* Ending a response is AnswerEarly, or changes nothing if it was ended before.
LEMMA SealingSteps ==
  ASSUME NEW r \in Requests, sealed' = sealed \cup {r} \/ UNCHANGED sealed,
         UNCHANGED <<pool, ctx, heap, errorsOf, header, call>>
  PROVE  [Next]_vars
<1>1. CASE r \notin sealed /\ sealed' = sealed \cup {r}
  BY <1>1 DEF AnswerEarly, Next
<1>2. CASE UNCHANGED sealed
  BY <1>2 DEF vars
<1>3. CASE r \in sealed /\ sealed' = sealed \cup {r}
  <2>1. sealed' = sealed
    BY <1>3
  <2> QED BY <2>1 DEF vars
<1> QED BY <1>1, <1>2, <1>3

\* Dropping the response that was delivered is Reply.
LEMMA ConsumingSteps ==
  ASSUME NEW r \in Requests, Delivered(r), Consumed(r), sealed' = sealed \cup {r} \/ UNCHANGED sealed
  PROVE  [Next]_vars
<1>1. sealed' \in {sealed, sealed \cup {r}}
  OBVIOUS
<1>2. Reply(r)
  BY <1>1 DEF Consumed, Reply
<1> QED BY <1>2 DEF Next

\* What the chain does is the chain's own step.
LEMMA RunningSteps ==
  ASSUME NEW r \in Requests, Run(r)
  PROVE  [Next]_vars
BY DEF Run, Next

\* node: an answer of the adapter's own.
LEMMA NodeAnswers ==
  ASSUME NEW r \in Requests, NEW h, AnswerByAdapter(r, h)
  PROVE  [Next]_vars
<1>1. sealed' = sealed \cup {r} \/ UNCHANGED sealed
  BY DEF AnswerByAdapter, FatalFail, Ends
<1> QED BY <1>1, SealingSteps DEF AnswerByAdapter

\* node: the promise of dispatchRoute settled.
LEMMA NodeResumes ==
  ASSUME NEW r \in Requests, Resume(r)
  PROVE  [Next]_vars
<1>1. CASE ResolvedTooLate(r)
  BY <1>1, ConsumingSteps DEF ResolvedTooLate
<1>2. CASE ReplyJson(r)
  BY <1>2, ConsumingSteps DEF ReplyJson, Ends
<1>3. CASE ReplyBinary(r)
  BY <1>3, ConsumingSteps DEF ReplyBinary, Ends
<1>4. CASE ReplyThrows(r)
  BY <1>4, ConsumingSteps DEF ReplyThrows
<1>5. CASE DispatchRejected(r)
  <2>1. sealed' = sealed \cup {r} \/ UNCHANGED sealed
    BY <1>5 DEF DispatchRejected, FatalFail, Ends
  <2> QED BY <1>5, <2>1, SealingSteps DEF DispatchRejected
<1> QED BY <1>1, <1>2, <1>3, <1>4, <1>5 DEF Resume

\* Every step of node's adapter.
LEMMA NodeSteps ==
  ASSUME HttpNext
  PROVE  [Next]_vars
<1>1. CASE AllOver
  BY <1>1 DEF AllOver, allVars, vars
<1>2. ASSUME NEW r \in Requests, PayloadTooLarge(r) PROVE [Next]_vars
  BY <1>2, NodeAnswers DEF PayloadTooLarge
<1>3. ASSUME NEW r \in Requests, RequestError(r) PROVE [Next]_vars
  BY <1>3, NodeAnswers DEF RequestError
<1>4. ASSUME NEW r \in Requests, ResponseError(r) PROVE [Next]_vars
  BY <1>4, NodeAnswers DEF ResponseError
<1>5. ASSUME NEW r \in Requests, RequestEnd(r) PROVE [Next]_vars
  BY <1>5 DEF RequestEnd, Next
<1>6. ASSUME NEW r \in Requests, HandlerEnds(r) PROVE [Next]_vars
  BY <1>6, SealingSteps DEF HandlerEnds, Ends
<1>7. ASSUME NEW r \in Requests, QueryUnreadable(r) \/ Finish(r) \/ Close(r) \/ Collect(r)
      PROVE  [Next]_vars
  BY <1>7 DEF QueryUnreadable, Finish, Close, Collect
<1> QED BY <1>1, <1>2, <1>3, <1>4, <1>5, <1>6, <1>7, RunningSteps, NodeResumes DEF HttpNext

\* Every step of the other adapters.
LEMMA HandlerSteps ==
  ASSUME NEW r \in Requests, Handles(r)
  PROVE  [Next]_vars
<1> DEFINE Seals == sealed' = sealed \cup {r} \/ UNCHANGED sealed
<1>1. ASSUME NEW what, Hands(r, what) PROVE Seals
  BY <1>1 DEF Hands, Ends
<1>2. ASSUME HandsNothing(r) PROVE Seals
  BY <1>2 DEF HandsNothing
<1>3. ASSUME Fail(r) PROVE Seals
  BY <1>1, <1>2, <1>3 DEF Fail
<1>4. CASE Unreadable(r)
  <2>1. Seals
    BY <1>1, <1>2, <1>4 DEF Unreadable
  <2> QED BY <1>4, <2>1, SealingSteps DEF Unreadable
<1>5. CASE Dispatches(r)
  BY <1>5 DEF Dispatches, Next
<1>6. CASE Works(r)
  <2>1. CASE Run(r)
    BY <2>1, RunningSteps
  <2>2. CASE HandlerEnds(r)
    BY <2>2, SealingSteps DEF HandlerEnds, Ends
  <2> QED BY <1>6, <2>1, <2>2 DEF Works
<1>7. CASE Replies(r)
  <2>1. Seals
    BY <1>1, <1>7 DEF Replies
  <2> QED BY <1>7, <2>1, ConsumingSteps DEF Replies, Resolves
<1>8. CASE ReplyFails(r)
  <2>1. Seals
    BY <1>3, <1>8 DEF ReplyFails
  <2> QED BY <1>8, <2>1, ConsumingSteps DEF ReplyFails, Resolves
<1>9. CASE DispatchFails(r)
  <2>1. Seals
    BY <1>3, <1>9 DEF DispatchFails
  <2> QED BY <1>9, <2>1, SealingSteps DEF DispatchFails
<1>10. CASE Dropped(r)
  BY <1>10 DEF Dropped
<1> QED BY <1>4, <1>5, <1>6, <1>7, <1>8, <1>9, <1>10 DEF Handles

\* What every adapter does is, for Dispatch, a step of its environment or its own.
LEMMA PlatformSteps ==
  ASSUME [PlatformNext]_platformVars
  PROVE  [Next]_vars
<1>1. CASE UNCHANGED platformVars
  BY <1>1 DEF platformVars, allVars
<1>2. CASE PlatformNext
  <2>1. CASE HttpNext
    BY <2>1, NodeSteps
  <2>2. ASSUME NEW r \in Requests, Handles(r) PROVE [Next]_vars
    BY <2>2, HandlerSteps
  <2>3. CASE Over
    BY <2>3 DEF Over, platformVars, allVars
  <2> QED BY <1>2, <2>1, <2>2, <2>3 DEF PlatformNext
<1> QED BY <1>1, <1>2

\* Node, Bun, AWS Lambda, Google Cloud Functions, Cloudflare and Vercel use dispatch
\* as Dispatch supposes: every behaviour of theirs is one of Dispatch.
THEOREM PlatformsKeepToDispatch == PlatformSpec => PlatformsImplementDispatch
<1>1. PlatformInit => Init
  BY DEF PlatformInit, HttpInit
<1> QED BY <1>1, PlatformSteps, PTL DEF PlatformSpec, Spec, PlatformsImplementDispatch

\* So on every platform a call context serves one request at a time.
THEOREM ContextsExclusiveEverywhere == PlatformSpec => []ContextExclusive
BY PlatformsKeepToDispatch, ContextsExclusive, PTL DEF PlatformsImplementDispatch

\* And on every platform a response that was delivered stays as it is while the
\* adapter reads it.
THEOREM ResponsesFrozenEverywhere == PlatformSpec => DeliveredFrozen
BY PlatformsKeepToDispatch, ResponsesFrozen, PTL DEF PlatformsImplementDispatch
-----------------------------------------------------------------------------
(* The streams and the loans: who may end a response, who may hold a buffer. *)

HttpRecord ==
  [request : {"receiving", "ended", "failed"}, awaiting : BOOLEAN, replied : BOOLEAN, ends : Nat,
   finished : BOOLEAN, closed : BOOLEAN, onDone : BOOLEAN, sending : Buffers \cup {NoBuffer}]

\* A payload is sent from the buffer its request borrowed, by a request that is
\* over for Dispatch (so no step of the chain lends it another one) and whose
\* adapter's function has returned, on a socket that is open (so nothing collects it).
SendsFromOwn(r) ==
  http[r].sending # NoBuffer =>
    /\ lent[r] = http[r].sending
    /\ call[r].pc = "replied" /\ ~http[r].awaiting /\ ~http[r].closed

LoansExclusive ==
  \A r, q \in Requests : r # q /\ lent[r] # NoBuffer => lent[q] # lent[r]

HttpInv ==
  /\ http \in [Requests -> HttpRecord]
  /\ lent \in [Requests -> Buffers \cup {NoBuffer}]
  /\ LoansExclusive
  /\ \A r \in Requests : SendsFromOwn(r)
  /\ OneAnswer

\* Outside node nothing is sent after the handler returned, and the response is
\* ended by the one step that settles the handler, unless a raw middleFn has it.
AdapterInv ==
  /\ platform \in Served
  /\ outcome \in [Requests -> {"reading", "dispatching", "replied", "failed", "rejected"}]
  /\ platform = "node" => \A r \in Requests : outcome[r] = "reading"
  /\ platform # "node" => \A r \in Requests :
       /\ outcome[r] = "reading" => call[r].pc = "new" /\ http[r].ends = 0
       /\ outcome[r] = "dispatching" => http[r].ends = 0 \/ SharesResponse
       /\ http[r].sending = NoBuffer
  /\ RejectsOnlyUnread

\* A request that is over stays over.
LEMMA RepliedStays ==
  ASSUME HeapInv, [Next]_vars, NEW q \in Requests, call[q].pc = "replied"
  PROVE  call'[q].pc = "replied"
<1>1. ASSUME NEW r \in Requests, OthersKeepCalls(r), call[r].pc # "replied"
      PROVE  call'[q].pc = "replied"
  BY <1>1 DEF OthersKeepCalls
<1>2. ASSUME NEW r \in Requests, ProgressShape(r) \/ EndShape(r, "rejected") \/ EndShape(r, "delivered")
      PROVE  call'[q].pc = "replied"
  BY <1>1, <1>2 DEF ProgressShape, EndShape, InFlight
<1>3. ASSUME NEW r \in Requests, Acquire(r) PROVE call'[q].pc = "replied"
  <2>1. call[r].pc = "new" /\ \E new : call' = [call EXCEPT ![r] = new]
    BY <1>3 DEF Acquire, AcquirePooled, AcquireNew, AcquireFails, Start
  <2> QED BY <2>1 DEF HeapInv, HeapTypes
<1>4. ASSUME NEW r \in Requests, Reply(r) \/ AnswerEarly(r) PROVE call'[q].pc = "replied"
  BY <1>4 DEF Reply, AnswerEarly, Delivered, HeapInv, HeapTypes, CallRecord
<1> QED BY <1>2, <1>3, <1>4, CallProgresses, SettleHasShape, CompleteEnds DEF Next, vars

\* A step of one request changes its own record and its own loan, and keeps what
\* it sends from its own buffer.
LEMMA OwnStreamsOnly ==
  ASSUME HeapInv, HttpInv, [Next]_vars, NEW r \in Requests, NEW h \in HttpRecord,
         http' = [http EXCEPT ![r] = h], h.ends <= 1,
         \/ lent' = lent
         \/ lent' = [lent EXCEPT ![r] = NoBuffer]
         \/ \E b \in Buffers : Loan!Lend(r, b),
         h.sending # NoBuffer =>
           /\ lent'[r] = h.sending
           /\ call'[r].pc = "replied" /\ ~h.awaiting /\ ~h.closed
  PROVE  HttpInv'
<1>1. /\ http \in [Requests -> HttpRecord] /\ lent \in [Requests -> Buffers \cup {NoBuffer}]
      /\ LoansExclusive
  BY DEF HttpInv
<1>2. http' \in [Requests -> HttpRecord] /\ http'[r] = h /\ \A q \in Requests \ {r} : http'[q] = http[q]
  BY <1>1
<1>3. /\ lent' \in [Requests -> Buffers \cup {NoBuffer}] /\ LoansExclusive'
      /\ \A q \in Requests \ {r} : lent'[q] = lent[q]
  <2>1. CASE lent' = lent
    BY <1>1, <2>1 DEF LoansExclusive
  <2>2. CASE lent' = [lent EXCEPT ![r] = NoBuffer]
    BY <1>1, <2>2 DEF LoansExclusive
  <2>3. ASSUME NEW b \in Buffers, Loan!Lend(r, b)
        PROVE  /\ lent' \in [Requests -> Buffers \cup {NoBuffer}] /\ LoansExclusive'
               /\ \A q \in Requests \ {r} : lent'[q] = lent[q]
    <3>1. lent' = [lent EXCEPT ![r] = b] /\ \A q \in Requests : lent[q] # b
      BY <2>3 DEF Loan!Lend
    <3> QED BY <1>1, <3>1 DEF LoansExclusive
  <2> QED BY <2>1, <2>2, <2>3
<1>4. ASSUME NEW q \in Requests PROVE SendsFromOwn(q)'
  <2>1. CASE q = r
    BY <1>2, <2>1 DEF SendsFromOwn
  <2>2. CASE q # r
    <3>1. SendsFromOwn(q) /\ http'[q] = http[q] /\ lent'[q] = lent[q]
      BY <1>2, <1>3, <2>2 DEF HttpInv
    <3> QED BY <3>1, RepliedStays DEF SendsFromOwn
  <2> QED BY <2>1, <2>2
<1>5. OneAnswer'
  BY <1>2 DEF HttpInv, OneAnswer
<1> QED BY <1>2, <1>3, <1>4, <1>5 DEF HttpInv

\* Such a step that leaves the loans, the calls and what is being sent alone.
LEMMA OwnRecordOnly ==
  ASSUME HeapInv, HttpInv, [Next]_vars, NEW r \in Requests, NEW h \in HttpRecord,
         http' = [http EXCEPT ![r] = h], h.ends <= 1, UNCHANGED lent,
         \/ h.sending = NoBuffer
         \/ h.sending = http[r].sending /\ h.awaiting = http[r].awaiting /\ h.closed = http[r].closed
  PROVE  HttpInv'
<1>1. SendsFromOwn(r) /\ (http[r].sending # NoBuffer => call'[r].pc = "replied")
  BY RepliedStays DEF HttpInv, SendsFromOwn
<1> QED BY <1>1, OwnStreamsOnly DEF SendsFromOwn

\* Until a request is over for Dispatch it sends nothing from a buffer.
LEMMA SendsNothingYet ==
  ASSUME HttpInv, NEW r \in Requests, call[r].pc # "replied"
  PROVE  http[r].sending = NoBuffer
BY DEF HttpInv, SendsFromOwn

\* httpResponse.end, by a step that checked that nobody has ended the response.
LEMMA EndsOnce ==
  ASSUME HttpInv, NEW r \in Requests, ~WritableEnded(r), NEW h \in HttpRecord, h.ends = http[r].ends
  PROVE  LET ended == [h EXCEPT !.ends = @ + 1]
         IN /\ ended \in HttpRecord /\ ended.ends <= 1 /\ ended.sending = h.sending
            /\ ended.awaiting = h.awaiting /\ ended.closed = h.closed
<1>1. http[r] \in HttpRecord
  BY DEF HttpInv
<1>2. h.ends = 0
  BY <1>1 DEF WritableEnded, HttpRecord
<1> QED BY <1>2 DEF HttpRecord

\* The record of a request, and the same with some of its flags set.
LEMMA RecordTyped ==
  ASSUME HttpInv, NEW r \in Requests
  PROVE  /\ http[r] \in HttpRecord /\ http[r].ends <= 1
         /\ \A h \in HttpRecord : [h EXCEPT !.replied = TRUE] \in HttpRecord
         /\ Resumed(r) \in HttpRecord
BY DEF HttpInv, OneAnswer, HttpRecord, Resumed

\* node: an answer of the adapter's own ends the response unless it was ended.
LEMMA AdapterAnswerKeeps ==
  ASSUME HeapInv, HttpInv, [Next]_vars, NEW r \in Requests, NEW h \in HttpRecord, FatalFail(r, h),
         h.ends = http[r].ends, UNCHANGED lent,
         \/ h.sending = NoBuffer
         \/ h.sending = http[r].sending /\ h.awaiting = http[r].awaiting /\ h.closed = http[r].closed
  PROVE  HttpInv'
<1>1. CASE WritableEnded(r)
  <2>1. http' = [http EXCEPT ![r] = h] /\ h.ends <= 1
    BY <1>1, RecordTyped DEF FatalFail
  <2> QED BY <2>1, OwnRecordOnly
<1>2. CASE ~WritableEnded(r)
  <2> DEFINE ended == [h EXCEPT !.ends = @ + 1]
  <2>1. http' = [http EXCEPT ![r] = ended]
    BY <1>2 DEF FatalFail, Ends
  <2>2. /\ ended \in HttpRecord /\ ended.ends <= 1 /\ ended.sending = h.sending
        /\ ended.awaiting = h.awaiting /\ ended.closed = h.closed
    BY <1>2, EndsOnce
  <2> HIDE DEF ended
  <2> QED BY <2>1, <2>2, OwnRecordOnly
<1> QED BY <1>1, <1>2

\* node: the events of the two streams.
LEMMA EventsKeep ==
  ASSUME HeapInv, HttpInv, [Next]_vars, NEW r \in Requests,
         PayloadTooLarge(r) \/ RequestError(r) \/ ResponseError(r) \/ RequestEnd(r) \/ QueryUnreadable(r)
  PROVE  HttpInv'
<1>1. http[r] \in HttpRecord /\ http[r].ends <= 1
  BY RecordTyped
<1> DEFINE failed == [http[r] EXCEPT !.request = "failed"]
           ended == [http[r] EXCEPT !.request = "ended"]
           awaited == [http[r] EXCEPT !.request = "ended", !.awaiting = TRUE]
<1>2. /\ failed \in HttpRecord /\ ended \in HttpRecord /\ awaited \in HttpRecord
      /\ \A h \in {failed, ended} : /\ h.ends = http[r].ends /\ h.sending = http[r].sending
                                    /\ h.awaiting = http[r].awaiting /\ h.closed = http[r].closed
      /\ awaited.ends = http[r].ends /\ awaited.sending = http[r].sending
  BY <1>1 DEF HttpRecord
<1>3. ASSUME NEW h \in {http[r], failed}, AnswerByAdapter(r, h) PROVE HttpInv'
  <2> DEFINE answered == [h EXCEPT !.replied = TRUE]
  <2>1. h \in HttpRecord
    BY <1>1, <1>2
  <2>2. /\ answered \in HttpRecord /\ answered.ends = h.ends /\ answered.sending = h.sending
        /\ answered.awaiting = h.awaiting /\ answered.closed = h.closed
    BY <2>1 DEF HttpRecord
  <2>3. FatalFail(r, answered) /\ UNCHANGED lent
    BY <1>3 DEF AnswerByAdapter
  <2> HIDE DEF answered, failed
  <2>4. h.ends = http[r].ends /\ h.sending = http[r].sending
        /\ h.awaiting = http[r].awaiting /\ h.closed = http[r].closed
    BY <1>2
  <2> QED BY <2>2, <2>3, <2>4, AdapterAnswerKeeps
<1>4. CASE PayloadTooLarge(r) \/ ResponseError(r)
  BY <1>3, <1>4 DEF PayloadTooLarge, ResponseError
<1>5. CASE RequestError(r)
  <2>1. CASE http[r].replied
    <3>1. http' = [http EXCEPT ![r] = failed] /\ UNCHANGED lent
      BY <1>5, <2>1 DEF RequestError
    <3> HIDE DEF failed
    <3> QED BY <1>1, <1>2, <3>1, OwnRecordOnly
  <2>2. CASE ~http[r].replied
    BY <1>3, <1>5, <2>2 DEF RequestError
  <2> QED BY <2>1, <2>2
<1>6. CASE RequestEnd(r)
  <2>1. CASE http[r].replied
    <3>1. http' = [http EXCEPT ![r] = ended] /\ UNCHANGED lent
      BY <1>6, <2>1 DEF RequestEnd
    <3> HIDE DEF ended
    <3> QED BY <1>1, <1>2, <3>1, OwnRecordOnly
  <2>2. CASE ~http[r].replied
    <3>1. Acquire(r) /\ UNCHANGED lent /\ http' = [http EXCEPT ![r] = awaited]
      BY <1>6, <2>2 DEF RequestEnd
    <3>2. call[r].pc = "new"
      BY <3>1 DEF Acquire, AcquirePooled, AcquireNew, AcquireFails
    <3>3. awaited.sending = NoBuffer
      BY <1>2, <3>2, SendsNothingYet
    <3> HIDE DEF awaited
    <3> QED BY <1>1, <1>2, <3>1, <3>3, OwnRecordOnly
  <2> QED BY <2>1, <2>2
<1>7. CASE QueryUnreadable(r)
  <2>1. http' = [http EXCEPT ![r] = ended] /\ UNCHANGED lent
    BY <1>7 DEF QueryUnreadable
  <2> HIDE DEF ended
  <2> QED BY <1>1, <1>2, <2>1, OwnRecordOnly
<1> QED BY <1>4, <1>5, <1>6, <1>7

\* On every platform: a step of the chain lends a buffer to its own request, and a
\* raw middleFn ends a response nobody has ended.
LEMMA ChainKeepsStreams ==
  ASSUME HeapInv, HttpInv, [Next]_vars, NEW r \in Requests, Run(r) \/ HandlerEnds(r)
  PROVE  HttpInv'
<1>1. http[r] \in HttpRecord /\ http[r].ends <= 1
  BY RecordTyped
<1>2. CASE Run(r)
  <2>1. InFlight(r)
    <3>1. Settle(r) => call[r].pc = "awaiting"
      BY DEF Settle, SettleWithoutValue, SettleWithValue, SettleWithError, Reject
    <3> QED BY <1>2, <3>1 DEF Run, CallMethod, Complete, InFlight
  <2>2. http[r].sending = NoBuffer
    BY <2>1, SendsNothingYet DEF InFlight
  <2>3. http' = [http EXCEPT ![r] = http[r]]
    BY <1>2 DEF Run, HttpInv
  <2>4. lent' = lent \/ \E b \in Buffers : Loan!Lend(r, b)
    BY <1>2, NewIsFresh DEF Run
  <2> QED BY <1>1, <2>2, <2>3, <2>4, OwnStreamsOnly
<1>3. CASE HandlerEnds(r)
  <2>1. Ends(r, http[r]) /\ UNCHANGED lent /\ ~WritableEnded(r)
    BY <1>3 DEF HandlerEnds
  <2>2. FatalFail(r, http[r])
    BY <2>1 DEF FatalFail
  <2> QED BY <1>1, <2>1, <2>2, AdapterAnswerKeeps
<1> QED BY <1>2, <1>3

\* node: the promise of dispatchRoute settled.
LEMMA ResumeKeeps ==
  ASSUME HeapInv, HttpInv, [Next]_vars, NEW r \in Requests, Resume(r)
  PROVE  HttpInv'
<1>1. /\ http[r] \in HttpRecord /\ http[r].ends <= 1 /\ lent[r] \in Buffers \cup {NoBuffer}
      /\ call[r] \in CallRecord
  BY RecordTyped DEF HttpInv, HeapInv, HeapTypes
<1>2. http[r].sending = NoBuffer
  <2>1. call[r].pc # "replied"
    BY DEF Resume, ResolvedTooLate, ReplyJson, ReplyBinary, ReplyThrows, DispatchRejected, Delivered
  <2> QED BY <2>1, SendsNothingYet
<1> DEFINE done == Resumed(r)
           replied == [done EXCEPT !.replied = TRUE]
<1>3. /\ done \in HttpRecord /\ replied \in HttpRecord
      /\ done.ends = http[r].ends /\ replied.ends = http[r].ends
      /\ done.sending = NoBuffer /\ replied.sending = NoBuffer
  BY <1>1, <1>2 DEF HttpRecord, Resumed
<1>4. CASE ResolvedTooLate(r)
  <2>1. http' = [http EXCEPT ![r] = done] /\ UNCHANGED lent
    BY <1>4 DEF ResolvedTooLate
  <2> HIDE DEF done
  <2> QED BY <1>1, <1>3, <2>1, OwnRecordOnly
<1>5. CASE ReplyJson(r)
  <2>1. Ends(r, replied) /\ UNCHANGED lent /\ ~WritableEnded(r)
    BY <1>5 DEF ReplyJson, AlreadyAnswered
  <2>2. FatalFail(r, replied)
    BY <2>1 DEF FatalFail
  <2> HIDE DEF replied
  <2> QED BY <1>3, <2>1, <2>2, AdapterAnswerKeeps
<1>6. CASE ReplyBinary(r)
  <2> DEFINE sent == [done EXCEPT !.replied = TRUE, !.onDone = TRUE,
                        !.sending = IF http[r].closed THEN NoBuffer ELSE lent[r]]
             final == [sent EXCEPT !.ends = @ + 1]
  <2>1. http' = [http EXCEPT ![r] = final] /\ UNCHANGED lent /\ ~WritableEnded(r)
    BY <1>6 DEF ReplyBinary, Ends, AlreadyAnswered
  <2>2. /\ sent \in HttpRecord /\ sent.ends = http[r].ends
        /\ ~sent.awaiting /\ sent.closed = http[r].closed
        /\ sent.sending = IF http[r].closed THEN NoBuffer ELSE lent[r]
    BY <1>1 DEF HttpRecord, Resumed
  <2> HIDE DEF sent
  <2>3. /\ final \in HttpRecord /\ final.ends <= 1 /\ final.sending = sent.sending
        /\ ~final.awaiting /\ final.closed = sent.closed
    BY <2>1, <2>2, EndsOnce
  <2>4. call'[r].pc = "replied"
    BY <1>1, <1>6 DEF ReplyBinary, Consumed, CallRecord, HeapInv, HeapTypes
  <2>5. final.sending # NoBuffer =>
          lent'[r] = final.sending /\ call'[r].pc = "replied" /\ ~final.awaiting /\ ~final.closed
    BY <2>1, <2>2, <2>3, <2>4
  <2> HIDE DEF final
  <2> QED BY <2>1, <2>3, <2>5, OwnStreamsOnly
<1>7. CASE ReplyThrows(r)
  <2>1. http' = [http EXCEPT ![r] = replied] /\ UNCHANGED lent
    BY <1>7 DEF ReplyThrows
  <2> HIDE DEF replied
  <2> QED BY <1>1, <1>3, <2>1, OwnRecordOnly
<1>8. CASE DispatchRejected(r)
  <2>1. CASE http[r].replied
    <3>1. http' = [http EXCEPT ![r] = done] /\ UNCHANGED lent
      BY <1>8, <2>1 DEF DispatchRejected
    <3> HIDE DEF done
    <3> QED BY <1>1, <1>3, <3>1, OwnRecordOnly
  <2>2. CASE ~http[r].replied
    <3>1. FatalFail(r, replied) /\ UNCHANGED lent
      BY <1>8, <2>2 DEF DispatchRejected
    <3> HIDE DEF replied
    <3> QED BY <1>3, <3>1, AdapterAnswerKeeps
  <2> QED BY <2>1, <2>2
<1> QED BY <1>4, <1>5, <1>6, <1>7, <1>8 DEF Resume

\* node: the response is flushed, its socket goes away, or it becomes garbage.
LEMMA DoneKeeps ==
  ASSUME HeapInv, HttpInv, [Next]_vars, NEW r \in Requests, Finish(r) \/ Close(r) \/ Collect(r)
  PROVE  HttpInv'
<1>1. http[r] \in HttpRecord /\ http[r].ends <= 1
  BY RecordTyped
<1> DEFINE finished == [http[r] EXCEPT !.finished = TRUE, !.sending = NoBuffer]
           closed == [http[r] EXCEPT !.closed = TRUE, !.sending = NoBuffer]
<1>2. /\ finished \in HttpRecord /\ finished.ends = http[r].ends /\ finished.sending = NoBuffer
      /\ closed \in HttpRecord /\ closed.ends = http[r].ends /\ closed.sending = NoBuffer
  BY <1>1 DEF HttpRecord
<1>3. lent' = lent \/ lent' = [lent EXCEPT ![r] = NoBuffer]
  BY DEF Finish, Close, Collect, ReleaseBuffer, Loan!Return
<1>4. CASE Finish(r)
  <2>1. http' = [http EXCEPT ![r] = finished]
    BY <1>4 DEF Finish
  <2> HIDE DEF finished
  <2> QED BY <1>1, <1>2, <1>3, <2>1, OwnStreamsOnly
<1>5. CASE Close(r)
  <2>1. http' = [http EXCEPT ![r] = closed]
    BY <1>5 DEF Close
  <2> HIDE DEF closed
  <2> QED BY <1>1, <1>2, <1>3, <2>1, OwnStreamsOnly
<1>6. CASE Collect(r)
  <2>1. http' = [http EXCEPT ![r] = http[r]]
    BY <1>6 DEF Collect, HttpInv
  <2>2. http[r].sending = NoBuffer
    BY <1>6 DEF Collect, HttpInv, SendsFromOwn
  <2> QED BY <1>1, <1>3, <2>1, <2>2, OwnStreamsOnly
<1> QED BY <1>4, <1>5, <1>6

\* A step that changes nothing here.
LEMMA StillKeeps ==
  ASSUME HttpInv, UNCHANGED <<call, http, lent>>
  PROVE  HttpInv'
BY DEF HttpInv, LoansExclusive, SendsFromOwn, OneAnswer

\* Every step of node's adapter.
LEMMA HttpStep ==
  ASSUME HeapInv, HttpInv, [HttpNext]_allVars
  PROVE  HttpInv'
<1>1. CASE UNCHANGED allVars
  BY <1>1, StillKeeps DEF allVars, vars
<1>2. CASE HttpNext
  <2>1. [Next]_vars
    BY <1>2, NodeSteps
  <2>2. AllOver => UNCHANGED allVars
    BY DEF AllOver
  <2> QED BY <1>1, <1>2, <2>1, <2>2, EventsKeep, ChainKeepsStreams, ResumeKeeps, DoneKeeps DEF HttpNext
<1> QED BY <1>1, <1>2

\* No stream has an event and no buffer is lent at first.
LEMMA HttpStart == HttpInit => HttpInv
BY DEF HttpInit, HttpInv, HttpRecord, Opened, Loan!LoanInit, LoansExclusive, SendsFromOwn, OneAnswer

\* What the invariant says of the payloads that are being sent.
LEMMA StreamsSound == HttpInv => HttpTypeOK /\ OneAnswer /\ SendingFromOwnBuffer
<1> SUFFICES ASSUME HttpInv PROVE HttpTypeOK /\ OneAnswer /\ SendingFromOwnBuffer
  OBVIOUS
<1>1. HttpTypeOK
  <2>1. ASSUME NEW r \in Requests
        PROVE  /\ http[r].request \in {"receiving", "ended", "failed"}
               /\ {http[r].awaiting, http[r].replied, http[r].finished, http[r].closed, http[r].onDone}
                    \subseteq BOOLEAN
               /\ http[r].ends \in Nat
               /\ http[r].sending \in Buffers \cup {NoBuffer}
    BY RecordTyped DEF HttpRecord
  <2> QED BY <2>1 DEF HttpInv, HttpTypeOK
<1>2. SendingFromOwnBuffer
  BY DEF HttpInv, LoansExclusive, SendsFromOwn, SendingFromOwnBuffer
<1> QED BY <1>1, <1>2 DEF HttpInv

\* node's adapter is one of Dispatch's platforms.
LEMMA NodeKeepsToDispatch == HttpSpec => Spec
<1>1. HttpInit => Init
  BY DEF HttpInit
<1>2. [HttpNext]_allVars => [Next]_vars
  BY NodeSteps DEF allVars, vars
<1> QED BY <1>1, <1>2, PTL DEF HttpSpec, Spec

\* Neither a context, a response, its errors or headers, nor the pooled bytes node
\* still sends are shared by two requests, however the events of their streams
\* interleave (callContext.ts:84-150, mionHttp.ts:205-231): for any number of
\* requests and buffers, any chains and any pool size.
THEOREM NodeSharesNothing == HttpSpec => []NothingShared
<1>1. HeapInv /\ HttpInv /\ [HttpNext]_allVars => HttpInv'
  BY HttpStep
<1>2. HttpSpec => []HttpInv
  BY <1>1, HttpStart, NodeKeepsToDispatch, HeapInductive, PTL DEF HttpSpec
<1>3. HttpInv => HttpTypeOK /\ SendingFromOwnBuffer
  BY StreamsSound
<1>4. TypeOK /\ NoCrossTalk /\ HttpTypeOK /\ SendingFromOwnBuffer => NothingShared
  BY DEF NothingShared
<1> QED BY <1>2, <1>3, <1>4, NodeKeepsToDispatch, DispatchTypes, NoResponseCrosses, PTL
-----------------------------------------------------------------------------
(* The handlers of the other platforms: who answers, and how often. *)

\* What one step of a handler may make of its stream and of its promise.
HandlerMoves(r, h, what) ==
  /\ http' = [http EXCEPT ![r] = h] /\ h \in HttpRecord /\ h.ends <= 1 /\ h.sending = NoBuffer
  /\ outcome' = [outcome EXCEPT ![r] = what]
  /\ what \in {"dispatching", "replied", "failed", "rejected"}
  /\ what = "dispatching" => h.ends = 0 \/ SharesResponse
  /\ what = "rejected" => /\ platform \notin {"bun", "vercelDev"}
                          /\ call'[r].pc = "new" \/ (SharesResponse /\ h.ends > 0)

\* A step of that kind, whatever the chain and the loans do in it.
LEMMA MovesKeep ==
  ASSUME HeapInv, HttpInv, AdapterInv, platform # "node", UNCHANGED platform, [Next]_vars,
         NEW r \in Requests, NEW h, NEW what, HandlerMoves(r, h, what), OthersKeepCalls(r),
         \/ lent' = lent
         \/ lent' = [lent EXCEPT ![r] = NoBuffer]
         \/ \E b \in Buffers : Loan!Lend(r, b)
  PROVE  HttpInv' /\ AdapterInv'
<1>1. HttpInv'
  BY OwnStreamsOnly DEF HandlerMoves
<1>2. /\ http'[r] = h /\ outcome'[r] = what
      /\ \A q \in Requests \ {r} :
           http'[q] = http[q] /\ outcome'[q] = outcome[q] /\ call'[q] = call[q]
  BY DEF HandlerMoves, HttpInv, AdapterInv, OthersKeepCalls
<1>3. outcome' \in [Requests -> {"reading", "dispatching", "replied", "failed", "rejected"}]
  BY DEF HandlerMoves, AdapterInv
<1>4. ASSUME NEW q \in Requests
      PROVE  /\ outcome'[q] = "reading" => call'[q].pc = "new" /\ http'[q].ends = 0
             /\ outcome'[q] = "dispatching" => http'[q].ends = 0 \/ SharesResponse'
             /\ http'[q].sending = NoBuffer
  <2>1. CASE q = r
    BY <1>2, <2>1 DEF HandlerMoves, SharesResponse
  <2>2. CASE q # r
    BY <1>2, <2>2 DEF AdapterInv, SharesResponse
  <2> QED BY <2>1, <2>2
<1>5. RejectsOnlyUnread'
  <2> SUFFICES ASSUME NEW q \in Requests, outcome'[q] = "rejected"
               PROVE  /\ platform' \notin {"bun", "vercelDev"}
                      /\ call'[q].pc = "new" \/ (SharesResponse' /\ http'[q].ends > 0)
    BY DEF RejectsOnlyUnread, WritableEnded
  <2>1. CASE q = r
    BY <1>2, <2>1 DEF HandlerMoves, SharesResponse
  <2>2. CASE q # r
    BY <1>2, <2>2 DEF AdapterInv, RejectsOnlyUnread, WritableEnded, SharesResponse
  <2> QED BY <2>1, <2>2
<1> QED BY <1>1, <1>3, <1>4, <1>5 DEF AdapterInv

\* A response is handed to the runtime by a handler whose response is open.
LEMMA HandsMoves ==
  ASSUME HttpInv, AdapterInv, platform # "node", NEW r \in Requests,
         ~WritableEnded(r), NEW what \in {"replied", "failed"}, Hands(r, what)
  PROVE  \E h : HandlerMoves(r, h, what)
<1> DEFINE settled == [http[r] EXCEPT !.awaiting = FALSE]
           ended == [settled EXCEPT !.ends = @ + 1]
<1>1. settled \in HttpRecord /\ settled.ends = http[r].ends /\ settled.sending = NoBuffer
  BY RecordTyped DEF HttpRecord, AdapterInv
<1> HIDE DEF settled
<1>2. ended \in HttpRecord /\ ended.ends <= 1 /\ ended.sending = NoBuffer
  BY <1>1, EndsOnce
<1>3. http' = [http EXCEPT ![r] = ended] /\ outcome' = [outcome EXCEPT ![r] = what]
  BY DEF Hands, Ends, Becomes, settled
<1> HIDE DEF ended
<1> QED BY <1>2, <1>3 DEF HandlerMoves

\* Nothing is, where the caller of the handler is left to answer.
LEMMA NothingMoves ==
  ASSUME HttpInv, AdapterInv, platform # "node", NEW r \in Requests, HandsNothing(r),
         platform \notin {"bun", "vercelDev"},
         call'[r].pc = "new" \/ (SharesResponse /\ WritableEnded(r))
  PROVE  \E h : HandlerMoves(r, h, "rejected")
<1> DEFINE settled == [http[r] EXCEPT !.awaiting = FALSE]
<1>1. /\ settled \in HttpRecord /\ settled.ends = http[r].ends /\ settled.ends <= 1
      /\ settled.sending = NoBuffer
  BY RecordTyped DEF HttpRecord, AdapterInv
<1>2. http' = [http EXCEPT ![r] = settled] /\ outcome' = [outcome EXCEPT ![r] = "rejected"]
  BY DEF HandsNothing, Becomes
<1> HIDE DEF settled
<1> QED BY <1>1, <1>2 DEF HandlerMoves, WritableEnded

\* While it dispatches, only Google's handler can find its response ended, and an
\* error of its own goes out unless it does.
LEMMA FailMoves ==
  ASSUME HttpInv, AdapterInv, platform # "node", NEW r \in Requests,
         outcome[r] = "dispatching", Fail(r)
  PROVE  \E h, what : HandlerMoves(r, h, what)
<1>1. WritableEnded(r) => SharesResponse
  BY RecordTyped DEF AdapterInv, WritableEnded, HttpRecord
<1>2. CASE SharesResponse /\ WritableEnded(r)
  <2>1. platform \notin {"bun", "vercelDev"} /\ HandsNothing(r)
    BY <1>2 DEF SharesResponse, Fail
  <2> QED BY <1>2, <2>1, NothingMoves
<1>3. CASE ~(SharesResponse /\ WritableEnded(r))
  <2>1. Hands(r, "failed") /\ ~WritableEnded(r)
    BY <1>1, <1>3 DEF Fail
  <2> QED BY <2>1, HandsMoves
<1> QED BY <1>2, <1>3

\* A step of one request's chain leaves the others' calls alone.
LEMMA RunKeepsOthers ==
  ASSUME HeapInv, NEW r \in Requests, Run(r) \/ Acquire(r)
  PROVE  OthersKeepCalls(r)
<1>1. CASE Acquire(r)
  <2>1. \E new : call' = [call EXCEPT ![r] = new]
    BY <1>1 DEF Acquire, AcquirePooled, AcquireNew, AcquireFails, Start
  <2> QED BY <2>1 DEF HeapInv, HeapTypes, OthersKeepCalls
<1>2. CASE Run(r)
  BY <1>2, CallProgresses, SettleHasShape, CompleteEnds DEF Run, ProgressShape, EndShape
<1> QED BY <1>1, <1>2

\* Every step of a handler.
LEMMA HandlerKeeps ==
  ASSUME HeapInv, HttpInv, AdapterInv, platform # "node", UNCHANGED platform,
         NEW r \in Requests, Handles(r)
  PROVE  HttpInv' /\ AdapterInv'
<1>1. [Next]_vars
  BY HandlerSteps
<1>2. /\ http[r] \in HttpRecord /\ http[r].ends <= 1 /\ http[r].sending = NoBuffer
      /\ call \in [Requests -> CallRecord]
  BY RecordTyped DEF AdapterInv, HeapInv, HeapTypes
<1>3. CASE Unreadable(r)
  <2>1. call[r].pc = "new" /\ ~WritableEnded(r) /\ UNCHANGED <<call, lent>>
    BY <1>3 DEF Unreadable, AdapterInv, WritableEnded
  <2>2. CASE OutsideCaught
    BY <1>1, <1>3, <2>1, <2>2, HandsMoves, MovesKeep DEF Unreadable, OthersKeepCalls
  <2>3. CASE ~OutsideCaught
    <3>1. HandsNothing(r) /\ platform \notin {"bun", "vercelDev"}
      BY <1>3, <2>3 DEF Unreadable, OutsideCaught
    <3> QED BY <1>1, <2>1, <3>1, NothingMoves, MovesKeep DEF OthersKeepCalls
  <2> QED BY <2>2, <2>3
<1>4. CASE Dispatches(r)
  <2> DEFINE h == [http[r] EXCEPT !.request = "ended", !.awaiting = TRUE]
  <2>1. h \in HttpRecord /\ h.ends = http[r].ends /\ h.sending = NoBuffer
    BY <1>2 DEF HttpRecord
  <2>2. /\ http' = [http EXCEPT ![r] = h] /\ outcome' = [outcome EXCEPT ![r] = "dispatching"]
        /\ Acquire(r) /\ UNCHANGED lent
    BY <1>4 DEF Dispatches, Becomes
  <2>3. http[r].ends = 0
    BY <1>4 DEF Dispatches, AdapterInv
  <2> HIDE DEF h
  <2>4. HandlerMoves(r, h, "dispatching")
    BY <2>1, <2>2, <2>3 DEF HandlerMoves
  <2> QED BY <1>1, <2>2, <2>4, RunKeepsOthers, MovesKeep
<1>5. CASE Works(r)
  <2>1. outcome' = [outcome EXCEPT ![r] = "dispatching"] /\ outcome[r] = "dispatching"
    BY <1>5 DEF Works, AdapterInv
  <2>2. CASE Run(r)
    <3>1. /\ http' = [http EXCEPT ![r] = http[r]]
          /\ lent' = lent \/ \E b \in Buffers : Loan!Lend(r, b)
      BY <2>2, NewIsFresh DEF Run, HttpInv
    <3>2. HandlerMoves(r, http[r], "dispatching")
      BY <1>2, <2>1, <3>1 DEF HandlerMoves, AdapterInv
    <3> QED BY <1>1, <2>2, <3>1, <3>2, RunKeepsOthers, MovesKeep
  <2>3. CASE SharesResponse /\ HandlerEnds(r)
    <3> DEFINE ended == [http[r] EXCEPT !.ends = @ + 1]
    <3>1. /\ http' = [http EXCEPT ![r] = ended] /\ ~WritableEnded(r)
          /\ UNCHANGED <<call, lent>>
      BY <2>3 DEF HandlerEnds, Ends
    <3>2. ended \in HttpRecord /\ ended.ends <= 1 /\ ended.sending = NoBuffer
      BY <1>2, <3>1, EndsOnce
    <3> HIDE DEF ended
    <3>3. HandlerMoves(r, ended, "dispatching")
      BY <2>1, <2>3, <3>1, <3>2 DEF HandlerMoves
    <3> QED BY <1>1, <3>1, <3>3, MovesKeep DEF OthersKeepCalls
  <2> QED BY <1>5, <2>2, <2>3 DEF Works
<1>6. Consumed(r) => OthersKeepCalls(r)
  BY <1>2 DEF Consumed, OthersKeepCalls
<1>7. CASE Replies(r)
  <2>1. ~WritableEnded(r)
    BY <1>2, <1>7 DEF Replies, Resolves, MustFail, AdapterInv, WritableEnded
  <2>2. lent' = lent \/ lent' = [lent EXCEPT ![r] = NoBuffer]
    BY <1>7 DEF Replies, GivesBack, Loan!Return
  <2>3. Hands(r, "replied") /\ Consumed(r)
    BY <1>7 DEF Replies
  <2> QED BY <1>1, <1>6, <2>1, <2>2, <2>3, HandsMoves, MovesKeep
<1>8. CASE ReplyFails(r)
  <2>1. outcome[r] = "dispatching" /\ Fail(r) /\ Consumed(r) /\ UNCHANGED lent
    BY <1>8 DEF ReplyFails, Resolves
  <2> QED BY <1>1, <1>6, <2>1, FailMoves, MovesKeep
<1>9. CASE DispatchFails(r)
  <2>1. outcome[r] = "dispatching" /\ Fail(r) /\ UNCHANGED <<call, lent>>
    BY <1>9 DEF DispatchFails
  <2> QED BY <1>1, <2>1, FailMoves, MovesKeep DEF OthersKeepCalls
<1>10. CASE Dropped(r)
  <2>1. /\ outcome[r] \in {"failed", "rejected"} /\ outcome' = [outcome EXCEPT ![r] = outcome[r]]
        /\ http' = [http EXCEPT ![r] = http[r]]
        /\ lent' = [lent EXCEPT ![r] = NoBuffer] /\ call' = call
    BY <1>10 DEF Dropped, Loan!Return, vars, AdapterInv, HttpInv
  <2>2. HandlerMoves(r, http[r], outcome[r])
    BY <1>2, <2>1 DEF HandlerMoves, AdapterInv, RejectsOnlyUnread, WritableEnded
  <2> QED BY <1>1, <2>1, <2>2, MovesKeep DEF OthersKeepCalls
<1> QED BY <1>3, <1>4, <1>5, <1>7, <1>8, <1>9, <1>10 DEF Handles

\* Every step of every platform.
LEMMA PlatformStep ==
  ASSUME HeapInv, HttpInv, AdapterInv, [PlatformNext]_platformVars
  PROVE  HttpInv' /\ AdapterInv'
<1>1. CASE UNCHANGED platformVars
  <2>1. UNCHANGED <<call, http, lent, platform, outcome>>
    BY <1>1 DEF platformVars, allVars, vars
  <2> QED BY <2>1, StillKeeps DEF AdapterInv, RejectsOnlyUnread, SharesResponse, WritableEnded
<1>2. CASE PlatformNext
  <2>1. CASE platform = "node" /\ HttpNext /\ UNCHANGED <<platform, outcome>>
    <3>1. HttpInv'
      BY <2>1, HttpStep
    <3> QED BY <2>1, <3>1 DEF AdapterInv, RejectsOnlyUnread
  <2>2. ASSUME platform # "node", UNCHANGED platform, NEW r \in Requests, Handles(r)
        PROVE  HttpInv' /\ AdapterInv'
    BY <2>2, HandlerKeeps
  <2>3. CASE Over
    BY <1>1, <2>3 DEF Over
  <2> QED BY <1>2, <2>1, <2>2, <2>3 DEF PlatformNext
<1> QED BY <1>1, <1>2

\* Every handler reads at first.
LEMMA PlatformStart == PlatformInit => HttpInv /\ AdapterInv
<1> SUFFICES ASSUME PlatformInit PROVE HttpInv /\ AdapterInv
  OBVIOUS
<1>1. HttpInv
  BY HttpStart DEF PlatformInit
<1>2. \A r \in Requests : call[r].pc = "new" /\ http[r].ends = 0 /\ http[r].sending = NoBuffer
  BY DEF PlatformInit, HttpInit, Init, NoCall, Opened
<1> QED BY <1>1, <1>2 DEF PlatformInit, AdapterInv, RejectsOnlyUnread

\* Types, one answer and the rare rejections, in every state.
LEMMA PlatformSound == HttpInv /\ AdapterInv => PlatformTypeOK /\ OneAnswer /\ RejectsOnlyUnread
BY StreamsSound DEF AdapterInv, PlatformTypeOK

\* On every platform a response is ended at most once, dispatchRoute rejects only what
\* never got a chain or what it could not set the header of a first error for, and outside node the caller of a handler
\* is left to answer only what was never dispatched or what a raw middleFn had ended
\* (mionHttp.ts:94-181 and its counterparts).
THEOREM AnsweredOnceEverywhere == PlatformSpec => []AnsweredOnce
<1>1. HeapInv /\ HttpInv /\ AdapterInv /\ [PlatformNext]_platformVars => HttpInv' /\ AdapterInv'
  BY PlatformStep
<1>2. PlatformSpec => []HeapInv /\ []RejectedForCause
  BY PlatformsKeepToDispatch, HeapInductive, RejectionsExplained, PTL DEF PlatformsImplementDispatch
<1>3. PlatformSpec => [](HttpInv /\ AdapterInv)
  BY <1>1, <1>2, PlatformStart, PTL DEF PlatformSpec
<1>4. PlatformTypeOK /\ OneAnswer /\ RejectsOnlyUnread /\ RejectedForCause => AnsweredOnce
  BY DEF AnsweredOnce
<1> QED BY <1>2, <1>3, <1>4, PlatformSound, PTL

\* On every platform no error of a method is lost or blurred on its way out
\* (dispatchError.ts:29-70, serializer.routes.ts:75-95).
THEOREM ErrorsAccountedForEverywhere == PlatformSpec => ErrorsAccountedFor
<1>1. PlatformSpec => Spec
  BY PlatformsKeepToDispatch DEF PlatformsImplementDispatch
<1> QED BY <1>1, ErrorsAgreeAlways, EarlyErrorsReachClient, HeaderOfFirstError DEF ErrorsAccountedFor
=============================================================================
