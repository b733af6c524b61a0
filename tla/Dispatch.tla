------------------------------ MODULE Dispatch ------------------------------
(***************************************************************************)
(* Dispatching requests through an execution chain, with pooled call       *)
(* contexts: router/src/dispatch.ts, callContext.ts, lib/dispatchError.ts  *)
(* and routes/serializer.routes.ts.                                        *)
(*                                                                         *)
(* dispatchRoute runs to its next `await` without interruption; every      *)
(* `await methodCaller(...)` lets other requests run.  A call of a method  *)
(* is therefore two steps: Call (the synchronous part) and Settle (what    *)
(* runExecutionChain does with the result or the exception).               *)
(*                                                                         *)
(* Contexts and response objects are heap objects with identities, because *)
(* sharing them between requests is what could go wrong.  A value or an    *)
(* error is identified by the method and the request that produced it.     *)
(***************************************************************************)
EXTENDS Integers, Sequences, FiniteSets

CONSTANTS
  Requests,      \* calls of dispatchRoute
  Contexts,      \* identities of CallContext shells
  Responses,     \* identities of response objects
  Chains,        \* the execution chains requests may ask for
  MaxPoolSize,   \* maxContextPoolSize; 0 disables pooling
  OddlyTyped,    \* the ids whose errors may be of a type no header can carry
  None

VARIABLES
  pool,     \* contextPool, a stack
  ctx,      \* context shell -> request.thrownErrors and response
  heap,     \* response object -> its fields
  errorsOf, \* request -> the thrownErrors object created while it ran
  header,   \* request -> x-rpc-error among its response headers
  sealed,   \* requests whose headers can not be set any more
  call      \* request -> its invocation of dispatchRoute

vars == <<pool, ctx, heap, errorsOf, header, sealed, call>>
-----------------------------------------------------------------------------
\* A method of a chain.  kind "serialize" is mionSerializeResponse, "metadata"
\* is mionMethodsMetadata; everything else is "handler".
Kinds == {"handler", "metadata", "serialize"}
Modes == {"json", "stringifyJson", "binary"}

Method == [id : STRING, kind : Kinds, runOnError : BOOLEAN,
           hasReturnData : BOOLEAN]

Chain == [serializer : Modes, methods : Seq(Method)]

ASSUME ChainsAssumption == Chains \subseteq Chain

\* Where the router puts mionSerializeResponse: once, on errors too, after the
\* metadata middleFn; what an application appends has ids of its own.
SerializesAt(chain, s) ==
  LET m == chain.methods
  IN /\ m[s].kind = "serialize" /\ m[s].runOnError
     /\ \A k \in DOMAIN m \ {s} : m[k].kind # "serialize"
     /\ \A k \in DOMAIN m : m[k].kind = "metadata" => k < s
     /\ \A j, k \in DOMAIN m : j < s /\ s <= k => m[j].id # m[k].id

ASSUME SerializerAssumption ==
  \A chain \in Chains : \E s \in DOMAIN chain.methods : SerializesAt(chain, s)

\* the thrownErrors pseudo method, which the chain does not contain
ThrownErrorsId == "@thrownErrors"

Error == [id : STRING \cup {ThrownErrorsId}, req : Requests, during : {"run", "serialize"}]
Value == [id : STRING, req : Requests]

ASSUME NoneAssumption == None \notin Error \cup Requests

\* fault: the flag is left undefined
Unreset(r, mode) ==
  [status |-> None, hasErrors |-> None, headersOf |-> r, body |-> {}, attached |-> None,
   raw |-> {}, bin |-> None, serializer |-> mode]

Fresh(r, mode) ==
  [status |-> None, hasErrors |-> FALSE, headersOf |-> r, body |-> {}, attached |-> None,
   raw |-> {}, bin |-> None, serializer |-> mode]

NoCall == [pc |-> "new", ctx |-> None, resp |-> None, chain |-> None, i |-> 1, threw |-> FALSE]

InFlight(r) == call[r].pc \in {"running", "awaiting"}
Delivered(r) == call[r].pc = "delivered"

\* the response object a request sees: that of its context while it runs, the
\* one dispatchRoute returned afterwards
Response(r) == heap[call[r].resp]

Init ==
  /\ pool = << >>
  /\ ctx = [c \in Contexts |-> [thrown |-> None, response |-> None]]
  /\ heap = [o \in Responses |-> Fresh(None, "json")]
  /\ errorsOf = [r \in Requests |-> {}]
  /\ header = [r \in Requests |-> None]
  /\ sealed = {}
  /\ call = [r \in Requests |-> NoCall]
-----------------------------------------------------------------------------
(* callContext.ts *)

\* A fresh object's identity: identities are interchangeable, so any unused one.
New(S) == IF S = {} THEN {} ELSE {CHOOSE x \in S : TRUE}

PooledContexts == {pool[k] : k \in DOMAIN pool}
UsedContexts == {call[r].ctx : r \in {q \in Requests : InFlight(q)}}
FreshContexts == Contexts \ (PooledContexts \cup UsedContexts)

FreshResponses ==
  Responses \ ({ctx[c].response : c \in PooledContexts \cup UsedContexts}
                 \cup {call[r].resp : r \in Requests})

\* fault: takes the top context and leaves it in the pool
Peek(stack) == stack

\* what contextPool.pop() leaves
Rest(stack) == SubSeq(stack, 1, Len(stack) - 1)

\* acquireCallContext up to the start of runExecutionChain, which sets the
\* response's serializer from the chain
Start(r, c, o, chain) ==
  /\ ctx' = [ctx EXCEPT ![c] = [thrown |-> None, response |-> o]]
  /\ heap' = [heap EXCEPT ![o] = Fresh(r, chain.serializer)]
  /\ call' = [call EXCEPT ![r] = [pc |-> "running", ctx |-> c, resp |-> o, chain |-> chain,
                                  i |-> 1, threw |-> FALSE]]
  /\ UNCHANGED <<errorsOf, header, sealed>>

AcquirePooled(r, chain) ==
  /\ call[r].pc = "new"
  /\ pool # << >>
  /\ pool' = Rest(pool)
  /\ LET c == pool[Len(pool)] IN Start(r, c, ctx[c].response, chain)

\* createCallContext: pooling disabled, or nothing in the pool
AcquireNew(r, chain) ==
  /\ call[r].pc = "new"
  /\ pool = << >>
  /\ \E c \in New(FreshContexts), o \in New(FreshResponses) : Start(r, c, o, chain)
  /\ UNCHANGED pool

\* pathTransform, getExecutionChain or contextDataFactory throws: dispatchRoute
\* rejects, and a context already popped is not put back
AcquireFails(r) ==
  /\ call[r].pc = "new"
  /\ pool' = IF pool = << >> THEN pool ELSE Rest(pool)
  /\ call' = [call EXCEPT ![r].pc = "rejected"]
  /\ UNCHANGED <<ctx, heap, errorsOf, header, sealed>>

\* fault: the shell goes back with the response the platform is reading
ReleaseInPlace(c) ==
  IF MaxPoolSize > 0 /\ Len(pool) < MaxPoolSize
    THEN /\ pool' = Append(pool, c)
         /\ ctx' = [ctx EXCEPT ![c].thrown = None]
         /\ heap' = [heap EXCEPT ![ctx[c].response] = Fresh(None, "json")]
    ELSE UNCHANGED <<pool, ctx, heap>>

\* releaseCallContext: the shell goes back with a response object of its own,
\* because the platform still reads the one it was given
ReleaseContext(c) ==
  IF MaxPoolSize > 0 /\ Len(pool) < MaxPoolSize
    THEN \E o \in New(FreshResponses) :
           /\ pool' = Append(pool, c)
           /\ ctx' = [ctx EXCEPT ![c] = [thrown |-> None, response |-> o]]
           /\ heap' = [heap EXCEPT ![o] = Fresh(None, "json")]
    ELSE UNCHANGED <<pool, ctx, heap>>
-----------------------------------------------------------------------------
(* dispatchError.ts *)

\* headers.set throws once the platform has sent the headers
HeaderRefused(r) == Response(r).headersOf \in sealed

\* and it may for the type of an error, which is any string; what the router and the
\* serializer throw themselves is of a type that is a header's value
TypeRefused(r) == call[r].chain.methods[call[r].i].id \in OddlyTyped

\* fault: errors of the serializer escape runExecutionChain
SerializerErrorsEscape(r) == call[r].chain.methods[call[r].i].kind = "serialize"

\* onExecutableError throws only if it has to set the header and can not
ErrorHandlingThrows(r) == ~Response(r).hasErrors /\ (HeaderRefused(r) \/ TypeRefused(r))

\* it does its work when there is no header to set, or the header takes the type
ErrorHandled(r) == Response(r).hasErrors \/ ~HeaderRefused(r)

\* the thrownErrors object the next error of r is stored in
ErrorStore(r) == IF ctx[call[r].ctx].thrown # None THEN ctx[call[r].ctx].thrown ELSE r

\* fault: the header follows the last error
LastErrorHeader(resp, errs) == [header EXCEPT ![resp.headersOf] = errs[Len(errs)]]

\* fault: hasErrors is set before it is tested
NoErrorHeader(resp, errs) == header

\* only the first error of a request sets its error header
HeaderAfter(resp, errs) ==
  IF resp.hasErrors THEN header ELSE [header EXCEPT ![resp.headersOf] = errs[1]]

\* onExecutableError for a non-empty sequence of errors in order; `resp` is the
\* response as the caller has changed it so far
RecordErrors(r, resp, errs) ==
  LET store == ErrorStore(r)
      ids == {errs[k].id : k \in DOMAIN errs}
  IN /\ errorsOf' = [errorsOf EXCEPT ![store] =
                       {x \in @ : x.id \notin ids} \cup {errs[k] : k \in DOMAIN errs}]
     /\ ctx' = [ctx EXCEPT ![call[r].ctx].thrown = store]
     /\ header' = HeaderAfter(resp, errs)
     /\ heap' = [heap EXCEPT ![call[r].resp] =
                   [resp EXCEPT !.hasErrors = TRUE, !.status = errs[Len(errs)]]]
-----------------------------------------------------------------------------
(* serializer.routes.ts *)

Methods(r) == call[r].chain.methods

\* the method at k is called; `threw` is known already if it never yields
Awaits(r, k, threw) == call' = [call EXCEPT ![r].pc = "awaiting", ![r].i = k, ![r].threw = threw]

\* the response values the serializer visits, in chain order
ReturnedIndexes(r) ==
  {n \in DOMAIN Methods(r) : /\ Methods(r)[n].hasReturnData
                             /\ \E v \in Response(r).body : v.id = Methods(r)[n].id}

ReturnedBy(r, indexes) == {v \in Response(r).body : \E n \in indexes : v.id = Methods(r)[n].id}

SerializeError(r, id) == [id |-> id, req |-> r, during |-> "serialize"]

\* the errors of the failed indexes in chain order, then that of thrownErrors
FailureSequence(r, failed, thrownToo) ==
  LET order == [n \in 1..Cardinality(failed) |->
                  CHOOSE m \in failed : Cardinality({j \in failed : j < m}) = n - 1]
      errs == [n \in DOMAIN order |-> SerializeError(r, Methods(r)[order[n]].id)]
  IN IF thrownToo THEN Append(errs, SerializeError(r, ThrownErrorsId)) ELSE errs

\* fault: the collected errors are not attached to the body
NothingAttached(r) == None

\* the thrownErrors object put into the body before it is serialized
Attached(r) == ctx[call[r].ctx].thrown

\* stringifyBody / prepareBodyForJson: a method whose value can not be converted
\* is reported through onExecutableError and the others go on
SerializeJson(r, k, failed, thrownFails) ==
  LET attached == Attached(r)
      errs == FailureSequence(r, failed, thrownFails)
      lost == {Methods(r)[n].id : n \in failed}
      written == ReturnedBy(r, ReturnedIndexes(r) \ failed)
      \* thrownErrors is stringified last, after the errors of this very loop
      errsWritten == IF attached = None \/ thrownFails THEN {}
                     ELSE {x \in errorsOf[attached] : x.id \notin lost}
                            \cup {SerializeError(r, id) : id \in lost}
      resp == [Response(r) EXCEPT !.attached = attached,
                 !.raw = IF Response(r).serializer = "stringifyJson"
                           THEN written \cup errsWritten ELSE @]
  IN /\ Response(r).serializer # "binary"
     /\ failed \subseteq ReturnedIndexes(r)
     /\ thrownFails => attached # None
     /\ ~HeaderRefused(r)
     /\ IF errs = << >>
          THEN /\ heap' = [heap EXCEPT ![call[r].resp] = resp]
               /\ UNCHANGED <<ctx, errorsOf, header>>
          ELSE RecordErrors(r, resp, errs)
     /\ Awaits(r, k, FALSE)

\* serializeBinaryBody: all the values or nothing, and never thrownErrors
\* (willSerialize skips them; they are attached to the body object all the same)
SerializeBinary(r, k, fails) ==
  /\ Response(r).serializer = "binary"
  /\ fails => ReturnedIndexes(r) # {}
  /\ ~HeaderRefused(r)
  /\ heap' = [heap EXCEPT
       ![call[r].resp].attached = Attached(r),
       ![call[r].resp].bin = IF fails THEN @ ELSE ReturnedBy(r, ReturnedIndexes(r))]
  /\ Awaits(r, k, fails)
  /\ UNCHANGED <<ctx, errorsOf, header>>

\* the content-type header is refused before anything is serialized
SerializeRefused(r, k) ==
  /\ HeaderRefused(r)
  /\ heap' = [heap EXCEPT ![call[r].resp].attached = Attached(r)]
  /\ Awaits(r, k, TRUE)
  /\ UNCHANGED <<ctx, errorsOf, header>>
-----------------------------------------------------------------------------
(* dispatch.ts: runExecutionChain *)

\* the methods not yet reached that are not skipped because of an error
Runnable(r) ==
  {k \in DOMAIN Methods(r) : /\ k >= call[r].i
                             /\ Methods(r)[k].runOnError \/ ~Response(r).hasErrors}

\* r is between two methods and k is the next one it calls
Reaches(r, k) ==
  /\ call[r].pc = "running"
  /\ k \in Runnable(r)
  /\ \A j \in Runnable(r) : k <= j

\* a user's handler: nothing of the response changes before it settles
CallHandler(r, k) ==
  /\ Reaches(r, k) /\ Methods(r)[k].kind = "handler"
  /\ Awaits(r, k, FALSE)
  /\ UNCHANGED <<pool, ctx, heap, errorsOf, header, sealed>>

\* mionMethodsMetadata, asked for metadata or not: an answer is always JSON
CallMetadata(r, k) ==
  /\ Reaches(r, k) /\ Methods(r)[k].kind = "metadata"
  /\ heap' \in {heap, [heap EXCEPT ![call[r].resp].serializer = "stringifyJson"]}
  /\ Awaits(r, k, FALSE)
  /\ UNCHANGED <<pool, ctx, errorsOf, header, sealed>>

\* mionSerializeResponse does all of its work before it yields
CallSerialize(r, k) ==
  /\ Reaches(r, k) /\ Methods(r)[k].kind = "serialize"
  /\ \/ \E failed \in SUBSET ReturnedIndexes(r), thrownFails \in BOOLEAN :
          SerializeJson(r, k, failed, thrownFails)
     \/ \E fails \in BOOLEAN : SerializeBinary(r, k, fails)
     \/ SerializeRefused(r, k)
  /\ UNCHANGED <<pool, sealed>>

Current(r) == Methods(r)[call[r].i]
MayThrow(r) == IF Current(r).kind = "serialize" THEN call[r].threw ELSE TRUE
MayReturn(r) == IF Current(r).kind = "serialize" THEN ~call[r].threw ELSE TRUE

Continue(r) == call' = [call EXCEPT ![r].pc = "running", ![r].i = @ + 1]

\* nothing to store: undefined, a method without return data, or headers
SettleWithoutValue(r) ==
  /\ call[r].pc = "awaiting" /\ MayReturn(r)
  /\ Continue(r)
  /\ UNCHANGED <<pool, ctx, heap, errorsOf, header, sealed>>

SettleWithValue(r) ==
  /\ call[r].pc = "awaiting" /\ MayReturn(r) /\ Current(r).hasReturnData
  /\ heap' = [heap EXCEPT ![call[r].resp].body = @ \cup {[id |-> Current(r).id, req |-> r]}]
  /\ Continue(r)
  /\ UNCHANGED <<pool, ctx, errorsOf, header, sealed>>

\* the method threw, or its parameters could not be restored or validated
SettleWithError(r) ==
  /\ call[r].pc = "awaiting" /\ MayThrow(r) /\ ErrorHandled(r)
  /\ RecordErrors(r, Response(r), <<[id |-> Current(r).id, req |-> r, during |-> "run"]>>)
  /\ Continue(r)
  /\ UNCHANGED <<pool, sealed>>

\* onExecutableError itself threw: dispatchRoute releases the context and rejects
Reject(r) ==
  /\ call[r].pc = "awaiting" /\ MayThrow(r) /\ ErrorHandlingThrows(r)
  /\ ReleaseContext(call[r].ctx)
  /\ call' = [call EXCEPT ![r].pc = "rejected", ![r].ctx = None, ![r].resp = None]
  /\ UNCHANGED <<errorsOf, header, sealed>>

\* the chain is done: the response is returned and the context released
Complete(r) ==
  /\ call[r].pc = "running" /\ Runnable(r) = {}
  /\ ReleaseContext(call[r].ctx)
  /\ call' = [call EXCEPT ![r].pc = "delivered", ![r].ctx = None]
  /\ UNCHANGED <<errorsOf, header, sealed>>
-----------------------------------------------------------------------------
(* the platform adapter, as far as dispatch can tell *)

\* The adapter is done with the response it was given: it has answered with it,
\* unless the request was answered before or the answer could not be written.
Reply(r) ==
  /\ Delivered(r)
  /\ sealed' \in {sealed, sealed \cup {r}}
  /\ call' = [call EXCEPT ![r].pc = "replied", ![r].resp = None]
  /\ UNCHANGED <<pool, ctx, heap, errorsOf, header>>

\* The adapter or a handler answers without the chain (connection error, payload too
\* large): the headers handed to dispatchRoute refuse any change from here on.
AnswerEarly(r) ==
  /\ r \notin sealed
  /\ sealed' = sealed \cup {r}
  /\ UNCHANGED <<pool, ctx, heap, errorsOf, header, call>>

Acquire(r) == (\E chain \in Chains : AcquirePooled(r, chain) \/ AcquireNew(r, chain)) \/ AcquireFails(r)

CallMethod(r) ==
  call[r].pc = "running" /\ \E k \in DOMAIN Methods(r) :
    CallHandler(r, k) \/ CallMetadata(r, k) \/ CallSerialize(r, k)

Settle(r) == SettleWithoutValue(r) \/ SettleWithValue(r) \/ SettleWithError(r) \/ Reject(r)

Next ==
  \E r \in Requests :
    Acquire(r) \/ CallMethod(r) \/ Settle(r) \/ Complete(r) \/ Reply(r) \/ AnswerEarly(r)

Spec == Init /\ [][Next]_vars
-----------------------------------------------------------------------------
TypeOK ==
  /\ pool \in Seq(Contexts)
  /\ ctx \in [Contexts -> [thrown : Requests \cup {None}, response : Responses \cup {None}]]
  /\ errorsOf \in [Requests -> SUBSET Error]
  /\ header \in [Requests -> Error \cup {None}]
  /\ sealed \subseteq Requests
  /\ \A o \in Responses :
       /\ heap[o].status \in Error \cup {None} /\ heap[o].hasErrors \in BOOLEAN
       /\ heap[o].headersOf \in Requests \cup {None} /\ heap[o].body \subseteq Value
       /\ heap[o].attached \in Requests \cup {None} /\ heap[o].serializer \in Modes
  /\ \A r \in Requests :
       /\ call[r].pc \in {"new", "running", "awaiting", "delivered", "replied", "rejected"}
       /\ call[r].chain \in Chains \cup {None}
       /\ InFlight(r) => call[r].ctx \in Contexts /\ call[r].resp \in Responses

\* A context serves one request at a time: no two requests in flight share a
\* shell, and the pool holds neither a shell in use nor one shell twice.
ContextExclusive ==
  /\ \A i, j \in DOMAIN pool : pool[i] = pool[j] => i = j
  /\ \A r \in Requests : InFlight(r) =>
       /\ call[r].ctx \notin PooledContexts
       /\ \A q \in Requests \ {r} : InFlight(q) => call[q].ctx # call[r].ctx

HasResponse(r) == InFlight(r) \/ Delivered(r)

\* What a request leads the platform to read is its own: its values, its errors,
\* its headers, from the moment the context is acquired until the reply.
NoCrossTalk ==
  \A r \in Requests : HasResponse(r) =>
    /\ Response(r).headersOf = r
    /\ \A v \in Response(r).body : v.req = r
    /\ Response(r).attached \in {r, None}
    /\ InFlight(r) => ctx[call[r].ctx].thrown \in {r, None}
    /\ \A e \in errorsOf[r] : e.req = r
    /\ header[r] # None => header[r].req = r

\* releaseCallContext's promise to the platform wrapper: the response it was
\* given does not change under it, whatever the other requests do.
DeliveredFrozen ==
  [][\A r \in Requests : Delivered(r) /\ Delivered(r)' =>
       Response(r)' = Response(r) /\ errorsOf[r]' = errorsOf[r]]_vars

\* The header, the flag and the collected errors agree when dispatchRoute
\* returns: "only first error sets the error header", and every later one is kept.
ErrorsAgree ==
  \A r \in Requests : Delivered(r) =>
    /\ Response(r).hasErrors <=> errorsOf[r] # {}
    /\ Response(r).hasErrors <=> Response(r).status # None
    /\ header[r] # None => Response(r).hasErrors
    /\ Response(r).hasErrors /\ r \notin sealed => header[r] # None

\* The error header is that of the first error and is never replaced.
FirstErrorKeepsHeader ==
  [][\A r \in Requests : header[r] # None => header[r]' = header[r]]_vars

\* "this should never happen, exceptions should be handled inside
\* runExecutionChain": a request that got a chain is rejected only by the first of its
\* errors, when the platform answered already or the type of the error is no header's
\* value; an error that was recorded is never lost that way (dispatch.ts:51-63).
RejectedForCause ==
  \A r \in Requests : call[r].pc = "rejected" /\ call[r].chain # None =>
    /\ errorsOf[r] = {}
    /\ r \in sealed \/ call[r].chain.methods[call[r].i].id \in OddlyTyped
-----------------------------------------------------------------------------
(* What the client can learn of the thrown errors. *)

Payload(r) ==
  LET o == Response(r) IN
  CASE o.serializer = "stringifyJson" -> o.raw
    [] o.serializer = "json" -> o.body \cup IF o.attached = None THEN {} ELSE errorsOf[o.attached]
    [] o.serializer = "binary" -> IF o.bin = None THEN {} ELSE o.bin

SerializerIndex(r) == CHOOSE k \in DOMAIN Methods(r) : Methods(r)[k].kind = "serialize"
Precedes(r, e) == \E k \in 1..(SerializerIndex(r) - 1) : Methods(r)[k].id = e.id

\* the errors themselves could be converted, however odd their errorData
ErrorsConverted(r) == \A e \in errorsOf[r] : e.id # ThrownErrorsId

\* On the JSON lanes every error a method threw before the response was
\* serialized reaches the client in @thrownErrors (serializeResponseBody).
EarlyErrorsReturned ==
  \A r \in Requests :
    Delivered(r) /\ r \notin sealed /\ Response(r).serializer # "binary" /\ ErrorsConverted(r) =>
      \A e \in errorsOf[r] : e.during = "run" /\ Precedes(r, e) => e \in Payload(r)
=============================================================================
