-------------------------------- MODULE Wire --------------------------------
(***************************************************************************)
(* What happens to values between a client and a handler and back: the     *)
(* client's validation and encoding (client/src/lib), the server's reading *)
(* of the body and writing of the response (router/src/routes/serializer   *)
(* .routes.ts, core/src/binary), and the client's reading of it.  One call *)
(* of a route behind a headersFn, in each mode a body can be sent in and   *)
(* each lane a response can be serialized in.                              *)
(*                                                                         *)
(* Values are told apart by what becomes of them on the way:               *)
(*   plain   - JSON keeps it                                               *)
(*   rich    - only the compiled functions keep it (a Map)                 *)
(*   big     - JSON.stringify throws, the compiled functions keep it       *)
(*   odd     - not of the declared type: the compiled functions throw      *)
(*   headers - a HeadersSubset                                             *)
(* and on the wire by who encoded them.                                    *)
(***************************************************************************)
EXTENDS Naturals, Sequences, FiniteSets, SequencesExt

VARIABLE crossing  \* one call, and how far it is

Chain == <<"guard", "route">>
Ids == ToSet(Chain)
Absent == "absent"

\* A call as a program makes it: the methods, the parameters the client was given,
\* what the handlers do, and what the client can no longer read.
Crossing(methods, client, params, outcome) ==
  [at |-> "validating", next |-> 1, methods |-> methods, client |-> client, params |-> params, outcome |-> outcome,
   mode |-> Absent, body |-> Absent, headers |-> FALSE,
   got |-> [id \in Ids |-> <<Absent>>], values |-> [id \in Ids |-> Absent], thrown |-> {},
   wire |-> Absent, slots |-> [id \in Ids |-> Absent], unexpected |-> {}, failure |-> Absent]

CrossingInit(methods, client, params, outcome) == crossing = Crossing(methods, client, params, outcome)

Method(id) == crossing.methods[id]
Go(changed) == crossing' = changed
Fail(why) == Go([crossing EXCEPT !.at = "failed", !.failure = why])
-----------------------------------------------------------------------------
(* Encodings: the functions compiled for a type are external, and taken at *)
(* their word; JSON is what it is                                          *)

Wired(by, v) == [by |-> by, of |-> v]
CompiledThrows(v) == v = "odd"
JsonThrows(v) == v = "big"

\* what a value that was encoded by one of them is decoded to; lost is what is left
\* of a value JSON does not keep
Decoded(w) == IF w.by = "compiled" \/ w.of = "plain" THEN w.of ELSE "lost"

\* isType, of a type of plain values or of one of rich ones
FitsType(m, v) == v \in IF m.plainParams THEN {"plain"} ELSE {"plain", "rich", "big"}
Fitting(m, args) == Len(args) = m.paramsCount /\ \A k \in DOMAIN args : FitsType(m, args[k])
-----------------------------------------------------------------------------
(* The client: validateSubRequests, serializeRequestBody *)

\* getTypeErrors: the parameters with the headers in front, whatever the type of
\* the parameters behind them says
LocallyRefused(id) == Method(id).paramsCount > 0 /\ ~Fitting(Method(id), crossing.params[id])

ValidateLocally ==
  /\ crossing.at = "validating"
  /\ IF crossing.client.validates /\ crossing.client.cached /\ \E id \in Ids : LocallyRefused(id)
       THEN Fail("validation-error") ELSE Go([crossing EXCEPT !.at = "serializing"])

\* getSerializerMode: the client's choice, else the route's
SerializerMode ==
  CASE crossing.client.optimistic -> IF crossing.client.cached THEN "stringifyJson" ELSE "optimistic"
    [] ~crossing.client.optimistic -> IF Method("route").serializer = "binary" THEN "binary" ELSE "stringifyJson"

\* fault: the headers go into the body as well
KeepHeaders(id) == crossing.params[id]

\* getParamsWithoutHeadersSubset
BodyParams(id) == IF Method(id).headers THEN Tail(crossing.params[id]) ELSE crossing.params[id]

\* serializeJSonBodyOptimistic: everything, by JSON.stringify
OptimisticBody == [id \in Ids |-> [k \in DOMAIN crossing.params[id] |-> Wired("json", crossing.params[id][k])]]

\* stringifyHandlerParams; without parameters a method is not in the body
JsonParams(id) ==
  LET by == IF Method(id).plainParams THEN "json" ELSE "compiled"
  IN IF Method(id).paramsCount = 0 THEN <<>> ELSE [k \in DOMAIN BodyParams(id) |-> Wired(by, BodyParams(id)[k])]
JsonBody == [id \in Ids |-> JsonParams(id)]

\* willSerialize of requests: what has no encoder is not sent, and nobody is told
BinaryBody ==
  [id \in Ids |-> IF Method(id).paramsCount = 0 \/ ~Method(id).binary THEN <<>>
                  ELSE [k \in DOMAIN BodyParams(id) |-> Wired("compiled", BodyParams(id)[k])]]

Throws(body) ==
  \E id \in Ids : \E k \in DOMAIN body[id] :
    IF body[id][k].by = "json" THEN JsonThrows(body[id][k].of) ELSE CompiledThrows(body[id][k].of)

BodyIn(mode) ==
  CASE mode = "optimistic" -> OptimisticBody [] mode = "stringifyJson" -> JsonBody [] mode = "binary" -> BinaryBody

\* extractRequestHeaders: only for methods the client has metadata of
SerializeRequest ==
  /\ crossing.at = "serializing"
  /\ LET body == BodyIn(SerializerMode) IN
       IF Throws(body) THEN Fail("serialization-error")
       ELSE Go([crossing EXCEPT !.at = "reading", !.mode = SerializerMode, !.body = body,
                                !.headers = crossing.client.cached])
-----------------------------------------------------------------------------
(* The server reads: deserializeRequestBody *)

\* a body that no client of mion sent: an array of the route's parameters, a value
\* that is no object, a falsy one, no JSON at all, or bytes of an unknown method or of
\* one without a decoder
RawBodies == {"array", "scalar", "null", "broken", "unreadable"}
SendRaw(kind) ==
  /\ crossing.at = "serializing" /\ crossing.client.raw = kind
  /\ Go([crossing EXCEPT !.at = "reading", !.mode = kind, !.headers = TRUE,
                         !.body = [id \in Ids |-> [k \in DOMAIN BodyParams(id) |-> Wired("json", BodyParams(id)[k])]]])

\* fault: an array is the parameters of the first method
ToFirst(body) == [id \in Ids |-> IF id = Chain[1] THEN body["route"] ELSE <<>>]

\* an array is the parameters of the route
ToRoute(body) == [id \in Ids |-> IF id = "route" THEN body["route"] ELSE <<>>]

NoBody == [id \in Ids |-> <<>>]
Thrown(id) == [crossing EXCEPT !.thrown = @ \cup {id}]

\* errors of the reader are recorded as thrown, under the reader's own id
DeserializeRequestBody ==
  /\ crossing.at = "reading"
  /\ LET m == crossing.mode IN
       Go(CASE m \in {"broken", "scalar", "unreadable"} -> [Thrown("mionDeserializeRequest") EXCEPT !.at = "running", !.body = NoBody]
            [] m = "null" -> [crossing EXCEPT !.at = "running", !.body = NoBody]
            [] m = "array" -> [crossing EXCEPT !.at = "running", !.body = ToRoute(@)]
            [] OTHER -> [crossing EXCEPT !.at = "running"])

\* fault: compiled decoders run on what they did not encode
DecodedTwice(id) == [k \in DOMAIN crossing.body[id] |-> "lost"]

\* deserializeBodyParamsOrThrow: a binary body was decoded as it was read, and plain
\* types need no decoding
RestoredParams(id) ==
  [k \in DOMAIN crossing.body[id] |->
     IF crossing.mode # "binary" /\ Method(id).plainParams
       THEN (IF crossing.body[id][k].of = "plain" THEN "plain" ELSE "lost")
       ELSE Decoded(crossing.body[id][k])]

\* runOnError is off for what clients call
Runs(id) == crossing.thrown = {}

\* the value of one handler: in the body, in the headers, thrown, or nowhere
Handled(id, args) ==
  LET c == [crossing EXCEPT !.got[id] = args, !.next = @ + 1]
      o == crossing.outcome[id]
  IN CASE o = "throws" -> [c EXCEPT !.thrown = @ \cup {id}]
       [] o \in {"void", "headers"} \/ ~Method(id).returns -> c
       [] OTHER -> [c EXCEPT !.values[id] = o]

\* runHeadersMiddleFn, runRouteOrMiddleFn; the decoder of a damaged value may throw
\* or leave it to the validation
RunMethod ==
  /\ crossing.at = "running" /\ crossing.next <= Len(Chain)
  /\ LET id == Chain[crossing.next]
         args == RestoredParams(id)
         refused == [Thrown(id) EXCEPT !.next = @ + 1]
     IN \/ ~Runs(id) /\ Go([crossing EXCEPT !.next = @ + 1])
        \/ Runs(id) /\ \E k \in DOMAIN args : args[k] = "lost" /\ Go(refused)
        \/ /\ Runs(id)
           /\ Go(IF \/ Method(id).headers /\ ~crossing.headers
                    \/ Method(id).validates /\ ~Fitting(Method(id), args)
                   THEN refused ELSE Handled(id, args))
-----------------------------------------------------------------------------
(* The server writes: serializeResponseBody *)

Returned == {id \in Ids : crossing.values[id] # Absent}
Written(by) == [id \in DOMAIN by |-> Wired(by[id], crossing.values[id])]
AllCompiled(ids) == [id \in ids |-> "compiled"]

\* stringifyHandlerReturnValue: plain types pass JSON.stringify as well, for nothing
CannotStringify == {id \in Returned : \/ CompiledThrows(crossing.values[id])
                                      \/ Method(id).plainReturn /\ JsonThrows(crossing.values[id])}

\* prepareHandlerReturnValue: plain types are left alone
CannotPrepare == {id \in Returned : ~Method(id).plainReturn /\ CompiledThrows(crossing.values[id])}

\* errors that were thrown are written after the values; those of the encoders join
\* them only if there was one before, since the record is looked at first
ErrorsWritten(unwritable) == IF crossing.thrown = {} THEN {} ELSE crossing.thrown \cup unwritable

Response(type, body, thrown) == [type |-> type, body |-> body, thrown |-> thrown]

\* the lane that stringifies: a value that cannot be written is left out
StringifyBody == Response("json", Written(AllCompiled(Returned \ CannotStringify)), ErrorsWritten(CannotStringify))

\* the lane that prepares: it stays as it is, and the platform stringifies the body
PreparedBody ==
  LET by == [id \in Returned |-> IF Method(id).plainReturn \/ id \in CannotPrepare THEN "json" ELSE "compiled"]
  IN IF \E id \in Returned : by[id] = "json" /\ JsonThrows(crossing.values[id])
       THEN Response("platform", [id \in {} |-> Absent], {})
       ELSE Response("json", Written(by), ErrorsWritten(CannotPrepare))

\* fault: a method without a type is written too
WillSerializeAny(id) == id \in Returned

\* willSerialize of responses
WillSerialize(id) == id \in Returned /\ Method(id).binary

\* the binary lane: no thrown errors, and one value that cannot be written is the end of it
BinaryResponse ==
  LET ids == {id \in Ids : WillSerialize(id)}
  IN IF \E id \in ids : CompiledThrows(crossing.values[id]) THEN Response("platform", [id \in {} |-> Absent], {})
     ELSE Response("binary", Written(AllCompiled(ids)), {})

SerializeResponseBody ==
  /\ crossing.at = "running" /\ crossing.next > Len(Chain)
  /\ LET s == Method("route").serializer IN
       Go([crossing EXCEPT !.at = "answered",
             !.wire = CASE s = "stringifyJson" -> StringifyBody [] s = "json" -> PreparedBody [] s = "binary" -> BinaryResponse])

\* something else than the server answers
AnswerForeign == crossing.at = "reading" /\ Go([crossing EXCEPT !.at = "answered",
                                                   !.wire = Response("html", [id \in {} |-> Absent], {})])
-----------------------------------------------------------------------------
(* The client reads: deserializeResponseBody *)

Stale(id) == id \in crossing.client.stale

\* fault: errors are decoded by the functions of the type
RestoreFirst(id, w) == IF Stale(id) THEN "deserialization-error" ELSE Decoded(w)

\* parseHandlerJsonReturnValue: errors are known by their shape, before the functions
\* of the type are asked, and those may no longer fit what the server sends
ParsedReturn(id, w) ==
  CASE Method(id).plainReturn -> w.of
    [] ~Method(id).plainReturn /\ w.of = "declared" -> "declared"
    [] OTHER -> IF Stale(id) \/ Decoded(w) = "lost" THEN "deserialization-error" ELSE Decoded(w)

\* deserializeBinaryBody: one value that cannot be read is the end of it
BinaryUnreadable == \E id \in DOMAIN crossing.wire.body : Stale(id) \/ ~Method(id).binary

SlotsOf(read) == [id \in Ids |-> IF id \in DOMAIN read THEN read[id] ELSE Absent]

\* fault: thrown errors are put in the slots of their methods as if returned
Flattened(c) == [c EXCEPT !.slots = [id \in Ids |-> IF id \in c.wire.thrown THEN "declared" ELSE c.slots[id]]]

\* extractThrownErrors: kept apart from what was returned
ThrownApart(c) == [c EXCEPT !.unexpected = c.wire.thrown]

DeserializeResponseBody ==
  /\ crossing.at = "answered"
  /\ LET w == crossing.wire IN
       CASE w.type = "html" -> Fail("unsupported-content-type")
         [] w.type = "platform" -> Fail("platform-error")
         [] w.type = "binary" /\ BinaryUnreadable -> Fail("binary-response-method-Deserialization-error")
         [] w.type = "binary" /\ ~BinaryUnreadable ->
              Go([crossing EXCEPT !.at = "settled", !.slots = SlotsOf([id \in DOMAIN w.body |-> Decoded(w.body[id])])])
         [] w.type = "json" ->
              Go(ThrownApart([crossing EXCEPT !.at = "settled", !.slots = SlotsOf([id \in DOMAIN w.body |-> ParsedReturn(id, w.body[id])])]))

CrossingNext ==
  \/ ValidateLocally \/ (crossing.client.raw = Absent /\ SerializeRequest) \/ (\E kind \in RawBodies : SendRaw(kind))
  \/ DeserializeRequestBody \/ RunMethod \/ SerializeResponseBody \/ AnswerForeign \/ DeserializeResponseBody
-----------------------------------------------------------------------------
(* The measure pass of a binary response counts bytes it does not write *)

\* UTF-16 units: ascii, below U+0800, any other, and the two halves of a pair
Units == {"ascii", "two", "three", "high", "low"}

\* utf8ByteLength: a high half takes the next unit with it, whatever that is
Measured[text \in Seq(Units)] ==
  IF text = <<>> THEN 0
  ELSE CASE Head(text) = "ascii" -> 1 + Measured[Tail(text)]
         [] Head(text) = "two" -> 2 + Measured[Tail(text)]
         [] Head(text) \in {"three", "low"} -> 3 + Measured[Tail(text)]
         [] Head(text) = "high" -> 4 + (IF Len(text) > 1 THEN Measured[Tail(Tail(text))] ELSE 0)

\* TextEncoder: half a pair becomes U+FFFD
Encoded[text \in Seq(Units)] ==
  IF text = <<>> THEN 0
  ELSE CASE Head(text) = "ascii" -> 1 + Encoded[Tail(text)]
         [] Head(text) = "two" -> 2 + Encoded[Tail(text)]
         [] Head(text) \in {"three", "low"} -> 3 + Encoded[Tail(text)]
         [] Head(text) = "high" -> IF Len(text) > 1 /\ text[2] = "low" THEN 4 + Encoded[Tail(Tail(text))]
                                   ELSE 3 + Encoded[Tail(text)]

\* fault: as if all eight bits of a byte were the number's
EightBits(n) == CASE n < 256 -> 1 [] n >= 256 /\ n < 65536 -> 2 [] n >= 65536 /\ n < 16777216 -> 3 [] OTHER -> 4

\* varintLen, and what LEB128 takes
VarintLen(n) == CASE n < 128 -> 1 [] n >= 128 /\ n < 16384 -> 2 [] n >= 16384 /\ n < 2097152 -> 3
                  [] n >= 2097152 /\ n < 268435456 -> 4 [] OTHER -> 5
Leb128(n) == CHOOSE k \in 1 .. 5 : (k = 5 \/ n < 128 ^ k) /\ \A j \in 1 .. k - 1 : n >= 128 ^ j
-----------------------------------------------------------------------------
(* Errors are known by their shape: the keys that have a value and can be seen *)

TypedKeys == {"mion@isError", "type", "message", "name", "stack"}
RpcKeys == TypedKeys \cup {"id", "publicMessage", "errorData", "statusCode"}
Shaped(class, keys) == [class |-> class, keys |-> keys]
ErrorShapes == [class : {"object", "Error"}, keys : SUBSET (RpcKeys \cup {"other"})]

\* the constructors: message, name and stack are there but not enumerable
NewTypedError == Shaped("TypedError", {"mion@isError", "type"})
NewRpcError(given) ==
  Shaped("RpcError", {"mion@isError", "type", "publicMessage"} \cup (given \cap {"id", "errorData", "statusCode"}))

\* fault: a value with keys of its own besides
OthersPass(v, keys) == FALSE

HasUnknownKeys(v, keys) == ~(v.keys \subseteq keys)

IsTypedError(v) ==
  \/ v.class \in {"TypedError", "RpcError"}
  \/ {"mion@isError", "type"} \subseteq v.keys /\ ~HasUnknownKeys(v, TypedKeys)

IsRpcError(v) ==
  \/ v.class = "RpcError"
  \/ {"mion@isError", "type"} \subseteq v.keys /\ ~HasUnknownKeys(v, RpcKeys)

IsAnyError(v) == "mion@isError" \in v.keys \/ v.class # "object"

\* JSON keeps what is enumerable, and no class
OverJson(v) == Shaped("object", v.keys)
-----------------------------------------------------------------------------
(* Properties *)

Passed == {id \in Ids : crossing.got[id] # <<Absent>>}

\* a client that knows the methods calls them as they are declared
AsDeclared ==
  /\ crossing.client.cached /\ crossing.client.raw = Absent
  /\ \A id \in Ids : Fitting(Method(id), BodyParams(id))
  /\ crossing.mode = "binary" => \A id \in Ids : Method(id).binary

\* What a handler is given is what the program passed for it, whatever mode the body
\* was sent in (serializer.ts:64-136, serializer.routes.ts:34-76, dispatch.ts:153-213):
\* values JSON does not keep are refused, never handed over damaged, and a call that
\* fits its declaration is not refused.  An array is nobody's but the route's.
ParamsArrive ==
  /\ AsDeclared => crossing.thrown \subseteq {id \in Ids : crossing.outcome[id] = "throws"}
  /\ \A id \in Passed : Method(id).validates => crossing.got[id] = BodyParams(id)
  /\ crossing.client.raw = "array" => \A id \in Passed \ {"route"} : crossing.got[id] = <<>>
  /\ crossing.failure = "validation-error" =>
       \E id \in Ids : Method(id).headers \/ ~Fitting(Method(id), BodyParams(id))

\* a slot holds the answer of its own method or says it could not be read, and every
\* answer that was written has its slot
SettledWell ==
  crossing.at = "settled" =>
    /\ \A id \in Ids : crossing.slots[id] # Absent =>
         /\ id \in Passed /\ crossing.outcome[id] \notin {"throws", "void", "headers"}
         /\ \/ crossing.slots[id] = crossing.outcome[id]
            \/ crossing.slots[id] = "deserialization-error" /\ (Stale(id) \/ crossing.outcome[id] = "odd")
    /\ crossing.wire.type = "json" =>
         /\ crossing.thrown \subseteq crossing.unexpected
         /\ \A id \in Passed : /\ crossing.outcome[id] = "throws" => id \in crossing.unexpected
                              /\ crossing.values[id] \notin {Absent, "odd"} => crossing.slots[id] # Absent
    /\ crossing.wire.type = "binary" =>
         \A id \in Passed : Method(id).binary /\ crossing.values[id] # Absent => crossing.slots[id] # Absent

\* What a handler answered is in its own slot and nobody else's, as it was unless the
\* client no longer knows its type; errors that were declared come back as such, thrown
\* ones apart from them, and a method that did not run has no answer
\* (serializer.routes.ts:83-218, serializer.ts:161-258).  A client that knows the types
\* can read whatever the binary lane sends (bodySerializer.ts:318-332).
AnswersArrive ==
  /\ crossing.failure = "binary-response-method-Deserialization-error" => crossing.client.stale # {}
  /\ SettledWell

\* The measure pass finds the bytes the encoder writes for every text whose high halves
\* are followed by low ones, so that the exact attempt that follows it fits; lengths
\* take the bytes of their LEB128 form (dataView.ts:83-106).
Texts == UNION {[1 .. n -> Units] : n \in 0 .. 3}
WellFormed(text) == \A k \in DOMAIN text : text[k] = "high" => k < Len(text) /\ text[k + 1] = "low"
Boundaries == {k : k \in 0 .. 3} \cup UNION {{128 ^ k - 1, 128 ^ k, 128 ^ k + 1} : k \in 1 .. 4}
MeasureExact ==
  /\ \A text \in Texts : WellFormed(text) => Measured[text] = Encoded[text]
  /\ \A n \in Boundaries : VarintLen(n) = Leb128(n)

\* An error is known for one where it arrives as where it was made, keeps all it was
\* made with, and a value that only looks like one is not taken for one if making an
\* error of it would lose a key (errors.ts:164-227, serializer.ts:205-250).  A
\* TypedError arrives as an RpcError without a public message.
ErrorsKnown ==
  /\ \A given \in SUBSET RpcKeys :
       LET e == NewRpcError(given)
       IN IsRpcError(OverJson(e)) /\ NewRpcError(OverJson(e).keys) = e
  /\ IsTypedError(OverJson(NewTypedError)) /\ IsRpcError(OverJson(NewTypedError))
  /\ \A v \in ErrorShapes :
       /\ IsRpcError(v) => v.keys \ {"message", "name", "stack"} \subseteq NewRpcError(v.keys).keys
       /\ IsTypedError(v) \/ IsRpcError(v) => IsAnyError(v)

\* Values cross: those four.
ValuesCross == ParamsArrive /\ AnswersArrive /\ MeasureExact /\ ErrorsKnown
=============================================================================
