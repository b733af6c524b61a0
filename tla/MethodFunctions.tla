--------------------------- MODULE MethodFunctions ---------------------------
(***************************************************************************)
(* How a method comes by its compiled functions.  The build puts them, one *)
(* slot per family, into the calls of route() and middleFn() (router/src   *)
(* /lib/handlers.ts); registration projects the slots and makes a method   *)
(* of them (core/src/runtypes/mionAdapter.ts, router/src/lib/reflection.ts,*)
(* router.ts); the server describes the method with every function it      *)
(* needs (router/src/lib/remoteMethods.ts), and a client assembles it from *)
(* them again (core/src/routerUtils.ts).                                   *)
(*                                                                         *)
(* A function is a family of a type.  The two methods are a middleFn,      *)
(* possibly of headers, and a route behind it; they may share a type.      *)
(***************************************************************************)
EXTENDS Naturals, Sequences, FiniteSets, SequencesExt, TLC

VARIABLE making  \* what was built, what is registered, what the client has

MethodIds == {"mw", "call"}
Nil == <<"none">>
None == "none"
Unset == "unset"

Required == {"val", "verr", "pj", "rj", "sj"}
Families == Required \cup {"huk", "uke", "tb", "fb"}

\* the factories' markers: what a build fills in, slot by slot
Markers == <<"val", "verr", "pj", "rj", "sj", "huk", "uke", "tb", "fb">>

MION_FN_KEYS == <<"val", "verr", "pj", "rj", "sj", "huk", "uke", "tb", "fb">>
MION_HEADER_FN_KEYS == <<"val", "verr">>

\* fault: options of the program's win
OptsWin(factory, opts) == IF opts # Unset THEN opts ELSE IF factory = "mutation" THEN "yes" ELSE IF factory = "query" THEN "no" ELSE Unset

\* query, mutation, route: isMutation is the factory's business
IsMutation(factory, opts) == CASE factory = "query" -> "no" [] factory = "mutation" -> "yes" [] OTHER -> opts

\* A program: its definitions, how many of the markers its build filled, for which
\* families it emitted functions of a type, and of which types those do nothing; the
\* pure functions they call.
Program(defs, filled, emitted, noop, rtDeps, pureDeps, pures) ==
  [defs |-> defs, filled |-> filled, emitted |-> emitted, noop |-> noop,
   rtDeps |-> rtDeps, pureDeps |-> pureDeps, pures |-> pures]

Making(program, router) ==
  [program |-> program, router |-> router, failure |-> None, cache |-> {},
   executables |-> [id \in {} |-> None], warned |-> {},
   described |-> {}, refused |-> {}, clientFns |-> {}, clientPures |-> {},
   clientMemo |-> [t \in {} |-> None], used |-> [id \in {} |-> None]]

MakingInit(program, router) == making = Making(program, router)

Def(id) == making.program.defs[id]
Become(changed) == making' = changed
-----------------------------------------------------------------------------
(* Registration *)

\* the payload of one side: a slot is nil for what was not emitted
Payload(id, t) ==
  [k \in 1 .. making.program.filled[id] |-> IF Markers[k] \in making.program.emitted[t] THEN Markers[k] ELSE None]

\* byFnKey: which function ends up under which key
ByFnKey(injected, keys) ==
  [f \in {keys[k] : k \in {j \in DOMAIN keys : j <= Len(injected) /\ injected[j] # None}} |->
     injected[CHOOSE k \in DOMAIN keys : keys[k] = f]]

\* fault: what is missing falls back like the optional ones
NeverIncomplete(fns) == FALSE

\* a payload cut short would switch off validation
Incomplete(fns) == ~(Required \subseteq DOMAIN fns)

\* fault: dependencies are one level deep
OneLevel(roots, deps) == roots \cup UNION {deps[r] : r \in roots}

\* serializeJitFn, serializePureDeps, an entry's init: these and all they call, however deep
Closure(roots, deps) ==
  LET reach[n \in Nat] ==
        IF n = 0 THEN roots ELSE LET before == reach[n - 1] IN before \cup UNION {deps[x] : x \in before}
  IN reach[Cardinality(DOMAIN deps)]

\* getRTFunction: an initialized tuple is in the runtime cache under the family and type it
\* really is of, and so is everything it calls
Initialized(fns, t) == Closure({<<fns[f], t>> : f \in DOMAIN fns}, making.program.rtDeps)

\* fault: binary functions are made up like the others
AllMadeUp(t, cache) == [f \in Families |-> IF <<f, t>> \in cache THEN <<f, t>> ELSE <<"made up", t>>]

\* buildJitFnsFromMarker: the cache's entry, else a made-up function; none for binary
JitFns(t, cache) ==
  [f \in Families |-> IF <<f, t>> \in cache THEN <<f, t>>
                      ELSE IF f \in {"tb", "fb"} THEN Nil ELSE <<"made up", t>>]

\* getHeaderNamesFromRunType: the first HeadersSubset of a union
HasHeaders(kinds) == "HeadersSubset" \in ToSet(kinds)

\* runTypeHasData
HasData(kinds) == ~(Len(kinds) = 1 /\ kinds[1] \in {"void", "never", "undefined"})

\* the options of an executable: what the definition leaves open is the router's
Options(def) ==
  [isMutation |-> IsMutation(def.factory, def.isMutation),
   validateParams |-> IF def.validateParams = Unset THEN "yes" ELSE def.validateParams,
   strictTypes |-> IF def.strictTypes = Unset THEN making.router.strictTypes ELSE def.strictTypes,
   serializer |-> IF def.factory \in {"middleFn", "headersFn"} THEN Unset
                  ELSE IF def.serializer = Unset THEN making.router.serializer ELSE def.serializer]

\* getReflectionFromMarkers, getHeadersReflectionFromMarkers, and the executable of both
Executable(id, cache) ==
  LET def == Def(id) IN
  [factory |-> def.factory, paramsCount |-> def.paramsCount, hasReturnData |-> HasData(def.returns),
   headersParam |-> def.factory = "headersFn", headersReturn |-> HasHeaders(def.returns),
   types |-> [params |-> def.params, returns |-> def.return],
   paramsFns |-> JitFns(def.params, cache), returnFns |-> JitFns(def.return, cache),
   options |-> Options(def)]

\* getHeadersReflectionFromMarkers: a headersFn takes a HeadersSubset
TakesNoHeaders(id) == Def(id).factory = "headersFn" /\ ~HasHeaders(Def(id).takes)

\* buildHeaderJitFnsFromMarker: and has both functions of it
HeaderFnsCutShort(id) == Def(id).factory = "headersFn" /\ making.program.filled[id] < Len(MION_HEADER_FN_KEYS)

\* a registration that fails, fails as a whole
Cause(id) ==
  CASE making.program.filled[id] = 0 -> "nothing injected"
    [] TakesNoHeaders(id) -> "no HeadersSubset"
    [] making.router.codeGenBlocked -> "unsafe-eval"
    [] \E t \in {Def(id).params, Def(id).return} : Incomplete(ByFnKey(Payload(id, t), MION_FN_KEYS)) -> "incomplete"
    [] HeaderFnsCutShort(id) -> "incomplete"
    [] OTHER -> None

\* getHandlerReflection: it says which of two things is wrong with the build
RegistrationError(id) ==
  CASE Cause(id) = None -> None
    [] Cause(id) = "unsafe-eval" -> "RuntimeCodeGenBlockedError"
    [] OTHER -> "MissingRtFnsError"

\* getExecutableFromMiddleFn, getExecutableFromRoute
Register(id) ==
  /\ making.failure = None /\ id \notin DOMAIN making.executables
  /\ id = "call" => "mw" \in DOMAIN making.executables
  /\ LET def == Def(id)
         cache == making.cache \cup UNION {Initialized(ByFnKey(Payload(id, t), MION_FN_KEYS), t) : t \in {def.params, def.return}}
     IN IF RegistrationError(id) # None THEN Become([making EXCEPT !.failure = RegistrationError(id)])
        ELSE Become([making EXCEPT !.cache = cache, !.executables = (id :> Executable(id, cache)) @@ @])

Registered == making.failure = None /\ DOMAIN making.executables = MethodIds

\* ensureBinaryJitFns: what of a middleFn cannot ride in binary bodies
MissingBinary(e) ==
  {<<"params", f>> : f \in {g \in {"tb", "fb"} : e.types.params \notin making.program.noop /\ e.paramsFns[g] = Nil}}
  \cup (IF e.hasReturnData THEN {<<"return", f>> : f \in {g \in {"tb", "fb"} : e.returnFns[g] = Nil}} ELSE {})

\* compileBinaryForMiddleware: the middleFns of binary routes, once each
WarnOfBinary ==
  /\ Registered /\ making.executables["call"].options.serializer = "binary" /\ "mw" \notin making.warned
  /\ MissingBinary(making.executables["mw"]) # {}
  /\ Become([making EXCEPT !.warned = @ \cup {"mw"}])
-----------------------------------------------------------------------------
(* The server describes a method *)

\* fault: header parameters are not looked at
HeadersAside(e) == e.factory \in {"middleFn", "headersFn"} /\ e.paramsCount = 0 /\ ~e.hasReturnData

\* isPrivateExecutable
IsPrivate(e) == e.factory \in {"middleFn", "headersFn"} /\ e.paramsCount = 0 /\ ~e.headersParam /\ ~e.hasReturnData

\* fault: binary functions stay behind
RootsOfJson(e) == {<<f, t>> : f \in Families \ {"tb", "fb"}, t \in {e.types.params, e.types.returns}} \cap making.cache

\* serializeMethodDeps starts with every family there is of both types
Roots(e) == {<<f, t>> : f \in Families, t \in {e.types.params, e.types.returns}} \cap making.cache

\* built-in pure functions never ride the wire
Builtin(p) == making.program.pures[p].namespace \in {"rt", "rtFormats"}
PuresFor(fns) ==
  LET pures == making.program.pures
      asked == {p \in UNION {making.program.pureDeps[f] : f \in fns} : ~Builtin(p)}
  IN Closure(asked, [p \in DOMAIN pures |-> pures[p].deps])

\* the rest of getSerializableMethod: headersReturn is not described
Metadata(e) == [types |-> e.types, paramsCount |-> e.paramsCount, hasReturnData |-> e.hasReturnData,
                headersParam |-> e.headersParam, options |-> e.options]

\* the description is as good as its weakest dependency: one that has no code, or is not
\* there, is an error and nothing is described
Describe(id) ==
  /\ Registered /\ id \notin making.described \cup making.refused
  /\ ~IsPrivate(making.executables[id])
  /\ LET fns == Closure(Roots(making.executables[id]), making.program.rtDeps)
         pures == PuresFor(fns)
     IN IF \/ ~(fns \subseteq making.cache)
           \/ \E p \in pures : ~making.program.pures[p].code
          THEN Become([making EXCEPT !.refused = @ \cup {id}])
          ELSE Become([making EXCEPT !.described = @ \cup {id}, !.clientFns = @ \cup fns, !.clientPures = @ \cup pures])
-----------------------------------------------------------------------------
(* The client uses it *)

\* getJitFunctionsFromHash: five are needed, the others are there if they are there;
\* the object is kept for the type
Assembled(t) ==
  IF t \in DOMAIN making.clientMemo THEN making.clientMemo[t]
  ELSE [f \in Families |-> IF <<f, t>> \in making.clientFns THEN <<f, t>> ELSE Nil]
Assembles(t) == \A f \in Required : Assembled(t)[f] # Nil

\* getMethodJitFns
Use(id) ==
  /\ id \in making.described /\ id \notin DOMAIN making.used
  /\ LET e == making.executables[id]
         types == {e.types.params, e.types.returns}
     IN /\ \A t \in types : Assembles(t)
        /\ Become([making EXCEPT
                 !.used = (id :> [paramsFns |-> Assembled(e.types.params), returnFns |-> Assembled(e.types.returns),
                                  metadata |-> Metadata(e)]) @@ @,
                 !.clientMemo = [t \in types |-> Assembled(t)] @@ @])

MakingNext == WarnOfBinary \/ \E id \in MethodIds : Register(id) \/ Describe(id) \/ Use(id)
-----------------------------------------------------------------------------
(* Properties *)

SidesOf(e) == {<<e.paramsFns, e.types.params>>, <<e.returnFns, e.types.returns>>}
OneBuild == making.program.filled["mw"] = making.program.filled["call"]

\* No method runs with a validator or a coder that was made up: a payload cut short by
\* other versions of the plugin fails the registration (mionAdapter.ts:212-219).
NeverMadeUp ==
  \A id \in DOMAIN making.executables :
    \A s \in SidesOf(making.executables[id]) : \A f \in Required : s[1][f] = <<f, s[2]>>

\* A client codes and validates with the functions the server does, binary ones included
\* where both sides of a connection have them (unless two builds share a type), and
\* every function it has finds those it calls.
SameFunctions ==
  /\ \A id \in DOMAIN making.used :
       LET u == making.used[id] IN
       LET e == making.executables[id] IN
       \A f \in Families :
         \/ u.paramsFns[f] = e.paramsFns[f] /\ u.returnFns[f] = e.returnFns[f]
         \/ f \notin Required /\ ~OneBuild
         \/ f \in {"huk", "uke"} /\ Nil \in {u.paramsFns[f], u.returnFns[f]}
  /\ \A x \in making.clientFns :
       /\ making.program.rtDeps[x] \subseteq making.clientFns
       /\ {p \in making.program.pureDeps[x] : ~Builtin(p)} \subseteq making.clientPures
  /\ \A p \in making.clientPures : making.program.pures[p].code /\ making.program.pures[p].deps \subseteq making.clientPures

\* What is described can be used, and what a client has to send for a call to pass is
\* described; queries stay queries.
DescribedWell ==
  /\ \A id \in making.described : \A t \in {making.executables[id].types.params, making.executables[id].types.returns} : Assembles(t)
  /\ \A id \in DOMAIN making.executables :
       LET e == making.executables[id] IN
       /\ IsPrivate(e) => e.paramsCount = 0 /\ Def(id).takes = <<>> /\ ~e.hasReturnData
       /\ e.factory = "query" => e.options.isMutation = "no"
       /\ Def(id).validateParams = Unset => e.options.validateParams = "yes"

\* Functions agree: those three (RunTypes' part is taken at its word).
FunctionsAgree == NeverMadeUp /\ SameFunctions /\ DescribedWell
=============================================================================
