---------------------------- MODULE MCStandalone ----------------------------
(* The seven machines that have no state in common with any other: which one *)
(* runs is chosen at the start, and the others stay where they are.         *)
EXTENDS SizeStats, RouterRules, TableMapping, Wire, MethodFunctions, ClientFlows, Servers

CONSTANTS k1, k2, k3

Symmetry == Permutations(Keys)

VARIABLE machine  \* the one that runs

(* Files for the lint rules: each has one thing the rules look at *)

Props == {"a", "b", "c"}
TypeLiterals == UNION {[ps -> BOOLEAN] : ps \in SUBSET Props}
Strict == {[p \in ps |-> FALSE] : ps \in SUBSET Props \ {{}}}

Import(n) == [name |-> n, local |-> n]
NoBackend == [kind |-> "none", matches |-> FALSE, typeOnly |-> FALSE, specifiers |-> <<>>]
ContextParam == [shape |-> "name", typed |-> FALSE, default |-> "none"]
TypedParam == [shape |-> "name", typed |-> TRUE, default |-> "none"]
Handler == [how |-> "inline", by |-> "route", exported |-> FALSE, returns |-> TRUE,
            params |-> <<ContextParam, TypedParam>>, union |-> <<>>, place |-> 0, nested |-> FALSE,
            alias |-> "none", object |-> {}, returnAt |-> "body"]
File == [imports |-> {Import("route"), Import("headersFn"), Import("Handler")}, handler |-> Handler,
         mapper |-> "none", mapperImported |-> TRUE, backend |-> NoBackend]

Shapes == {"name", "pattern", "rest", "restPattern", "default", "defaultPattern"}
Defaults == {"literal", "bigint", "undefined", "negative", "negative bigint", "regex", "object"}
Params == [shape : Shapes \ {"default", "defaultPattern"}, typed : BOOLEAN, default : {"none"}]
          \cup [shape : {"default", "defaultPattern"}, typed : BOOLEAN, default : Defaults]
Hows == {<<"inline", "route">>, <<"reference", "route">>, <<"inline", "r">>, <<"annotation", "Handler">>,
         <<"satisfies", "Handler">>, <<"jsdoc", "route">>}
HandlerFile ==
  \/ \E x \in Hows, e, r \in BOOLEAN, p \in Params, is \in {File.imports, {[name |-> "route", local |-> "r"]}} :
       FileInit([File EXCEPT !.handler.how = x[1], !.handler.by = x[2], !.handler.exported = e,
                             !.handler.returns = r, !.handler.params = <<ContextParam, p>>, !.imports = is])
  \/ \E p, q \in Params :
       FileInit([File EXCEPT !.handler.by = "headersFn", !.handler.params = <<ContextParam, p, q>>])

UnionOf(us) == [File EXCEPT !.handler.union = us]
UnionFile ==
  \/ \E t, u, v \in TypeLiterals : FileInit(UnionOf(<<t, u, v>>))
  \/ \E place \in 0 .. 3, by \in {"route", "headersFn"}, alias \in {"none", "local", "exported"},
        shape \in {"name", "rest", "default"} :
       FileInit([UnionOf(<<[a |-> FALSE], [i \in {"a", "b"} |-> FALSE]>>) EXCEPT
                   !.handler.place = place, !.handler.by = by, !.handler.alias = alias,
                   !.handler.params = <<ContextParam, TypedParam, [TypedParam EXCEPT !.shape = shape]>>])

MixedFile ==
  \E t, u \in Strict, v \in Strict \cup {<<>>}, o \in SUBSET Props, at \in {"body", "loop"}, n \in BOOLEAN :
    FileInit([UnionOf(<<t, u, v>>) EXCEPT !.handler.object = o, !.handler.returnAt = at, !.handler.nested = n])

Specifier == [form : {"named"}, type : BOOLEAN] \cup [form : {"default", "namespace"}, type : {FALSE}]
BackendFile ==
  \E k \in {"import", "export", "exportAll"}, m \in BOOLEAN, ss \in UNION {[1 .. n -> Specifier] : n \in 0 .. 3} :
    /\ k = "export" => \A i \in DOMAIN ss : ss[i].form = "named"
    /\ FileInit([File EXCEPT !.backend = [kind |-> k, matches |-> m, typeOnly |-> FALSE, specifiers |-> ss]])

MapperFile ==
  \E m \in {"missing", "function", "string", "other"}, i \in BOOLEAN :
    FileInit([File EXCEPT !.mapper = m, !.mapperImported = i])

AnyFile == HandlerFile \/ UnionFile \/ MixedFile \/ BackendFile \/ MapperFile
-----------------------------------------------------------------------------
(* Tables of a property that varies and one that does not *)

Prop(kind, base, format) ==
  [name |-> "p", kind |-> kind, base |-> base, class |-> Undefined, optional |-> FALSE, format |-> format,
   maxLength |-> 0, length |-> 0, integer |-> FALSE]
Other == [Prop("number", "number", Undefined) EXCEPT !.name = "q", !.optional = TRUE]

Formats == {"uuid", "email", "url", "domain", "ip", "dateTime", "date", "time", "stringFormat", "pattern"}
Plain ==
  {Prop(k, k, Undefined) : k \in Primitives}
  \cup {Prop("array", "array", Undefined), Prop("objectLiteral", "object", Undefined),
        Prop("union", "number", Undefined)}
  \cup {[Prop("class", "class", Undefined) EXCEPT !.class = c] : c \in {"Date", "Map"}}
Formatted ==
  {Prop("string", "string", f) : f \in Formats}
  \cup {[Prop("string", "string", f) EXCEPT !.maxLength = m] : f \in {"email", "url", "domain"}, m \in {41, 300}}
  \cup {[Prop("string", "string", "stringFormat") EXCEPT !.maxLength = m, !.length = l] :
          m \in {0, 41, 300}, l \in {0, 36, 300}}
  \cup {[Prop("number", "number", "numberFormat") EXCEPT !.integer = i] : i \in BOOLEAN}
  \cup {Prop("bigint", "bigint", "bigintFormat")}

Values == Primitives \cup {"json", "date"}
Given1(v) == [n \in {"p"} |-> IF v = Undefined THEN Undefined ELSE Column("given", v, 0)]
Given2(v) == [n \in {"p", "extra"} |-> Column("given", v, 0)]
OneTable == TableInit("pg", "objectLiteral", <<Other>>, Undefined, <<3, 2>>)

AnyTable ==
  \E db \in {"pg", "mysql", "sqlite"}, kind \in {"objectLiteral", "class", "array", "unresolved"},
     p \in Plain \cup Formatted, optional \in BOOLEAN, buffer \in {<<3, 2>>, <<1, 1>>} :
    \E config \in {Undefined, <<>>} \cup {Given1(v) : v \in Values \cup {Undefined}} \cup {Given2(v) : v \in Values} :
      /\ kind # "objectLiteral" => config = Undefined /\ p.kind = "string"
      /\ buffer # <<3, 2>> => config = Undefined
      /\ TableInit(db, kind, <<[p EXCEPT !.optional = optional], Other>>, config, buffer)
-----------------------------------------------------------------------------
(* Calls whose parameters vary, and calls whose answers do *)

Guards == [headers : BOOLEAN, paramsCount : {0, 1}, validates : {TRUE}, plainParams : {FALSE},
           plainReturn : {FALSE}, returns : {TRUE}, binary : {TRUE}, serializer : {"none"}]
Routes == [headers : {FALSE}, paramsCount : {1}, validates : BOOLEAN, plainParams : BOOLEAN, plainReturn : BOOLEAN,
           returns : {TRUE}, binary : BOOLEAN, serializer : {"json", "stringifyJson", "binary"}]
Pair(g, r) == [id \in Ids |-> IF id = "guard" THEN g ELSE r]
Given0(g, v) == (IF g.headers THEN <<"headers">> ELSE <<>>) \o (IF g.paramsCount = 1 THEN <<v>> ELSE <<>>)

ParamsSide ==
  \E g \in Guards, r \in Routes, v \in {"plain", "odd"}, w \in {"plain", "rich", "big", "odd"},
     validates, cached, optimistic \in BOOLEAN, raw \in {Absent} \cup RawBodies :
    /\ ~r.plainReturn
    /\ cached \/ optimistic
    /\ raw # Absent => validates /\ cached /\ ~optimistic
    /\ CrossingInit(Pair(g, r), [validates |-> validates, cached |-> cached, optimistic |-> optimistic, raw |-> raw, stale |-> {}],
                    Pair(Given0(g, v), <<w>>), Pair("void", "plain"))

ReturnSide ==
  \E g \in Guards, r \in Routes, o \in {"void", "headers", "throws", "declared", "plain"},
     p \in {"void", "plain", "rich", "big", "odd", "declared", "throws"}, stale \in SUBSET Ids :
    /\ r.plainReturn => p \notin {"rich", "big"}
    /\ g.headers /\ g.paramsCount = 0 /\ r.validates /\ r.plainParams
    /\ CrossingInit(Pair(g, r), [validates |-> TRUE, cached |-> TRUE, optimistic |-> FALSE, raw |-> Absent, stale |-> stale],
                    Pair(<<"headers">>, <<"plain">>), Pair(o, p))

AnyCrossing == ParamsSide \/ ReturnSide
OneCrossing ==
  LET g == CHOOSE g \in Guards : g.headers
      r == CHOOSE r \in Routes : TRUE
  IN CrossingInit(Pair(g, r), [validates |-> TRUE, cached |-> TRUE, optimistic |-> FALSE, raw |-> Absent, stale |-> {}],
                  Pair(<<"headers">>, <<"plain">>), Pair("void", "plain"))
-----------------------------------------------------------------------------
(* Programs: how much of each side was filled in, and what their functions call *)

Definition(factory, params, returns) ==
  [factory |-> factory, takes |-> IF factory = "headersFn" THEN <<"HeadersSubset">> ELSE <<>>,
   paramsCount |-> IF params = "Q" THEN 0 ELSE 1, params |-> params, return |-> "R", returns |-> returns,
   isMutation |-> Unset, validateParams |-> Unset, strictTypes |-> Unset, serializer |-> Unset]

Types == {"P", "Q", "R", "N", "L"}
FnIds == Families \X Types
RtDeps == [x \in FnIds |-> CASE x[2] = "P" -> {<<x[1], "N">>} [] x[2] = "N" -> {<<x[1], "L">>} [] OTHER -> {}]
PureDeps == [x \in FnIds |-> CASE x = <<"val", "L">> -> {"check"} [] x = <<"val", "P">> -> {"builtin"} [] OTHER -> {}]
Pures(code) ==
  "check" :> [namespace |-> "user", code |-> TRUE, deps |-> {"inner"}] @@
  "inner" :> [namespace |-> "user", code |-> TRUE, deps |-> {"leaf"}] @@
  "leaf" :> [namespace |-> "user", code |-> code, deps |-> {}] @@
  "builtin" :> [namespace |-> "rt", code |-> FALSE, deps |-> {}]
Emitted(optional) == [t \in Types |-> IF t = "R" THEN Families ELSE Required \cup optional]
Filled == {<<0, 9>>, <<3, 9>>, <<5, 5>>, <<5, 9>>, <<9, 5>>, <<9, 9>>, <<9, 3>>, <<1, 9>>}

AnyMaking ==
  \E mw \in {"middleFn", "headersFn"}, call \in {"route", "query", "mutation"}, p \in {"P", "Q"},
     returns \in {<<"void">>, <<"object">>, <<"HeadersSubset", "RpcError">>}, filled \in Filled,
     optional \in SUBSET {"huk", "tb", "fb"}, code, blocked \in BOOLEAN, serializer \in {"json", "binary"},
     isMutation \in {"yes", Unset}, takes \in BOOLEAN :
    /\ takes \/ (mw = "headersFn" /\ filled = <<9, 9>>)
    /\ blocked => filled = <<9, 9>> /\ code
    /\ isMutation = Unset \/ (call # "route" /\ filled = <<9, 9>>)
    /\ returns = <<"void">> \/ call = "route"
    /\ code \/ call = "mutation"
    /\ LET first == Definition(mw, p, returns)
           defs == [id \in MethodIds |->
                      IF id = "mw" THEN [first EXCEPT !.takes = IF takes THEN @ ELSE <<>>]
                      ELSE [Definition(call, "P", <<"object">>) EXCEPT !.isMutation = isMutation]]
       IN MakingInit(Program(defs, [id \in MethodIds |-> IF id = "mw" THEN filled[1] ELSE filled[2]],
                             Emitted(optional), {"Q"}, RtDeps, PureDeps, Pures(code)),
                     [strictTypes |-> "no", serializer |-> serializer, codeGenBlocked |-> blocked])
OneMaking ==
  MakingInit(Program([id \in MethodIds |-> Definition("middleFn", "Q", <<"void">>)], [id \in MethodIds |-> 9],
                     Emitted({}), {"Q"}, RtDeps, PureDeps, Pures(TRUE)),
             [strictTypes |-> "no", serializer |-> "json", codeGenBlocked |-> FALSE])
-----------------------------------------------------------------------------
(* Pages: what each makes at first, and the calls it makes of that *)

MCFlowChains == [r \in {"order", "user"} |-> IF r = "order" THEN {"auth"} ELSE {"auth", "log"}]
MCEvents == {<<"auth", "declared">>, <<"auth", "success">>}
All(v) == [id \in AllIds |-> v]
MCOutcomes == {All("value"), [All("void") EXCEPT !["order"] = "declared", !["auth"] = "value"],
               [All("value") EXCEPT !["user"] = "thrown", !["log"] = "declared"],
               [All("value") EXCEPT !["log"] = "validation"]}

MakeSub(id, args) == [kind |-> "sub", id |-> id, client |-> "own", args |-> args]
MakeRef(name, how) == [kind |-> "ref", name |-> name, of |-> 1, how |-> how]
CallOf(via, routes, named) == [via |-> via, routes |-> routes, named |-> named]
Pages ==
  {[make |-> <<MakeSub("order", <<"good">>), MakeRef("r", how), MakeSub("user", <<"r", "good">>), MakeSub("auth", <<"good">>)>>,
    calls |-> {CallOf("flow", <<1, 2>>, <<3>>), CallOf("otherRoutes", <<1, 2>>, <<>>), CallOf("call", <<1>>, <<3>>),
               CallOf("flow", <<1>>, <<>>)}] : how \in {"inline", "legacy"}}
  \cup
  {[make |-> <<MakeSub("order", <<>>), MakeRef("r", "name"), MakeRef("s", "inline"),
               MakeSub("user", <<"r", "s">>), MakeSub("user", <<p, "s">>)>>,
    calls |-> {CallOf("flow", <<1, 2>>, <<>>), CallOf("flow", <<1, 3>>, <<>>), CallOf("flow", <<2, 3>>, <<>>)}] : p \in {"bad", "r"}}
  \cup
  {[make |-> <<MakeSub("order", <<"bad">>), [MakeSub("user", <<"good">>) EXCEPT !.client = "other"],
               MakeSub("auth", <<"bad">>), MakeSub("log", <<"good">>)>>,
    calls |-> {CallOf("flow", <<1, 2>>, <<>>), CallOf("otherRoutes", <<1, 2>>, <<3>>), CallOf("call", <<1>>, <<>>)}]}

AnyPage == \E p \in Pages, cached \in {{}, AllIds}, fits \in BOOLEAN :
             (fits \/ cached = {}) /\ PageInit(p.make, p.calls, cached, fits)
OnePage == PageInit(<<>>, {}, {}, TRUE)
-----------------------------------------------------------------------------
(* Adapters: what a program gives them, and what handlers do to headers *)

MCGivenOptions ==
  {NoValues, "headers" :> ("x" :> "default"), "headers" :> ("X" :> "default"), "headers" :> ("server" :> "own"),
   "binary" :> ("enabled" :> FALSE), "binary" :> ("size" :> "small"), "port" :> 8080 @@ "native" :> "own"}
MCDevOptions == {"port" :> 3000 @@ "protocol" :> "http"}
MCLowerCase == "X" :> "x"
HeaderOp(do, name, value) == [do |-> do, name |-> name, value |-> value]
MCHeaderOps ==
  {HeaderOp("set", "x", "a"), HeaderOp("append", "X", "b"), HeaderOp("delete", "X", "none"),
   HeaderOp("append", "server", "b"), HeaderOp("set", "content-type", "odd")}
MCSentHeaders == {"X" :> "sent" @@ "server" :> "", "x" :> "sent"}
Adapters == {"node", "bun", "aws", "gcloud", "vercel", "cloudflare"}
AnyServer == \E a \in Adapters : ServerInit(a)
OneServer == ServerInit("node")
-----------------------------------------------------------------------------
(* Size statistics of three methods, whose order is all that tells them apart *)

NoStats == order = << >> /\ entries = [k \in Keys |-> NoEntry] /\ sizeOpts = [ringSize |-> 2, maxKeys |-> 1]
-----------------------------------------------------------------------------
OneLook == OnePage /\ OneServer /\ NoStats
Start ==
  \/ machine = "lint" /\ OneTable /\ OneCrossing /\ OneMaking /\ OneLook /\ AnyFile
  \/ machine = "tables" /\ FileInit(File) /\ OneCrossing /\ OneMaking /\ OneLook /\ AnyTable
  \/ machine = "wire" /\ FileInit(File) /\ OneTable /\ OneMaking /\ OneLook /\ AnyCrossing
  \/ machine = "functions" /\ FileInit(File) /\ OneTable /\ OneCrossing /\ OneLook /\ AnyMaking
  \/ /\ FileInit(File) /\ OneTable /\ OneCrossing /\ OneMaking
     /\ \/ machine = "pages" /\ OneServer /\ NoStats /\ AnyPage
        \/ machine = "servers" /\ OnePage /\ NoStats /\ AnyServer
        \/ machine = "sizes" /\ OnePage /\ OneServer /\ StatsInit

Lint == machine = "lint" /\ FileNext /\ UNCHANGED <<machine, table, crossing, making, page, statsVars, srv>>
MapTable == machine = "tables" /\ TableNext /\ UNCHANGED <<machine, fileVars, crossing, making, page, statsVars, srv>>
Cross == machine = "wire" /\ CrossingNext /\ UNCHANGED <<machine, fileVars, table, making, page, statsVars, srv>>
Make == machine = "functions" /\ MakingNext /\ UNCHANGED <<machine, fileVars, table, crossing, page, statsVars, srv>>
Visit == machine = "pages" /\ PageNext /\ UNCHANGED <<machine, fileVars, table, crossing, making, statsVars, srv>>
Serve == machine = "servers" /\ ServerNext /\ UNCHANGED <<machine, fileVars, table, crossing, making, page, statsVars>>
Observing == machine = "sizes" /\ StatsNext /\ UNCHANGED <<machine, fileVars, table, crossing, making, page, srv>>

Step == Lint \/ MapTable \/ Cross \/ Make \/ Visit \/ Serve \/ Observing
StandaloneSpec == Start /\ [][Step]_<<machine, fileVars, table, crossing, making, page, srv, statsVars>>
=============================================================================
