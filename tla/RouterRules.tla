----------------------------- MODULE RouterRules -----------------------------
(***************************************************************************)
(* The lint rules of @mionjs/devtools (packages/devtools/src/eslint), over *)
(* the life of a file: it is linted, and its author, or the autofix, does  *)
(* what one report says, until nothing is reported that can be done.       *)
(*                                                                         *)
(* Of a file, only what the rules look at is kept: what it imports from    *)
(* the router, one handler with its signature and its union, one mapper a  *)
(* client passes to serverMapFrom, and one import of, or re-export from,   *)
(* the backend.  A type literal is a function from its property names to   *)
(* whether they are optional; any other type is the empty function.        *)
(***************************************************************************)
EXTENDS Naturals, Sequences, FiniteSets, SequencesExt

VARIABLES
  file,   \* the file as it is
  edits   \* how often it was edited

fileVars == <<file, edits>>

FileInit(f) == file = f /\ edits = 0
-----------------------------------------------------------------------------
(* strong-typed-routes: which functions are handlers, and what they lack *)

RouterFunctions == {"route", "middleFn", "headersFn"}
HandlerTypes == {"Handler", "HeaderHandler"}

\* buildImportCache: names as they are exported, not as the file calls them
ImportCache(f) == {i.name : i \in f.imports} \cap (RouterFunctions \cup HandlerTypes)

\* buildFunctionCache: what is declared behind export is not found
InFunctionCache(h) == ~h.exported

\* getRouterFunctionName, getHandlerFunction
ByCall(f) ==
  /\ f.handler.by \in ImportCache(f) \cap RouterFunctions
  /\ f.handler.how = "inline" \/ (f.handler.how = "reference" /\ InFunctionCache(f.handler))

\* getHandlerTypeFromAnnotation, getHandlerTypeFromSatisfies
ByType(f) == f.handler.how \in {"annotation", "satisfies"} /\ f.handler.by \in ImportCache(f) \cap HandlerTypes

\* getHandlerTypeFromJSDoc: a comment in front of export is not in front of the function
ByJSDoc(f) == f.handler.how = "jsdoc" /\ ~f.handler.exported

\* the visitors that end in a check of the function
Recognised(f) == ByCall(f) \/ ByType(f) \/ ByJSDoc(f)

\* isPrimitiveLiteral: negative bigints are none
IsPrimitiveLiteral(default) == default \in {"literal", "bigint", "undefined", "negative"}

\* fault: any default is good enough
AnyDefault(p) == CASE p.shape \in {"name", "pattern", "rest"} -> ~p.typed
                   [] p.shape = "default" -> FALSE
                   [] p.shape = "defaultPattern" -> TRUE
                   [] OTHER -> FALSE

\* validateParameterTypes, of one parameter; isPrimitiveLiteral of its default.
\* A pattern with another default is reported whatever its annotation, a pattern
\* behind ... never
LacksType(p) == CASE p.shape \in {"name", "pattern", "rest"} -> ~p.typed
                  [] p.shape = "default" -> ~p.typed /\ ~IsPrimitiveLiteral(p.default)
                  [] p.shape = "defaultPattern" -> ~IsPrimitiveLiteral(p.default)
                  [] OTHER -> FALSE

\* fault: the context counts as a parameter, and the last one does not
OneTooEarly(h) == {i \in 1 .. Len(h.params) - 1 : LacksType(h.params[i])}

\* the first parameter is the context
MissingParams(h) == {i \in 2 .. Len(h.params) : LacksType(h.params[i])}

HasExplicitReturnType(h) == h.returns

\* checkHandlerFunction, and the same in the visitor of calls
HandlerReports(f) ==
  IF ~Recognised(f) THEN {}
  ELSE {<<"param", i>> : i \in MissingParams(f.handler)}
       \cup (IF HasExplicitReturnType(f.handler) THEN {} ELSE {<<"return", 0>>})
-----------------------------------------------------------------------------
(* no-unreachable-union-types *)

Names(t) == DOMAIN t
RequiredOf(t) == {p \in DOMAIN t : ~t[p]}

\* fault: as many properties, whatever they are called
CountsOnly(a, b) ==
  /\ Cardinality(RequiredOf(a)) >= Cardinality(RequiredOf(b))
  /\ Cardinality(Names(a)) > Cardinality(Names(b))

\* fault: a type as specific as another is unreachable behind it
AsSpecificAs(a, b) ==
  Cardinality(RequiredOf(a)) >= Cardinality(RequiredOf(b)) /\ Names(b) \subseteq Names(a)

\* isSupersetOf: b, in front of a, blocks it
IsSupersetOf(a, b) ==
  /\ Cardinality(RequiredOf(a)) >= Cardinality(RequiredOf(b))
  /\ \/ Cardinality(Names(a)) > Cardinality(Names(b))
     \/ Cardinality(Names(a)) = Cardinality(Names(b)) /\ Cardinality(RequiredOf(a)) > Cardinality(RequiredOf(b))
  /\ Names(b) \subseteq Names(a)

IsLiteral(t) == Names(t) # {}

\* fault: only neighbours are compared
NeighboursOnly(u) ==
  {<<i, j>> \in (DOMAIN u) \X (DOMAIN u) :
     j = i + 1 /\ IsLiteral(u[i]) /\ IsLiteral(u[j]) /\ IsSupersetOf(u[j], u[i])}

\* findUnreachableTypes: <<blocker, unreachable>>
FindUnreachableTypes(u) ==
  {<<i, j>> \in (DOMAIN u) \X (DOMAIN u) :
     i < j /\ IsLiteral(u[i]) /\ IsLiteral(u[j]) /\ IsSupersetOf(u[j], u[i])}

\* isInCheckableParameter: behind the context and, for headersFn, the headers;
\* a parameter with a default, or behind ..., is not found in the parameters
InCheckableParameter(h) ==
  /\ h.place \in 2 .. Len(h.params)
  /\ h.params[h.place].shape \in {"name", "pattern"}
  /\ h.by = "headersFn" => h.place >= 3

IsImportedFromMionRouter(f, name) == \E i \in f.imports : i.name = name

\* getRouterFunctionName of this rule: a function that is itself the argument
InRouterCall(f) ==
  f.handler.how = "inline" /\ f.handler.by \in RouterFunctions /\ IsImportedFromMionRouter(f, f.handler.by)

\* isRouterUnionType: anywhere in the return type or in a parameter (place: its
\* number, 0 for the return type), or in the arguments of the annotation
IsRouterUnionType(f) ==
  LET h == f.handler IN
  \/ InRouterCall(f) /\ ((h.place = 0 /\ h.returns) \/ InCheckableParameter(h))
  \/ h.how = "annotation" /\ h.by \in HandlerTypes /\ IsImportedFromMionRouter(f, h.by) /\ h.place = 0

\* resolveTypeReference: an alias the file declares and does not export
Resolvable(h) == h.alias \in {"none", "local"}

UnionReports(f) ==
  IF IsRouterUnionType(f) /\ Resolvable(f.handler)
    THEN {<<"union", pair>> : pair \in FindUnreachableTypes(f.handler.union)} ELSE {}
-----------------------------------------------------------------------------
(* no-mixed-union-properties *)

\* getUniquePropertiesPerType
UniqueProps(u, k) == {p \in Names(u[k]) : \A j \in DOMAIN u : p \in Names(u[j]) => j = k}

\* getMatchingUnionTypes, and those of them with a property of their own
UniqueMatches(object, u) == {k \in DOMAIN u : object \cap UniqueProps(u, k) # {}}

\* fault: two types may be mixed
MixesThree(object, u) == Cardinality(UniqueMatches(object, u)) > 2
Mixes(object, u) == Cardinality(UniqueMatches(object, u)) > 1

\* findReturnsInBlock: bodies and branches; not loops, switch, try, nor else if
FoundReturn(h) == h.returnAt \in {"expression", "body", "branch"}

\* isRouterFunction: the nearest call around it is one of the router
IsRouterFunction(f) ==
  f.handler.how = "inline" /\ f.handler.by \in RouterFunctions /\ IsImportedFromMionRouter(f, f.handler.by)

\* getReturnTypeAnnotation: the union itself or an alias of it, not one inside Promise
ReturnsUnion(h) == h.place = 0 /\ h.returns /\ ~h.nested /\ Resolvable(h)

\* getUnionObjectTypes
UnionObjectTypes(u) == SelectSeq(u, IsLiteral)

\* checkFunction, of the object literal the handler returns
MixedReports(f) ==
  LET h == f.handler
      literals == UnionObjectTypes(h.union)
  IN IF /\ IsRouterFunction(f) /\ ReturnsUnion(h)
        /\ Len(literals) >= 2 /\ FoundReturn(h)
        /\ Mixes(h.object, literals)
       THEN {<<"mixed", h.object>>} ELSE {}
-----------------------------------------------------------------------------
(* no-vite-client and enforce-type-imports *)

\* a mapper is named by a string literal, since nothing bundles inline ones
MapperReports(f) ==
  IF f.mapper = "none" \/ ~f.mapperImported THEN {}
  ELSE IF f.mapper \in {"missing", "function"} THEN {<<"missingMapFromName">>}
  ELSE IF f.mapper # "string" THEN {<<"nameNotStringLiteral">>} ELSE {}

\* fault: what is imported by default is no specifier
IsNamedValue(s) == s.form = "named" /\ ~s.type

\* default and namespace imports are never typed on their own
IsValue(s) == ~s.type
ValuesOf(d) == {k \in DOMAIN d.specifiers : IsValue(d.specifiers[k])}

\* matchesBackend, then the two visitors; export * has none
ImportReports(f) ==
  LET d == f.backend IN
  CASE d.kind = "none" \/ ~d.matches \/ d.typeOnly \/ d.kind = "exportAll" -> {}
    [] d.kind = "import" /\ d.specifiers = <<>> /\ ~d.typeOnly /\ d.matches -> {<<"sideEffectImport">>}
    [] OTHER -> IF ValuesOf(d) = {} THEN {} ELSE {<<"enforceType", d.kind>>}

\* fault: only the first value specifier
MarkFirst(d) ==
  [d EXCEPT !.specifiers = [k \in DOMAIN @ |->
     IF k \in ValuesOf(d) /\ \A j \in ValuesOf(d) : k <= j THEN [@[k] EXCEPT !.type = TRUE] ELSE @[k]]]

\* fixImport, fixExport: the whole declaration, or every named value specifier
Fixed(d) ==
  IF ValuesOf(d) = DOMAIN d.specifiers THEN [d EXCEPT !.typeOnly = TRUE]
  ELSE [d EXCEPT !.specifiers = [k \in DOMAIN @ |->
          IF @[k].form = "named" THEN [@[k] EXCEPT !.type = TRUE] ELSE @[k]]]
-----------------------------------------------------------------------------
Reports(f) == HandlerReports(f) \cup UnionReports(f) \cup MixedReports(f) \cup MapperReports(f) \cup ImportReports(f)

Edited(f) == file' = f /\ edits' = edits + 1

\* the author writes the type that is missing
AddReturnType ==
  /\ <<"return", 0>> \in Reports(file)
  /\ Edited([file EXCEPT !.handler.returns = TRUE])

AddParamType(i) ==
  /\ <<"param", i>> \in Reports(file) /\ ~file.handler.params[i].typed
  /\ Edited([file EXCEPT !.handler.params[i].typed = TRUE])

\* fault: swapped with the type behind it
MovedBack(u, i, j) == [u EXCEPT ![i] = u[i + 1], ![i + 1] = u[i]]

\* "move the more specific type first within the union"
Moved(u, i, j) == InsertAt(RemoveAt(u, j), i, u[j])
MoveType(i, j) ==
  /\ <<"union", <<i, j>>>> \in Reports(file)
  /\ Edited([file EXCEPT !.handler.union = Moved(@, i, j)])

\* the object gives up the properties of all types but one
SplitObject(k) ==
  LET u == SelectSeq(file.handler.union, IsLiteral) IN
  /\ MixedReports(file) # {} /\ k \in UniqueMatches(file.handler.object, u)
  /\ Edited([file EXCEPT !.handler.object = @ \cap Names(u[k])])

NameMapper ==
  /\ MapperReports(file) # {}
  /\ Edited([file EXCEPT !.mapper = "string"])

Autofix ==
  /\ <<"enforceType", file.backend.kind>> \in Reports(file) /\ Fixed(file.backend) # file.backend
  /\ Edited([file EXCEPT !.backend = Fixed(@)])

RemoveSideEffect ==
  /\ <<"sideEffectImport">> \in Reports(file)
  /\ Edited([file EXCEPT !.backend.kind = "none"])

FileNext ==
  \/ AddReturnType \/ (\E i \in DOMAIN file.handler.params : AddParamType(i))
  \/ (\E i, j \in DOMAIN file.handler.union : MoveType(i, j))
  \/ (\E k \in DOMAIN file.handler.union : SplitObject(k))
  \/ NameMapper \/ Autofix \/ RemoveSideEffect
-----------------------------------------------------------------------------
(* What a silent rule promises.  matching is loose: a type matches a value   *)
(* that has its required properties, whatever else the value has.            *)

Matches(t, value) == RequiredOf(t) \subseteq value
FirstMatch(u, value) ==
  LET ks == {k \in DOMAIN u : Matches(u[k], value)}
  IN CHOOSE k \in ks : \A j \in ks : k <= j

\* A handler the rule knows and says nothing of has a return type and, behind its
\* context, parameters with a type that is written or plain from a literal
\* (strong-typed-routes.ts:190-258); a pattern behind ... is not seen.
SilentMeansTyped ==
  Recognised(file) /\ HandlerReports(file) = {} =>
    /\ file.handler.returns
    /\ \A i \in 2 .. Len(file.handler.params) : LET p == file.handler.params[i] IN
         \/ p.typed \/ p.shape = "restPattern"
         \/ p.shape \in {"default", "defaultPattern"} /\ p.default \notin {"none", "regex", "negative bigint", "object"}

\* In a union nothing is said of, what has the required properties of a type is
\* taken by that type: an earlier one that would take it names a property the type
\* does not have (no-unreachable-union-types.ts:48-102).
SilentMeansReachable ==
  LET u == SelectSeq(file.handler.union, IsLiteral) IN
  IsRouterUnionType(file) /\ Resolvable(file.handler) /\ UnionReports(file) = {} =>
    \A j \in DOMAIN u :
      LET first == u[FirstMatch(u, RequiredOf(u[j]))]
      IN Names(first) \subseteq Names(u[j]) => first = u[j]

\* An object nothing is said of, taken by the first type that matches and for a
\* property that type has alone, loses no property that one other type has alone
\* (no-mixed-union-properties.ts:43-70, 229-246).
SilentMeansWhole ==
  LET h == file.handler
      u == SelectSeq(h.union, IsLiteral)
      taken == {k \in DOMAIN u : Matches(u[k], h.object)}
  IN
  /\ IsRouterFunction(file) /\ ReturnsUnion(h) /\ FoundReturn(h)
  /\ MixedReports(file) = {} /\ taken # {}
  => LET k == FirstMatch(u, h.object) IN
       LET having(p) == {j \in DOMAIN u : p \in Names(u[j])} IN
       (\E p \in h.object : having(p) = {k}) =>
         \A p \in h.object \ Names(u[k]) : Cardinality(having(p)) # 1

\* No value of the backend is bound by a file nothing is said of, exports of
\* everything aside (enforce-type-imports.ts:108-153).
SilentMeansErased ==
  LET d == file.backend IN
  d.kind \in {"import", "export"} /\ d.matches /\ ImportReports(file) = {} =>
    \/ d.typeOnly
    \/ (\A k \in DOMAIN d.specifiers : d.specifiers[k].type) /\ (d.kind = "import" => d.specifiers # <<>>)

\* Doing what is reported ends: after as many edits as there are things to get
\* wrong nothing is left to do, and only what no annotation and no autofix cures is
\* still reported: a pattern with a default, a default or namespace import next to
\* a specifier that was typed already.
Curable(f) ==
  {r \in Reports(f) :
     /\ r[1] = "param" => ~f.handler.params[r[2]].typed
     /\ r[1] = "enforceType" => \E k \in ValuesOf(f.backend) :
          f.backend.specifiers[k].form = "named" \/ ValuesOf(f.backend) = DOMAIN f.backend.specifiers}
EnoughEdits(f) ==
  LET n == Len(f.handler.union) IN Len(f.handler.params) + (n * (n - 1)) \div 2 + 1

\* Lint and fix come to an end, with nothing left that a fix could cure
\* (all five rules).
FixesEnd ==
  /\ edits <= EnoughEdits(file)
  /\ (Curable(file) # {}) = ENABLED FileNext

\* What a rule is silent about is as the rule wants it.
SilenceIsSafe == SilentMeansTyped /\ SilentMeansReachable /\ SilentMeansWhole /\ SilentMeansErased

\* The rules keep their word: both of it.
RulesHold == SilenceIsSafe /\ FixesEnd
=============================================================================
