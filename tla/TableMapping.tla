---------------------------- MODULE TableMapping ----------------------------
(***************************************************************************)
(* Database tables from TypeScript types (packages/drizze/src): a type's   *)
(* properties are read, the columns the caller gives instead are checked   *)
(* against them, and the rest is generated for one of three databases.     *)
(*                                                                         *)
(* A column is its kind, the kind of value it is read back as, its length  *)
(* (0: none) and whether it refuses null.  Of a column the caller built    *)
(* only the kind of value can be seen: what a builder has under notNull is *)
(* a method, and its length is nowhere the validator looks.                *)
(***************************************************************************)
EXTENDS Naturals, Sequences, FiniteSets, SequencesExt

CONSTANTS
  Default,    \* DEFAULT_VARCHAR_LENGTH
  Undefined   \* what TypeScript calls so: no config, no format, no class

ASSUME TableAssumption == Default \in Nat \ {0}

VARIABLE table  \* the call of toDrizzle...Table that is under way

Tables(db, kind, type, config, buffer) ==
  [db |-> db, kind |-> kind, type |-> type, config |-> config, buffer |-> buffer,
   at |-> "start", next |-> 1, errors |-> {}, warnings |-> {}, columns |-> <<>>]

TableInit(db, kind, type, config, buffer) == table = Tables(db, kind, type, config, buffer)
-----------------------------------------------------------------------------
(* typeTraverser.ts: what is told apart of a property *)

Primitives == {"string", "number", "boolean", "bigint"}

IsDate(p) == p.kind = "class" /\ p.class = "Date"
IsNestedObject(p) == p.kind \in {"objectLiteral", "class"} /\ ~IsDate(p)
IsArray(p) == p.kind = "array"
ShouldBeJson(p) == IsNestedObject(p) \/ IsArray(p)
IsObjectLike(kind) == kind \in {"objectLiteral", "class"}
-----------------------------------------------------------------------------
(* The columns of the three databases *)

Column(type, holds, length) == [type |-> type, holds |-> holds, length |-> length, notNull |-> FALSE]
OrElse(n, default) == IF n # 0 THEN n ELSE default

\* applyLengthBuffer: Math.ceil
Buffered(n, buffer) == (n * buffer[1] + buffer[2] - 1) \div buffer[2]

\* fault: a maximal length is not looked at
ExactOnly(p, buffer) == OrElse(p.length, Default)

\* the varchar of a string: an exact length, or the longest with some to spare
StringLength(p, buffer) == OrElse(p.length, OrElse(Buffered(p.maxLength, buffer), Default))

PgPrimitive(kind) ==
  CASE kind = "string" -> Column("varchar", "string", Default)
    [] kind = "number" -> Column("doublePrecision", "number", 0)
    [] kind = "boolean" -> Column("boolean", "boolean", 0)
    [] kind = "bigint" -> Column("bigint", "bigint", 0)

PgFormat(p, buffer) ==
  CASE p.format = "uuid" -> Column("uuid", "string", 0)
    [] p.format = "email" -> Column("varchar", "string", OrElse(p.maxLength, 254))
    [] p.format = "url" -> Column("varchar", "string", OrElse(p.maxLength, 2048))
    [] p.format = "domain" -> Column("varchar", "string", OrElse(p.maxLength, 253))
    [] p.format = "ip" -> Column("inet", "string", 0)
    [] p.format = "dateTime" -> Column("timestamp", "date", 0)
    [] p.format \in {"date", "time"} -> Column(p.format, "string", 0)
    [] p.format = "bigintFormat" -> Column("bigint", "bigint", 0)
    [] p.format = "numberFormat" -> Column(IF p.integer THEN "integer" ELSE "doublePrecision", "number", 0)
    [] p.format = "stringFormat" -> Column("varchar", "string", StringLength(p, buffer))
    [] OTHER -> Column("varchar", "string", Default)

MySqlPrimitive(kind) ==
  CASE kind = "string" -> Column("varchar", "string", Default)
    [] kind = "number" -> Column("double", "number", 0)
    [] kind = "boolean" -> Column("boolean", "boolean", 0)
    [] kind = "bigint" -> Column("bigint", "bigint", 0)

\* an exact length is not looked at
MySqlFormat(p, buffer) ==
  CASE p.format = "uuid" -> Column("varchar", "string", 36)
    [] p.format = "email" -> Column("varchar", "string", OrElse(p.maxLength, 254))
    [] p.format = "url" -> Column("varchar", "string", OrElse(p.maxLength, 2048))
    [] p.format = "domain" -> Column("varchar", "string", OrElse(p.maxLength, 253))
    [] p.format = "ip" -> Column("varchar", "string", 45)
    [] p.format = "dateTime" -> Column("datetime", "date", 0)
    [] p.format = "date" -> Column("date", "date", 0)
    [] p.format = "time" -> Column("time", "string", 0)
    [] p.format = "bigintFormat" -> Column("bigint", "bigint", 0)
    [] p.format = "numberFormat" -> Column(IF p.integer THEN "int" ELSE "double", "number", 0)
    [] p.format = "stringFormat" -> Column("varchar", "string", OrElse(Buffered(p.maxLength, buffer), Default))
    [] OTHER -> Column("varchar", "string", Default)

\* a mode makes of integer, text and blob what is read back
SqlitePrimitive(kind) ==
  CASE kind = "string" -> Column("text", "string", 0)
    [] kind = "number" -> Column("real", "number", 0)
    [] kind = "boolean" -> Column("integer", "boolean", 0)
    [] kind = "bigint" -> Column("blob", "bigint", 0)

SqliteFormat(p) ==
  CASE p.format = "bigintFormat" -> Column("blob", "bigint", 0)
    [] p.format = "numberFormat" -> Column(IF p.integer THEN "integer" ELSE "real", "number", 0)
    [] OTHER -> Column("text", "string", 0)

PgJson == Column("jsonb", "json", 0)
MySqlJson == Column("json", "json", 0)
SqliteJson == Column("text", "json", 0)
DateColumn(db) == Column(IF db = "sqlite" THEN "integer" ELSE "timestamp", "date", 0)

Json(db) == CASE db = "pg" -> PgJson [] db = "mysql" -> MySqlJson [] db = "sqlite" -> SqliteJson
Primitive(db, kind) ==
  CASE db = "pg" -> PgPrimitive(kind) [] db = "mysql" -> MySqlPrimitive(kind) [] db = "sqlite" -> SqlitePrimitive(kind)
Format(db, p, buffer) ==
  CASE db = "pg" -> PgFormat(p, buffer) [] db = "mysql" -> MySqlFormat(p, buffer) [] db = "sqlite" -> SqliteFormat(p)

\* fault: a Date is a class like any other
JsonFirst(db, p, buffer) ==
  LET column == CASE p.kind \in {"objectLiteral", "class", "array"} -> Json(db)
                  [] p.kind \notin {"objectLiteral", "class", "array"} /\ p.format # Undefined -> Format(db, p, buffer)
                  [] OTHER -> Primitive(db, IF p.kind \in Primitives THEN p.kind ELSE "string")
  IN [column EXCEPT !.notNull = ~p.optional]

\* mapProperty; a kind nobody knows, a union with null among them, becomes a string
MapProperty(db, p, buffer) ==
  LET column == CASE IsDate(p) -> DateColumn(db)
                  [] ShouldBeJson(p) -> Json(db)
                  [] ~IsDate(p) /\ ~ShouldBeJson(p) /\ p.format # Undefined -> Format(db, p, buffer)
                  [] OTHER -> Primitive(db, IF p.kind \in Primitives THEN p.kind ELSE "string")
  IN [column EXCEPT !.notNull = ~p.optional]
-----------------------------------------------------------------------------
(* validator.ts: what is expected of a column the caller gives *)

ExpectedForFormat(format) ==
  CASE format = "uuid" -> {"uuid", "varchar", "text"}
    [] format \in {"email", "url"} -> {"text", "varchar"}
    [] format = "ip" -> {"inet", "varchar", "text"}
    [] format = "date" -> {"date", "text"}
    [] format = "time" -> {"time", "text"}
    [] format = "dateTime" -> {"timestamp", "datetime", "text"}
    [] format = "numberFormat" ->
         {"integer", "int", "smallint", "bigint", "real", "double", "doublePrecision", "numeric", "decimal"}
    [] format = "bigIntFormat" -> {"bigint", "blob"}
    [] OTHER -> {}

ExpectedForPrimitive(kind) ==
  CASE kind = "string" -> {"text", "varchar", "char", "uuid", "inet", "string"}
    [] kind = "number" ->
         {"integer", "int", "smallint", "real", "double", "doublePrecision", "numeric", "decimal", "number"}
    [] kind = "boolean" -> {"boolean", "integer"}
    [] kind = "bigint" -> {"bigint", "blob"}

\* fault: only primitives are expected to be of a kind
ExpectedLoosely(p) == IF p.kind \in Primitives /\ p.format = Undefined THEN ExpectedForPrimitive(p.kind) ELSE {}

\* getExpectedColumnTypes; none: anything goes
Expected(p) ==
  CASE ShouldBeJson(p) -> {"json", "jsonb", "text"}
    [] ~ShouldBeJson(p) /\ p.format # Undefined -> ExpectedForFormat(p.format)
    [] ~ShouldBeJson(p) /\ p.format = Undefined /\ p.kind \in Primitives -> ExpectedForPrimitive(p.kind)
    [] IsDate(p) /\ p.format = Undefined -> {"timestamp", "date", "datetime", "integer", "text"}
    [] OTHER -> {}

\* getColumnType, getColumnLength, hasNotNullConstraint: what is seen of a builder
Seen(column) == [type |-> column.holds, length |-> 0, notNull |-> FALSE]

\* the three checks of one property: errors, and a warning for its length
ErrorsOf(p, column) ==
  {e \in {<<"type", p.name>>, <<"null", p.name>>} :
     CASE e[1] = "type" -> Expected(p) # {} /\ Seen(column).type \notin Expected(p)
       [] e[1] = "null" -> p.optional /\ Seen(column).notNull}
WarningsOf(p, column) ==
  {n \in {p.name} : p.maxLength # 0 /\ Seen(column).length # 0 /\ Seen(column).length < p.maxLength}
-----------------------------------------------------------------------------
(* toDrizzlePGTable, toDrizzleMySqlTable, toDrizzleSqliteTable *)

PropNames(type) == {type[k].name : k \in DOMAIN type}
Given(p) == p.name \in DOMAIN table.config
Goto(at) == [table EXCEPT !.at = at, !.next = 1]

\* no type parameter, or no plugin that fills it in; not an object
Resolve ==
  /\ table.at = "start"
  /\ table' = IF table.kind = "unresolved" \/ ~IsObjectLike(table.kind)
                THEN [table EXCEPT !.at = "failed", !.errors = {<<"source type", table.kind>>}]
              ELSE IF table.config = Undefined THEN Goto("building") ELSE Goto("validating")

\* one property; nothing is said of those without a column, or with undefined for one
Validate ==
  /\ table.at = "validating" /\ table.next <= Len(table.type)
  /\ LET p == table.type[table.next]
         checked == Given(p) /\ table.config[p.name] # Undefined
     IN table' = [table EXCEPT
          !.next = @ + 1,
          !.errors = IF checked THEN @ \cup ErrorsOf(p, table.config[p.name]) ELSE @,
          !.warnings = IF checked THEN @ \cup WarningsOf(p, table.config[p.name]) ELSE @]

\* fault: columns of no property are let through
NoExtraColumns == {}
ExtraColumns == DOMAIN table.config \ PropNames(table.type)

\* every error is collected before any is thrown
Judge ==
  /\ table.at = "validating" /\ table.next > Len(table.type)
  /\ LET errors == table.errors \cup {<<"extra", name>> : name \in ExtraColumns}
     IN table' = IF errors # {} THEN [table EXCEPT !.at = "failed", !.errors = errors] ELSE Goto("building")

With(columns, name, column) == [n \in DOMAIN columns \cup {name} |-> IF n = name THEN column ELSE columns[n]]

\* fault: a generated column wins over a given one
GeneratedAlways(p) == MapProperty(table.db, p, table.buffer)

\* what is given is taken as it is, undefined included
ColumnFor(p) ==
  IF table.config # Undefined /\ Given(p) THEN table.config[p.name] ELSE MapProperty(table.db, p, table.buffer)

Build ==
  /\ table.at = "building" /\ table.next <= Len(table.type)
  /\ LET p == table.type[table.next] IN
       table' = [table EXCEPT !.next = @ + 1, !.columns = With(@, p.name, ColumnFor(p))]

\* pgTable, mysqlTable, sqliteTable: a column that is undefined cannot be built
Create ==
  /\ table.at = "building" /\ table.next > Len(table.type)
  /\ table' = Goto(IF \E n \in DOMAIN table.columns : table.columns[n] = Undefined THEN "broken" ELSE "created")

TableNext == Resolve \/ Validate \/ Judge \/ Build \/ Create
-----------------------------------------------------------------------------
(* The types of the same columns, at compile time: postgres.types.ts and its *)
(* siblings.  Formats leave no mark there, so a property is its base type.   *)

\* the kind of value a generated column is typed to hold
PgTyped(p) ==
  CASE p.base \in Primitives -> p.base
    [] IsDate(p) -> "date"
    [] ShouldBeJson(p) -> "json"

\* bigints are typed as numbers of 53 bits
MySqlTyped(p) ==
  CASE p.base \in Primitives -> IF p.base = "bigint" THEN "number" ELSE p.base
    [] IsDate(p) -> "date"
    [] ShouldBeJson(p) -> "json"

SqliteTyped(p) ==
  CASE p.base \in Primitives -> p.base
    [] IsDate(p) -> "date"
    [] ShouldBeJson(p) -> "json"

Typed(db, p) ==
  CASE db = "pg" -> PgTyped(p) [] db = "mysql" -> MySqlTyped(p) [] db = "sqlite" -> SqliteTyped(p)
-----------------------------------------------------------------------------
Created == table.at = "created"
Generated == {k \in DOMAIN table.type : table.config = Undefined \/ ~Given(table.type[k])}

\* The most characters the format of a property allows; 0: it does not say.
Needs(p) == IF p.format = "stringFormat" /\ p.length # 0 THEN p.length ELSE p.maxLength

\* A table that is created has the properties of its type for columns, no more and
\* no fewer; the caller's as given, the others refusing null exactly for what is
\* required (postgres.ts:96-128, base.mapper.ts:38-58).
ColumnsOfType ==
  Created =>
    /\ DOMAIN table.columns = PropNames(table.type)
    /\ table.config # Undefined => \A n \in DOMAIN table.config : n \in DOMAIN table.columns /\ table.columns[n] = table.config[n]
    /\ \A k \in Generated : LET p == table.type[k] IN table.columns[p.name].notNull = ~p.optional

\* A generated column has room for every string its format allows; MySQL's columns
\* grow with maximal lengths only (pg.mapper.ts:59-66, mysql.mapper.ts:58-63).
StringsFit ==
  Created => \A k \in Generated :
    LET p == table.type[k]
        column == table.columns[p.name]
    IN column.length # 0 => \/ column.length >= Needs(p)
                            \/ table.db = "mysql" /\ p.format = "stringFormat" /\ p.length > Default

\* What is read back from a generated column is what the property is typed as:
\* for all but formatted dates, which come back as a Date, MySQL's bigints, and
\* unions, whose columns are strings (base.mapper.ts:38-58, postgres.types.ts:116-137).
ReadAsTyped ==
  Created => \A k \in Generated :
    LET p == table.type[k] IN
    \/ table.columns[p.name].holds = Typed(table.db, p)
    \/ p.format \in {"date", "dateTime"} /\ table.columns[p.name].holds = "date"
    \/ table.db = "mysql" /\ p.base = "bigint" /\ table.columns[p.name].holds = "bigint"
    \/ p.kind = "union" /\ table.columns[p.name].holds = "string"

\* A given column that is accepted holds what a plain property has; a table whose
\* columns were refused is not created, however late the error is found
\* (validator.ts:13-37, 136-172).
OverridesChecked ==
  /\ Created /\ table.config # Undefined =>
       \A k \in DOMAIN table.type : LET p == table.type[k] IN
         Given(p) /\ p.format = Undefined /\ p.kind # "union" => table.columns[p.name].holds = Typed("pg", p)
  /\ (table.at = "failed") = (table.errors # {} /\ table.at # "validating")

\* Tables agree with their types
TablesFit == ColumnsOfType /\ StringsFit /\ ReadAsTyped /\ OverridesChecked
=============================================================================
