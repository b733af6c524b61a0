---------------------------- MODULE MCRoutesFlow ----------------------------
(* A small instance of RoutesFlow for TLC. *)
EXTENDS RoutesFlow, TLC

MCStart == <<"mionDeserializeRequest">>
MCEnd == <<"mionSerializeResponse">>
Whole(middle) == MCStart \o middle \o MCEnd

\* two routes that share a middleFn before them and one after them
MCChains == [path \in {"order", "user"} |->
  IF path = "order" THEN [methods |-> Whole(<<"auth", "order", "log">>), routeIndex |-> 3, serializer |-> "json"]
  ELSE [methods |-> Whole(<<"auth", "guard", "user", "log">>), routeIndex |-> 4, serializer |-> "binary"]]
MCParamsCount == [id \in {"order", "user", "auth", "guard", "log"} |-> IF id = "user" THEN 2 ELSE 0]

Mapping(from, to, hash, index) == [fromId |-> from, toId |-> to, bodyHash |-> hash, paramIndex |-> index]
Query(routes, mappings) == [routes |-> routes, mappings |-> mappings, wellFormed |-> TRUE]

Both == Query(<<"order", "user">>, <<>>)
Mapped1 == Query(<<"order", "user">>, <<Mapping("order", "user", "rt", 0), Mapping("order", "user", "named", 1)>>)
Backwards == Query(<<"user", "order">>, <<Mapping("order", "user", "rt", 0)>>)
OutOfRange == Query(<<"order", "user">>, <<Mapping("order", "user", "rt", 0), Mapping("order", "user", "rt", 2)>>)
Second == Query(<<"order", "user">>, <<Mapping("order", "user", "rt", 1)>>)

MCQueries == {Both, Mapped1, Backwards, OutOfRange, Query(<<>>, <<>>)}
TwoIndexes == {Mapped1, Second}
\* the newer clients' user is a route of its own, to the older ones it is the order
MCTransform == [raw \in {"older", "newer"} |->
  [path \in {"order", "user"} |-> IF raw = "older" THEN "order" ELSE path]]
\* requests differ in nothing but their name
Alike == Permutations(Requests)
MCManifest == {[key |-> "rt", code |-> TRUE], [key |-> "named", code |-> FALSE]}
=============================================================================
