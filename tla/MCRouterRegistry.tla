-------------------------- MODULE MCRouterRegistry --------------------------
(* A small instance of RouterRegistry for TLC. *)
EXTENDS RouterRegistry, TLC

Item(id, kind, public) == [id |-> id, kind |-> kind, public |-> public, typed |-> TRUE, sub |-> <<>>]
Route(id) == Item(id, "route", TRUE)
Group(id, tree) == [Item(id, "group", FALSE) EXCEPT !.sub = tree]

deserialize == Item("mionDeserializeRequest", "raw", FALSE)
metadata == Item("mion@methodsMetadata", "middleFn", TRUE)
early == Item("early", "middleFn", FALSE)

\* three routes in a row between middleFns, and two levels below them
Users == <<Item("auth", "middleFn", TRUE), Route("list"), Route("a"), Route("b"),
           Group("users", <<Route("users/get"), Item("users/audit", "raw", FALSE),
                            Group("users/admin", <<Route("users/admin/ban")>>)>>),
           Item("log", "middleFn", TRUE)>>

\* a route of a name that is taken, in another scope, and something that is no route
Clash == <<Route("list"), Item("guard", "middleFn", TRUE), Item("1", "invalid", FALSE)>>

\* a middleFn that can not be registered
Broken == <<[Item("untyped", "middleFn", FALSE) EXCEPT !.typed = FALSE]>>

MCCalls == {"init", "users", "clash"}
MCTrees == [c \in MCCalls |-> CASE c = "init" -> <<<<Route("mion@notFound")>>, Broken>>
                                [] c = "users" -> <<Users>>
                                [] OTHER -> <<Clash>>]
MCEarlier == [c \in MCCalls |-> CASE c = "init" -> {}
                                  [] c = "users" -> {"init"}
                                  [] OTHER -> {"init", "users"}]
MCIds == {"mionDeserializeRequest", "mion@methodsMetadata", "early", "auth", "users/get", "users/audit",
          "users/admin/ban", "list", "log", "guard", "a", "b", "untyped", "mion@notFound"}
MCItems == {deserialize, metadata, early, Route("mion@notFound")} \cup ToSet(Users) \cup ToSet(Users[5].sub)
           \cup ToSet(Users[5].sub[3].sub) \cup ToSet(Clash) \cup ToSet(Broken)
MCStart == <<deserialize>>
MCEnd == <<metadata>>
MCExtraStart == {early}
MCExtraEnd == {metadata}
MCAsked == {"list"}
=============================================================================
