------------------------- MODULE MCMethodsCatalogue -------------------------
(* A small instance of MethodsCatalogue for TLC. *)
EXTENDS MethodsCatalogue

\* a route and its middleFn
MCMiddleFnIds == [m \in Methods |-> IF m = "order" THEN {"auth"} ELSE {}]
\* the functions of the first order and of the token call each other
MCRtDeps == [t \in Types |-> CASE t = "order1" -> {"token"} [] t = "token" -> {"order1"} [] OTHER -> {}]
\* both servers have a method auth, and mean different ones
MCTypesOf == [s \in Servers |-> [m \in Methods |->
  CASE m = "order" -> IF s = "live" THEN {"order1", "order2"} ELSE {}
    [] OTHER -> IF s = "live" THEN {"token"} ELSE {"key"}]]
=============================================================================
