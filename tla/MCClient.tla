------------------------------ MODULE MCClient ------------------------------
(* A small instance of Client for TLC. *)
EXTENDS Client, TLC

MCChains == [r \in {"pay"} |-> <<"auth", "guard", "pay", "log">>]
MCPublic == {"auth", "pay", "log"}

Setup(params) == [route |-> "pay", params |-> params]
Rich == Setup([i \in {"pay", "log"} |-> IF i = "log" THEN "rich" ELSE "plain"])
Plain == Setup([i \in {"pay"} |-> "plain"])
OneBigint == {Setup([i \in {"pay"} |-> "bigint"])}
BadBigint == Setup([i \in MCPublic |-> CASE i = "pay" -> "bigint" [] i = "auth" -> "bad" [] OTHER -> "plain"])
MCSetups == {Plain, Rich, BadBigint}

Op(kind, id, quality) == [kind |-> kind, id |-> id, quality |-> quality]
Alike == Permutations(Calls)
MCOpSetups == {Op("prefill", "auth", "rich")}

\* handlers that answer, that give errors the client takes for refusals, and that throw
All(b) == [i \in {"auth", "guard", "pay", "log"} |-> IF i = "guard" THEN "void" ELSE b]
MCBehaviours == {All("value"),
                 [All("claims") EXCEPT !["pay"] = "unread", !["log"] = "invalid"],
                 [All("throws") EXCEPT !["auth"] = "declared"],
                 [All("value") EXCEPT !["guard"] = "throws"]}
=============================================================================
