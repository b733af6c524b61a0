----------------------------- MODULE MCNodeHttp -----------------------------
(* Small instances of NodeHttp for TLC. *)
EXTENDS NodeHttp, TLC

CONSTANTS r1, r2, b1, b2, b3

serialize == [id |-> "mionSerializeResponse", kind |-> "serialize", runOnError |-> TRUE,
              hasReturnData |-> FALSE]
route == [id |-> "route", kind |-> "handler", runOnError |-> FALSE, hasReturnData |-> TRUE]

AllLanes == {[serializer |-> mode, methods |-> <<route, serialize>>] : mode \in Modes}

Symmetry == Permutations(Requests)
=============================================================================
