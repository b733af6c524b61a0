-------------------------- MODULE MCBodySerializer --------------------------
(* Small instances of BodySerializer for TLC. *)
EXTENDS BodySerializer, TLC

CONSTANTS b1, b2, b3, l1, l2

MCPowersOfTwo == {2, 4}

Same(outcomes) == [writes |-> outcomes, measures |-> outcomes]
Apart(write, measure) == [writes |-> {write}, measures |-> {measure}]

\* two sizes in different classes, an encoder that throws, a getter that changes, an
\* unpaired surrogate, a throw the measure pass misses
AllEnvelopes == {Same({1}), Same({3}), Same({Throws}), Same({1, 3}), Same({1, Throws}),
                 Apart(3, 1), Apart(Throws, 1)}

Symmetry == Permutations(Buffers) \cup Permutations(Leases)
=============================================================================
