---------------------------- MODULE MCBufferPool ----------------------------
(* Small instances of BufferPool for TLC. *)
EXTENDS BufferPool, TLC

CONSTANTS b1, b2, b3, b4, l1, l2, l3

MCPowersOfTwo == {1, 2, 4, 8}
Symmetry == Permutations(Buffers) \cup Permutations(Leases)
=============================================================================
