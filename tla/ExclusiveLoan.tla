---------------------------- MODULE ExclusiveLoan ---------------------------
(***************************************************************************)
(* What a lender of buffers promises its borrowers, and nothing else: a    *)
(* borrower holds at most one buffer, a buffer has at most one borrower,   *)
(* and only the borrower's own return ends a loan.                         *)
(* core/src/binary/bufferPool.ts promises this of BufferLease.             *)
(***************************************************************************)
CONSTANTS Buffers, Borrowers, Nothing

VARIABLE lent  \* borrower -> the buffer it holds, or Nothing

LoanInit == lent = [l \in Borrowers |-> Nothing]

Lend(l, b) ==
  /\ lent[l] = Nothing
  /\ \A k \in Borrowers : lent[k] # b
  /\ lent' = [lent EXCEPT ![l] = b]

Return(l) ==
  /\ lent[l] # Nothing
  /\ lent' = [lent EXCEPT ![l] = Nothing]

LoanNext == \E l \in Borrowers : (\E b \in Buffers : Lend(l, b)) \/ Return(l)

LoanSpec == LoanInit /\ [][LoanNext]_lent
=============================================================================
