----------------------------- MODULE SizeStats -----------------------------
(***************************************************************************)
(* The size statistics of the binary lane (core/src/binary/sizeStats.ts),  *)
(* for one direction: the request and the response maps never meet.        *)
(*                                                                         *)
(* An entry keeps the last observations twice: in arrival order, in a ring *)
(* that is overwritten at its oldest slot, and in ascending order, kept by *)
(* one removal and one insertion per observation.  Arrays are 0-based, as  *)
(* in the code.  A ringSize of 0, which keeps no observation, and a maxKeys *)
(* of 0 are left out.                                                      *)
(***************************************************************************)
EXTENDS Integers, Sequences, FiniteSets

CONSTANTS
  Keys,       \* method ids
  Bytes,      \* sizes observed
  RingSizes,  \* values sizeStats.ringSize takes
  KeyCaps     \* values sizeStats.maxKeys takes

ASSUME RingAssumption ==
  /\ Bytes \subseteq Nat
  /\ RingSizes \subseteq Nat \ {0}
  /\ \A cap \in KeyCaps : cap \in Nat /\ cap > 0

VARIABLES
  sizeOpts,  \* getBinaryOptions().sizeStats
  order,     \* the keys of the map, in insertion order
  entries    \* key -> its SizeStats; meaningful for the keys in order

statsVars == <<sizeOpts, order, entries>>

SizeOptions == [ringSize : RingSizes, maxKeys : KeyCaps]

Tracked == {order[i] : i \in DOMAIN order}

Zeros(n) == [i \in 0..(n - 1) |-> 0]
Length(array) == Cardinality(DOMAIN array)

NewEntry(ringSize) == [ring |-> Zeros(ringSize), sorted |-> Zeros(ringSize), count |-> 0, idx |-> 0]
NoEntry == [ring |-> << >>, sorted |-> << >>, count |-> 0, idx |-> 0]

StatsInit ==
  /\ sizeOpts \in SizeOptions
  /\ order = << >>
  /\ entries = [k \in Keys |-> NoEntry]
-----------------------------------------------------------------------------
\* fault: the upper half is searched one slot short
LowerBoundShort(sorted, len, value) ==
  LET search[lo \in 0..len, hi \in -1..len] ==
        LET mid == (lo + hi) \div 2
        IN IF lo >= hi THEN lo
           ELSE IF sorted[mid] < value THEN search[mid + 1, hi] ELSE search[lo, mid - 1]
  IN search[0, len]

\* index of the first slot of the ascending sorted[0..len) holding a value >= value
LowerBound(sorted, len, value) ==
  LET search[lo \in 0..len, hi \in 0..len] ==
        LET mid == (lo + hi) \div 2
        IN IF lo >= hi THEN lo
           ELSE IF sorted[mid] < value THEN search[mid + 1, hi] ELSE search[lo, mid]
  IN search[0, len]

SortedInsert(sorted, len, value) ==
  LET at == LowerBound(sorted, len, value)
  IN [i \in DOMAIN sorted |->
        IF i = at THEN value ELSE IF i \in (at + 1)..len THEN sorted[i - 1] ELSE sorted[i]]

SortedRemove(sorted, len, value) ==
  LET at == LowerBound(sorted, len, value)
  IN [i \in DOMAIN sorted |->
        IF i = len - 1 THEN 0 ELSE IF i \in at..(len - 2) THEN sorted[i + 1] ELSE sorted[i]]

Full(e) == e.count = Length(e.ring)

\* fault: a full ring overwrites its newest observation
OverwritesNewest(e) == IF e.idx = 0 THEN Length(e.ring) - 1 ELSE e.idx - 1

\* where the next observation goes; in a full ring, the place of the oldest
WriteSlot(e) == e.idx

\* fault: the ring does not wrap
SlotAfterUnwrapped(e) == e.idx + 1

SlotAfter(e) == (e.idx + 1) % Length(e.ring)

\* a full ring's oldest observation leaves both views before the new one enters
Observed(e, bytes) ==
  LET slot == WriteSlot(e)
      rest == IF Full(e) THEN SortedRemove(e.sorted, e.count, e.ring[slot]) ELSE e.sorted
      count == IF Full(e) THEN e.count ELSE e.count + 1
  IN [ring |-> [e.ring EXCEPT ![slot] = bytes],
      sorted |-> SortedInsert(rest, count - 1, bytes),
      count |-> count,
      idx |-> SlotAfter(e)]

\* the number of oldest-inserted keys evictOldest drops
Dropped == IF Len(order) \div 2 > 1 THEN Len(order) \div 2 ELSE 1

\* fault: the cap is checked as if the new key were counted already
EvictsLate == Len(order) > sizeOpts.maxKeys

AtCapacity == Len(order) >= sizeOpts.maxKeys

\* what evictOldest leaves of the map's order
OrderAfterEviction == SubSeq(order, Dropped + 1, Len(order))

\* recordSize: an entry missing, or built for another ringSize, is built anew
RecordSize(k, bytes) ==
  LET usable == k \in Tracked /\ Length(entries[k].ring) = sizeOpts.ringSize
      kept == IF ~usable /\ AtCapacity THEN OrderAfterEviction ELSE order
      keptKeys == {kept[i] : i \in DOMAIN kept}
      entry == IF usable THEN entries[k] ELSE NewEntry(sizeOpts.ringSize)
  IN /\ order' = IF k \in keptKeys THEN kept ELSE Append(kept, k)
     /\ entries' = [q \in Keys |-> IF q = k THEN Observed(entry, bytes)
                                   ELSE IF q \in keptKeys THEN entries[q] ELSE NoEntry]
     /\ UNCHANGED sizeOpts

ResetSizeStats ==
  /\ order' = << >>
  /\ entries' = [k \in Keys |-> NoEntry]
  /\ UNCHANGED sizeOpts

ConfigureStats ==
  /\ sizeOpts' \in SizeOptions
  /\ UNCHANGED <<order, entries>>

StatsNext ==
  \/ \E k \in Keys, bytes \in Bytes : RecordSize(k, bytes)
  \/ ResetSizeStats
  \/ ConfigureStats

StatsSpec == StatsInit /\ [][StatsNext]_statsVars
-----------------------------------------------------------------------------
(* Predictions, before the padding: a quantile is a fraction num / den.      *)

SmallerOf(a, b) == IF a < b THEN a ELSE b

PredictSize(k, num, den) ==
  LET e == entries[k] IN e.sorted[SmallerOf(e.count - 1, (num * e.count) \div den)]

\* the observations of k in arrival order
Window(k) ==
  LET e == entries[k]
      n == Length(e.ring)
  IN IF Full(e) THEN [i \in 1..n |-> e.ring[(e.idx + i - 1) % n]]
     ELSE [i \in 1..e.count |-> e.ring[i - 1]]

StatsTypes ==
  /\ sizeOpts \in SizeOptions
  /\ order \in Seq(Keys) /\ Cardinality(Tracked) = Len(order)
  /\ \A k \in Tracked :
       LET e == entries[k] IN
       /\ e.ring \in [0..(Length(e.ring) - 1) -> Nat] /\ Length(e.ring) \in RingSizes
       /\ e.sorted \in [DOMAIN e.ring -> Nat]
       /\ e.count \in 1..Length(e.ring) /\ e.idx \in DOMAIN e.ring

\* A prediction is the quantile of the window, however often the ring wrapped,
\* was rebuilt or held equal values: at most `rank` observations are smaller, and
\* more than `rank` are no larger ("a real quantile", sizeStats.ts:14-20).
PredictsQuantile ==
  StatsTypes /\ \A k \in Tracked : \A num \in 0..4 :
    LET w == Window(k)
        rank == SmallerOf(Len(w) - 1, (num * Len(w)) \div 4)
        v == PredictSize(k, num, 4)
    IN /\ Cardinality({i \in DOMAIN w : w[i] < v}) <= rank
       /\ Cardinality({i \in DOMAIN w : w[i] <= v}) > rank

\* However often maxKeys changes, the map never outgrows the largest value it was
\* given: a new key only enters below the cap, or in the place of an evicted one.
KeysWithinLargestCap == \E cap \in KeyCaps : Len(order) <= cap

\* What a prediction is worth: the quantile asked for, of the latest sizes, from a
\* map that stays within its caps (sizeStats.ts:60-150).
SizesUseful == PredictsQuantile /\ KeysWithinLargestCap

observations == [k \in Keys |-> IF k \in Tracked THEN Window(k) ELSE << >>]

History == INSTANCE SlidingWindow
             WITH window <- observations, Longest <- CHOOSE n \in RingSizes : \A q \in RingSizes : n >= q

\* Rings, rebuilds and evictions only ever show a window of the latest sizes.
ImplementsWindow == History!WindowSpec
=============================================================================
