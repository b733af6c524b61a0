----------------------------- MODULE BufferPool -----------------------------
(***************************************************************************)
(* The size-classed ArrayBuffer pool of the binary lane                    *)
(* (core/src/binary/bufferPool.ts) together with the options it reads      *)
(* (core/src/binary/options.ts).                                           *)
(*                                                                         *)
(* A caller borrows a buffer as a LEASE and hands it back with release().  *)
(* The options may change between any two calls; the pool reconciles what  *)
(* it retains with them at the start of each call.  The three monitoring   *)
(* counters (hits, misses, dropped) are left out: nothing branches on them.*)
(*                                                                         *)
(* A member of Buffers is the identity of an ArrayBuffer.  An identity     *)
(* nothing refers to any more is garbage and may be used by a later        *)
(* `new ArrayBuffer`.                                                      *)
(***************************************************************************)
EXTENDS Integers, Sequences, FiniteSetsExt

CONSTANTS
  Buffers,          \* identities of ArrayBuffers
  Leases,           \* identities of lease closures
  Sizes,            \* the byte counts callers ask for
  PowersOfTwo,      \* the powers of two in range
  MinChoices,       \* values minClassBytes takes
  MaxChoices,       \* values maxClassBytes takes
  PerClassChoices,  \* values maxPerClass takes
  TotalChoices,     \* values maxTotalBytes takes
  NoBuffer          \* the buffer of a lease that was never made

ASSUME NoBufferAssumption == NoBuffer \notin Buffers

ASSUME SizesAssumption ==
  /\ Sizes \subseteq Nat
  /\ PowersOfTwo \subseteq Nat
  /\ MinChoices \subseteq Nat
  /\ MaxChoices \subseteq Nat
  /\ PerClassChoices \subseteq Nat
  /\ TotalChoices \subseteq Nat

\* every key the map of free lists can be given
ClassKeys == PowersOfTwo \cup MinChoices

\* Every size that is rounded has a least power of two at or above it.
ASSUME RoundingAssumption ==
  \A s \in Sizes \cup ClassKeys :
    \E p \in PowersOfTwo : p >= s /\ \A q \in PowersOfTwo : q >= s => p <= q

VARIABLES
  opts,       \* getBinaryOptions().pool
  filed,      \* filedEnabled / filedMin / filedMax
  freeLists,  \* class -> stack of retained buffers
  bytesHeld,  \* the running byte count checked against maxTotalBytes
  byteLength, \* ArrayBuffer.byteLength
  lease       \* the lease closures and the byte count each was asked for

poolVars == <<opts, filed, freeLists, bytesHeld, byteLength, lease>>
-----------------------------------------------------------------------------
PoolOptions ==
  [enabled : BOOLEAN, minClassBytes : MinChoices, maxClassBytes : MaxChoices,
   maxPerClass : PerClassChoices, maxTotalBytes : TotalChoices]

\* "never" is the state of the module before the first reconcile (-1 / -1).
Filing == [enabled : BOOLEAN, min : MinChoices \cup {-1}, max : MaxChoices \cup {-1}]

\* fault: remembers the wrong option as the upper boundary
MisfiledFor(o) == [enabled |-> o.enabled, min |-> o.minClassBytes, max |-> o.maxTotalBytes]

FilingFor(o) == [enabled |-> o.enabled, min |-> o.minClassBytes, max |-> o.maxClassBytes]

NoLease == [state |-> "none", buffer |-> NoBuffer, cls |-> 0, asked |-> 0, pooled |-> FALSE]

LeaseRecord ==
  [state : {"none", "live", "released"}, buffer : Buffers \cup {NoBuffer},
   cls : Nat, asked : Nat, pooled : BOOLEAN]

TypeOK ==
  /\ opts \in PoolOptions
  /\ filed \in Filing
  /\ freeLists \in [ClassKeys -> Seq(Buffers)]
  /\ bytesHeld \in Int
  /\ byteLength \in [Buffers -> Nat]
  /\ lease \in [Leases -> LeaseRecord]

EmptyLists == [c \in ClassKeys |-> << >>]

Init ==
  /\ opts \in {o \in PoolOptions : ~o.enabled}
  /\ filed = [enabled |-> FALSE, min |-> -1, max |-> -1]
  /\ freeLists = EmptyLists
  /\ bytesHeld = 0
  /\ byteLength = [b \in Buffers |-> 0]
  /\ lease = [l \in Leases |-> NoLease]
-----------------------------------------------------------------------------
NextPowerOfTwo(bytes) ==
  CHOOSE p \in PowersOfTwo : p >= bytes /\ \A q \in PowersOfTwo : q >= bytes => p <= q

\* fault: rounds down to a power of two
FloorSizeClass(min, bytes) ==
  IF bytes <= min THEN min
  ELSE CHOOSE p \in PowersOfTwo : p <= bytes /\ \A q \in PowersOfTwo : q <= bytes => q <= p

SizeClass(min, bytes) == IF bytes <= min THEN min ELSE NextPowerOfTwo(bytes)

SizeClassFor(bytes) == SizeClass(opts.minClassBytes, bytes)

\* What reconcile() leaves of the retained buffers, and the filing it records.
MustClear == filed # FilingFor(opts)
ListsNow == IF MustClear THEN EmptyLists ELSE freeLists
\* fault: clears the lists and forgets the count
UnclearedHeld == bytesHeld

HeldNow == IF MustClear THEN 0 ELSE bytesHeld
Reconciled == filed' = FilingFor(opts)

Retained == {b \in Buffers : \E c \in ClassKeys : \E i \in DOMAIN freeLists[c] : freeLists[c][i] = b}
Referenced == {lease[l].buffer : l \in Leases}

\* Identities `new ArrayBuffer` may return: those nothing refers to.
Unreferenced == Buffers \ (Retained \cup Referenced)

MakeLease(l, b, cls, asked, pooled) ==
  lease' = [lease EXCEPT ![l] =
    [state |-> "live", buffer |-> b, cls |-> cls, asked |-> asked, pooled |-> pooled]]

\* new ArrayBuffer(bytes), lent to l
AllocateFor(l, bytes, asked, pooled) ==
  \E b \in Unreferenced :
    /\ byteLength' = [byteLength EXCEPT ![b] = bytes]
    /\ MakeLease(l, b, bytes, asked, pooled)

Poolable(bytes) == opts.enabled /\ SizeClassFor(bytes) <= opts.maxClassBytes
-----------------------------------------------------------------------------
\* configureBinary / resetBinaryOptions: a patch may change any subset of the
\* options and touches nothing of the pool.
Configure ==
  /\ opts' \in PoolOptions
  /\ UNCHANGED <<filed, freeLists, bytesHeld, byteLength, lease>>

\* acquireBuffer with pooling off or above the largest class: unpooledLease
AcquireUnpooled(l, bytes) ==
  /\ lease[l].state = "none"
  /\ ~Poolable(bytes)
  /\ Reconciled
  /\ freeLists' = ListsNow
  /\ bytesHeld' = HeldNow
  /\ AllocateFor(l, bytes, bytes, FALSE)
  /\ UNCHANGED opts

\* fault: looks at the top of the stack and leaves it there
Peek(list) == list

\* what list.pop() leaves
Rest(list) == SubSeq(list, 1, Len(list) - 1)

\* acquireBuffer served from the top of its class's free list
AcquireHit(l, bytes) ==
  LET cls == SizeClassFor(bytes)
      list == ListsNow[cls]
  IN /\ lease[l].state = "none"
     /\ Poolable(bytes)
     /\ list # << >>
     /\ Reconciled
     /\ freeLists' = [ListsNow EXCEPT ![cls] = Rest(list)]
     /\ bytesHeld' = HeldNow - cls
     /\ MakeLease(l, list[Len(list)], cls, bytes, TRUE)
     /\ UNCHANGED <<opts, byteLength>>

\* acquireBuffer with an empty list: a fresh buffer of the class's size
AcquireMiss(l, bytes) ==
  LET cls == SizeClassFor(bytes)
  IN /\ lease[l].state = "none"
     /\ Poolable(bytes)
     /\ ListsNow[cls] = << >>
     /\ Reconciled
     /\ freeLists' = ListsNow
     /\ bytesHeld' = HeldNow
     /\ AllocateFor(l, cls, bytes, TRUE)
     /\ UNCHANGED opts

Acquire(l, bytes) ==
  AcquireUnpooled(l, bytes) \/ AcquireHit(l, bytes) \/ AcquireMiss(l, bytes)

\* fault: release() is not idempotent
EveryRelease(l) == TRUE

\* release() does something only the first time it is called
FirstRelease(l) == lease[l].state = "live"

\* fault: trusts the class recorded when the lease was made
MayFileStale(b, cls) ==
  /\ opts.enabled
  /\ cls <= opts.maxClassBytes
  /\ Len(ListsNow[cls]) < opts.maxPerClass
  /\ HeldNow + cls <= opts.maxTotalBytes

\* fault: checks the count before adding this buffer to it
MayFileOver(b, cls) ==
  /\ opts.enabled
  /\ cls = SizeClassFor(byteLength[b])
  /\ cls <= opts.maxClassBytes
  /\ Len(ListsNow[cls]) < opts.maxPerClass
  /\ HeldNow <= opts.maxTotalBytes

\* returnToPool's guards: only a buffer whose length still is its class, and
\* only below both caps
MayFile(b, cls) ==
  /\ opts.enabled
  /\ cls = SizeClassFor(byteLength[b])
  /\ cls <= opts.maxClassBytes
  /\ Len(ListsNow[cls]) < opts.maxPerClass
  /\ HeldNow + cls <= opts.maxTotalBytes

ReturnToPool(b, cls) ==
  /\ Reconciled
  /\ IF MayFile(b, cls)
       THEN /\ freeLists' = [ListsNow EXCEPT ![cls] = Append(@, b)]
            /\ bytesHeld' = HeldNow + cls
       ELSE /\ freeLists' = ListsNow
            /\ bytesHeld' = HeldNow

\* lease.release(), which an adapter may call more than once
Release(l) ==
  /\ lease[l].state # "none"
  /\ lease' = [lease EXCEPT ![l].state = "released"]
  /\ IF lease[l].pooled /\ FirstRelease(l)
       THEN ReturnToPool(lease[l].buffer, lease[l].cls)
       ELSE UNCHANGED <<filed, freeLists, bytesHeld>>
  /\ UNCHANGED <<opts, byteLength>>

\* The holder drops its lease, released or not: the closure becomes garbage.
Forget(l) ==
  /\ lease[l].state # "none"
  /\ lease' = [lease EXCEPT ![l] = NoLease]
  /\ UNCHANGED <<opts, filed, freeLists, bytesHeld, byteLength>>

\* isBufferPoolEnabled / getBufferPoolStats: a call that only reconciles
Touch ==
  /\ Reconciled
  /\ freeLists' = ListsNow
  /\ bytesHeld' = HeldNow
  /\ UNCHANGED <<opts, byteLength, lease>>

\* clearBufferPool / resetBufferPool
ClearBufferPool ==
  /\ freeLists' = EmptyLists
  /\ bytesHeld' = 0
  /\ UNCHANGED <<opts, filed, byteLength, lease>>

Next ==
  \/ Configure
  \/ \E l \in Leases : \/ \E bytes \in Sizes : Acquire(l, bytes)
                       \/ Release(l)
                       \/ Forget(l)
  \/ Touch
  \/ ClearBufferPool

Spec == Init /\ [][Next]_poolVars
-----------------------------------------------------------------------------
Live(l) == lease[l].state = "live"

\* A buffer somebody may still be reading or writing is nobody else's: two live
\* leases never share one, and none of them is on a free list (the release
\* protocol of bufferPool.ts, "never a corrupted response").
LentExclusively ==
  \A l \in Leases : Live(l) =>
    /\ lease[l].buffer \notin Retained
    /\ \A k \in Leases \ {l} : Live(k) => lease[k].buffer # lease[l].buffer

\* No buffer is retained twice, on one list or on two.
RetainedOnce ==
  \A c, d \in ClassKeys : \A i \in DOMAIN freeLists[c], j \in DOMAIN freeLists[d] :
    freeLists[c][i] = freeLists[d][j] => c = d /\ i = j

\* Everything retained is filed where acquireBuffer will look for it under the
\* options it was filed for: its length is its class, rounding that length leads
\* back to the same list, and the class is one that is pooled at all.
FiledUnderOwnClass ==
  \A c \in ClassKeys : \A i \in DOMAIN freeLists[c] :
    /\ byteLength[freeLists[c][i]] = c
    /\ SizeClass(filed.min, c) = c
    /\ c <= filed.max
    /\ filed.enabled

\* A lease is at least as large as its holder asked for ("a buffer of at least
\* minBytes"), whatever was reconfigured since the buffer was first allocated.
LargeEnough == \A l \in Leases : Live(l) => byteLength[lease[l].buffer] >= lease[l].asked

\* A buffer has one holder: a live lease, or one place on one free list.
ExclusivelyHeld == LentExclusively /\ RetainedOnce

\* What is retained is found again under its class, and what is lent is large
\* enough, whatever was reconfigured in between (bufferPool.ts:127-180).
ServesItsClass == TypeOK /\ FiledUnderOwnClass /\ LargeEnough

RetainedBytes == MapThenSumSet(LAMBDA b : byteLength[b], Retained)

\* The running count the ceiling is checked against is the number of bytes the
\* pool really retains: a count that drifts makes the pool hold nothing, or
\* more than maxTotalBytes (bytesHeld in acquireBuffer, returnToPool, reconcile).
BytesHeldExact == bytesHeld = RetainedBytes

\* However often the caps are moved, the pool never holds more than the largest
\* of them allows, in all (maxTotalBytes) and on one list (maxPerClass).
WithinLargestCaps ==
  /\ \E t \in TotalChoices : RetainedBytes <= t
  /\ \A c \in ClassKeys : \E p \in PerClassChoices : Len(freeLists[c]) <= p

\* The pool knows what it holds, and holds no more than it was ever allowed
\* (bufferPool.ts:86-95,162-180).
AccountsForBytes == BytesHeldExact /\ WithinLargestCaps

\* The pool is a lender that keeps the promise of ExclusiveLoan.
lentTo == [l \in Leases |-> IF Live(l) THEN lease[l].buffer ELSE NoBuffer]

Loan == INSTANCE ExclusiveLoan
          WITH Borrowers <- Leases, Nothing <- NoBuffer, lent <- lentTo

\* Every behaviour of the pool, whatever is reconfigured, cleared, released
\* twice or forgotten, is a behaviour of the abstract lender.
ImplementsLoan == Loan!LoanSpec
=============================================================================
