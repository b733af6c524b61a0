---------------------------- MODULE BinaryProofs ----------------------------
(***************************************************************************)
(* Proofs about the binary body: BufferPool, for every set of buffers,     *)
(* leases, sizes and option values (types, the exclusiveness of a lease,   *)
(* the filing of retained buffers, the refinement of ExclusiveLoan); and   *)
(* BodySerializer, for every pool, every set of calls and every envelope:  *)
(* a pooled result is whole and its holder's own, no lease is lost, and    *)
(* the pool decides nothing about the outcome; and SizeStats, for every set *)
(* of keys, sizes and options: the map stays within its largest cap.       *)
(***************************************************************************)
EXTENDS BodySerializer, SizeStats, FiniteSetTheorems, TLAPS

-----------------------------------------------------------------------------
(* The three updates of the free lists: pop, push and clear.               *)

FreeLists == [ClassKeys -> Seq(Buffers)]

RetainedIn(fl) ==
  {b \in Buffers : \E c \in ClassKeys : \E i \in DOMAIN fl[c] : fl[c][i] = b}

OnceIn(fl) ==
  \A c, d \in ClassKeys : \A i \in DOMAIN fl[c], j \in DOMAIN fl[d] :
    fl[c][i] = fl[d][j] => c = d /\ i = j

Pop(fl, c) == [fl EXCEPT ![c] = SubSeq(fl[c], 1, Len(fl[c]) - 1)]
Push(fl, c, b) == [fl EXCEPT ![c] = Append(fl[c], b)]

\* Rounding a size of the model gives a power of two that is no smaller.
LEMMA NextPowerBound ==
  ASSUME NEW s \in Sizes \cup ClassKeys
  PROVE  NextPowerOfTwo(s) \in PowersOfTwo /\ NextPowerOfTwo(s) >= s
<1>1. \E p \in PowersOfTwo : p >= s /\ \A q \in PowersOfTwo : q >= s => p <= q
  BY RoundingAssumption
<1> QED BY <1>1 DEF NextPowerOfTwo

\* A size class is a key of the map of free lists and holds the size asked for.
LEMMA SizeClassBound ==
  ASSUME NEW s \in Sizes \cup ClassKeys, NEW min \in MinChoices
  PROVE  SizeClass(min, s) \in ClassKeys /\ SizeClass(min, s) >= s
<1>1. s \in Nat /\ min \in Nat
  BY SizesAssumption DEF ClassKeys
<1> QED BY <1>1, NextPowerBound DEF SizeClass, ClassKeys

\* Popping keeps every other entry in its place and takes the top out.
LEMMA PopLists ==
  ASSUME NEW fl \in FreeLists, NEW c \in ClassKeys, fl[c] # << >>, OnceIn(fl)
  PROVE  /\ Pop(fl, c) \in FreeLists
         /\ OnceIn(Pop(fl, c))
         /\ fl[c][Len(fl[c])] \in RetainedIn(fl)
         /\ fl[c][Len(fl[c])] \notin RetainedIn(Pop(fl, c))
         /\ RetainedIn(Pop(fl, c)) \subseteq RetainedIn(fl)
         /\ \A d \in ClassKeys : \A i \in DOMAIN Pop(fl, c)[d] :
              i \in DOMAIN fl[d] /\ Pop(fl, c)[d][i] = fl[d][i]
<1> DEFINE n == Len(fl[c])
           f == SubSeq(fl[c], 1, n - 1)
<1>1. fl[c] \in Seq(Buffers) /\ n \in Nat /\ n >= 1 /\ DOMAIN fl[c] = 1..n
  BY DEF FreeLists
<1>2. f \in Seq(Buffers) /\ DOMAIN f = 1..(n - 1) /\ \A i \in 1..(n - 1) : f[i] = fl[c][i]
  BY <1>1
<1>3. \A d \in ClassKeys : Pop(fl, c)[d] = IF d = c THEN f ELSE fl[d]
  BY DEF Pop, FreeLists
<1>4. Pop(fl, c) \in FreeLists
  BY <1>2 DEF Pop, FreeLists
<1>5. \A d \in ClassKeys : \A i \in DOMAIN Pop(fl, c)[d] :
         i \in DOMAIN fl[d] /\ Pop(fl, c)[d][i] = fl[d][i]
  <2> TAKE d \in ClassKeys
  <2>1. CASE d = c
    <3> HIDE DEF f, n
    <3>1. Pop(fl, c)[d] = f
      BY <2>1, <1>3
    <3> QED BY <3>1, <2>1, <1>1, <1>2
  <2>2. CASE d # c
    <3>1. Pop(fl, c)[d] = fl[d]
      BY <2>2, <1>3
    <3> QED BY <3>1
  <2> QED BY <2>1, <2>2
<1>6. OnceIn(Pop(fl, c))
  BY <1>5 DEF OnceIn
<1>7. fl[c][n] \in RetainedIn(fl)
  BY <1>1 DEF RetainedIn
<1>8. fl[c][n] \notin RetainedIn(Pop(fl, c))
  <2> SUFFICES ASSUME NEW d \in ClassKeys, NEW i \in DOMAIN Pop(fl, c)[d],
                      Pop(fl, c)[d][i] = fl[c][n]
               PROVE  FALSE
    BY DEF RetainedIn
  <2>1. i \in DOMAIN fl[d] /\ fl[d][i] = fl[c][n]
    BY <1>5
  <2> HIDE DEF f, n
  <2>2. n \in DOMAIN fl[c]
    BY <1>1
  <2>3. d = c /\ i = n
    BY <2>1, <2>2 DEF OnceIn
  <2>4. Pop(fl, c)[d] = f
    BY <2>3, <1>3
  <2> QED BY <2>3, <2>4, <1>1, <1>2
<1>9. RetainedIn(Pop(fl, c)) \subseteq RetainedIn(fl)
  BY <1>5 DEF RetainedIn
<1> QED BY <1>4, <1>5, <1>6, <1>7, <1>8, <1>9

\* Pushing a buffer that is not retained adds it, once, at the top.
LEMMA PushLists ==
  ASSUME NEW fl \in FreeLists, NEW c \in ClassKeys, NEW b \in Buffers,
         b \notin RetainedIn(fl), OnceIn(fl)
  PROVE  /\ Push(fl, c, b) \in FreeLists
         /\ OnceIn(Push(fl, c, b))
         /\ RetainedIn(Push(fl, c, b)) \subseteq RetainedIn(fl) \cup {b}
         /\ \A d \in ClassKeys : \A i \in DOMAIN Push(fl, c, b)[d] :
              \/ i \in DOMAIN fl[d] /\ Push(fl, c, b)[d][i] = fl[d][i]
              \/ d = c /\ i = Len(fl[c]) + 1 /\ Push(fl, c, b)[d][i] = b
<1> DEFINE n == Len(fl[c])
           f == Append(fl[c], b)
<1>1. fl[c] \in Seq(Buffers) /\ n \in Nat /\ DOMAIN fl[c] = 1..n
  BY DEF FreeLists
<1>2. /\ f \in Seq(Buffers) /\ DOMAIN f = 1..(n + 1)
      /\ f[n + 1] = b /\ \A i \in 1..n : f[i] = fl[c][i]
  BY <1>1
<1>3. \A d \in ClassKeys : Push(fl, c, b)[d] = IF d = c THEN f ELSE fl[d]
  BY DEF Push, FreeLists
<1>4. Push(fl, c, b) \in FreeLists
  BY <1>2 DEF Push, FreeLists
<1>5. \A d \in ClassKeys : \A i \in DOMAIN Push(fl, c, b)[d] :
         \/ i \in DOMAIN fl[d] /\ Push(fl, c, b)[d][i] = fl[d][i]
         \/ d = c /\ i = n + 1 /\ Push(fl, c, b)[d][i] = b
  <2> TAKE d \in ClassKeys
  <2>1. CASE d = c
    <3> HIDE DEF f, n
    <3>1. Push(fl, c, b)[d] = f
      BY <2>1, <1>3
    <3> QED BY <3>1, <2>1, <1>1, <1>2
  <2>2. CASE d # c
    <3>1. Push(fl, c, b)[d] = fl[d]
      BY <2>2, <1>3
    <3> QED BY <3>1
  <2> QED BY <2>1, <2>2
<1>6. \A d \in ClassKeys : \A i \in DOMAIN fl[d] : fl[d][i] # b
  BY DEF RetainedIn
<1>7. OnceIn(Push(fl, c, b))
  BY <1>5, <1>6 DEF OnceIn
<1>8. RetainedIn(Push(fl, c, b)) \subseteq RetainedIn(fl) \cup {b}
  BY <1>5 DEF RetainedIn
<1> QED BY <1>4, <1>5, <1>7, <1>8

\* The empty map of free lists retains nothing.
LEMMA ClearedLists ==
  /\ EmptyLists \in FreeLists
  /\ OnceIn(EmptyLists)
  /\ RetainedIn(EmptyLists) = {}
  /\ \A d \in ClassKeys : DOMAIN EmptyLists[d] = {}
<1>1. \A d \in ClassKeys : EmptyLists[d] = << >> /\ DOMAIN EmptyLists[d] = {}
  BY DEF EmptyLists
<1>2. EmptyLists \in FreeLists
  BY DEF EmptyLists, FreeLists
<1> QED BY <1>1, <1>2 DEF OnceIn, RetainedIn
-----------------------------------------------------------------------------
(* The inductive invariant.                                                *)

FiledIn(fl, f) ==
  \A c \in ClassKeys : \A i \in DOMAIN fl[c] :
    byteLength[fl[c][i]] = c /\ SizeClass(f.min, c) = c /\ c <= f.max /\ f.enabled

\* What a live lease must know about its buffer for its release to be safe.
LeaseSound ==
  \A l \in Leases : Live(l) =>
    /\ lease[l].buffer \in Buffers
    /\ lease[l].pooled => /\ lease[l].cls \in ClassKeys
                          /\ byteLength[lease[l].buffer] = lease[l].cls

IInv == /\ TypeOK
        /\ LentExclusively
        /\ RetainedOnce
        /\ FiledUnderOwnClass
        /\ LargeEnough
        /\ LeaseSound

\* After reconcile() the lists are well formed and filed for the current options.
LEMMA ReconcileLists ==
  ASSUME IInv
  PROVE  /\ ListsNow \in FreeLists
         /\ OnceIn(ListsNow)
         /\ RetainedIn(ListsNow) \subseteq Retained
         /\ FiledIn(ListsNow, FilingFor(opts))
         /\ HeldNow \in Int
         /\ FilingFor(opts) \in Filing
<1>1. FilingFor(opts) \in Filing
  BY DEF IInv, TypeOK, FilingFor, Filing, PoolOptions
<1>2. HeldNow \in Int
  BY DEF IInv, TypeOK, HeldNow
<1>3. CASE MustClear
  <2>1. ListsNow = EmptyLists
    BY <1>3 DEF ListsNow
  <2> QED BY <2>1, <1>1, <1>2, ClearedLists DEF FiledIn
<1>4. CASE ~MustClear
  <2>1. ListsNow = freeLists /\ filed = FilingFor(opts)
    BY <1>4 DEF ListsNow, MustClear
  <2>2. freeLists \in FreeLists
    BY DEF IInv, TypeOK, FreeLists
  <2>3. OnceIn(freeLists)
    BY DEF IInv, RetainedOnce, OnceIn
  <2>4. RetainedIn(freeLists) = Retained
    BY DEF RetainedIn, Retained
  <2>5. FiledIn(freeLists, filed)
    BY DEF IInv, FiledUnderOwnClass, FiledIn
  <2> QED BY <2>1, <2>2, <2>3, <2>4, <2>5, <1>1, <1>2
<1> QED BY <1>3, <1>4

\* Lending a buffer that is on no free list and in no other live lease.
LEMMA LendStep ==
  ASSUME IInv,
         NEW l \in Leases, NEW b \in Buffers, NEW cls \in Nat, NEW asked \in Nat,
         NEW pooled \in BOOLEAN,
         MakeLease(l, b, cls, asked, pooled),
         RetainedIn(freeLists') \subseteq Retained,
         b \notin RetainedIn(freeLists'),
         \A k \in Leases \ {l} : Live(k) => lease[k].buffer # b,
         \A x \in Buffers \ {b} : byteLength'[x] = byteLength[x],
         byteLength'[b] = cls, cls >= asked, pooled => cls \in ClassKeys
  PROVE  /\ lease' \in [Leases -> LeaseRecord]
         /\ LentExclusively'
         /\ LargeEnough'
         /\ LeaseSound'
<1> DEFINE r == [state |-> "live", buffer |-> b, cls |-> cls, asked |-> asked, pooled |-> pooled]
<1>1. lease \in [Leases -> LeaseRecord]
  BY DEF IInv, TypeOK
<1>2. r \in LeaseRecord
  BY DEF LeaseRecord
<1>3. lease' = [lease EXCEPT ![l] = r]
  BY DEF MakeLease
<1>4. lease' \in [Leases -> LeaseRecord]
  BY <1>1, <1>2, <1>3
<1>5. lease'[l] = r
  BY <1>1, <1>3
<1>6. \A k \in Leases \ {l} : lease'[k] = lease[k]
  BY <1>1, <1>3
<1>7. Retained' = RetainedIn(freeLists')
  BY DEF Retained, RetainedIn
<1>8. LentExclusively'
  <2>1. lease'[l].buffer \notin Retained'
    BY <1>5, <1>7
  <2>2. \A k \in Leases \ {l} : Live(k)' => lease'[k].buffer \notin Retained'
    BY <1>6, <1>7 DEF IInv, LentExclusively, Live
  <2>3. \A k \in Leases \ {l} : Live(k)' => lease'[k].buffer # lease'[l].buffer
    BY <1>5, <1>6 DEF Live
  <2>4. \A j \in Leases \ {l} : \A k \in Leases \ {j, l} :
           Live(j)' /\ Live(k)' => lease'[k].buffer # lease'[j].buffer
    BY <1>6 DEF IInv, LentExclusively, Live
  <2> QED BY <2>1, <2>2, <2>3, <2>4 DEF LentExclusively
<1>9. LargeEnough'
  <2>1. byteLength'[lease'[l].buffer] >= lease'[l].asked
    BY <1>5
  <2>2. \A k \in Leases \ {l} : Live(k)' => byteLength'[lease'[k].buffer] >= lease'[k].asked
    BY <1>6 DEF IInv, LargeEnough, LeaseSound, Live
  <2> QED BY <2>1, <2>2 DEF LargeEnough
<1>10. LeaseSound'
  <2> SUFFICES ASSUME NEW k \in Leases, Live(k)'
               PROVE  /\ lease'[k].buffer \in Buffers
                      /\ lease'[k].pooled =>
                           /\ lease'[k].cls \in ClassKeys
                           /\ byteLength'[lease'[k].buffer] = lease'[k].cls
    BY DEF LeaseSound
  <2>1. CASE k = l
    BY <2>1, <1>5
  <2>2. CASE k # l
    BY <2>2, <1>6 DEF IInv, LeaseSound, Live
  <2> QED BY <2>1, <2>2
<1> QED BY <1>4, <1>8, <1>9, <1>10

\* A buffer fresh from `new ArrayBuffer` is neither retained nor lent.
LEMMA FreshBuffer ==
  ASSUME NEW b \in Unreferenced
  PROVE  /\ b \in Buffers
         /\ b \notin Retained
         /\ \A k \in Leases : lease[k].buffer # b
  BY DEF Unreferenced, Referenced

-----------------------------------------------------------------------------
(* Each action preserves the invariant.                                    *)

\* The pool starts with nothing retained and nothing lent (module load).
LEMMA InitInv == Init => IInv
<1> SUFFICES ASSUME Init PROVE IInv
  OBVIOUS
<1>1. EmptyLists \in [ClassKeys -> Seq(Buffers)] /\ \A d \in ClassKeys : DOMAIN EmptyLists[d] = {}
  BY ClearedLists DEF FreeLists
<1>2. NoLease \in LeaseRecord /\ NoLease.state = "none"
  BY DEF NoLease, LeaseRecord
<1>3. TypeOK
  BY <1>1, <1>2 DEF Init, TypeOK, Filing
<1>4. \A l \in Leases : ~Live(l)
  BY <1>2 DEF Init, Live
<1> QED
  BY <1>1, <1>3, <1>4
     DEF Init, IInv, LentExclusively, RetainedOnce, FiledUnderOwnClass, LargeEnough, LeaseSound

\* configureBinary: the invariant does not depend on the current options.
LEMMA ConfigureInv == IInv /\ Configure => IInv'
<1> SUFFICES ASSUME IInv, Configure PROVE IInv'
  OBVIOUS
<1>1. TypeOK'
  BY DEF IInv, TypeOK, Configure
<1> QED
  BY <1>1 DEF IInv, Configure, LentExclusively, RetainedOnce, FiledUnderOwnClass, LargeEnough,
              LeaseSound, Live, Retained

\* acquireBuffer above the largest class, or with pooling off.
LEMMA AcquireUnpooledInv ==
  ASSUME IInv, NEW l \in Leases, NEW bytes \in Sizes, AcquireUnpooled(l, bytes)
  PROVE  IInv'
<1>1. PICK b \in Unreferenced : /\ byteLength' = [byteLength EXCEPT ![b] = bytes]
                                /\ MakeLease(l, b, bytes, bytes, FALSE)
  BY DEF AcquireUnpooled, AllocateFor
<1>2. /\ freeLists' = ListsNow /\ bytesHeld' = HeldNow
      /\ filed' = FilingFor(opts) /\ opts' = opts
  BY DEF AcquireUnpooled, Reconciled
<1>3. bytes \in Nat
  BY SizesAssumption
<1>4. /\ b \in Buffers /\ b \notin Retained
      /\ \A k \in Leases : lease[k].buffer # b
  BY FreshBuffer
<1>5. byteLength' \in [Buffers -> Nat] /\ byteLength'[b] = bytes
      /\ \A x \in Buffers \ {b} : byteLength'[x] = byteLength[x]
  BY <1>1, <1>3, <1>4 DEF IInv, TypeOK
<1>6. /\ lease' \in [Leases -> LeaseRecord]
      /\ LentExclusively' /\ LargeEnough' /\ LeaseSound'
  <2>1. RetainedIn(freeLists') \subseteq Retained
    BY <1>2, ReconcileLists
  <2>2. b \notin RetainedIn(freeLists')
    BY <2>1, <1>4
  <2>3. bytes >= bytes
    BY <1>3
  <2> QED BY <2>1, <2>2, <2>3, <1>1, <1>3, <1>4, <1>5, LendStep
<1>7. TypeOK'
  BY <1>2, <1>5, <1>6, ReconcileLists DEF IInv, TypeOK, FreeLists
<1>8. RetainedOnce'
  BY <1>2, ReconcileLists DEF OnceIn, RetainedOnce
<1>9. FiledUnderOwnClass'
  <2> SUFFICES ASSUME NEW c \in ClassKeys, NEW i \in DOMAIN ListsNow[c]
               PROVE  /\ byteLength'[ListsNow[c][i]] = c
                      /\ SizeClass(FilingFor(opts).min, c) = c
                      /\ c <= FilingFor(opts).max /\ FilingFor(opts).enabled
    BY <1>2 DEF FiledUnderOwnClass
  <2>1. ListsNow[c][i] \in Retained
    BY ReconcileLists DEF FreeLists, RetainedIn
  <2>2. ListsNow[c][i] # b /\ ListsNow[c][i] \in Buffers
    BY <2>1, <1>4 DEF Retained
  <2> QED BY <2>2, <1>5, ReconcileLists DEF FiledIn
<1> QED BY <1>6, <1>7, <1>8, <1>9 DEF IInv

\* acquireBuffer with an empty free list: the buffer is new, so it is nobody's.
LEMMA AcquireMissInv ==
  ASSUME IInv, NEW l \in Leases, NEW bytes \in Sizes, AcquireMiss(l, bytes)
  PROVE  IInv'
<1> DEFINE cls == SizeClassFor(bytes)
<1>1. PICK b \in Unreferenced : /\ byteLength' = [byteLength EXCEPT ![b] = cls]
                                /\ MakeLease(l, b, cls, bytes, TRUE)
  BY DEF AcquireMiss, AllocateFor
<1>2. /\ freeLists' = ListsNow /\ bytesHeld' = HeldNow
      /\ filed' = FilingFor(opts) /\ opts' = opts
  BY DEF AcquireMiss, Reconciled
<1>3. bytes \in Nat /\ cls \in Nat /\ cls \in ClassKeys /\ cls >= bytes
  <2>1. opts.minClassBytes \in MinChoices
    BY DEF IInv, TypeOK, PoolOptions
  <2> QED BY <2>1, SizeClassBound, SizesAssumption DEF SizeClassFor, ClassKeys
<1>4. /\ b \in Buffers /\ b \notin Retained
      /\ \A k \in Leases : lease[k].buffer # b
  BY FreshBuffer
<1> HIDE DEF cls
<1>5. byteLength' \in [Buffers -> Nat] /\ byteLength'[b] = cls
      /\ \A x \in Buffers \ {b} : byteLength'[x] = byteLength[x]
  BY <1>1, <1>3, <1>4 DEF IInv, TypeOK
<1>6. /\ lease' \in [Leases -> LeaseRecord]
      /\ LentExclusively' /\ LargeEnough' /\ LeaseSound'
  <2>1. RetainedIn(freeLists') \subseteq Retained
    BY <1>2, ReconcileLists
  <2>2. b \notin RetainedIn(freeLists')
    BY <2>1, <1>4
  <2> QED BY <2>1, <2>2, <1>1, <1>3, <1>4, <1>5, LendStep
<1>7. TypeOK'
  BY <1>2, <1>5, <1>6, ReconcileLists DEF IInv, TypeOK, FreeLists
<1>8. RetainedOnce'
  BY <1>2, ReconcileLists DEF OnceIn, RetainedOnce
<1>9. FiledUnderOwnClass'
  <2> SUFFICES ASSUME NEW c \in ClassKeys, NEW i \in DOMAIN ListsNow[c]
               PROVE  /\ byteLength'[ListsNow[c][i]] = c
                      /\ SizeClass(FilingFor(opts).min, c) = c
                      /\ c <= FilingFor(opts).max /\ FilingFor(opts).enabled
    BY <1>2 DEF FiledUnderOwnClass
  <2>1. ListsNow[c][i] \in Retained
    BY ReconcileLists DEF FreeLists, RetainedIn
  <2>2. ListsNow[c][i] # b /\ ListsNow[c][i] \in Buffers
    BY <2>1, <1>4 DEF Retained
  <2> QED BY <2>2, <1>5, ReconcileLists DEF FiledIn
<1> QED BY <1>6, <1>7, <1>8, <1>9 DEF IInv

\* acquireBuffer from a free list: pop() takes the only reference the pool has.
LEMMA AcquireHitInv ==
  ASSUME IInv, NEW l \in Leases, NEW bytes \in Sizes, AcquireHit(l, bytes)
  PROVE  IInv'
<1> DEFINE cls == SizeClassFor(bytes)
           b == ListsNow[cls][Len(ListsNow[cls])]
<1>1. bytes \in Nat /\ cls \in Nat /\ cls \in ClassKeys /\ cls >= bytes
  <2>1. opts.minClassBytes \in MinChoices
    BY DEF IInv, TypeOK, PoolOptions
  <2> QED BY <2>1, SizeClassBound, SizesAssumption DEF SizeClassFor, ClassKeys
<1>2. /\ ListsNow[cls] # << >>
      /\ freeLists' = Pop(ListsNow, cls) /\ bytesHeld' = HeldNow - cls
      /\ filed' = FilingFor(opts) /\ opts' = opts /\ byteLength' = byteLength
      /\ MakeLease(l, b, cls, bytes, TRUE)
  BY DEF AcquireHit, Reconciled, Pop, Rest
<1> HIDE DEF cls, b
<1>3. /\ freeLists' \in FreeLists
      /\ OnceIn(freeLists')
      /\ b \in RetainedIn(ListsNow)
      /\ b \notin RetainedIn(freeLists')
      /\ RetainedIn(freeLists') \subseteq RetainedIn(ListsNow)
      /\ \A d \in ClassKeys : \A i \in DOMAIN freeLists'[d] :
           i \in DOMAIN ListsNow[d] /\ freeLists'[d][i] = ListsNow[d][i]
  BY <1>1, <1>2, ReconcileLists, PopLists DEF b
<1>4. b \in Buffers /\ b \in Retained
  BY <1>3, ReconcileLists DEF Retained
<1>5. byteLength[b] = cls
  <2>1. ListsNow[cls] \in Seq(Buffers) /\ ListsNow[cls] # << >>
    BY <1>1, <1>2, ReconcileLists DEF FreeLists
  <2>2. Len(ListsNow[cls]) \in DOMAIN ListsNow[cls]
    BY <2>1
  <2> QED BY <2>2, <1>1, ReconcileLists DEF FiledIn, b
<1>6. \A k \in Leases \ {l} : Live(k) => lease[k].buffer # b
  BY <1>4 DEF IInv, LentExclusively
<1>7. /\ lease' \in [Leases -> LeaseRecord]
      /\ LentExclusively' /\ LargeEnough' /\ LeaseSound'
  <2>1. RetainedIn(freeLists') \subseteq Retained
    BY <1>3, ReconcileLists
  <2> QED BY <2>1, <1>1, <1>2, <1>3, <1>4, <1>5, <1>6, LendStep
<1>8. TypeOK'
  <2>1. HeldNow - cls \in Int
    BY <1>1, ReconcileLists
  <2> QED BY <2>1, <1>2, <1>3, <1>7, ReconcileLists DEF IInv, TypeOK, FreeLists
<1>9. RetainedOnce'
  BY <1>3 DEF OnceIn, RetainedOnce
<1>10. FiledUnderOwnClass'
  BY <1>2, <1>3, ReconcileLists DEF FiledUnderOwnClass, FiledIn
<1> QED BY <1>7, <1>8, <1>9, <1>10 DEF IInv

\* Only leases change, and only from live to something else.
LEMMA EndLoanStep ==
  ASSUME IInv, NEW l \in Leases, NEW r \in LeaseRecord, r.state # "live",
         lease' = [lease EXCEPT ![l] = r], byteLength' = byteLength
  PROVE  /\ lease' \in [Leases -> LeaseRecord]
         /\ LargeEnough' /\ LeaseSound'
         /\ \A k \in Leases : Live(k)' => k # l /\ Live(k) /\ lease'[k] = lease[k]
<1>1. lease \in [Leases -> LeaseRecord]
  BY DEF IInv, TypeOK
<1>2. \A k \in Leases : Live(k)' => k # l /\ Live(k) /\ lease'[k] = lease[k]
  BY <1>1 DEF Live
<1>3. LargeEnough'
  BY <1>2 DEF IInv, LargeEnough
<1>4. LeaseSound'
  BY <1>2 DEF IInv, LeaseSound
<1> QED BY <1>1, <1>2, <1>3, <1>4

\* A holder that drops its lease ends it; the pool is not involved.
LEMMA ForgetInv ==
  ASSUME IInv, NEW l \in Leases, Forget(l)
  PROVE  IInv'
<1>1. NoLease \in LeaseRecord /\ NoLease.state # "live"
  BY DEF NoLease, LeaseRecord
<1>2. /\ lease' = [lease EXCEPT ![l] = NoLease] /\ byteLength' = byteLength
      /\ opts' = opts /\ filed' = filed /\ freeLists' = freeLists /\ bytesHeld' = bytesHeld
  BY DEF Forget
<1>3. /\ lease' \in [Leases -> LeaseRecord]
      /\ LargeEnough' /\ LeaseSound'
      /\ \A k \in Leases : Live(k)' => k # l /\ Live(k) /\ lease'[k] = lease[k]
  BY <1>1, <1>2, EndLoanStep
<1>4. LentExclusively'
  BY <1>2, <1>3 DEF IInv, LentExclusively, Retained
<1>5. TypeOK' /\ RetainedOnce' /\ FiledUnderOwnClass'
  BY <1>2, <1>3 DEF IInv, TypeOK, RetainedOnce, FiledUnderOwnClass
<1> QED BY <1>3, <1>4, <1>5 DEF IInv

\* Lists that keep only what was retained keep the exclusiveness of leases.
LEMMA ReconcileStep ==
  ASSUME IInv, byteLength' = byteLength, lease' = lease, opts' = opts,
         \/ filed' = FilingFor(opts) /\ freeLists' = ListsNow /\ bytesHeld' = HeldNow
         \/ filed' = filed /\ freeLists' = EmptyLists /\ bytesHeld' = 0
  PROVE  IInv'
<1>1. /\ freeLists' \in FreeLists /\ OnceIn(freeLists')
      /\ RetainedIn(freeLists') \subseteq Retained
      /\ FiledIn(freeLists', filed')
      /\ bytesHeld' \in Int /\ filed' \in Filing
  BY ReconcileLists, ClearedLists DEF FiledIn, IInv, TypeOK
<1>2. Retained' = RetainedIn(freeLists')
  BY DEF Retained, RetainedIn
<1>3. TypeOK'
  BY <1>1 DEF IInv, TypeOK, FreeLists
<1>4. LentExclusively' /\ LargeEnough' /\ LeaseSound'
  BY <1>1, <1>2 DEF IInv, LentExclusively, LargeEnough, LeaseSound, Live
<1>5. RetainedOnce'
  BY <1>1 DEF OnceIn, RetainedOnce
<1>6. FiledUnderOwnClass'
  BY <1>1 DEF FiledIn, FiledUnderOwnClass
<1> QED BY <1>3, <1>4, <1>5, <1>6 DEF IInv

\* release(): the first one may file the buffer, a later one changes nothing.
LEMMA ReleaseInv ==
  ASSUME IInv, NEW l \in Leases, Release(l)
  PROVE  IInv'
<1> DEFINE r == [lease[l] EXCEPT !.state = "released"]
           b == lease[l].buffer
           cls == lease[l].cls
<1>1. lease[l] \in LeaseRecord
  BY DEF IInv, TypeOK
<1>2. r \in LeaseRecord /\ r.state # "live"
  BY <1>1 DEF LeaseRecord
<1>3. lease' = [lease EXCEPT ![l] = r] /\ byteLength' = byteLength /\ opts' = opts
  BY DEF Release
<1> HIDE DEF r
<1>4. /\ lease' \in [Leases -> LeaseRecord]
      /\ LargeEnough' /\ LeaseSound'
      /\ \A k \in Leases : Live(k)' => k # l /\ Live(k) /\ lease'[k] = lease[k]
  BY <1>2, <1>3, EndLoanStep
<1>5. Retained' = RetainedIn(freeLists')
  BY DEF Retained, RetainedIn
<1>6. CASE /\ lease[l].pooled /\ FirstRelease(l)
           /\ ReturnToPool(b, cls) /\ MayFile(b, cls)
  <2>1. /\ freeLists' = Push(ListsNow, cls, b) /\ bytesHeld' = HeldNow + cls
        /\ filed' = FilingFor(opts)
    BY <1>6 DEF ReturnToPool, Reconciled, Push
  <2>2. /\ Live(l) /\ b \in Buffers /\ cls \in ClassKeys /\ byteLength[b] = cls
        /\ b \notin Retained
    BY <1>6 DEF FirstRelease, Live, IInv, LeaseSound, LentExclusively
  <2>3. b \notin RetainedIn(ListsNow)
    BY <2>2, ReconcileLists
  <2>4. /\ freeLists' \in FreeLists /\ OnceIn(freeLists')
        /\ RetainedIn(freeLists') \subseteq RetainedIn(ListsNow) \cup {b}
        /\ \A d \in ClassKeys : \A i \in DOMAIN freeLists'[d] :
              \/ i \in DOMAIN ListsNow[d] /\ freeLists'[d][i] = ListsNow[d][i]
              \/ d = cls /\ i = Len(ListsNow[cls]) + 1 /\ freeLists'[d][i] = b
    BY <2>1, <2>2, <2>3, ReconcileLists, PushLists
  <2>5. TypeOK'
    <3>1. HeldNow + cls \in Int
      <4>1. cls \in Nat
        BY <2>2, SizesAssumption DEF ClassKeys
      <4> HIDE DEF cls
      <4> QED BY <4>1, ReconcileLists
    <3> QED BY <3>1, <1>3, <1>4, <2>1, <2>4, ReconcileLists DEF IInv, TypeOK, FreeLists
  <2>6. LentExclusively'
    <3>1. \A k \in Leases : Live(k)' => lease'[k].buffer # b
      BY <1>4, <2>2 DEF IInv, LentExclusively
    <3>2. \A k \in Leases : Live(k)' => lease'[k].buffer \notin Retained'
      BY <1>4, <1>5, <2>4, <3>1, ReconcileLists DEF IInv, LentExclusively
    <3> QED BY <3>2, <1>4 DEF IInv, LentExclusively
  <2>7. RetainedOnce'
    BY <2>4 DEF OnceIn, RetainedOnce
  <2>8. FiledUnderOwnClass'
    <3>1. /\ SizeClass(FilingFor(opts).min, cls) = cls
          /\ cls <= FilingFor(opts).max /\ FilingFor(opts).enabled
      BY <1>6, <2>2 DEF MayFile, SizeClassFor, FilingFor
    <3> QED BY <3>1, <1>3, <2>1, <2>2, <2>4, ReconcileLists DEF FiledUnderOwnClass, FiledIn
  <2> QED BY <1>4, <2>5, <2>6, <2>7, <2>8 DEF IInv
<1>7. CASE \/ /\ ReturnToPool(b, cls) /\ ~MayFile(b, cls)
           \/ UNCHANGED <<filed, freeLists, bytesHeld>>
  <2>1. /\ freeLists' \in FreeLists /\ OnceIn(freeLists')
        /\ RetainedIn(freeLists') \subseteq Retained
        /\ FiledIn(freeLists', filed')
        /\ bytesHeld' \in Int /\ filed' \in Filing
    <3>1. CASE ReturnToPool(b, cls) /\ ~MayFile(b, cls)
      BY <3>1, ReconcileLists DEF ReturnToPool, Reconciled
    <3>2. CASE UNCHANGED <<filed, freeLists, bytesHeld>>
      <4>1. Retained = RetainedIn(freeLists)
        BY DEF Retained, RetainedIn
      <4> QED BY <3>2, <4>1
              DEF IInv, TypeOK, RetainedOnce, OnceIn, FiledUnderOwnClass, FiledIn, FreeLists
    <3> QED BY <3>1, <3>2, <1>7
  <2>2. TypeOK'
    BY <2>1, <1>3, <1>4 DEF IInv, TypeOK, FreeLists
  <2>3. LentExclusively'
    BY <2>1, <1>4, <1>5 DEF IInv, LentExclusively
  <2>4. RetainedOnce'
    BY <2>1 DEF OnceIn, RetainedOnce
  <2>5. FiledUnderOwnClass'
    BY <2>1, <1>3 DEF FiledIn, FiledUnderOwnClass
  <2> QED BY <1>4, <2>2, <2>3, <2>4, <2>5 DEF IInv
<1> QED BY <1>6, <1>7 DEF Release

-----------------------------------------------------------------------------
(* The theorems.                                                           *)

\* Every step, and a stutter, preserves the invariant.
LEMMA NextInv == IInv /\ [Next]_poolVars => IInv'
<1> SUFFICES ASSUME IInv, [Next]_poolVars PROVE IInv'
  OBVIOUS
<1>1. CASE Configure
  BY <1>1, ConfigureInv
<1>2. CASE \E l \in Leases : \E bytes \in Sizes : Acquire(l, bytes)
  BY <1>2, AcquireUnpooledInv, AcquireHitInv, AcquireMissInv DEF Acquire
<1>3. CASE \E l \in Leases : Release(l)
  BY <1>3, ReleaseInv
<1>4. CASE \E l \in Leases : Forget(l)
  BY <1>4, ForgetInv
<1>5. CASE Touch
  BY <1>5, ReconcileStep DEF Touch, Reconciled
<1>6. CASE ClearBufferPool
  BY <1>6, ReconcileStep DEF ClearBufferPool
<1>7. CASE UNCHANGED poolVars
  BY <1>7 DEF poolVars, IInv, TypeOK, LentExclusively, RetainedOnce, FiledUnderOwnClass,
              LargeEnough, LeaseSound, Live, Retained
<1> QED BY <1>1, <1>2, <1>3, <1>4, <1>5, <1>6, <1>7 DEF Next

\* The strengthening holds of every reachable state.
THEOREM PoolInvariant == Spec => []IInv
<1>1. Init => IInv
  BY InitInv
<1>2. IInv /\ [Next]_poolVars => IInv'
  BY NextInv
<1> QED BY <1>1, <1>2, PTL DEF Spec

\* The pool's state always has its type (acquireBuffer, returnToPool, reconcile).
THEOREM PoolTypeCorrect == Spec => []TypeOK
<1>1. IInv => TypeOK
  BY DEF IInv
<1> QED BY <1>1, PoolInvariant, PTL

\* A live lease's buffer is on no free list and in no other live lease
\* (makeLease's idempotent release, returnToPool).
THEOREM LeaseExclusive == Spec => []LentExclusively
<1>1. IInv => LentExclusively
  BY DEF IInv
<1> QED BY <1>1, PoolInvariant, PTL

\* A buffer is retained at most once.
THEOREM NeverRetainedTwice == Spec => []RetainedOnce
<1>1. IInv => RetainedOnce
  BY DEF IInv
<1> QED BY <1>1, PoolInvariant, PTL

\* Retained buffers are where acquireBuffer looks for them (returnToPool's check
\* against a class boundary that moved under a lease).
THEOREM RetainedWhereLookedUp == Spec => []FiledUnderOwnClass
<1>1. IInv => FiledUnderOwnClass
  BY DEF IInv
<1> QED BY <1>1, PoolInvariant, PTL

\* acquireBuffer's contract: the buffer holds at least minBytes.
THEOREM LeaseLargeEnough == Spec => []LargeEnough
<1>1. IInv => LargeEnough
  BY DEF IInv
<1> QED BY <1>1, PoolInvariant, PTL

\* A buffer has one holder at most (bufferPool.ts, "never a corrupted response").
THEOREM OneHolder == Spec => []ExclusivelyHeld
<1>1. LentExclusively /\ RetainedOnce => ExclusivelyHeld
  BY DEF ExclusivelyHeld
<1> QED BY <1>1, LeaseExclusive, NeverRetainedTwice, PTL

\* acquireBuffer finds what returnToPool filed, and lends what is large enough.
THEOREM ServedByClass == Spec => []ServesItsClass
<1>1. TypeOK /\ FiledUnderOwnClass /\ LargeEnough => ServesItsClass
  BY DEF ServesItsClass
<1> QED BY <1>1, PoolTypeCorrect, RetainedWhereLookedUp, LeaseLargeEnough, PTL

-----------------------------------------------------------------------------
(* The bytes the pool retains.                                             *)

Plus(x, y) == x + y
Sums == INSTANCE FoldInduction WITH Op <- Plus

BytesIn(fl, length) == Sums!Sum(length, RetainedIn(fl))

\* The counted bytes are those on the lists, and both caps were once allowed.
Accounted(fl, held, length) ==
  /\ IsFiniteSet(RetainedIn(fl))
  /\ held = BytesIn(fl, length)
  /\ \E t \in TotalChoices : held <= t
  /\ \A c \in ClassKeys : \E p \in PerClassChoices : Len(fl[c]) <= p

AInv == IInv /\ Accounted(freeLists, bytesHeld, byteLength)

\* The instance of FoldInduction brings its own copy of IsFiniteSet.
LEMMA SameFiniteness ==
  ASSUME NEW S
  PROVE  IsFiniteSet(S) <=> Sums!IsFiniteSet(S)
BY DEF IsFiniteSet, Sums!IsFiniteSet

\* The sum of the model is the one the lemmas about sums are stated for.
LEMMA RetainedBytesIs == RetainedBytes = BytesIn(freeLists, byteLength)
<1>1. Retained = RetainedIn(freeLists)
  BY DEF Retained, RetainedIn
<1> QED
  BY <1>1 DEF RetainedBytes, BytesIn, Sums!Sum, MapThenSumSet, Sums!MapThenSumSet,
              MapThenFoldSet, Sums!MapThenFoldSet

\* Popping leaves every retained buffer but the top.
LEMMA PopKeepsRest ==
  ASSUME NEW fl \in FreeLists, NEW c \in ClassKeys, fl[c] # << >>, OnceIn(fl)
  PROVE  /\ RetainedIn(Pop(fl, c)) = RetainedIn(fl) \ {fl[c][Len(fl[c])]}
         /\ \A d \in ClassKeys : Len(Pop(fl, c)[d]) <= Len(fl[d])
<1> DEFINE n == Len(fl[c])
           f == SubSeq(fl[c], 1, n - 1)
<1>1. fl[c] \in Seq(Buffers) /\ n \in Nat /\ n >= 1 /\ DOMAIN fl[c] = 1..n
  BY DEF FreeLists
<1>2. DOMAIN f = 1..(n - 1) /\ Len(f) = n - 1 /\ \A i \in 1..(n - 1) : f[i] = fl[c][i]
  BY <1>1
<1>3. \A d \in ClassKeys : Pop(fl, c)[d] = IF d = c THEN f ELSE fl[d]
  BY DEF Pop, FreeLists
<1>4. ASSUME NEW x \in RetainedIn(fl), x # fl[c][n] PROVE x \in RetainedIn(Pop(fl, c))
  <2>1. PICK d \in ClassKeys : \E i \in DOMAIN fl[d] : fl[d][i] = x
    BY DEF RetainedIn
  <2>2. PICK i \in DOMAIN fl[d] : fl[d][i] = x
    BY <2>1
  <2> HIDE DEF f, n
  <2>3. i \in DOMAIN Pop(fl, c)[d] /\ Pop(fl, c)[d][i] = x
    <3>1. CASE d = c
      <4>1. i \in 1..(n - 1)
        BY <1>1, <1>4, <2>2, <3>1
      <4>2. Pop(fl, c)[d] = f
        BY <1>3, <3>1
      <4> QED BY <1>2, <2>2, <3>1, <4>1, <4>2
    <3>2. CASE d # c
      <4>1. Pop(fl, c)[d] = fl[d]
        BY <1>3, <3>2
      <4> QED BY <2>2, <4>1
    <3> QED BY <3>1, <3>2
  <2> QED BY <2>3 DEF RetainedIn
<1>5. ASSUME NEW d \in ClassKeys PROVE Len(Pop(fl, c)[d]) <= Len(fl[d])
  <2>1. Len(fl[d]) \in Nat
    BY DEF FreeLists
  <2> HIDE DEF f, n
  <2>2. CASE d = c
    <3>1. Pop(fl, c)[d] = f
      BY <1>3, <2>2
    <3>2. Len(fl[d]) = n
      BY <2>2 DEF n
    <3> QED BY <1>1, <1>2, <3>1, <3>2
  <2>3. CASE d # c
    <3>1. Pop(fl, c)[d] = fl[d]
      BY <1>3, <2>3
    <3> QED BY <2>1, <3>1
  <2> QED BY <2>2, <2>3
<1> HIDE DEF f
<1>6. RetainedIn(Pop(fl, c)) \subseteq RetainedIn(fl) \ {fl[c][n]}
  BY PopLists
<1> QED BY <1>4, <1>5, <1>6

\* Pushing retains one more buffer, on a list one longer.
LEMMA PushAddsOne ==
  ASSUME NEW fl \in FreeLists, NEW c \in ClassKeys, NEW b \in Buffers,
         b \notin RetainedIn(fl), OnceIn(fl)
  PROVE  /\ RetainedIn(Push(fl, c, b)) = RetainedIn(fl) \cup {b}
         /\ Len(Push(fl, c, b)[c]) = Len(fl[c]) + 1
         /\ \A d \in ClassKeys \ {c} : Push(fl, c, b)[d] = fl[d]
<1> DEFINE n == Len(fl[c])
           f == Append(fl[c], b)
<1>1. fl[c] \in Seq(Buffers) /\ n \in Nat /\ DOMAIN fl[c] = 1..n
  BY DEF FreeLists
<1>2. /\ DOMAIN f = 1..(n + 1) /\ Len(f) = n + 1
      /\ f[n + 1] = b /\ \A i \in 1..n : f[i] = fl[c][i]
  BY <1>1
<1>3. \A d \in ClassKeys : Push(fl, c, b)[d] = IF d = c THEN f ELSE fl[d]
  BY DEF Push, FreeLists
<1> HIDE DEF f
<1>4. b \in RetainedIn(Push(fl, c, b))
  <2>1. Push(fl, c, b)[c] = f /\ n + 1 \in DOMAIN f
    BY <1>1, <1>2, <1>3
  <2> QED BY <1>2, <2>1 DEF RetainedIn
<1>5. ASSUME NEW x \in RetainedIn(fl) PROVE x \in RetainedIn(Push(fl, c, b))
  <2>1. PICK d \in ClassKeys : \E i \in DOMAIN fl[d] : fl[d][i] = x
    BY DEF RetainedIn
  <2>2. PICK i \in DOMAIN fl[d] : fl[d][i] = x
    BY <2>1
  <2>3. i \in DOMAIN Push(fl, c, b)[d] /\ Push(fl, c, b)[d][i] = x
    <3>1. CASE d = c
      <4>1. i \in 1..n /\ i \in 1..(n + 1)
        BY <1>1, <2>2, <3>1
      <4>2. Push(fl, c, b)[d] = f
        BY <1>3, <3>1
      <4> QED BY <1>2, <2>2, <3>1, <4>1, <4>2
    <3>2. CASE d # c
      <4>1. Push(fl, c, b)[d] = fl[d]
        BY <1>3, <3>2
      <4> QED BY <2>2, <4>1
    <3> QED BY <3>1, <3>2
  <2> QED BY <2>3 DEF RetainedIn
<1>6. RetainedIn(Push(fl, c, b)) \subseteq RetainedIn(fl) \cup {b}
  BY PushLists
<1> QED BY <1>2, <1>3, <1>4, <1>5, <1>6

\* Nothing on the lists is no byte, and below every cap.
LEMMA AccountedEmpty ==
  ASSUME IInv, NEW length
  PROVE  Accounted(EmptyLists, 0, length)
<1>1. RetainedIn(EmptyLists) = {} /\ IsFiniteSet({})
  BY ClearedLists, FS_EmptySet
<1>2. BytesIn(EmptyLists, length) = 0
  BY <1>1, SameFiniteness, Sums!SumGrows DEF BytesIn
<1>3. /\ opts.maxTotalBytes \in TotalChoices /\ opts.maxTotalBytes \in Nat
      /\ opts.maxPerClass \in PerClassChoices /\ opts.maxPerClass \in Nat
  BY SizesAssumption DEF IInv, TypeOK, PoolOptions
<1>4. \A c \in ClassKeys : Len(EmptyLists[c]) = 0
  BY DEF EmptyLists
<1> QED BY <1>1, <1>2, <1>3, <1>4 DEF Accounted

\* reconcile() clears the lists and the count together, or neither.
LEMMA AccountedNow ==
  ASSUME AInv
  PROVE  Accounted(ListsNow, HeldNow, byteLength)
<1>1. CASE MustClear
  BY <1>1, AccountedEmpty DEF AInv, ListsNow, HeldNow
<1>2. CASE ~MustClear
  BY <1>2 DEF AInv, ListsNow, HeldNow
<1> QED BY <1>1, <1>2

\* The bytes of the buffers that are retained are natural numbers.
LEMMA LengthsNat ==
  ASSUME IInv, NEW fl
  PROVE  \A b \in RetainedIn(fl) : byteLength[b] \in Nat
BY DEF IInv, TypeOK, RetainedIn

\* acquireBuffer takes its buffer off the list and its class off the count.
LEMMA AccountedPop ==
  ASSUME AInv, NEW c \in ClassKeys, ListsNow[c] # << >>
  PROVE  Accounted(Pop(ListsNow, c), HeldNow - c, byteLength)
<1> DEFINE top == ListsNow[c][Len(ListsNow[c])]
<1>1. IInv /\ Accounted(ListsNow, HeldNow, byteLength)
  BY AccountedNow DEF AInv
<1>2. ListsNow \in FreeLists /\ OnceIn(ListsNow) /\ FiledIn(ListsNow, FilingFor(opts))
  BY <1>1, ReconcileLists
<1>3. /\ RetainedIn(Pop(ListsNow, c)) = RetainedIn(ListsNow) \ {top}
      /\ \A d \in ClassKeys : Len(Pop(ListsNow, c)[d]) <= Len(ListsNow[d])
  BY <1>2, PopKeepsRest
<1>4. top \in RetainedIn(ListsNow) /\ Pop(ListsNow, c) \in FreeLists
  BY <1>2, PopLists
<1>5. byteLength[top] = c
  <2>1. ListsNow[c] \in Seq(Buffers)
    BY <1>2 DEF FreeLists
  <2>2. Len(ListsNow[c]) \in DOMAIN ListsNow[c]
    BY <2>1
  <2> QED BY <1>2, <2>2 DEF FiledIn
<1> HIDE DEF top
<1>6. /\ IsFiniteSet(RetainedIn(ListsNow)) /\ HeldNow = BytesIn(ListsNow, byteLength)
      /\ \A b \in RetainedIn(ListsNow) : byteLength[b] \in Nat
  BY <1>1, LengthsNat DEF Accounted
<1>7. IsFiniteSet(RetainedIn(Pop(ListsNow, c)))
  BY <1>3, <1>6, FS_RemoveElement
<1>8. BytesIn(ListsNow, byteLength) = c + BytesIn(Pop(ListsNow, c), byteLength)
  BY <1>3, <1>4, <1>5, <1>6, SameFiniteness, Sums!SumGrows DEF BytesIn
<1>9. \A b \in RetainedIn(Pop(ListsNow, c)) : byteLength[b] \in Nat
  BY <1>3, <1>6
<1>10. BytesIn(Pop(ListsNow, c), byteLength) \in Nat
  BY <1>7, <1>9, SameFiniteness, Sums!SumGrows DEF BytesIn
<1>11. HeldNow - c = BytesIn(Pop(ListsNow, c), byteLength) /\ HeldNow - c <= HeldNow
  <2>1. c \in Nat
    BY SizesAssumption DEF ClassKeys
  <2> QED BY <1>6, <1>8, <1>10, <2>1
<1>12. \E t \in TotalChoices : HeldNow - c <= t
  <2>1. PICK t \in TotalChoices : HeldNow <= t
    BY <1>1 DEF Accounted
  <2>2. t \in Nat /\ HeldNow - c \in Nat /\ c \in Nat /\ HeldNow \in Int
    BY <1>1, <1>10, <1>11, ReconcileLists, SizesAssumption DEF ClassKeys
  <2> QED BY <1>11, <2>1, <2>2
<1>13. ASSUME NEW d \in ClassKeys
       PROVE  \E p \in PerClassChoices : Len(Pop(ListsNow, c)[d]) <= p
  <2>1. PICK p \in PerClassChoices : Len(ListsNow[d]) <= p
    BY <1>1 DEF Accounted
  <2>2. p \in Nat /\ Len(ListsNow[d]) \in Nat /\ Len(Pop(ListsNow, c)[d]) \in Nat
    BY <1>2, <1>4, SizesAssumption DEF FreeLists
  <2>3. Len(Pop(ListsNow, c)[d]) <= p
    BY <1>3, <2>1, <2>2
  <2> QED BY <2>3
<1> QED BY <1>7, <1>11, <1>12, <1>13 DEF Accounted

\* returnToPool adds its buffer to the list and its class to the count, below both caps.
LEMMA AccountedPush ==
  ASSUME AInv, NEW c \in ClassKeys, NEW b \in Buffers, b \notin Retained,
         byteLength[b] = c, MayFile(b, c)
  PROVE  Accounted(Push(ListsNow, c, b), HeldNow + c, byteLength)
<1> DEFINE fl == Push(ListsNow, c, b)
<1>1. IInv /\ Accounted(ListsNow, HeldNow, byteLength)
  BY AccountedNow DEF AInv
<1>2. ListsNow \in FreeLists /\ OnceIn(ListsNow) /\ b \notin RetainedIn(ListsNow)
  BY <1>1, ReconcileLists
<1>3. /\ RetainedIn(fl) = RetainedIn(ListsNow) \cup {b}
      /\ Len(fl[c]) = Len(ListsNow[c]) + 1
      /\ \A d \in ClassKeys \ {c} : fl[d] = ListsNow[d]
  BY <1>2, PushAddsOne
<1> HIDE DEF fl
<1>4. /\ IsFiniteSet(RetainedIn(ListsNow)) /\ HeldNow = BytesIn(ListsNow, byteLength)
      /\ \A x \in RetainedIn(ListsNow) : byteLength[x] \in Nat
  BY <1>1, LengthsNat DEF Accounted
<1>5. IsFiniteSet(RetainedIn(fl)) /\ \A x \in RetainedIn(fl) : byteLength[x] \in Nat
  BY <1>3, <1>4, <1>1, LengthsNat, FS_AddElement
<1>6. RetainedIn(fl) \ {b} = RetainedIn(ListsNow) /\ b \in RetainedIn(fl)
  BY <1>2, <1>3
<1>7. BytesIn(fl, byteLength) = c + BytesIn(ListsNow, byteLength)
  BY <1>5, <1>6, SameFiniteness, Sums!SumGrows DEF BytesIn
<1>8. c \in Nat /\ HeldNow \in Int
  BY <1>1, ReconcileLists, SizesAssumption DEF ClassKeys
<1>9. HeldNow + c = BytesIn(fl, byteLength)
  BY <1>4, <1>7, <1>8
<1>10. \E t \in TotalChoices : HeldNow + c <= t
  BY <1>1 DEF IInv, TypeOK, PoolOptions, MayFile
<1>11. ASSUME NEW d \in ClassKeys PROVE \E p \in PerClassChoices : Len(fl[d]) <= p
  <2>1. CASE d # c
    BY <1>1, <1>3, <2>1 DEF Accounted
  <2>2. CASE d = c
    <3>1. opts.maxPerClass \in PerClassChoices /\ opts.maxPerClass \in Nat
      BY <1>1, SizesAssumption DEF IInv, TypeOK, PoolOptions
    <3>2. Len(ListsNow[c]) < opts.maxPerClass /\ Len(ListsNow[c]) \in Nat
      BY <1>2 DEF MayFile, FreeLists
    <3> QED BY <1>3, <2>2, <3>1, <3>2
  <2> QED BY <2>1, <2>2
<1> QED BY <1>5, <1>9, <1>10, <1>11 DEF Accounted, fl

\* A new buffer's length is of no buffer that is retained.
LEMMA AccountedAllocate ==
  ASSUME AInv, NEW b, b \notin Retained, NEW length,
         \A x \in Buffers \ {b} : length[x] = byteLength[x]
  PROVE  Accounted(ListsNow, HeldNow, length)
<1>1. IInv /\ Accounted(ListsNow, HeldNow, byteLength)
  BY AccountedNow DEF AInv
<1>2. \A x \in RetainedIn(ListsNow) : length[x] = byteLength[x]
  <2>1. RetainedIn(ListsNow) \subseteq Retained
    BY <1>1, ReconcileLists
  <2> QED BY <2>1 DEF Retained
<1>3. BytesIn(ListsNow, length) = BytesIn(ListsNow, byteLength)
  BY <1>1, <1>2, SameFiniteness, Sums!SumSame DEF BytesIn, Accounted
<1> QED BY <1>1, <1>3 DEF Accounted

\* The size class a caller's size is rounded to is the key of a free list.
LEMMA ClassOfSize ==
  ASSUME IInv, NEW bytes \in Sizes
  PROVE  SizeClassFor(bytes) \in ClassKeys
<1>1. opts.minClassBytes \in MinChoices
  BY DEF IInv, TypeOK, PoolOptions
<1> QED BY <1>1, SizeClassBound DEF SizeClassFor

\* Every way acquireBuffer ends leaves the bytes accounted for.
LEMMA AcquireAccounted ==
  ASSUME AInv, NEW l \in Leases, NEW bytes \in Sizes, Acquire(l, bytes)
  PROVE  Accounted(freeLists, bytesHeld, byteLength)'
<1>1. IInv
  BY DEF AInv
<1>2. CASE AcquireUnpooled(l, bytes) \/ AcquireMiss(l, bytes)
  <2>1. PICK b \in Unreferenced : \E n : byteLength' = [byteLength EXCEPT ![b] = n]
    BY <1>2 DEF AcquireUnpooled, AcquireMiss, AllocateFor
  <2>2. b \in Buffers /\ b \notin Retained
    BY FreshBuffer
  <2>3. \A x \in Buffers \ {b} : byteLength'[x] = byteLength[x]
    BY <1>1, <2>1 DEF IInv, TypeOK
  <2>4. freeLists' = ListsNow /\ bytesHeld' = HeldNow
    BY <1>2 DEF AcquireUnpooled, AcquireMiss
  <2>5. Accounted(ListsNow, HeldNow, byteLength')
    BY <2>2, <2>3, AccountedAllocate
  <2> QED BY <2>4, <2>5 DEF Accounted, BytesIn, RetainedIn
<1>3. CASE AcquireHit(l, bytes)
  <2> DEFINE cls == SizeClassFor(bytes)
  <2>1. /\ ListsNow[cls] # << >>
        /\ freeLists' = Pop(ListsNow, cls) /\ bytesHeld' = HeldNow - cls
        /\ byteLength' = byteLength
    BY <1>3 DEF AcquireHit, Pop, Rest
  <2>2. cls \in ClassKeys
    BY <1>1, ClassOfSize
  <2> HIDE DEF cls
  <2>3. Accounted(Pop(ListsNow, cls), HeldNow - cls, byteLength)
    BY <2>1, <2>2, AccountedPop
  <2> QED BY <2>1, <2>3 DEF Accounted, BytesIn, RetainedIn
<1> QED BY <1>2, <1>3 DEF Acquire

\* A release files the buffer and counts it, or does neither.
LEMMA ReleaseAccounted ==
  ASSUME AInv, NEW l \in Leases, Release(l)
  PROVE  Accounted(freeLists, bytesHeld, byteLength)'
<1> DEFINE b == lease[l].buffer
           cls == lease[l].cls
<1>1. IInv /\ byteLength' = byteLength
  BY DEF AInv, Release
<1>2. CASE lease[l].pooled /\ FirstRelease(l) /\ ReturnToPool(b, cls) /\ MayFile(b, cls)
  <2>1. freeLists' = Push(ListsNow, cls, b) /\ bytesHeld' = HeldNow + cls
    BY <1>2 DEF ReturnToPool, Push
  <2>2. /\ b \in Buffers /\ cls \in ClassKeys /\ byteLength[b] = cls
        /\ b \notin Retained
    BY <1>1, <1>2 DEF FirstRelease, Live, IInv, LeaseSound, LentExclusively
  <2>3. MayFile(b, cls)
    BY <1>2
  <2> HIDE DEF b, cls
  <2>4. Accounted(Push(ListsNow, cls, b), HeldNow + cls, byteLength)
    BY <2>2, <2>3, AccountedPush
  <2> QED BY <1>1, <2>1, <2>4 DEF Accounted, BytesIn, RetainedIn
<1>3. CASE ReturnToPool(b, cls) /\ ~MayFile(b, cls)
  <2>1. freeLists' = ListsNow /\ bytesHeld' = HeldNow
    BY <1>3 DEF ReturnToPool
  <2>2. Accounted(ListsNow, HeldNow, byteLength)
    BY AccountedNow
  <2> QED BY <1>1, <2>1, <2>2 DEF Accounted, BytesIn, RetainedIn
<1>4. CASE UNCHANGED <<filed, freeLists, bytesHeld>>
  BY <1>1, <1>4 DEF AInv, Accounted, BytesIn, RetainedIn
<1> QED BY <1>2, <1>3, <1>4 DEF Release

\* The count is exact and below both caps in every state: no order of borrowing,
\* releasing twice, reconfiguring and clearing makes it drift (bytesHeld in
\* acquireBuffer, returnToPool, reconcile and clearBufferPool).
THEOREM BytesAccountedFor == Spec => []AccountsForBytes
<1>1. Init => AInv
  <2> SUFFICES ASSUME Init PROVE AInv
    OBVIOUS
  <2>1. IInv
    BY InitInv
  <2>2. Accounted(EmptyLists, 0, byteLength)
    BY <2>1, AccountedEmpty
  <2> QED BY <2>1, <2>2 DEF AInv, Init
<1>2. AInv /\ [Next]_poolVars => AInv'
  <2> SUFFICES ASSUME AInv, [Next]_poolVars PROVE AInv'
    OBVIOUS
  <2>1. IInv /\ IInv'
    BY NextInv DEF AInv
  <2> SUFFICES Accounted(freeLists, bytesHeld, byteLength)'
    BY <2>1 DEF AInv
  <2>2. CASE UNCHANGED <<freeLists, bytesHeld, byteLength>>
    BY <2>2 DEF AInv, Accounted, BytesIn, RetainedIn
  <2>3. CASE Configure \/ \E l \in Leases : Forget(l)
    BY <2>2, <2>3 DEF Configure, Forget
  <2>4. CASE \E l \in Leases : \E bytes \in Sizes : Acquire(l, bytes)
    BY <2>4, AcquireAccounted
  <2>5. CASE \E l \in Leases : Release(l)
    BY <2>5, ReleaseAccounted
  <2>6. CASE Touch
    <3>1. freeLists' = ListsNow /\ bytesHeld' = HeldNow /\ byteLength' = byteLength
      BY <2>6 DEF Touch
    <3>2. Accounted(ListsNow, HeldNow, byteLength)
      BY AccountedNow
    <3> QED BY <3>1, <3>2 DEF Accounted, BytesIn, RetainedIn
  <2>7. CASE ClearBufferPool
    <3>1. freeLists' = EmptyLists /\ bytesHeld' = 0
      BY <2>7 DEF ClearBufferPool
    <3>2. Accounted(EmptyLists, 0, byteLength')
      BY <2>1, AccountedEmpty
    <3> QED BY <3>1, <3>2 DEF Accounted, BytesIn, RetainedIn
  <2>8. CASE UNCHANGED poolVars
    BY <2>2, <2>8 DEF poolVars
  <2> QED BY <2>3, <2>4, <2>5, <2>6, <2>7, <2>8 DEF Next
<1>3. AInv => AccountsForBytes
  BY RetainedBytesIs
     DEF AInv, Accounted, AccountsForBytes, BytesHeldExact, WithinLargestCaps
<1> QED BY <1>1, <1>2, <1>3, PTL DEF Spec

-----------------------------------------------------------------------------
(* The pool implements ExclusiveLoan.                                      *)

\* A new live lease is a Lend of the abstract lender.
LEMMA LendStepRefines ==
  ASSUME IInv, NEW l \in Leases, NEW b \in Buffers, NEW cls, NEW asked, NEW pooled,
         lease[l].state = "none", MakeLease(l, b, cls, asked, pooled),
         \A k \in Leases \ {l} : Live(k) => lease[k].buffer # b
  PROVE  Loan!Lend(l, b)
<1>1. lease \in [Leases -> LeaseRecord]
  BY DEF IInv, TypeOK
<1>2. lease'[l].state = "live" /\ lease'[l].buffer = b
  BY <1>1 DEF MakeLease
<1>3. \A k \in Leases \ {l} : lease'[k] = lease[k]
  BY <1>1 DEF MakeLease
<1>4. lentTo' = [lentTo EXCEPT ![l] = b]
  BY <1>2, <1>3 DEF lentTo, Live
<1>5. lentTo[l] = NoBuffer /\ \A k \in Leases : lentTo[k] # b
  BY NoBufferAssumption DEF lentTo, Live
<1> QED BY <1>4, <1>5 DEF Loan!Lend

\* The end of a live lease is a Return, the end of any other a stutter.
LEMMA EndLoanRefines ==
  ASSUME IInv, NEW l \in Leases, NEW r \in LeaseRecord, r.state # "live",
         lease' = [lease EXCEPT ![l] = r]
  PROVE  Loan!Return(l) \/ lentTo' = lentTo
<1>1. lease \in [Leases -> LeaseRecord]
  BY DEF IInv, TypeOK
<1>2. lentTo' = [lentTo EXCEPT ![l] = NoBuffer]
  BY <1>1 DEF lentTo, Live
<1>3. CASE Live(l)
  <2>1. lentTo[l] # NoBuffer
    BY <1>3, NoBufferAssumption DEF lentTo, IInv, LeaseSound
  <2> QED BY <2>1, <1>2 DEF Loan!Return
<1>4. CASE ~Live(l)
  BY <1>4, <1>2 DEF lentTo
<1> QED BY <1>3, <1>4

\* Every behaviour of the pool is a behaviour of the abstract lender: a borrower
\* gets a buffer nobody else has and keeps it until it gives it back itself.
THEOREM PoolImplementsLoan == Spec => ImplementsLoan
<1>1. Init => Loan!LoanInit
  <2>1. NoLease.state = "none"
    BY DEF NoLease
  <2> QED BY <2>1 DEF Init, Loan!LoanInit, lentTo, Live
<1>2. IInv /\ [Next]_poolVars => [Loan!LoanNext]_lentTo
  <2> SUFFICES ASSUME IInv, [Next]_poolVars PROVE Loan!LoanNext \/ lentTo' = lentTo
    OBVIOUS
  <2>1. ASSUME NEW l \in Leases, NEW bytes \in Sizes,
               AcquireUnpooled(l, bytes) \/ AcquireMiss(l, bytes)
        PROVE  Loan!LoanNext
    <3>1. PICK b \in Unreferenced, cls \in Int, pooled \in BOOLEAN :
             MakeLease(l, b, cls, bytes, pooled)
      <4>1. bytes \in Int /\ SizeClassFor(bytes) \in Int
        <5>1. opts.minClassBytes \in MinChoices
          BY DEF IInv, TypeOK, PoolOptions
        <5>2. SizeClassFor(bytes) \in ClassKeys
          BY <5>1, SizeClassBound DEF SizeClassFor
        <5>3. ClassKeys \subseteq Int /\ bytes \in Int
          BY SizesAssumption DEF ClassKeys
        <5> QED BY <5>2, <5>3
      <4>2. CASE AcquireUnpooled(l, bytes)
        BY <4>1, <4>2 DEF AcquireUnpooled, AllocateFor
      <4>3. CASE AcquireMiss(l, bytes)
        BY <4>1, <4>3 DEF AcquireMiss, AllocateFor
      <4> QED BY <2>1, <4>2, <4>3
    <3>2. lease[l].state = "none"
      BY <2>1 DEF AcquireUnpooled, AcquireMiss
    <3> QED BY <3>1, <3>2, FreshBuffer, LendStepRefines DEF Loan!LoanNext
  <2>2. ASSUME NEW l \in Leases, NEW bytes \in Sizes, AcquireHit(l, bytes)
        PROVE  Loan!LoanNext
    <3> DEFINE cls == SizeClassFor(bytes)
               b == ListsNow[cls][Len(ListsNow[cls])]
    <3>1. lease[l].state = "none" /\ MakeLease(l, b, cls, bytes, TRUE) /\ ListsNow[cls] # << >>
      BY <2>2 DEF AcquireHit
    <3>2. cls \in ClassKeys
      <4>1. opts.minClassBytes \in MinChoices
        BY DEF IInv, TypeOK, PoolOptions
      <4> QED BY <4>1, SizeClassBound DEF SizeClassFor
    <3> HIDE DEF cls
    <3>3. b \in RetainedIn(ListsNow)
      BY <3>1, <3>2, ReconcileLists, PopLists
    <3>4. b \in Buffers /\ \A k \in Leases \ {l} : Live(k) => lease[k].buffer # b
      BY <3>3, ReconcileLists DEF IInv, LentExclusively, Retained
    <3> HIDE DEF b
    <3> QED BY <3>1, <3>4, LendStepRefines DEF Loan!LoanNext
  <2>3. ASSUME NEW l \in Leases, Release(l)
        PROVE  Loan!LoanNext \/ lentTo' = lentTo
    <3> DEFINE r == [lease[l] EXCEPT !.state = "released"]
    <3>1. r \in LeaseRecord /\ r.state # "live"
      BY DEF IInv, TypeOK, LeaseRecord
    <3>2. lease' = [lease EXCEPT ![l] = r]
      BY <2>3 DEF Release
    <3> HIDE DEF r
    <3> QED BY <3>1, <3>2, EndLoanRefines DEF Loan!LoanNext
  <2>4. ASSUME NEW l \in Leases, Forget(l)
        PROVE  Loan!LoanNext \/ lentTo' = lentTo
    <3>1. NoLease \in LeaseRecord /\ NoLease.state # "live"
      BY DEF NoLease, LeaseRecord
    <3> QED BY <3>1, <2>4, EndLoanRefines DEF Forget, Loan!LoanNext
  <2>5. CASE Configure \/ Touch \/ ClearBufferPool \/ UNCHANGED poolVars
    BY <2>5 DEF Configure, Touch, ClearBufferPool, poolVars, lentTo, Live
  <2> QED BY <2>1, <2>2, <2>3, <2>4, <2>5 DEF Next, Acquire
<1> QED BY <1>1, <1>2, PoolInvariant, PTL DEF Spec, ImplementsLoan, Loan!LoanSpec

-----------------------------------------------------------------------------
(* BodySerializer: the inductive invariant, which has that of the pool.     *)

Holding(l) == Busy(l, "writing") \/ Busy(l, "returning")

\* The call in progress has something to encode and no outcome yet; a buffer is
\* borrowed while it writes and until it gives the buffer back, or by a result.
CallSound(l) ==
  /\ running = l => envelope[l] \in Envelopes /\ result[l] = NoResult
  /\ Holding(l) => Live(l)
  /\ Live(l) => result[l].kind = "pooled" \/ Holding(l)

\* The plan of an attempt is a size; one that was measured is what the measure pass
\* may count, and what is borrowed was asked for by the plan.  So an attempt that
\* was measured fails only when the envelope has an outcome that is not its measure.
PlanSound(l) ==
  /\ Busy(l, "borrowing") \/ Busy(l, "writing") =>
       /\ plan.size \in Sizes
       /\ plan.measured => plan.size \in envelope[l].measures
       /\ phase = "writing" => lease[l].asked = plan.size
  /\ Busy(l, "returning") /\ plan.measured =>
       \E x \in envelope[l].measures, y \in envelope[l].writes : x # y

\* What a call returned is an outcome of its envelope.
ResultSound(l) ==
  /\ result[l].kind \in {"pooled", "adaptive"} =>
       result[l].bytes \in envelope[l].writes /\ result[l].bytes # Throws
  /\ result[l].kind = "threw" => Throws \in envelope[l].writes

\* The bytes of a pooled result, while it is held.
PooledIntact(l) ==
  result[l].kind = "pooled" /\ Live(l) =>
    /\ written[lease[l].buffer] = l
    /\ result[l].bytes <= byteLength[lease[l].buffer]

CallInv(l) == CallSound(l) /\ PlanSound(l) /\ ResultSound(l) /\ PooledIntact(l)

SInv == IInv /\ SerializerTypeOK /\ \A l \in Leases : CallInv(l)

-----------------------------------------------------------------------------
(* What a step of the pool leaves to the other leases.                     *)

\* The leases but l are what they were, and so are the buffers they hold.
OthersKept(l) ==
  \A k \in Leases \ {l} :
    lease'[k] = lease[k] /\ (Live(k) => byteLength'[lease[k].buffer] = byteLength[lease[k].buffer])

\* acquireBuffer lends to l and disturbs nobody.
LEMMA AcquireKeeps ==
  ASSUME IInv, NEW l \in Leases, NEW bytes \in Sizes, Acquire(l, bytes)
  PROVE  /\ IInv' /\ OthersKept(l)
         /\ Live(l)' /\ lease'[l].asked = bytes
<1>1. lease \in [Leases -> LeaseRecord] /\ byteLength \in [Buffers -> Nat]
  BY DEF IInv, TypeOK
<1>2. ASSUME NEW b \in Unreferenced, NEW cls, NEW pooled,
             byteLength' = [byteLength EXCEPT ![b] = cls],
             MakeLease(l, b, cls, bytes, pooled)
      PROVE  OthersKept(l) /\ Live(l)' /\ lease'[l].asked = bytes
  <2>1. \A k \in Leases : lease[k].buffer # b
    BY FreshBuffer
  <2>2. \A x \in Buffers \ {b} : byteLength'[x] = byteLength[x]
    BY <1>1, <1>2
  <2>3. \A k \in Leases : Live(k) => lease[k].buffer \in Buffers
    BY DEF IInv, LeaseSound
  <2> QED BY <1>1, <1>2, <2>1, <2>2, <2>3 DEF MakeLease, OthersKept, Live
<1>3. CASE AcquireUnpooled(l, bytes)
  BY <1>2, <1>3, AcquireUnpooledInv DEF AcquireUnpooled, AllocateFor
<1>4. CASE AcquireMiss(l, bytes)
  BY <1>2, <1>4, AcquireMissInv DEF AcquireMiss, AllocateFor
<1>5. CASE AcquireHit(l, bytes)
  <2>1. IInv'
    BY <1>5, AcquireHitInv
  <2>2. byteLength' = byteLength /\ \E b, cls : MakeLease(l, b, cls, bytes, TRUE)
    BY <1>5 DEF AcquireHit
  <2> QED BY <1>1, <2>1, <2>2 DEF MakeLease, OthersKept, Live
<1> QED BY <1>3, <1>4, <1>5 DEF Acquire

\* release() and dropping a lease end l's loan and disturb nobody.
LEMMA EndLoanKeeps ==
  ASSUME IInv, NEW l \in Leases, Release(l) \/ Forget(l)
  PROVE  IInv' /\ OthersKept(l) /\ ~Live(l)'
<1>1. lease \in [Leases -> LeaseRecord]
  BY DEF IInv, TypeOK
<1>2. CASE Release(l)
  <2>1. IInv'
    BY <1>2, ReleaseInv
  <2>2. lease' = [lease EXCEPT ![l].state = "released"] /\ byteLength' = byteLength
    BY <1>2 DEF Release
  <2> QED BY <1>1, <2>1, <2>2 DEF OthersKept, Live, LeaseRecord
<1>3. CASE Forget(l)
  BY <1>1, <1>3, ForgetInv DEF Forget, OthersKept, Live, NoLease
<1> QED BY <1>2, <1>3

\* A pool that no call touches keeps every lease.
LEMMA PoolUnchanged ==
  ASSUME IInv, UNCHANGED poolVars
  PROVE  /\ IInv' /\ \A l \in Leases : OthersKept(l) /\ (Live(l)' <=> Live(l))
<1>1. IInv'
  BY NextInv
<1> QED BY <1>1 DEF poolVars, OthersKept, Live

-----------------------------------------------------------------------------
(* A step of one call.                                                     *)

\* A step of l that touches neither another call nor its buffer, and keeps l's own
\* part of the invariant, keeps the invariant.
LEMMA CallStep ==
  ASSUME SInv, NEW l \in Leases, IInv', SerializerTypeOK', OthersKept(l),
         running \in {l, Nobody}, running' \in {l, Nobody},
         \A k \in Leases \ {l} : envelope'[k] = envelope[k] /\ result'[k] = result[k],
         \/ written' = written
         \/ Live(l) /\ written' = [written EXCEPT ![lease[l].buffer] = l],
         CallInv(l)'
  PROVE  SInv'
<1> SUFFICES ASSUME NEW k \in Leases \ {l}
             PROVE  CallInv(k)'
  BY DEF SInv
<1>1. CallInv(k) /\ running # k /\ running' # k
  BY NobodyAssumption DEF SInv
<1>2. lease'[k] = lease[k] /\ (Live(k)' <=> Live(k))
  BY DEF OthersKept, Live
<1>3. CallSound(k)' /\ PlanSound(k)' /\ ResultSound(k)'
  BY <1>1, <1>2 DEF CallInv, CallSound, PlanSound, ResultSound, Holding, Busy
<1>4. PooledIntact(k)'
  <2> SUFFICES ASSUME result[k].kind = "pooled", Live(k)
               PROVE  /\ written'[lease[k].buffer] = k
                      /\ result[k].bytes <= byteLength'[lease[k].buffer]
    BY <1>2 DEF PooledIntact
  <2>1. lease[k].buffer \in Buffers
    BY DEF SInv, IInv, LeaseSound
  <2>2. Live(l) => lease[k].buffer # lease[l].buffer
    BY DEF SInv, IInv, LentExclusively
  <2>3. written'[lease[k].buffer] = written[lease[k].buffer]
    BY <2>1, <2>2 DEF SInv, SerializerTypeOK
  <2> QED BY <1>1, <2>3 DEF CallInv, PooledIntact, OthersKept
<1> QED BY <1>3, <1>4 DEF CallInv

\* No result yet is none of the kinds the invariant speaks of.
LEMMA NoResultKind ==
  /\ NoResult.kind = "none" /\ NoResult.bytes = 0
  /\ \A x : Pooled(x) = [kind |-> "pooled", bytes |-> x, rpc |-> FALSE]
  BY DEF NoResult, Pooled

\* An envelope's outcomes are sizes or a throw, and no size is a throw.
LEMMA Outcomes ==
  ASSUME NEW e \in Envelopes, NEW x \in e.writes \cup e.measures
  PROVE  x # Throws => x \in Sizes /\ x \in Nat
  BY EnvelopesAssumption, SizesAssumption DEF OutcomeSets

-----------------------------------------------------------------------------
(* Each action preserves the invariant.                                    *)

\* A call that starts is the one that runs; it holds no buffer and no result yet.
LEMMA BeginInv ==
  ASSUME SInv, NEW l \in Leases, NEW e \in Envelopes, Begin(l, e)
  PROVE  SInv'
<1>1. /\ running = Nobody /\ running' = l /\ result[l] = NoResult /\ result' = result
      /\ envelope' = [envelope EXCEPT ![l] = e] /\ written' = written /\ plan' = plan
      /\ phase' \in {"planning", "growing"} /\ Touch /\ lease[l] = NoLease
  BY DEF Begin
<1>2. lease' = lease /\ byteLength' = byteLength
  BY <1>1 DEF Touch
<1>3. IInv'
  BY <1>1, NextInv DEF SInv, Next
<1>4. envelope'[l] = e /\ \A k \in Leases \ {l} : envelope'[k] = envelope[k]
  BY <1>1 DEF SInv, SerializerTypeOK
<1>5. SerializerTypeOK'
  <2>1. running' # Nobody
    BY <1>1, NobodyAssumption
  <2> QED BY <1>1, <2>1 DEF SInv, SerializerTypeOK, Phases
<1>6. ~Live(l)' /\ OthersKept(l)
  BY <1>1, <1>2 DEF Live, NoLease, OthersKept
<1>7. CallInv(l)'
  BY <1>1, <1>4, <1>6, NoResultKind
     DEF CallInv, CallSound, PlanSound, ResultSound, PooledIntact, Holding, Busy
<1> QED BY <1>1, <1>3, <1>4, <1>5, <1>6, <1>7, CallStep

\* planBuffer trusts a prediction or asks for a measurement.
LEMMA PlanInv ==
  ASSUME SInv, NEW l \in Leases,
         MustMeasure(l) \/ \E size \in Sizes : Predict(l, size)
  PROVE  SInv'
<1>1. /\ running = l /\ phase = "planning" /\ running' = running /\ envelope' = envelope
      /\ UNCHANGED poolVars /\ UNCHANGED <<result, written>>
      /\ \/ phase' = "measuring" /\ plan' = plan
         \/ phase' = "borrowing" /\ plan'.size \in Sizes /\ plan'.measured = FALSE
                                /\ plan' \in [size : Sizes, measured : BOOLEAN]
  <2>1. CASE MustMeasure(l)
    BY <2>1 DEF MustMeasure, Goes, Busy
  <2>2. ASSUME NEW size \in Sizes, Predict(l, size)
        PROVE  /\ running = l /\ phase = "planning" /\ phase' = "borrowing"
               /\ plan' = [size |-> size, measured |-> FALSE]
               /\ running' = running /\ envelope' = envelope
               /\ UNCHANGED poolVars /\ UNCHANGED <<result, written>>
    BY <2>2 DEF Predict, Goes, Busy
  <2>3. ASSUME NEW size \in Sizes, Predict(l, size)
        PROVE  /\ plan'.size \in Sizes /\ plan'.measured = FALSE
               /\ plan' \in [size : Sizes, measured : BOOLEAN]
    BY <2>3 DEF Predict
  <2> QED BY <2>1, <2>2, <2>3
<1>2. IInv' /\ OthersKept(l) /\ (Live(l)' <=> Live(l)) /\ UNCHANGED <<lease, byteLength>>
  BY <1>1, PoolUnchanged DEF SInv, poolVars
<1>3. running' # Nobody
  BY <1>1, NobodyAssumption
<1>4. SerializerTypeOK'
  BY <1>1, <1>3 DEF SInv, SerializerTypeOK, Phases
<1>5. CallInv(l)
  BY DEF SInv
<1>6. CallInv(l)'
  BY <1>1, <1>2, <1>5
     DEF CallInv, CallSound, PlanSound, ResultSound, PooledIntact, Holding, Busy
<1> QED BY <1>1, <1>2, <1>4, <1>6, CallStep

\* measureEnvelope: a size that is an outcome, or the end of the call.
LEMMA MeasureInv ==
  ASSUME SInv, NEW l \in Leases, Measure(l)
  PROVE  SInv'
<1>1. running = l /\ phase = "measuring" /\ UNCHANGED poolVars /\ written' = written
  BY DEF Measure, Busy
<1>2. IInv' /\ OthersKept(l) /\ (Live(l)' <=> Live(l)) /\ UNCHANGED <<lease, byteLength>>
  BY <1>1, PoolUnchanged DEF SInv, poolVars
<1>3. CallInv(l) /\ l # Nobody /\ envelope[l] \in Envelopes /\ ~Live(l)
  BY <1>1, NobodyAssumption, NoResultKind DEF SInv, CallInv, CallSound, Holding, Busy
<1>4. PICK bytes \in envelope[l].measures :
         IF bytes = Throws
           THEN Ends(l, Failure(FALSE)) /\ UNCHANGED plan
           ELSE plan' = [size |-> bytes, measured |-> TRUE] /\ Goes("borrowing") /\ UNCHANGED result
  BY DEF Measure
<1>5. CASE bytes = Throws
  <2>1. /\ running' = Nobody /\ phase' = "idle" /\ envelope' = envelope /\ plan' = plan
        /\ result' = [result EXCEPT ![l] = Failure(FALSE)]
    BY <1>4, <1>5 DEF Ends
  <2>2. SerializerTypeOK'
    BY <1>1, <2>1 DEF SInv, SerializerTypeOK, Phases, Failure
  <2>3. result'[l] = Failure(FALSE) /\ \A k \in Leases \ {l} : result'[k] = result[k]
    BY <2>1 DEF SInv, SerializerTypeOK
  <2>5. Throws \in envelope[l].writes
    BY <1>3, <1>5, EnvelopesAssumption
  <2>4. CallInv(l)'
    BY <1>1, <1>2, <1>3, <2>1, <2>3, <2>5
       DEF CallInv, CallSound, PlanSound, ResultSound, PooledIntact, Holding, Busy, Failure
  <2> QED BY <1>1, <1>2, <2>1, <2>2, <2>3, <2>4, CallStep
<1>6. CASE bytes # Throws
  <2>1. /\ running' = running /\ phase' = "borrowing" /\ envelope' = envelope /\ result' = result
        /\ plan' = [size |-> bytes, measured |-> TRUE]
    BY <1>4, <1>6 DEF Goes
  <2>2. bytes \in Sizes
    BY <1>3, <1>6, Outcomes
  <2>3. SerializerTypeOK'
    BY <1>1, <1>3, <2>1, <2>2 DEF SInv, SerializerTypeOK, Phases
  <2>4. CallInv(l)'
    BY <1>1, <1>2, <1>3, <2>1, <2>2
       DEF CallInv, CallSound, PlanSound, ResultSound, PooledIntact, Holding, Busy
  <2> QED BY <1>1, <1>2, <2>1, <2>3, <2>4, CallStep
<1> QED BY <1>5, <1>6

\* serializePooled borrows what the plan says.
LEMMA BorrowInv ==
  ASSUME SInv, NEW l \in Leases, Borrow(l)
  PROVE  SInv'
<1>1. /\ running = l /\ phase = "borrowing" /\ running' = running /\ phase' = "writing"
      /\ UNCHANGED <<plan, result, written, envelope>> /\ Acquire(l, plan.size)
  BY DEF Borrow, Busy, Goes
<1>2. CallInv(l) /\ l # Nobody
  BY NobodyAssumption DEF SInv
<1>3. plan.size \in Sizes
  BY <1>1, <1>2 DEF CallInv, PlanSound, Busy
<1>4. IInv' /\ OthersKept(l) /\ Live(l)' /\ lease'[l].asked = plan.size
  BY <1>1, <1>3, AcquireKeeps DEF SInv
<1>5. SerializerTypeOK'
  BY <1>1, <1>2 DEF SInv, SerializerTypeOK, Phases
<1>6. CallInv(l)'
  BY <1>1, <1>2, <1>3, <1>4, NoResultKind
     DEF CallInv, CallSound, PlanSound, ResultSound, PooledIntact, Holding, Busy
<1> QED BY <1>1, <1>4, <1>5, <1>6, CallStep

\* The attempt writes: it fits and is the result, or the buffer goes back.
LEMMA WritePooledInv ==
  ASSUME SInv, NEW l \in Leases, WritePooled(l)
  PROVE  SInv'
<1>1. /\ running = l /\ phase = "writing" /\ UNCHANGED poolVars /\ plan' = plan
      /\ written' = [written EXCEPT ![lease[l].buffer] = l]
  BY DEF WritePooled, Busy
<1>2. IInv' /\ OthersKept(l) /\ (Live(l)' <=> Live(l)) /\ UNCHANGED <<lease, byteLength>>
  BY <1>1, PoolUnchanged DEF SInv, poolVars
<1>3. CallInv(l) /\ l # Nobody /\ envelope[l] \in Envelopes /\ Live(l) /\ result[l] = NoResult
  BY <1>1, NobodyAssumption DEF SInv, CallInv, CallSound, Holding, Busy
<1>4. PICK bytes \in envelope[l].writes :
         IF Fits(l, bytes) THEN Ends(l, Pooled(bytes)) ELSE Goes("returning") /\ UNCHANGED result
  BY DEF WritePooled
<1>5. lease[l].buffer \in Buffers /\ written'[lease[l].buffer] = l
  BY <1>1, <1>3 DEF SInv, IInv, LeaseSound, SerializerTypeOK
<1>6. written' \in [Buffers -> Leases \cup {Nobody}]
  BY <1>1 DEF SInv, SerializerTypeOK
<1>7. CASE Fits(l, bytes)
  <2>1. /\ running' = Nobody /\ phase' = "idle" /\ envelope' = envelope
        /\ result' = [result EXCEPT ![l] = Pooled(bytes)]
    BY <1>4, <1>7 DEF Ends
  <2>2. bytes \in Sizes /\ bytes # Throws /\ bytes <= byteLength[lease[l].buffer]
    BY <1>3, <1>7, Outcomes DEF Fits
  <2>3. SerializerTypeOK'
    BY <1>1, <1>6, <2>1, <2>2 DEF SInv, SerializerTypeOK, Phases, Pooled
  <2>4. result'[l] = Pooled(bytes) /\ \A k \in Leases \ {l} : result'[k] = result[k]
    BY <2>1 DEF SInv, SerializerTypeOK
  <2>5. CallInv(l)'
    BY <1>2, <1>3, <1>5, <2>1, <2>2, <2>4, NoResultKind
       DEF CallInv, CallSound, PlanSound, ResultSound, PooledIntact, Holding, Busy
  <2> QED BY <1>1, <1>2, <1>3, <2>1, <2>3, <2>4, <2>5, CallStep
<1>8. CASE ~Fits(l, bytes)
  <2>1. running' = running /\ phase' = "returning" /\ envelope' = envelope /\ result' = result
    BY <1>4, <1>8 DEF Goes
  <2>2. plan.measured => plan.size \in envelope[l].measures /\ plan.size # bytes
    <3>1. /\ plan.size \in Sizes /\ plan.size \in Nat /\ lease[l].asked = plan.size
          /\ plan.measured => plan.size \in envelope[l].measures
      BY <1>1, <1>3, SizesAssumption DEF CallInv, PlanSound, Busy
    <3>2. plan.size <= byteLength[lease[l].buffer] /\ byteLength[lease[l].buffer] \in Nat
      BY <1>3, <1>5, <3>1 DEF SInv, IInv, TypeOK, LargeEnough
    <3>3. CASE bytes = Throws
      BY <3>1, <3>3, ThrowsAssumption
    <3>4. CASE bytes # Throws
      <4>1. bytes \in Nat /\ ~(bytes <= byteLength[lease[l].buffer])
        BY <1>3, <1>8, <3>4, Outcomes DEF Fits
      <4> QED BY <3>1, <3>2, <4>1
    <3> QED BY <3>3, <3>4
  <2>3. SerializerTypeOK'
    BY <1>1, <1>3, <1>6, <2>1 DEF SInv, SerializerTypeOK, Phases
  <2>4. CallInv(l)'
    BY <1>1, <1>2, <1>3, <2>1, <2>2, NoResultKind
       DEF CallInv, CallSound, PlanSound, ResultSound, PooledIntact, Holding, Busy
  <2> QED BY <1>1, <1>2, <1>3, <2>1, <2>3, <2>4, CallStep
<1> QED BY <1>7, <1>8

\* An attempt that failed returns its buffer before the fallback.
LEMMA GiveBackInv ==
  ASSUME SInv, NEW l \in Leases, GiveBack(l)
  PROVE  SInv'
<1>1. /\ running = l /\ phase = "returning" /\ running' = running /\ phase' = "growing"
      /\ UNCHANGED <<plan, result, written, envelope>> /\ Release(l)
  BY DEF GiveBack, Busy, Goes
<1>2. CallInv(l) /\ l # Nobody
  BY NobodyAssumption DEF SInv
<1>3. IInv' /\ OthersKept(l) /\ ~Live(l)'
  BY <1>1, EndLoanKeeps DEF SInv
<1>4. SerializerTypeOK'
  BY <1>1, <1>2 DEF SInv, SerializerTypeOK, Phases
<1>5. CallInv(l)'
  BY <1>1, <1>2, <1>3
     DEF CallInv, CallSound, PlanSound, ResultSound, PooledIntact, Holding, Busy
<1> QED BY <1>1, <1>3, <1>4, <1>5, CallStep

\* The reference path ends the call with one of the envelope's outcomes.
LEMMA GrowInv ==
  ASSUME SInv, NEW l \in Leases, Grow(l)
  PROVE  SInv'
<1>1. running = l /\ phase = "growing" /\ UNCHANGED poolVars /\ written' = written /\ plan' = plan
  BY DEF Grow, Busy
<1>2. IInv' /\ OthersKept(l) /\ (Live(l)' <=> Live(l)) /\ UNCHANGED <<lease, byteLength>>
  BY <1>1, PoolUnchanged DEF SInv, poolVars
<1>3. /\ CallInv(l) /\ l # Nobody /\ envelope[l] \in Envelopes /\ ~Live(l)
  BY <1>1, NobodyAssumption, NoResultKind DEF SInv, CallInv, CallSound, Holding, Busy
<1>4. PICK bytes \in envelope[l].writes :
         Ends(l, IF bytes = Throws THEN Failure(TRUE) ELSE Adaptive(bytes))
  BY DEF Grow
<1> DEFINE r == IF bytes = Throws THEN Failure(TRUE) ELSE Adaptive(bytes)
<1>5. /\ running' = Nobody /\ phase' = "idle" /\ envelope' = envelope
      /\ result' = [result EXCEPT ![l] = r]
  BY <1>4 DEF Ends
<1>6. /\ r.kind \in {"threw", "adaptive"} /\ r.bytes \in Sizes \cup {0} /\ r.rpc \in BOOLEAN
      /\ r = [kind |-> r.kind, bytes |-> r.bytes, rpc |-> r.rpc]
      /\ r.kind = "threw" => Throws \in envelope[l].writes
      /\ r.kind = "adaptive" => r.bytes \in envelope[l].writes /\ r.bytes # Throws
  BY <1>3, Outcomes DEF Failure, Adaptive
<1> HIDE DEF r
<1>7. SerializerTypeOK'
  BY <1>1, <1>5, <1>6 DEF SInv, SerializerTypeOK, Phases
<1>8. result'[l] = r /\ \A k \in Leases \ {l} : result'[k] = result[k]
  BY <1>5 DEF SInv, SerializerTypeOK
<1>9. CallInv(l)'
  BY <1>2, <1>3, <1>5, <1>6, <1>8, NobodyAssumption
     DEF CallInv, CallSound, PlanSound, ResultSound, PooledIntact, Holding, Busy
<1> QED BY <1>1, <1>2, <1>5, <1>7, <1>8, <1>9, CallStep

\* A holder releases its result, once or again, and the bytes stop being its own.
LEMMA ReleaseResultInv ==
  ASSUME SInv, NEW l \in Leases, ReleaseResult(l)
  PROVE  SInv'
<1>1. running = Nobody /\ UNCHANGED serializerVars
  BY DEF ReleaseResult
<1>2. IInv' /\ OthersKept(l) /\ (~Live(l)' \/ UNCHANGED poolVars)
  BY EndLoanKeeps, PoolUnchanged DEF ReleaseResult, SInv
<1>3. CallInv(l) /\ l # Nobody
  BY NobodyAssumption DEF SInv
<1>4. SerializerTypeOK'
  BY <1>1 DEF SInv, SerializerTypeOK, serializerVars
<1>5. CallInv(l)'
  BY <1>1, <1>2, <1>3
     DEF CallInv, CallSound, PlanSound, ResultSound, PooledIntact, Holding, Busy, Live,
         serializerVars, poolVars
<1> QED BY <1>1, <1>2, <1>4, <1>5, CallStep DEF serializerVars

\* A holder that drops its result leaves no loan behind.
LEMMA DropInv ==
  ASSUME SInv, NEW l \in Leases, Drop(l)
  PROVE  SInv'
<1>1. /\ running = Nobody /\ UNCHANGED <<running, phase, plan, written>>
      /\ result' = [result EXCEPT ![l] = NoResult]
      /\ envelope' = [envelope EXCEPT ![l] = NoEnvelope]
  BY DEF Drop
<1>2. IInv' /\ OthersKept(l) /\ ~Live(l)'
  <2>1. CASE lease[l].state = "none"
    BY <2>1, PoolUnchanged DEF Drop, SInv, Live
  <2>2. CASE lease[l].state # "none"
    BY <2>2, EndLoanKeeps DEF Drop, SInv
  <2> QED BY <2>1, <2>2
<1>3. l # Nobody
  BY NobodyAssumption
<1>4. SerializerTypeOK'
  BY <1>1, NoResultKind DEF SInv, SerializerTypeOK, NoResult
<1>5. /\ result'[l] = NoResult
      /\ \A k \in Leases \ {l} : result'[k] = result[k] /\ envelope'[k] = envelope[k]
  BY <1>1 DEF SInv, SerializerTypeOK
<1>6. CallInv(l)'
  BY <1>1, <1>2, <1>3, <1>5, NoResultKind
     DEF CallInv, CallSound, PlanSound, ResultSound, PooledIntact, Holding, Busy
<1> QED BY <1>1, <1>2, <1>4, <1>5, <1>6, CallStep

-----------------------------------------------------------------------------
(* The theorems.                                                           *)

\* Between two calls the options may change or the pool be cleared.
LEMMA ReconfigureInv ==
  ASSUME SInv, Reconfigure
  PROVE  SInv'
<1>1. UNCHANGED serializerVars /\ (Configure \/ ClearBufferPool)
  BY DEF Reconfigure
<1>2. IInv' /\ lease' = lease /\ byteLength' = byteLength
  BY <1>1, NextInv DEF SInv, Next, Configure, ClearBufferPool
<1> QED BY <1>1, <1>2
        DEF SInv, serializerVars, SerializerTypeOK, CallInv, CallSound, PlanSound, ResultSound,
            PooledIntact, Holding, Busy, Live

\* A pool with no call in it.
LEMMA SerializerInitInv == SerializerInit => SInv
<1> SUFFICES ASSUME SerializerInit PROVE SInv
  OBVIOUS
<1>1. IInv
  BY InitInv DEF SerializerInit
<1>2. SerializerTypeOK
  BY DEF SerializerInit, SerializerTypeOK, Phases, NoResult
<1>3. \A l \in Leases : ~Live(l) /\ running # l /\ result[l] = NoResult
  BY NobodyAssumption DEF SerializerInit, Init, Live, NoLease
<1> QED BY <1>1, <1>2, <1>3, NoResultKind
        DEF SInv, CallInv, CallSound, PlanSound, ResultSound, PooledIntact, Holding, Busy

\* The strengthening holds of every reachable state.
THEOREM SerializerInvariant == SerializerSpec => []SInv
<1>1. SerializerInit => SInv
  BY SerializerInitInv
<1>2. SInv /\ [SerializerNext]_allVars => SInv'
  <2> SUFFICES ASSUME SInv, [SerializerNext]_allVars PROVE SInv'
    OBVIOUS
  <2>1. ASSUME NEW l \in Leases, NEW e \in Envelopes, Begin(l, e)
        PROVE  SInv'
    BY <2>1, BeginInv
  <2>2. ASSUME NEW l \in Leases, MustMeasure(l) \/ \E size \in Sizes : Predict(l, size)
        PROVE  SInv'
    BY <2>2, PlanInv
  <2>3. ASSUME NEW l \in Leases,
               \/ Measure(l) \/ Borrow(l) \/ WritePooled(l) \/ GiveBack(l) \/ Grow(l)
               \/ ReleaseResult(l) \/ Drop(l)
        PROVE  SInv'
    BY <2>3, MeasureInv, BorrowInv, WritePooledInv, GiveBackInv, GrowInv, ReleaseResultInv, DropInv
  <2>4. CASE Reconfigure
    BY <2>4, ReconfigureInv
  <2>5. CASE UNCHANGED allVars
    <3>1. IInv' /\ lease' = lease /\ byteLength' = byteLength /\ UNCHANGED serializerVars
      BY <2>5, NextInv DEF SInv, allVars, poolVars
    <3> QED BY <3>1
            DEF SInv, serializerVars, SerializerTypeOK, CallInv, CallSound, PlanSound,
                ResultSound, PooledIntact, Holding, Busy, Live
  <2> QED BY <2>1, <2>2, <2>3, <2>4, <2>5 DEF SerializerNext
<1> QED BY <1>1, <1>2, PTL DEF SerializerSpec

\* A pooled result's bytes are all there and its own until it is released
\* (serializePooled, makeResult's release).
THEOREM ResultsIntact == SerializerSpec => []ResultIntact
<1>1. SInv => ResultIntact
  BY DEF SInv, ResultIntact, CallInv, ResultSound, PooledIntact
<1> QED BY <1>1, SerializerInvariant, PTL

\* A failed attempt never keeps its lease (the finally-free paths of serializePooled).
THEOREM LeasesAccountedFor == SerializerSpec => []NoLeaseLost
<1>1. SInv => NoLeaseLost
  BY DEF SInv, NoLeaseLost, CallInv, CallSound, Holding
<1> QED BY <1>1, SerializerInvariant, PTL

\* Whatever is predicted, measured or lent, the outcome is one of the value's own, and
\* a measured size suffices for a value that is always written as it is measured
\* (planBuffer, serializeBinaryBody).
THEOREM OutcomeIndependentOfPool == SerializerSpec => []PoolDecidesNothing
<1>1. SInv => PoolDecidesNothing
  <2> SUFFICES ASSUME SInv PROVE PoolDecidesNothing
    OBVIOUS
  <2>1. MeasuredSuffices
    <3> SUFFICES ASSUME NEW l \in Leases, Busy(l, "returning"), plan.measured, Steady(envelope[l])
                 PROVE  FALSE
      BY DEF MeasuredSuffices
    <3>1. PICK x \in envelope[l].measures, y \in envelope[l].writes : x # y
      BY DEF SInv, CallInv, PlanSound
    <3>2. PICK z : envelope[l] = [writes |-> {z}, measures |-> {z}]
      BY DEF Steady
    <3>3. x = z /\ y = z
      BY <3>2
    <3> QED BY <3>1, <3>3
  <2>2. OutcomeIsTheValues
    BY DEF SInv, OutcomeIsTheValues, CallInv, ResultSound
  <2> QED BY <2>1, <2>2 DEF PoolDecidesNothing
<1> QED BY <1>1, SerializerInvariant, PTL
-----------------------------------------------------------------------------
(***************************************************************************)
(* The size statistics that tell how large a buffer to ask for: the map of *)
(* entries stays within the largest maxKeys it was ever given.             *)
(***************************************************************************)

\* The parts of the state the cap depends on.
CapInv ==
  /\ sizeOpts \in SizeOptions
  /\ order \in Seq(Keys)
  /\ KeysWithinLargestCap

\* The current cap is one of the caps.
LEMMA CurrentCap ==
  ASSUME sizeOpts \in SizeOptions
  PROVE  sizeOpts.maxKeys \in KeyCaps /\ sizeOpts.maxKeys \in Nat /\ sizeOpts.maxKeys >= 1
<1>1. sizeOpts.maxKeys \in KeyCaps
  BY DEF SizeOptions
<1>2. sizeOpts.maxKeys \in Nat /\ sizeOpts.maxKeys > 0
  BY <1>1, RingAssumption
<1> QED BY <1>1, <1>2

\* What is dropped is at least one key, and no more than there are.
LEMMA DropBounds ==
  ASSUME order \in Seq(Keys), Len(order) > 0
  PROVE  Dropped \in 1..Len(order)
BY DEF Dropped

\* evictOldest leaves fewer keys than it found, and none when there were none.
LEMMA EvictionShrinks ==
  ASSUME order \in Seq(Keys)
  PROVE  /\ OrderAfterEviction \in Seq(Keys)
         /\ Len(OrderAfterEviction) < Len(order) \/ Len(OrderAfterEviction) = 0
<1>1. Dropped \in Nat /\ Dropped >= 1
  BY DEF Dropped
<1>2. CASE Len(order) = 0
  BY <1>1, <1>2 DEF OrderAfterEviction
<1>3. CASE Len(order) > 0
  BY <1>3, DropBounds DEF OrderAfterEviction
<1> QED BY <1>2, <1>3

\* recordSize keeps the map within a cap: room is made before a key is added.
LEMMA RecordKeepsCap ==
  ASSUME CapInv, NEW k \in Keys, NEW bytes \in Bytes, RecordSize(k, bytes)
  PROVE  CapInv'
<1> DEFINE usable == k \in Tracked /\ Length(entries[k].ring) = sizeOpts.ringSize
           kept == IF ~usable /\ AtCapacity THEN OrderAfterEviction ELSE order
           keptKeys == {kept[i] : i \in DOMAIN kept}
<1>1. order' = IF k \in keptKeys THEN kept ELSE Append(kept, k)
  BY DEF RecordSize
<1>2. sizeOpts' = sizeOpts
  BY DEF RecordSize
<1>3. sizeOpts.maxKeys \in KeyCaps /\ sizeOpts.maxKeys \in Nat /\ sizeOpts.maxKeys >= 1
  BY CurrentCap DEF CapInv
<1>4. PICK cap \in KeyCaps : Len(order) <= cap
  BY DEF CapInv, KeysWithinLargestCap
<1>5. cap \in Nat /\ cap >= 1 /\ order \in Seq(Keys)
  BY RingAssumption DEF CapInv
<1>6. kept \in Seq(Keys) /\ Len(kept) <= Len(order)
  BY <1>5, EvictionShrinks
<1>7. order' \in Seq(Keys)
  BY <1>1, <1>6
<1>8. \E c \in KeyCaps : Len(order') <= c
  <2>1. CASE k \in keptKeys
    BY <2>1, <1>1, <1>4, <1>5, <1>6
  <2>2. CASE k \notin keptKeys /\ ~usable /\ AtCapacity
    <3>1. kept = OrderAfterEviction /\ Len(order') = Len(kept) + 1
      BY <2>2, <1>1, <1>6
    <3>2. Len(kept) + 1 <= Len(order) \/ Len(kept) + 1 = 1
      BY <3>1, <1>5, <1>6, EvictionShrinks
    <3> QED BY <3>1, <3>2, <1>4, <1>5, <1>6
  <2>3. CASE k \notin keptKeys /\ ~(~usable /\ AtCapacity)
    <3>1. kept = order /\ Len(order') = Len(order) + 1
      BY <2>3, <1>1, <1>5
    <3>2. k \notin Tracked
      BY <3>1, <2>3 DEF Tracked
    <3>3. Len(order) < sizeOpts.maxKeys
      BY <3>2, <2>3, <1>3, <1>5 DEF AtCapacity
    <3> QED BY <3>1, <3>3, <1>3, <1>5
  <2> QED BY <2>1, <2>2, <2>3
<1> QED BY <1>2, <1>7, <1>8 DEF CapInv, KeysWithinLargestCap

\* The invariant is inductive.
LEMMA CapInvInductive == CapInv /\ [StatsNext]_statsVars => CapInv'
<1> SUFFICES ASSUME CapInv, [StatsNext]_statsVars PROVE CapInv'
  OBVIOUS
<1>1. CASE \E k \in Keys, bytes \in Bytes : RecordSize(k, bytes)
  BY <1>1, RecordKeepsCap
<1>2. CASE ResetSizeStats
  <2>1. order' = << >> /\ sizeOpts' = sizeOpts
    BY <1>2 DEF ResetSizeStats
  <2>2. sizeOpts.maxKeys \in KeyCaps /\ sizeOpts.maxKeys \in Nat
    BY CurrentCap DEF CapInv
  <2> QED BY <2>1, <2>2 DEF CapInv, KeysWithinLargestCap
<1>3. CASE ConfigureStats
  BY <1>3 DEF ConfigureStats, CapInv, KeysWithinLargestCap
<1>4. CASE UNCHANGED statsVars
  BY <1>4 DEF statsVars, CapInv, KeysWithinLargestCap
<1> QED BY <1>1, <1>2, <1>3, <1>4 DEF StatsNext

\* The map of size statistics never outgrows the largest cap it was given
\* (recordSize makes room before it adds a key; evictOldest drops at least one).
THEOREM KeysCapped == StatsSpec => []KeysWithinLargestCap
<1>1. StatsInit => CapInv
  <2> SUFFICES ASSUME StatsInit PROVE CapInv
    OBVIOUS
  <2>1. sizeOpts.maxKeys \in KeyCaps /\ sizeOpts.maxKeys \in Nat
    BY CurrentCap DEF StatsInit
  <2> QED BY <2>1 DEF StatsInit, CapInv, KeysWithinLargestCap
<1>2. CapInv => KeysWithinLargestCap
  BY DEF CapInv
<1> QED BY <1>1, <1>2, CapInvInductive, PTL DEF StatsSpec
=============================================================================
