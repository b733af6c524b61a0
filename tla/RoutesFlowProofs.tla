-------------------------- MODULE RoutesFlowProofs --------------------------
(***************************************************************************)
(* Proofs about RoutesFlow, for all routes, queries, mappers, requests and *)
(* cache sizes: the cache of merged chains is sound, a mapper that runs is *)
(* one that was allowed and that is there, and a flow runs every route as  *)
(* it would be run alone, with what the mappers made for it.               *)
(*                                                                         *)
(* A cached chain stays current because what it was built from only grows  *)
(* until the router is reset: the registered routes, the functions, the    *)
(* allowed keys, and the mapping methods, of which none is replaced.  So a *)
(* flow runs the chain that would be built now, whatever has happened      *)
(* since (FlowInv), and what that chain looks like is a fact about the     *)
(* loops of buildMergedExecutionChain: found by induction over what they   *)
(* loop over (FoldInduction), then by the places at which flattening puts  *)
(* each method and each mapper (Layout, Spots).                            *)
(***************************************************************************)
EXTENDS RoutesFlow, FiniteSetTheorems, SequenceTheorems, TLAPS

Adding == INSTANCE FoldInduction WITH Op <- AddOnce
Inserting == INSTANCE FoldInduction WITH Op <- Insertion

IsFunctionOn(f, S) == f = [x \in S |-> f[x]]
RunFields == {"query", "chain", "next", "hasErrors", "given", "missing", "params", "args"}
IsRun(run) == IsFunctionOn(run, RunFields)

\* A method that is a mapper is one whose function may be called and exists.
Guarded(methods, m) ==
  \A k \in DOMAIN methods :
    methods[k].mapping = None \/ GetServerMapper(methods[k].mapping.bodyHash, m)

\* The mapping methods are filed under their own ids.
Filed(methods) == \A id \in DOMAIN methods : MethodId(methods[id]) = id

Allowed(query, m) == \A k \in DOMAIN query.mappings : GetServerMapper(query.mappings[k].bodyHash, m)
Fits(query) == \A k \in DOMAIN query.mappings : MappingFits(query.mappings[k], MiddleIds(query.routes))
Made(query, methods) == \A k \in DOMAIN query.mappings : MethodId(query.mappings[k]) \in DOMAIN methods

\* All that a chain was built from, of a reading of its query, is still there.
Flows == UNION {Readings(q) : q \in Queries}
BuiltOf(flow, chain) ==
  Known(flow) /\ Fits(flow) /\ Made(flow, mapMethods) /\ chain = Merged(flow, mapMethods)
StillCurrent(query) ==
  \E flow \in Readings(query) : BuiltOf(flow, cache[query]) /\ Allowed(flow, mappers)

MapperRecord == [fns : SUBSET Keys, allowed : SUBSET Keys]

\* A run calls allowed mappers only and finds each where it left it.
SoundRun(run, m) ==
  /\ IsRun(run) /\ run.missing = FALSE
  /\ \A p \in run.params : p.by \in m.allowed
  /\ run.query # None => /\ IsSequence(run.chain.methods) /\ Guarded(run.chain.methods, m)
                         /\ run.next \in 1 .. Len(run.chain.methods) + 1

IInv ==
  /\ registered \subseteq DOMAIN Chains
  /\ mappers \in MapperRecord
  /\ reader \in BOOLEAN /\ harvested \subseteq Manifest
  /\ Filed(mapMethods)
  /\ cacheOrder \in Seq(Queries) /\ CacheInOrder /\ IsFunctionOn(cache, DOMAIN cache)
  /\ \A q \in DOMAIN cache : StillCurrent(q)
  /\ IsFunctionOn(runs, Requests) /\ \A r \in Requests : SoundRun(runs[r], mappers)
-----------------------------------------------------------------------------
(* Sequences *)

\* Flattening puts the sequences one behind the other.
LEMMA FlattenRuns ==
  ASSUME NEW T, NEW seqs \in Seq(Seq(T))
  PROVE  \E f : /\ f[0] = <<>>
                /\ \A n \in 1..Len(seqs) : f[n] = f[n - 1] \o seqs[n]
                /\ \A n \in 0..Len(seqs) : f[n] \in Seq(T)
                /\ FlattenSeq(seqs) = f[Len(seqs)]
<1> DEFINE L == Len(seqs)
           Flat(f, i) == IF i = 1 THEN seqs[i] ELSE f[i - 1] \o seqs[i]
           H == {n \in Nat : \E f : f = [i \in 1..n |-> Flat(f, i)]}
<1>1. L \in Nat /\ \A i \in 1..L : seqs[i] \in Seq(T)
  OBVIOUS
<1>2. CASE L = 0
  <2> DEFINE g == [n \in 0..0 |-> <<>>]
  <2>1. g[0] = <<>> /\ <<>> \in Seq(T)
    OBVIOUS
  <2>2. seqs = <<>>
    BY <1>2
  <2>3. FlattenSeq(seqs) = <<>>
    BY <1>2, <2>2 DEF FlattenSeq
  <2>4. /\ g[0] = <<>> /\ \A n \in 1..L : g[n] = g[n - 1] \o seqs[n]
        /\ \A n \in 0..L : g[n] \in Seq(T)
        /\ FlattenSeq(seqs) = g[L]
    BY <1>2, <2>1, <2>3
  <2> HIDE DEF g
  <2> QED BY <2>4
<1>3. CASE L # 0
  <2>1. 0 \in H
    <3>1. [i \in 1..0 |-> seqs[i]] = [i \in 1..0 |-> Flat([j \in 1..0 |-> seqs[j]], i)]
      OBVIOUS
    <3> QED BY <3>1
  <2>2. ASSUME NEW n \in H PROVE n + 1 \in H
    <3>1. PICK f : f = [i \in 1..n |-> Flat(f, i)]
      OBVIOUS
    <3> DEFINE g == [i \in 1..(n + 1) |-> Flat(f, i)]
    <3>2. ASSUME NEW i \in 1..n PROVE f[i] = g[i]
      <4>1. f[i] = Flat(f, i)
        <5> HIDE DEF Flat
        <5> QED BY <3>1
      <4>2. g[i] = Flat(f, i)
        <5>1. i \in 1..(n + 1)
          OBVIOUS
        <5> HIDE DEF Flat
        <5> QED BY <5>1
      <4> QED BY <4>1, <4>2
    <3>3. ASSUME NEW i \in 1..(n + 1) PROVE Flat(f, i) = Flat(g, i)
      <4>1. CASE i = 1
        BY <4>1
      <4>2. CASE i # 1
        <5>1. i - 1 \in 1..n
          BY <4>2
        <5>2. f[i - 1] = g[i - 1]
          BY <3>2, <5>1
        <5> HIDE DEF g
        <5> QED BY <4>2, <5>2
      <4> QED BY <4>1, <4>2
    <3>4. g = [i \in 1..(n + 1) |-> Flat(g, i)]
      <4>1. g = [i \in 1..(n + 1) |-> Flat(f, i)]
        OBVIOUS
      <4> HIDE DEF g, Flat
      <4> QED BY <3>3, <4>1
    <3>5. \E h : h = [i \in 1..(n + 1) |-> Flat(h, i)]
      <4> HIDE DEF g, Flat
      <4> QED BY <3>4
    <3>6. n + 1 \in Nat
      OBVIOUS
    <3> HIDE DEF Flat
    <3> QED BY <3>5, <3>6
  <2>3. L \in H
    <3> HIDE DEF H
    <3>1. H \in SUBSET Nat
      BY DEF H
    <3> QED BY <1>1, <2>1, <2>2, <3>1, Adding!Induction
  <2> DEFINE f == CHOOSE f : f = [i \in 1..L |-> Flat(f, i)]
  <2>4. f = [i \in 1..L |-> Flat(f, i)]
    BY <2>3
  <2>5. FlattenSeq(seqs) = f[L]
    BY <1>3 DEF FlattenSeq
  <2>6. \A i \in 1..L : f[i] = Flat(f, i)
    <3> HIDE DEF f, Flat
    <3> QED BY <2>4
  <2> HIDE DEF f
  <2> DEFINE g == [n \in 0..L |-> IF n = 0 THEN <<>> ELSE f[n]]
  <2>7. g[0] = <<>> /\ g[L] = f[L] /\ \A n \in 1..L : g[n] = f[n]
    BY <1>1, <1>3
  <2> HIDE DEF g
  <2>8. ASSUME NEW n \in 1..L PROVE g[n] = g[n - 1] \o seqs[n]
    <3>1. CASE n = 1
      <4>1. f[1] = seqs[1] /\ seqs[1] \in Seq(T)
        BY <1>1, <2>6, <3>1
      <4>2. <<>> \o seqs[1] = seqs[1]
        BY <4>1
      <4>3. g[1] = seqs[1] /\ g[0] = <<>>
        BY <2>7, <3>1, <4>1
      <4>4. n - 1 = 0
        BY <3>1
      <4>5. g[n] = seqs[1] /\ g[n - 1] = <<>> /\ seqs[n] = seqs[1]
        BY <3>1, <4>3, <4>4
      <4> QED BY <4>2, <4>5
    <3>2. CASE n # 1
      <4>1. n - 1 \in 1..L
        BY <1>1, <3>2
      <4> QED BY <2>6, <2>7, <3>2, <4>1
    <3> QED BY <3>1, <3>2
  <2> DEFINE K == {n \in Nat : n <= L => g[n] \in Seq(T)}
  <2>9. 0 \in K
    <3>1. <<>> \in Seq(T)
      OBVIOUS
    <3> QED BY <2>7, <3>1
  <2>10. ASSUME NEW n \in K PROVE n + 1 \in K
    <3>1. CASE n + 1 <= L
      <4>1. g[n] \in Seq(T) /\ n + 1 \in 1..L /\ (n + 1) - 1 = n
        BY <1>1, <3>1
      <4>2. g[n + 1] = g[n] \o seqs[n + 1] /\ seqs[n + 1] \in Seq(T)
        BY <1>1, <2>8, <4>1
      <4>3. g[n] \o seqs[n + 1] \in Seq(T)
        <5> DEFINE s == g[n]
                   t == seqs[n + 1]
        <5>1. s \in Seq(T) /\ t \in Seq(T)
          BY <4>1, <4>2
        <5> HIDE DEF s, t
        <5>2. s \o t \in Seq(T)
          BY <5>1
        <5> QED BY <5>2 DEF s, t
      <4>4. n + 1 \in Nat /\ g[n + 1] \in Seq(T)
        BY <4>2, <4>3
      <4> QED BY <4>4
    <3>2. CASE ~(n + 1 <= L)
      BY <3>2
    <3> QED BY <3>1, <3>2
  <2>11. \A n \in Nat : n \in K
    <3> HIDE DEF K
    <3>1. K \in SUBSET Nat
      BY DEF K
    <3> QED BY <2>9, <2>10, <3>1, Adding!Induction
  <2>12. \A n \in 0..L : g[n] \in Seq(T)
    BY <1>1, <2>11
  <2> HIDE DEF K
  <2> QED BY <2>5, <2>7, <2>8, <2>12
<1> QED BY <1>1, <1>2, <1>3

\* off: how many elements there are before and up to each of the sequences.
Layout(off, seqs, flat) ==
  /\ \A n \in 0..Len(seqs) : off[n] \in Nat
  /\ \A m, n \in 0..Len(seqs) : m <= n => off[m] <= off[n]
  /\ \A n \in 1..Len(seqs) : off[n] = off[n - 1] + Len(seqs[n])
  /\ Len(flat) = off[Len(seqs)] /\ off[0] = 0
  /\ \A n \in 1..Len(seqs) : \A j \in 1..Len(seqs[n]) : flat[off[n - 1] + j] = seqs[n][j]
  /\ \A i \in 1..Len(flat) : \E n \in 1..Len(seqs) : \E j \in 1..Len(seqs[n]) : i = off[n - 1] + j

\* Where flattening puts each element of each of the sequences.
LEMMA FlattenPlaces ==
  ASSUME NEW T, NEW seqs \in Seq(Seq(T))
  PROVE  FlattenSeq(seqs) \in Seq(T) /\ \E off : Layout(off, seqs, FlattenSeq(seqs))
<1> DEFINE L == Len(seqs)
           flat == FlattenSeq(seqs)
<1>1. PICK f : /\ f[0] = <<>>
               /\ \A n \in 1..L : f[n] = f[n - 1] \o seqs[n]
               /\ \A n \in 0..L : f[n] \in Seq(T)
               /\ flat = f[L]
  BY FlattenRuns
<1>2. L \in Nat /\ \A i \in 1..L : seqs[i] \in Seq(T) /\ Len(seqs[i]) \in Nat
  OBVIOUS
<1> DEFINE off == [n \in 0..L |-> Len(f[n])]
<1>3. \A n \in 0..L : off[n] = Len(f[n]) /\ off[n] \in Nat
  BY <1>1
<1>4. off[0] = 0
  BY <1>1, <1>2
<1> HIDE DEF off, flat
<1>5. ASSUME NEW n \in 1..L
      PROVE  /\ off[n] = off[n - 1] + Len(seqs[n]) /\ off[n - 1] \in Nat /\ off[n - 1] <= off[n]
             /\ \A i \in 1..off[n - 1] : f[n][i] = f[n - 1][i]
             /\ \A j \in 1..Len(seqs[n]) : f[n][off[n - 1] + j] = seqs[n][j]
  <2>1. n - 1 \in 0..L /\ n \in 0..L
    BY <1>2
  <2>2. f[n - 1] \in Seq(T) /\ seqs[n] \in Seq(T) /\ f[n] = f[n - 1] \o seqs[n]
    BY <1>1, <1>2, <2>1
  <2>3. off[n] = Len(f[n]) /\ off[n - 1] = Len(f[n - 1])
    BY <1>3, <2>1
  <2> DEFINE s == f[n - 1]
             t == seqs[n]
  <2>4. /\ Len(s \o t) = Len(s) + Len(t) /\ Len(s) \in Nat /\ Len(t) \in Nat
        /\ \A i \in 1..Len(s) : (s \o t)[i] = s[i]
        /\ \A j \in 1..Len(t) : (s \o t)[Len(s) + j] = t[j]
    <3>1. s \in Seq(T) /\ t \in Seq(T)
      BY <2>2
    <3> HIDE DEF s, t
    <3> QED BY <3>1
  <2>5. f[n] = s \o t /\ Len(s) = off[n - 1] /\ off[n] = Len(s \o t)
    BY <2>2, <2>3
  <2>6. /\ off[n] = off[n - 1] + Len(t) /\ off[n - 1] \in Nat /\ off[n - 1] <= off[n]
        /\ \A i \in 1..off[n - 1] : f[n][i] = s[i]
        /\ \A j \in 1..Len(t) : f[n][off[n - 1] + j] = t[j]
    <3> DEFINE o == off[n - 1]
               u == f[n]
    <3>1. /\ u = s \o t /\ Len(s) = o /\ off[n] = Len(s \o t)
          /\ Len(s \o t) = Len(s) + Len(t) /\ Len(s) \in Nat /\ Len(t) \in Nat
          /\ \A i \in 1..Len(s) : (s \o t)[i] = s[i]
          /\ \A j \in 1..Len(t) : (s \o t)[Len(s) + j] = t[j]
      BY <2>4, <2>5
    <3> HIDE DEF s, t, o, u
    <3>2. off[n] = o + Len(t) /\ o \in Nat /\ o <= off[n]
      BY <3>1
    <3>3. \A i \in 1..o : u[i] = s[i]
      BY <3>1
    <3>4. \A j \in 1..Len(t) : u[o + j] = t[j]
      BY <3>1
    <3> QED BY <3>2, <3>3, <3>4 DEF o, u
  <2> QED BY <2>6
<1> DEFINE K == {n \in Nat : n <= L =>
                   /\ \A m \in 0..n : off[m] <= off[n]
                   /\ \A m \in 1..n : \A j \in 1..Len(seqs[m]) : f[n][off[m - 1] + j] = seqs[m][j]
                   /\ \A i \in 1..off[n] : \E m \in 1..n : \E j \in 1..Len(seqs[m]) : i = off[m - 1] + j}
<1>6. 0 \in K
  BY <1>4
<1>7. ASSUME NEW n \in K PROVE n + 1 \in K
  <2>1. CASE n + 1 <= L
    <3>1. n \in Nat /\ n <= L /\ n + 1 \in 1..L /\ (n + 1) - 1 = n /\ n \in 0..L
      BY <1>2, <2>1
    <3>2. /\ \A m \in 0..n : off[m] <= off[n]
          /\ \A m \in 1..n : \A j \in 1..Len(seqs[m]) : f[n][off[m - 1] + j] = seqs[m][j]
          /\ \A i \in 1..off[n] : \E m \in 1..n : \E j \in 1..Len(seqs[m]) : i = off[m - 1] + j
      BY <3>1
    <3> HIDE DEF K
    <3>3. /\ off[n + 1] = off[n] + Len(seqs[n + 1]) /\ off[n] \in Nat /\ off[n] <= off[n + 1]
          /\ \A i \in 1..off[n] : f[n + 1][i] = f[n][i]
          /\ \A j \in 1..Len(seqs[n + 1]) : f[n + 1][off[n] + j] = seqs[n + 1][j]
      BY <1>5, <3>1
    <3>4. ASSUME NEW m \in 0..(n + 1) PROVE off[m] <= off[n + 1]
      <4>1. CASE m = n + 1
        BY <1>3, <3>1, <4>1
      <4>2. CASE m \in 0..n
        <5>1. off[m] \in Nat /\ off[n + 1] \in Nat
          BY <1>3, <3>1, <4>2
        <5> QED BY <3>2, <3>3, <4>2, <5>1
      <4> QED BY <3>1, <4>1, <4>2
    <3>5. ASSUME NEW m \in 1..(n + 1), NEW j \in 1..Len(seqs[m]) PROVE f[n + 1][off[m - 1] + j] = seqs[m][j]
      <4>1. CASE m = n + 1
        BY <3>1, <3>3, <4>1
      <4>2. CASE m \in 1..n
        <5>1. m \in 1..L /\ m \in 0..n /\ m - 1 \in 0..L
          BY <3>1, <4>2
        <5>2. off[m] = off[m - 1] + Len(seqs[m]) /\ off[m] <= off[n] /\ off[m - 1] \in Nat /\ Len(seqs[m]) \in Nat
          BY <1>2, <1>5, <3>2, <5>1
        <5> DEFINE a == off[m - 1]
                   b == off[m]
                   c == off[n]
                   l == Len(seqs[m])
        <5>3. b = a + l /\ b <= c /\ a \in Nat /\ l \in Nat /\ c \in Nat /\ j \in 1..l
          BY <3>3, <5>2
        <5> HIDE DEF a, b, c, l
        <5>4. a + j \in 1..c
          BY <5>3
        <5>5. off[m - 1] + j \in 1..off[n]
          BY <5>4 DEF a, c
        <5> QED BY <3>2, <3>3, <4>2, <5>5
      <4> QED BY <3>1, <4>1, <4>2
    <3>6. ASSUME NEW i \in 1..off[n + 1]
          PROVE  \E m \in 1..(n + 1) : \E j \in 1..Len(seqs[m]) : i = off[m - 1] + j
      <4>1. CASE i \in 1..off[n]
        <5>1. PICK m \in 1..n : \E j \in 1..Len(seqs[m]) : i = off[m - 1] + j
          BY <3>2, <4>1
        <5>2. m \in 1..(n + 1)
          BY <3>1
        <5> QED BY <5>1, <5>2
      <4>2. CASE i \notin 1..off[n]
        <5>1. i - off[n] \in 1..Len(seqs[n + 1]) /\ i = off[n] + (i - off[n])
          BY <1>2, <3>1, <3>3, <4>2
        <5>2. n + 1 \in 1..(n + 1)
          BY <3>1
        <5> QED BY <3>1, <5>1, <5>2
      <4> QED BY <4>1, <4>2
    <3> QED BY <3>1, <3>4, <3>5, <3>6 DEF K
  <2>2. CASE ~(n + 1 <= L)
    BY <2>2
  <2> QED BY <2>1, <2>2
<1>8. \A n \in Nat : n \in K
  <2> HIDE DEF K
  <2>1. K \in SUBSET Nat
    BY DEF K
  <2> QED BY <1>6, <1>7, <2>1, Adding!Induction
<1>9. ASSUME NEW n \in 0..L
      PROVE  /\ \A m \in 0..n : off[m] <= off[n]
             /\ \A m \in 1..n : \A j \in 1..Len(seqs[m]) : f[n][off[m - 1] + j] = seqs[m][j]
             /\ \A i \in 1..off[n] : \E m \in 1..n : \E j \in 1..Len(seqs[m]) : i = off[m - 1] + j
  <2>1. n \in K /\ n <= L
    <3> HIDE DEF K
    <3> QED BY <1>2, <1>8
  <2> QED BY <2>1
<1> HIDE DEF K
<1>10. L \in 0..L /\ flat \in Seq(T) /\ Len(flat) = off[L]
  BY <1>1, <1>2, <1>3
<1>11. \A m, n \in 0..L : m <= n => off[m] <= off[n]
  <2> SUFFICES ASSUME NEW m \in 0..L, NEW n \in 0..L, m <= n PROVE off[m] <= off[n]
    OBVIOUS
  <2>1. m \in 0..n
    BY <1>2
  <2> QED BY <1>9, <2>1
<1>12. \A n \in 1..L : \A j \in 1..Len(seqs[n]) : flat[off[n - 1] + j] = seqs[n][j]
  <2>1. \A n \in 1..L : \A j \in 1..Len(seqs[n]) : f[L][off[n - 1] + j] = seqs[n][j]
    BY <1>9, <1>10
  <2> QED BY <1>1, <2>1
<1>13. \A i \in 1..Len(flat) : \E n \in 1..L : \E j \in 1..Len(seqs[n]) : i = off[n - 1] + j
  <2>1. \A i \in 1..off[L] : \E n \in 1..L : \E j \in 1..Len(seqs[n]) : i = off[n - 1] + j
    BY <1>9, <1>10
  <2> QED BY <1>10, <2>1
<1>14. \A n \in 1..L : off[n] = off[n - 1] + Len(seqs[n])
  BY <1>5
<1>15. \A n \in 0..L : off[n] \in Nat
  BY <1>3
<1>16. Layout(off, seqs, flat)
  BY <1>4, <1>10, <1>11, <1>12, <1>13, <1>14, <1>15 DEF Layout
<1> QED BY <1>10, <1>16 DEF flat

\* A sequence over a set is one over its own elements.
LEMMA TypedIsSequence ==
  ASSUME NEW X, NEW s \in Seq(X)
  PROVE  IsSequence(s) /\ \A x \in ToSet(s) : x \in X
<1>1. Len(s) \in Nat /\ DOMAIN s = 1..Len(s) /\ s = [k \in 1..Len(s) |-> s[k]]
  OBVIOUS
<1>2. \A k \in 1..Len(s) : s[k] \in ToSet(s) /\ s[k] \in X
  BY <1>1 DEF ToSet
<1>3. \A x \in ToSet(s) : x \in X
  BY <1>1, <1>2 DEF ToSet
<1>4. s \in [1..Len(s) -> ToSet(s)]
  BY <1>1, <1>2
<1>5. s \in Seq(ToSet(s))
  BY <1>1, <1>4
<1> QED BY <1>3, <1>5 DEF IsSequence

\* A reading of a query has its mappings, and its routes are as many.
LEMMA FlowTyped ==
  ASSUME NEW query \in Queries, NEW flow \in Readings(query)
  PROVE  /\ flow \in Flows /\ flow.mappings = query.mappings
         /\ IsSequence(flow.routes) /\ IsSequence(flow.mappings) /\ None \notin ToSet(flow.mappings)
<1>1. PICK raw \in Raws : flow = Reading(query, raw)
  BY DEF Readings
<1> DEFINE paths == [k \in DOMAIN query.routes |-> PathTransform[raw][query.routes[k]]]
<1>2. flow.mappings = query.mappings /\ flow.routes = paths
  BY <1>1 DEF Reading
<1>3. IsSequence(query.routes) /\ IsSequence(query.mappings) /\ None \notin ToSet(query.mappings)
  BY SequenceAssumption, NoneAssumption
<1>4. Len(query.routes) \in Nat /\ DOMAIN query.routes = 1..Len(query.routes)
  BY <1>3 DEF IsSequence
<1>5. \A k \in DOMAIN paths : paths[k] \in ToSet(paths)
  BY DEF ToSet
<1>6. DOMAIN paths = 1..Len(query.routes)
  BY <1>4
<1> HIDE DEF paths
<1>7. paths \in Seq(ToSet(paths))
  <2>1. paths = [k \in 1..Len(query.routes) |-> paths[k]]
    BY <1>6 DEF paths
  <2>2. paths \in [1..Len(query.routes) -> ToSet(paths)]
    BY <1>5, <1>6, <2>1
  <2> QED BY <1>4, <2>2
<1> QED BY <1>2, <1>3, <1>7 DEF Flows, IsSequence

\* And so has every flow.
LEMMA FlowsTyped ==
  ASSUME NEW flow \in Flows
  PROVE  IsSequence(flow.routes) /\ IsSequence(flow.mappings) /\ None \notin ToSet(flow.mappings)
BY FlowTyped DEF Flows

\* The middle methods of known routes are a sequence.
LEMMA MiddleTyped ==
  ASSUME NEW routes, IsSequence(routes), ToSet(routes) \subseteq DOMAIN Chains
  PROVE  IsSequence(MiddleIds(routes))
<1> DEFINE X == UNION {ToSet(Chains[path].methods) : path \in DOMAIN Chains}
           whole == [k \in DOMAIN routes |-> Chains[routes[k]].methods]
           flat == FlattenSeq(whole)
<1>1. Len(routes) \in Nat /\ DOMAIN routes = 1..Len(routes)
      /\ \A k \in DOMAIN routes : routes[k] \in DOMAIN Chains
  BY DEF IsSequence, ToSet
<1>2. \A path \in DOMAIN Chains : Chains[path].methods \in Seq(X)
  <2> SUFFICES ASSUME NEW path \in DOMAIN Chains PROVE Chains[path].methods \in Seq(X)
    OBVIOUS
  <2>1. Chains[path].methods \in Seq(ToSet(Chains[path].methods))
    BY SequenceAssumption DEF IsSequence
  <2>2. ToSet(Chains[path].methods) \subseteq X
    OBVIOUS
  <2> HIDE DEF X
  <2> QED BY <2>1, <2>2
<1>3. whole \in Seq(Seq(X))
  <2> HIDE DEF X
  <2> QED BY <1>1, <1>2
<1>4. flat \in Seq(X)
  <2> HIDE DEF X, whole
  <2> QED BY <1>3, FlattenPlaces
<1> HIDE DEF flat, whole, X
<1>5. MiddleIds(routes) = Adding!Fold(<<>>, flat)
  BY DEF MiddleIds, flat, whole, Adding!Fold, FoldLeft, Adding!FoldLeft, MapThenFoldSet, Adding!MapThenFoldSet, Max, Adding!Max
<1>6. PICK run : /\ run[0] = <<>>
                 /\ \A n \in 1..Len(flat) : run[n] = AddOnce(run[n - 1], flat[n])
                 /\ Adding!Fold(<<>>, flat) = run[Len(flat)]
  BY <1>4, Adding!FoldLeftRuns
<1> DEFINE K == {n \in Nat : n <= Len(flat) => run[n] \in Seq(X)}
<1>7. Len(flat) \in Nat /\ \A n \in 1..Len(flat) : flat[n] \in X
  BY <1>4
<1>8. 0 \in K
  <2>1. run[0] = <<>>
    BY <1>6
  <2>2. run[0] \in Seq(X)
    BY <2>1
  <2> QED BY <2>2
<1>9. ASSUME NEW n \in K PROVE n + 1 \in K
  <2>1. CASE n + 1 <= Len(flat)
    <3>1. run[n] \in Seq(X) /\ n + 1 \in 1..Len(flat) /\ (n + 1) - 1 = n
      BY <1>7, <2>1
    <3>2. run[n + 1] = AddOnce(run[n], flat[n + 1])
      BY <1>6, <3>1
    <3>3. run[n + 1] \in Seq(X)
      BY <1>7, <3>1, <3>2 DEF AddOnce
    <3> QED BY <3>3
  <2>2. CASE ~ (n + 1 <= Len(flat))
    BY <2>2
  <2> QED BY <2>1, <2>2
<1>10. Len(flat) \in K
  <2> HIDE DEF K
  <2>1. K \in SUBSET Nat
    BY DEF K
  <2> QED BY <1>7, <1>8, <1>9, <2>1, Adding!Induction
<1>11. MiddleIds(routes) \in Seq(X)
  BY <1>5, <1>6, <1>7, <1>10
<1> QED BY <1>11, TypedIsSequence
-----------------------------------------------------------------------------
(* The loop over the mappings *)

Grows(m, n) == n \in MapperRecord /\ m.fns \subseteq n.fns /\ m.allowed \subseteq n.allowed
Extends(methods, more) ==
  DOMAIN methods \subseteq DOMAIN more /\ \A id \in DOMAIN methods : more[id] = methods[id]

\* Neither a function nor an allowed key is ever taken back by reading the manifest.
LEMMA EntriesGrow ==
  ASSUME NEW entries, entries \subseteq Manifest, NEW m \in MapperRecord
  PROVE  Grows(m, WithEntries(entries, m))
<1>1. \A e \in entries : e.key \in Keys
  BY FlowAssumption
<1> QED BY <1>1 DEF WithEntries, Grows, MapperRecord

\* Nor by looking for a key in the manifest once more.
LEMMA RereadGrows ==
  ASSUME harvested \subseteq Manifest, NEW m \in MapperRecord, NEW key
  PROVE  Grows(m, Reread(key, m))
<1>1. Grows(m, m)
  BY DEF Grows
<1> QED BY <1>1, EntriesGrow DEF Reread

\* A mapper that may be called may be called for good.
LEMMA MapperStays ==
  ASSUME NEW m, NEW n, Grows(m, n), NEW key, GetServerMapper(key, m)
  PROVE  GetServerMapper(key, n)
BY DEF Grows, GetServerMapper

\* Growing, and growing again, is growing.
LEMMA GrowsOn ==
  ASSUME NEW l, NEW m, NEW n, Grows(l, m), Grows(m, n)
  PROVE  Grows(l, n)
BY DEF Grows

\* A mapping method is made under its own id, and none is replaced.
LEMMA MethodForExtends ==
  ASSUME NEW methods, Filed(methods), NEW mapping
  PROVE  /\ Filed(MethodFor(mapping, methods)) /\ Extends(methods, MethodFor(mapping, methods))
         /\ MethodId(mapping) \in DOMAIN MethodFor(mapping, methods)
<1>1. CASE MethodId(mapping) \in DOMAIN methods
  BY <1>1 DEF MethodFor, Extends
<1>2. CASE MethodId(mapping) \notin DOMAIN methods
  <2> DEFINE more == MethodFor(mapping, methods)
  <2>1. /\ DOMAIN more = DOMAIN methods \cup {MethodId(mapping)}
        /\ \A id \in DOMAIN methods : more[id] = methods[id]
        /\ more[MethodId(mapping)] = mapping
    BY <1>2 DEF MethodFor
  <2> HIDE DEF more
  <2>2. Filed(more)
    BY <2>1 DEF Filed
  <2> QED BY <2>1, <2>2 DEF Extends, more
<1> QED BY <1>1, <1>2

\* The same of the mapping methods.
LEMMA ExtendsOn ==
  ASSUME NEW l, NEW m, NEW n, Extends(l, m), Extends(m, n)
  PROVE  Extends(l, n)
BY DEF Extends

\* What the loop has made of the caches after the first n mappings of the query.
IsInsertion(s) == s = [ok |-> s.ok, ids |-> s.ids, mappers |-> s.mappers, methods |-> s.methods]
Good(s, mapping) ==
  /\ MappingFits(mapping, s.ids)
  /\ GetServerMapper(mapping.bodyHash, s.mappers)
  /\ MethodId(mapping) \in DOMAIN s.methods
After(s, n, query) ==
  /\ IsInsertion(s) /\ s.ok \in BOOLEAN /\ s.ids = MiddleIds(query.routes)
  /\ Grows(mappers, s.mappers) /\ Filed(s.methods) /\ Extends(mapMethods, s.methods)
  /\ s.ok => \A k \in 1..n : Good(s, query.mappings[k])
  /\ Fits(query) /\ Allowed(query, mappers) => s.ok

\* One round of the loop.
LEMMA InsertionStep ==
  ASSUME harvested \subseteq Manifest, NEW query, NEW n \in Nat, NEW s, After(s, n, query),
         n + 1 \in DOMAIN query.mappings
  PROVE  After(Insertion(s, query.mappings[n + 1]), n + 1, query)
<1> DEFINE mapping == query.mappings[n + 1]
           t == Insertion(s, mapping)
           read == Reread(mapping.bodyHash, s.mappers)
<1>1. s.mappers \in MapperRecord /\ Grows(s.mappers, read)
  BY RereadGrows DEF After, Grows
<1>2. \A k \in 1..(n + 1) : k \in 1..n \/ k = n + 1
  OBVIOUS
<1> HIDE DEF mapping, read
<1>3. CASE ~s.ok \/ ~MappingFits(mapping, s.ids)
  <2>1. t = [s EXCEPT !.ok = FALSE]
    BY <1>3 DEF Insertion
  <2>2. IsInsertion(t) /\ t.ok = FALSE /\ t.ids = s.ids /\ t.mappers = s.mappers /\ t.methods = s.methods
    BY <2>1 DEF After, IsInsertion
  <2>3. ~ (Fits(query) /\ Allowed(query, mappers))
    BY <1>3 DEF After, Fits, mapping
  <2> HIDE DEF t
  <2>4. After(t, n + 1, query)
    BY <2>2, <2>3 DEF After
  <2> QED BY <2>4 DEF t, mapping
<1>4. CASE s.ok /\ MappingFits(mapping, s.ids)
  <2> DEFINE has == GetServerMapper(mapping.bodyHash, read)
             made == IF has THEN MethodFor(mapping, s.methods) ELSE s.methods
  <2>1. t = [s EXCEPT !.mappers = read, !.ok = has, !.methods = made]
    BY <1>4 DEF Insertion, HasServerMapper, read
  <2>2. IsInsertion(t) /\ t.ok = has /\ t.ids = s.ids /\ t.mappers = read /\ t.methods = made
    <3> HIDE DEF has, made
    <3> QED BY <2>1 DEF After, IsInsertion
  <2>3. Filed(made) /\ Extends(s.methods, made) /\ (has => MethodId(mapping) \in DOMAIN made)
    BY MethodForExtends DEF After, Extends
  <2>4. Grows(mappers, read)
    BY <1>1, GrowsOn DEF After
  <2>5. Extends(mapMethods, made)
    BY <2>3, ExtendsOn DEF After
  <2>6. has \in BOOLEAN
    BY DEF GetServerMapper
  <2>7. ASSUME Fits(query), Allowed(query, mappers) PROVE has
    <3>1. GetServerMapper(mapping.bodyHash, mappers)
      BY <2>7 DEF Allowed, mapping
    <3> QED BY <2>4, <3>1, MapperStays
  <2> HIDE DEF made, t
  <2>8. ASSUME has, NEW k \in 1..(n + 1) PROVE Good(t, query.mappings[k])
    <3>1. CASE k \in 1..n
      <4>1. Good(s, query.mappings[k])
        BY <1>4, <3>1 DEF After
      <4>2. GetServerMapper(query.mappings[k].bodyHash, read)
        BY <1>1, <4>1, MapperStays DEF Good
      <4>3. MethodId(query.mappings[k]) \in DOMAIN made
        BY <2>3, <4>1 DEF Good, Extends
      <4> QED BY <2>2, <4>1, <4>2, <4>3 DEF Good
    <3>2. CASE k = n + 1
      <4> HIDE DEF has
      <4>1. query.mappings[k] = mapping
        BY <3>2 DEF mapping
      <4>2. GetServerMapper(mapping.bodyHash, read)
        BY <2>8 DEF has
      <4> QED BY <1>4, <2>2, <2>3, <2>8, <4>1, <4>2 DEF Good
    <3> QED BY <1>2, <3>1, <3>2
  <2> HIDE DEF has
  <2>9. After(t, n + 1, query)
    BY <2>2, <2>3, <2>4, <2>5, <2>6, <2>7, <2>8 DEF After
  <2> QED BY <2>9 DEF t, mapping
<1> QED BY <1>3, <1>4 DEF After

\* The whole loop.
LEMMA InsertedIs ==
  ASSUME harvested \subseteq Manifest, mappers \in MapperRecord, Filed(mapMethods),
         NEW query, IsSequence(query.mappings)
  PROVE  After(Inserted(query), Len(query.mappings), query)
<1> DEFINE all == query.mappings
           base == [ok |-> TRUE, ids |-> MiddleIds(query.routes), mappers |-> mappers, methods |-> mapMethods]
<1>1. all \in Seq(ToSet(all)) /\ Len(all) \in Nat /\ DOMAIN all = 1..Len(all)
  BY DEF IsSequence
<1>2. PICK run : /\ run[0] = base
                 /\ \A n \in 1..Len(all) : run[n] = Insertion(run[n - 1], all[n])
                 /\ Inserting!Fold(base, all) = run[Len(all)]
  <2> HIDE DEF base, all
  <2> QED BY <1>1, Inserting!FoldLeftRuns
<1>3. Inserted(query) = Inserting!Fold(base, all)
  BY DEF Inserted, Inserting!Fold, FoldLeft, Inserting!FoldLeft, MapThenFoldSet, Inserting!MapThenFoldSet,
         Max, Inserting!Max
<1> DEFINE H == {n \in Nat : n <= Len(all) => After(run[n], n, query)}
<1>4. 0 \in H
  <2>1. IsInsertion(base) /\ base.ok = TRUE /\ base.ids = MiddleIds(query.routes)
        /\ base.mappers = mappers /\ base.methods = mapMethods
    BY DEF IsInsertion
  <2>2. Grows(mappers, mappers) /\ Extends(mapMethods, mapMethods)
    BY DEF Grows, Extends
  <2> HIDE DEF base
  <2>3. \A k : k \notin 1..0
    OBVIOUS
  <2>4. base.ok \in BOOLEAN
    BY <2>1
  <2>5. Grows(mappers, base.mappers) /\ Filed(base.methods) /\ Extends(mapMethods, base.methods)
    BY <2>1, <2>2
  <2>6. After(base, 0, query)
    BY <2>1, <2>3, <2>4, <2>5 DEF After
  <2>7. After(run[0], 0, query)
    BY <1>2, <2>6
  <2> QED BY <2>7
<1> HIDE DEF base, all
<1>5. ASSUME NEW n \in H PROVE n + 1 \in H
  <2>1. CASE n + 1 <= Len(all)
    <3>1. After(run[n], n, query) /\ n \in Nat /\ n + 1 \in DOMAIN all /\ n + 1 \in 1..Len(all) /\ (n + 1) - 1 = n
      BY <1>1, <2>1
    <3>2. After(Insertion(run[n], all[n + 1]), n + 1, query)
      BY <3>1, InsertionStep DEF all
    <3>3. run[n + 1] = Insertion(run[n], all[n + 1])
      BY <1>2, <3>1
    <3> QED BY <3>1, <3>2, <3>3
  <2>2. CASE ~ (n + 1 <= Len(all))
    BY <2>2
  <2> QED BY <2>1, <2>2
<1>6. Len(all) \in H
  <2> HIDE DEF H
  <2>1. H \in SUBSET Nat
    BY DEF H
  <2> QED BY <1>1, <1>4, <1>5, <2>1, Adding!Induction
<1>7. After(run[Len(all)], Len(all), query)
  BY <1>1, <1>6
<1> QED BY <1>2, <1>3, <1>7 DEF all

\* What a build leaves in the caches and, if no mapping was refused, what it rests on.
LEMMA Built ==
  ASSUME harvested \subseteq Manifest, mappers \in MapperRecord, Filed(mapMethods),
         NEW query, IsSequence(query.mappings)
  PROVE  /\ Grows(mappers, Inserted(query).mappers) /\ Filed(Inserted(query).methods)
         /\ Extends(mapMethods, Inserted(query).methods)
         /\ Inserted(query).ok \in BOOLEAN
         /\ Inserted(query).ok => /\ Fits(query) /\ Allowed(query, Inserted(query).mappers)
                                  /\ Made(query, Inserted(query).methods)
         /\ Fits(query) /\ Allowed(query, mappers) => Inserted(query).ok
<1>1. After(Inserted(query), Len(query.mappings), query)
  BY InsertedIs
<1>2. DOMAIN query.mappings = 1..Len(query.mappings)
  BY DEF IsSequence
<1> QED BY <1>1, <1>2 DEF After, Good, Fits, Allowed, Made
-----------------------------------------------------------------------------
(* The merged chain *)

\* Mapping methods made for other queries change nothing in a chain.
LEMMA MergedKept ==
  ASSUME NEW query, NEW methods, NEW more, Extends(methods, more), Made(query, methods)
  PROVE  Merged(query, methods) = Merged(query, more)
<1> DEFINE mappings == query.mappings
<1>1. \A k \in DOMAIN mappings : MappingStep(mappings[k], methods) = MappingStep(mappings[k], more)
  BY DEF MappingStep, Made, Extends
<1>2. ASSUME NEW id PROVE WithMappers(id, mappings, methods) = WithMappers(id, mappings, more)
  <2>1. [k \in DOMAIN mappings |-> IF mappings[k].fromId = id THEN <<MappingStep(mappings[k], methods)>> ELSE <<>>]
        = [k \in DOMAIN mappings |-> IF mappings[k].fromId = id THEN <<MappingStep(mappings[k], more)>> ELSE <<>>]
    BY <1>1
  <2>2. MappersOf(id, mappings, methods) = MappersOf(id, mappings, more)
    BY <2>1 DEF MappersOf
  <2> QED BY <2>2 DEF WithMappers
<1>3. \A ids : [k \in DOMAIN ids |-> WithMappers(ids[k], mappings, methods)]
               = [k \in DOMAIN ids |-> WithMappers(ids[k], mappings, more)]
  BY <1>2
<1> QED BY <1>3 DEF Merged

\* A merged chain calls routes and middleFns, and mappers the query names.
LEMMA MergedGuarded ==
  ASSUME NEW query \in Flows, ToSet(query.routes) \subseteq DOMAIN Chains,
         NEW methods, Filed(methods), Made(query, methods), NEW m, Allowed(query, m)
  PROVE  IsSequence(Merged(query, methods).methods) /\ Guarded(Merged(query, methods).methods, m)
<1> DEFINE ids == MiddleIds(query.routes)
           mappings == query.mappings
           T == {Step(id) : id \in ToSet(ids) \cup ToSet(StartIds) \cup ToSet(EndIds)}
                \cup {MappingStep(mappings[k], methods) : k \in DOMAIN mappings}
           Slot(id, k) == IF mappings[k].fromId = id THEN <<MappingStep(mappings[k], methods)>> ELSE <<>>
           slots(id) == [k \in DOMAIN mappings |-> Slot(id, k)]
           starts == [k \in DOMAIN StartIds |-> Step(StartIds[k])]
           ends == [k \in DOMAIN EndIds |-> Step(EndIds[k])]
           middle == [k \in DOMAIN ids |-> WithMappers(ids[k], mappings, methods)]
<1>1. IsSequence(ids) /\ IsSequence(mappings) /\ IsSequence(StartIds) /\ IsSequence(EndIds)
  BY SequenceAssumption, FlowsTyped, MiddleTyped
<1>2. /\ Len(mappings) \in Nat /\ DOMAIN mappings = 1..Len(mappings)
      /\ Len(ids) \in Nat /\ DOMAIN ids = 1..Len(ids)
      /\ Len(StartIds) \in Nat /\ DOMAIN StartIds = 1..Len(StartIds)
      /\ Len(EndIds) \in Nat /\ DOMAIN EndIds = 1..Len(EndIds)
  BY <1>1 DEF IsSequence
<1>3. /\ \A k \in DOMAIN ids : Step(ids[k]) \in T
      /\ \A k \in DOMAIN StartIds : Step(StartIds[k]) \in T
      /\ \A k \in DOMAIN EndIds : Step(EndIds[k]) \in T
      /\ \A k \in DOMAIN mappings : MappingStep(mappings[k], methods) \in T
  BY DEF ToSet
<1>4. ASSUME NEW step \in T PROVE step.mapping = None \/ GetServerMapper(step.mapping.bodyHash, m)
  <2>1. CASE \E id : step = Step(id)
    BY <2>1 DEF Step
  <2>2. ASSUME NEW k \in DOMAIN mappings, step = MappingStep(mappings[k], methods)
        PROVE  GetServerMapper(step.mapping.bodyHash, m)
    <3>1. MethodId(methods[MethodId(mappings[k])]) = MethodId(mappings[k])
      BY DEF Made, Filed
    <3>2. methods[MethodId(mappings[k])].bodyHash = mappings[k].bodyHash
      BY <3>1 DEF MethodId
    <3>3. step.mapping.bodyHash = mappings[k].bodyHash
      BY <2>2, <3>2 DEF MappingStep
    <3> QED BY <3>3 DEF Allowed
  <2> QED BY <2>1, <2>2
<1> HIDE DEF T, ids
<1>5. ASSUME NEW k \in DOMAIN ids PROVE WithMappers(ids[k], mappings, methods) \in Seq(T)
  <2>1. \A j \in DOMAIN mappings : Slot(ids[k], j) \in Seq(T)
    BY <1>3
  <2>2. slots(ids[k]) \in Seq(Seq(T))
    <3> HIDE DEF Slot
    <3> QED BY <1>2, <2>1
  <2>3. FlattenSeq(slots(ids[k])) \in Seq(T)
    <3> HIDE DEF slots
    <3> QED BY <2>2, FlattenPlaces
  <2>4. MappersOf(ids[k], mappings, methods) \in Seq(T)
    BY <2>3 DEF MappersOf
  <2>5. Reverse(MappersOf(ids[k], mappings, methods)) \in Seq(T)
    BY <2>4 DEF Reverse
  <2>6. <<Step(ids[k])>> \in Seq(T)
    BY <1>3
  <2> QED BY <2>5, <2>6 DEF WithMappers
<1>6. middle \in Seq(Seq(T))
  BY <1>2, <1>5
<1>7. FlattenSeq(middle) \in Seq(T)
  <2> HIDE DEF middle
  <2> QED BY <1>6, FlattenPlaces
<1>8. starts \in Seq(T) /\ ends \in Seq(T)
  BY <1>2, <1>3
<1>9. Merged(query, methods).methods = (starts \o FlattenSeq(middle)) \o ends
  BY DEF Merged, ids
<1> HIDE DEF middle, starts, ends
<1>10. Merged(query, methods).methods \in Seq(T)
  BY <1>7, <1>8, <1>9
<1> DEFINE all == Merged(query, methods).methods
<1> HIDE DEF all
<1>11. IsSequence(all) /\ \A step \in ToSet(all) : step \in T
  BY <1>10, TypedIsSequence DEF all
<1>12. \A k \in DOMAIN all : all[k] \in ToSet(all)
  BY DEF ToSet
<1>13. Guarded(all, m)
  BY <1>4, <1>11, <1>12 DEF Guarded
<1> QED BY <1>11, <1>13 DEF all
-----------------------------------------------------------------------------
(* The cache *)

\* What is left of a sequence behind its first n elements.
LEMMA RestOf ==
  ASSUME NEW S, NEW s \in Seq(S), NEW n \in Nat, n <= Len(s)
  PROVE  /\ SubSeq(s, n + 1, Len(s)) \in Seq(S) /\ Len(SubSeq(s, n + 1, Len(s))) = Len(s) - n
         /\ \A k \in 1..(Len(s) - n) : SubSeq(s, n + 1, Len(s))[k] = s[n + k]
<1>1. Len(s) \in Nat /\ n + 1 \in Int /\ Len(s) \in Int /\ \A k \in (n + 1)..Len(s) : s[k] \in S
  OBVIOUS
<1> DEFINE l == n + 1
           h == Len(s)
           rest == SubSeq(s, l, h)
<1>2. l \in Int /\ h \in Int /\ \A k \in l..h : s[k] \in S
  BY <1>1
<1> HIDE DEF l, h
<1>3. /\ rest \in Seq(S) /\ Len(rest) = IF l <= h THEN h - l + 1 ELSE 0
      /\ \A k \in 1..(h - l + 1) : rest[k] = s[l + k - 1]
  BY <1>2, SubSeqProperties
<1> HIDE DEF rest
<1>4. h - l + 1 = Len(s) - n /\ (IF l <= h THEN h - l + 1 ELSE 0) = Len(s) - n
  BY <1>1 DEF h, l
<1>5. \A k \in 1..(Len(s) - n) : l + k - 1 = n + k
  BY <1>1 DEF l
<1>6. rest = SubSeq(s, n + 1, Len(s))
  BY DEF rest, l, h
<1> QED BY <1>3, <1>4, <1>5, <1>6

\* The oldest query makes room, the new one is the youngest, all others stay.
LEMMA CacheStep ==
  ASSUME cacheOrder \in Seq(Queries), CacheInOrder, IsFunctionOn(cache, DOMAIN cache),
         NEW query \in Queries, query \notin DOMAIN cache, NEW chain, AddToCache(query, chain)
  PROVE  /\ cacheOrder' \in Seq(Queries) /\ CacheInOrder' /\ IsFunctionOn(cache, DOMAIN cache)'
         /\ \A q \in DOMAIN cache' : \/ q = query /\ cache'[q] = chain
                                     \/ q \in DOMAIN cache /\ cache'[q] = cache[q]
<1> DEFINE L == Len(cacheOrder)
           over == IF L >= MaxSize THEN L - MaxSize + 1 ELSE 0
           kept == SubSeq(cacheOrder, over + 1, L)
           evicted == ToSet(SubSeq(cacheOrder, 1, over))
<1>1. MaxSize \in Nat /\ L \in Nat /\ L <= MaxSize /\ DOMAIN cacheOrder = 1..L
  BY FlowAssumption DEF CacheInOrder
<1>2. CASE MaxSize = 0
  <2>1. cacheOrder' = cacheOrder /\ cache' = cache
    BY <1>2 DEF AddToCache
  <2> QED BY <2>1 DEF CacheInOrder, IsFunctionOn
<1>3. CASE MaxSize # 0
  <2>1. over \in Nat /\ over <= L /\ L - over < MaxSize /\ over <= 1
    BY <1>1, <1>3
  <2>2. cacheOrder' = Append(kept, query)
        /\ cache' = [q \in (DOMAIN cache \ evicted) \cup {query} |-> IF q = query THEN chain ELSE cache[q]]
    BY <1>3 DEF AddToCache
  <2> HIDE DEF over
  <2>3. /\ kept \in Seq(Queries) /\ Len(kept) = L - over
        /\ \A k \in 1..(L - over) : kept[k] = cacheOrder[over + k]
    BY <1>1, <2>1, RestOf
  <2>4. evicted = {cacheOrder[k] : k \in 1..over}
    <3> DEFINE first == SubSeq(cacheOrder, 1, over)
    <3>1. Len(first) = over /\ DOMAIN first = 1..over /\ \A k \in 1..over : first[k] = cacheOrder[k]
      BY <1>1, <2>1
    <3> HIDE DEF first
    <3>2. ToSet(first) = {cacheOrder[k] : k \in 1..over}
      BY <3>1 DEF ToSet
    <3> QED BY <3>2 DEF first
  <2> HIDE DEF kept, evicted
  <2>5. /\ cacheOrder' \in Seq(Queries) /\ Len(cacheOrder') = L - over + 1
        /\ DOMAIN cacheOrder' = 1..(L - over + 1)
        /\ \A k \in 1..(L - over) : cacheOrder'[k] = cacheOrder[over + k]
        /\ cacheOrder'[L - over + 1] = query
    BY <1>1, <2>1, <2>2, <2>3
  <2>6. \A j, k \in 1..L : cacheOrder[j] = cacheOrder[k] => j = k
    BY <1>1 DEF CacheInOrder, IsInjective
  <2>7. \A k \in 1..L : cacheOrder[k] # query /\ cacheOrder[k] \in DOMAIN cache
    BY <1>1 DEF CacheInOrder, ToSet
  <2>8. \A q \in DOMAIN cache : \E k \in 1..L : q = cacheOrder[k]
    BY <1>1 DEF CacheInOrder, ToSet
  <2>9. IsInjective(cacheOrder')
    <3> SUFFICES ASSUME NEW j \in 1..(L - over + 1), NEW k \in 1..(L - over + 1),
                        cacheOrder'[j] = cacheOrder'[k]
                 PROVE  j = k
      BY <2>5 DEF IsInjective
    <3>1. CASE j \in 1..(L - over) /\ k \in 1..(L - over)
      <4>1. over + j \in 1..L /\ over + k \in 1..L
        BY <1>1, <2>1, <3>1
      <4>2. over + j = over + k
        BY <2>5, <2>6, <3>1, <4>1
      <4> QED BY <2>1, <4>2
    <3>2. CASE j \in 1..(L - over) /\ k = L - over + 1
      <4>1. over + j \in 1..L
        BY <1>1, <2>1, <3>2
      <4> QED BY <2>5, <2>7, <3>2, <4>1
    <3>3. CASE k \in 1..(L - over) /\ j = L - over + 1
      <4>1. over + k \in 1..L
        BY <1>1, <2>1, <3>3
      <4> QED BY <2>5, <2>7, <3>3, <4>1
    <3> QED BY <1>1, <2>1, <3>1, <3>2, <3>3
  <2>10. DOMAIN cache' = (DOMAIN cache \ evicted) \cup {query}
    BY <2>2
  <2>11. ASSUME NEW q PROVE q \in ToSet(cacheOrder') <=> q \in DOMAIN cache'
    <3>1. ASSUME q \in ToSet(cacheOrder') PROVE q \in DOMAIN cache'
      <4>1. PICK k \in 1..(L - over + 1) : q = cacheOrder'[k]
        BY <2>5, <3>1 DEF ToSet
      <4>2. CASE k = L - over + 1
        BY <2>5, <2>10, <4>1, <4>2
      <4>3. CASE k \in 1..(L - over)
        <5>1. over + k \in 1..L /\ over + k \notin 1..over
          BY <1>1, <2>1, <4>3
        <5>2. \A j \in 1..over : j \in 1..L /\ j # over + k
          BY <1>1, <2>1, <5>1
        <5>3. q = cacheOrder[over + k]
          BY <2>5, <4>1, <4>3
        <5>4. q \notin evicted
          BY <2>4, <2>6, <5>1, <5>2, <5>3
        <5> QED BY <2>7, <2>10, <5>1, <5>3, <5>4
      <4> QED BY <1>1, <2>1, <4>2, <4>3
    <3>2. ASSUME q \in DOMAIN cache' PROVE q \in ToSet(cacheOrder')
      <4>1. CASE q = query
        <5>1. L - over + 1 \in DOMAIN cacheOrder'
          BY <1>1, <2>1, <2>5
        <5> QED BY <2>5, <4>1, <5>1 DEF ToSet
      <4>2. CASE q \in DOMAIN cache \ evicted
        <5>1. PICK k \in 1..L : q = cacheOrder[k]
          BY <2>8, <4>2
        <5>2. k \notin 1..over
          BY <2>4, <4>2, <5>1
        <5>3. k - over \in 1..(L - over) /\ over + (k - over) = k /\ k - over \in 1..(L - over + 1)
          BY <1>1, <2>1, <5>2
        <5>4. cacheOrder'[k - over] = q
          BY <2>5, <5>1, <5>3
        <5> QED BY <2>5, <5>3, <5>4 DEF ToSet
      <4> QED BY <2>10, <3>2, <4>1, <4>2
    <3> QED BY <3>1, <3>2
  <2>12. Len(cacheOrder') <= MaxSize
    BY <1>1, <2>1, <2>5
  <2>13. CacheInOrder'
    BY <2>9, <2>11, <2>12 DEF CacheInOrder
  <2>14. IsFunctionOn(cache, DOMAIN cache)'
    BY <2>2, <2>10 DEF IsFunctionOn
  <2>15. \A q \in DOMAIN cache' : \/ q = query /\ cache'[q] = chain
                                  \/ q \in DOMAIN cache /\ cache'[q] = cache[q]
    BY <2>2, <2>10
  <2> QED BY <2>5, <2>13, <2>14, <2>15
<1> QED BY <1>2, <1>3
-----------------------------------------------------------------------------
(* The steps *)

\* A chain stays current while what it rests on only grows.
LEMMA BuiltKept ==
  ASSUME NEW flow, NEW chain, BuiltOf(flow, chain), registered \subseteq registered',
         Extends(mapMethods, mapMethods')
  PROVE  BuiltOf(flow, chain)'
<1>1. Known(flow)' /\ Fits(flow)'
  BY DEF BuiltOf, Known, Fits
<1>2. Made(flow, mapMethods')
  BY DEF BuiltOf, Made, Extends
<1>3. chain = Merged(flow, mapMethods')
  BY MergedKept DEF BuiltOf
<1> QED BY <1>1, <1>2, <1>3 DEF BuiltOf

\* So does a cached chain.
LEMMA CurrentKept ==
  ASSUME NEW query, StillCurrent(query), registered \subseteq registered', Grows(mappers, mappers'),
         Extends(mapMethods, mapMethods'), cache'[query] = cache[query]
  PROVE  StillCurrent(query)'
<1>1. PICK chain : chain = cache[query]
  OBVIOUS
<1>2. PICK flow \in Readings(query) : BuiltOf(flow, chain) /\ Allowed(flow, mappers)
  BY <1>1 DEF StillCurrent
<1>3. BuiltOf(flow, chain)'
  BY <1>2, BuiltKept
<1>4. Allowed(flow, mappers')
  BY <1>2, MapperStays DEF Allowed
<1>5. BuiltOf(flow, cache[query])'
  BY <1>1, <1>3 DEF BuiltOf, Known, Fits, Made
<1> QED BY <1>4, <1>5 DEF StillCurrent

\* A chain that may be run may be run for good.
LEMMA GuardedKept ==
  ASSUME NEW methods, NEW m, NEW n, Guarded(methods, m), Grows(m, n)
  PROVE  Guarded(methods, n)
BY MapperStays DEF Guarded

\* And so may what is left of it: a run stays sound while the mappers grow.
LEMMA SoundKept ==
  ASSUME NEW run, NEW m, NEW n, SoundRun(run, m), Grows(m, n)
  PROVE  SoundRun(run, n)
<1>1. \A p \in run.params : p.by \in n.allowed
  BY DEF SoundRun, Grows
<1> QED BY <1>1, GuardedKept DEF SoundRun

\* A step that changes one run.
LEMMA OneRun ==
  ASSUME IInv, NEW r \in Requests, NEW run, runs' = [runs EXCEPT ![r] = run],
         Grows(mappers, mappers'), SoundRun(run, mappers')
  PROVE  IsFunctionOn(runs, Requests)' /\ \A s \in Requests : SoundRun(runs[s], mappers)'
<1>1. /\ DOMAIN runs' = Requests /\ runs'[r] = run
      /\ \A s \in Requests : s # r => runs'[s] = runs[s]
  BY DEF IInv, IsFunctionOn
<1>2. runs' = [s \in Requests |-> runs'[s]]
  <2>1. DOMAIN runs = Requests
    BY DEF IInv, IsFunctionOn
  <2>2. runs' = [s \in DOMAIN runs |-> runs'[s]]
    OBVIOUS
  <2> QED BY <2>1, <2>2
<1>3. \A s \in Requests : SoundRun(runs'[s], mappers')
  BY <1>1, SoundKept DEF IInv
<1> QED BY <1>2, <1>3 DEF IsFunctionOn

\* A step that takes nothing back and leaves the cached chains alone.
LEMMA Growing ==
  ASSUME IInv, registered \subseteq registered', registered' \subseteq DOMAIN Chains,
         Grows(mappers, mappers'), Filed(mapMethods'), Extends(mapMethods, mapMethods'),
         UNCHANGED <<cache, cacheOrder>>, reader' \in BOOLEAN, harvested' \subseteq Manifest,
         IsFunctionOn(runs, Requests)', \A s \in Requests : SoundRun(runs[s], mappers)'
  PROVE  IInv'
<1>1. mappers' \in MapperRecord
  BY DEF Grows
<1>2. CacheInOrder' /\ IsFunctionOn(cache, DOMAIN cache)' /\ cacheOrder' \in Seq(Queries)
  BY DEF IInv, CacheInOrder, IsFunctionOn
<1>3. \A q \in DOMAIN cache' : StillCurrent(q)'
  BY CurrentKept DEF IInv
<1> QED BY <1>1, <1>2, <1>3 DEF IInv

\* Nothing changed is nothing taken back.
LEMMA Same ==
  ASSUME IInv
  PROVE  Grows(mappers, mappers) /\ Extends(mapMethods, mapMethods)
BY DEF IInv, Grows, Extends

\* A step of the program around the requests.
LEMMA AroundStep ==
  ASSUME IInv, registered \subseteq registered', registered' \subseteq DOMAIN Chains, Grows(mappers, mappers'),
         reader' \in BOOLEAN, harvested' \subseteq Manifest, UNCHANGED <<flowCaches, runs>>
  PROVE  IInv'
<1>1. Filed(mapMethods') /\ Extends(mapMethods, mapMethods')
  BY Same DEF IInv, flowCaches
<1>2. IsFunctionOn(runs, Requests)'
  BY DEF IInv, IsFunctionOn
<1>3. \A s \in Requests : SoundRun(runs[s], mappers)'
  BY SoundKept DEF IInv
<1> QED BY <1>1, <1>2, <1>3, Growing DEF flowCaches

\* A step of one run.
LEMMA RunStep ==
  ASSUME IInv, NEW r \in Requests, NEW run, runs' = [runs EXCEPT ![r] = run],
         Grows(mappers, mappers'), SoundRun(run, mappers'), UNCHANGED <<registered, flowCaches, lanes>>
  PROVE  IInv'
<1>1. Filed(mapMethods') /\ Extends(mapMethods, mapMethods')
  BY Same DEF IInv, flowCaches
<1>2. registered' \subseteq DOMAIN Chains /\ reader' \in BOOLEAN /\ harvested' \subseteq Manifest
  BY DEF IInv, lanes
<1> QED BY <1>1, <1>2, OneRun, Growing DEF flowCaches

\* A run with some fields replaced is a run.
LEMMA RunUpdated ==
  ASSUME NEW run, IsRun(run), NEW a, NEW b, NEW c, NEW v, NEW w, NEW x
  PROVE  /\ IsRun([run EXCEPT ![a] = v]) /\ IsRun([run EXCEPT ![a] = v, ![b] = w])
         /\ IsRun([run EXCEPT ![a] = v, ![b] = w, ![c] = x])
<1>1. DOMAIN run = RunFields
  BY DEF IsRun, IsFunctionOn
<1>2. IsRun([run EXCEPT ![a] = v])
  BY <1>1, Zenon DEF IsRun, IsFunctionOn
<1>3. IsRun([run EXCEPT ![a] = v, ![b] = w])
  BY <1>1, Zenon DEF IsRun, IsFunctionOn
<1>4. IsRun([run EXCEPT ![a] = v, ![b] = w, ![c] = x])
  BY <1>1, Zenon DEF IsRun, IsFunctionOn
<1> QED BY <1>2, <1>3, <1>4

\* The slot of no request, field by field.
LEMMA NoRunIs == IsRun(NoRun) /\ NoRun.missing = FALSE /\ NoRun.params = {} /\ NoRun.query = None /\ NoRun.next = 1
<1>1. DOMAIN NoRun = RunFields
  BY DEF NoRun, RunFields
<1>2. IsRun(NoRun)
  BY <1>1 DEF IsRun, IsFunctionOn, NoRun
<1> QED BY <1>2 DEF NoRun

\* An empty slot is sound.
LEMMA NoRunSound ==
  ASSUME NEW m
  PROVE  SoundRun(NoRun, m)
BY NoRunIs DEF SoundRun

\* A run begins with a chain that is sound.
LEMMA BeginningSound ==
  ASSUME NEW query, NEW chain, NEW given, NEW m, IsSequence(chain.methods), Guarded(chain.methods, m)
  PROVE  SoundRun([NoRun EXCEPT !.query = query, !.chain = chain, !.given = given], m)
<1> DEFINE run == [NoRun EXCEPT !.query = query, !.chain = chain, !.given = given]
<1>1. IsRun(run)
  BY NoRunIs, RunUpdated
<1>2. run.missing = FALSE /\ run.params = {} /\ run.chain = chain /\ run.next = 1
  BY NoRunIs DEF IsRun, IsFunctionOn, RunFields
<1> HIDE DEF run
<1>3. 1 \in 1 .. Len(chain.methods) + 1
  BY DEF IsSequence
<1>4. SoundRun(run, m)
  BY <1>1, <1>2, <1>3 DEF SoundRun
<1> QED BY <1>4 DEF run

\* One step on in the chain.
LEMMA Advanced ==
  ASSUME NEW old, NEW m, SoundRun(old, m), old.query # None, old.next <= Len(old.chain.methods),
         NEW with, IsRun(with), with.missing = FALSE, \A p \in with.params : p.by \in m.allowed,
         with.query = old.query, with.chain = old.chain, with.next = old.next
  PROVE  SoundRun([with EXCEPT !.next = @ + 1], m)
<1> DEFINE run == [with EXCEPT !.next = @ + 1]
<1>1. IsRun(run)
  BY RunUpdated
<1>2. /\ run.missing = FALSE /\ run.query = old.query /\ run.params = with.params
      /\ run.chain = old.chain /\ run.next = old.next + 1
  BY DEF IsRun, IsFunctionOn, RunFields
<1> HIDE DEF run
<1>3. old.next + 1 \in 1 .. Len(old.chain.methods) + 1
  BY DEF SoundRun, IsSequence
<1>4. SoundRun(run, m)
  BY <1>1, <1>2, <1>3 DEF SoundRun
<1> QED BY <1>4 DEF run

\* A run of a cached chain: it rests on what is still there.
LEMMA HitStep ==
  ASSUME IInv, NEW r \in Requests, NEW query \in Queries, NEW given, Hit(r, query, given)
  PROVE  IInv'
<1>1. query \in DOMAIN cache /\ StillCurrent(query)
  BY DEF Hit, IInv
<1>2. PICK flow \in Readings(query) : BuiltOf(flow, cache[query]) /\ Allowed(flow, mappers)
  BY <1>1 DEF StillCurrent
<1>3. flow \in Flows /\ ToSet(flow.routes) \subseteq DOMAIN Chains
  BY <1>2, FlowTyped DEF IInv, BuiltOf, Known
<1>4. IsSequence(cache[query].methods) /\ Guarded(cache[query].methods, mappers)
  BY <1>2, <1>3, MergedGuarded DEF BuiltOf, IInv
<1>5. SoundRun([NoRun EXCEPT !.query = query, !.chain = cache[query], !.given = given], mappers)
  BY <1>4, BeginningSound
<1> QED BY <1>5, RunStep, Same DEF Hit, StartRun

\* A query that is refused starts nothing.
LEMMA RefuseStep ==
  ASSUME IInv, NEW r \in Requests, NEW query \in Queries, NEW flow, RefuseQuery(r, query, flow)
  PROVE  IInv'
BY RunStep, NoRunSound, Same DEF RefuseQuery, Refuse

\* A chain that is built, cached, and run: what it rests on has just been looked up.
LEMMA BuildStep ==
  ASSUME IInv, NEW r \in Requests, NEW query \in Queries, NEW flow \in Readings(query), NEW given,
         Build(r, query, flow, given)
  PROVE  IInv'
<1> DEFINE inserted == Inserted(flow)
           chain == Merged(flow, inserted.methods)
<1>1. flow \in Flows /\ IsSequence(flow.mappings)
  BY FlowTyped
<1>2. /\ mappers' = inserted.mappers /\ mapMethods' = inserted.methods /\ UNCHANGED <<registered, lanes>>
      /\ query \notin DOMAIN cache /\ Known(flow)
  BY DEF Build
<1>3. /\ Grows(mappers, mappers') /\ Filed(mapMethods') /\ Extends(mapMethods, mapMethods')
      /\ inserted.ok => Fits(flow) /\ Allowed(flow, mappers') /\ Made(flow, mapMethods')
  BY <1>1, <1>2, Built DEF IInv
<1>4. /\ registered \subseteq registered' /\ registered' \subseteq DOMAIN Chains
      /\ reader' \in BOOLEAN /\ harvested' \subseteq Manifest
  BY <1>2 DEF IInv, lanes
<1>5. CASE ~inserted.ok
  <2>1. Refuse(r) /\ UNCHANGED <<cache, cacheOrder>>
    BY <1>5 DEF Build
  <2>2. IsFunctionOn(runs, Requests)' /\ \A s \in Requests : SoundRun(runs[s], mappers)'
    BY <1>3, <2>1, OneRun, NoRunSound DEF Refuse
  <2> QED BY <1>3, <1>4, <2>1, <2>2, Growing
<1>6. CASE inserted.ok
  <2>1. AddToCache(query, chain) /\ StartRun(r, query, chain, given)
    BY <1>6 DEF Build
  <2>2. ToSet(flow.routes) \subseteq DOMAIN Chains
    BY <1>2 DEF Known, IInv
  <2>3. IsSequence(chain.methods) /\ Guarded(chain.methods, mappers')
    BY <1>1, <1>2, <1>3, <1>6, <2>2, MergedGuarded
  <2> HIDE DEF inserted, chain
  <2>4. SoundRun([NoRun EXCEPT !.query = query, !.chain = chain, !.given = given], mappers')
    BY <2>3, BeginningSound
  <2>5. IsFunctionOn(runs, Requests)' /\ \A s \in Requests : SoundRun(runs[s], mappers)'
    BY <1>3, <2>1, <2>4, OneRun DEF StartRun
  <2>6. /\ cacheOrder' \in Seq(Queries) /\ CacheInOrder' /\ IsFunctionOn(cache, DOMAIN cache)'
        /\ \A q \in DOMAIN cache' : \/ q = query /\ cache'[q] = chain
                                    \/ q \in DOMAIN cache /\ cache'[q] = cache[q]
    BY <1>2, <2>1, CacheStep DEF IInv
  <2>7. ASSUME NEW q \in DOMAIN cache' PROVE StillCurrent(q)'
    <3>1. CASE q = query /\ cache'[q] = chain
      <4>1. Known(flow)'
        BY <1>2 DEF Known
      <4>2. Fits(flow)' /\ Allowed(flow, mappers') /\ Made(flow, mapMethods')
        BY <1>3, <1>6 DEF Fits
      <4>3. cache'[q] = Merged(flow, mapMethods')
        BY <1>2, <3>1 DEF chain
      <4>4. BuiltOf(flow, cache[q])'
        BY <4>1, <4>2, <4>3 DEF BuiltOf
      <4> QED BY <3>1, <4>2, <4>4 DEF StillCurrent
    <3>2. CASE q \in DOMAIN cache /\ cache'[q] = cache[q]
      BY <1>3, <1>4, <3>2, CurrentKept DEF IInv
    <3> QED BY <2>6, <3>1, <3>2
  <2>8. mappers' \in MapperRecord
    BY <1>3 DEF Grows
  <2> QED BY <1>3, <1>4, <2>5, <2>6, <2>7, <2>8 DEF IInv
<1> QED BY <1>5, <1>6

\* A method that is skipped after an error changes nothing but the place in the chain.
LEMMA SkipStep ==
  ASSUME IInv, NEW r \in Requests, Skip(r)
  PROVE  IInv'
<1>1. SoundRun(runs[r], mappers) /\ runs[r].query # None /\ runs[r].next <= Len(runs[r].chain.methods)
  BY DEF IInv, Skip, Unfinished, Running
<1>2. SoundRun([runs[r] EXCEPT !.next = @ + 1], mappers)
  BY <1>1, Advanced DEF SoundRun
<1> QED BY <1>2, RunStep, Same DEF Skip, Advance

\* A route or a middleFn uses the params there are, and makes none.
LEMMA RunMethodStep ==
  ASSUME IInv, NEW r \in Requests, NEW fails \in BOOLEAN, RunMethod(r, fails)
  PROVE  IInv'
<1> DEFINE called == runs[r].args \cup {p \in runs[r].params : p.to = Method(r).id}
           with == [runs[r] EXCEPT !.args = called, !.hasErrors = @ \/ fails]
           run == [with EXCEPT !.next = @ + 1]
<1>1. SoundRun(runs[r], mappers) /\ runs[r].query # None /\ runs[r].next <= Len(runs[r].chain.methods)
  BY DEF IInv, RunMethod, Unfinished, Running
<1>2. runs' = [runs EXCEPT ![r] = run]
  BY DEF RunMethod, Advance
<1> HIDE DEF called
<1>3. IsRun(with)
  BY <1>1, RunUpdated DEF SoundRun
<1>4. /\ with.missing = FALSE /\ with.params = runs[r].params /\ with.query = runs[r].query
      /\ with.chain = runs[r].chain /\ with.next = runs[r].next
  BY <1>1 DEF SoundRun, IsRun, IsFunctionOn, RunFields
<1> HIDE DEF with
<1>5. SoundRun(run, mappers)
  BY <1>1, <1>3, <1>4, Advanced DEF SoundRun
<1> QED BY <1>2, <1>5, RunStep, Same DEF RunMethod

\* A mapper whose turn has come is there, so what it makes is made by one that is allowed.
LEMMA RunMappingStep ==
  ASSUME IInv, NEW r \in Requests, NEW fails \in BOOLEAN, RunMapping(r, fails)
  PROVE  IInv'
<1> DEFINE mapping == Method(r).mapping
           made == Mapped(mapping, HasRun(r, mapping.fromId))
           failed == [runs[r] EXCEPT !.hasErrors = TRUE]
           mapped == [runs[r] EXCEPT !.params = Replaced(runs[r], made)]
           with == IF fails THEN failed ELSE mapped
           run == [with EXCEPT !.next = @ + 1]
<1>1. /\ SoundRun(runs[r], mappers) /\ runs[r].query # None /\ runs[r].next <= Len(runs[r].chain.methods)
      /\ mappers \in MapperRecord /\ harvested \subseteq Manifest
  BY DEF IInv, RunMapping, Unfinished, Running
<1>2. GetServerMapper(mapping.bodyHash, mappers)
  <2>1. runs[r].next \in DOMAIN runs[r].chain.methods /\ Guarded(runs[r].chain.methods, mappers)
    BY <1>1 DEF SoundRun, IsSequence
  <2> QED BY <2>1 DEF Guarded, RunMapping, Method
<1>3. mappers' = Reread(mapping.bodyHash, mappers) /\ UNCHANGED <<registered, flowCaches, lanes>>
  BY DEF RunMapping
<1>4. Grows(mappers, mappers')
  BY <1>1, <1>3, RereadGrows
<1>5. GetServerMapper(mapping.bodyHash, mappers')
  BY <1>2, <1>4, MapperStays
<1>6. HasServerMapper(mapping.bodyHash, mappers)
  BY <1>3, <1>5 DEF HasServerMapper
<1>7. runs' = [runs EXCEPT ![r] = run]
  BY <1>6 DEF RunMapping, Advance
<1>8. SoundRun(runs[r], mappers')
  BY <1>1, <1>4, SoundKept
<1>9. made.by = mapping.bodyHash
  BY DEF Mapped
<1> HIDE DEF made, mapping
<1>10. \A p \in Replaced(runs[r], made) : p.by \in mappers'.allowed
  BY <1>5, <1>8, <1>9 DEF SoundRun, Replaced, GetServerMapper
<1>11. IsRun(failed) /\ IsRun(mapped)
  BY <1>1, RunUpdated DEF SoundRun
<1>12. /\ failed.missing = FALSE /\ failed.query = runs[r].query /\ failed.params = runs[r].params
       /\ failed.chain = runs[r].chain /\ failed.next = runs[r].next
  BY <1>1 DEF SoundRun, IsRun, IsFunctionOn, RunFields
<1>13. /\ mapped.missing = FALSE /\ mapped.query = runs[r].query
       /\ mapped.params = Replaced(runs[r], made)
       /\ mapped.chain = runs[r].chain /\ mapped.next = runs[r].next
  BY <1>1 DEF SoundRun, IsRun, IsFunctionOn, RunFields
<1> HIDE DEF failed, mapped
<1>14. SoundRun([failed EXCEPT !.next = @ + 1], mappers')
  BY <1>1, <1>8, <1>11, <1>12, Advanced DEF SoundRun
<1>15. SoundRun([mapped EXCEPT !.next = @ + 1], mappers')
  BY <1>1, <1>8, <1>10, <1>11, <1>13, Advanced
<1>16. SoundRun(run, mappers')
  BY <1>14, <1>15
<1> HIDE DEF run
<1> QED BY <1>3, <1>4, <1>7, <1>16, RunStep

\* A run that is over leaves an empty slot.
LEMMA FinishStep ==
  ASSUME IInv, NEW r \in Requests, Finish(r)
  PROVE  IInv'
BY RunStep, NoRunSound, Same DEF Finish

\* resetRouter: no chain is cached, and no request is in flight to hold one.
LEMMA ResetStep ==
  ASSUME IInv, ResetRouter
  PROVE  IInv'
<1>1. /\ registered' = {} /\ cache' = <<>> /\ cacheOrder' = <<>> /\ mapMethods' = <<>>
      /\ UNCHANGED <<mappers, lanes, runs>>
  BY DEF ResetRouter, ClearRoutesFlowCache
<1>2. DOMAIN cache' = {} /\ IsFunctionOn(cache, DOMAIN cache)' /\ Filed(mapMethods)'
  BY <1>1 DEF IsFunctionOn, Filed
<1>3. cacheOrder' \in Seq(Queries) /\ CacheInOrder'
  <2>1. Len(cacheOrder') = 0 /\ DOMAIN cacheOrder' = {} /\ cacheOrder' \in Seq(Queries)
    BY <1>1
  <2> QED BY <1>2, <2>1, FlowAssumption DEF CacheInOrder, IsInjective, ToSet
<1>4. mappers' \in MapperRecord /\ reader' \in BOOLEAN /\ harvested' \subseteq Manifest
  BY <1>1 DEF IInv, lanes
<1>5. IsFunctionOn(runs, Requests)' /\ \A r \in Requests : SoundRun(runs[r], mappers)'
  BY <1>1 DEF IInv, IsFunctionOn
<1> QED BY <1>1, <1>2, <1>3, <1>4, <1>5 DEF IInv
-----------------------------------------------------------------------------
(* The theorems *)

\* The caches are empty and no request is in flight.
LEMMA IInit ==
  ASSUME Init
  PROVE  IInv
<1>1. /\ registered = {} /\ cache = <<>> /\ cacheOrder = <<>> /\ mapMethods = <<>> /\ reader = FALSE
      /\ harvested = {} /\ mappers = [fns |-> {}, allowed |-> {}] /\ runs = [r \in Requests |-> NoRun]
  BY DEF Init
<1>2. DOMAIN cache = {} /\ IsFunctionOn(cache, DOMAIN cache) /\ Filed(mapMethods)
  BY <1>1 DEF IsFunctionOn, Filed
<1>3. cacheOrder \in Seq(Queries) /\ CacheInOrder
  <2>1. Len(cacheOrder) = 0 /\ DOMAIN cacheOrder = {} /\ cacheOrder \in Seq(Queries)
    BY <1>1
  <2> QED BY <1>2, <2>1, FlowAssumption DEF CacheInOrder, IsInjective, ToSet
<1>4. mappers \in MapperRecord
  BY <1>1 DEF MapperRecord
<1>5. IsFunctionOn(runs, Requests) /\ \A r \in Requests : SoundRun(runs[r], mappers)
  BY <1>1, NoRunSound DEF IsFunctionOn
<1> QED BY <1>1, <1>2, <1>3, <1>4, <1>5 DEF IInv

\* One step for each action.
LEMMA IStep ==
  ASSUME IInv, [Next]_vars
  PROVE  IInv'
<1>0. IInv /\ mappers \in MapperRecord /\ Grows(mappers, mappers)
      /\ registered \subseteq DOMAIN Chains /\ reader \in BOOLEAN /\ harvested \subseteq Manifest
  BY Same DEF IInv
<1>1. ASSUME NEW r \in Requests, NEW q \in Queries, NEW raw \in Raws, Begin(r, q, raw) PROVE IInv'
  <2>1. Reading(q, raw) \in Readings(q)
    BY DEF Readings
  <2> QED BY <1>1, <2>1, HitStep, RefuseStep, BuildStep DEF Begin
<1>2. ASSUME NEW r \in Requests, RequestStep(r) PROVE IInv'
  BY <1>2, SkipStep, RunMethodStep, RunMappingStep, FinishStep DEF RequestStep
<1>3. ASSUME NEW path \in DOMAIN Chains, RegisterRoute(path) PROVE IInv'
  BY <1>0, <1>3, AroundStep DEF RegisterRoute, lanes
<1>4. ASSUME NEW key \in Keys, RegisterPureFn(key) PROVE IInv'
  <2>1. Grows(mappers, mappers')
    BY <1>0, <1>4 DEF RegisterPureFn, Grows, MapperRecord
  <2> QED BY <1>0, <1>4, <2>1, AroundStep DEF RegisterPureFn, lanes
<1>5. ASSUME NEW key \in Keys, AllowServerMapper(key) PROVE IInv'
  <2>1. Grows(mappers, mappers')
    BY <1>0, <1>5 DEF AllowServerMapper, Grows, MapperRecord
  <2> QED BY <1>0, <1>5, <2>1, AroundStep DEF AllowServerMapper, lanes
<1>6. ASSUME NEW key \in Keys, RegisterServerMapperTuple(key) PROVE IInv'
  <2>1. Grows(mappers, mappers')
    BY <1>0, <1>6 DEF RegisterServerMapperTuple, Grows, MapperRecord
  <2> QED BY <1>0, <1>6, <2>1, AroundStep DEF RegisterServerMapperTuple, lanes
<1>7. ASSUME NEW entry \in Manifest, Harvest(entry) PROVE IInv'
  BY <1>0, <1>7, AroundStep DEF Harvest
<1>8. CASE InstallServerMapperReader
  <2>1. Grows(mappers, mappers')
    BY <1>0, <1>8, EntriesGrow DEF InstallServerMapperReader
  <2> QED BY <1>0, <1>8, <2>1, AroundStep DEF InstallServerMapperReader
<1>9. CASE ResetRouter
  BY <1>9, ResetStep
<1>10. CASE UNCHANGED vars
  BY <1>0, <1>10, AroundStep DEF vars, lanes
<1> QED BY <1>1, <1>2, <1>3, <1>4, <1>5, <1>6, <1>7, <1>8, <1>9, <1>10 DEF Next

\* The caches hold what still is true, and every run calls what may be called.
THEOREM FlowInvariant == Spec => []IInv
<1>1. Init => IInv
  BY IInit
<1>2. IInv /\ [Next]_vars => IInv'
  BY IStep
<1> QED BY <1>1, <1>2, PTL DEF Spec

\* Whatever is registered, harvested, allowed, built, evicted and reset, and in
\* whatever order: a chain taken from the cache is the one that would be built now for
\* some request with this query, and the cache is bounded.
THEOREM CachedChainsSound == Spec => []CacheSound
<1>1. IInv => TypeOK
  BY DEF IInv, TypeOK, MapperRecord, Filed, SoundRun, Running
<1>2. ASSUME IInv PROVE CachedChainCurrent
  <2> SUFFICES ASSUME NEW q \in DOMAIN cache
               PROVE  \E flow \in Readings(q) : Current(flow, cache[q])
    BY DEF CachedChainCurrent
  <2>1. q \in Queries
    BY <1>2 DEF IInv, CacheInOrder, ToSet
  <2>2. PICK flow \in Readings(q) : BuiltOf(flow, cache[q]) /\ Allowed(flow, mappers)
    BY <1>2 DEF IInv, StillCurrent
  <2>3. IsSequence(flow.mappings)
    BY <2>1, <2>2, FlowTyped
  <2>4. Inserted(flow).ok
    BY <1>2, <2>2, <2>3, Built DEF IInv, BuiltOf
  <2> QED BY <2>2, <2>4 DEF BuiltOf, Current
<1>3. IInv => CacheSound
  BY <1>1, <1>2 DEF CacheSound, IInv
<1> QED BY <1>3, FlowInvariant, PTL

\* The transform reads a query the same for all requests.
SameToAll(query) == \A flow, other \in Readings(query) : flow = other
OwnChains == \A q \in DOMAIN cache : SameToAll(q) => \A flow \in Readings(q) : Current(flow, cache[q])

\* Where the transform does not look at the request, or there is none, whoever finds
\* its query in the cache finds the chain that would be built for itself.
THEOREM OwnChainsCached == Spec => []OwnChains
<1>1. CachedChainCurrent => OwnChains
  BY DEF CachedChainCurrent, OwnChains, SameToAll
<1>2. CacheSound => CachedChainCurrent
  BY DEF CacheSound
<1> QED BY <1>1, <1>2, CachedChainsSound, PTL

\* However the runs of many requests interleave with the changes of the registry and
\* of the manifest: what a mapper makes was made by one that is allowed, and a mapper
\* that was there when its chain was built is there when its turn comes.
THEOREM MappersAreGuarded == Spec => []MappersGuarded
<1>1. IInv => MappersGuarded
  BY DEF IInv, SoundRun, MappersGuarded, OnlyAllowedMappers, MapperStillThere
<1> QED BY <1>1, FlowInvariant, PTL
-----------------------------------------------------------------------------
(* The middle methods, in order *)

\* The methods a chain runs before its route, and who is no route's.
Before(path) == {Chains[path].methods[j] : j \in 1..(Chains[path].routeIndex - 1)}

\* All chains, one behind the other: each route comes with its methods before it.
Prepared(flat) ==
  \A p \in 1..Len(flat) :
    flat[p] \in DOMAIN Chains => \A a \in Before(flat[p]) : \E q \in 1..(p - 1) : flat[q] = a

\* What the loop over the first n of these methods has collected.
Collected(flat, s, n) ==
  /\ \A x, y \in 1..Len(s) : s[x] = s[y] => x = y
  /\ \A x \in 1..Len(s) : s[x] \notin Edges /\ \E p \in 1..n : flat[p] = s[x]
  /\ \A p \in 1..n : flat[p] \notin Edges => \E x \in 1..Len(s) : s[x] = flat[p]
  /\ \A y \in 1..Len(s) :
       s[y] \in DOMAIN Chains => \A a \in Before(s[y]) \ Edges : \E x \in 1..(y - 1) : s[x] = a

\* A route is in the middle of its own chain, and in no other.
LEMMA RouteIsOwn ==
  ASSUME NEW path \in DOMAIN Chains
  PROVE  /\ path \notin Edges /\ IsSequence(Chains[path].methods)
         /\ Chains[path].routeIndex \in 1..Len(Chains[path].methods)
         /\ Chains[path].methods[Chains[path].routeIndex] = path
         /\ \A j \in 1..Len(Chains[path].methods) :
              Chains[path].methods[j] = path => j = Chains[path].routeIndex
<1> DEFINE own == Chains[path].methods
           at == Chains[path].routeIndex
<1>1. /\ IsInjective(own) /\ at \in DOMAIN own /\ own[at] = path /\ path \notin ToSet(StartIds)
      /\ \A j \in 1 .. at : own[j] \notin ToSet(EndIds)
  BY ChainsAssumption
<1>2. IsSequence(own)
  BY SequenceAssumption
<1>3. DOMAIN own = 1..Len(own) /\ Len(own) \in Nat
  BY <1>2 DEF IsSequence
<1>4. at \in 1..at
  BY <1>1, <1>3
<1>5. \A j \in 1..Len(own) : own[j] = path => j = at
  BY <1>1, <1>3 DEF IsInjective
<1> QED BY <1>1, <1>2, <1>3, <1>4, <1>5 DEF Edges

\* The other half.
LEMMA RouteInNoOther ==
  ASSUME NEW path \in DOMAIN Chains, NEW other \in DOMAIN Chains, path \in ToSet(Chains[other].methods)
  PROVE  path = other
BY ChainsAssumption

\* One round of the loop.
LEMMA CollectedStep ==
  ASSUME NEW X, NEW flat \in Seq(X), Prepared(flat), NEW n \in Nat, n + 1 <= Len(flat),
         NEW s \in Seq(X), Collected(flat, s, n)
  PROVE  Collected(flat, AddOnce(s, flat[n + 1]), n + 1)
<1> DEFINE id == flat[n + 1]
           L == Len(s)
<1>1. L \in Nat /\ DOMAIN s = 1..L /\ n + 1 \in 1..Len(flat) /\ 1..n \subseteq 1..(n + 1) /\ id \in X
  OBVIOUS
<1>2. \A p \in 1..(n + 1) : p \in 1..n \/ p = n + 1
  OBVIOUS
<1>3. CASE id \in ToSet(s) \cup Edges
  <2>1. AddOnce(s, id) = s
    BY <1>3 DEF AddOnce
  <2>2. id \notin Edges => \E x \in 1..L : s[x] = id
    BY <1>1, <1>3 DEF ToSet
  <2>3. \A p \in 1..(n + 1) : flat[p] \notin Edges => \E x \in 1..L : s[x] = flat[p]
    BY <1>2, <2>2 DEF Collected
  <2>4. \A x \in 1..L : s[x] \notin Edges /\ \E p \in 1..(n + 1) : flat[p] = s[x]
    BY <1>1 DEF Collected
  <2>5. Collected(flat, s, n + 1)
    BY <2>3, <2>4 DEF Collected
  <2> QED BY <2>1, <2>5
<1>4. CASE id \notin ToSet(s) \cup Edges
  <2> DEFINE t == Append(s, id)
  <2>1. AddOnce(s, id) = t
    BY <1>4 DEF AddOnce
  <2>2. Len(t) = L + 1 /\ t[L + 1] = id /\ \A x \in 1..L : t[x] = s[x]
    BY <1>1
  <2>3. \A x \in 1..(L + 1) : x \in 1..L \/ x = L + 1
    BY <1>1
  <2>4. 1..L \subseteq 1..(L + 1) /\ L + 1 \in 1..(L + 1)
    BY <1>1
  <2>5. id \notin Edges /\ \A x \in 1..L : s[x] # id
    BY <1>1, <1>4 DEF ToSet
  <2> HIDE DEF t, id, L
  <2>6. \A x, y \in 1..Len(t) : t[x] = t[y] => x = y
    <3> SUFFICES ASSUME NEW x \in 1..(L + 1), NEW y \in 1..(L + 1), t[x] = t[y] PROVE x = y
      BY <2>2
    <3>1. CASE x \in 1..L /\ y \in 1..L
      <4>1. s[x] = s[y]
        BY <2>2, <3>1
      <4> QED BY <3>1, <4>1 DEF Collected, L
    <3>2. CASE x = L + 1 \/ y = L + 1
      BY <2>2, <2>3, <2>5, <3>2
    <3> QED BY <2>3, <3>1, <3>2
  <2>7. \A x \in 1..Len(t) : t[x] \notin Edges /\ \E p \in 1..(n + 1) : flat[p] = t[x]
    <3> SUFFICES ASSUME NEW x \in 1..(L + 1)
                 PROVE  t[x] \notin Edges /\ \E p \in 1..(n + 1) : flat[p] = t[x]
      BY <2>2
    <3>1. CASE x \in 1..L
      <4>1. s[x] \notin Edges /\ \E p \in 1..n : flat[p] = s[x]
        BY <3>1 DEF Collected, L
      <4> QED BY <1>1, <2>2, <3>1, <4>1
    <3>2. CASE x = L + 1
      <4>1. n + 1 \in 1..(n + 1)
        OBVIOUS
      <4> QED BY <2>2, <2>5, <3>2, <4>1 DEF id
    <3> QED BY <2>3, <3>1, <3>2
  <2>8. \A p \in 1..(n + 1) : flat[p] \notin Edges => \E x \in 1..Len(t) : t[x] = flat[p]
    <3> SUFFICES ASSUME NEW p \in 1..(n + 1), flat[p] \notin Edges PROVE \E x \in 1..(L + 1) : t[x] = flat[p]
      BY <2>2
    <3>1. CASE p \in 1..n
      <4>1. PICK x \in 1..L : s[x] = flat[p]
        BY <3>1 DEF Collected, L
      <4> QED BY <2>2, <2>4, <4>1
    <3>2. CASE p = n + 1
      BY <2>2, <2>4, <3>2 DEF id
    <3> QED BY <1>2, <3>1, <3>2
  <2>9. ASSUME NEW y \in 1..Len(t), t[y] \in DOMAIN Chains, NEW a \in Before(t[y]) \ Edges
        PROVE  \E x \in 1..(y - 1) : t[x] = a
    <3>1. CASE y \in 1..L
      <4>1. s[y] \in DOMAIN Chains /\ a \in Before(s[y]) \ Edges
        BY <2>2, <2>9, <3>1
      <4>2. PICK x \in 1..(y - 1) : s[x] = a
        BY <3>1, <4>1 DEF Collected, L
      <4>3. x \in 1..L
        BY <1>1, <3>1
      <4> QED BY <2>2, <4>2, <4>3
    <3>2. CASE y = L + 1
      <4>1. id \in DOMAIN Chains /\ a \in Before(id) /\ a \notin Edges
        BY <2>2, <2>9, <3>2
      <4>2. PICK q \in 1..((n + 1) - 1) : flat[q] = a
        BY <1>1, <4>1 DEF Prepared, id
      <4>3. q \in 1..n
        OBVIOUS
      <4>4. PICK x \in 1..L : s[x] = a
        BY <4>1, <4>2, <4>3 DEF Collected, L
      <4>5. y - 1 = L
        BY <1>1, <3>2
      <4> QED BY <2>2, <4>4, <4>5
    <3> QED BY <2>2, <2>3, <3>1, <3>2
  <2>10. Collected(flat, t, n + 1)
    BY <2>6, <2>7, <2>8, <2>9 DEF Collected
  <2> QED BY <2>1, <2>10 DEF id
<1> QED BY <1>3, <1>4

\* The middle methods of a query: each once, all that its chains have between the
\* edges, and before each route what its own chain has there.
LEMMA MiddleIs ==
  ASSUME NEW routes, IsSequence(routes), ToSet(routes) \subseteq DOMAIN Chains
  PROVE  /\ IsSequence(MiddleIds(routes))
         /\ \A x, y \in 1..Len(MiddleIds(routes)) : MiddleIds(routes)[x] = MiddleIds(routes)[y] => x = y
         /\ \A x \in 1..Len(MiddleIds(routes)) :
              /\ MiddleIds(routes)[x] \notin Edges
              /\ \E path \in ToSet(routes) : MiddleIds(routes)[x] \in ToSet(Chains[path].methods)
         /\ \A path \in ToSet(routes) : \A id \in ToSet(Chains[path].methods) \ Edges :
              \E x \in 1..Len(MiddleIds(routes)) : MiddleIds(routes)[x] = id
         /\ \A y \in 1..Len(MiddleIds(routes)) : MiddleIds(routes)[y] \in DOMAIN Chains =>
              \A a \in Before(MiddleIds(routes)[y]) \ Edges :
                \E x \in 1..(y - 1) : MiddleIds(routes)[x] = a
<1> DEFINE X == UNION {ToSet(Chains[path].methods) : path \in DOMAIN Chains}
           whole == [k \in DOMAIN routes |-> Chains[routes[k]].methods]
           flat == FlattenSeq(whole)
           M == MiddleIds(routes)
<1>1. Len(routes) \in Nat /\ DOMAIN routes = 1..Len(routes)
      /\ \A k \in DOMAIN routes : routes[k] \in DOMAIN Chains /\ routes[k] \in ToSet(routes)
  BY DEF IsSequence, ToSet
<1>2. \A path \in DOMAIN Chains : Chains[path].methods \in Seq(X)
  <2> SUFFICES ASSUME NEW path \in DOMAIN Chains PROVE Chains[path].methods \in Seq(X)
    OBVIOUS
  <2>1. Chains[path].methods \in Seq(ToSet(Chains[path].methods))
    BY SequenceAssumption DEF IsSequence
  <2>2. ToSet(Chains[path].methods) \subseteq X
    OBVIOUS
  <2> HIDE DEF X
  <2> QED BY <2>1, <2>2
<1>3. whole \in Seq(Seq(X)) /\ Len(whole) = Len(routes)
      /\ \A k \in 1..Len(whole) : whole[k] = Chains[routes[k]].methods
  <2> HIDE DEF X
  <2> QED BY <1>1, <1>2
<1>4. M = Adding!Fold(<<>>, flat)
  BY DEF MiddleIds, Adding!Fold, FoldLeft, Adding!FoldLeft, MapThenFoldSet, Adding!MapThenFoldSet, Max, Adding!Max
<1> HIDE DEF X, whole, M
<1>5. flat \in Seq(X) /\ \E off : Layout(off, whole, flat)
  BY <1>3, FlattenPlaces
<1> HIDE DEF flat
<1>6. PICK off : Layout(off, whole, flat)
  BY <1>5
<1>7. Len(flat) \in Nat /\ \A p \in 1..Len(flat) : flat[p] \in X
  BY <1>5
<1>8. ASSUME NEW n \in 1..Len(routes), NEW j \in 1..Len(Chains[routes[n]].methods)
      PROVE  /\ off[n - 1] \in Nat /\ off[n - 1] + j \in 1..Len(flat)
             /\ flat[off[n - 1] + j] = Chains[routes[n]].methods[j]
  <2>1. n \in 1..Len(whole) /\ n - 1 \in 0..Len(whole) /\ n \in 0..Len(whole) /\ Len(whole) \in 0..Len(whole)
    BY <1>1, <1>3
  <2>2. whole[n] = Chains[routes[n]].methods /\ Len(whole[n]) \in Nat
    BY <1>1, <1>2, <1>3, <2>1
  <2>3. off[n - 1] \in Nat /\ off[n] \in Nat /\ off[n] = off[n - 1] + Len(whole[n]) /\ off[n] <= Len(flat)
    BY <1>1, <1>6, <2>1 DEF Layout
  <2>4. j \in 1..Len(whole[n])
    BY <2>2
  <2>5. flat[off[n - 1] + j] = whole[n][j]
    BY <1>6, <2>1, <2>4 DEF Layout
  <2>6. off[n - 1] + j \in 1..Len(flat)
    <3> DEFINE o == off[n - 1]
               l == Len(whole[n])
               b == off[n]
               F == Len(flat)
    <3>1. b = o + l /\ b <= F /\ o \in Nat /\ l \in Nat /\ F \in Nat /\ j \in 1..l
      BY <1>7, <2>2, <2>3, <2>4
    <3> HIDE DEF o, l, b, F
    <3>2. o + j \in 1..F
      BY <3>1
    <3> QED BY <3>2 DEF o, F
  <2> QED BY <2>2, <2>3, <2>5, <2>6
<1>9. \A p \in 1..Len(flat) : \E n \in 1..Len(routes) : \E j \in 1..Len(Chains[routes[n]].methods) :
        p = off[n - 1] + j /\ flat[p] = Chains[routes[n]].methods[j]
  <2> SUFFICES ASSUME NEW p \in 1..Len(flat)
               PROVE  \E n \in 1..Len(routes) : \E j \in 1..Len(Chains[routes[n]].methods) :
                        p = off[n - 1] + j /\ flat[p] = Chains[routes[n]].methods[j]
    OBVIOUS
  <2>1. PICK n \in 1..Len(whole) : \E j \in 1..Len(whole[n]) : p = off[n - 1] + j
    BY <1>6 DEF Layout
  <2>2. PICK j \in 1..Len(whole[n]) : p = off[n - 1] + j
    BY <2>1
  <2>3. whole[n] = Chains[routes[n]].methods /\ n \in 1..Len(routes)
    BY <1>3
  <2>4. j \in 1..Len(Chains[routes[n]].methods)
    BY <2>3
  <2> QED BY <1>8, <2>2, <2>3, <2>4
<1>10. Prepared(flat)
  <2> SUFFICES ASSUME NEW p \in 1..Len(flat), flat[p] \in DOMAIN Chains, NEW a \in Before(flat[p])
               PROVE  \E q \in 1..(p - 1) : flat[q] = a
    BY DEF Prepared
  <2>1. PICK n \in 1..Len(routes) : \E j \in 1..Len(Chains[routes[n]].methods) :
               p = off[n - 1] + j /\ flat[p] = Chains[routes[n]].methods[j]
    BY <1>9
  <2>2. PICK j \in 1..Len(Chains[routes[n]].methods) :
               p = off[n - 1] + j /\ flat[p] = Chains[routes[n]].methods[j]
    BY <2>1
  <2> DEFINE path == routes[n]
             own == Chains[path].methods
             at == Chains[path].routeIndex
  <2>3. path \in DOMAIN Chains
    BY <1>1
  <2>4. DOMAIN own = 1..Len(own) /\ Len(own) \in Nat
    BY <2>3, RouteIsOwn DEF IsSequence
  <2>5. flat[p] \in ToSet(own)
    BY <2>2, <2>4 DEF ToSet
  <2>6. flat[p] = path
    BY <2>3, <2>5, RouteInNoOther
  <2>7. j = at
    <3>1. \A i \in 1..Len(own) : own[i] = path => i = at
      BY <2>3, RouteIsOwn
    <3>2. j \in 1..Len(own) /\ own[j] = path
      BY <2>2, <2>6
    <3> HIDE DEF own, path, at
    <3> QED BY <3>1, <3>2
  <2>8. PICK i \in 1..(at - 1) : own[i] = a
    BY <2>6 DEF Before
  <2>9. i \in 1..Len(own) /\ i < j
    BY <2>2, <2>4, <2>7
  <2>10. off[n - 1] \in Nat /\ off[n - 1] + i \in 1..Len(flat) /\ flat[off[n - 1] + i] = own[i]
    BY <1>8, <2>9
  <2>11. off[n - 1] + i \in 1..(p - 1)
    <3> DEFINE o == off[n - 1]
    <3>1. p = o + j /\ o \in Nat /\ i \in Nat /\ i >= 1 /\ i < j /\ j \in Nat
      BY <2>2, <2>4, <2>9, <2>10
    <3> HIDE DEF o
    <3>2. o + i \in 1..(p - 1)
      BY <3>1
    <3> QED BY <3>2 DEF o
  <2> QED BY <2>8, <2>10, <2>11
<1>11. PICK run : /\ run[0] = <<>>
                  /\ \A n \in 1..Len(flat) : run[n] = AddOnce(run[n - 1], flat[n])
                  /\ Adding!Fold(<<>>, flat) = run[Len(flat)]
  BY <1>5, Adding!FoldLeftRuns
<1> DEFINE K == {n \in Nat : n <= Len(flat) => run[n] \in Seq(X) /\ Collected(flat, run[n], n)}
<1>12. 0 \in K
  <2>1. <<>> \in Seq(X) /\ Len(<<>>) = 0 /\ \A x : x \notin 1..0
    OBVIOUS
  <2>2. Collected(flat, <<>>, 0)
    BY <2>1 DEF Collected
  <2> QED BY <1>11, <2>1, <2>2
<1>13. ASSUME NEW n \in K PROVE n + 1 \in K
  <2>1. CASE n + 1 <= Len(flat)
    <3>1. /\ run[n] \in Seq(X) /\ Collected(flat, run[n], n)
          /\ n \in Nat /\ n + 1 \in Nat /\ n + 1 \in 1..Len(flat) /\ (n + 1) - 1 = n
      BY <1>7, <2>1
    <3>2. run[n + 1] = AddOnce(run[n], flat[n + 1])
      BY <1>11, <3>1
    <3>3. Collected(flat, run[n + 1], n + 1)
      BY <1>5, <1>10, <2>1, <3>1, <3>2, CollectedStep
    <3>4. run[n + 1] \in Seq(X)
      BY <1>7, <3>1, <3>2 DEF AddOnce
    <3> QED BY <3>1, <3>3, <3>4
  <2>2. CASE ~(n + 1 <= Len(flat))
    BY <2>2
  <2> QED BY <2>1, <2>2
<1>14. Len(flat) \in K
  <2> HIDE DEF K
  <2>1. K \in SUBSET Nat
    BY DEF K
  <2> QED BY <1>7, <1>12, <1>13, <2>1, Adding!Induction
<1>15. M \in Seq(X) /\ Collected(flat, M, Len(flat))
  BY <1>4, <1>7, <1>11, <1>14
<1>16. IsSequence(M)
  BY <1>15, TypedIsSequence
<1>17. \A x \in 1..Len(M) : M[x] \notin Edges /\ \E path \in ToSet(routes) : M[x] \in ToSet(Chains[path].methods)
  <2> SUFFICES ASSUME NEW x \in 1..Len(M)
               PROVE  M[x] \notin Edges /\ \E path \in ToSet(routes) : M[x] \in ToSet(Chains[path].methods)
    OBVIOUS
  <2>1. M[x] \notin Edges
    BY <1>15 DEF Collected
  <2>2. PICK p \in 1..Len(flat) : flat[p] = M[x]
    BY <1>15 DEF Collected
  <2>3. PICK n \in 1..Len(routes) : \E j \in 1..Len(Chains[routes[n]].methods) :
               p = off[n - 1] + j /\ flat[p] = Chains[routes[n]].methods[j]
    BY <1>9
  <2>4. routes[n] \in ToSet(routes) /\ routes[n] \in DOMAIN Chains
    BY <1>1
  <2>5. DOMAIN Chains[routes[n]].methods = 1..Len(Chains[routes[n]].methods)
    BY <2>4, RouteIsOwn DEF IsSequence
  <2> QED BY <2>1, <2>2, <2>3, <2>4, <2>5 DEF ToSet
<1>18. ASSUME NEW path \in ToSet(routes), NEW id \in ToSet(Chains[path].methods) \ Edges
       PROVE  \E x \in 1..Len(M) : M[x] = id
  <2>1. PICK n \in 1..Len(routes) : routes[n] = path
    BY <1>1, <1>18 DEF ToSet
  <2>2. DOMAIN Chains[path].methods = 1..Len(Chains[path].methods)
    BY <1>1, <2>1, RouteIsOwn DEF IsSequence
  <2>3. PICK j \in 1..Len(Chains[path].methods) : Chains[path].methods[j] = id
    BY <1>18, <2>2 DEF ToSet
  <2>4. off[n - 1] + j \in 1..Len(flat) /\ flat[off[n - 1] + j] = id
    BY <1>8, <2>1, <2>3
  <2> QED BY <1>15, <1>18, <2>4 DEF Collected
<1>19. /\ \A x, y \in 1..Len(M) : M[x] = M[y] => x = y
       /\ \A y \in 1..Len(M) : M[y] \in DOMAIN Chains =>
            \A a \in Before(M[y]) \ Edges : \E x \in 1..(y - 1) : M[x] = a
  BY <1>15 DEF Collected
<1> QED BY <1>16, <1>17, <1>18, <1>19 DEF M
-----------------------------------------------------------------------------
(* Where the merged chain has each method *)

\* u is s, and t behind it.
IsJoin(u, s, t) ==
  /\ Len(u) = Len(s) + Len(t)
  /\ \A i \in 1..Len(s) : u[i] = s[i]
  /\ \A i \in 1..Len(t) : u[Len(s) + i] = t[i]

\* Two sequences, one behind the other.
LEMMA Joined ==
  ASSUME NEW T, NEW s \in Seq(T), NEW t \in Seq(T)
  PROVE  s \o t \in Seq(T) /\ IsJoin(s \o t, s, t)
BY DEF IsJoin

\* The place of one of the sequences.
LEMMA LaidOut ==
  ASSUME NEW off, NEW seqs, NEW flat, Layout(off, seqs, flat), Len(seqs) \in Nat, NEW n \in 1..Len(seqs)
  PROVE  /\ off[n - 1] \in Nat /\ off[n] \in Nat /\ off[n] = off[n - 1] + Len(seqs[n]) /\ off[n] <= Len(flat)
         /\ \A m \in 1..Len(seqs) : m < n => off[m] <= off[n - 1]
         /\ \A j \in 1..Len(seqs[n]) : flat[off[n - 1] + j] = seqs[n][j]
<1>1. n - 1 \in 0..Len(seqs) /\ n \in 0..Len(seqs) /\ Len(seqs) \in 0..Len(seqs) /\ n <= Len(seqs)
  OBVIOUS
<1>2. off[n] <= off[Len(seqs)] /\ off[Len(seqs)] = Len(flat)
  BY <1>1 DEF Layout
<1>3. ASSUME NEW m \in 1..Len(seqs), m < n PROVE off[m] <= off[n - 1]
  <2>1. m \in 0..Len(seqs) /\ m <= n - 1
    BY <1>3
  <2> QED BY <1>1, <2>1 DEF Layout
<1>4. off[n - 1] \in Nat /\ off[n] \in Nat
  BY <1>1 DEF Layout
<1>5. off[n] = off[n - 1] + Len(seqs[n]) /\ \A j \in 1..Len(seqs[n]) : flat[off[n - 1] + j] = seqs[n][j]
  BY DEF Layout
<1> QED BY <1>2, <1>3, <1>4, <1>5

\* From its place first on, a sequence holds the mappers of the output of id, and all of them.
IsMapper(step, id, mappings, methods) ==
  \E k \in DOMAIN mappings : mappings[k].fromId = id /\ step = MappingStep(mappings[k], methods)
HasMappers(s, first, id, mappings, methods) ==
  /\ \A i \in first..Len(s) : IsMapper(s[i], id, mappings, methods)
  /\ \A k \in DOMAIN mappings : mappings[k].fromId = id =>
       \E i \in first..Len(s) : s[i] = MappingStep(mappings[k], methods)

\* The mappers of the output of a method are those the query names, and all of them.
LEMMA MappersAre ==
  ASSUME NEW id, NEW mappings, IsSequence(mappings), NEW methods, NEW T,
         \A k \in DOMAIN mappings : MappingStep(mappings[k], methods) \in T
  PROVE  /\ MappersOf(id, mappings, methods) \in Seq(T)
         /\ HasMappers(MappersOf(id, mappings, methods), 1, id, mappings, methods)
<1> DEFINE Slot(k) == IF mappings[k].fromId = id THEN <<MappingStep(mappings[k], methods)>> ELSE <<>>
           slots == [k \in DOMAIN mappings |-> Slot(k)]
           flat == MappersOf(id, mappings, methods)
<1>1. Len(mappings) \in Nat /\ DOMAIN mappings = 1..Len(mappings)
  BY DEF IsSequence
<1>2. \A k \in DOMAIN mappings : Slot(k) \in Seq(T)
  OBVIOUS
<1>3. \A k \in DOMAIN mappings :
        /\ mappings[k].fromId = id => Len(Slot(k)) = 1 /\ Slot(k)[1] = MappingStep(mappings[k], methods)
        /\ mappings[k].fromId # id => Len(Slot(k)) = 0
  OBVIOUS
<1>4. flat = FlattenSeq(slots)
  BY DEF MappersOf
<1> HIDE DEF Slot, flat
<1>5. slots \in Seq(Seq(T)) /\ Len(slots) = Len(mappings) /\ \A k \in DOMAIN mappings : slots[k] = Slot(k)
  BY <1>1, <1>2
<1> HIDE DEF slots
<1>6. flat \in Seq(T) /\ \E off : Layout(off, slots, flat)
  BY <1>4, <1>5, FlattenPlaces
<1>7. PICK off : Layout(off, slots, flat)
  BY <1>6
<1>8. ASSUME NEW i \in 1..Len(flat)
      PROVE  IsMapper(flat[i], id, mappings, methods)
  <2>1. PICK k \in 1..Len(slots) : \E j \in 1..Len(slots[k]) : i = off[k - 1] + j
    BY <1>7 DEF Layout
  <2>2. PICK j \in 1..Len(slots[k]) : i = off[k - 1] + j
    BY <2>1
  <2>3. k \in DOMAIN mappings /\ slots[k] = Slot(k)
    BY <1>1, <1>5
  <2>4. mappings[k].fromId = id
    <3>1. Len(slots[k]) # 0
      BY <2>2
    <3> QED BY <1>3, <2>3, <3>1
  <2>5. Len(slots[k]) = 1 /\ slots[k][1] = MappingStep(mappings[k], methods)
    BY <1>3, <2>3, <2>4
  <2>6. j = 1
    BY <2>2, <2>5
  <2>7. flat[i] = slots[k][j]
    BY <1>7, <2>2 DEF Layout
  <2> QED BY <2>3, <2>4, <2>5, <2>6, <2>7 DEF IsMapper
<1>9. ASSUME NEW k \in DOMAIN mappings, mappings[k].fromId = id
      PROVE  \E i \in 1..Len(flat) : flat[i] = MappingStep(mappings[k], methods)
  <2>1. k \in 1..Len(slots) /\ Len(slots) \in Nat
    BY <1>1, <1>5
  <2>2. Len(slots[k]) = 1 /\ slots[k][1] = MappingStep(mappings[k], methods)
    BY <1>3, <1>5, <1>9
  <2>3. /\ off[k - 1] \in Nat /\ off[k] = off[k - 1] + Len(slots[k]) /\ off[k] <= Len(flat)
        /\ \A j \in 1..Len(slots[k]) : flat[off[k - 1] + j] = slots[k][j]
    <3>1. Layout(off, slots, flat) /\ Len(slots) \in Nat
      BY <1>7, <2>1
    <3> QED BY ONLY <2>1, <3>1, LaidOut, SMTT(30)
  <2>4. 1 \in 1..Len(slots[k])
    BY <2>2
  <2>5. flat[off[k - 1] + 1] = slots[k][1]
    BY <2>3, <2>4
  <2>6. Len(flat) \in Nat
    BY <1>6
  <2>7. off[k - 1] + 1 \in 1..Len(flat)
    BY <2>2, <2>3, <2>6
  <2> QED BY <2>2, <2>5, <2>7
<1>10. HasMappers(flat, 1, id, mappings, methods)
  BY <1>8, <1>9 DEF HasMappers
<1> QED BY <1>6, <1>10 DEF flat

\* A method, and the mappers of its output behind it.
LEMMA WithMappersAre ==
  ASSUME NEW id, NEW mappings, IsSequence(mappings), NEW methods, NEW T, Step(id) \in T,
         \A k \in DOMAIN mappings : MappingStep(mappings[k], methods) \in T
  PROVE  /\ WithMappers(id, mappings, methods) \in Seq(T) /\ Len(WithMappers(id, mappings, methods)) >= 1
         /\ WithMappers(id, mappings, methods)[1] = Step(id)
         /\ HasMappers(WithMappers(id, mappings, methods), 2, id, mappings, methods)
<1> DEFINE some == MappersOf(id, mappings, methods)
           back == Reverse(some)
           all == WithMappers(id, mappings, methods)
           N == Len(some)
<1>1. some \in Seq(T) /\ HasMappers(some, 1, id, mappings, methods)
  BY MappersAre
<1>2. N \in Nat
  BY <1>1
<1>3. back \in Seq(T) /\ Len(back) = N /\ \A i \in 1..N : back[i] = some[(N - i) + 1]
  <2> HIDE DEF some
  <2> QED BY <1>1, <1>2 DEF Reverse
<1>4. all = <<Step(id)>> \o back
  BY DEF WithMappers
<1> HIDE DEF some, back, all, N
<1>5. all \in Seq(T) /\ Len(all) = N + 1 /\ all[1] = Step(id) /\ \A i \in 1..N : all[i + 1] = back[i]
  <2> DEFINE first == <<Step(id)>>
  <2>1. first \in Seq(T) /\ Len(first) = 1 /\ first[1] = Step(id)
    OBVIOUS
  <2> HIDE DEF first
  <2>2. first \o back \in Seq(T) /\ IsJoin(first \o back, first, back)
    BY <1>3, <2>1, Joined
  <2>3. all \in Seq(T) /\ IsJoin(all, first, back)
    BY <1>4, <2>2 DEF first
  <2>4. 1 \in 1..Len(first) /\ \A i \in 1..N : 1 + i = i + 1
    BY <1>2, <2>1
  <2> QED BY <1>2, <1>3, <2>1, <2>3, <2>4 DEF IsJoin
<1>6. ASSUME NEW i \in 2..Len(all)
      PROVE  IsMapper(all[i], id, mappings, methods)
  <2>1. i - 1 \in 1..N /\ i = (i - 1) + 1 /\ (N - (i - 1)) + 1 \in 1..N
    BY <1>2, <1>5
  <2>2. all[i] = some[(N - (i - 1)) + 1]
    BY <1>3, <1>5, <2>1
  <2> QED BY <1>1, <2>1, <2>2 DEF HasMappers, N
<1>7. ASSUME NEW k \in DOMAIN mappings, mappings[k].fromId = id
      PROVE  \E i \in 2..Len(all) : all[i] = MappingStep(mappings[k], methods)
  <2>1. PICK j \in 1..N : some[j] = MappingStep(mappings[k], methods)
    BY <1>1, <1>7 DEF HasMappers, N
  <2>2. (N - j) + 1 \in 1..N /\ (N - ((N - j) + 1)) + 1 = j /\ ((N - j) + 1) + 1 \in 2..Len(all)
    BY <1>2, <1>5
  <2>3. all[((N - j) + 1) + 1] = some[j]
    BY <1>3, <1>5, <2>2
  <2> QED BY <2>1, <2>2, <2>3
<1>8. Len(all) >= 1
  BY <1>2, <1>5
<1>9. HasMappers(all, 2, id, mappings, methods)
  BY <1>6, <1>7 DEF HasMappers
<1> QED BY <1>5, <1>8, <1>9 DEF all

\* place: where the steps of a merged chain have each of the middle methods.
Spots(place, query, methods, steps) ==
  LET ids == MiddleIds(query.routes)
      mappings == query.mappings
      S == Len(StartIds)
      C == Len(steps) - Len(EndIds)
  IN /\ C \in Nat /\ S <= C
     /\ \A i \in 1..S : steps[i] = Step(StartIds[i])
     /\ \A i \in 1..Len(EndIds) : steps[C + i] = Step(EndIds[i])
     /\ \A x \in 1..Len(ids) : place[x] \in (S + 1)..C /\ steps[place[x]] = Step(ids[x])
     /\ \A x, y \in 1..Len(ids) : x < y => place[x] < place[y]
     /\ \A i \in (S + 1)..C :
          \/ \E x \in 1..Len(ids) : i = place[x]
          \/ \E x \in 1..Len(ids) : place[x] < i /\ IsMapper(steps[i], ids[x], mappings, methods)
     /\ \A x \in 1..Len(ids), k \in DOMAIN mappings : mappings[k].fromId = ids[x] =>
          \E i \in (place[x] + 1)..C : /\ steps[i] = MappingStep(mappings[k], methods)
                                       /\ \A y \in 1..Len(ids) : x < y => i < place[y]

\* The start middleFns, the middle methods with their mappers behind them, the end
\* middleFns.
LEMMA MergedSpots ==
  ASSUME NEW query \in Flows, ToSet(query.routes) \subseteq DOMAIN Chains, NEW methods
  PROVE  /\ IsSequence(Merged(query, methods).methods)
         /\ \E place : Spots(place, query, methods, Merged(query, methods).methods)
<1> DEFINE ids == MiddleIds(query.routes)
           mappings == query.mappings
           T == {Step(id) : id \in ToSet(ids) \cup ToSet(StartIds) \cup ToSet(EndIds)}
                \cup {MappingStep(mappings[k], methods) : k \in DOMAIN mappings}
           starts == [k \in DOMAIN StartIds |-> Step(StartIds[k])]
           ends == [k \in DOMAIN EndIds |-> Step(EndIds[k])]
           middle == [k \in DOMAIN ids |-> WithMappers(ids[k], mappings, methods)]
           flat == FlattenSeq(middle)
           steps == Merged(query, methods).methods
           S == Len(StartIds)
           E == Len(EndIds)
           F == Len(flat)
           C == Len(steps) - E
<1>1. IsSequence(ids) /\ IsSequence(mappings) /\ IsSequence(StartIds) /\ IsSequence(EndIds)
  BY SequenceAssumption, FlowsTyped, MiddleTyped
<1>2. /\ Len(ids) \in Nat /\ DOMAIN ids = 1..Len(ids)
      /\ S \in Nat /\ DOMAIN StartIds = 1..S /\ E \in Nat /\ DOMAIN EndIds = 1..E
  BY <1>1 DEF IsSequence
<1>3. /\ \A k \in DOMAIN ids : Step(ids[k]) \in T
      /\ \A k \in DOMAIN StartIds : Step(StartIds[k]) \in T
      /\ \A k \in DOMAIN EndIds : Step(EndIds[k]) \in T
      /\ \A k \in DOMAIN mappings : MappingStep(mappings[k], methods) \in T
  BY DEF ToSet
<1> HIDE DEF T, ids, mappings
<1>4. ASSUME NEW x \in DOMAIN ids
      PROVE  /\ middle[x] \in Seq(T) /\ Len(middle[x]) >= 1 /\ middle[x][1] = Step(ids[x])
             /\ HasMappers(middle[x], 2, ids[x], mappings, methods)
  <2>1. middle[x] = WithMappers(ids[x], mappings, methods)
    OBVIOUS
  <2>2. Step(ids[x]) \in T
    BY <1>3
  <2> HIDE DEF middle
  <2> DEFINE id == ids[x]
  <2>3. /\ WithMappers(id, mappings, methods) \in Seq(T) /\ Len(WithMappers(id, mappings, methods)) >= 1
        /\ WithMappers(id, mappings, methods)[1] = Step(id)
        /\ HasMappers(WithMappers(id, mappings, methods), 2, id, mappings, methods)
    <3>1. Step(id) \in T
      BY <2>2
    <3> HIDE DEF id
    <3> QED BY <1>1, <1>3, <3>1, WithMappersAre
  <2> QED BY <2>1, <2>3
<1>5. middle = [k \in 1..Len(ids) |-> middle[k]] /\ DOMAIN middle = 1..Len(ids)
  BY <1>2
<1>6. starts \in Seq(T) /\ Len(starts) = S /\ \A i \in 1..S : starts[i] = Step(StartIds[i])
  BY <1>2, <1>3
<1>7. ends \in Seq(T) /\ Len(ends) = E /\ \A i \in 1..E : ends[i] = Step(EndIds[i])
  BY <1>2, <1>3
<1>8. steps = (starts \o flat) \o ends
  BY DEF Merged, ids, mappings
<1> HIDE DEF middle, starts, ends, S, E
<1>9. middle \in Seq(Seq(T)) /\ Len(middle) = Len(ids)
  BY <1>2, <1>4, <1>5
<1>10. flat \in Seq(T) /\ \E off : Layout(off, middle, flat)
  BY <1>9, FlattenPlaces
<1> HIDE DEF flat, steps
<1>11. PICK off : Layout(off, middle, flat)
  BY <1>10
<1>12. F \in Nat
  BY <1>10
<1>13. /\ steps \in Seq(T) /\ C = S + F /\ Len(steps) = S + F + E
       /\ \A i \in 1..S : steps[i] = starts[i]
       /\ \A i \in 1..F : steps[S + i] = flat[i]
       /\ \A i \in 1..E : steps[C + i] = ends[i]
  <2> DEFINE front == starts \o flat
  <2>1. front \in Seq(T) /\ IsJoin(front, starts, flat)
    BY <1>6, <1>10, Joined
  <2>2. steps = front \o ends
    BY <1>8 DEF front
  <2> HIDE DEF front
  <2>3. front \o ends \in Seq(T) /\ IsJoin(front \o ends, front, ends)
    BY <1>7, <2>1, Joined
  <2>4. steps \in Seq(T) /\ IsJoin(steps, front, ends)
    BY <2>2, <2>3
  <2>5. Len(front) = S + F /\ Len(steps) = S + F + E /\ C = S + F
    BY <1>2, <1>6, <1>7, <1>12, <2>1, <2>4 DEF IsJoin, F, C
  <2> HIDE DEF C
  <2>6. ASSUME NEW i \in 1..S PROVE steps[i] = starts[i]
    <3>1. i \in 1..Len(starts) /\ i \in 1..Len(front)
      BY <1>2, <1>6, <1>12, <2>5
    <3> QED BY <2>1, <2>4, <3>1 DEF IsJoin
  <2>7. ASSUME NEW i \in 1..F PROVE steps[S + i] = flat[i]
    <3>1. S + i \in 1..Len(front)
      BY <1>2, <1>12, <2>5
    <3> QED BY <1>6, <2>1, <2>4, <3>1 DEF IsJoin
  <2>8. ASSUME NEW i \in 1..E PROVE steps[C + i] = ends[i]
    BY <1>7, <2>5, <2>4 DEF IsJoin
  <2> QED BY <2>4, <2>5, <2>6, <2>7, <2>8
<1> DEFINE place == [x \in 1..Len(ids) |-> S + off[x - 1] + 1]
<1>14. \A x \in 1..Len(ids) : place[x] = S + off[x - 1] + 1
  OBVIOUS
<1> HIDE DEF place, C, F
<1>15. ASSUME NEW x \in 1..Len(ids)
       PROVE  /\ off[x - 1] \in Nat /\ off[x] \in Nat /\ off[x] <= F /\ Len(middle[x]) \in Nat
              /\ off[x] = off[x - 1] + Len(middle[x]) /\ Len(middle[x]) >= 1
              /\ \A j \in 1..Len(middle[x]) : off[x - 1] + j \in 1..F /\ steps[S + (off[x - 1] + j)] = middle[x][j]
  <2>1. x \in 1..Len(middle) /\ Len(middle) \in Nat
    BY <1>2, <1>9
  <2>2. /\ off[x - 1] \in Nat /\ off[x] \in Nat /\ off[x] = off[x - 1] + Len(middle[x]) /\ off[x] <= F
        /\ \A j \in 1..Len(middle[x]) : flat[off[x - 1] + j] = middle[x][j]
    BY <1>11, <2>1, LaidOut DEF F
  <2>3. Len(middle[x]) \in Nat /\ Len(middle[x]) >= 1
    BY <1>2, <1>4
  <2>4. ASSUME NEW j \in 1..Len(middle[x])
        PROVE  off[x - 1] + j \in 1..F /\ steps[S + (off[x - 1] + j)] = middle[x][j]
    <3>1. off[x - 1] + j \in 1..F
      BY <1>12, <2>2, <2>3
    <3>2. flat[off[x - 1] + j] = middle[x][j]
      BY <2>2
    <3> QED BY <1>13, <3>1, <3>2
  <2> QED BY <2>2, <2>3, <2>4
<1>16. ASSUME NEW x \in 1..Len(ids), NEW y \in 1..Len(ids), x < y
       PROVE  off[x] <= off[y - 1]
  <2>1. x \in 1..Len(middle) /\ y \in 1..Len(middle) /\ Len(middle) \in Nat
    BY <1>2, <1>9
  <2> QED BY <1>11, <1>16, <2>1, LaidOut
<1>17. ASSUME NEW x \in 1..Len(ids) PROVE place[x] \in (S + 1)..C /\ steps[place[x]] = Step(ids[x])
  <2>1. 1 \in 1..Len(middle[x])
    BY <1>15
  <2>2. off[x - 1] + 1 \in 1..F /\ steps[S + (off[x - 1] + 1)] = middle[x][1]
    BY <1>15, <2>1
  <2>3. middle[x][1] = Step(ids[x])
    BY <1>2, <1>4
  <2>4. place[x] = S + (off[x - 1] + 1)
    BY <1>2, <1>14, <1>15
  <2> QED BY <1>2, <1>12, <1>13, <2>2, <2>3, <2>4
<1>18. ASSUME NEW x \in 1..Len(ids), NEW y \in 1..Len(ids), x < y
       PROVE  place[x] < place[y]
  <2>1. place[x] = S + off[x - 1] + 1 /\ place[y] = S + off[y - 1] + 1
    BY <1>14
  <2>2. off[x] <= off[y - 1]
    BY <1>16, <1>18
  <2>3. /\ off[x - 1] \in Nat /\ off[y - 1] \in Nat /\ off[x] \in Nat
        /\ off[x] = off[x - 1] + Len(middle[x]) /\ Len(middle[x]) \in Nat /\ Len(middle[x]) >= 1
    BY <1>15
  <2> DEFINE a == off[x - 1]
             b == off[y - 1]
             c == off[x]
             l == Len(middle[x])
  <2>4. /\ place[x] = S + a + 1 /\ place[y] = S + b + 1 /\ c <= b /\ c = a + l /\ l >= 1
        /\ a \in Nat /\ b \in Nat /\ c \in Nat /\ l \in Nat /\ S \in Nat
    BY <1>2, <2>1, <2>2, <2>3
  <2> HIDE DEF a, b, c, l
  <2> QED BY <2>4
<1>19. ASSUME NEW i \in (S + 1)..C
       PROVE  \/ \E x \in 1..Len(ids) : i = place[x]
              \/ \E x \in 1..Len(ids) : place[x] < i /\ IsMapper(steps[i], ids[x], mappings, methods)
  <2>1. i - S \in 1..F /\ i = S + (i - S)
    BY <1>2, <1>12, <1>13
  <2>2. PICK x \in 1..Len(ids) : \E j \in 1..Len(middle[x]) : i - S = off[x - 1] + j
    BY <1>9, <1>11, <2>1 DEF Layout, F
  <2>3. PICK j \in 1..Len(middle[x]) : i - S = off[x - 1] + j
    BY <2>2
  <2>4. steps[i] = middle[x][j] /\ off[x - 1] \in Nat
    BY <1>15, <2>1, <2>3
  <2>5. CASE j = 1
    <3>1. place[x] = S + off[x - 1] + 1
      BY <1>14
    <3> DEFINE o == off[x - 1]
               p == place[x]
    <3>2. p = S + o + 1 /\ i - S = o + 1 /\ o \in Nat /\ S \in Nat /\ i \in Int
      BY <1>2, <2>1, <2>3, <2>4, <2>5, <3>1
    <3> HIDE DEF o, p
    <3>3. i = p
      BY <3>2
    <3> QED BY <3>3 DEF p
  <2>6. CASE j # 1
    <3>1. j \in 2..Len(middle[x]) /\ x \in DOMAIN ids
      BY <1>2, <2>6
    <3>2. IsMapper(middle[x][j], ids[x], mappings, methods)
      BY <1>4, <3>1 DEF HasMappers
    <3>3. place[x] = S + off[x - 1] + 1
      BY <1>14
    <3> DEFINE o == off[x - 1]
               p == place[x]
    <3>4. p = S + o + 1 /\ i - S = o + j /\ j \in Nat /\ j > 1 /\ o \in Nat /\ S \in Nat /\ i \in Int
      BY <1>2, <2>1, <2>3, <2>4, <3>1, <3>3
    <3> HIDE DEF o, p
    <3>5. p < i
      BY <3>4
    <3> QED BY <2>4, <3>2, <3>5 DEF p
  <2> QED BY <2>5, <2>6
<1>20. ASSUME NEW x \in 1..Len(ids), NEW k \in DOMAIN mappings, mappings[k].fromId = ids[x]
       PROVE  \E i \in (place[x] + 1)..C : /\ steps[i] = MappingStep(mappings[k], methods)
                                           /\ \A y \in 1..Len(ids) : x < y => i < place[y]
  <2>1. PICK j \in 2..Len(middle[x]) : middle[x][j] = MappingStep(mappings[k], methods)
    BY <1>2, <1>4, <1>20 DEF HasMappers
  <2>2. j \in 1..Len(middle[x])
    BY <1>15
  <2> DEFINE i == S + (off[x - 1] + j)
  <2>3. steps[i] = MappingStep(mappings[k], methods) /\ off[x - 1] + j \in 1..F
    BY <1>15, <2>1, <2>2
  <2>4. i \in (place[x] + 1)..C
    <3>1. place[x] = S + off[x - 1] + 1 /\ off[x - 1] \in Nat /\ Len(middle[x]) \in Nat
      BY <1>14, <1>15
    <3> DEFINE a == off[x - 1]
               p == place[x]
    <3>2. /\ p = S + a + 1 /\ a \in Nat /\ S \in Nat /\ F \in Nat /\ C = S + F
          /\ j \in Nat /\ j >= 2 /\ a + j <= F
      BY <1>2, <1>12, <1>13, <1>15, <2>1, <2>3, <3>1
    <3> HIDE DEF a, p
    <3>3. S + (a + j) \in (p + 1)..C
      BY <3>2
    <3> QED BY <3>3 DEF a, p
  <2>5. ASSUME NEW y \in 1..Len(ids), x < y PROVE i < place[y]
    <3>1. off[x - 1] + j <= off[x]
      <4> DEFINE a == off[x - 1]
                 b == off[x]
                 l == Len(middle[x])
      <4>1. b = a + l /\ a \in Nat /\ l \in Nat /\ j \in 1..l
        BY <1>15, <2>2
      <4> HIDE DEF a, b, l
      <4>2. a + j <= b
        BY <4>1
      <4> QED BY <4>2 DEF a, b
    <3>2. off[x] <= off[y - 1]
      BY <1>16, <2>5
    <3>3. off[y - 1] \in Nat /\ off[x] \in Nat /\ off[x - 1] \in Nat /\ place[y] = S + off[y - 1] + 1
      BY <1>14, <1>15
    <3> DEFINE a == off[x - 1]
               b == off[x]
               c == off[y - 1]
               p == place[y]
    <3>4. /\ a + j <= b /\ b <= c /\ p = S + c + 1 /\ i = S + (a + j)
          /\ a \in Nat /\ b \in Nat /\ c \in Nat /\ j \in Nat /\ S \in Nat
      BY <1>2, <2>2, <3>1, <3>2, <3>3
    <3> HIDE DEF a, b, c, p, i
    <3>5. i < p
      BY <3>4
    <3> QED BY <3>5 DEF p
  <2> QED BY <2>3, <2>4, <2>5
<1>21. C \in Nat /\ S <= C
  BY <1>2, <1>12, <1>13
<1>22. /\ \A i \in 1..S : steps[i] = Step(StartIds[i])
       /\ \A i \in 1..E : steps[C + i] = Step(EndIds[i])
  BY <1>6, <1>7, <1>13
<1>23. Spots(place, query, methods, steps)
  BY <1>17, <1>18, <1>19, <1>20, <1>21, <1>22 DEF Spots, ids, mappings, S, C, E
<1>24. IsSequence(steps)
  BY <1>13, TypedIsSequence
<1> QED BY <1>23, <1>24 DEF steps

\* A chain calls a method at one place and at no other.
OnlyAt(steps, id, i) ==
  i \in 1..Len(steps) /\ steps[i] = Step(id) /\ \A k \in 1..Len(steps) : steps[k].id = id => k = i

\* No start or end middleFn is called twice, and none is called as mappers are.
LEMMA EdgesApart ==
  /\ Len(StartIds) \in Nat /\ DOMAIN StartIds = 1..Len(StartIds)
  /\ Len(EndIds) \in Nat /\ DOMAIN EndIds = 1..Len(EndIds)
  /\ \A i, j \in 1..Len(StartIds) : StartIds[i] = StartIds[j] => i = j
  /\ \A i, j \in 1..Len(EndIds) : EndIds[i] = EndIds[j] => i = j
  /\ \A i \in 1..Len(StartIds), j \in 1..Len(EndIds) : StartIds[i] # EndIds[j]
  /\ \A i \in 1..Len(StartIds) : StartIds[i] \in Edges /\ StartIds[i] # "mapping"
  /\ \A i \in 1..Len(EndIds) : EndIds[i] \in Edges /\ EndIds[i] # "mapping"
<1> DEFINE T == ToSet(StartIds) \cup ToSet(EndIds)
           all == StartIds \o EndIds
           S == Len(StartIds)
           E == Len(EndIds)
<1>1. S \in Nat /\ DOMAIN StartIds = 1..S /\ E \in Nat /\ DOMAIN EndIds = 1..E
  BY SequenceAssumption DEF IsSequence
<1>2. StartIds \in Seq(T) /\ EndIds \in Seq(T)
  <2>1. /\ StartIds \in Seq(ToSet(StartIds)) /\ EndIds \in Seq(ToSet(EndIds))
        /\ ToSet(StartIds) \subseteq T /\ ToSet(EndIds) \subseteq T
    BY SequenceAssumption DEF IsSequence
  <2> HIDE DEF T
  <2> QED BY <2>1
<1>3. all \in Seq(T) /\ IsJoin(all, StartIds, EndIds)
  <2> HIDE DEF T
  <2> QED BY <1>2, Joined
<1>4. IsInjective(all) /\ "mapping" \notin ToSet(all)
  BY ChainsAssumption
<1> HIDE DEF all, T
<1>5. Len(all) = S + E /\ DOMAIN all = 1..(S + E)
  BY <1>3 DEF IsJoin
<1>6. \A i \in 1..S : all[i] = StartIds[i] /\ i \in DOMAIN all
  BY <1>1, <1>3, <1>5 DEF IsJoin
<1>7. \A i \in 1..E : all[S + i] = EndIds[i] /\ S + i \in DOMAIN all
  BY <1>1, <1>3, <1>5 DEF IsJoin
<1>8. \A i, j \in DOMAIN all : all[i] = all[j] => i = j
  BY <1>4 DEF IsInjective
<1>9. \A i \in DOMAIN all : all[i] # "mapping"
  BY <1>4 DEF ToSet
<1>10. ASSUME NEW i \in 1..E, NEW j \in 1..E, EndIds[i] = EndIds[j] PROVE i = j
  <2>1. S + i = S + j
    BY <1>7, <1>8, <1>10
  <2> QED BY <1>1, <2>1
<1>11. ASSUME NEW i \in 1..S, NEW j \in 1..E PROVE StartIds[i] # EndIds[j]
  <2>1. i # S + j
    BY <1>1
  <2> QED BY <1>6, <1>7, <1>8, <2>1
<1>12. \A i, j \in 1..S : StartIds[i] = StartIds[j] => i = j
  BY <1>6, <1>8
<1>13. \A i \in 1..S : StartIds[i] \in Edges /\ StartIds[i] # "mapping"
  BY <1>1, <1>6, <1>9 DEF Edges, ToSet
<1>14. \A i \in 1..E : EndIds[i] \in Edges /\ EndIds[i] # "mapping"
  BY <1>1, <1>7, <1>9 DEF Edges, ToSet
<1> QED BY <1>1, <1>10, <1>11, <1>12, <1>13, <1>14

\* Nor is a middle method.
LEMMA MiddleApart ==
  ASSUME NEW routes, IsSequence(routes), ToSet(routes) \subseteq DOMAIN Chains, NEW x \in 1..Len(MiddleIds(routes))
  PROVE  MiddleIds(routes)[x] \notin Edges /\ MiddleIds(routes)[x] # "mapping"
<1>1. PICK path \in ToSet(routes) : MiddleIds(routes)[x] \in ToSet(Chains[path].methods)
  BY MiddleIs
<1>2. "mapping" \notin ToSet(Chains[path].methods)
  BY ChainsAssumption
<1>3. MiddleIds(routes)[x] \notin Edges
  BY MiddleIs
<1> QED BY <1>1, <1>2, <1>3

\* Every method of a merged chain is called once.
LEMMA CalledOnce ==
  ASSUME NEW query \in Flows, ToSet(query.routes) \subseteq DOMAIN Chains, NEW methods,
         NEW steps, IsSequence(steps), NEW place, Spots(place, query, methods, steps)
  PROVE  /\ \A i \in 1..Len(StartIds) : OnlyAt(steps, StartIds[i], i)
         /\ \A i \in 1..Len(EndIds) : OnlyAt(steps, EndIds[i], Len(steps) - Len(EndIds) + i)
         /\ \A x \in 1..Len(MiddleIds(query.routes)) : OnlyAt(steps, MiddleIds(query.routes)[x], place[x])
<1> DEFINE ids == MiddleIds(query.routes)
           S == Len(StartIds)
           E == Len(EndIds)
           C == Len(steps) - E
           N == Len(ids)
<1>1. /\ S \in Nat /\ E \in Nat
      /\ \A i, j \in 1..S : StartIds[i] = StartIds[j] => i = j
      /\ \A i, j \in 1..E : EndIds[i] = EndIds[j] => i = j
      /\ \A i \in 1..S, j \in 1..E : StartIds[i] # EndIds[j]
      /\ \A i \in 1..S : StartIds[i] \in Edges /\ StartIds[i] # "mapping"
      /\ \A i \in 1..E : EndIds[i] \in Edges /\ EndIds[i] # "mapping"
  BY EdgesApart
<1>2. IsSequence(query.routes)
  BY SequenceAssumption, FlowsTyped
<1>3. /\ N \in Nat /\ \A x, y \in 1..N : ids[x] = ids[y] => x = y
      /\ \A x \in 1..N : ids[x] \notin Edges /\ ids[x] # "mapping"
  BY <1>2, MiddleIs, MiddleApart DEF IsSequence
<1>4. Len(steps) \in Nat
  BY DEF IsSequence
<1>5. /\ C \in Nat /\ S <= C /\ C + E = Len(steps)
      /\ \A i \in 1..S : steps[i] = Step(StartIds[i])
      /\ \A i \in 1..E : steps[C + i] = Step(EndIds[i])
      /\ \A x \in 1..N : place[x] \in (S + 1)..C /\ steps[place[x]] = Step(ids[x])
      /\ \A i \in (S + 1)..C :
           \/ \E x \in 1..N : i = place[x]
           \/ \E x \in 1..N : place[x] < i /\ IsMapper(steps[i], ids[x], query.mappings, methods)
  BY <1>1, <1>4 DEF Spots
<1> HIDE DEF ids, S, E, C, N
<1>6. \A k \in (S + 1)..C : (\E x \in 1..N : k = place[x]) \/ steps[k].id = "mapping"
  <2>1. \A step, id : IsMapper(step, id, query.mappings, methods) => step.id = "mapping"
    BY DEF IsMapper, MappingStep
  <2> QED BY <1>5, <2>1
<1>7. \A id : Step(id).id = id
  BY DEF Step
<1>8. ASSUME NEW k \in 1..Len(steps)
      PROVE  k \in 1..S \/ k \in (S + 1)..C \/ \E i \in 1..E : k = C + i
  <2>1. CASE k > C
    <3>1. k - C \in 1..E /\ k = C + (k - C)
      BY <1>1, <1>4, <1>5, <2>1
    <3> QED BY <3>1
  <2>2. CASE ~(k > C)
    BY <1>1, <1>4, <1>5, <2>2
  <2> QED BY <2>1, <2>2
<1>9. ASSUME NEW i \in 1..S PROVE OnlyAt(steps, StartIds[i], i)
  <2>1. ASSUME NEW k \in 1..Len(steps), steps[k].id = StartIds[i] PROVE k = i
    <3>1. CASE k \in 1..S
      BY <1>1, <1>5, <1>7, <2>1, <3>1
    <3>2. CASE k \in (S + 1)..C
      <4>1. ASSUME NEW x \in 1..N, k = place[x] PROVE steps[k].id \notin Edges
        BY <1>3, <1>5, <1>7, <4>1
      <4> QED BY <1>1, <1>6, <2>1, <3>2, <4>1
    <3>3. CASE \E j \in 1..E : k = C + j
      <4>1. PICK j \in 1..E : k = C + j
        BY <3>3
      <4>2. steps[k].id = EndIds[j]
        BY <1>5, <1>7, <4>1
      <4> QED BY <1>1, <2>1, <4>1, <4>2
    <3> QED BY <1>8, <3>1, <3>2, <3>3
  <2>2. i \in 1..Len(steps)
    BY <1>1, <1>5
  <2> QED BY <1>5, <2>1, <2>2 DEF OnlyAt
<1>10. ASSUME NEW i \in 1..E PROVE OnlyAt(steps, EndIds[i], C + i)
  <2>1. ASSUME NEW k \in 1..Len(steps), steps[k].id = EndIds[i] PROVE k = C + i
    <3>1. CASE k \in 1..S
      BY <1>1, <1>5, <1>7, <2>1, <3>1
    <3>2. CASE k \in (S + 1)..C
      <4>1. ASSUME NEW x \in 1..N, k = place[x] PROVE steps[k].id \notin Edges
        BY <1>3, <1>5, <1>7, <4>1
      <4> QED BY <1>1, <1>6, <2>1, <3>2, <4>1
    <3>3. CASE \E j \in 1..E : k = C + j
      <4>1. PICK j \in 1..E : k = C + j
        BY <3>3
      <4>2. steps[k].id = EndIds[j]
        BY <1>5, <1>7, <4>1
      <4> QED BY <1>1, <2>1, <4>1, <4>2
    <3> QED BY <1>8, <3>1, <3>2, <3>3
  <2>2. C + i \in 1..Len(steps)
    BY <1>1, <1>5
  <2> QED BY <1>5, <2>1, <2>2 DEF OnlyAt
<1>11. ASSUME NEW x \in 1..N PROVE OnlyAt(steps, ids[x], place[x])
  <2>1. ASSUME NEW k \in 1..Len(steps), steps[k].id = ids[x] PROVE k = place[x]
    <3>1. CASE k \in 1..S
      BY <1>1, <1>3, <1>5, <1>7, <2>1, <3>1
    <3>2. CASE k \in (S + 1)..C
      <4>1. steps[k].id # "mapping"
        BY <1>3, <2>1
      <4>2. PICK y \in 1..N : k = place[y]
        BY <1>6, <3>2, <4>1
      <4>3. steps[k].id = ids[y]
        BY <1>5, <1>7, <4>2
      <4>4. x = y
        BY <1>3, <2>1, <4>3
      <4> QED BY <4>2, <4>4
    <3>3. CASE \E j \in 1..E : k = C + j
      <4>1. PICK j \in 1..E : k = C + j
        BY <3>3
      <4>2. steps[k].id = EndIds[j]
        BY <1>5, <1>7, <4>1
      <4> QED BY <1>1, <1>3, <2>1, <4>2
    <3> QED BY <1>8, <3>1, <3>2, <3>3
  <2>2. place[x] \in 1..Len(steps)
    BY <1>1, <1>5
  <2> QED BY <1>5, <2>1, <2>2 DEF OnlyAt
<1> QED BY <1>9, <1>10, <1>11 DEF ids, S, E, C, N

\* The place of a method that is called once.
LEMMA PlaceIs ==
  ASSUME NEW chain, IsSequence(chain.methods), NEW id, NEW i, OnlyAt(chain.methods, id, i)
  PROVE  Place(chain, id) = i
<1>1. DOMAIN chain.methods = 1..Len(chain.methods) /\ Step(id).id = id
  BY DEF IsSequence, Step
<1>2. i \in DOMAIN chain.methods /\ chain.methods[i] = Step(id)
  BY <1>1 DEF OnlyAt
<1>3. \A k \in DOMAIN chain.methods : chain.methods[k] = Step(id) => k = i
  BY <1>1 DEF OnlyAt
<1> QED BY <1>2, <1>3 DEF Place

\* Sequences that agree begin alike.
LEMMA SameBeginning ==
  ASSUME NEW A, NEW B, NEW a \in Seq(A), NEW b \in Seq(B), NEW n \in Nat, n <= Len(a), n <= Len(b),
         \A i \in 1..n : a[i] = b[i]
  PROVE  SubSeq(a, 1, n) = SubSeq(b, 1, n)
<1>1. /\ SubSeq(a, 1, n) = [i \in 1..n |-> a[i]]
      /\ SubSeq(b, 1, n) = [i \in 1..n |-> b[i]]
  OBVIOUS
<1> QED BY <1>1

\* However the chains of the routes are merged: each of them is there, in its order.
LEMMA MergedOrdered ==
  ASSUME NEW query \in Flows, ToSet(query.routes) \subseteq DOMAIN Chains, NEW methods
  PROVE  Ordered(query.routes, Merged(query, methods))
<1> DEFINE chain == Merged(query, methods)
           steps == chain.methods
           paths == query.routes
           names == [k \in DOMAIN steps |-> steps[k].id]
           From(id) == {k \in DOMAIN names : names[k] = id}
           ids == MiddleIds(paths)
           S == Len(StartIds)
           E == Len(EndIds)
           C == Len(steps) - E
<1>1. IsSequence(steps) /\ \E place : Spots(place, query, methods, steps)
  BY MergedSpots
<1>2. PICK place : Spots(place, query, methods, steps)
  BY <1>1
<1> HIDE DEF chain
<1>3. /\ \A i \in 1..S : OnlyAt(steps, StartIds[i], i)
      /\ \A i \in 1..E : OnlyAt(steps, EndIds[i], C + i)
      /\ \A x \in 1..Len(ids) : OnlyAt(steps, ids[x], place[x])
  BY <1>1, <1>2, CalledOnce
<1>4. IsSequence(paths) /\ Len(steps) \in Nat /\ DOMAIN steps = 1..Len(steps)
  BY <1>1, SequenceAssumption, FlowsTyped DEF IsSequence
<1>5. /\ S \in Nat /\ DOMAIN StartIds = 1..S /\ E \in Nat /\ DOMAIN EndIds = 1..E
  BY EdgesApart
<1>6. /\ \A path \in ToSet(paths) : \A id \in ToSet(Chains[path].methods) \ Edges :
           \E x \in 1..Len(ids) : ids[x] = id
      /\ \A y \in 1..Len(ids) : ids[y] \in DOMAIN Chains =>
           \A a \in Before(ids[y]) \ Edges : \E x \in 1..(y - 1) : ids[x] = a
  BY <1>4, MiddleIs
<1>7. /\ C \in Nat /\ S <= C /\ \A x \in 1..Len(ids) : place[x] \in (S + 1)..C
      /\ \A x, y \in 1..Len(ids) : x < y => place[x] < place[y]
  BY <1>2 DEF Spots
<1>8. Len(ids) \in Nat
  BY <1>4, MiddleTyped DEF IsSequence
<1> HIDE DEF ids, S, E
<1>9. /\ \A i \in 1..S : StartIds[i] = names[i]
      /\ \A i \in 1..E : EndIds[i] = names[C + i]
      /\ DOMAIN names = 1..Len(steps)
  <2>1. \A id, i : OnlyAt(steps, id, i) => names[i] = id
    BY <1>4 DEF OnlyAt, Step
  <2> HIDE DEF C, names
  <2>2. \A i \in 1..S : StartIds[i] = names[i]
    BY <1>3, <2>1
  <2>3. \A i \in 1..E : EndIds[i] = names[C + i]
    BY <1>3, <2>1
  <2> QED BY <1>4, <2>2, <2>3 DEF names
<1>10. ASSUME NEW path \in ToSet(paths), NEW id \in ToSet(Chains[path].methods)
       PROVE  Cardinality(From(id)) = 1
  <2>1. \E i : OnlyAt(steps, id, i)
    <3>1. CASE id \in ToSet(StartIds)
      BY <1>3, <1>5, <3>1 DEF ToSet
    <3>2. CASE id \in ToSet(EndIds)
      <4>1. PICK j \in 1..E : id = EndIds[j]
        BY <1>5, <3>2 DEF ToSet
      <4> HIDE DEF C
      <4> QED BY <1>3, <4>1
    <3>3. CASE id \notin Edges
      BY <1>3, <1>6, <3>3
    <3> QED BY <3>1, <3>2, <3>3 DEF Edges
  <2>2. PICK i : OnlyAt(steps, id, i)
    BY <2>1
  <2>3. \A k : k \in From(id) <=> k = i
    BY <1>4, <2>2 DEF OnlyAt, Step
  <2>4. From(id) = {i}
    <3> HIDE DEF From
    <3> QED BY <2>3
  <2> HIDE DEF From
  <2> QED BY <2>4, FS_Singleton
<1>11. ASSUME NEW k \in DOMAIN paths, NEW j \in 1 .. Chains[paths[k]].routeIndex - 1
       PROVE  Place(chain, Chains[paths[k]].methods[j])
              < Place(chain, Chains[paths[k]].methods[Chains[paths[k]].routeIndex])
  <2> DEFINE path == paths[k]
             own == Chains[path].methods
             at == Chains[path].routeIndex
  <2>1. path \in ToSet(paths) /\ path \in DOMAIN Chains
    BY DEF ToSet
  <2>2. path \notin Edges /\ at \in 1..Len(own) /\ own[at] = path /\ DOMAIN own = 1..Len(own) /\ Len(own) \in Nat
    BY <2>1, RouteIsOwn DEF IsSequence
  <2>3. path \in ToSet(own) /\ own[j] \in Before(path) /\ j \in 1..at
    <3>1. path \in ToSet(own)
      BY <2>2 DEF ToSet
    <3>2. own[j] \in Before(path)
      BY DEF Before
    <3>3. j \in 1..at
      BY <2>2
    <3> QED BY <3>1, <3>2, <3>3
  <2>4. own[j] \notin ToSet(EndIds)
    BY <2>1, <2>3, ChainsAssumption
  <2> HIDE DEF path, own, at
  <2>5. PICK y \in 1..Len(ids) : ids[y] = path
    BY <1>6, <2>1, <2>2, <2>3 DEF own
  <2>6. Place(chain, path) = place[y]
    BY <1>1, <1>3, <2>5, PlaceIs
  <2>7. CASE own[j] \in Edges
    <3>1. PICK i \in 1..S : own[j] = StartIds[i]
      BY <1>5, <2>4, <2>7 DEF Edges, ToSet
    <3>2. Place(chain, own[j]) = i
      BY <1>1, <1>3, <3>1, PlaceIs
    <3>3. i < place[y]
      BY <1>5, <1>7
    <3> QED BY <2>2, <2>6, <3>2, <3>3 DEF path, own, at
  <2>8. CASE own[j] \notin Edges
    <3>1. PICK x \in 1..(y - 1) : ids[x] = own[j]
      BY <1>6, <2>1, <2>3, <2>5, <2>8
    <3>2. x \in 1..Len(ids) /\ x < y
      BY <1>8
    <3>3. Place(chain, own[j]) = place[x]
      BY <1>1, <1>3, <3>1, <3>2, PlaceIs
    <3>4. place[x] < place[y]
      BY <1>7, <3>2
    <3> QED BY <2>2, <2>6, <3>3, <3>4 DEF path, own, at
  <2> QED BY <2>7, <2>8
<1> DEFINE L == Len(steps)
<1> DEFINE V == {names[k] : k \in 1..L}
<1>12. names \in Seq(V) /\ names = [k \in 1..L |-> names[k]] /\ Len(names) = L /\ L \in Nat /\ C = L - E /\ E <= L /\ S <= L
  BY <1>4, <1>5, <1>7, <1>9
<1> HIDE DEF names, L, V
<1>13. IsPrefix(StartIds, names)
  <2>1. StartIds \in Seq(ToSet(StartIds)) /\ names \in Seq(V)
    BY <1>12, SequenceAssumption, FlowsTyped DEF IsSequence
  <2>2. SubSeq(StartIds, 1, S) = SubSeq(names, 1, S)
    <3>1. S \in Nat /\ S <= Len(StartIds) /\ S <= Len(names)
      BY <1>5, <1>12 DEF S
    <3>2. \A i \in 1..S : StartIds[i] = names[i]
      BY <1>9
    <3> QED BY <2>1, <3>1, <3>2, SameBeginning
  <2> QED BY <1>12, <2>2 DEF IsPrefix, S
<1>14. IsSuffix(EndIds, names)
  <2> DEFINE a == Reverse(EndIds)
             b == Reverse(names)
  <2>1. a \in Seq(ToSet(EndIds)) /\ Len(a) = E /\ \A i \in 1..E : a[i] = EndIds[(E - i) + 1]
    <3> DEFINE U == ToSet(EndIds)
    <3>1. EndIds \in Seq(U) /\ Len(EndIds) = E
      BY SequenceAssumption, FlowsTyped DEF IsSequence, E
    <3> HIDE DEF U
    <3>2. Reverse(EndIds) \in Seq(U) /\ Len(Reverse(EndIds)) = E
          /\ \A i \in 1..E : Reverse(EndIds)[i] = EndIds[(E - i) + 1]
      BY <1>5, <3>1 DEF Reverse
    <3> QED BY <3>2 DEF U
  <2>2. b \in Seq(V) /\ Len(b) = L /\ \A i \in 1..L : b[i] = names[(L - i) + 1]
    <3>1. names \in Seq(V) /\ Len(names) = L /\ L \in Nat
      BY <1>12
    <3>2. Reverse(names) \in Seq(V) /\ Len(Reverse(names)) = L
          /\ \A i \in 1..L : Reverse(names)[i] = names[(L - i) + 1]
      BY <3>1 DEF Reverse
    <3> QED BY <3>2
  <2> HIDE DEF a, b
  <2>3. ASSUME NEW i \in 1..E PROVE a[i] = b[i]
    <3>1. (E - i) + 1 \in 1..E /\ C + ((E - i) + 1) = (L - i) + 1 /\ i \in 1..L
      BY <1>5, <1>12
    <3>2. EndIds[(E - i) + 1] = names[C + ((E - i) + 1)]
      <4> HIDE DEF C
      <4> QED BY <1>9, <3>1
    <3> QED BY <2>1, <2>2, <3>1, <3>2
  <2>4. SubSeq(a, 1, E) = SubSeq(b, 1, E)
    <3>1. E \in Nat /\ E <= Len(a) /\ E <= Len(b)
      BY <1>5, <1>12, <2>1, <2>2
    <3> QED BY <2>1, <2>2, <2>3, <3>1, SameBeginning
  <2>5. IsPrefix(a, b)
    <3>1. Len(a) <= Len(b)
      BY <1>12, <2>1, <2>2
    <3> QED BY <2>1, <2>4, <3>1 DEF IsPrefix
  <2> QED BY <2>5 DEF IsSuffix, a, b
<1>15. Ordered(paths, chain)
  BY <1>10, <1>11, <1>13, <1>14 DEF Ordered, names
<1> QED BY <1>15 DEF chain
-----------------------------------------------------------------------------
(* The flows that run *)

\* A flow runs the chain a reading of its query would be merged to now, while it runs.
FlowRun(run) ==
  run.query # None =>
    run.query \in Queries /\ \E flow \in Readings(run.query) : BuiltOf(flow, run.chain)

FlowInv == IInv /\ \A r \in Requests : FlowRun(runs[r])

\* The chain of a run is kept while what it was built from only grows.
LEMMA FlowKept ==
  ASSUME NEW run, FlowRun(run), registered \subseteq registered', Extends(mapMethods, mapMethods'),
         NEW new, (new.query = run.query /\ new.chain = run.chain) \/ new.query = None
  PROVE  FlowRun(new)'
<1>1. CASE new.query = None
  BY <1>1 DEF FlowRun
<1>2. CASE new.query = run.query /\ new.chain = run.chain /\ new.query # None
  <2>1. PICK query, chain : query = new.query /\ chain = new.chain
    OBVIOUS
  <2>2. PICK flow \in Readings(query) : BuiltOf(flow, chain)
    BY <1>2, <2>1 DEF FlowRun
  <2>3. BuiltOf(flow, chain)'
    BY <2>2, BuiltKept
  <2>4. BuiltOf(flow, new.chain)'
    BY <2>1, <2>3 DEF BuiltOf, Known, Fits, Made
  <2>5. query \in Queries
    BY <1>2, <2>1 DEF FlowRun
  <2> QED BY <2>1, <2>2, <2>4, <2>5 DEF FlowRun
<1> QED BY <1>1, <1>2

\* What a step of a request does to its run: it begins one, with a chain that is
\* current; it goes on with it; or it ends it.
LEMMA BeginsCurrent ==
  ASSUME IInv, NEW r \in Requests, NEW query \in Queries, NEW raw \in Raws, Begin(r, query, raw)
  PROVE  /\ \/ runs' = [runs EXCEPT ![r] = NoRun]
            \/ \E flow \in Readings(query) : \E chain, given :
                 /\ runs' = [runs EXCEPT ![r] = [NoRun EXCEPT !.query = query, !.chain = chain, !.given = given]]
                 /\ BuiltOf(flow, chain)'
         /\ registered' = registered /\ Extends(mapMethods, mapMethods')
<1> DEFINE reading == Reading(query, raw)
<1>1. ASSUME NEW given, Hit(r, query, given)
      PROVE  \E flow \in Readings(query) : \E chain :
               /\ runs' = [runs EXCEPT ![r] = [NoRun EXCEPT !.query = query, !.chain = chain, !.given = given]]
               /\ BuiltOf(flow, chain)'
  <2>1. query \in DOMAIN cache /\ StillCurrent(query) /\ UNCHANGED <<registered, mapMethods>>
    BY <1>1 DEF Hit, IInv, flowCaches
  <2>2. PICK chain : chain = cache[query]
    OBVIOUS
  <2>3. PICK flow \in Readings(query) : BuiltOf(flow, chain)
    BY <2>1, <2>2 DEF StillCurrent
  <2>4. Extends(mapMethods, mapMethods') /\ registered \subseteq registered'
    BY <2>1 DEF Extends
  <2>5. BuiltOf(flow, chain)'
    BY <2>3, <2>4, BuiltKept
  <2>6. runs' = [runs EXCEPT ![r] = [NoRun EXCEPT !.query = query, !.chain = chain, !.given = given]]
    BY <1>1, <2>2 DEF Hit, StartRun
  <2> QED BY <2>5, <2>6
<1>2. ASSUME NEW flow \in Readings(query), NEW given, Build(r, query, flow, given)
      PROVE  /\ \/ runs' = [runs EXCEPT ![r] = NoRun]
                \/ \E chain :
                     /\ runs' = [runs EXCEPT ![r] = [NoRun EXCEPT !.query = query, !.chain = chain, !.given = given]]
                     /\ BuiltOf(flow, chain)'
             /\ registered' = registered /\ Extends(mapMethods, mapMethods')
  <2>1. IsSequence(flow.mappings)
    BY FlowTyped
  <2>2. mapMethods' = Inserted(flow).methods /\ UNCHANGED registered /\ Known(flow)
    BY <1>2 DEF Build
  <2>3. /\ Extends(mapMethods, mapMethods')
        /\ Inserted(flow).ok => Fits(flow) /\ Made(flow, mapMethods')
    BY <2>1, <2>2, Built DEF IInv
  <2>4. CASE ~Inserted(flow).ok
    BY <1>2, <2>2, <2>3, <2>4 DEF Build, Refuse
  <2>5. CASE Inserted(flow).ok
    <3>1. PICK chain : chain = Merged(flow, mapMethods')
      OBVIOUS
    <3>2. runs' = [runs EXCEPT ![r] = [NoRun EXCEPT !.query = query, !.chain = chain, !.given = given]]
      BY <1>2, <2>2, <2>5, <3>1 DEF Build, StartRun
    <3>3. Known(flow)' /\ Fits(flow)'
      BY <2>2, <2>3, <2>5 DEF Known, Fits
    <3>4. BuiltOf(flow, chain)'
      BY <2>3, <2>5, <3>1, <3>3 DEF BuiltOf
    <3> QED BY <2>2, <2>3, <3>2, <3>4
  <2> QED BY <2>4, <2>5
<1>3. reading \in Readings(query)
  BY DEF Readings
<1>4. ASSUME NEW given, Hit(r, query, given) \/ RefuseQuery(r, query, reading)
      PROVE  registered' = registered /\ Extends(mapMethods, mapMethods')
  BY <1>4 DEF Hit, RefuseQuery, flowCaches, Extends
<1>5. RefuseQuery(r, query, reading) => runs' = [runs EXCEPT ![r] = NoRun]
  BY DEF RefuseQuery, Refuse
<1>6. \E given : Hit(r, query, given) \/ RefuseQuery(r, query, reading) \/ Build(r, query, reading, given)
  BY DEF Begin
<1> HIDE DEF reading
<1>7. PICK given : Hit(r, query, given) \/ RefuseQuery(r, query, reading) \/ Build(r, query, reading, given)
  BY <1>6
<1>8. CASE Hit(r, query, given)
  BY <1>1, <1>4, <1>8
<1>9. CASE RefuseQuery(r, query, reading)
  BY <1>4, <1>5, <1>9
<1>10. CASE Build(r, query, reading, given)
  BY <1>2, <1>3, <1>10
<1> QED BY <1>7, <1>8, <1>9, <1>10

\* How the chain of the query goes on; failing or with a parameter more.
GoesOn(run, new) ==
  \/ new.query = None
  \/ new.query = run.query /\ new.chain = run.chain

\* A step of a request leaves it its chain, if it does not end it.
LEMMA StepGoesOn ==
  ASSUME IInv, NEW r \in Requests, RequestStep(r)
  PROVE  /\ \E new : runs' = [runs EXCEPT ![r] = new] /\ GoesOn(runs[r], new)
         /\ UNCHANGED <<registered, mapMethods>>
<1> DEFINE run == runs[r]
<1>1. IsRun(run)
  BY DEF IInv, SoundRun
<1> DEFINE Ahead(with) == [with EXCEPT !.next = @ + 1]
<1>2. \A with : IsRun(with) => Ahead(with).query = with.query /\ Ahead(with).chain = with.chain
  BY DEF IsRun, IsFunctionOn, RunFields
<1>3. ASSUME NEW with, IsRun(with), with.query = run.query, with.chain = run.chain, Advance(r, with)
      PROVE  \E new : runs' = [runs EXCEPT ![r] = new] /\ GoesOn(run, new)
  <2>1. runs' = [runs EXCEPT ![r] = Ahead(with)]
    BY <1>3 DEF Advance
  <2>2. GoesOn(run, Ahead(with))
    BY <1>2, <1>3 DEF GoesOn
  <2> HIDE DEF Ahead, run
  <2> QED BY <2>1, <2>2
<1> HIDE DEF Ahead
<1>4. CASE Skip(r)
  BY <1>1, <1>3, <1>4 DEF Skip, flowCaches
<1>5. ASSUME NEW fails \in BOOLEAN, RunMethod(r, fails)
      PROVE  /\ \E new : runs' = [runs EXCEPT ![r] = new] /\ GoesOn(run, new)
             /\ UNCHANGED <<registered, mapMethods>>
  <2> DEFINE called == run.args \cup {p \in run.params : p.to = Method(r).id}
             with == [run EXCEPT !.args = called, !.hasErrors = @ \/ fails]
  <2>1. Advance(r, with) /\ UNCHANGED <<registered, mapMethods>>
    BY <1>5 DEF RunMethod, flowCaches
  <2> HIDE DEF called
  <2>2. IsRun(with)
    BY <1>1, RunUpdated
  <2>3. with.query = run.query /\ with.chain = run.chain
    BY <1>1 DEF IsRun, IsFunctionOn, RunFields
  <2> HIDE DEF with
  <2> QED BY <1>3, <2>1, <2>2, <2>3
<1>6. ASSUME NEW fails \in BOOLEAN, RunMapping(r, fails)
      PROVE  /\ \E new : runs' = [runs EXCEPT ![r] = new] /\ GoesOn(run, new)
             /\ UNCHANGED <<registered, mapMethods>>
  <2> DEFINE mapping == Method(r).mapping
             made == Replaced(run, Mapped(mapping, HasRun(r, mapping.fromId)))
             absent == [run EXCEPT !.hasErrors = TRUE, !.missing = TRUE]
             failed == [run EXCEPT !.hasErrors = TRUE]
             mapped == [run EXCEPT !.params = made]
  <2>1. UNCHANGED <<registered, mapMethods>>
    BY <1>6 DEF RunMapping, flowCaches
  <2>2. Advance(r, absent) \/ Advance(r, failed) \/ Advance(r, mapped)
    BY <1>6 DEF RunMapping
  <2> HIDE DEF made
  <2>3. IsRun(absent) /\ IsRun(failed) /\ IsRun(mapped)
    BY <1>1, RunUpdated
  <2>4. /\ absent.query = run.query /\ absent.chain = run.chain
        /\ failed.query = run.query /\ failed.chain = run.chain
        /\ mapped.query = run.query /\ mapped.chain = run.chain
    BY <1>1 DEF IsRun, IsFunctionOn, RunFields
  <2> HIDE DEF absent, failed, mapped
  <2> QED BY <1>3, <2>1, <2>2, <2>3, <2>4
<1>7. CASE Finish(r)
  <2>1. runs' = [runs EXCEPT ![r] = NoRun] /\ UNCHANGED <<registered, mapMethods>>
    BY <1>7 DEF Finish, flowCaches
  <2>2. GoesOn(run, NoRun)
    BY NoRunIs DEF GoesOn
  <2> QED BY <2>1, <2>2
<1> QED BY <1>4, <1>5, <1>6, <1>7 DEF RequestStep

\* What the program around the requests does to the caches: it leaves them, or clears
\* them when there is no request in flight.
LEMMA AroundKeeps ==
  ASSUME IInv, [Next]_vars
  PROVE  \/ \E r \in Requests, q \in Queries, raw \in Raws : Begin(r, q, raw)
         \/ \E r \in Requests : RequestStep(r)
         \/ registered \subseteq registered' /\ UNCHANGED <<mapMethods, runs>>
         \/ (\A r \in Requests : runs[r] = NoRun) /\ mapMethods' = <<>> /\ UNCHANGED runs
BY DEF Next, vars, flowCaches, lanes, RegisterRoute, RegisterPureFn, AllowServerMapper,
       RegisterServerMapperTuple, Harvest, InstallServerMapperReader, ResetRouter, ClearRoutesFlowCache

\* No flow runs at first.
LEMMA FlowInit ==
  ASSUME Init
  PROVE  FlowInv
<1>1. \A r \in Requests : runs[r].query = None
  BY NoRunIs DEF Init
<1> QED BY <1>1, IInit DEF FlowInv, FlowRun

\* Every step keeps the chains of the flows current.
LEMMA FlowStep ==
  ASSUME FlowInv, [Next]_vars
  PROVE  FlowInv'
<1>1. IInv /\ IInv'
  BY IStep DEF FlowInv
<1>2. DOMAIN runs = Requests
  BY <1>1 DEF IInv, IsFunctionOn
<1>3. ASSUME NEW r \in Requests, NEW new, runs' = [runs EXCEPT ![r] = new], FlowRun(new)',
             registered \subseteq registered', Extends(mapMethods, mapMethods')
      PROVE  \A s \in Requests : FlowRun(runs[s])'
  <2> SUFFICES ASSUME NEW s \in Requests PROVE FlowRun(runs[s])'
    OBVIOUS
  <2>1. CASE s = r
    <3>1. runs'[s] = new
      BY <1>2, <1>3, <2>1
    <3> QED BY <1>3, <3>1 DEF FlowRun, BuiltOf, Known, Fits, Made
  <2>2. CASE s # r
    <3>1. runs'[s] = runs[s]
      BY <1>2, <1>3, <2>2
    <3> DEFINE run == runs[s]
    <3>2. FlowRun(run)
      BY DEF FlowInv
    <3> HIDE DEF run
    <3>3. PICK other : other = run
      OBVIOUS
    <3>4. FlowRun(other)'
      BY <1>3, <3>2, <3>3, FlowKept
    <3>5. runs'[s] = other
      BY <3>1, <3>3 DEF run
    <3> QED BY <3>4, <3>5 DEF FlowRun, BuiltOf, Known, Fits, Made
  <2> QED BY <2>1, <2>2
<1>4. ASSUME NEW r \in Requests, NEW q \in Queries, NEW raw \in Raws, Begin(r, q, raw)
      PROVE  \A s \in Requests : FlowRun(runs[s])'
  <2>1. registered' = registered /\ Extends(mapMethods, mapMethods')
    BY <1>1, <1>4, BeginsCurrent
  <2>2. CASE runs' = [runs EXCEPT ![r] = NoRun]
    <3>1. FlowRun(NoRun)'
      BY NoRunIs DEF FlowRun
    <3> QED BY <1>3, <2>1, <2>2, <3>1
  <2>3. ASSUME NEW flow \in Readings(q), NEW chain, NEW given, BuiltOf(flow, chain)',
               runs' = [runs EXCEPT ![r] = [NoRun EXCEPT !.query = q, !.chain = chain, !.given = given]]
        PROVE  \A s \in Requests : FlowRun(runs[s])'
    <3> DEFINE new == [NoRun EXCEPT !.query = q, !.chain = chain, !.given = given]
    <3>1. new.query = q /\ new.chain = chain
      BY NoRunIs DEF IsRun, IsFunctionOn, RunFields
    <3>2. runs' = [runs EXCEPT ![r] = new]
      BY <2>3
    <3> HIDE DEF new
    <3>3. BuiltOf(flow, new.chain)'
      BY <2>3, <3>1 DEF BuiltOf, Known, Fits, Made
    <3>4. FlowRun(new)'
      BY <3>1, <3>3 DEF FlowRun
    <3> QED BY <1>3, <2>1, <3>2, <3>4
  <2>4. \/ runs' = [runs EXCEPT ![r] = NoRun]
        \/ \E flow \in Readings(q) : \E chain, given :
             /\ runs' = [runs EXCEPT ![r] = [NoRun EXCEPT !.query = q, !.chain = chain, !.given = given]]
             /\ BuiltOf(flow, chain)'
    BY <1>1, <1>4, BeginsCurrent
  <2> HIDE DEF FlowInv
  <2> QED BY <2>2, <2>3, <2>4
<1>5. Extends(mapMethods, mapMethods)
  BY DEF Extends
<1>6. ASSUME NEW r \in Requests, RequestStep(r) PROVE \A s \in Requests : FlowRun(runs[s])'
  <2>1. UNCHANGED <<registered, mapMethods>> /\ \E new : runs' = [runs EXCEPT ![r] = new] /\ GoesOn(runs[r], new)
    BY <1>1, <1>6, StepGoesOn
  <2>2. PICK new : runs' = [runs EXCEPT ![r] = new] /\ GoesOn(runs[r], new)
    BY <2>1
  <2>3. PICK run : run = runs[r]
    OBVIOUS
  <2>4. FlowRun(run) /\ ((new.query = run.query /\ new.chain = run.chain) \/ new.query = None)
    BY <2>2, <2>3 DEF FlowInv, GoesOn
  <2>5. registered \subseteq registered' /\ Extends(mapMethods, mapMethods')
    BY <1>5, <2>1
  <2>6. FlowRun(new)'
    BY <2>4, <2>5, FlowKept
  <2> QED BY <1>3, <2>2, <2>5, <2>6
<1>7. CASE registered \subseteq registered' /\ UNCHANGED <<mapMethods, runs>>
  <2>1. ASSUME NEW s \in Requests PROVE FlowRun(runs[s])'
    <3>1. PICK run : run = runs[s]
      OBVIOUS
    <3>2. FlowRun(run) /\ Extends(mapMethods, mapMethods')
      BY <1>5, <1>7, <3>1 DEF FlowInv
    <3>3. FlowRun(run)'
      BY <1>7, <3>2, FlowKept
    <3>4. runs'[s] = run
      BY <1>7, <3>1
    <3> QED BY <3>3, <3>4 DEF FlowRun, BuiltOf, Known, Fits, Made
  <2> QED BY <1>1, <2>1 DEF FlowInv
<1>8. CASE (\A r \in Requests : runs[r] = NoRun) /\ UNCHANGED runs
  <2>1. ASSUME NEW s \in Requests PROVE FlowRun(runs[s])'
    <3>1. runs'[s] = NoRun /\ NoRun.query = None
      BY <1>8, NoRunIs
    <3>2. runs'[s].query = None
      BY <3>1
    <3> QED BY <3>2 DEF FlowRun
  <2> QED BY <1>1, <2>1 DEF FlowInv
<1> QED BY <1>1, <1>4, <1>6, <1>7, <1>8, AroundKeeps DEF FlowInv

\* Whatever the routes of a query have in common, and whether its chain is new or
\* cached: each of its routes runs once, behind its own middleFns, between the start
\* and the end middleFns.
THEOREM FlowsInOrder == Spec => []MethodsInOrder
<1>1. ASSUME FlowInv, NEW r \in Requests, Running(r)
      PROVE  \E flow \in Readings(runs[r].query) : Ordered(flow.routes, runs[r].chain)
  <2>1. runs[r].query \in Queries /\ \E flow \in Readings(runs[r].query) : BuiltOf(flow, runs[r].chain)
    BY <1>1 DEF FlowInv, Running, FlowRun
  <2>2. PICK flow \in Readings(runs[r].query) : BuiltOf(flow, runs[r].chain)
    BY <2>1
  <2>3. flow \in Flows /\ ToSet(flow.routes) \subseteq DOMAIN Chains
    BY <1>1, <2>1, <2>2, FlowTyped DEF BuiltOf, Known, FlowInv, IInv
  <2> QED BY <2>2, <2>3, MergedOrdered DEF BuiltOf
<1>2. FlowInv => MethodsInOrder
  BY <1>1 DEF MethodsInOrder
<1>3. Init => FlowInv
  BY FlowInit
<1>4. FlowInv /\ [Next]_vars => FlowInv'
  BY FlowStep
<1> QED BY <1>2, <1>3, <1>4, PTL DEF Spec
-----------------------------------------------------------------------------
(* The mappers of a flow *)

\* The mappings some query may have made a method for.
Serves(query) == ToSet(query.routes) \subseteq DOMAIN Chains
FittingMappings ==
  {m \in UNION {ToSet(q.mappings) : q \in Flows} :
     \E q \in Flows : Serves(q) /\ m \in ToSet(q.mappings) /\ MappingFits(m, MiddleIds(q.routes))}

\* The clients' queries name no two mappings that differ in nothing but the parameter
\* (their method would be one and the same), and none puts two into one parameter.
MappingsApart ==
  /\ \A l, m \in FittingMappings : MethodId(l) = MethodId(m) => l = m
  /\ \A q \in Flows : Serves(q) /\ Fits(q) =>
       \A l, m \in ToSet(q.mappings) : <<l.toId, l.paramIndex>> = <<m.toId, m.paramIndex>> => l = m

\* Every mapping method was made for a mapping of some query.
Sourced(methods) == \A id \in DOMAIN methods : methods[id] \in FittingMappings

\* A merged chain calls each of its query's mappers for the mapping the query names:
\* behind its source and, if that comes first, before its target.
HasMapping(steps, mapping) ==
  \A i, j \in 1..Len(steps) : i < j /\ steps[i] = Step(mapping.fromId) /\ steps[j] = Step(mapping.toId) =>
    \E k \in (i + 1)..(j - 1) : steps[k].mapping = mapping
MapsAsAsked(steps, mappings) ==
  /\ \A m \in ToSet(mappings) : HasMapping(steps, m)
  /\ \A i \in 1..Len(steps) : steps[i].mapping # None =>
       steps[i].mapping \in ToSet(mappings) /\ \E j \in 1..(i - 1) : steps[j] = Step(steps[i].mapping.fromId)

\* What has been put into a run's parameters, and taken from them, so far.
Applied(run) ==
  run.query # None /\ ~run.hasErrors =>
    LET steps == run.chain.methods
        mappings == ToSet(run.query.mappings)
    IN /\ \A p \in run.params : \E m \in mappings : p = Mapped(m, TRUE)
       /\ \A i \in 1..(run.next - 1) : steps[i].mapping # None /\ steps[i].mapping.toId \in run.given
            => Mapped(steps[i].mapping, TRUE) \in run.params
       /\ \A i \in 1..(run.next - 1) : \A m \in mappings :
            steps[i] = Step(m.toId) /\ m.toId \in run.given /\ (\E j \in 1..(i - 1) : steps[j] = Step(m.fromId))
            => Mapped(m, TRUE) \in run.args

AppliedInv == FlowInv /\ Sourced(mapMethods) /\ \A r \in Requests : Applied(runs[r])

\* A step for a mapping that has no method yet makes one for it.
LEMMA MethodForSourced ==
  ASSUME NEW methods, Sourced(methods), NEW mapping \in FittingMappings
  PROVE  Sourced(MethodFor(mapping, methods))
BY DEF Sourced, MethodFor

\* The loop makes methods for the mappings of its query, and for no others.
LEMMA InsertedSourced ==
  ASSUME IInv, Sourced(mapMethods), NEW query \in Flows, Serves(query)
  PROVE  Sourced(Inserted(query).methods)
<1> DEFINE all == query.mappings
           base == [ok |-> TRUE, ids |-> MiddleIds(query.routes), mappers |-> mappers, methods |-> mapMethods]
<1>1. all \in Seq(ToSet(all)) /\ Len(all) \in Nat /\ DOMAIN all = 1..Len(all) /\ IsSequence(all)
  BY SequenceAssumption, FlowsTyped DEF IsSequence
<1>2. PICK run : /\ run[0] = base
                 /\ \A n \in 1..Len(all) : run[n] = Insertion(run[n - 1], all[n])
                 /\ Inserting!Fold(base, all) = run[Len(all)]
  <2> HIDE DEF base, all
  <2> QED BY <1>1, Inserting!FoldLeftRuns
<1>3. Inserted(query) = Inserting!Fold(base, all)
  BY DEF Inserted, Inserting!Fold, FoldLeft, Inserting!FoldLeft, MapThenFoldSet, Inserting!MapThenFoldSet,
         Max, Inserting!Max
<1>4. \A n \in 1..Len(all) : MappingFits(all[n], MiddleIds(query.routes)) => all[n] \in FittingMappings
  BY <1>1 DEF FittingMappings, ToSet
<1> DEFINE SoFar(s) == IsInsertion(s) /\ s.ids = MiddleIds(query.routes) /\ Sourced(s.methods)
           H == {n \in Nat : n <= Len(all) => SoFar(run[n])}
<1>5. 0 \in H
  <2>1. IsInsertion(base) /\ base.ids = MiddleIds(query.routes) /\ base.methods = mapMethods
    BY DEF IsInsertion
  <2> HIDE DEF base
  <2>2. SoFar(run[0])
    BY <1>2, <2>1
  <2> HIDE DEF SoFar
  <2> QED BY <2>2
<1> HIDE DEF base, all
<1>6. ASSUME NEW s, SoFar(s), NEW mapping, MappingFits(mapping, MiddleIds(query.routes)) => mapping \in FittingMappings
      PROVE  SoFar(Insertion(s, mapping))
  <2> DEFINE t == Insertion(s, mapping)
  <2>1. CASE ~s.ok \/ ~MappingFits(mapping, s.ids)
    <3>1. t = [s EXCEPT !.ok = FALSE]
      BY <2>1 DEF Insertion
    <3>2. IsInsertion(t) /\ t.ids = s.ids /\ t.methods = s.methods
      BY <1>6, <3>1 DEF IsInsertion
    <3> HIDE DEF t
    <3>3. SoFar(t)
      BY <1>6, <3>2
    <3> QED BY <3>3 DEF t
  <2>2. CASE s.ok /\ MappingFits(mapping, s.ids)
    <3> DEFINE read == Reread(mapping.bodyHash, s.mappers)
               has == HasServerMapper(mapping.bodyHash, s.mappers)
               made == IF has THEN MethodFor(mapping, s.methods) ELSE s.methods
    <3>1. t = [s EXCEPT !.mappers = read, !.ok = has, !.methods = made]
      BY <2>2 DEF Insertion
    <3>2. Sourced(made)
      BY <1>6, <2>2, MethodForSourced
    <3> HIDE DEF read, has, made
    <3>3. IsInsertion(t) /\ t.ids = s.ids /\ t.methods = made
      BY <1>6, <3>1 DEF IsInsertion
    <3> HIDE DEF t
    <3>4. SoFar(t)
      BY <1>6, <3>2, <3>3
    <3> QED BY <3>4 DEF t
  <2> QED BY <2>1, <2>2
<1>7. ASSUME NEW n \in H PROVE n + 1 \in H
  <2>1. CASE n + 1 <= Len(all)
    <3>1. SoFar(run[n]) /\ n + 1 \in 1..Len(all) /\ (n + 1) - 1 = n
      BY <1>1, <2>1
    <3>2. run[n + 1] = Insertion(run[n], all[n + 1])
      BY <1>2, <3>1
    <3> HIDE DEF SoFar
    <3>3. SoFar(run[n + 1])
      BY <1>4, <1>6, <3>1, <3>2
    <3> QED BY <3>3
  <2>2. CASE ~ (n + 1 <= Len(all))
    BY <2>2
  <2> QED BY <2>1, <2>2
<1>8. Len(all) \in H
  <2> HIDE DEF H
  <2>1. H \in SUBSET Nat
    BY DEF H
  <2> QED BY <1>1, <1>5, <1>7, <2>1, Adding!Induction
<1>9. SoFar(run[Len(all)])
  BY <1>1, <1>8
<1> QED BY <1>2, <1>3, <1>9 DEF all

\* Every step leaves the mapping methods sourced.
LEMMA SourcedStep ==
  ASSUME IInv, Sourced(mapMethods), [Next]_vars
  PROVE  Sourced(mapMethods')
<1>1. ASSUME NEW r \in Requests, NEW q \in Queries, NEW flow \in Readings(q), NEW given, Build(r, q, flow, given)
      PROVE  Sourced(mapMethods')
  <2>1. Serves(flow) /\ mapMethods' = Inserted(flow).methods
    BY <1>1 DEF Build, Known, IInv, Serves
  <2> QED BY <2>1, FlowTyped, InsertedSourced
<1>2. ASSUME NEW r \in Requests, NEW q \in Queries, NEW raw \in Raws, Begin(r, q, raw) PROVE Sourced(mapMethods')
  <2>1. Reading(q, raw) \in Readings(q)
    BY DEF Readings
  <2> QED BY <1>1, <1>2, <2>1 DEF Begin, Hit, RefuseQuery, flowCaches
<1>3. CASE mapMethods' = mapMethods
  BY <1>3
<1>4. CASE mapMethods' = <<>>
  BY <1>4 DEF Sourced
<1>5. ASSUME NEW r \in Requests, RequestStep(r) PROVE mapMethods' = mapMethods
  BY <1>5, StepGoesOn
<1> QED BY <1>2, <1>3, <1>4, <1>5, AroundKeeps

\* A method that is filed under the id of a mapping was made for that mapping.
LEMMA MethodIsAsked ==
  ASSUME MappingsApart, IInv, Sourced(mapMethods), NEW query \in Flows, Serves(query), Fits(query),
         Made(query, mapMethods), NEW k \in DOMAIN query.mappings
  PROVE  mapMethods[MethodId(query.mappings[k])] = query.mappings[k]
<1> DEFINE mapping == query.mappings[k]
           made == mapMethods[MethodId(mapping)]
<1>1. mapping \in FittingMappings
  BY DEF Fits, FittingMappings, ToSet
<1>2. made \in FittingMappings /\ MethodId(made) = MethodId(mapping)
  BY DEF Made, Sourced, IInv, Filed
<1> HIDE DEF made, mapping
<1>3. made = mapping
  BY <1>1, <1>2 DEF MappingsApart
<1> QED BY <1>3 DEF made, mapping

\* So a merged chain maps what its query asks for.
LEMMA MergedMaps ==
  ASSUME MappingsApart, IInv, Sourced(mapMethods), NEW query \in Flows, Serves(query), Fits(query),
         Made(query, mapMethods)
  PROVE  MapsAsAsked(Merged(query, mapMethods).methods, query.mappings)
<1> DEFINE steps == Merged(query, mapMethods).methods
           mappings == query.mappings
           ids == MiddleIds(query.routes)
           S == Len(StartIds)
           E == Len(EndIds)
           C == Len(steps) - E
           N == Len(ids)
<1>1. IsSequence(steps) /\ \E place : Spots(place, query, mapMethods, steps)
  BY MergedSpots DEF Serves
<1>2. PICK place : Spots(place, query, mapMethods, steps)
  BY <1>1
<1>3. \A x \in 1..N : OnlyAt(steps, ids[x], place[x])
  BY <1>1, <1>2, CalledOnce DEF Serves
<1>4. IsSequence(mappings) /\ IsSequence(ids)
  BY SequenceAssumption, FlowsTyped, MiddleTyped DEF Serves
<1>5. \A k \in DOMAIN mappings : MappingStep(mappings[k], mapMethods) = [id |-> "mapping", mapping |-> mappings[k]]
  BY MethodIsAsked DEF MappingStep
<1>6. S \in Nat /\ E \in Nat
  BY EdgesApart
<1>7. Len(steps) \in Nat /\ N \in Nat /\ DOMAIN ids = 1..N
  BY <1>1, <1>4 DEF IsSequence
<1>8. \A k \in DOMAIN mappings : {mappings[k].fromId, mappings[k].toId} \subseteq ToSet(ids)
  BY DEF Fits, MappingFits
<1> HIDE DEF steps
<1>9. /\ C \in Nat /\ S <= C /\ C + E = Len(steps)
      /\ \A i \in 1..S : steps[i] = Step(StartIds[i])
      /\ \A i \in 1..E : steps[C + i] = Step(EndIds[i])
      /\ \A x \in 1..N : place[x] \in (S + 1)..C /\ steps[place[x]] = Step(ids[x])
      /\ \A x, y \in 1..N : x < y => place[x] < place[y]
      /\ \A i \in (S + 1)..C :
           \/ \E x \in 1..N : i = place[x]
           \/ \E x \in 1..N : place[x] < i /\ IsMapper(steps[i], ids[x], mappings, mapMethods)
      /\ \A x \in 1..N, k \in DOMAIN mappings : mappings[k].fromId = ids[x] =>
           \E i \in (place[x] + 1)..C : /\ steps[i] = MappingStep(mappings[k], mapMethods)
                                        /\ \A y \in 1..N : x < y => i < place[y]
  BY <1>2, <1>6, <1>7 DEF Spots
<1> HIDE DEF mappings, ids, S, E, C, N
<1>10. \A id : Step(id).id = id /\ Step(id).mapping = None
  BY DEF Step
<1>11. ASSUME NEW k \in DOMAIN mappings PROVE HasMapping(steps, mappings[k])
  <2> SUFFICES ASSUME NEW i \in 1..Len(steps), NEW j \in 1..Len(steps), i < j,
                      steps[i] = Step(mappings[k].fromId), steps[j] = Step(mappings[k].toId)
               PROVE  \E n \in (i + 1)..(j - 1) : steps[n].mapping = mappings[k]
    BY DEF HasMapping
  <2>1. PICK x \in 1..N : ids[x] = mappings[k].fromId
    BY <1>7, <1>8 DEF ToSet
  <2>2. PICK y \in 1..N : ids[y] = mappings[k].toId
    BY <1>7, <1>8 DEF ToSet
  <2>3. i = place[x] /\ j = place[y]
    BY <1>3, <1>10, <2>1, <2>2 DEF OnlyAt
  <2>4. x < y
    <3>1. CASE x = y
      BY <2>3, <3>1
    <3>2. CASE y < x
      <4>1. j < i
        BY <1>9, <2>3, <3>2
      <4> QED BY <4>1
    <3> QED BY <1>7, <3>1, <3>2
  <2>5. PICK n \in (place[x] + 1)..C :
          steps[n] = MappingStep(mappings[k], mapMethods) /\ \A z \in 1..N : x < z => n < place[z]
    BY <1>9, <2>1
  <2>6. n < place[y]
    BY <2>4, <2>5
  <2>7. n \in (i + 1)..(j - 1)
    BY <1>9, <2>3, <2>6
  <2>8. steps[n].mapping = mappings[k]
    BY <1>5, <2>5
  <2> QED BY <2>7, <2>8
<1>12. ASSUME NEW i \in 1..Len(steps), steps[i].mapping # None
       PROVE  \E k \in DOMAIN mappings : /\ steps[i].mapping = mappings[k]
                                         /\ \E j \in 1..(i - 1) : steps[j] = Step(mappings[k].fromId)
  <2>1. i \in (S + 1)..C
    <3>1. i \notin 1..S
      BY <1>9, <1>10, <1>12
    <3>2. ~ (i > C)
      <4>1. ASSUME i > C PROVE FALSE
        <5>1. i - C \in 1..E /\ i = C + (i - C)
          BY <1>6, <1>7, <1>9, <4>1
        <5>2. steps[C + (i - C)] = Step(EndIds[i - C])
          BY <1>9, <5>1
        <5> QED BY <1>10, <1>12, <5>1, <5>2
      <4> QED BY <4>1
    <3> QED BY <1>6, <1>7, <1>9, <3>1, <3>2
  <2>2. ~ \E x \in 1..N : i = place[x]
    BY <1>9, <1>10, <1>12
  <2>3. PICK x \in 1..N : place[x] < i /\ IsMapper(steps[i], ids[x], mappings, mapMethods)
    BY <1>9, <2>1, <2>2
  <2>4. PICK k \in DOMAIN mappings : mappings[k].fromId = ids[x] /\ steps[i] = MappingStep(mappings[k], mapMethods)
    BY <2>3 DEF IsMapper
  <2>5. steps[i].mapping = mappings[k]
    BY <1>5, <2>4
  <2>6. place[x] \in 1..(i - 1) /\ steps[place[x]] = Step(mappings[k].fromId)
    BY <1>6, <1>9, <2>3, <2>4
  <2> QED BY <2>5, <2>6
<1>13. \A m \in ToSet(mappings) : \E k \in DOMAIN mappings : m = mappings[k]
  BY DEF ToSet
<1>14. \A k \in DOMAIN mappings : mappings[k] \in ToSet(mappings)
  BY DEF ToSet
<1>15. MapsAsAsked(steps, mappings)
  <2>1. \A m \in ToSet(mappings) : HasMapping(steps, m)
    BY <1>11, <1>13
  <2>2. ASSUME NEW i \in 1..Len(steps), steps[i].mapping # None
        PROVE  steps[i].mapping \in ToSet(mappings) /\ \E j \in 1..(i - 1) : steps[j] = Step(steps[i].mapping.fromId)
    <3>1. PICK k \in DOMAIN mappings : /\ steps[i].mapping = mappings[k]
                                       /\ \E j \in 1..(i - 1) : steps[j] = Step(mappings[k].fromId)
      BY <1>12, <2>2
    <3> QED BY <1>14, <3>1
  <2> QED BY <2>1, <2>2 DEF MapsAsAsked
<1> QED BY <1>15 DEF steps, mappings

\* A route or middleFn takes what has been put into its parameters.
LEMMA MethodApplied ==
  ASSUME NEW run, Applied(run), run.query # None, run.next \in 1..Len(run.chain.methods), Len(run.chain.methods) \in Nat,
         MapsAsAsked(run.chain.methods, run.query.mappings), None \notin ToSet(run.query.mappings),
         run.chain.methods[run.next].mapping = None,
         NEW new, new.query = run.query, new.chain = run.chain, new.given = run.given, new.next = run.next + 1, new.params = run.params,
         new.args = run.args \cup {p \in run.params : p.to = run.chain.methods[run.next].id},
         ~new.hasErrors => ~run.hasErrors
  PROVE  Applied(new)
<1> DEFINE steps == run.chain.methods
           mappings == ToSet(run.query.mappings)
           n == run.next
<1>1. CASE new.hasErrors
  BY <1>1 DEF Applied
<1>2. CASE ~new.hasErrors
  <2>1. /\ \A p \in run.params : \E m \in mappings : p = Mapped(m, TRUE)
        /\ \A i \in 1..(n - 1) : steps[i].mapping # None /\ steps[i].mapping.toId \in run.given
             => Mapped(steps[i].mapping, TRUE) \in run.params
        /\ \A i \in 1..(n - 1) : \A m \in mappings :
             steps[i] = Step(m.toId) /\ m.toId \in run.given /\ (\E j \in 1..(i - 1) : steps[j] = Step(m.fromId))
             => Mapped(m, TRUE) \in run.args
    BY <1>2 DEF Applied
  <2>2. n \in 1..Len(steps) /\ Len(steps) \in Nat /\ \A i \in 1..((n + 1) - 1) : i \in 1..(n - 1) \/ i = n
    OBVIOUS
  <2>3. \A m \in mappings : HasMapping(steps, m)
    BY DEF MapsAsAsked
  <2>4. steps[n].mapping = None /\ new.args = run.args \cup {p \in run.params : p.to = steps[n].id}
        /\ None \notin mappings
    OBVIOUS
  <2> HIDE DEF steps, mappings, n
  <2>5. \A i \in 1..((n + 1) - 1) : steps[i].mapping # None /\ steps[i].mapping.toId \in run.given
          => Mapped(steps[i].mapping, TRUE) \in run.params
    BY <2>1, <2>2, <2>4
  <2>6. ASSUME NEW i \in 1..((n + 1) - 1), NEW m \in mappings, steps[i] = Step(m.toId), m.toId \in run.given,
               \E j \in 1..(i - 1) : steps[j] = Step(m.fromId)
        PROVE  Mapped(m, TRUE) \in new.args
    <3>1. CASE i \in 1..(n - 1)
      BY <2>1, <2>4, <2>6, <3>1
    <3>2. CASE i = n
      <4>1. PICK j \in 1..(n - 1) : steps[j] = Step(m.fromId)
        BY <2>6, <3>2
      <4>2. j \in 1..Len(steps) /\ j < n
        BY <2>2
      <4>3. PICK k \in (j + 1)..(n - 1) : steps[k].mapping = m
        BY <2>2, <2>3, <2>6, <3>2, <4>1, <4>2 DEF HasMapping
      <4>4. k \in 1..(n - 1) /\ steps[k].mapping # None
        BY <2>2, <2>4, <4>3
      <4>5. Mapped(m, TRUE) \in run.params
        BY <2>1, <2>6, <4>3, <4>4
      <4>6. Mapped(m, TRUE).to = steps[n].id
        BY <2>6, <3>2 DEF Mapped, Step
      <4> QED BY <2>4, <4>5, <4>6
    <3> QED BY <2>2, <3>1, <3>2
  <2>7. /\ \A p \in new.params : \E m \in ToSet(new.query.mappings) : p = Mapped(m, TRUE)
        /\ \A i \in 1..(new.next - 1) :
             new.chain.methods[i].mapping # None /\ new.chain.methods[i].mapping.toId \in new.given
             => Mapped(new.chain.methods[i].mapping, TRUE) \in new.params
        /\ \A i \in 1..(new.next - 1) : \A m \in ToSet(new.query.mappings) :
             new.chain.methods[i] = Step(m.toId) /\ m.toId \in new.given /\ (\E j \in 1..(i - 1) : new.chain.methods[j] = Step(m.fromId))
             => Mapped(m, TRUE) \in new.args
    BY <2>1, <2>5, <2>6 DEF steps, mappings, n
  <2> QED BY <2>7 DEF Applied
<1> QED BY <1>1, <1>2

\* A mapper replaces nothing but what it has itself put there.
LEMMA MapperApplied ==
  ASSUME NEW run, Applied(run), run.query # None, ~run.hasErrors,
         run.next \in 1..Len(run.chain.methods), Len(run.chain.methods) \in Nat,
         NEW mapping, mapping \in ToSet(run.query.mappings), run.chain.methods[run.next].mapping = mapping, mapping # None,
         \A l, m \in ToSet(run.query.mappings) : <<l.toId, l.paramIndex>> = <<m.toId, m.paramIndex>> => l = m,
         \A id : run.chain.methods[run.next] # Step(id),
         NEW new, new.query = run.query, new.chain = run.chain, new.given = run.given, new.next = run.next + 1, new.args = run.args,
         new.params = Replaced(run, Mapped(mapping, TRUE))
  PROVE  Applied(new)
<1> DEFINE steps == run.chain.methods
           mappings == ToSet(run.query.mappings)
           n == run.next
           param == Mapped(mapping, TRUE)
<1>1. /\ \A p \in run.params : \E m \in mappings : p = Mapped(m, TRUE)
      /\ \A i \in 1..(n - 1) : steps[i].mapping # None /\ steps[i].mapping.toId \in run.given
             => Mapped(steps[i].mapping, TRUE) \in run.params
      /\ \A i \in 1..(n - 1) : \A m \in mappings :
           steps[i] = Step(m.toId) /\ m.toId \in run.given /\ (\E j \in 1..(i - 1) : steps[j] = Step(m.fromId))
           => Mapped(m, TRUE) \in run.args
  BY DEF Applied
<1>2. n \in 1..Len(steps) /\ Len(steps) \in Nat /\ \A i \in 1..((n + 1) - 1) : i \in 1..(n - 1) \/ i = n
  OBVIOUS
<1>3. /\ mapping \in mappings /\ steps[n].mapping = mapping /\ \A id : steps[n] # Step(id)
      /\ \A l, m \in mappings : <<l.toId, l.paramIndex>> = <<m.toId, m.paramIndex>> => l = m
      /\ new.params = Replaced(run, param)
  OBVIOUS
<1>4. \A m : Mapped(m, TRUE).to = m.toId /\ Mapped(m, TRUE).index = m.paramIndex
  BY DEF Mapped
<1> HIDE DEF steps, mappings, n
<1>5. ASSUME NEW p \in run.params PROVE p \in new.params
  <2>1. CASE <<p.to, p.index>> # <<param.to, param.index>>
    BY <1>3, <2>1 DEF Replaced
  <2>2. CASE <<p.to, p.index>> = <<param.to, param.index>>
    <3>1. PICK m \in mappings : p = Mapped(m, TRUE)
      BY <1>1
    <3>2. <<m.toId, m.paramIndex>> = <<mapping.toId, mapping.paramIndex>>
      BY <1>4, <2>2, <3>1
    <3>3. p = param
      BY <1>3, <3>1, <3>2
    <3> QED BY <1>3, <3>3 DEF Replaced
  <2> QED BY <2>1, <2>2
<1>6. mapping.toId \in run.given => param \in new.params
  BY <1>3, <1>4 DEF Replaced, param
<1>7. \A p \in new.params : \E m \in mappings : p = Mapped(m, TRUE)
  BY <1>1, <1>3 DEF Replaced
<1>8. \A i \in 1..((n + 1) - 1) : steps[i].mapping # None /\ steps[i].mapping.toId \in run.given
          => Mapped(steps[i].mapping, TRUE) \in new.params
  BY <1>1, <1>2, <1>3, <1>5, <1>6
<1>9. \A i \in 1..((n + 1) - 1) : \A m \in mappings :
        steps[i] = Step(m.toId) /\ m.toId \in run.given /\ (\E j \in 1..(i - 1) : steps[j] = Step(m.fromId))
        => Mapped(m, TRUE) \in run.args
  BY <1>1, <1>2, <1>3
<1>10. /\ \A p \in new.params : \E m \in ToSet(new.query.mappings) : p = Mapped(m, TRUE)
       /\ \A i \in 1..(new.next - 1) :
            new.chain.methods[i].mapping # None /\ new.chain.methods[i].mapping.toId \in new.given
             => Mapped(new.chain.methods[i].mapping, TRUE) \in new.params
       /\ \A i \in 1..(new.next - 1) : \A m \in ToSet(new.query.mappings) :
            new.chain.methods[i] = Step(m.toId) /\ m.toId \in new.given /\ (\E j \in 1..(i - 1) : new.chain.methods[j] = Step(m.fromId))
            => Mapped(m, TRUE) \in new.args
  BY <1>7, <1>8, <1>9 DEF steps, mappings, n
<1> QED BY <1>10 DEF Applied

\* A step of a request applies what it is to apply.
LEMMA StepApplied ==
  ASSUME MappingsApart, AppliedInv, NEW r \in Requests, RequestStep(r)
  PROVE  \E new : runs' = [runs EXCEPT ![r] = new] /\ Applied(new)
<1> DEFINE run == runs[r]
           steps == run.chain.methods
<1>1. IInv /\ IsRun(run) /\ Applied(run)
  BY DEF AppliedInv, FlowInv, IInv, SoundRun
<1>2. ASSUME run.query # None
      PROVE  /\ MapsAsAsked(steps, run.query.mappings) /\ None \notin ToSet(run.query.mappings)
             /\ Len(steps) \in Nat
             /\ \A l, m \in ToSet(run.query.mappings) :
                  <<l.toId, l.paramIndex>> = <<m.toId, m.paramIndex>> => l = m
  <2>1. run.query \in Queries /\ \E flow \in Readings(run.query) : BuiltOf(flow, run.chain)
    BY <1>2 DEF AppliedInv, FlowInv, FlowRun
  <2>7. PICK flow \in Readings(run.query) : BuiltOf(flow, run.chain)
    BY <2>1
  <2>2. flow \in Flows /\ Serves(flow) /\ flow.mappings = run.query.mappings
    BY <1>1, <2>7, <2>1, FlowTyped DEF BuiltOf, Known, IInv, Serves
  <2>3. MapsAsAsked(Merged(flow, mapMethods).methods, flow.mappings)
    BY <1>1, <2>7, <2>2, MergedMaps DEF AppliedInv, BuiltOf
  <2>4. IsSequence(steps)
    BY <1>1, <1>2 DEF IInv, SoundRun
  <2>5. None \notin ToSet(run.query.mappings)
    BY <2>1, NoneAssumption
  <2>6. \A l, m \in ToSet(run.query.mappings) : <<l.toId, l.paramIndex>> = <<m.toId, m.paramIndex>> => l = m
    BY <2>7, <2>2 DEF MappingsApart, BuiltOf
  <2> QED BY <2>7, <2>2, <2>3, <2>4, <2>5, <2>6 DEF IsSequence, BuiltOf
<1>3. Unfinished(r) => run.query # None /\ run.next \in 1..Len(steps)
  BY <1>1, <1>2 DEF Unfinished, Running, IInv, SoundRun
<1> DEFINE Ahead(with) == [with EXCEPT !.next = @ + 1]
<1>4. \A with : IsRun(with) =>
        /\ Ahead(with).query = with.query /\ Ahead(with).chain = with.chain /\ Ahead(with).next = with.next + 1
        /\ Ahead(with).given = with.given /\ Ahead(with).params = with.params /\ Ahead(with).args = with.args /\ Ahead(with).hasErrors = with.hasErrors
  BY DEF IsRun, IsFunctionOn, RunFields
<1>5. \A with : Advance(r, with) => runs' = [runs EXCEPT ![r] = Ahead(with)]
  BY DEF Advance
<1>6. Method(r) = steps[run.next]
  BY DEF Method
<1> HIDE DEF Ahead
<1>7. \A new : new.hasErrors => Applied(new)
  BY DEF Applied
<1>8. \A new : new.query = None => Applied(new)
  BY DEF Applied
<1>9. CASE Skip(r)
  <2>1. Advance(r, run) /\ run.hasErrors
    BY <1>9 DEF Skip, Skipped
  <2>2. Ahead(run).hasErrors
    BY <1>1, <1>4, <2>1
  <2> QED BY <1>5, <1>7, <2>1, <2>2
<1>10. ASSUME NEW fails \in BOOLEAN, RunMethod(r, fails)
       PROVE  \E new : runs' = [runs EXCEPT ![r] = new] /\ Applied(new)
  <2> DEFINE called == run.args \cup {p \in run.params : p.to = Method(r).id}
             with == [run EXCEPT !.args = called, !.hasErrors = @ \/ fails]
  <2>1. Advance(r, with) /\ Unfinished(r) /\ Method(r).mapping = None
    BY <1>10 DEF RunMethod
  <2>2. called = run.args \cup {p \in run.params : p.to = steps[run.next].id}
    BY <1>6
  <2> HIDE DEF called
  <2>3. IsRun(with)
    BY <1>1, RunUpdated
  <2>4. /\ with.query = run.query /\ with.chain = run.chain /\ with.next = run.next /\ with.params = run.params
        /\ with.given = run.given
        /\ with.args = called /\ with.hasErrors = (run.hasErrors \/ fails)
    BY <1>1 DEF IsRun, IsFunctionOn, RunFields
  <2> HIDE DEF with
  <2> DEFINE new == Ahead(with)
  <2>5. /\ new.query = run.query /\ new.chain = run.chain /\ new.next = run.next + 1 /\ new.params = run.params
        /\ new.given = run.given /\ new.args = called /\ new.hasErrors = (run.hasErrors \/ fails)
    BY <1>4, <2>3, <2>4
  <2>6. runs' = [runs EXCEPT ![r] = new]
    BY <1>5, <2>1
  <2> HIDE DEF new
  <2>7. CASE new.hasErrors
    BY <1>7, <2>6, <2>7
  <2>8. CASE ~new.hasErrors
    <3>1. ~run.hasErrors
      BY <2>5, <2>8
    <3>2. /\ run.query # None /\ run.next \in 1..Len(steps) /\ steps[run.next].mapping = None
          /\ MapsAsAsked(steps, run.query.mappings) /\ None \notin ToSet(run.query.mappings) /\ Len(steps) \in Nat
      BY <1>2, <1>3, <1>6, <2>1
    <3> HIDE DEF run
    <3>3. Applied(new)
      BY <1>1, <2>2, <2>5, <3>1, <3>2, MethodApplied
    <3> QED BY <2>6, <3>3
  <2> QED BY <2>7, <2>8
<1>11. ASSUME NEW fails \in BOOLEAN, RunMapping(r, fails)
       PROVE  \E new : runs' = [runs EXCEPT ![r] = new] /\ Applied(new)
  <2> DEFINE mapping == Method(r).mapping
             made == Replaced(run, Mapped(mapping, HasRun(r, mapping.fromId)))
             absent == [run EXCEPT !.hasErrors = TRUE, !.missing = TRUE]
             failed == [run EXCEPT !.hasErrors = TRUE]
             mapped == [run EXCEPT !.params = made]
  <2>1. /\ Unfinished(r) /\ mapping # None /\ ~Skipped(r)
        /\ Advance(r, absent) \/ Advance(r, failed) \/ Advance(r, mapped)
    BY <1>11 DEF RunMapping
  <2> HIDE DEF made
  <2>2. IsRun(absent) /\ IsRun(failed) /\ IsRun(mapped)
    BY <1>1, RunUpdated
  <2>3. absent.hasErrors /\ failed.hasErrors
    BY <1>1 DEF IsRun, IsFunctionOn, RunFields
  <2>4. /\ mapped.query = run.query /\ mapped.chain = run.chain /\ mapped.next = run.next
        /\ mapped.given = run.given /\ mapped.args = run.args /\ mapped.params = made /\ mapped.hasErrors = run.hasErrors
    BY <1>1 DEF IsRun, IsFunctionOn, RunFields
  <2> HIDE DEF absent, failed, mapped
  <2>5. CASE Advance(r, absent) \/ Advance(r, failed)
    BY <1>4, <1>5, <1>7, <2>2, <2>3, <2>5
  <2>6. CASE Advance(r, mapped)
    <3> DEFINE new == Ahead(mapped)
    <3>1. /\ new.query = run.query /\ new.chain = run.chain /\ new.next = run.next + 1 /\ new.params = made
          /\ new.given = run.given /\ new.args = run.args /\ new.hasErrors = run.hasErrors
      BY <1>4, <2>2, <2>4
    <3>2. runs' = [runs EXCEPT ![r] = new]
      BY <1>5, <2>6
    <3> HIDE DEF new
    <3>3. CASE new.hasErrors
      BY <1>7, <3>2, <3>3
    <3>4. CASE ~new.hasErrors
      <4>1. /\ ~run.hasErrors /\ run.query # None /\ run.next \in 1..Len(steps) /\ steps[run.next].mapping = mapping
            /\ MapsAsAsked(steps, run.query.mappings) /\ Len(steps) \in Nat
            /\ \A l, m \in ToSet(run.query.mappings) :
                 <<l.toId, l.paramIndex>> = <<m.toId, m.paramIndex>> => l = m
        BY <1>2, <1>3, <1>6, <2>1, <3>1, <3>4
      <4>2. mapping \in ToSet(run.query.mappings) /\ \E j \in 1..(run.next - 1) : steps[j] = Step(mapping.fromId)
        <5> HIDE DEF mapping, steps, run
        <5> QED BY <2>1, <4>1 DEF MapsAsAsked
      <4>3. HasRun(r, mapping.fromId)
        <5> HIDE DEF mapping
        <5> QED BY <4>2 DEF HasRun
      <4>4. made = Replaced(run, Mapped(mapping, TRUE))
        <5> HIDE DEF mapping
        <5>1. HasRun(r, mapping.fromId) = TRUE
          BY <4>3 DEF HasRun
        <5> QED BY <5>1 DEF made
      <4>5. \A id : steps[run.next] # Step(id)
        BY <2>1, <4>1 DEF Step
      <4> HIDE DEF run, mapping
      <4>6. Applied(run) /\ mapping # None /\ new.params = Replaced(run, Mapped(mapping, TRUE))
        BY <1>1, <2>1, <3>1, <4>4
      <4>7. Applied(new)
        BY ONLY <3>1, <4>1, <4>2, <4>5, <4>6, MapperApplied, ZenonT(30)
      <4> QED BY <3>2, <4>7
    <3> QED BY <3>3, <3>4
  <2> QED BY <2>1, <2>5, <2>6
<1>12. CASE Finish(r)
  <2>1. runs' = [runs EXCEPT ![r] = NoRun] /\ NoRun.query = None
    BY <1>12, NoRunIs DEF Finish
  <2> QED BY <1>8, <2>1
<1> QED BY <1>9, <1>10, <1>11, <1>12 DEF RequestStep

\* A flow begins with nothing applied.
LEMMA BeginApplied ==
  ASSUME NEW query, NEW chain, NEW given
  PROVE  Applied([NoRun EXCEPT !.query = query, !.chain = chain, !.given = given]) /\ Applied(NoRun)
<1> DEFINE new == [NoRun EXCEPT !.query = query, !.chain = chain, !.given = given]
<1>1. new.next = 1 /\ new.params = {}
  BY NoRunIs DEF IsRun, IsFunctionOn, RunFields
<1> HIDE DEF new
<1>2. Applied(new)
  BY <1>1 DEF Applied
<1>3. Applied(NoRun)
  BY NoRunIs DEF Applied
<1> QED BY <1>2, <1>3 DEF new

\* Every step keeps what is applied.
LEMMA AppliedStep ==
  ASSUME MappingsApart, AppliedInv, [Next]_vars
  PROVE  AppliedInv'
<1>1. FlowInv /\ FlowInv' /\ IInv /\ Sourced(mapMethods')
  BY FlowStep, SourcedStep DEF AppliedInv, FlowInv
<1>2. DOMAIN runs = Requests
  BY <1>1 DEF IInv, IsFunctionOn
<1>3. ASSUME NEW r \in Requests, NEW new, runs' = [runs EXCEPT ![r] = new], Applied(new)
      PROVE  \A s \in Requests : Applied(runs'[s])
  <2> SUFFICES ASSUME NEW s \in Requests PROVE Applied(runs'[s])
    OBVIOUS
  <2>1. runs'[s] = new \/ runs'[s] = runs[s]
    BY <1>2, <1>3
  <2>2. Applied(runs[s])
    BY DEF AppliedInv
  <2> QED BY <1>3, <2>1, <2>2
<1>4. ASSUME NEW r \in Requests, NEW q \in Queries, NEW raw \in Raws, Begin(r, q, raw)
      PROVE  \A s \in Requests : Applied(runs'[s])
  <2>1. \/ runs' = [runs EXCEPT ![r] = NoRun]
        \/ \E flow \in Readings(q) : \E chain, given :
             /\ runs' = [runs EXCEPT ![r] = [NoRun EXCEPT !.query = q, !.chain = chain, !.given = given]]
             /\ BuiltOf(flow, chain)'
    BY <1>1, <1>4, BeginsCurrent
  <2> QED BY <1>3, <2>1, BeginApplied
<1>5. ASSUME NEW r \in Requests, RequestStep(r)
      PROVE  \A s \in Requests : Applied(runs'[s])
  BY <1>3, <1>5, StepApplied
<1>6. ASSUME UNCHANGED runs PROVE \A s \in Requests : Applied(runs'[s])
  BY <1>6 DEF AppliedInv
<1>7. \A s \in Requests : Applied(runs'[s])
  BY <1>1, <1>4, <1>5, <1>6, AroundKeeps
<1> QED BY <1>1, <1>7 DEF AppliedInv, Applied, Sourced

\* What a mapper is to put into a parameter is there when the route is called, of
\* queries whose mappings are told apart: the route has run, so its mapper has.
LEMMA AppliedHolds ==
  ASSUME AppliedInv
  PROVE  MappingsApplied
<1> SUFFICES ASSUME NEW r \in Requests, Running(r), ~runs[r].hasErrors, NEW k \in DOMAIN runs[r].query.mappings,
                    Place(runs[r].chain, runs[r].query.mappings[k].fromId)
                      < Place(runs[r].chain, runs[r].query.mappings[k].toId),
                    HasRun(r, runs[r].query.mappings[k].toId), runs[r].query.mappings[k].toId \in runs[r].given
             PROVE  Mapped(runs[r].query.mappings[k], TRUE) \in runs[r].args
  BY DEF MappingsApplied
<1> DEFINE run == runs[r]
           chain == run.chain
           steps == chain.methods
           query == run.query
           mapping == query.mappings[k]
<1>1. /\ query \in Queries /\ \E flow \in Readings(query) : BuiltOf(flow, chain)
      /\ Applied(run) /\ query # None /\ ~run.hasErrors /\ mapping.toId \in run.given
  BY DEF AppliedInv, FlowInv, FlowRun, Running
<1>2. PICK flow \in Readings(query) : BuiltOf(flow, chain)
  BY <1>1
<1> DEFINE ids == MiddleIds(flow.routes)
<1>3. /\ flow \in Flows /\ Serves(flow) /\ Fits(flow) /\ chain = Merged(flow, mapMethods)
      /\ flow.mappings = query.mappings /\ IsSequence(flow.routes)
  BY <1>1, <1>2, FlowTyped DEF BuiltOf, AppliedInv, FlowInv, Known, IInv, Serves
<1>4. IsSequence(steps) /\ \E place : Spots(place, flow, mapMethods, steps)
  BY <1>3, MergedSpots DEF Serves
<1>5. PICK place : Spots(place, flow, mapMethods, steps)
  BY <1>4
<1>6. \A x \in 1..Len(ids) : OnlyAt(steps, ids[x], place[x])
  BY <1>3, <1>4, <1>5, CalledOnce DEF Serves
<1>7. mapping.fromId \in ToSet(ids) /\ mapping.toId \in ToSet(ids) /\ mapping \in ToSet(query.mappings)
  BY <1>3 DEF Fits, MappingFits, ToSet
<1>8. DOMAIN ids = 1..Len(ids)
  BY <1>3, MiddleTyped DEF Serves, IsSequence
<1>9. PICK j \in 1..(run.next - 1) : steps[j] = Step(mapping.toId)
  BY DEF HasRun
<1>10. run.next \in 1..(Len(steps) + 1) /\ Len(steps) \in Nat
  BY <1>1, <1>4 DEF AppliedInv, FlowInv, IInv, SoundRun, IsSequence
<1>11. Place(chain, mapping.fromId) < Place(chain, mapping.toId)
  OBVIOUS
<1> HIDE DEF run, chain, query, mapping, ids
<1>12. PICK x \in 1..Len(ids) : ids[x] = mapping.fromId
  BY <1>7, <1>8 DEF ToSet
<1>13. PICK y \in 1..Len(ids) : ids[y] = mapping.toId
  BY <1>7, <1>8 DEF ToSet
<1>14. Place(chain, mapping.fromId) = place[x] /\ Place(chain, mapping.toId) = place[y]
  BY <1>4, <1>6, <1>12, <1>13, PlaceIs
<1>15. j = place[y]
  <2>1. OnlyAt(steps, mapping.toId, place[y])
    BY <1>6, <1>13
  <2>2. j \in 1..Len(steps) /\ steps[j].id = mapping.toId
    BY <1>9, <1>10 DEF Step
  <2> QED BY <2>1, <2>2 DEF OnlyAt
<1>16. place[x] \in 1..Len(steps) /\ steps[place[x]] = Step(mapping.fromId)
  BY <1>6, <1>12 DEF OnlyAt
<1>17. place[x] \in 1..(j - 1)
  BY <1>10, <1>11, <1>14, <1>15, <1>16
<1>18. Mapped(mapping, TRUE) \in run.args
  BY <1>1, <1>7, <1>9, <1>16, <1>17 DEF Applied, chain, query, mapping
<1> QED BY <1>18 DEF run, query, mapping

\* However the chains of a query are merged and whichever requests come between: a
\* flow runs each route as it would be run alone, and calls it with what the mappers
\* made for it, if the mappings are told apart (routesFlow.ts:176-243).
THEOREM FlowsKeepChains == MappingsApart => (Spec => []FlowKeepsChains)
<1> SUFFICES ASSUME MappingsApart PROVE Spec => []FlowKeepsChains
  OBVIOUS
<1>1. ASSUME Init PROVE AppliedInv
  <2>1. FlowInv /\ mapMethods = <<>> /\ \A r \in Requests : runs[r] = NoRun
    BY <1>1, FlowInit DEF Init
  <2>2. Sourced(mapMethods)
    BY <2>1 DEF Sourced
  <2> QED BY <2>1, <2>2, BeginApplied DEF AppliedInv
<1>2. AppliedInv /\ [Next]_vars => AppliedInv'
  BY AppliedStep
<1>3. AppliedInv => MappingsApplied
  BY AppliedHolds
<1>4. Spec => []MappingsApplied
  BY <1>1, <1>2, <1>3, PTL DEF Spec
<1> QED BY <1>4, FlowsInOrder, PTL DEF FlowKeepsChains
=============================================================================
