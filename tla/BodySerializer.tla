--------------------------- MODULE BodySerializer ---------------------------
(***************************************************************************)
(* serializeBinaryBody (core/src/binary/bodySerializer.ts) over the buffer *)
(* pool: the plan, the pooled attempt, the fallback on a growing buffer    *)
(* and the result its caller holds until release().                        *)
(*                                                                         *)
(* The function is synchronous: from Begin to its end (`running` names the *)
(* call) nothing else happens in the process.  What the size statistics    *)
(* predict may be any size, warm or not: correctness can not depend on it. *)
(*                                                                         *)
(* An envelope is a pair of sets: the outcomes encoding it may have, and   *)
(* those of the measure pass, each a number of bytes or Throws.  Each set  *)
(* has one member unless a getter of the value does not return the same    *)
(* thing twice.  They agree if the texts are well-formed: an unpaired high *)
(* surrogate is measured as four bytes with whatever comes next, and       *)
(* written as three with the next on its own.  And an encoder may throw    *)
(* into a buffer where the sink of the measure pass takes anything.        *)
(***************************************************************************)
EXTENDS BufferPool

CONSTANTS
  Envelopes,  \* the envelopes callers serialize
  Throws      \* the outcome of an encoder that throws

OutcomeSets == (SUBSET (Sizes \cup {Throws})) \ {{}}

ASSUME EnvelopesAssumption ==
  /\ Envelopes \subseteq [writes : OutcomeSets, measures : OutcomeSets]
  /\ \A e \in Envelopes : Throws \in e.measures => Throws \in e.writes

ASSUME ThrowsAssumption == Throws \notin Nat

VARIABLES
  running,  \* the call in progress, if any: a lease identity names it
  phase,    \* where it is
  plan,     \* the BufferPlan of the pooled attempt
  envelope, \* call -> what it serializes
  result,   \* call -> what it returned or threw
  written   \* buffer -> the call that wrote it last

serializerVars == <<running, phase, plan, envelope, result, written>>
allVars == <<poolVars, serializerVars>>

\* No call is running / no call wrote this buffer.
Nobody == "nobody"

ASSUME NobodyAssumption == Nobody \notin Leases

Phases == {"idle", "planning", "measuring", "borrowing", "writing", "returning", "growing"}

NoEnvelope == [writes |-> {}, measures |-> {}]
NoResult == [kind |-> "none", bytes |-> 0, rpc |-> FALSE]
Pooled(bytes) == [kind |-> "pooled", bytes |-> bytes, rpc |-> FALSE]
Adaptive(bytes) == [kind |-> "adaptive", bytes |-> bytes, rpc |-> FALSE]
Failure(rpc) == [kind |-> "threw", bytes |-> 0, rpc |-> rpc]

SerializerInit ==
  /\ Init
  /\ running = Nobody /\ phase = "idle"
  /\ plan = [size |-> 0, measured |-> FALSE]
  /\ envelope = [l \in Leases |-> NoEnvelope]
  /\ result = [l \in Leases |-> NoResult]
  /\ written = [b \in Buffers |-> Nobody]
-----------------------------------------------------------------------------
Busy(l, p) == running = l /\ phase = p

\* the call in progress goes on with phase p
Goes(p) == phase' = p /\ UNCHANGED <<running, envelope>>

\* the call in progress ends with r
Ends(l, r) ==
  /\ running' = Nobody /\ phase' = "idle"
  /\ result' = [result EXCEPT ![l] = r]
  /\ UNCHANGED envelope

\* isBufferPoolEnabled() reconciles and picks the strategy
Begin(l, e) ==
  /\ running = Nobody /\ result[l] = NoResult /\ lease[l] = NoLease
  /\ running' = l
  /\ envelope' = [envelope EXCEPT ![l] = e]
  /\ phase' = IF opts.enabled THEN "planning" ELSE "growing"
  /\ Touch
  /\ UNCHANGED <<plan, result, written>>

\* planBuffer: a warm window inside one size class is trusted
Predict(l, size) ==
  /\ Busy(l, "planning")
  /\ plan' = [size |-> size, measured |-> FALSE]
  /\ Goes("borrowing")
  /\ UNCHANGED <<poolVars, result, written>>

\* planBuffer: no history, or a window that straddles two classes
MustMeasure(l) ==
  /\ Busy(l, "planning")
  /\ Goes("measuring")
  /\ UNCHANGED <<poolVars, plan, result, written>>

\* fault: a pass that threw is taken for a size
MeasureUnchecked(l) ==
  /\ Busy(l, "measuring")
  /\ \E bytes \in envelope[l].measures : plan' = [size |-> bytes, measured |-> TRUE]
  /\ Goes("borrowing")
  /\ UNCHANGED <<poolVars, result, written>>

\* measureEnvelope runs the encoders over a sink, outside any try block
Measure(l) ==
  /\ Busy(l, "measuring")
  /\ \E bytes \in envelope[l].measures :
       IF bytes = Throws
         THEN Ends(l, Failure(FALSE)) /\ UNCHANGED plan
         ELSE /\ plan' = [size |-> bytes, measured |-> TRUE]
              /\ Goes("borrowing") /\ UNCHANGED result
  /\ UNCHANGED <<poolVars, written>>

\* serializePooled borrows a buffer of the planned size
Borrow(l) ==
  /\ Busy(l, "borrowing")
  /\ Acquire(l, plan.size)
  /\ Goes("writing")
  /\ UNCHANGED <<plan, result, written>>

\* fault: only an encoder that throws is noticed
FitsUnlessThrown(l, bytes) == bytes # Throws

\* an encoder that threw, and an overflow that did not throw (the cursor ran
\* past the end), both give the attempt up
Fits(l, bytes) == bytes # Throws /\ bytes <= byteLength[lease[l].buffer]

\* the envelope is written into the borrowed buffer, whether it fits or not
WritePooled(l) ==
  /\ Busy(l, "writing")
  /\ written' = [written EXCEPT ![lease[l].buffer] = l]
  /\ \E bytes \in envelope[l].writes :
       IF Fits(l, bytes) THEN Ends(l, Pooled(bytes))
                         ELSE Goes("returning") /\ UNCHANGED result
  /\ UNCHANGED <<poolVars, plan>>

\* fault: the failed attempt keeps its lease
KeepBuffer(l) ==
  /\ Busy(l, "returning")
  /\ Goes("growing")
  /\ UNCHANGED <<poolVars, plan, result, written>>

\* fault: the failed attempt is the answer
GiveUp(l) ==
  /\ Busy(l, "returning")
  /\ Release(l)
  /\ Ends(l, Failure(TRUE))
  /\ UNCHANGED <<plan, written>>

\* serializePooled gives the buffer back before the fallback
GiveBack(l) ==
  /\ Busy(l, "returning")
  /\ Release(l)
  /\ Goes("growing")
  /\ UNCHANGED <<plan, result, written>>

\* the reference path: a growing buffer of the call's own, which can not overflow;
\* what an encoder throws here is wrapped by toRpcError
Grow(l) ==
  /\ Busy(l, "growing")
  /\ \E bytes \in envelope[l].writes :
       Ends(l, IF bytes = Throws THEN Failure(TRUE) ELSE Adaptive(bytes))
  /\ UNCHANGED <<poolVars, plan, written>>

\* result.release() reaches the lease at most once
ReleasesLease(l) == result[l].kind = "pooled" /\ lease[l].state = "live"

\* the holder is done with the bytes (any number of calls)
ReleaseResult(l) ==
  /\ running = Nobody /\ result[l].kind \in {"pooled", "adaptive"}
  /\ IF ReleasesLease(l) THEN Release(l) ELSE UNCHANGED poolVars
  /\ UNCHANGED serializerVars

\* the holder drops the result, released or not
Drop(l) ==
  /\ running = Nobody /\ result[l] # NoResult
  /\ result' = [result EXCEPT ![l] = NoResult]
  /\ envelope' = [envelope EXCEPT ![l] = NoEnvelope]
  /\ IF lease[l].state = "none" THEN UNCHANGED poolVars ELSE Forget(l)
  /\ UNCHANGED <<running, phase, plan, written>>

\* the options change, or the pool is cleared, between two calls
Reconfigure ==
  /\ running = Nobody
  /\ Configure \/ ClearBufferPool
  /\ UNCHANGED serializerVars

SerializerNext ==
  \/ \E l \in Leases :
       \/ \E e \in Envelopes : Begin(l, e)
       \/ \E size \in Sizes : Predict(l, size)
       \/ MustMeasure(l) \/ Measure(l) \/ Borrow(l) \/ WritePooled(l) \/ GiveBack(l) \/ Grow(l)
       \/ ReleaseResult(l) \/ Drop(l)
  \/ Reconfigure

SerializerSpec == SerializerInit /\ [][SerializerNext]_allVars
-----------------------------------------------------------------------------
SerializerTypeOK ==
  /\ running \in Leases \cup {Nobody} /\ phase \in Phases
  /\ (running = Nobody) = (phase = "idle")
  /\ plan \in [size : Sizes \cup {0}, measured : BOOLEAN]
  /\ envelope \in [Leases -> Envelopes \cup {NoEnvelope}]
  /\ result \in [Leases -> [kind : {"none", "pooled", "adaptive", "threw"},
                            bytes : Sizes \cup {0}, rpc : BOOLEAN]]
  /\ written \in [Buffers -> Leases \cup {Nobody}]

\* The bytes of a pooled result are all there and are its own until it is
\* released: a predicted size that was too small, a retry on another buffer or a
\* reconfiguration never shows a caller truncated or foreign bytes.
ResultIntact ==
  SerializerTypeOK /\ \A l \in Leases : result[l].kind = "pooled" /\ Live(l) =>
    /\ written[lease[l].buffer] = l
    /\ result[l].bytes <= byteLength[lease[l].buffer]
    /\ result[l].bytes \in envelope[l].writes

\* A borrowed buffer is always in somebody's hands: the call that is running, or
\* a result.  An attempt that failed, for whatever reason, has returned it.
NoLeaseLost ==
  \A l \in Leases : Live(l) => result[l].kind = "pooled" \/ Busy(l, "writing") \/ Busy(l, "returning")

\* The value encodes the same way every time, to what the measure pass counts.
Steady(e) == \E x \in Sizes \cup {Throws} : e = [writes |-> {x}, measures |-> {x}]

\* "a measured size cannot be too small": a measured attempt is retried only for a
\* value that changes or that is not written as it is measured.
MeasuredSuffices == \A l \in Leases : Busy(l, "returning") /\ plan.measured => ~Steady(envelope[l])

\* The pooled attempt "is an OPTIMISATION, so it never decides the response": an
\* envelope that always encodes is always returned, whatever was predicted,
\* measured or borrowed, and one that never does never is.
OutcomeIsTheValues ==
  \A l \in Leases :
    /\ result[l].kind = "threw" => Throws \in envelope[l].writes
    /\ result[l].kind \in {"pooled", "adaptive"} => envelope[l].writes # {Throws}

\* Neither a prediction nor a measured size, be it too small, ever changes the outcome,
\* and a steady value is not encoded again once it was measured
\* (bodySerializer.ts:163-168,176-251).
PoolDecidesNothing == MeasuredSuffices /\ OutcomeIsTheValues
=============================================================================
