--------------------------- MODULE Sampler_proofs ---------------------------
(***************************************************************************)
(* How far the sampled weights can be from the truth, for every interval,  *)
(* set of sizes and sequence of allocations.                               *)
(***************************************************************************)
EXTENDS Sampler, TLAPS

LEMMA InitInv == Init => IInv
BY SamplerAssumption DEF Init, IInv, TypeOK, CountInv

LEMMA StepInv == IInv /\ [Next]_vars => IInv'
<1> SUFFICES ASSUME IInv, [Next]_vars
             PROVE  IInv'
  OBVIOUS
<1> USE SamplerAssumption DEF IInv, TypeOK, CountInv, Allocate
<1>1. ASSUME NEW t \in Threads, NEW s \in Sizes, Large(t, s)
      PROVE  IInv'
  BY <1>1 DEF Large
<1>2. ASSUME NEW t \in Threads, NEW s \in Sizes, Skipped(t, s)
      PROVE  IInv'
  BY <1>2 DEF Skipped
\* The count was at most an interval and s is less than one, so less than two
\* intervals are asked for between two samples.
<1>3. ASSUME NEW t \in Threads, NEW s \in Sizes, Sampled(t, s)
      PROVE  IInv'
  BY <1>3 DEF Sampled
<1>4. CASE UNCHANGED vars
  BY <1>4 DEF vars
<1> QED
  BY <1>1, <1>2, <1>3, <1>4 DEF Next

\* A thread's estimate of what it allocated is at most one interval too
\* high, and never less than half of the truth but for half an interval.
THEOREM SamplingBounds == Spec => []SampleError
<1>1. IInv => SampleError
  <2> SUFFICES ASSUME IInv, NEW t \in Threads
               PROVE  /\ weight[t] <= asked[t] + Interval
                      /\ asked[t] <= 2 * weight[t] + Interval
    BY DEF SampleError
  <2>1. /\ to_sample[t] \in 0 .. Interval
        /\ asked[t] \in Nat /\ weight[t] \in Nat /\ Interval \in Nat
        /\ weight[t] <= asked[t] + to_sample[t]
        /\ asked[t] + to_sample[t] <= 2 * weight[t] + Interval
    BY SamplerAssumption DEF IInv, TypeOK, CountInv
  <2> QED
    BY <2>1
<1> QED
  BY <1>1, InitInv, StepInv, PTL DEF Spec
=============================================================================
