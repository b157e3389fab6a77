------------------------------- MODULE Sampler -------------------------------
(***************************************************************************)
(* The byte sampling of the heap tracer (src/tools/mem_trace.c,            *)
(* record_alloc): each thread counts down to_sample by the size of every   *)
(* allocation below the sampling interval, and the allocation that takes   *)
(* it to zero is recorded with the weight of a whole interval.  Larger     *)
(* allocations are recorded with their own size and leave to_sample alone. *)
(*                                                                         *)
(* asked and weight are sums the program itself does not keep: what the    *)
(* analyser adds up from the lines of a dump, against what was allocated.  *)
(* Both begin with mt_init: of what Main allocates before, none is in them, *)
(* though some may have been recorded.                                     *)
(***************************************************************************)
EXTENDS Integers

CONSTANTS
  Threads, Main,    \* Main runs mt_init
  Interval,         \* sample_bytes
  Sizes,            \* sizes the program asks for
  MaxAsked          \* bound: bytes a thread asks for

ASSUME SamplerAssumption ==
  /\ Main \in Threads
  /\ Interval \in Nat \ {0}
  /\ Sizes \subseteq Nat
  /\ MaxAsked \in Nat

VARIABLES
  to_sample,        \* of each thread
  asked, weight     \* of each thread: bytes asked for, and weights recorded

vars == <<to_sample, asked, weight>>

\* mt_init sets the count of the thread it runs in; another thread's is zero.
Init ==
  /\ to_sample = [t \in Threads |-> IF t = Main THEN Interval ELSE 0]
  /\ asked = [t \in Threads |-> 0] /\ weight = [t \in Threads |-> 0]

\* An allocation of s bytes, recorded with weight w (0: not recorded).
Allocate(t, s, w) ==
  /\ asked[t] + s <= MaxAsked
  /\ asked' = [asked EXCEPT ![t] = @ + s]
  /\ weight' = [weight EXCEPT ![t] = @ + w]

\* At or above the interval: always recorded, with its size.
Large(t, s) ==
  /\ s >= Interval
  /\ Allocate(t, s, s)
  /\ UNCHANGED to_sample

\* Below it, with the count not used up: not recorded.
Skipped(t, s) ==
  /\ s < Interval /\ to_sample[t] - s > 0
  /\ Allocate(t, s, 0)
  /\ to_sample' = [to_sample EXCEPT ![t] = @ - s]

\* Mutant: the weight is the allocation's size.
MutSampledWeight(t, s) ==
  /\ s < Interval /\ to_sample[t] - s <= 0
  /\ Allocate(t, s, s)
  /\ to_sample' = [to_sample EXCEPT ![t] = Interval]

\* Below it, using the count up: recorded for a whole interval.  What the
\* allocation went beyond the count is forgotten.
Sampled(t, s) ==
  /\ s < Interval /\ to_sample[t] - s <= 0
  /\ Allocate(t, s, Interval)
  /\ to_sample' = [to_sample EXCEPT ![t] = Interval]

Next == \E t \in Threads, s \in Sizes : Large(t, s) \/ Skipped(t, s) \/ Sampled(t, s)

Spec == Init /\ [][Next]_vars

-----------------------------------------------------------------------------
TypeOK ==
  /\ to_sample \in [Threads -> 0 .. Interval]
  /\ asked \in [Threads -> Nat] /\ weight \in [Threads -> Nat]

\* How wrong the estimate can be, whatever the sizes and their order: never
\* more than an interval too high in a thread, and never too low by more than
\* half of what was asked for and half an interval.
SampleError ==
  \A t \in Threads :
    /\ weight[t] <= asked[t] + Interval
    /\ asked[t] <= 2 * weight[t] + Interval

\* Why: the count stands between the two sums.
CountInv ==
  \A t \in Threads :
    /\ weight[t] <= asked[t] + to_sample[t]
    /\ asked[t] + to_sample[t] <= 2 * weight[t] + Interval

IInv == TypeOK /\ CountInv
=============================================================================
