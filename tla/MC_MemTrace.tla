---------------------------- MODULE MC_MemTrace ----------------------------
(* Instances of MemTrace: two shards, with addresses of each kind in both.    *)
EXTENDS MemTrace, TLC
CONSTANTS h1, h2, m1, m2

TwoShards == [a \in Addrs |-> IF a \in {h1, m1} THEN 1 ELSE 2]
AnyThread == Permutations(Threads)
=============================================================================
