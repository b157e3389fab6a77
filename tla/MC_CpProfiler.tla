---------------------------- MODULE MC_CpProfiler ----------------------------
(* Instances of CpProfiler: which threads, addresses and OS there are is in   *)
(* the .cfg files.                                                            *)
EXTENDS CpProfilerLog

\* A region's address is never read but to compare it.
AnyAddr == Permutations(Addrs)
=============================================================================
