------------------------------- MODULE LiveSet -------------------------------
(***************************************************************************)
(* What the profiler's live-set table promises its callers: a finite map   *)
(* from mapping addresses to what was recorded about them, with an insert  *)
(* that overwrites and a combined find-and-erase.  LiveTable, the          *)
(* open-addressing hash table of src/profiler/shm_profiler.c, implements   *)
(* this module; CpProfiler relies on nothing else of the table.            *)
(***************************************************************************)
CONSTANTS Keys,    \* addresses a mapping may have
          Vals,    \* what is stored with one: (name, size, t_map)
          NoVal    \* "no entry"

VARIABLES live,    \* the entry of every key
          ans      \* what the last find-and-erase returned

LiveSetInit ==
  /\ live = [k \in Keys |-> NoVal]
  /\ ans = NoVal

Put(k, v) ==
  /\ live' = [live EXCEPT ![k] = v]
  /\ UNCHANGED ans

Take(k) ==
  /\ ans' = live[k]
  /\ live' = [live EXCEPT ![k] = NoVal]

LiveSetNext ==
  \E k \in Keys : Take(k) \/ \E v \in Vals : Put(k, v)

LiveSetSpec == LiveSetInit /\ [][LiveSetNext]_<<live, ans>>
=============================================================================
