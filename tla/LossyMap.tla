------------------------------ MODULE LossyMap ------------------------------
(***************************************************************************)
(* What one shard of the heap tracer's table of live allocations promises  *)
(* (src/tools/mem_trace.c, table_put and table_del): a map in which the    *)
(* insertion may be lost, and nothing else.  A deletion removes its address *)
(* and answers whether it was there, no address appears or disappears of   *)
(* itself, and an entry is always the whole of what was inserted.  A lost  *)
(* insertion changes nothing and so is a stuttering step, whether the      *)
(* address was there or not: that an overwrite is not lost is in the guard *)
(* of Lose, but an implementation is not held to it.  MemTrace relies on   *)
(* nothing else of the table.                                              *)
(***************************************************************************)
CONSTANTS Addrs,   \* addresses of allocations
          Vals,    \* size, weight, flags, kind and stack of one
          NoVal    \* "no entry"

VARIABLES live,    \* the entry of every address
          found    \* what the last deletion answered

LossyInit ==
  /\ live = [a \in Addrs |-> NoVal]
  /\ found = FALSE

Put(a, v) ==
  /\ live' = [live EXCEPT ![a] = v]
  /\ UNCHANGED found

Lose(a) ==
  /\ live[a] = NoVal
  /\ UNCHANGED <<live, found>>

Del(a) ==
  /\ found' = (live[a] # NoVal)
  /\ live' = [live EXCEPT ![a] = NoVal]

LossyNext ==
  \E a \in Addrs : Del(a) \/ Lose(a) \/ \E v \in Vals : Put(a, v)

LossySpec == LossyInit /\ [][LossyNext]_<<live, found>>
=============================================================================
