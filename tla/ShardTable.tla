----------------------------- MODULE ShardTable -----------------------------
(***************************************************************************)
(* One shard of the heap tracer's table of live allocations                *)
(* (src/tools/mem_trace.c, table_put and table_del): SHARD_CAP slots,      *)
(* open addressing, tombstones, and no growth.  An insertion ends at the   *)
(* address or at an empty slot; without either it is lost, tombstones or   *)
(* not, and nothing but the first use of a slot ever changes how many      *)
(* empty ones there are.                                                   *)
(*                                                                         *)
(* Both operations hold the shard's mutex and their loops are bounded, so  *)
(* each is one step.  What an entry says besides its address is one value. *)
(***************************************************************************)
EXTENDS Integers, FiniteSets

CONSTANTS
  Addrs,         \* addresses that fall into this shard
  Vals,
  Home,          \* (mix(addr) >> 6) & mask, as a function Addrs -> slots
  SHARD_CAP,
  EMPTY, TOMB,   \* NULL and (void*)1
  NoVal,
  CallocFails    \* real_calloc may return NULL

Slots == 0 .. SHARD_CAP - 1

ASSUME ShardAssumption ==
  /\ IsFiniteSet(Addrs)
  /\ SHARD_CAP \in Nat \ {0}
  /\ Home \in [Addrs -> Slots]
  /\ EMPTY # TOMB /\ EMPTY \notin Addrs /\ TOMB \notin Addrs
  /\ NoVal \notin Vals
  /\ CallocFails \in BOOLEAN

VARIABLES
  made,          \* sh->tab is allocated
  tab, data,     \* the address of each slot, and the rest of its entry
  found,         \* what the last table_del returned
  lost,          \* why the last call, if a table_put, stored nothing: "memory"
                 \* or "slots"
  seen           \* addresses that have ever been stored, for EnoughSlots

vars == <<made, tab, data, found, lost, seen>>

Init ==
  /\ made = FALSE
  /\ tab = [h \in Slots |-> EMPTY] /\ data = [h \in Slots |-> NoVal]
  /\ found = FALSE /\ lost = "no" /\ seen = {}

\* The slots a probe that starts at a visits before it comes to b.
Path(a, b) == IF a <= b THEN a .. b - 1 ELSE (a .. SHARD_CAP - 1) \cup (0 .. b - 1)

\* The loops stop at h: an empty slot or the address.
Stops(a, h) ==
  /\ tab[h] \in {EMPTY, a}
  /\ \A j \in Path(Home[a], h) : tab[j] \notin {EMPTY, a}

\* Mutant: tombstones are not used again.
MutTarget(a, e) == {e}

\* Where an entry for a goes whose probe ends at the empty slot e: the first
\* tombstone it has passed, or e.
Target(a, e) ==
  LET tombs == {h \in Path(Home[a], e) : tab[h] = TOMB} IN
  IF tombs = {} THEN {e} ELSE {h \in tombs : tombs \cap Path(Home[a], h) = {}}

Fill(h, a, v) ==
  /\ tab' = [tab EXCEPT ![h] = a]
  /\ data' = [data EXCEPT ![h] = v]
  /\ made' = TRUE /\ lost' = "no"
  /\ seen' = seen \cup {a}
  /\ UNCHANGED found

\* table_put of an address that is not there.
PutNew(a, v, e) ==
  /\ Stops(a, e) /\ tab[e] = EMPTY
  /\ \E h \in Target(a, e) : Fill(h, a, v)

\* Mutant: the first tombstone is taken without looking on for the address.
MutPutOver(a, v, h) ==
  /\ \/ Stops(a, h) /\ tab[h] = a
     \/ tab[h] = TOMB /\ \A j \in Path(Home[a], h) : tab[j] \in Addrs \ {a}
  /\ Fill(h, a, v)

\* table_put of one that is.
PutOver(a, v, h) ==
  /\ Stops(a, h) /\ tab[h] = a
  /\ Fill(h, a, v)

\* table_put that has looked at every slot.
PutLost(a) ==
  /\ \A h \in Slots : tab[h] \notin {EMPTY, a}
  /\ lost' = "slots"
  /\ UNCHANGED <<made, tab, data, found, seen>>

\* table_put without a table.
PutNoTable ==
  /\ CallocFails /\ ~made
  /\ lost' = "memory"
  /\ UNCHANGED <<made, tab, data, found, seen>>

\* table_del of an address that is there; the rest of the entry is left.
DelHit(a, h) ==
  /\ Stops(a, h) /\ tab[h] = a
  /\ tab' = [tab EXCEPT ![h] = TOMB]
  /\ found' = TRUE /\ lost' = "no"
  /\ UNCHANGED <<made, data, seen>>

\* table_del of one that is not: no table, an empty slot, or all slots seen.
DelMiss(a) ==
  /\ \/ \E h \in Slots : Stops(a, h) /\ tab[h] = EMPTY
     \/ \A h \in Slots : tab[h] \notin {EMPTY, a}
  /\ found' = FALSE /\ lost' = "no"
  /\ UNCHANGED <<made, tab, data, seen>>

Next ==
  \/ PutNoTable
  \/ \E a \in Addrs : PutLost(a) \/ DelMiss(a)
  \/ \E a \in Addrs, h \in Slots : DelHit(a, h)
  \/ \E a \in Addrs, v \in Vals, h \in Slots : PutNew(a, v, h) \/ PutOver(a, v, h)

Spec == Init /\ [][Next]_vars

-----------------------------------------------------------------------------
Used   == {h \in Slots : tab[h] \in Addrs}
Filled == {h \in Slots : tab[h] # EMPTY}

TypeOK ==
  /\ made \in BOOLEAN /\ found \in BOOLEAN
  /\ tab \in [Slots -> Addrs \cup {EMPTY, TOMB}]
  /\ data \in [Slots -> Vals \cup {NoVal}]
  /\ lost \in {"no", "memory", "slots"}
  /\ seen \subseteq Addrs
  /\ ~made => Filled = {}

\* An address has one entry: a deletion leaves none behind.
UniqueInv == \A g, h \in Used : tab[g] = tab[h] => g = h

\* A probe for an address comes to its entry before it comes to an empty slot.
PathInv == \A h \in Used : \A j \in Path(Home[tab[h]], h) : tab[j] # EMPTY

\* While fewer addresses than slots have ever been in the shard nothing is lost
\* for want of a slot, however often they come and go.
EnoughSlots == lost = "slots" => Cardinality(seen) >= SHARD_CAP

\* Why: each slot that is not empty can be charged to one of them of its own,
\* whose probe still runs past it.
Charges(f) ==
  /\ \A g, h \in Filled : f[g] = f[h] => g = h
  /\ \A h \in Used : f[h] = tab[h]
  /\ \A h \in Filled : \A j \in Path(Home[f[h]], h) : tab[j] # EMPTY
ChargeInv == \E f \in [Filled -> seen] : Charges(f)

DataInv == \A h \in Used : data[h] \in Vals

IInv == TypeOK /\ UniqueInv /\ PathInv /\ DataInv /\ ChargeInv /\ EnoughSlots

\* The map the shard stands for.
Live == [a \in Addrs |->
  IF \E h \in Slots : tab[h] = a THEN data[CHOOSE h \in Slots : tab[h] = a]
  ELSE NoVal]

Abstract == INSTANCE LossyMap WITH live <- Live

\* The shard is a map that may lose insertions and nothing else.
IsLossyMap == Abstract!LossySpec
=============================================================================
