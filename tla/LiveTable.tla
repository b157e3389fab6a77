------------------------------ MODULE LiveTable ------------------------------
(***************************************************************************)
(* The open-addressing hash table that holds the profiler's live set       *)
(* (src/profiler/shm_profiler.c, Entry .. table_erase).                    *)
(*                                                                         *)
(* A slot holds a key (state 1), EMPTY (state 0) or TOMB (state 2); the    *)
(* name, size and t_map of an entry are one value of Vals.  A probe loop   *)
(* is one step: it picks the slot where the loop stops, given by what the  *)
(* loop has passed on the way (Path).  When no slot stops the loop the     *)
(* step has no successor, which is how the model shows a loop that never   *)
(* ends.  The rehash loop of table_grow is one step per old slot.          *)
(*                                                                         *)
(* Every operation runs under the profiler's spin lock, so no two of them  *)
(* overlap.  A calloc that fails is not modelled (see README).             *)
(***************************************************************************)
EXTENDS Integers, FiniteSets

CONSTANTS Keys,          \* addresses
          Vals,          \* (name, size, t_map)
          Hash,          \* hash_ptr, as a function Keys -> Nat
          InitCap,       \* capacity of table_init (64 in the code)
          EMPTY, TOMB,   \* slot states 0 and 2
          NoVal, NoReq

ASSUME TableAssumption ==
  /\ IsFiniteSet(Keys)
  /\ Hash \in [Keys -> Nat]
  /\ InitCap \in Nat /\ InitCap >= 4
  /\ EMPTY # TOMB /\ EMPTY \notin Keys /\ TOMB \notin Keys
  /\ NoVal \notin Vals
  /\ NoReq \notin [key : Keys, val : Vals]

VARIABLES
  cap, slots, data, count, tombs,    \* Table
  oldcap, old, oldData, i,           \* table_grow's oldcap, old and loop index
  phase,                             \* where table_put is: "idle", "grow", "place"
  req,                               \* the arguments of the table_put under way
  ans                                \* what the last find-and-erase saw

table == <<cap, slots, data, count, tombs>>
growing == <<oldcap, old, oldData, i>>
vars == <<table, growing, phase, req, ans>>

-----------------------------------------------------------------------------
Slots    == 0 .. cap - 1
OldSlots == 0 .. oldcap - 1
Slot     == Keys \cup {EMPTY, TOMB}

\* hash_ptr(key) & (cap - 1): capacities are powers of two in the code.
Home(k) == Hash[k] % cap

\* The slots a probe starting at a visits before it comes to b.
Path(a, b) == IF a <= b THEN a .. b - 1 ELSE (a .. cap - 1) \cup (0 .. b - 1)

\* The loops of table_put and table_find stop at h: an EMPTY slot or the key.
Stops(k, h) ==
  /\ slots[h] \in {EMPTY, k}
  /\ \A j \in Path(Home(k), h) : slots[j] \notin {EMPTY, k}

\* h is the first tombstone the loop of table_put passes on its way to e.
FirstTomb(k, h, e) ==
  /\ h \in Path(Home(k), e)
  /\ slots[h] = TOMB
  /\ \A j \in Path(Home(k), h) : slots[j] # TOMB

\* Mutant: a tombstone on the way is passed over and never used again.
MutNoTomb(k, e) == TRUE

NoTomb(k, e) == \A j \in Path(Home(k), e) : slots[j] # TOMB

\* Mutant: tombstones do not count towards the load.
MutMustGrow == count * 4 >= cap * 3

MustGrow == (count + tombs) * 4 >= cap * 3

-----------------------------------------------------------------------------
\* table_init
Init ==
  /\ cap = InitCap
  /\ slots = [h \in Slots |-> EMPTY]
  /\ data = [h \in Slots |-> NoVal]
  /\ count = 0 /\ tombs = 0
  /\ oldcap = 0 /\ i = 0
  /\ old = [h \in OldSlots |-> EMPTY]
  /\ oldData = [h \in OldSlots |-> NoVal]
  /\ phase = "idle" /\ req = NoReq /\ ans = NoVal

\* table_put, entered with room left.
StartPut(k, v) ==
  /\ phase = "idle" /\ ~MustGrow
  /\ phase' = "place"
  /\ req' = [key |-> k, val |-> v]
  /\ UNCHANGED <<table, growing, ans>>

\* table_put, entered at the load limit: table_grow up to its loop.
StartGrow(k, v) ==
  /\ phase = "idle" /\ MustGrow
  /\ phase' = "grow"
  /\ req' = [key |-> k, val |-> v]
  /\ oldcap' = cap /\ old' = slots /\ oldData' = data /\ i' = 0
  /\ cap' = 2 * cap
  /\ slots' = [h \in 0 .. cap' - 1 |-> EMPTY]
  /\ data' = [h \in 0 .. cap' - 1 |-> NoVal]
  /\ count' = 0 /\ tombs' = 0
  /\ UNCHANGED ans

\* One iteration of the rehash loop, over a used slot ...
Rehash(h) ==
  /\ phase = "grow" /\ i < oldcap /\ old[i] \in Keys
  /\ slots[h] \notin Keys
  /\ \A j \in Path(Home(old[i]), h) : slots[j] \in Keys
  /\ slots' = [slots EXCEPT ![h] = old[i]]
  /\ data' = [data EXCEPT ![h] = oldData[i]]
  /\ count' = count + 1
  /\ i' = i + 1
  /\ UNCHANGED <<cap, tombs, oldcap, old, oldData, phase, req, ans>>

\* Mutant: the loop index is not advanced.
MutRehashSkip ==
  /\ phase = "grow" /\ i < oldcap /\ old[i] \notin Keys
  /\ UNCHANGED vars

\* ... and over an empty slot or a tombstone, which is left behind.
RehashSkip ==
  /\ phase = "grow" /\ i < oldcap /\ old[i] \notin Keys
  /\ i' = i + 1
  /\ UNCHANGED <<table, oldcap, old, oldData, phase, req, ans>>

\* Mutant: the loop stops one slot early.
MutGrowDone ==
  /\ phase = "grow" /\ i = oldcap - 1
  /\ phase' = "place"
  /\ oldcap' = 0 /\ i' = 0 /\ old' = << >> /\ oldData' = << >>
  /\ UNCHANGED <<table, req, ans>>

\* free(old), and back in table_put.
GrowDone ==
  /\ phase = "grow" /\ i = oldcap
  /\ phase' = "place"
  /\ oldcap' = 0 /\ i' = 0
  /\ old' = [h \in 0 .. oldcap' - 1 |-> EMPTY]
  /\ oldData' = [h \in 0 .. oldcap' - 1 |-> NoVal]
  /\ UNCHANGED <<table, req, ans>>

\* table_put writes the entry at h and returns.
Write(h) ==
  /\ slots' = [slots EXCEPT ![h] = req.key]
  /\ data' = [data EXCEPT ![h] = req.val]
  /\ phase' = "idle" /\ req' = NoReq
  /\ UNCHANGED <<cap, growing, ans>>

\* The key is mapped already: re-map of the same address.
Overwrite(h) ==
  /\ phase = "place"
  /\ Stops(req.key, h) /\ slots[h] = req.key
  /\ Write(h)
  /\ UNCHANGED <<count, tombs>>

\* The key is new: the probe ends at the empty slot e, having seen no tombstone
FillEmpty(e) ==
  /\ phase = "place"
  /\ Stops(req.key, e) /\ slots[e] = EMPTY
  /\ NoTomb(req.key, e)
  /\ Write(e)
  /\ count' = count + 1
  /\ UNCHANGED tombs

\* Mutant: tombs is not decremented.
MutReuseTombCount(h, e) ==
  /\ phase = "place"
  /\ Stops(req.key, e) /\ slots[e] = EMPTY
  /\ FirstTomb(req.key, h, e)
  /\ Write(h)
  /\ count' = count + 1
  /\ UNCHANGED tombs

\* Mutant: the tombstone is taken without looking on for the key.
MutReuseTombEarly(h, e) ==
  /\ phase = "place"
  /\ FirstTomb(req.key, h, e)
  /\ \A j \in Path(Home(req.key), h) : slots[j] # req.key
  /\ Write(h)
  /\ count' = count + 1
  /\ tombs' = tombs - 1

\* ... or having seen one first at h, which is used again.
ReuseTomb(h, e) ==
  /\ phase = "place"
  /\ Stops(req.key, e) /\ slots[e] = EMPTY
  /\ FirstTomb(req.key, h, e)
  /\ Write(h)
  /\ count' = count + 1
  /\ tombs' = tombs - 1

\* Mutant: the erased slot becomes empty, not a tombstone.
MutTakeHit(k, h) ==
  /\ phase = "idle"
  /\ Stops(k, h) /\ slots[h] = k
  /\ slots' = [slots EXCEPT ![h] = EMPTY]
  /\ data' = [data EXCEPT ![h] = NoVal]
  /\ count' = count - 1
  /\ ans' = data[h]
  /\ UNCHANGED <<cap, tombs, growing, phase, req>>

\* table_find, then table_erase of what it found (shm_profiler_on_unmap).
TakeHit(k, h) ==
  /\ phase = "idle"
  /\ Stops(k, h) /\ slots[h] = k
  /\ slots' = [slots EXCEPT ![h] = TOMB]
  /\ data' = [data EXCEPT ![h] = NoVal]
  /\ count' = count - 1
  /\ tombs' = tombs + 1
  /\ ans' = data[h]
  /\ UNCHANGED <<cap, growing, phase, req>>

\* table_find of a key that is not there.
TakeMiss(k, h) ==
  /\ phase = "idle"
  /\ Stops(k, h) /\ slots[h] = EMPTY
  /\ ans' = NoVal
  /\ UNCHANGED <<table, growing, phase, req>>

Call ==
  \E k \in Keys :
    \/ \E v \in Vals : StartPut(k, v) \/ StartGrow(k, v)
    \/ \E h \in Slots : TakeHit(k, h) \/ TakeMiss(k, h)

\* What an operation that has started does next.
Advance ==
  \/ RehashSkip
  \/ GrowDone
  \/ \E h \in Slots : Rehash(h) \/ Overwrite(h) \/ FillEmpty(h)
  \/ \E h, e \in Slots : ReuseTomb(h, e)

Next == Call \/ Advance

Spec == Init /\ [][Next]_vars

\* A loop that can take its next iteration does: the thread holds the lock and
\* nothing blocks it.
FairSpec == Spec /\ WF_vars(Advance)

-----------------------------------------------------------------------------
TypeOK ==
  /\ cap \in Nat /\ cap >= InitCap
  /\ slots \in [Slots -> Slot]
  /\ data \in [Slots -> Vals \cup {NoVal}]
  /\ count \in Int /\ tombs \in Int
  /\ oldcap \in Nat /\ i \in 0 .. oldcap
  /\ old \in [OldSlots -> Slot]
  /\ oldData \in [OldSlots -> Vals \cup {NoVal}]
  /\ phase \in {"idle", "grow", "place"}
  /\ phase = "idle" => req = NoReq
  /\ phase # "idle" => req \in [key : Keys, val : Vals]
  /\ phase # "grow" => oldcap = 0
  /\ phase = "grow" => 2 * oldcap = cap
  /\ ans \in Vals \cup {NoVal}

UsedSlots == {h \in Slots : slots[h] \in Keys}
TombSlots == {h \in Slots : slots[h] = TOMB}
Waiting   == {h \in i .. oldcap - 1 : old[h] \in Keys}  \* not rehashed yet

\* count and tombs, kept by increments in five places, are what a scan of the
\* slots would find: live_count in every log line is the size of the live set.
CountInv ==
  /\ count = Cardinality(UsedSlots)
  /\ tombs = Cardinality(TombSlots)

\* The load check of table_put leaves an empty slot at all times, so the
\* `for (;;)` probes of table_put and table_find and the rehash loop all end.
ProbeEnds == \E h \in Slots : slots[h] = EMPTY

\* No address has two entries, be it in the new table, among the old slots not
\* yet rehashed, or one in each: an unmap erases the whole of what it matched.
UniqueInv ==
  /\ \A g, h \in UsedSlots : slots[g] = slots[h] => g = h
  /\ \A g, h \in Waiting : old[g] = old[h] => g = h
  /\ \A g \in UsedSlots, h \in Waiting : slots[g] # old[h]

\* A probe for a live key comes to it before it comes to an empty slot:
\* erasing, reusing tombstones and rehashing never cut a probe sequence.
PathInv ==
  \A h \in UsedSlots : \A j \in Path(Home(slots[h]), h) : slots[j] # EMPTY

\* Churn alone does not make the table grow for ever: tombstones count towards
\* the load, but an address that comes back uses its old tombstone or an
\* earlier one, so capacity is bounded by the number of distinct addresses.
CapBounded == cap = InitCap \/ 3 * cap <= 8 * Cardinality(Keys)

\* How full the table can be in each phase; with CountInv this gives ProbeEnds.
LoadInv ==
  /\ phase = "idle"  => 4 * (count + tombs) < 3 * cap + 4
  /\ phase = "place" => 4 * (count + tombs) < 3 * cap
  /\ phase = "grow"  => /\ tombs = 0
                        /\ 8 * (count + Cardinality(Waiting)) < 3 * cap + 8

\* Every slot in use or left as a tombstone can be charged to an address of its
\* own, whose probe still runs past it; this is what bounds the capacity.
Filled == {h \in Slots : slots[h] # EMPTY}
Charges(f) ==
  /\ \A g, h \in Filled : f[g] = f[h] => g = h
  /\ \A h \in UsedSlots : f[h] = slots[h]
  /\ \A h \in Filled : \A j \in Path(Home(f[h]), h) : slots[j] # EMPTY
ChargeInv == \E f \in [Filled -> Keys] : Charges(f)

\* Inductive: CountInv, UniqueInv and PathInv need LoadInv and one another ...
CoreInv == TypeOK /\ CountInv /\ LoadInv /\ UniqueInv /\ PathInv

\* ... and CapBounded needs ChargeInv on top of them.
IInv == CoreInv /\ ChargeInv /\ CapBounded

\* A table_put that has started returns: the rehash and the probe both end.
PutReturns == phase # "idle" ~> phase = "idle"

-----------------------------------------------------------------------------
\* The map the table stands for: the new slots and what is still to be rehashed.
Live == [k \in Keys |->
  IF \E h \in Slots : slots[h] = k THEN data[CHOOSE h \in Slots : slots[h] = k]
  ELSE IF \E h \in Waiting : old[h] = k THEN oldData[CHOOSE h \in Waiting : old[h] = k]
  ELSE NoVal]

Abstract == INSTANCE LiveSet WITH live <- Live

\* The table is a map: every step is an insert, a find-and-erase with the
\* answer the map gives, or changes nothing a caller can see (a rehash).
IsLiveSet == Abstract!LiveSetSpec
=============================================================================
