-------------------------- MODULE LiveTable_proofs --------------------------
(***************************************************************************)
(* Theorems about LiveTable, for every set of keys, hash function and      *)
(* initial capacity that TableAssumption allows.                           *)
(***************************************************************************)
EXTENDS LiveTable, FiniteSetTheorems, TLAPS

-----------------------------------------------------------------------------
(* Probing.                                                                *)

\* A probe starts at a slot of the table.
LEMMA HomeInSlots ==
  ASSUME TypeOK, NEW k \in Keys
  PROVE  Home(k) \in Slots
<1>1. Hash[k] \in Nat /\ cap \in Nat /\ cap > 0
  BY TableAssumption DEF TypeOK
<1> QED
  BY <1>1 DEF Home, Slots

\* Of two slots, a probe comes to one before the other.
LEMMA PathTotal ==
  ASSUME TypeOK, NEW a \in Slots, NEW g \in Slots, NEW h \in Slots, g # h
  PROVE  g \in Path(a, h) \/ h \in Path(a, g)
BY DEF TypeOK, Slots, Path

\* What a probe passes before h, it passes before anything after h.
LEMMA PathPrefix ==
  ASSUME TypeOK, NEW a \in Slots, NEW e \in Slots, NEW h \in Path(a, e)
  PROVE  h \in Slots /\ Path(a, h) \subseteq Path(a, e) /\ h # e
BY DEF TypeOK, Slots, Path

\* A probe passes slots of the table only.
LEMMA PathInSlots ==
  ASSUME TypeOK, NEW a \in Slots, NEW h \in Slots
  PROVE  Path(a, h) \subseteq Slots
BY DEF TypeOK, Slots, Path

-----------------------------------------------------------------------------
(* Types.                                                                  *)

LEMMA TypeInit == Init => TypeOK
BY TableAssumption DEF Init, TypeOK, Slots, OldSlots, Slot

LEMMA TypeStep == TypeOK /\ [Next]_vars => TypeOK'
<1> SUFFICES ASSUME TypeOK, [Next]_vars
             PROVE  TypeOK'
  OBVIOUS
<1> USE TableAssumption DEF TypeOK, Slots, OldSlots, Slot
<1>1. ASSUME NEW k \in Keys, NEW v \in Vals, StartPut(k, v)
      PROVE  TypeOK'
  BY <1>1 DEF StartPut, table, growing
<1>2. ASSUME NEW k \in Keys, NEW v \in Vals, StartGrow(k, v)
      PROVE  TypeOK'
  BY <1>2 DEF StartGrow
<1>3. ASSUME NEW k \in Keys, NEW h \in Slots, TakeHit(k, h)
      PROVE  TypeOK'
  BY <1>3 DEF TakeHit, growing
<1>4. ASSUME NEW k \in Keys, NEW h \in Slots, TakeMiss(k, h)
      PROVE  TypeOK'
  BY <1>4 DEF TakeMiss, table, growing
<1>5. CASE RehashSkip
  BY <1>5 DEF RehashSkip, table
<1>6. CASE GrowDone
  BY <1>6 DEF GrowDone, table
<1>7. ASSUME NEW h \in Slots, Rehash(h)
      PROVE  TypeOK'
  BY <1>7 DEF Rehash
<1>8. ASSUME NEW h \in Slots, Overwrite(h)
      PROVE  TypeOK'
  BY <1>8 DEF Overwrite, Write, growing
<1>9. ASSUME NEW e \in Slots, FillEmpty(e)
      PROVE  TypeOK'
  BY <1>9 DEF FillEmpty, Write, growing
<1>10. ASSUME NEW h \in Slots, NEW e \in Slots, ReuseTomb(h, e)
       PROVE  TypeOK'
  BY <1>10 DEF ReuseTomb, Write, growing
<1>11. CASE UNCHANGED vars
  BY <1>11 DEF vars, table, growing
<1> QED
  BY <1>1, <1>2, <1>3, <1>4, <1>5, <1>6, <1>7, <1>8, <1>9, <1>10, <1>11
  DEF Next, Call, Advance

\* The types are invariant: what every other theorem starts from.
THEOREM TypeCorrect == Spec => []TypeOK
BY TypeInit, TypeStep, PTL DEF Spec

-----------------------------------------------------------------------------
(* Counting.                                                               *)

LEMMA FiniteSlots ==
  ASSUME TypeOK
  PROVE  /\ IsFiniteSet(Slots) /\ Cardinality(Slots) = cap
         /\ IsFiniteSet(UsedSlots) /\ Cardinality(UsedSlots) \in Nat
         /\ IsFiniteSet(TombSlots) /\ Cardinality(TombSlots) \in Nat
         /\ IsFiniteSet(Waiting) /\ Cardinality(Waiting) \in Nat
         /\ IsFiniteSet(Filled) /\ Cardinality(Filled) \in Nat
<1>0. cap \in Nat /\ cap >= 4 /\ i \in Nat /\ oldcap \in Nat
  BY TableAssumption DEF TypeOK
<1>1. IsFiniteSet(Slots) /\ Cardinality(Slots) = cap
  BY <1>0, FS_Interval DEF Slots
<1>2. IsFiniteSet(i .. oldcap - 1)
  BY <1>0, FS_Interval
<1>3. /\ UsedSlots \subseteq Slots /\ TombSlots \subseteq Slots
      /\ Filled \subseteq Slots /\ Waiting \subseteq i .. oldcap - 1
  BY DEF UsedSlots, TombSlots, Filled, Waiting
<1>4. /\ IsFiniteSet(UsedSlots) /\ IsFiniteSet(TombSlots)
      /\ IsFiniteSet(Filled) /\ IsFiniteSet(Waiting)
  BY <1>1, <1>2, <1>3, FS_Subset
<1> QED
  BY <1>1, <1>4, FS_CardinalityType

\* The slots that are not empty are the used ones and the tombstones.
LEMMA FilledCount ==
  ASSUME TypeOK, CountInv
  PROVE  Cardinality(Filled) = count + tombs
<1>1. Filled = UsedSlots \cup TombSlots /\ UsedSlots \cap TombSlots = {}
  BY TableAssumption DEF TypeOK, Filled, UsedSlots, TombSlots, Slot
<1>2. Cardinality(Filled) = Cardinality(UsedSlots) + Cardinality(TombSlots)
                              - Cardinality({})
  BY <1>1, FiniteSlots, FS_Union
<1> QED
  BY <1>2, FiniteSlots, FS_EmptySet DEF CountInv

\* The load bound leaves an empty slot.
LEMMA RoomLeft ==
  ASSUME TypeOK, CountInv, LoadInv
  PROVE  ProbeEnds
<1> SUFFICES ASSUME \A h \in Slots : slots[h] # EMPTY
             PROVE  FALSE
  BY DEF ProbeEnds
<1>1. Filled = Slots
  BY DEF Filled
<1>2. count + tombs = cap
  BY <1>1, FilledCount, FiniteSlots
<1>3. cap \in Nat /\ cap >= 4 /\ count \in Nat /\ tombs \in Nat
      /\ Cardinality(Waiting) \in Nat
  BY FiniteSlots, TableAssumption DEF TypeOK, CountInv
<1>4. CASE phase = "idle"
  BY <1>2, <1>3, <1>4 DEF LoadInv
<1>5. CASE phase = "place"
  BY <1>2, <1>3, <1>5 DEF LoadInv
<1>6. CASE phase = "grow"
  BY <1>2, <1>3, <1>6 DEF LoadInv
<1> QED
  BY <1>4, <1>5, <1>6 DEF TypeOK

-----------------------------------------------------------------------------
(* Counts, load, uniqueness and probe paths, action by action.             *)

\* A probe that ends at an empty slot shows the key is nowhere in the table.
LEMMA NewKey ==
  ASSUME TypeOK, PathInv, NEW k \in Keys, NEW e \in Slots,
         Stops(k, e), slots[e] = EMPTY
  PROVE  \A g \in Slots : slots[g] # k
<1> SUFFICES ASSUME NEW g \in Slots, slots[g] = k
             PROVE  FALSE
  OBVIOUS
<1>1. g # e /\ Home(k) \in Slots
  BY HomeInSlots, TableAssumption
<1>2. g \notin Path(Home(k), e)
  BY DEF Stops
<1>3. e \in Path(Home(k), g)
  BY <1>1, <1>2, PathTotal
<1> QED
  BY <1>3 DEF PathInv, UsedSlots

\* Outside table_grow nothing waits to be rehashed.
LEMMA NothingWaits ==
  ASSUME TypeOK, phase # "grow"
  PROVE  Waiting = {}
BY DEF TypeOK, Waiting

\* A key goes into a slot that held none, which is emptied of a tombstone if
\* it had one; every slot the probe has passed is in use or a tombstone.
LEMMA CoreWrite ==
  ASSUME CoreInv, phase = "place", TypeOK', NEW h \in Slots,
         slots[h] \in {EMPTY, TOMB},
         \A g \in Slots : slots[g] # req.key,
         \A j \in Path(Home(req.key), h) : slots[j] # EMPTY,
         Write(h), count' = count + 1,
         tombs' = IF slots[h] = TOMB THEN tombs - 1 ELSE tombs
  PROVE  CoreInv'
<1> DEFINE k == req.key
<1>0. /\ k \in Keys /\ k # EMPTY /\ k # TOMB /\ slots[h] \notin Keys
      /\ cap' = cap /\ Slots' = Slots /\ slots' = [slots EXCEPT ![h] = k]
      /\ slots \in [Slots -> Slot] /\ phase' = "idle"
  BY TableAssumption DEF CoreInv, TypeOK, Write, Slots
<1>1. UsedSlots' = UsedSlots \cup {h} /\ h \notin UsedSlots
  BY <1>0 DEF UsedSlots
<1>2. TombSlots' = TombSlots \ {h} /\ (h \in TombSlots <=> slots[h] = TOMB)
  BY <1>0, TableAssumption DEF TombSlots
<1>3. Waiting = {} /\ Waiting' = {}
  BY <1>0, NothingWaits DEF CoreInv, TypeOK, Waiting
<1>4. CountInv'
  <2>1. Cardinality(UsedSlots') = count + 1
    BY <1>1, FiniteSlots, FS_AddElement DEF CoreInv, CountInv
  <2>2. CASE slots[h] = TOMB
    BY <1>2, <2>1, <2>2, FiniteSlots, FS_RemoveElement DEF CoreInv, CountInv
  <2>3. CASE slots[h] # TOMB
    <3>1. TombSlots' = TombSlots
      BY <1>2, <2>3
    <3> QED
      BY <3>1, <2>1, <2>3 DEF CoreInv, CountInv
  <2> QED
    BY <2>2, <2>3
<1>5. LoadInv'
  <2>1. count + tombs \in Nat /\ count \in Nat /\ tombs \in Nat /\ cap \in Nat
    BY FiniteSlots DEF CoreInv, CountInv, TypeOK
  <2> QED
    BY <1>0, <2>1 DEF CoreInv, LoadInv
<1>6. UniqueInv'
  BY <1>0, <1>1, <1>3 DEF CoreInv, UniqueInv, UsedSlots
<1>7. PathInv'
  <2> SUFFICES ASSUME NEW g \in Slots, NEW q \in Keys, slots'[g] = q,
                      NEW j \in Path(Home(q), g)
               PROVE  slots'[j] # EMPTY
    BY <1>0 DEF PathInv, UsedSlots, Path, Home
  <2>1. j \in Slots
    <3>1. Home(q) \in Slots
      BY HomeInSlots DEF CoreInv
    <3> QED
      BY <3>1, PathInSlots DEF CoreInv
  <2>2. CASE g = h
    BY <1>0, <2>1, <2>2
  <2>3. CASE g # h
    <3>1. slots[j] # EMPTY
      BY <1>0, <2>3 DEF CoreInv, PathInv, UsedSlots
    <3> QED
      BY <1>0, <2>1, <3>1
  <2> QED
    BY <2>2, <2>3
<1> QED
  BY <1>4, <1>5, <1>6, <1>7 DEF CoreInv

\* A re-map of a live address changes no slot.
LEMMA CoreOverwrite ==
  ASSUME CoreInv, TypeOK', NEW h \in Slots, Overwrite(h)
  PROVE  CoreInv'
<1>1. /\ cap' = cap /\ slots' = slots /\ count' = count /\ tombs' = tombs
      /\ old' = old /\ oldcap' = oldcap /\ i' = i
      /\ phase = "place" /\ phase' = "idle" /\ cap \in Nat
  BY DEF Overwrite, Write, growing, CoreInv, TypeOK
<1>2. /\ UsedSlots' = UsedSlots /\ TombSlots' = TombSlots /\ Waiting' = Waiting
      /\ Slots' = Slots
  BY <1>1 DEF UsedSlots, TombSlots, Waiting, Slots
<1>3. count \in Nat /\ tombs \in Nat
  BY FiniteSlots DEF CoreInv, CountInv
<1>4. CountInv' /\ UniqueInv'
  BY <1>1, <1>2 DEF CoreInv, CountInv, UniqueInv
<1>5. LoadInv'
  BY <1>1, <1>3 DEF CoreInv, LoadInv
<1>6. PathInv'
  BY <1>1, <1>2 DEF CoreInv, PathInv, Path, Home
<1> QED
  BY <1>4, <1>5, <1>6 DEF CoreInv

\* Erasing leaves a tombstone: no probe path is cut.
LEMMA CoreTakeHit ==
  ASSUME CoreInv, TypeOK', NEW k \in Keys, NEW h \in Slots, TakeHit(k, h)
  PROVE  CoreInv'
<1>1. /\ cap' = cap /\ slots' = [slots EXCEPT ![h] = TOMB] /\ slots[h] = k
      /\ count' = count - 1 /\ tombs' = tombs + 1
      /\ old' = old /\ oldcap' = oldcap /\ i' = i
      /\ phase = "idle" /\ phase' = "idle" /\ cap \in Nat /\ Slots' = Slots
      /\ slots \in [Slots -> Slot]
  BY DEF TakeHit, growing, CoreInv, TypeOK, Slots
<1>2. UsedSlots' = UsedSlots \ {h} /\ h \in UsedSlots
  BY <1>1, TableAssumption DEF UsedSlots
<1>3. TombSlots' = TombSlots \cup {h} /\ h \notin TombSlots
  BY <1>1, TableAssumption DEF TombSlots
<1>4. Waiting' = Waiting
  BY <1>1 DEF Waiting
<1>5. count \in Nat /\ tombs \in Nat
  BY FiniteSlots DEF CoreInv, CountInv
<1>6. CountInv'
  <2>1. Cardinality(UsedSlots') = count - 1
    BY <1>2, FiniteSlots, FS_RemoveElement DEF CoreInv, CountInv
  <2>2. Cardinality(TombSlots') = tombs + 1
    BY <1>3, FiniteSlots, FS_AddElement DEF CoreInv, CountInv
  <2> QED
    BY <1>1, <2>1, <2>2 DEF CountInv
<1>7. LoadInv'
  BY <1>1, <1>5 DEF CoreInv, LoadInv
<1>8. UniqueInv'
  BY <1>1, <1>2, <1>4 DEF CoreInv, UniqueInv
<1>9. PathInv'
  <2> SUFFICES ASSUME NEW g \in UsedSlots, g # h,
                      NEW j \in Path(Home(slots[g]), g)
               PROVE  slots'[j] # EMPTY
    BY <1>1, <1>2 DEF PathInv, Path, Home, UsedSlots
  <2>1. j \in Slots
    <3>1. g \in Slots /\ slots[g] \in Keys
      BY DEF UsedSlots
    <3>2. Home(slots[g]) \in Slots
      BY <3>1, HomeInSlots DEF CoreInv
    <3> QED
      BY <3>1, <3>2, PathInSlots DEF CoreInv
  <2>2. slots[j] # EMPTY
    BY DEF CoreInv, PathInv
  <2> QED
    BY <1>1, <2>1, <2>2, TableAssumption
<1> QED
  BY <1>6, <1>7, <1>8, <1>9 DEF CoreInv

\* table_grow starts with every entry waiting and none in the new slots.
LEMMA CoreStartGrow ==
  ASSUME CoreInv, TypeOK', NEW k \in Keys, NEW v \in Vals, StartGrow(k, v)
  PROVE  CoreInv'
<1>1. /\ cap \in Nat /\ cap' = 2 * cap /\ slots' = [h \in 0 .. cap' - 1 |-> EMPTY]
      /\ count' = 0 /\ tombs' = 0 /\ oldcap' = cap /\ old' = slots /\ i' = 0
      /\ phase = "idle" /\ phase' = "grow"
  BY DEF StartGrow, CoreInv, TypeOK
<1>2. UsedSlots' = {} /\ TombSlots' = {} /\ Waiting' = UsedSlots
  BY <1>1, TableAssumption DEF UsedSlots, TombSlots, Waiting, Slots
<1>3. CountInv'
  BY <1>1, <1>2, FS_EmptySet DEF CountInv
<1>4. LoadInv'
  <2>1. Cardinality(Waiting') = count /\ count \in Nat /\ tombs \in Nat
    BY <1>2, FiniteSlots DEF CoreInv, CountInv
  <2> QED
    BY <1>1, <2>1 DEF CoreInv, LoadInv
<1>5. UniqueInv' /\ PathInv'
  BY <1>1, <1>2 DEF CoreInv, UniqueInv, PathInv
<1> QED
  BY <1>3, <1>4, <1>5 DEF CoreInv

\* Rehashing moves one entry from the old slots to the new ones.
LEMMA CoreRehash ==
  ASSUME CoreInv, TypeOK', NEW h \in Slots, Rehash(h)
  PROVE  CoreInv'
<1> DEFINE k == old[i]
<1>1. /\ cap' = cap /\ slots' = [slots EXCEPT ![h] = k] /\ slots[h] \notin Keys
      /\ k \in Keys /\ i < oldcap /\ i' = i + 1 /\ old' = old /\ oldcap' = oldcap
      /\ count' = count + 1 /\ tombs' = tombs
      /\ phase = "grow" /\ phase' = "grow" /\ cap \in Nat /\ Slots' = Slots
      /\ slots \in [Slots -> Slot] /\ i \in Nat /\ oldcap \in Nat
      /\ \A j \in Path(Home(k), h) : slots[j] \in Keys
  BY DEF Rehash, CoreInv, TypeOK, Slots
<1>2. UsedSlots' = UsedSlots \cup {h} /\ h \notin UsedSlots
  BY <1>1 DEF UsedSlots
<1>3. TombSlots = {} /\ TombSlots' = {}
  <2>1. TombSlots = {}
    BY <1>1, FiniteSlots, FS_EmptySet DEF CoreInv, CountInv, LoadInv
  <2> QED
    BY <1>1, <2>1, TableAssumption DEF TombSlots
<1>4. Waiting' = Waiting \ {i} /\ i \in Waiting
  BY <1>1 DEF Waiting
<1>5. Cardinality(Waiting') = Cardinality(Waiting) - 1
  BY <1>4, FiniteSlots, FS_RemoveElement DEF CoreInv
<1>6. CountInv'
  <2>1. Cardinality(UsedSlots') = count + 1
    BY <1>2, FiniteSlots, FS_AddElement DEF CoreInv, CountInv
  <2> QED
    BY <1>1, <1>3, <2>1 DEF CoreInv, CountInv
<1>7. LoadInv'
  <2>1. count \in Nat /\ Cardinality(Waiting) \in Nat
    BY FiniteSlots DEF CoreInv, CountInv
  <2> QED
    BY <1>1, <1>5, <2>1 DEF CoreInv, LoadInv
<1>8. UniqueInv'
  <2>1. \A g \in UsedSlots : slots[g] # k
    BY <1>4 DEF CoreInv, UniqueInv
  <2>2. \A g \in Waiting \ {i} : old[g] # k
    BY <1>4 DEF CoreInv, UniqueInv
  <2>3. \A g \in UsedSlots : slots'[g] = slots[g]
    BY <1>1, <1>2 DEF UsedSlots
  <2>4. slots'[h] = k
    BY <1>1
  <2> QED
    BY <1>1, <1>2, <1>4, <2>1, <2>2, <2>3, <2>4 DEF CoreInv, UniqueInv
<1>9. PathInv'
  <2> SUFFICES ASSUME NEW g \in Slots, NEW q \in Keys, slots'[g] = q,
                      NEW j \in Path(Home(q), g)
               PROVE  slots'[j] # EMPTY
    BY <1>1 DEF PathInv, UsedSlots, Path, Home
  <2>1. j \in Slots
    <3>1. Home(q) \in Slots
      BY HomeInSlots DEF CoreInv
    <3> QED
      BY <3>1, PathInSlots DEF CoreInv
  <2>2. slots[j] # EMPTY
    BY <1>1, TableAssumption DEF CoreInv, PathInv, UsedSlots
  <2> QED
    BY <1>1, <2>1, <2>2, TableAssumption
<1> QED
  BY <1>6, <1>7, <1>8, <1>9 DEF CoreInv

\* The other steps leave the new slots alone and forget no waiting entry.
LEMMA CoreSameSlots ==
  ASSUME CoreInv, TypeOK', cap' = cap, slots' = slots,
         count' = count, tombs' = tombs, Waiting' = Waiting, LoadInv',
         \A h \in Waiting : old'[h] = old[h]
  PROVE  CoreInv'
<1>1. UsedSlots' = UsedSlots /\ TombSlots' = TombSlots
  BY DEF UsedSlots, TombSlots, Slots
<1>2. CountInv' /\ UniqueInv'
  BY <1>1 DEF CoreInv, CountInv, UniqueInv
<1>3. PathInv'
  BY <1>1 DEF CoreInv, PathInv, Path, Home
<1> QED
  BY <1>2, <1>3 DEF CoreInv

LEMMA CoreInit == Init => CoreInv
<1> SUFFICES ASSUME Init
             PROVE  CoreInv
  OBVIOUS
<1>1. TypeOK
  BY TypeInit
<1>2. UsedSlots = {} /\ TombSlots = {} /\ Waiting = {}
  BY TableAssumption DEF Init, UsedSlots, TombSlots, Waiting, Slots
<1>3. CountInv /\ LoadInv
  BY <1>2, FS_EmptySet, TableAssumption DEF Init, CountInv, LoadInv
<1>4. UniqueInv /\ PathInv
  BY <1>2 DEF UniqueInv, PathInv
<1> QED
  BY <1>1, <1>3, <1>4 DEF CoreInv

\* Nothing but the slots themselves decides where a key may be written.
LEMMA CoreFill ==
  ASSUME CoreInv, TypeOK', NEW e \in Slots, FillEmpty(e)
  PROVE  CoreInv'
<1>1. req.key \in Keys /\ slots[e] = EMPTY /\ Stops(req.key, e)
  BY DEF FillEmpty, CoreInv, TypeOK
<1>2. \A g \in Slots : slots[g] # req.key
  BY <1>1, NewKey DEF CoreInv
<1>3. \A j \in Path(Home(req.key), e) : slots[j] # EMPTY
  BY <1>1 DEF Stops
<1> QED
  BY <1>1, <1>2, <1>3, CoreWrite, TableAssumption DEF FillEmpty

LEMMA CoreReuse ==
  ASSUME CoreInv, TypeOK', NEW h \in Slots, NEW e \in Slots, ReuseTomb(h, e)
  PROVE  CoreInv'
<1>1. /\ req.key \in Keys /\ slots[e] = EMPTY /\ Stops(req.key, e)
      /\ h \in Path(Home(req.key), e) /\ slots[h] = TOMB
  BY DEF ReuseTomb, FirstTomb, CoreInv, TypeOK
<1>2. \A g \in Slots : slots[g] # req.key
  BY <1>1, NewKey DEF CoreInv
<1>3. \A j \in Path(Home(req.key), h) : slots[j] # EMPTY
  <2>1. Home(req.key) \in Slots
    BY <1>1, HomeInSlots DEF CoreInv
  <2>2. Path(Home(req.key), h) \subseteq Path(Home(req.key), e)
    BY <1>1, <2>1, PathPrefix DEF CoreInv
  <2> QED
    BY <1>1, <2>2 DEF Stops
<1> QED
  BY <1>1, <1>2, <1>3, CoreWrite DEF ReuseTomb

LEMMA CoreStep == CoreInv /\ [Next]_vars => CoreInv'
<1> SUFFICES ASSUME CoreInv, [Next]_vars
             PROVE  CoreInv'
  OBVIOUS
<1>0. TypeOK' /\ cap \in Nat /\ count \in Nat /\ tombs \in Nat
  BY TypeStep, FiniteSlots DEF CoreInv, CountInv, TypeOK
<1>1. ASSUME NEW k \in Keys, NEW v \in Vals, StartPut(k, v)
      PROVE  CoreInv'
  <2>1. Waiting' = Waiting /\ LoadInv'
    BY <1>0, <1>1 DEF StartPut, table, growing, Waiting, MustGrow, LoadInv
  <2> QED
    BY <1>0, <1>1, <2>1, CoreSameSlots DEF StartPut, table, growing
<1>2. ASSUME NEW k \in Keys, NEW v \in Vals, StartGrow(k, v)
      PROVE  CoreInv'
  BY <1>0, <1>2, CoreStartGrow
<1>3. ASSUME NEW k \in Keys, NEW h \in Slots, TakeHit(k, h)
      PROVE  CoreInv'
  BY <1>0, <1>3, CoreTakeHit
<1>4. ASSUME NEW k \in Keys, NEW h \in Slots, TakeMiss(k, h)
      PROVE  CoreInv'
  <2>1. Waiting' = Waiting /\ LoadInv'
    BY <1>4 DEF TakeMiss, table, growing, Waiting, LoadInv, CoreInv
  <2> QED
    BY <1>0, <1>4, <2>1, CoreSameSlots DEF TakeMiss, table, growing
<1>5. CASE RehashSkip
  <2>1. Waiting' = Waiting
    BY <1>5 DEF RehashSkip, Waiting, CoreInv, TypeOK
  <2>2. LoadInv'
    BY <1>5, <2>1 DEF RehashSkip, table, LoadInv, CoreInv
  <2> QED
    BY <1>0, <1>5, <2>1, <2>2, CoreSameSlots DEF RehashSkip, table
<1>6. CASE GrowDone
  <2>1. Waiting = {} /\ Waiting' = {}
    BY <1>6 DEF GrowDone, Waiting, CoreInv, TypeOK
  <2>2. LoadInv'
    BY <1>0, <1>6, <2>1, FS_EmptySet, TableAssumption
    DEF GrowDone, table, LoadInv, CoreInv, TypeOK
  <2> QED
    BY <1>0, <1>6, <2>1, <2>2, CoreSameSlots DEF GrowDone, table
<1>7. ASSUME NEW h \in Slots, Rehash(h)
      PROVE  CoreInv'
  BY <1>0, <1>7, CoreRehash
<1>8. ASSUME NEW h \in Slots, Overwrite(h)
      PROVE  CoreInv'
  BY <1>0, <1>8, CoreOverwrite
<1>9. ASSUME NEW e \in Slots, FillEmpty(e)
      PROVE  CoreInv'
  BY <1>0, <1>9, CoreFill
<1>10. ASSUME NEW h \in Slots, NEW e \in Slots, ReuseTomb(h, e)
       PROVE  CoreInv'
  BY <1>0, <1>10, CoreReuse
<1>11. CASE UNCHANGED vars
  <2>1. Waiting' = Waiting /\ LoadInv'
    BY <1>11 DEF vars, table, growing, Waiting, LoadInv, CoreInv
  <2> QED
    BY <1>0, <1>11, <2>1, CoreSameSlots DEF vars, table, growing
<1> QED
  BY <1>1, <1>2, <1>3, <1>4, <1>5, <1>6, <1>7, <1>8, <1>9, <1>10, <1>11
  DEF Next, Call, Advance

\* live_count is the size of the live set in every reachable state: the
\* counters agree with a scan of the slots.
THEOREM CountsAgree == Spec => []CountInv
<1>1. CoreInv => CountInv
  BY DEF CoreInv
<1> QED
  BY <1>1, CoreInit, CoreStep, PTL DEF Spec

\* An empty slot is always left, so no probe loop runs for ever, however many
\* addresses there are and however they collide.
THEOREM ProbesEnd == Spec => []ProbeEnds
<1>1. CoreInv => ProbeEnds
  BY RoomLeft DEF CoreInv
<1> QED
  BY <1>1, CoreInit, CoreStep, PTL DEF Spec

\* No address ever has two entries.
THEOREM EntriesUnique == Spec => []UniqueInv
<1>1. CoreInv => UniqueInv
  BY DEF CoreInv
<1> QED
  BY <1>1, CoreInit, CoreStep, PTL DEF Spec

\* No operation cuts a probe sequence: what is live can be found.
THEOREM PathsKept == Spec => []PathInv
<1>1. CoreInv => PathInv
  BY DEF CoreInv
<1> QED
  BY <1>1, CoreInit, CoreStep, PTL DEF Spec

-----------------------------------------------------------------------------
(* The bound on the capacity.                                              *)

\* Once a probe from a has come to h, it goes on to g as any probe does.
LEMMA PathJoin ==
  ASSUME TypeOK, NEW a \in Slots, NEW b \in Slots, NEW g \in Slots,
         NEW h \in Path(a, g)
  PROVE  Path(b, g) \subseteq Path(b, h) \cup {h} \cup Path(a, g)
BY DEF TypeOK, Slots, Path

\* Without tombstones every filled slot is charged to the key in it.
LEMMA ChargeUsed ==
  ASSUME CoreInv, TombSlots = {}
  PROVE  ChargeInv
<1>1. Filled = UsedSlots
  BY TableAssumption DEF CoreInv, TypeOK, Slot, Filled, UsedSlots, TombSlots
<1> DEFINE f == [h \in Filled |-> slots[h]]
<1>2. f \in [Filled -> Keys]
  BY <1>1 DEF UsedSlots
<1>3. Charges(f)
  BY <1>1 DEF Charges, CoreInv, UniqueInv, PathInv
<1> QED
  BY <1>2, <1>3 DEF ChargeInv

\* Erasing a key keeps its slot filled and its charge.
LEMMA ChargeSame ==
  ASSUME CoreInv, ChargeInv, cap' = cap, Filled' = Filled,
         \A h \in UsedSlots' : h \in UsedSlots /\ slots'[h] = slots[h]
  PROVE  ChargeInv'
<1>1. PICK f \in [Filled -> Keys] : Charges(f)
  BY DEF ChargeInv
<1>2. ASSUME NEW h \in Filled, NEW j \in Path(Home(f[h]), h)
      PROVE  slots'[j] # EMPTY
  <2>1. h \in Slots /\ Home(f[h]) \in Slots
    BY HomeInSlots DEF CoreInv, Filled
  <2>2. j \in Filled
    BY <1>1, <1>2, <2>1, PathInSlots DEF CoreInv, Charges, Filled
  <2>3. j \in Filled'
    BY <2>2
  <2> QED
    BY <2>3 DEF Filled
<1>3. Charges(f)'
  BY <1>1, <1>2 DEF Charges, Path, Home
<1> QED
  BY <1>1, <1>3 DEF ChargeInv

\* A key new to the table that passes no tombstone had nothing charged to it.
LEMMA ChargeFill ==
  ASSUME CoreInv, ChargeInv, NEW e \in Slots, FillEmpty(e)
  PROVE  ChargeInv'
<1> DEFINE k == req.key
<1>1. /\ k \in Keys /\ slots[e] = EMPTY /\ Stops(k, e) /\ NoTomb(k, e)
      /\ cap' = cap /\ slots' = [slots EXCEPT ![e] = k] /\ Slots' = Slots
      /\ slots \in [Slots -> Slot] /\ Home(k) \in Slots
  BY HomeInSlots DEF FillEmpty, Write, CoreInv, TypeOK, Slots
<1>2. PICK f \in [Filled -> Keys] : Charges(f)
  BY DEF ChargeInv
<1>3. \A g \in Slots : slots[g] # k
  BY <1>1, NewKey DEF CoreInv
<1>4. ASSUME NEW g \in Filled, f[g] = k
      PROVE  FALSE
  <2>1. g \in Slots /\ g # e
    BY <1>1 DEF Filled
  <2>2. slots[g] = TOMB
    BY <1>1, <1>2, <1>3, <1>4, <2>1 DEF Filled, UsedSlots, Charges, Slot
  <2>3. e \in Path(Home(k), g)
    BY <1>1, <2>1, <2>2, PathTotal DEF NoTomb, CoreInv
  <2> QED
    BY <1>1, <1>2, <1>4, <2>3 DEF Charges
<1> DEFINE f2 == [g \in Filled \cup {e} |-> IF g = e THEN k ELSE f[g]]
<1>5. Filled' = Filled \cup {e} /\ e \notin Filled
  BY <1>1, TableAssumption DEF Filled
<1>6. f2 \in [Filled' -> Keys]
  BY <1>1, <1>5
<1>7. \A g, h \in Filled' : f2[g] = f2[h] => g = h
  BY <1>2, <1>4, <1>5 DEF Charges
<1>8. \A h \in UsedSlots' : f2[h] = slots'[h]
  BY <1>1, <1>2, <1>5, TableAssumption DEF Charges, UsedSlots, Filled
<1>9. ASSUME NEW h \in Filled', NEW j \in Path(Home(f2[h]), h)
      PROVE  slots'[j] # EMPTY
  <2>1. h \in Slots /\ f2[h] \in Keys
    BY <1>5, <1>6 DEF Filled
  <2>2. Home(f2[h]) \in Slots
    BY <2>1, HomeInSlots DEF CoreInv
  <2>3. j \in Slots
    BY <2>1, <2>2, PathInSlots DEF CoreInv
  <2>4. slots[j] # EMPTY
    BY <1>1, <1>2, <1>5, <1>9 DEF Charges, Stops
  <2> QED
    BY <1>1, <2>3, <2>4, TableAssumption
<1>10. PICK w \in [Filled' -> Keys] : w = f2
  BY <1>6
<1>11. Charges(w)'
  <2> HIDE DEF f2
  <2> QED
    BY <1>1, <1>7, <1>8, <1>9, <1>10 DEF Charges, Path, Home
<1> QED
  BY <1>10, <1>11 DEF ChargeInv

\* A key that takes over the first tombstone it passes takes over its charge;
\* if an older tombstone was charged to that key, the two swap.
LEMMA ChargeReuse ==
  ASSUME CoreInv, ChargeInv, NEW h \in Slots, NEW e \in Slots, ReuseTomb(h, e)
  PROVE  ChargeInv'
<1> DEFINE k == req.key
<1>1. /\ k \in Keys /\ slots[e] = EMPTY /\ Stops(k, e) /\ FirstTomb(k, h, e)
      /\ cap' = cap /\ slots' = [slots EXCEPT ![h] = k] /\ Slots' = Slots
      /\ slots \in [Slots -> Slot] /\ Home(k) \in Slots
  BY HomeInSlots DEF ReuseTomb, Write, CoreInv, TypeOK, Slots
<1>2. PICK f \in [Filled -> Keys] : Charges(f)
  BY DEF ChargeInv
<1>3. \A g \in Slots : slots[g] # k
  BY <1>1, NewKey DEF CoreInv
<1>4. slots[h] = TOMB /\ h \in Filled
  BY <1>1, TableAssumption DEF FirstTomb, Filled
<1>5. Filled' = Filled
  BY <1>1, <1>4, TableAssumption DEF Filled
\* h lies on the way to the tombstone g that was charged to k.
<1>6. ASSUME NEW g \in Filled, g # h, f[g] = k
      PROVE  h \in Path(Home(k), g)
  <2>1. g \in Slots
    BY DEF Filled
  <2>2. slots[g] = TOMB
    BY <1>1, <1>2, <1>3, <1>6, <2>1 DEF Filled, UsedSlots, Charges, Slot
  <2>3. g \notin Path(Home(k), h)
    BY <1>1, <2>2 DEF FirstTomb
  <2> QED
    BY <1>1, <1>6, <2>1, <2>3, PathTotal DEF CoreInv
<1> DEFINE f2 == [g \in Filled |-> IF g = h THEN k
                                   ELSE IF f[g] = k THEN f[h] ELSE f[g]]
<1>7. f2 \in [Filled -> Keys]
  BY <1>1, <1>2, <1>4
<1>8. \A x, y \in Filled : f2[x] = f2[y] => x = y
  BY <1>2, <1>4 DEF Charges
<1>9. ASSUME NEW g \in UsedSlots'
      PROVE  f2[g] = slots'[g]
  <2>1. g \in Filled
    BY <1>1, <1>4, TableAssumption DEF UsedSlots, Filled
  <2>2. CASE g = h
    BY <1>1, <2>1, <2>2
  <2>3. CASE g # h
    <3>1. g \in UsedSlots /\ slots'[g] = slots[g] /\ slots[g] # k
      BY <1>1, <1>3, <2>3 DEF UsedSlots
    <3>2. f[g] = slots[g]
      BY <1>2, <3>1 DEF Charges
    <3> QED
      BY <2>1, <2>3, <3>1, <3>2
  <2> QED
    BY <2>2, <2>3
<1>10. ASSUME NEW g \in Filled, NEW j \in Path(Home(f2[g]), g)
       PROVE  slots'[j] # EMPTY
  <2>1. g \in Slots /\ f2[g] \in Keys /\ f[h] \in Keys
    BY <1>2, <1>4, <1>7 DEF Filled
  <2>2. Home(f2[g]) \in Slots /\ Home(f[h]) \in Slots
    BY <2>1, HomeInSlots DEF CoreInv
  <2>3. j \in Slots
    BY <2>1, <2>2, PathInSlots DEF CoreInv
  <2>4. slots[j] # EMPTY
    <3>1. CASE g = h
      <4>1. Path(Home(k), h) \subseteq Path(Home(k), e)
        BY <1>1, PathPrefix DEF FirstTomb, CoreInv
      <4> QED
        BY <1>1, <1>10, <3>1, <4>1 DEF Stops
    <3>2. CASE g # h /\ f[g] = k
      <4>1. h \in Path(Home(k), g) /\ f2[g] = f[h]
        BY <1>6, <3>2
      <4>2. j \in Path(Home(f[h]), h) \cup {h} \cup Path(Home(k), g)
        BY <1>1, <1>10, <2>1, <2>2, <4>1, PathJoin DEF CoreInv
      <4> QED
        BY <1>2, <1>4, <3>2, <4>2, TableAssumption DEF Charges
    <3>3. CASE g # h /\ f[g] # k
      BY <1>2, <1>10, <3>3 DEF Charges
    <3> QED
      BY <3>1, <3>2, <3>3
  <2> QED
    BY <1>1, <2>3, <2>4, TableAssumption
<1>11. PICK w \in [Filled' -> Keys] : w = f2
  BY <1>5, <1>7
<1>12. Charges(w)'
  <2> HIDE DEF f2
  <2> QED
    BY <1>1, <1>5, <1>8, <1>9, <1>10, <1>11 DEF Charges, Path, Home
<1> QED
  BY <1>11, <1>12 DEF ChargeInv

\* With every filled slot charged to a key of its own, they are no more than
\* the keys; table_grow needs three quarters of the slots filled.
LEMMA ChargeBound ==
  ASSUME CoreInv, ChargeInv
  PROVE  count + tombs <= Cardinality(Keys)
<1>1. PICK f \in [Filled -> Keys] : Charges(f)
  BY DEF ChargeInv
<1>2. f \in Injection(Filled, Keys)
  BY <1>1 DEF Charges, Injection, IsInjective
<1>3. Cardinality(Filled) <= Cardinality(Keys)
  BY <1>2, FS_Injection, TableAssumption
<1> QED
  BY <1>3, FilledCount DEF CoreInv

LEMMA IInvInit == Init => IInv
<1> SUFFICES ASSUME Init
             PROVE  IInv
  OBVIOUS
<1>1. CoreInv
  BY CoreInit
<1>2. TombSlots = {}
  BY TableAssumption DEF Init, TombSlots, Slots
<1> QED
  BY <1>1, <1>2, ChargeUsed DEF IInv, CapBounded, Init

LEMMA ChargeStep == CoreInv /\ ChargeInv /\ [Next]_vars => ChargeInv'
<1> SUFFICES ASSUME CoreInv, ChargeInv, [Next]_vars
             PROVE  ChargeInv'
  OBVIOUS
<1>0. CoreInv' /\ cap \in Nat /\ slots \in [Slots -> Slot]
  BY CoreStep DEF CoreInv, TypeOK
<1>1. ASSUME cap' = cap, slots' = slots
      PROVE  ChargeInv'
  <2>1. UsedSlots' = UsedSlots /\ Filled' = Filled
    BY <1>1 DEF UsedSlots, Filled, Slots
  <2> QED
    BY <1>1, <2>1, ChargeSame
<1>2. ASSUME NEW k \in Keys, NEW v \in Vals, StartGrow(k, v)
      PROVE  ChargeInv'
  <2>1. TombSlots' = {}
    BY <1>2, TableAssumption DEF StartGrow, TombSlots, Slots
  <2>2. (CoreInv /\ TombSlots = {} => ChargeInv)'
    BY ChargeUsed, PTL
  <2> QED
    BY <1>0, <2>1, <2>2
<1>3. ASSUME NEW h \in Slots, Rehash(h)
      PROVE  ChargeInv'
  <2>1. TombSlots' = {}
    <3>1. tombs' = 0
      BY <1>0, <1>3 DEF Rehash, CoreInv, LoadInv
    <3>2. Cardinality(TombSlots') = 0 /\ IsFiniteSet(TombSlots')
      <4>1. (TypeOK => IsFiniteSet(TombSlots))'
        BY FiniteSlots, PTL
      <4> QED
        BY <1>0, <3>1, <4>1 DEF CoreInv, CountInv
    <3> QED
      BY <3>2, FS_EmptySet
  <2>2. (CoreInv /\ TombSlots = {} => ChargeInv)'
    BY ChargeUsed, PTL
  <2> QED
    BY <1>0, <2>1, <2>2
<1>4. ASSUME NEW k \in Keys, NEW h \in Slots, TakeHit(k, h)
      PROVE  ChargeInv'
  <2>1. /\ cap' = cap /\ Slots' = Slots /\ slots[h] = k
        /\ slots' = [slots EXCEPT ![h] = TOMB]
    BY <1>4 DEF TakeHit, growing, Slots
  <2>2. Filled' = Filled
    BY <1>0, <2>1, TableAssumption DEF Filled
  <2>3. \A g \in UsedSlots' : g \in UsedSlots /\ slots'[g] = slots[g]
    BY <1>0, <2>1, TableAssumption DEF UsedSlots
  <2> QED
    BY <2>1, <2>2, <2>3, ChargeSame
<1>5. ASSUME NEW h \in Slots, Overwrite(h)
      PROVE  ChargeInv'
  <2>1. cap' = cap /\ slots' = slots
    BY <1>0, <1>5 DEF Overwrite, Write
  <2> QED
    BY <1>1, <2>1
<1>6. ASSUME NEW e \in Slots, FillEmpty(e)
      PROVE  ChargeInv'
  BY <1>6, ChargeFill
<1>7. ASSUME NEW h \in Slots, NEW e \in Slots, ReuseTomb(h, e)
      PROVE  ChargeInv'
  BY <1>7, ChargeReuse
<1>8. CASE \/ RehashSkip \/ GrowDone \/ UNCHANGED vars
           \/ \E k \in Keys, v \in Vals : StartPut(k, v)
           \/ \E k \in Keys, h \in Slots : TakeMiss(k, h)
  <2>1. cap' = cap /\ slots' = slots
    BY <1>8 DEF RehashSkip, GrowDone, StartPut, TakeMiss, vars, table
  <2> QED
    BY <1>1, <2>1
<1> QED
  BY <1>2, <1>3, <1>4, <1>5, <1>6, <1>7, <1>8 DEF Next, Call, Advance

LEMMA CapStep == IInv /\ [Next]_vars => CapBounded'
<1> SUFFICES ASSUME IInv, [Next]_vars
             PROVE  CapBounded'
  OBVIOUS
<1>1. ASSUME NEW k \in Keys, NEW v \in Vals, StartGrow(k, v)
      PROVE  CapBounded'
  <2>1. count + tombs <= Cardinality(Keys) /\ Cardinality(Keys) \in Nat
    BY ChargeBound, FS_CardinalityType, TableAssumption DEF IInv
  <2>2. cap \in Nat /\ count \in Int /\ tombs \in Int
    BY DEF IInv, CoreInv, TypeOK
  <2>3. cap' = 2 * cap /\ (count + tombs) * 4 >= cap * 3
    BY <1>1 DEF StartGrow, MustGrow
  <2> QED
    BY <2>1, <2>2, <2>3 DEF CapBounded
<1>2. CASE cap' = cap
  BY <1>2 DEF IInv, CapBounded
<1> QED
  BY <1>1, <1>2
  DEF Next, Call, Advance, StartPut, TakeHit, TakeMiss, RehashSkip, GrowDone,
      Rehash, Overwrite, FillEmpty, ReuseTomb, Write, vars, table

\* The capacity is bounded by the number of distinct addresses, whatever the
\* order and number of calls.
THEOREM CapacityBounded == Spec => []CapBounded
<1>1. IInv /\ [Next]_vars => IInv'
  BY CoreStep, ChargeStep, CapStep DEF IInv
<1>2. IInv => CapBounded
  BY DEF IInv
<1> QED
  BY <1>1, <1>2, IInvInit, PTL DEF Spec

-----------------------------------------------------------------------------
(* The table implements LiveSet.                                           *)

Entered(q, v) == \E h \in Slots : slots[h] = q /\ data[h] = v
Delayed(q, v) == \E h \in Waiting : old[h] = q /\ oldData[h] = v
Absent(q)     == /\ \A h \in Slots : slots[h] # q
                 /\ \A h \in Waiting : old[h] # q

\* Where the value of a key is.
Holds(q, v) == Entered(q, v) \/ Delayed(q, v) \/ (Absent(q) /\ v = NoVal)

\* Live gives each key a value that is there, and only one is there.
LEMMA LiveHolds ==
  ASSUME CoreInv, NEW q \in Keys
  PROVE  Holds(q, Live[q])
<1>1. CASE \E h \in Slots : slots[h] = q
  BY <1>1 DEF Live, Holds, Entered
<1>2. CASE (\A h \in Slots : slots[h] # q) /\ \E h \in Waiting : old[h] = q
  BY <1>2 DEF Live, Holds, Delayed
<1>3. CASE Absent(q)
  BY <1>3 DEF Live, Holds, Absent
<1> QED
  BY <1>1, <1>2, <1>3 DEF Absent

LiveUnique == \A q \in Keys : \A v : Holds(q, v) => Live[q] = v

LEMMA HoldsLive == CoreInv => LiveUnique
<1> SUFFICES ASSUME CoreInv, NEW q \in Keys, NEW v, Holds(q, v)
             PROVE  Live[q] = v
  BY DEF LiveUnique
<1>1. /\ \A g, h \in Slots : slots[g] = q /\ slots[h] = q => g = h
      /\ \A g, h \in Waiting : old[g] = q /\ old[h] = q => g = h
      /\ \A g \in Slots, h \in Waiting : ~(slots[g] = q /\ old[h] = q)
  BY DEF CoreInv, UniqueInv, UsedSlots, Waiting
<1>2. CASE Entered(q, v)
  BY <1>1, <1>2 DEF Entered, Live
<1>3. CASE Delayed(q, v)
  <2>1. ~ \E h \in Slots : slots[h] = q
    BY <1>1, <1>3 DEF Delayed
  <2> QED
    BY <1>1, <1>3, <2>1 DEF Delayed, Live
<1>4. CASE Absent(q) /\ v = NoVal
  BY <1>4 DEF Absent, Live
<1> QED
  BY <1>2, <1>3, <1>4 DEF Holds

\* A step maps to a step of LiveSet when it moves every value but one key's.
Kept(q) == \A v : Holds(q, v) => Holds(q, v)'

LEMMA LiveStep ==
  ASSUME CoreInv, CoreInv', NEW k \in Keys, NEW v, Holds(k, v)',
         \A q \in Keys \ {k} : Kept(q)
  PROVE  Live' = [Live EXCEPT ![k] = v]
<1>1. (CoreInv => LiveUnique)'
  BY HoldsLive, PTL
<1>2. ASSUME NEW q \in Keys
      PROVE  Live'[q] = IF q = k THEN v ELSE Live[q]
  <2>1. CASE q = k
    BY <1>1, <2>1 DEF LiveUnique
  <2>2. CASE q # k
    <3>1. PICK w : w = Live[q]
      OBVIOUS
    <3>2. Holds(q, w)'
      BY <2>2, <3>1, LiveHolds DEF Kept
    <3>3. Live'[q] = w
      BY <1>1, <3>2 DEF LiveUnique
    <3> QED
      BY <2>2, <3>1, <3>3
  <2> QED
    BY <2>1, <2>2
<1>3. Live' = [q \in Keys |-> Live'[q]] /\ Live = [q \in Keys |-> Live[q]]
  BY DEF Live
<1> QED
  BY <1>2, <1>3

LEMMA LiveStutter ==
  ASSUME CoreInv, CoreInv', \A q \in Keys : Kept(q)
  PROVE  Live' = Live
<1>1. (CoreInv => LiveUnique)'
  BY HoldsLive, PTL
<1>2. ASSUME NEW q \in Keys
      PROVE  Live'[q] = Live[q]
  <2>1. PICK w : w = Live[q]
    OBVIOUS
  <2>2. Holds(q, w)'
    BY <2>1, LiveHolds DEF Kept
  <2> QED
    BY <1>1, <2>1, <2>2 DEF LiveUnique
<1>3. Live' = [q \in Keys |-> Live'[q]] /\ Live = [q \in Keys |-> Live[q]]
  BY DEF Live
<1> QED
  BY <1>2, <1>3

\* table_grow: starting it, each step of its loop and ending it move no value.
LEMMA GrowKept ==
  ASSUME CoreInv, NEW q \in Keys,
         \/ \E k \in Keys, v \in Vals : StartGrow(k, v)
         \/ \E h \in Slots : Rehash(h)
         \/ RehashSkip
         \/ GrowDone
  PROVE  Kept(q)
<1> SUFFICES ASSUME NEW v, Holds(q, v)
             PROVE  Holds(q, v)'
  BY DEF Kept
<1>0. /\ cap \in Nat /\ oldcap \in Nat /\ i \in Nat /\ slots \in [Slots -> Slot]
      /\ data \in [Slots -> Vals \cup {NoVal}]
      /\ q # EMPTY /\ q # TOMB
  BY TableAssumption DEF CoreInv, TypeOK
<1>1. ASSUME NEW k \in Keys, NEW w \in Vals, StartGrow(k, w)
      PROVE  Holds(q, v)'
  <2>1. Waiting = {}
    BY <1>1, NothingWaits DEF StartGrow, CoreInv
  <2>2. /\ cap' = 2 * cap /\ slots' = [h \in 0 .. cap' - 1 |-> EMPTY]
        /\ old' = slots /\ oldData' = data /\ oldcap' = cap /\ i' = 0
    BY <1>1 DEF StartGrow
  <2>3. Waiting' = UsedSlots
    BY <2>2 DEF Waiting, UsedSlots, Slots
  <2>4. CASE Entered(q, v)
    BY <2>2, <2>3, <2>4 DEF Entered, Holds, Delayed, UsedSlots
  <2>5. CASE Absent(q) /\ v = NoVal
    BY <1>0, <2>2, <2>3, <2>5 DEF Absent, Holds, UsedSlots, Slots
  <2> QED
    BY <2>1, <2>4, <2>5 DEF Holds, Delayed
<1>2. ASSUME NEW h \in Slots, Rehash(h)
      PROVE  Holds(q, v)'
  <2>1. /\ Slots' = Slots /\ slots' = [slots EXCEPT ![h] = old[i]]
        /\ data' = [data EXCEPT ![h] = oldData[i]] /\ slots[h] \notin Keys
        /\ old' = old /\ oldData' = oldData /\ oldcap' = oldcap /\ i' = i + 1
        /\ i < oldcap /\ old[i] \in Keys
    BY <1>2 DEF Rehash, Slots
  <2>2. Waiting' = Waiting \ {i} /\ i \in Waiting
    BY <1>0, <2>1 DEF Waiting
  <2>3. CASE Entered(q, v)
    BY <1>0, <2>1, <2>3 DEF Entered, Holds
  <2>4. ASSUME NEW g \in Waiting, old[g] = q, oldData[g] = v
        PROVE  Holds(q, v)'
    <3>1. CASE g = i
      <4>1. slots'[h] = q /\ data'[h] = v
        BY <1>0, <2>1, <2>4, <3>1
      <4> QED
        BY <2>1, <4>1 DEF Holds, Entered
    <3>2. CASE g # i
      BY <2>1, <2>2, <2>4, <3>2 DEF Holds, Delayed
    <3> QED
      BY <3>1, <3>2
  <2>5. CASE Absent(q) /\ v = NoVal
    BY <1>0, <2>1, <2>2, <2>5 DEF Absent, Holds
  <2> QED
    BY <2>3, <2>4, <2>5 DEF Holds, Delayed
<1>3. CASE RehashSkip
  <2>1. Waiting' = Waiting
    BY <1>0, <1>3 DEF RehashSkip, Waiting
  <2> QED
    BY <1>3, <2>1 DEF RehashSkip, table, Holds, Entered, Delayed, Absent, Slots
<1>4. CASE GrowDone
  <2>1. Waiting = {} /\ Waiting' = {}
    BY <1>0, <1>4 DEF GrowDone, Waiting
  <2> QED
    BY <1>4, <2>1 DEF GrowDone, table, Holds, Entered, Delayed, Absent, Slots
<1> QED
  BY <1>1, <1>2, <1>3, <1>4

\* The write that ends table_put is the abstract insert.
LEMMA WriteIsPut ==
  ASSUME CoreInv, CoreInv', phase = "place", NEW h \in Slots, Write(h),
         \/ slots[h] = req.key
         \/ slots[h] \in {EMPTY, TOMB}
  PROVE  Abstract!Put(req.key, req.val)
<1>1. PICK k \in Keys, v \in Vals : k = req.key /\ v = req.val
  BY DEF CoreInv, TypeOK
<1>2. /\ Slots' = Slots /\ ans' = ans
      /\ slots' = [slots EXCEPT ![h] = k] /\ data' = [data EXCEPT ![h] = v]
      /\ slots \in [Slots -> Slot] /\ data \in [Slots -> Vals \cup {NoVal}]
      /\ Waiting = {} /\ Waiting' = {}
  BY <1>1, NothingWaits DEF Write, growing, CoreInv, TypeOK, Slots, Waiting
<1>3. Holds(k, v)'
  BY <1>2 DEF Holds, Entered
<1>4. ASSUME NEW q \in Keys \ {k}
      PROVE  Kept(q)
  BY <1>1, <1>2, TableAssumption DEF Kept, Holds, Entered, Delayed, Absent
<1>5. Live' = [Live EXCEPT ![k] = v]
  BY <1>3, <1>4, LiveStep
<1> QED
  BY <1>1, <1>2, <1>5 DEF Abstract!Put

\* Erasing what the probe found is the abstract find-and-erase ...
LEMMA TakeHitIsTake ==
  ASSUME CoreInv, CoreInv', NEW k \in Keys, NEW h \in Slots, TakeHit(k, h)
  PROVE  Abstract!Take(k)
<1>1. /\ Slots' = Slots /\ ans' = data[h] /\ slots[h] = k
      /\ slots' = [slots EXCEPT ![h] = TOMB] /\ data' = [data EXCEPT ![h] = NoVal]
      /\ slots \in [Slots -> Slot] /\ data \in [Slots -> Vals \cup {NoVal}]
      /\ Waiting = {} /\ Waiting' = {}
  BY NothingWaits DEF TakeHit, growing, CoreInv, TypeOK, Slots, Waiting
<1>2. \A g \in Slots : slots[g] = k => g = h
  BY <1>1 DEF CoreInv, UniqueInv, UsedSlots
<1>3. Live[k] = data[h]
  <2>1. Holds(k, data[h])
    BY <1>1 DEF Holds, Entered
  <2> QED
    BY <2>1, HoldsLive DEF LiveUnique
<1>4. Holds(k, NoVal)'
  BY <1>1, <1>2, TableAssumption DEF Holds, Absent
<1>5. ASSUME NEW q \in Keys \ {k}
      PROVE  Kept(q)
  BY <1>1, TableAssumption DEF Kept, Holds, Entered, Delayed, Absent
<1>6. Live' = [Live EXCEPT ![k] = NoVal]
  BY <1>4, <1>5, LiveStep
<1> QED
  BY <1>1, <1>3, <1>6 DEF Abstract!Take

\* ... and so is finding nothing.
LEMMA TakeMissIsTake ==
  ASSUME CoreInv, CoreInv', NEW k \in Keys, NEW h \in Slots, TakeMiss(k, h)
  PROVE  Abstract!Take(k)
<1>1. /\ slots' = slots /\ data' = data /\ cap' = cap /\ ans' = NoVal
      /\ old' = old /\ oldData' = oldData /\ oldcap' = oldcap /\ i' = i
  BY DEF TakeMiss, table, growing
<1>2. Waiting = {}
  BY NothingWaits DEF TakeMiss, CoreInv, TypeOK
<1>3. \A g \in Slots : slots[g] # k
  BY NewKey DEF TakeMiss, CoreInv
<1>4. Live[k] = NoVal
  BY <1>2, <1>3 DEF Live
<1>5. Live' = Live
  BY <1>1 DEF Live, Slots, Waiting
<1> QED
  BY <1>1, <1>4, <1>5 DEF Abstract!Take, Live

LEMMA StepRefines ==
  ASSUME CoreInv, CoreInv', [Next]_vars
  PROVE  [Abstract!LiveSetNext]_<<Live, ans>>
<1>1. ASSUME NEW k \in Keys, NEW v \in Vals, StartPut(k, v)
      PROVE  UNCHANGED <<Live, ans>>
  BY <1>1 DEF StartPut, table, growing, Live, Slots, Waiting
<1>2. ASSUME ans' = ans,
             \/ \E k \in Keys, v \in Vals : StartGrow(k, v)
             \/ \E h \in Slots : Rehash(h)
             \/ RehashSkip
             \/ GrowDone
      PROVE  UNCHANGED <<Live, ans>>
  BY <1>2, GrowKept, LiveStutter
<1>3. ASSUME NEW k \in Keys, NEW h \in Slots, TakeHit(k, h) \/ TakeMiss(k, h)
      PROVE  Abstract!LiveSetNext
  BY <1>3, TakeHitIsTake, TakeMissIsTake DEF Abstract!LiveSetNext
<1>4. ASSUME NEW h \in Slots, NEW e \in Slots,
             Overwrite(h) \/ FillEmpty(h) \/ ReuseTomb(h, e)
      PROVE  Abstract!LiveSetNext
  <2>1. Abstract!Put(req.key, req.val)
    BY <1>4, WriteIsPut DEF Overwrite, FillEmpty, ReuseTomb, FirstTomb
  <2> QED
    BY <1>4, <2>1 DEF Abstract!LiveSetNext, Overwrite, FillEmpty, ReuseTomb,
                      CoreInv, TypeOK
<1>5. CASE UNCHANGED vars
  BY <1>5 DEF vars, table, growing, Live, Slots, Waiting
<1> QED
  BY <1>1, <1>2, <1>3, <1>4, <1>5
  DEF Next, Call, Advance, StartGrow, Rehash, RehashSkip, GrowDone

\* The hash table is a map: whatever the collisions, tombstones and growth, a
\* caller sees an insert, or a find-and-erase that answers with the entry.
THEOREM TableIsLiveSet == Spec => IsLiveSet
<1>1. Init => Abstract!LiveSetInit
  BY TableAssumption DEF Init, Abstract!LiveSetInit, Live, Slots, Waiting
<1>2. CoreInv /\ CoreInv' /\ [Next]_vars => [Abstract!LiveSetNext]_<<Live, ans>>
  BY StepRefines
<1> QED
  BY <1>1, <1>2, CoreInit, CoreStep, PTL DEF Spec, IsLiveSet, Abstract!LiveSetSpec
=============================================================================
