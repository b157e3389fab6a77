-------------------------- MODULE ShardTable_proofs --------------------------
(***************************************************************************)
(* A shard of the heap tracer's table loses nothing before as many         *)
(* addresses as it has slots have been in it, and is a map otherwise, for  *)
(* every number of slots, set of addresses and hash.                       *)
(***************************************************************************)
EXTENDS ShardTable, FiniteSetTheorems, TLAPS

-----------------------------------------------------------------------------
(* Probe paths.                                                            *)

LEMMA HomeInSlots ==
  ASSUME NEW a \in Addrs
  PROVE  Home[a] \in Slots
BY ShardAssumption

LEMMA PathInSlots ==
  ASSUME NEW a \in Slots, NEW h \in Slots
  PROVE  Path(a, h) \subseteq Slots /\ h \notin Path(a, h)
BY ShardAssumption DEF Slots, Path

\* Of two slots a probe comes to one before the other.
LEMMA PathTotal ==
  ASSUME NEW a \in Slots, NEW g \in Slots, NEW h \in Slots, g # h
  PROVE  g \in Path(a, h) \/ h \in Path(a, g)
BY ShardAssumption DEF Slots, Path

\* On its way to a slot it does not pass what it would pass later.
LEMMA PathPrefix ==
  ASSUME NEW a \in Slots, NEW h \in Slots, NEW e \in Slots, h \in Path(a, e)
  PROVE  Path(a, h) \subseteq Path(a, e)
BY ShardAssumption DEF Slots, Path

\* Another probe that comes to h goes the same way from there.
LEMMA PathJoin ==
  ASSUME NEW a \in Slots, NEW b \in Slots, NEW h \in Slots, NEW g \in Slots,
         h \in Path(a, g)
  PROVE  Path(b, g) \subseteq Path(b, h) \cup {h} \cup Path(a, g)
BY ShardAssumption DEF Slots, Path

\* A probe that ends at an empty slot has not missed the address.
LEMMA EmptyMeansAbsent ==
  ASSUME IInv, NEW a \in Addrs, NEW e \in Slots, Stops(a, e), tab[e] = EMPTY
  PROVE  \A h \in Slots : tab[h] # a
<1> SUFFICES ASSUME NEW h \in Slots, tab[h] = a
             PROVE  FALSE
  OBVIOUS
<1>1. h # e
  BY ShardAssumption
<1>2. h \notin Path(Home[a], e)
  BY DEF Stops
<1>3. e \notin Path(Home[a], h)
  BY DEF IInv, PathInv, Used
<1> QED
  BY <1>1, <1>2, <1>3, HomeInSlots, PathTotal

\* Where an entry goes: to a slot that holds none, and which its probe comes to
\* before any empty one.
LEMMA TargetFits ==
  ASSUME IInv, NEW a \in Addrs, NEW e \in Slots, Stops(a, e), tab[e] = EMPTY,
         NEW h \in Target(a, e)
  PROVE  /\ h \in Slots /\ tab[h] \in {EMPTY, TOMB}
         /\ \A j \in Path(Home[a], h) : j \in Slots /\ tab[j] \in Addrs \ {a}
         /\ tab[h] = EMPTY => h = e
<1> DEFINE tombs == {j \in Path(Home[a], e) : tab[j] = TOMB}
<1>1. Home[a] \in Slots /\ Path(Home[a], e) \subseteq Slots
  BY HomeInSlots, PathInSlots
<1>2. \A j \in Path(Home[a], e) : tab[j] \in Addrs \cup {TOMB} /\ tab[j] # a
  BY <1>1 DEF Stops, IInv, TypeOK
<1>3. CASE tombs = {}
  <2>1. h = e
    BY <1>3 DEF Target
  <2> QED
    BY <1>1, <1>2, <1>3, <2>1
<1>4. CASE tombs # {}
  <2>1. h \in tombs /\ tombs \cap Path(Home[a], h) = {}
    BY <1>4 DEF Target
  <2>2. h \in Slots /\ Path(Home[a], h) \subseteq Path(Home[a], e)
    BY <1>1, <2>1, PathPrefix
  <2>3. \A j \in Path(Home[a], h) : j \in Slots /\ tab[j] \in Addrs \ {a}
    BY <1>1, <1>2, <2>1, <2>2
  <2> QED
    BY <2>1, <2>2, <2>3, ShardAssumption
<1> QED
  BY <1>3, <1>4

-----------------------------------------------------------------------------
(* Each slot in use or worn is charged to an address of its own.           *)

\* The charge of a new entry h.  If its address a is charged with a tombstone g
\* already, that lies beyond h, and takes over what h was charged to.
LEMMA FillCharges ==
  ASSUME IInv, NEW a \in Addrs, NEW v \in Vals, NEW e \in Slots,
         Stops(a, e), tab[e] = EMPTY, NEW h \in Target(a, e), Fill(h, a, v)
  PROVE  ChargeInv'
<1> USE ShardAssumption
<1>1. PICK f \in [Filled -> seen] : Charges(f)
  BY DEF IInv, ChargeInv
<1>2. /\ h \in Slots /\ tab[h] \in {EMPTY, TOMB} /\ (tab[h] = EMPTY => h = e)
      /\ \A j \in Path(Home[a], h) : j \in Slots /\ tab[j] \in Addrs \ {a}
  BY TargetFits
<1>3. \A j \in Slots : tab[j] # a
  BY EmptyMeansAbsent
<1>4. /\ tab \in [Slots -> Addrs \cup {EMPTY, TOMB}] /\ seen \subseteq Addrs
      /\ tab' = [tab EXCEPT ![h] = a] /\ seen' = seen \cup {a}
  BY DEF Fill, IInv, TypeOK
<1>5. /\ Filled' = Filled \cup {h} /\ Used' = Used \cup {h}
      /\ \A j \in Used : j # h /\ tab'[j] = tab[j]
      /\ tab'[h] = a
      /\ \A j \in Slots : tab[j] # EMPTY => tab'[j] # EMPTY
      /\ Filled \subseteq Slots /\ Used \subseteq Slots
  BY <1>2, <1>4 DEF Filled, Used
<1>6. \A j \in Path(Home[a], h) : tab'[j] # EMPTY
  BY <1>2, <1>5
<1>7. \A g \in Filled : /\ f[g] \in Addrs
                        /\ \A j \in Path(Home[f[g]], g) : j \in Slots /\ tab'[j] # EMPTY
  <2> SUFFICES ASSUME NEW g \in Filled
               PROVE  /\ f[g] \in Addrs
                      /\ \A j \in Path(Home[f[g]], g) : j \in Slots /\ tab'[j] # EMPTY
    OBVIOUS
  <2>1. f[g] \in Addrs /\ g \in Slots
    BY <1>4, <1>5
  <2>2. Path(Home[f[g]], g) \subseteq Slots
    BY <2>1, HomeInSlots, PathInSlots
  <2>3. \A j \in Path(Home[f[g]], g) : tab[j] # EMPTY
    BY <1>1 DEF Charges
  <2> QED
    BY <1>5, <2>1, <2>2, <2>3
<1>8. CASE \A g \in Filled : f[g] # a
  <2> DEFINE f1 == [x \in Filled \cup {h} |-> IF x = h THEN a ELSE f[x]]
  <2>1. f1 \in [Filled' -> seen']
    BY <1>4, <1>5
  <2>2. \A x, y \in Filled' : f1[x] = f1[y] => x = y
    BY <1>1, <1>5, <1>8 DEF Charges
  <2>3. \A x \in Used' : f1[x] = tab'[x]
    BY <1>1, <1>5 DEF Charges, Used, Filled
  <2>4. \A x \in Filled' : \A j \in Path(Home[f1[x]], x) : tab'[j] # EMPTY
    BY <1>5, <1>6, <1>7
  <2> HIDE DEF f1
  <2> QED
    BY <2>1, <2>2, <2>3, <2>4 DEF ChargeInv, Charges
<1>9. CASE \E g \in Filled : f[g] = a
  <2>1. PICK g \in Filled : f[g] = a
    BY <1>9
  <2>2. g \in Slots /\ tab[g] = TOMB
    BY <1>1, <1>3, <1>4, <1>5, <2>1 DEF Charges, Filled, Used
  <2>3. CASE g = h
    <3>1. Filled' = Filled /\ f \in [Filled' -> seen']
      BY <1>4, <1>5, <2>3
    <3>2. \A x \in Used' : f[x] = tab'[x]
      BY <1>1, <1>5, <2>1, <2>3 DEF Charges
    <3>3. Charges(f)'
      BY <1>1, <1>7, <3>1, <3>2 DEF Charges
    <3> QED
      BY <3>1, <3>3 DEF ChargeInv
  <2>4. CASE g # h
    <3>1. h \in Path(Home[a], g)
      BY <1>2, <2>2, <2>4, HomeInSlots, PathTotal
    <3>2. h \in Filled /\ Filled' = Filled
      <4>1. \A j \in Path(Home[f[g]], g) : tab[j] # EMPTY
        BY <1>1, <2>1 DEF Charges
      <4> QED
        BY <1>2, <1>5, <2>1, <3>1, <4>1 DEF Filled
    <3> DEFINE f2 == [x \in Filled |-> IF x = h THEN a ELSE IF x = g THEN f[h] ELSE f[x]]
    <3>3. f2 \in [Filled' -> seen']
      BY <1>4, <2>1, <3>2
    <3>4. \A x, y \in Filled' : f2[x] = f2[y] => x = y
      BY <1>1, <2>1, <2>4, <3>2 DEF Charges
    <3>5. \A x \in Used' : f2[x] = tab'[x]
      BY <1>1, <1>5, <2>2, <2>4, <3>2 DEF Charges, Used, Filled
    <3>6. \A j \in Path(Home[f[h]], g) : tab'[j] # EMPTY
      <4>1. Home[a] \in Slots /\ Home[f[h]] \in Slots
        BY <1>7, <3>2
      <4>2. Path(Home[f[h]], g) \subseteq Path(Home[f[h]], h) \cup {h} \cup Path(Home[a], g)
        BY <1>2, <2>2, <3>1, <4>1, PathJoin
      <4> QED
        BY <1>5, <1>7, <2>1, <3>2, <4>2
    <3>7. \A x \in Filled' : \A j \in Path(Home[f2[x]], x) : tab'[j] # EMPTY
      BY <1>6, <1>7, <2>4, <3>2, <3>6
    <3> HIDE DEF f2
    <3> QED
      BY <3>3, <3>4, <3>5, <3>7 DEF ChargeInv, Charges
  <2> QED
    BY <2>3, <2>4
<1> QED
  BY <1>8, <1>9

\* With every slot charged there are as many addresses as slots.
LEMMA FullMeansMany ==
  ASSUME IInv, \A h \in Slots : tab[h] # EMPTY
  PROVE  Cardinality(seen) >= SHARD_CAP
<1>1. Filled = Slots
  BY DEF Filled
<1>2. PICK f \in [Slots -> seen] : \A g, h \in Slots : f[g] = f[h] => g = h
  BY <1>1 DEF IInv, ChargeInv, Charges
<1>3. IsFiniteSet(seen) /\ Cardinality(seen) \in Nat
  BY ShardAssumption, FS_Subset, FS_CardinalityType DEF IInv, TypeOK
<1>4. f \in Injection(Slots, seen)
  BY <1>2 DEF Injection, IsInjective
<1>5. Cardinality(Slots) <= Cardinality(seen)
  BY <1>3, <1>4, FS_Injection
<1>6. Cardinality(Slots) = SHARD_CAP
  BY ShardAssumption, FS_Interval DEF Slots
<1> QED
  BY <1>3, <1>5, <1>6, ShardAssumption
-----------------------------------------------------------------------------
LEMMA InitInv == Init => IInv
<1> SUFFICES ASSUME Init
             PROVE  IInv
  OBVIOUS
<1>1. Used = {} /\ Filled = {}
  BY ShardAssumption DEF Init, Used, Filled
<1>2. [x \in {} |-> NoVal] \in [Filled -> seen]
  BY <1>1
<1>3. ChargeInv
  BY <1>1, <1>2 DEF ChargeInv, Charges
<1> QED
  BY <1>1, <1>3 DEF Init, IInv, TypeOK, UniqueInv, PathInv, DataInv, EnoughSlots

LEMMA PutNewInv ==
  ASSUME IInv, NEW a \in Addrs, NEW v \in Vals, NEW e \in Slots, PutNew(a, v, e)
  PROVE  IInv'
<1> USE ShardAssumption
<1>1. PICK h \in Target(a, e) : Fill(h, a, v)
  BY DEF PutNew
<1>2. Stops(a, e) /\ tab[e] = EMPTY
  BY DEF PutNew
<1>3. /\ h \in Slots
      /\ \A j \in Path(Home[a], h) : j \in Slots /\ tab[j] \in Addrs \ {a}
  BY <1>2, TargetFits
<1>4. \A j \in Slots : tab[j] # a
  BY <1>2, EmptyMeansAbsent
<1>5. TypeOK'
  BY <1>1, <1>3 DEF Fill, IInv, TypeOK
<1>6. /\ Used' = Used \cup {h} /\ Used \subseteq Slots
      /\ tab'[h] = a /\ data'[h] = v
      /\ \A j \in Slots \ {h} : tab'[j] = tab[j] /\ data'[j] = data[j]
      /\ \A j \in Slots : tab[j] # EMPTY => tab'[j] # EMPTY
  BY <1>1, <1>3 DEF Fill, IInv, TypeOK, Used
<1>7. UniqueInv'
  BY <1>4, <1>6 DEF IInv, UniqueInv, Used
<1>8. PathInv'
  <2> SUFFICES ASSUME NEW x \in Used', NEW j \in Path(Home[tab'[x]], x)
               PROVE  tab'[j] # EMPTY
    BY DEF PathInv
  <2>1. CASE x = h
    BY <1>3, <1>6, <2>1
  <2>2. CASE x # h
    <3>1. x \in Used /\ tab'[x] = tab[x] /\ tab[x] \in Addrs /\ x \in Slots
      BY <1>6, <2>2 DEF Used
    <3>2. j \in Slots /\ tab[j] # EMPTY
      BY <3>1, HomeInSlots, PathInSlots DEF IInv, PathInv
    <3> QED
      BY <1>6, <3>2
  <2> QED
    BY <2>1, <2>2
<1>9. DataInv'
  BY <1>6 DEF IInv, DataInv
<1>10. ChargeInv'
  BY <1>1, <1>2, FillCharges
<1>11. EnoughSlots'
  BY <1>1 DEF Fill, EnoughSlots
<1> QED
  BY <1>5, <1>7, <1>8, <1>9, <1>10, <1>11 DEF IInv

LEMMA PutOverInv ==
  ASSUME IInv, NEW a \in Addrs, NEW v \in Vals, NEW h \in Slots, PutOver(a, v, h)
  PROVE  IInv'
<1> USE ShardAssumption
<1>1. /\ tab' = tab /\ lost' = "no" /\ made' = TRUE /\ found' = found
      /\ data' = [data EXCEPT ![h] = v]
      /\ Used' = Used /\ Filled' = Filled /\ h \in Used
  BY DEF PutOver, Fill, IInv, TypeOK, Used, Filled
<1>2. seen' = seen
  <2>1. PICK f \in [Filled -> seen] : Charges(f)
    BY DEF IInv, ChargeInv
  <2>2. h \in Filled /\ f[h] = a
    BY <1>1, <2>1 DEF Charges, Used, Filled, PutOver
  <2> QED
    BY <2>1, <2>2 DEF PutOver, Fill
<1>3. ChargeInv'
  BY <1>1, <1>2 DEF IInv, ChargeInv, Charges
<1>4. TypeOK' /\ DataInv'
  BY <1>1, <1>2 DEF IInv, TypeOK, DataInv, Used
<1> QED
  BY <1>1, <1>3, <1>4 DEF IInv, UniqueInv, PathInv, EnoughSlots

LEMMA DelHitInv ==
  ASSUME IInv, NEW a \in Addrs, NEW h \in Slots, DelHit(a, h)
  PROVE  IInv'
<1> USE ShardAssumption
<1>1. /\ tab' = [tab EXCEPT ![h] = TOMB] /\ found' = TRUE /\ lost' = "no"
      /\ made' = made /\ data' = data /\ seen' = seen
      /\ tab \in [Slots -> Addrs \cup {EMPTY, TOMB}] /\ tab[h] = a
  BY DEF DelHit, IInv, TypeOK
<1>2. /\ Used' = Used \ {h} /\ Filled' = Filled
      /\ \A j \in Slots \ {h} : tab'[j] = tab[j]
      /\ \A j \in Slots : tab[j] # EMPTY => tab'[j] # EMPTY
      /\ Used \subseteq Filled /\ Filled \subseteq Slots
      /\ \A j \in Used : tab[j] \in Addrs
  BY <1>1 DEF Used, Filled
<1>3. TypeOK' /\ UniqueInv' /\ DataInv' /\ EnoughSlots'
  BY <1>1, <1>2 DEF IInv, TypeOK, UniqueInv, DataInv, EnoughSlots
<1>4. PathInv'
  <2> SUFFICES ASSUME NEW x \in Used', NEW j \in Path(Home[tab'[x]], x)
               PROVE  tab'[j] # EMPTY
    BY DEF PathInv
  <2>1. x \in Used /\ x \in Slots /\ tab'[x] = tab[x] /\ tab[x] \in Addrs
    BY <1>2
  <2>2. j \in Slots /\ tab[j] # EMPTY
    BY <2>1, HomeInSlots, PathInSlots DEF IInv, PathInv
  <2> QED
    BY <1>2, <2>2
<1>5. ChargeInv'
  <2>1. PICK f \in [Filled -> seen] : Charges(f)
    BY DEF IInv, ChargeInv
  <2>2. \A x \in Used' : f[x] = tab'[x]
    BY <1>2, <2>1 DEF Charges
  <2>3. \A x \in Filled' : \A j \in Path(Home[f[x]], x) : tab'[j] # EMPTY
    <3> SUFFICES ASSUME NEW x \in Filled, NEW j \in Path(Home[f[x]], x)
                 PROVE  tab'[j] # EMPTY
      BY <1>2
    <3>1. x \in Slots /\ f[x] \in Addrs
      BY <1>2, <2>1 DEF IInv, TypeOK
    <3>2. j \in Slots /\ tab[j] # EMPTY
      BY <2>1, <3>1, HomeInSlots, PathInSlots DEF Charges
    <3> QED
      BY <1>2, <3>2
  <2>4. Charges(f)'
    BY <1>2, <2>1, <2>2, <2>3 DEF Charges
  <2> QED
    BY <1>1, <1>2, <2>4 DEF ChargeInv
<1> QED
  BY <1>3, <1>4, <1>5 DEF IInv

LEMMA StepInv == IInv /\ [Next]_vars => IInv'
<1> SUFFICES ASSUME IInv, [Next]_vars
             PROVE  IInv'
  OBVIOUS
<1>1. ASSUME <<made, tab, data, seen>>' = <<made, tab, data, seen>>,
             found' \in BOOLEAN, lost' \in {"no", "memory", "slots"},
             lost' = "slots" => Cardinality(seen) >= SHARD_CAP
      PROVE  IInv'
  <2>1. Used' = Used /\ Filled' = Filled /\ EnoughSlots'
    BY <1>1 DEF Used, Filled, EnoughSlots
  <2>2. TypeOK'
    BY <1>1, <2>1 DEF IInv, TypeOK
  <2>3. UniqueInv' /\ PathInv' /\ DataInv'
    BY <1>1, <2>1 DEF IInv, UniqueInv, PathInv, DataInv
  <2>4. ChargeInv'
    BY <1>1, <2>1 DEF IInv, ChargeInv, Charges
  <2> QED
    BY <2>1, <2>2, <2>3, <2>4 DEF IInv
<1>2. CASE PutNoTable
  BY <1>1, <1>2 DEF PutNoTable, IInv, TypeOK
<1>3. ASSUME NEW a \in Addrs, PutLost(a)
      PROVE  IInv'
  BY <1>1, <1>3, FullMeansMany DEF PutLost, IInv, TypeOK
<1>4. ASSUME NEW a \in Addrs, DelMiss(a)
      PROVE  IInv'
  BY <1>1, <1>4 DEF DelMiss
<1>5. CASE UNCHANGED vars
  BY <1>1, <1>5 DEF vars, IInv, TypeOK, EnoughSlots
<1> QED
  BY <1>2, <1>3, <1>4, <1>5, PutNewInv, PutOverInv, DelHitInv DEF Next

LEMMA Invariance == Spec => []IInv
BY InitInv, StepInv, PTL DEF Spec

\* For every size of a shard: an insertion can find no slot only when as many
\* different addresses as there are slots have been stored (table_put).
THEOREM ChargesEnough == Spec => []EnoughSlots
<1>1. IInv => EnoughSlots
  BY DEF IInv
<1> QED
  BY <1>1, Invariance, PTL

-----------------------------------------------------------------------------
(* The shard is a map that loses insertions.                               *)

LEMMA LiveAt ==
  ASSUME IInv, NEW a \in Addrs
  PROVE  /\ \A h \in Slots : tab[h] = a => Live[a] = data[h] /\ Live[a] # NoVal
         /\ (\A h \in Slots : tab[h] # a) => Live[a] = NoVal
<1>1. \A g, h \in Slots : tab[g] = a /\ tab[h] = a => g = h
  BY DEF IInv, UniqueInv, Used
<1>2. \A h \in Slots : tab[h] = a => data[h] \in Vals
  BY DEF IInv, DataInv, Used
<1> QED
  BY <1>1, <1>2, ShardAssumption DEF Live

LEMMA FillPuts ==
  ASSUME IInv, IInv', NEW a \in Addrs, NEW v \in Vals, NEW h \in Slots,
         Fill(h, a, v), tab[h] \in {EMPTY, TOMB, a}
  PROVE  Abstract!Put(a, v)
<1> USE ShardAssumption
<1>1. /\ tab'[h] = a /\ data'[h] = v /\ found' = found
      /\ \A j \in Slots \ {h} : tab'[j] = tab[j] /\ data'[j] = data[j]
  BY DEF Fill, IInv, TypeOK
<1>2. Live'[a] = v
  BY <1>1 DEF IInv, UniqueInv, Used, Live
<1>3. \A b \in Addrs \ {a} : Live'[b] = Live[b]
  <2> SUFFICES ASSUME NEW b \in Addrs \ {a}
               PROVE  Live'[b] = Live[b]
    OBVIOUS
  <2>1. tab[h] # b /\ tab'[h] # b
    BY <1>1
  <2>2. CASE \E g \in Slots : tab[g] = b
    <3>1. PICK g \in Slots : tab[g] = b
      BY <2>2
    <3>2. g # h /\ tab'[g] = b /\ data'[g] = data[g]
      BY <1>1, <2>1, <3>1
    <3>3. Live'[b] = data'[g]
      BY <3>2 DEF IInv, UniqueInv, Used, Live
    <3> QED
      BY <3>1, <3>2, <3>3, LiveAt
  <2>3. CASE \A g \in Slots : tab[g] # b
    BY <1>1, <2>1, <2>3 DEF Live
  <2> QED
    BY <2>2, <2>3
<1>4. Live = [b \in Addrs |-> Live[b]] /\ Live' = [b \in Addrs |-> Live'[b]]
  BY DEF Live
<1>5. Live' = [Live EXCEPT ![a] = v]
  BY <1>2, <1>3, <1>4
<1> QED
  BY <1>1, <1>5 DEF Abstract!Put

LEMMA DelDeletes ==
  ASSUME IInv, NEW a \in Addrs, NEW h \in Slots, DelHit(a, h)
  PROVE  Abstract!Del(a)
<1> USE ShardAssumption
<1>1. /\ tab[h] = a /\ tab'[h] = TOMB /\ found' = TRUE /\ data' = data
      /\ \A j \in Slots \ {h} : tab'[j] = tab[j]
  BY DEF DelHit, IInv, TypeOK
<1>2. \A j \in Slots : tab'[j] # a
  BY <1>1 DEF IInv, UniqueInv, Used
<1>3. Live'[a] = NoVal /\ Live[a] # NoVal
  BY <1>1, <1>2, LiveAt DEF Live
<1>4. \A b \in Addrs \ {a} : Live'[b] = Live[b]
  <2> SUFFICES ASSUME NEW b \in Addrs \ {a}
               PROVE  Live'[b] = Live[b]
    OBVIOUS
  <2>1. \A j \in Slots : tab'[j] = b <=> tab[j] = b
    BY <1>1
  <2> QED
    BY <1>1, <2>1 DEF Live
<1>5. Live = [b \in Addrs |-> Live[b]] /\ Live' = [b \in Addrs |-> Live'[b]]
  BY DEF Live
<1>6. Live' = [Live EXCEPT ![a] = NoVal]
  BY <1>3, <1>4, <1>5
<1> QED
  BY <1>1, <1>3, <1>6 DEF Abstract!Del

LEMMA StepRefines ==
  IInv /\ IInv' /\ [Next]_vars => [Abstract!LossyNext]_<<Live, found>>
<1> SUFFICES ASSUME IInv, IInv', [Next]_vars
             PROVE  [Abstract!LossyNext]_<<Live, found>>
  OBVIOUS
<1> USE ShardAssumption
<1>1. CASE PutNoTable \/ UNCHANGED vars
  BY <1>1 DEF PutNoTable, vars, Live
<1>2. ASSUME NEW a \in Addrs, PutLost(a)
      PROVE  Abstract!LossyNext
  <2>1. Live' = Live /\ found' = found /\ Live[a] = NoVal
    BY <1>2, LiveAt DEF PutLost, Live
  <2> QED
    BY <2>1 DEF Abstract!LossyNext, Abstract!Lose
<1>3. ASSUME NEW a \in Addrs, DelMiss(a)
      PROVE  Abstract!LossyNext
  <2>1. \A h \in Slots : tab[h] # a
    BY <1>3, EmptyMeansAbsent DEF DelMiss
  <2>2. Live[a] = NoVal
    BY <2>1, LiveAt
  <2>3. Live' = Live /\ found' = FALSE
    BY <1>3 DEF DelMiss, Live
  <2>4. [Live EXCEPT ![a] = NoVal] = Live
    BY <2>2 DEF Live
  <2> QED
    BY <2>2, <2>3, <2>4 DEF Abstract!LossyNext, Abstract!Del
<1>4. ASSUME NEW a \in Addrs, NEW h \in Slots, DelHit(a, h)
      PROVE  Abstract!LossyNext
  BY <1>4, DelDeletes DEF Abstract!LossyNext
<1>5. ASSUME NEW a \in Addrs, NEW v \in Vals, NEW h \in Slots, PutOver(a, v, h)
      PROVE  Abstract!LossyNext
  BY <1>5, FillPuts DEF PutOver, Abstract!LossyNext
<1>6. ASSUME NEW a \in Addrs, NEW v \in Vals, NEW e \in Slots, PutNew(a, v, e)
      PROVE  Abstract!LossyNext
  <2>1. PICK h \in Target(a, e) : Fill(h, a, v)
    BY <1>6 DEF PutNew
  <2>2. h \in Slots /\ tab[h] \in {EMPTY, TOMB}
    BY <1>6, TargetFits DEF PutNew
  <2>3. Abstract!Put(a, v)
    BY <2>1, <2>2, FillPuts
  <2> QED
    BY <2>3 DEF Abstract!LossyNext
<1> QED
  BY <1>1, <1>2, <1>3, <1>4, <1>5, <1>6 DEF Next

\* For every size, hash and set of addresses a shard is a map: it may lose an
\* insertion, but keeps, finds and deletes what it took (table_put, table_del).
THEOREM ShardIsLossyMap == Spec => IsLossyMap
<1>1. Init => Abstract!LossyInit
  BY ShardAssumption DEF Init, Abstract!LossyInit, Live
<1>2. IInv /\ IInv' /\ [Next]_vars => [Abstract!LossyNext]_<<Live, found>>
  BY StepRefines
<1> QED
  BY <1>1, <1>2, InitInv, StepInv, PTL DEF Spec, IsLossyMap, Abstract!LossySpec
=============================================================================
