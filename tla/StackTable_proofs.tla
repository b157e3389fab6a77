-------------------------- MODULE StackTable_proofs --------------------------
(***************************************************************************)
(* A stack has one number and keeps it, for every set of stacks, hash and  *)
(* capacity, and whichever allocations fail.                               *)
(***************************************************************************)
EXTENDS StackTable, TLAPS

LEMMA StartInSlots ==
  ASSUME NEW st \in Stacks
  PROVE  Start(st) \in Slots
<1>1. Hash[st] \in Nat /\ STK_CAP \in Nat \ {0}
  BY StackAssumption
<1> QED
  BY <1>1 DEF Start, Slots

\* The slot after h.
LEMMA NextSlot ==
  ASSUME NEW h \in Slots
  PROVE  (h + 1) % STK_CAP = IF h + 1 = STK_CAP THEN 0 ELSE h + 1
<1>1. h \in Nat /\ STK_CAP \in Nat \ {0} /\ h + 1 <= STK_CAP
  BY StackAssumption DEF Slots
<1> QED
  BY <1>1

\* A probe that goes on has passed where it was, and nothing else that is new.
LEMMA PathNext ==
  ASSUME NEW a \in Slots, NEW h \in Slots
  PROVE  /\ (h + 1) % STK_CAP \in Slots
         /\ Path(a, (h + 1) % STK_CAP) \subseteq Path(a, h) \cup {h}
BY StackAssumption, NextSlot DEF Slots, Path

\* Of two slots a probe comes to one before the other.
LEMMA PathTotal ==
  ASSUME NEW a \in Slots, NEW g \in Slots, NEW h \in Slots, g # h
  PROVE  g \in Path(a, h) \/ h \in Path(a, g)
BY StackAssumption DEF Slots, Path

LEMMA PathInSlots ==
  ASSUME NEW a \in Slots, NEW h \in Slots
  PROVE  Path(a, h) \subseteq Slots /\ Path(a, a) = {}
BY StackAssumption DEF Slots, Path

-----------------------------------------------------------------------------
LEMMA InitInv == Init => IInv
BY StackAssumption
DEF Init, IInv, TypeOK, NumbersInv, PlacedInv, ProbeInv, OneNumber, AnswerStands,
    Slots, stk_used, NoRet, Idle

\* At an empty slot the stack that is looked for is known to be new: its slot
\* would have to come before, where there are others, or after, behind an empty
\* one.
LEMMA EmptyMeansNew ==
  ASSUME IInv, Probing, Id < 0
  PROVE  \A n \in DOMAIN stks : stks[n] # arg
<1> SUFFICES ASSUME NEW n \in DOMAIN stks, stks[n] = arg
             PROVE  FALSE
  OBVIOUS
<1>1. arg \in Stacks /\ s \in Slots /\ n \in Nat /\ n - 1 >= 0 /\ n = n - 1 + 1
  BY DEF IInv, TypeOK, Probing, Idle
<1>2. PICK h \in Slots : /\ stk_idx[h] = n - 1
                         /\ \A j \in Path(Start(arg), h) : stk_idx[j] >= 0
  BY DEF IInv, PlacedInv
<1>3. \A j \in Path(Start(arg), s) : stk_idx[j] >= 0 /\ stks[stk_idx[j] + 1] # arg
  BY DEF IInv, ProbeInv, Probing
<1>4. h # s
  BY <1>1, <1>2 DEF Id
<1>5. h \notin Path(Start(arg), s)
  BY <1>1, <1>2, <1>3
<1>6. s \notin Path(Start(arg), h)
  BY <1>1, <1>2, StackAssumption DEF Id, IInv, TypeOK
<1> QED
  BY <1>1, <1>4, <1>5, <1>6, PathTotal, StartInSlots

LEMMA ClaimInv ==
  ASSUME IInv, Claim
  PROVE  IInv'
<1> USE StackAssumption
<1>1. CASE stk_used >= STK_CAP
  BY <1>1 DEF Claim, Answer, IInv, TypeOK, NumbersInv, PlacedInv, ProbeInv, OneNumber,
              AnswerStands, Idle, stk_used, Slots
<1>2. CASE ~(stk_used >= STK_CAP)
  <2>1. /\ stks \in Seq(Stacks) /\ arg \in Stacks /\ s \in Slots /\ Id < 0 /\ Len(stks) \in Nat
        /\ stks' = Append(stks, arg) /\ stk_idx' = [stk_idx EXCEPT ![s] = Len(stks)]
        /\ ret' = [stack |-> arg, id |-> Len(stks)] /\ arg' = NoStack /\ s' = 0
        /\ made' = made /\ Len(stks) < STK_CAP
    BY <1>2 DEF Claim, Answer, IInv, TypeOK, Probing, Idle, stk_used
  <2>2. /\ Len(stks') = Len(stks) + 1 /\ DOMAIN stks = 1 .. Len(stks)
        /\ DOMAIN stks' = 1 .. Len(stks) + 1
        /\ \A n \in DOMAIN stks : stks'[n] = stks[n]
        /\ stks'[Len(stks) + 1] = arg
    BY <2>1
  <2>3. TypeOK'
    BY <2>1, <2>2 DEF IInv, TypeOK, Slots, stk_used
  <2>4. NumbersInv'
    BY <2>1, <2>2 DEF IInv, TypeOK, NumbersInv, Slots, stk_used
  <2>5. PlacedInv'
    <3> SUFFICES ASSUME NEW n \in DOMAIN stks'
                 PROVE  \E h \in Slots :
                          /\ stk_idx'[h] = n - 1
                          /\ \A j \in Path(Start(stks'[n]), h) : stk_idx'[j] >= 0
      BY DEF PlacedInv
    <3>1. CASE n \in DOMAIN stks
      <4>1. PICK h \in Slots : /\ stk_idx[h] = n - 1
                               /\ \A j \in Path(Start(stks[n]), h) : stk_idx[j] >= 0
        BY <3>1 DEF IInv, PlacedInv
      <4>2. h # s
        BY <2>1, <2>2, <3>1, <4>1 DEF Id
      <4>3. stks[n] \in Stacks /\ stks'[n] = stks[n]
        BY <2>1, <2>2, <3>1
      <4>4. \A j \in Path(Start(stks[n]), h) : j \in Slots
        BY <4>3, StartInSlots, PathInSlots
      <4>5. \A j \in Slots : stk_idx[j] >= 0 => stk_idx'[j] >= 0
        BY <2>1 DEF IInv, TypeOK
      <4> QED
        BY <2>1, <4>1, <4>2, <4>3, <4>4, <4>5 DEF IInv, TypeOK
    <3>2. CASE n = Len(stks) + 1
      <4>1. stk_idx'[s] = n - 1 /\ stks'[n] = arg
        BY <2>1, <2>2, <3>2 DEF IInv, TypeOK
      <4>2. \A j \in Path(Start(arg), s) : stk_idx[j] >= 0 /\ j \in Slots
        BY <2>1, StartInSlots, PathInSlots DEF Claim, Probing, IInv, ProbeInv
      <4>3. \A j \in Path(Start(arg), s) : stk_idx'[j] >= 0
        BY <2>1, <4>2 DEF IInv, TypeOK
      <4> QED
        BY <2>1, <4>1, <4>3
    <3> QED
      BY <2>2, <3>1, <3>2
  <2>6. ProbeInv'
    BY <2>1 DEF ProbeInv, Idle
  <2>7. OneNumber'
    <3>1. \A n \in DOMAIN stks : stks[n] # arg
      BY EmptyMeansNew DEF Claim
    <3> QED
      BY <2>1, <2>2, <3>1 DEF IInv, OneNumber
  <2>8. AnswerStands'
    BY <2>1, <2>2 DEF AnswerStands
  <2> QED
    BY <2>3, <2>4, <2>5, <2>6, <2>7, <2>8 DEF IInv
<1> QED
  BY <1>1, <1>2

LEMMA ProbeStep ==
  ASSUME IInv, Probe
  PROVE  IInv'
<1>1. arg \in Stacks /\ s \in Slots /\ stk_idx[s] >= 0 /\ stks[stk_idx[s] + 1] # arg
  BY DEF Probe, Probing, Idle, Id, IInv, TypeOK
<1>2. /\ s' \in Slots
      /\ Path(Start(arg), s') \subseteq Path(Start(arg), s) \cup {s}
  BY <1>1, PathNext, StartInSlots DEF Probe
<1>3. ProbeInv'
  BY <1>1, <1>2 DEF Probe, Probing, IInv, ProbeInv, Idle, tables
<1> QED
  BY <1>2, <1>3 DEF Probe, IInv, TypeOK, NumbersInv, PlacedInv, OneNumber, AnswerStands,
                    tables, stk_used

LEMMA StepInv == IInv /\ [Next]_vars => IInv'
<1> SUFFICES ASSUME IInv, [Next]_vars
             PROVE  IInv'
  OBVIOUS
<1> USE StackAssumption
<1>1. ASSUME NEW st \in Stacks, AllocFails(st)
      PROVE  IInv'
  BY <1>1 DEF AllocFails, Answer, IInv, TypeOK, NumbersInv, PlacedInv, ProbeInv, OneNumber,
              AnswerStands, Idle, stk_used, Slots
<1>2. ASSUME NEW st \in Stacks, Enter(st)
      PROVE  IInv'
  <2>1. s' \in Slots /\ s' = Start(st) /\ Path(Start(st), s') = {} /\ arg' = st
    BY <1>2, StartInSlots, PathInSlots DEF Enter, Start
  <2> QED
    BY <1>2, <2>1 DEF Enter, IInv, TypeOK, NumbersInv, PlacedInv, ProbeInv, OneNumber,
                      AnswerStands, stk_used
<1>3. ASSUME Claim
      PROVE  IInv'
  BY <1>3, ClaimInv
<1>4. ASSUME Match
      PROVE  IInv'
  <2>1. /\ arg \in Stacks /\ s \in Slots /\ stk_idx[s] \in 0 .. STK_CAP - 1
        /\ stk_idx[s] < stk_used /\ stks[stk_idx[s] + 1] = arg
        /\ ret' = [stack |-> arg, id |-> stk_idx[s]] /\ arg' = NoStack /\ s' = 0
        /\ stks' = stks /\ stk_idx' = stk_idx /\ made' = made
    BY <1>4 DEF Match, Probing, Id, Idle, Answer, IInv, TypeOK, NumbersInv, tables
  <2>2. TypeOK'
    BY <2>1 DEF IInv, TypeOK, Slots, stk_used
  <2>3. NumbersInv'
    BY <2>1 DEF IInv, NumbersInv, stk_used
  <2>4. PlacedInv' /\ OneNumber'
    BY <2>1 DEF IInv, PlacedInv, OneNumber
  <2>5. ProbeInv' /\ AnswerStands'
    BY <2>1 DEF ProbeInv, Idle, AnswerStands
  <2> QED
    BY <2>2, <2>3, <2>4, <2>5 DEF IInv
<1>5. ASSUME Probe
      PROVE  IInv'
  BY <1>5, ProbeStep
<1>6. CASE UNCHANGED vars
  BY <1>6 DEF vars, tables, IInv, TypeOK, NumbersInv, PlacedInv, ProbeInv, OneNumber,
              AnswerStands, Idle, stk_used
<1> QED
  BY <1>1, <1>2, <1>3, <1>4, <1>5, <1>6 DEF Next, Advance

LEMMA Invariance == Spec => []IInv
BY InitInv, StepInv, PTL DEF Spec

\* No stack is ever numbered twice, so that what an analyser groups by stack is
\* not split (intern_stack).
THEOREM StacksNumberedOnce == Spec => []OneNumber
<1>1. IInv => OneNumber
  BY DEF IInv
<1> QED
  BY <1>1, Invariance, PTL

\* A number that was answered is that of the stack asked for, and stays it
\* (intern_stack: "append-only; ids stay valid forever").
THEOREM NumbersStand == Spec => []AnswerStands
<1>1. IInv => AnswerStands
  BY DEF IInv
<1> QED
  BY <1>1, Invariance, PTL
=============================================================================
