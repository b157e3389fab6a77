---------------------------- MODULE DpLog_proofs ----------------------------
(***************************************************************************)
(* One flag is enough for contexts that do not overlap: the log has the    *)
(* program's events, in their order, and none of the logger's own, however *)
(* deep the logger maps and whatever the buffers hold.                     *)
(*                                                                         *)
(* And what is in the log can be read: an event that fits its buffer comes *)
(* back as it was, for every name, number and text behind the line, and    *)
(* one that was cut is refused.  That rests on what each recursion over a  *)
(* text does when the text grows by a token: the three folds of the        *)
(* reader, the digits and the escapes of the writer.                       *)
(***************************************************************************)
EXTENDS DpLog, SequenceTheorems, FiniteSetTheorems, WellFoundedInduction, TLAPS

LEMMA FrontIsStack ==
  ASSUME NEW S, NEW q \in Seq(S), q # <<>>
  PROVE  /\ Front(q) \in Seq(S) /\ Len(q) \in Nat \ {0}
         /\ Len(Front(q)) = Len(q) - 1
         /\ \A n \in 1 .. Len(q) - 1 : Front(q)[n] = q[n]
<1>1. /\ Len(q) \in Nat \ {0} /\ Front(q) = SubSeq(q, 1, Len(q) - 1)
      /\ \A n \in 1 .. Len(q) - 1 : q[n] \in S
  BY EmptySeq, ElementOfSeq DEF Front
<1>2. PICK n \in Nat : n = Len(q) - 1
  BY <1>1
<1>3. /\ SubSeq(q, 1, n) \in Seq(S)
      /\ Len(SubSeq(q, 1, n)) = IF 1 <= n THEN n - 1 + 1 ELSE 0
      /\ \A i \in 1 .. n - 1 + 1 : SubSeq(q, 1, n)[i] = q[1 + i - 1]
  BY <1>1, <1>2, SubSeqProperties
<1>4. \A i \in 1 .. n : SubSeq(q, 1, n)[i] = q[i]
  BY <1>2, <1>3
<1> QED
  BY <1>1, <1>2, <1>3, <1>4

\* What a stack of one or two calls becomes.
LEMMA ShortStacks ==
  ASSUME NEW S, NEW q \in Seq(S), q # <<>>, NEW c \in S, NEW d \in S
  PROVE  /\ Len(q) = 1 =>
              /\ Front(q) = <<>>
              /\ Len(Append(Front(q), c)) = 1 /\ Append(Front(q), c)[1] = c
              /\ LET r == Append(Append(Front(q), c), d)
                 IN  Len(r) = 2 /\ r[1] = c /\ r[2] = d
         /\ Len(q) = 2 => Len(Front(q)) = 1 /\ Front(q)[1] = q[1]
<1>1. /\ Front(q) \in Seq(S) /\ Len(q) \in Nat \ {0} /\ Len(Front(q)) = Len(q) - 1
      /\ \A n \in 1 .. Len(q) - 1 : Front(q)[n] = q[n]
  BY FrontIsStack
<1>2. ASSUME Len(q) = 1
      PROVE  Front(q) = <<>> /\ Len(Front(q)) = 0
  BY <1>1, <1>2, EmptySeq
<1>3. Append(Front(q), c) \in Seq(S) /\ Append(Append(Front(q), c), d) \in Seq(S)
  BY <1>1
<1> QED
  BY <1>1, <1>2, <1>3

\* The log is a sequence.
IsSeq == \E S : out \in Seq(S)

LEMMA LogGrows ==
  ASSUME IsSeq, NEW x, out' = Append(out, x)
  PROVE  /\ IsSeq' /\ Len(out) \in Nat /\ Len(out') = Len(out) + 1
         /\ out'[Len(out) + 1] = x /\ \A n \in 1 .. Len(out) : out'[n] = out[n]
<1>1. PICK S : out \in Seq(S)
  BY DEF IsSeq
<1>2. out \in Seq(S \cup {x}) /\ x \in S \cup {x}
  BY <1>1
<1>3. out' \in Seq(S \cup {x})
  BY <1>2
<1>4. IsSeq'
  BY <1>3 DEF IsSeq
<1> QED
  BY <1>1, <1>2, <1>4

LEMMA LogEventIs == LogEvent \in MapEvents
<1>1. MapEvents # {}
  <2>1. PICK n \in Names, a \in Addrs, s \in Sizes, r \in Rets : TRUE
    BY DpAssumption
  <2> QED
    <3> DEFINE e == [event |-> "map", shmname |-> n, addr |-> IF r >= 0 THEN a ELSE 0,
                     size |-> s, ret |-> r]
    <3>1. e \in MapEvents
      BY <2>1 DEF MapEvents
    <3> QED
      BY <3>1
<1> QED
  BY <1>1 DEF LogEvent

LEMMA InitInv == Init => IInv /\ IsSeq
<1> SUFFICES ASSUME Init
             PROVE  IInv /\ IsSeq
  OBVIOUS
<1>1. out \in Seq({})
  BY DEF Init
<1>2. TypeOK
  <2>1. \A t \in Contexts : stack[t] \in Seq(Calls)
    BY DEF Init
  <2> QED
    BY <2>1, EmptySeq DEF Init, TypeOK
<1>3. AloneInv
  <2>1. Len(out) = 0 /\ Len(done) = 0 /\ ~g_in_log
    BY DEF Init
  <2> QED
    BY <2>1 DEF Init, AloneInv, Matches
<1> QED
  BY <1>1, <1>2, <1>3 DEF IInv, IsSeq

-----------------------------------------------------------------------------
\* A call of the program by itself: nobody else is in one.
LEMMA CallInv ==
  ASSUME IInv, NEW t \in Contexts, NEW e \in MapEvents \cup UnmapEvents, Call(t, e)
  PROVE  IInv'
<1> DEFINE c == [ev |-> e, at |-> "calling", nested |-> FALSE]
<1>1. /\ stack \in [Contexts -> Seq(Calls)] /\ stack[t] = <<>> /\ c \in Calls
      /\ stack' = [stack EXCEPT ![t] = <<c>>] /\ done' = Append(done, e)
      /\ done \in Seq(MapEvents \cup UnmapEvents)
      /\ crossed' = (crossed \/ \E u \in Contexts \ {t} : stack[u] # <<>>)
      /\ g_in_log' = g_in_log /\ out' = out
  BY DEF Call, Calls, IInv, TypeOK
<1>2. <<c>> \in Seq(Calls)
  BY <1>1
<1>3. TypeOK'
  BY <1>1, <1>2 DEF IInv, TypeOK
<1>4. ASSUME ~crossed'
      PROVE  /\ \A u \in Contexts \ {t} : stack'[u] = <<>>
             /\ ~g_in_log /\ Len(out) = Len(done)
             /\ \A k \in 1 .. Len(done) : out[k].ev = done[k]
  BY <1>1, <1>4 DEF IInv, TypeOK, AloneInv, Matches
<1>5. stack'[t] = <<c>> /\ Len(stack'[t]) = 1 /\ stack'[t][1] = c
  BY <1>1
<1>6. /\ Len(done') = Len(done) + 1 /\ done'[Len(done')] = e /\ done' # <<>>
      /\ Len(done) \in Nat /\ \A k \in 1 .. Len(done) : done'[k] = done[k]
  <2>1. Len(done) \in Nat /\ done' \in Seq(MapEvents \cup UnmapEvents)
    BY <1>1
  <2>2. Len(done') = Len(done) + 1 /\ done'[Len(done) + 1] = e
    BY <1>1
  <2>3. \A k \in 1 .. Len(done) : done'[k] = done[k]
    BY <1>1
  <2>4. done' # <<>>
    BY <2>1, <2>2, EmptySeq
  <2> QED
    BY <2>1, <2>2, <2>3, <2>4
<1>7. ASSUME ~crossed'
      PROVE  AloneAt(t)'
  BY <1>1, <1>4, <1>5, <1>6, <1>7 DEF AloneAt, Matches
<1>8. stack'[t] # <<>>
  BY <1>5
<1>9. AloneInv'
  BY <1>4, <1>7, <1>8 DEF AloneInv
<1> QED
  BY <1>3, <1>9 DEF IInv

\* What a step of t's may rely on when there is no other.
LEMMA Alone ==
  ASSUME IInv, NEW t \in Contexts, stack[t] # <<>>, ~crossed
  PROVE  AloneAt(t) /\ \A u \in Contexts \ {t} : stack[u] = <<>>
BY DEF IInv, AloneInv

\* A step of t's keeps the invariant if it leaves t's call in order, or done.
LEMMA StepKeeps ==
  ASSUME IInv, NEW t \in Contexts, stack[t] # <<>>, NEW q \in Seq(Calls),
         stack' = [stack EXCEPT ![t] = q], g_in_log' \in BOOLEAN,
         done' = done, crossed' = crossed,
         ~crossed => IF q # <<>> THEN AloneAt(t)'
                     ELSE ~g_in_log' /\ Matches(Len(done))'
  PROVE  IInv'
<1>1. stack \in [Contexts -> Seq(Calls)] /\ crossed \in BOOLEAN
  BY DEF IInv, TypeOK
<1>2. TypeOK'
  BY <1>1 DEF IInv, TypeOK
<1>3. stack'[t] = q /\ \A u \in Contexts \ {t} : stack'[u] = stack[u]
  BY <1>1
<1>4. ASSUME ~crossed
      PROVE  \A u \in Contexts \ {t} : stack'[u] = <<>>
  BY <1>3, <1>4, Alone
<1>5. AloneInv'
  BY <1>3, <1>4 DEF AloneInv, Matches
<1> QED
  BY <1>2, <1>5 DEF IInv

LEMMA EnterInv ==
  ASSUME IInv, NEW t \in Contexts, Enter(t)
  PROVE  IInv'
<1> DEFINE c == [Top(t) EXCEPT !.at = "writing"]
           q == Append(Front(stack[t]), c)
<1>1. /\ stack[t] \in Seq(Calls) /\ stack[t] # <<>> /\ Top(t) \in Calls
      /\ Top(t).at = "calling" /\ ~g_in_log /\ g_in_log' = TRUE
      /\ stack' = [stack EXCEPT ![t] = q]
      /\ out' = out /\ done' = done /\ crossed' = crossed
  BY DEF Enter, Within, Put, Top, Last, IInv, TypeOK
<1>2. q \in Seq(Calls)
  <2>1. c \in Calls
    BY <1>1 DEF Calls
  <2> HIDE DEF c
  <2> QED
    BY <1>1, <2>1, FrontIsStack
<1>3. ASSUME ~crossed
      PROVE  q # <<>> /\ AloneAt(t)'
  <2>1. AloneAt(t)
    BY <1>1, <1>3, Alone
  <2>2. Len(stack[t]) = 1 /\ Top(t) = stack[t][1]
    BY <1>1, <2>1 DEF AloneAt, Top, Last
  <2>3. stack'[t] = q /\ q \in Seq(Calls) /\ c \in Calls
    BY <1>1, <1>2 DEF IInv, TypeOK, Calls
  <2>4. c.ev = stack[t][1].ev /\ c.at = "writing"
    BY <1>1, <2>2 DEF Calls
  <2> HIDE DEF c
  <2>5. Len(stack'[t]) = 1 /\ stack'[t][1] = c /\ q # <<>>
    BY <1>1, <2>2, <2>3, ShortStacks, EmptySeq
  <2> QED
    BY <1>1, <2>1, <2>2, <2>4, <2>5 DEF AloneAt, Matches
<1> HIDE DEF q
<1> QED
  BY <1>1, <1>2, <1>3, StepKeeps

\* A call that finds the flag set is the logger's own.
LEMMA DroppedInv ==
  ASSUME IInv, NEW t \in Contexts, Dropped(t)
  PROVE  IInv'
<1> DEFINE q == Front(stack[t])
<1>1. /\ stack[t] \in Seq(Calls) /\ stack[t] # <<>>
      /\ Top(t).at = "calling" /\ g_in_log /\ g_in_log' = g_in_log
      /\ stack' = [stack EXCEPT ![t] = q] /\ g_in_log \in BOOLEAN
      /\ out' = out /\ done' = done /\ crossed' = crossed
  BY DEF Dropped, Within, Pop, IInv, TypeOK
<1>2. q \in Seq(Calls)
  BY <1>1, FrontIsStack
<1>3. ASSUME ~crossed
      PROVE  q # <<>> /\ AloneAt(t)'
  <2>1. AloneAt(t)
    BY <1>1, <1>3, Alone
  <2>2. Len(stack[t]) = 2
    BY <1>1, <2>1 DEF AloneAt, Top, Last
  <2>3. stack'[t] = q /\ q \in Seq(Calls)
    BY <1>1, <1>2 DEF IInv, TypeOK
  <2>4. Len(stack'[t]) = 1 /\ stack'[t][1] = stack[t][1] /\ q # <<>>
    <3>1. Len(q) = 1 /\ q[1] = stack[t][1]
      <4>1. stack[t][1] \in Calls
        BY <1>1, <2>2, ElementOfSeq
      <4> QED
        BY <1>1, <2>2, <4>1, ShortStacks
    <3>2. q # <<>>
      BY <2>3, <3>1, EmptySeq
    <3> QED
      BY <2>3, <3>1, <3>2
  <2> QED
    BY <1>1, <2>1, <2>4 DEF AloneAt, Matches
<1> HIDE DEF q
<1> QED
  BY <1>1, <1>2, <1>3, StepKeeps

LEMMA NestsInv ==
  ASSUME IInv, NEW t \in Contexts, LogNests(t)
  PROVE  IInv'
<1> DEFINE c == [Top(t) EXCEPT !.nested = TRUE]
           d == [ev |-> LogEvent, at |-> "calling", nested |-> FALSE]
           q == Append(Append(Front(stack[t]), c), d)
<1>1. /\ stack[t] \in Seq(Calls) /\ stack[t] # <<>> /\ Top(t) \in Calls
      /\ Top(t).at = "writing" /\ g_in_log' = g_in_log /\ g_in_log \in BOOLEAN
      /\ stack' = [stack EXCEPT ![t] = q]
      /\ out' = out /\ done' = done /\ crossed' = crossed
  BY DEF LogNests, Within, Top, Last, IInv, TypeOK
<1>2. c \in Calls /\ d \in Calls
  BY <1>1, LogEventIs DEF Calls
<1>3. q \in Seq(Calls)
  BY <1>1, <1>2, FrontIsStack
<1>4. ASSUME ~crossed
      PROVE  q # <<>> /\ AloneAt(t)'
  <2>1. AloneAt(t)
    BY <1>1, <1>4, Alone
  <2>2. Len(stack[t]) = 1 /\ Top(t) = stack[t][1]
    BY <1>1, <2>1 DEF AloneAt, Top, Last
  <2>3. c.ev = stack[t][1].ev /\ c.at = "writing" /\ d.at = "calling"
    BY <1>1, <2>2 DEF Calls
  <2> HIDE DEF c, d
  <2>4. stack'[t] = q /\ q \in Seq(Calls)
    BY <1>1, <1>3 DEF IInv, TypeOK
  <2>5. /\ Len(stack'[t]) = 2 /\ stack'[t][1] = c /\ stack'[t][2] = d
        /\ q # <<>>
    BY <1>1, <1>2, <2>2, <2>4, ShortStacks, EmptySeq
  <2> QED
    BY <1>1, <2>1, <2>2, <2>3, <2>5 DEF AloneAt, Matches
<1> HIDE DEF q
<1> QED
  BY <1>1, <1>3, <1>4, StepKeeps

LEMMA LogInv ==
  ASSUME IInv, IsSeq, NEW t \in Contexts, Log(t)
  PROVE  IInv' /\ IsSeq'
<1> DEFINE c == [Top(t) EXCEPT !.at = "written"]
           q == Append(Front(stack[t]), c)
<1>1. /\ stack[t] \in Seq(Calls) /\ stack[t] # <<>> /\ Top(t) \in Calls
      /\ Top(t).at = "writing" /\ g_in_log' = g_in_log /\ g_in_log \in BOOLEAN
      /\ stack' = [stack EXCEPT ![t] = q] /\ done \in Seq(MapEvents \cup UnmapEvents)
      /\ done' = done /\ crossed' = crossed
  BY DEF Log, Within, Put, Top, Last, IInv, TypeOK
<1>2. PICK x : x.ev = Top(t).ev /\ out' = Append(out, x)
  BY DEF Log
<1>3. /\ IsSeq' /\ Len(out) \in Nat /\ Len(out') = Len(out) + 1
      /\ out'[Len(out) + 1] = x /\ \A n \in 1 .. Len(out) : out'[n] = out[n]
  BY <1>2, LogGrows
<1>4. q \in Seq(Calls)
  <2>1. c \in Calls
    BY <1>1 DEF Calls
  <2> HIDE DEF c
  <2> QED
    BY <1>1, <2>1, FrontIsStack
<1>5. ASSUME ~crossed
      PROVE  q # <<>> /\ AloneAt(t)'
  <2>1. AloneAt(t)
    BY <1>1, <1>5, Alone
  <2>2. Len(stack[t]) = 1 /\ Top(t) = stack[t][1]
    BY <1>1, <2>1 DEF AloneAt, Top, Last
  <2>3. stack'[t] = q /\ q \in Seq(Calls) /\ c \in Calls
    BY <1>1, <1>4 DEF IInv, TypeOK, Calls
  <2>4. c.ev = stack[t][1].ev /\ c.at = "written"
    BY <1>1, <2>2 DEF Calls
  <2> HIDE DEF c
  <2>5. Len(stack'[t]) = 1 /\ stack'[t][1] = c /\ q # <<>>
    BY <1>1, <2>2, <2>3, ShortStacks, EmptySeq
  <2>6. Len(done) \in Nat /\ Len(out) = Len(done) - 1 /\ x.ev = done[Len(done)]
    BY <1>1, <1>2, <2>1, <2>2 DEF AloneAt, Matches
  <2>7. Matches(Len(done))'
    BY <1>1, <1>3, <2>1, <2>2, <2>6 DEF AloneAt, Matches
  <2> QED
    BY <1>1, <2>1, <2>2, <2>4, <2>5, <2>7 DEF AloneAt
<1> HIDE DEF q
<1> QED
  BY <1>1, <1>3, <1>4, <1>5, StepKeeps

LEMMA LeaveInv ==
  ASSUME IInv, NEW t \in Contexts, Leave(t)
  PROVE  IInv'
<1> DEFINE q == Front(stack[t])
<1>1. /\ stack[t] \in Seq(Calls) /\ stack[t] # <<>>
      /\ Top(t).at = "written" /\ g_in_log' = FALSE
      /\ stack' = [stack EXCEPT ![t] = q]
      /\ out' = out /\ done' = done /\ crossed' = crossed
  BY DEF Leave, Within, Pop, IInv, TypeOK
<1>2. q \in Seq(Calls)
  BY <1>1, FrontIsStack
<1>3. ASSUME ~crossed
      PROVE  q = <<>> /\ Matches(Len(done))'
  <2>1. AloneAt(t)
    BY <1>1, <1>3, Alone
  <2>2. Len(stack[t]) = 1 /\ Top(t) = stack[t][1]
    BY <1>1, <2>1 DEF AloneAt, Top, Last
  <2>3. q = <<>>
    BY <1>1, <1>2, <2>2, FrontIsStack, EmptySeq
  <2> QED
    BY <1>1, <2>1, <2>2, <2>3 DEF AloneAt, Matches
<1> HIDE DEF q
<1> QED
  BY <1>1, <1>2, <1>3, StepKeeps

LEMMA StepInv == IInv /\ IsSeq /\ [Next]_vars => IInv' /\ IsSeq'
<1> SUFFICES ASSUME IInv, IsSeq, [Next]_vars
             PROVE  IInv' /\ IsSeq'
  OBVIOUS
<1>1. out' = out => IsSeq'
  BY DEF IsSeq
<1>2. ASSUME NEW t \in Contexts, NEW e \in MapEvents \cup UnmapEvents, Call(t, e)
      PROVE  IInv' /\ IsSeq'
  BY <1>1, <1>2, CallInv DEF Call
<1>3. ASSUME NEW t \in Contexts, Step(t)
      PROVE  IInv' /\ IsSeq'
  <2>1. CASE Enter(t)
    BY <1>1, <2>1, EnterInv DEF Enter
  <2>2. CASE Dropped(t)
    BY <1>1, <2>2, DroppedInv DEF Dropped
  <2>3. CASE LogNests(t)
    BY <1>1, <2>3, NestsInv DEF LogNests
  <2>4. CASE Log(t)
    BY <2>4, LogInv
  <2>5. CASE Leave(t)
    BY <1>1, <2>5, LeaveInv DEF Leave
  <2> QED
    BY <1>3, <2>1, <2>2, <2>3, <2>4, <2>5 DEF Step
<1>4. CASE UNCHANGED vars
  BY <1>1, <1>4 DEF vars, IInv, TypeOK, AloneInv, AloneAt, Matches
<1> QED
  BY <1>2, <1>3, <1>4 DEF Next

\* "one global flag suffices": with contexts that do not overlap the log has
\* each event of the program and none of the logger's, for any nesting.
THEOREM OneFlagSuffices == Spec => []SeesAll
<1>1. IInv => SeesAll
  <2> SUFFICES ASSUME IInv, ~crossed, \A t \in Contexts : stack[t] = <<>>
               PROVE  Len(out) = Len(done) /\ \A n \in DOMAIN done : out[n].ev = done[n]
    BY DEF SeesAll
  <2>1. DOMAIN done = 1 .. Len(done)
    BY DEF IInv, TypeOK
  <2> QED
    BY <2>1 DEF IInv, AloneInv, Matches
<1> QED
  BY <1>1, InitInv, StepInv, PTL DEF Spec

-----------------------------------------------------------------------------
(* Induction over the natural numbers, and over the subsets of a set.      *)

Less == OpToRel(<, Nat)

\* Every set of natural numbers has a least element.
LEMMA Least ==
  ASSUME NEW T, T \subseteq Nat, T # {}
  PROVE  \E x \in T : \A y \in T : x <= y
<1>1. IsWellFoundedOn(Less, Nat)
  BY NatLessThanWellFounded DEF Less
<1>2. \E x \in T : \A y \in T : ~(<<y, x>> \in Less)
  BY <1>1, WFMin
<1>3. \A x, y \in Nat : y < x => <<y, x>> \in Less
  BY DEF Less, OpToRel
<1>4. PICK x \in T : \A y \in T : ~(<<y, x>> \in Less)
  BY <1>2
<1>5. ASSUME NEW y \in T
      PROVE  x <= y
  <2>1. x \in Nat /\ y \in Nat /\ ~(y < x)
    BY <1>3, <1>4
  <2> QED
    BY <2>1
<1> QED
  BY <1>5

\* Induction, on the set of the numbers for which something holds.
LEMMA Induction ==
  ASSUME NEW T, 0 \in T, \A n \in Nat : n \in T => n + 1 \in T
  PROVE  Nat \subseteq T
<1>1. SUFFICES ASSUME Nat \ T # {} PROVE FALSE
  OBVIOUS
<1>2. PICK x \in Nat \ T : \A y \in Nat \ T : x <= y
  BY <1>1, Least
<1>3. x - 1 \in Nat /\ x - 1 \in T
  BY <1>2
<1> QED
  BY <1>2, <1>3

\* Induction over the subsets of a finite set.
LEMMA SetInduction ==
  ASSUME NEW S, IsFiniteSet(S), NEW T, {} \in T,
         \A u \in SUBSET S : u # {} /\ (\A x \in u : u \ {x} \in T) => u \in T
  PROVE  \A u \in SUBSET S : u \in T
<1> DEFINE K == {k \in Nat : \A u \in SUBSET S : Cardinality(u) = k => u \in T}
<1>1. \A u \in SUBSET S : IsFiniteSet(u) /\ Cardinality(u) \in Nat
  BY FS_Subset, FS_CardinalityType
<1>2. 0 \in K
  BY <1>1, FS_EmptySet
<1>3. ASSUME NEW k \in Nat, k \in K
      PROVE  k + 1 \in K
  <2>1. SUFFICES ASSUME NEW u \in SUBSET S, Cardinality(u) = k + 1
                 PROVE  u \in T
    OBVIOUS
  <2>2. u # {}
    BY <1>1, <2>1, FS_EmptySet
  <2>3. ASSUME NEW x \in u
        PROVE  u \ {x} \in T
    <3>1. Cardinality(u \ {x}) = k
      BY <1>1, <2>1, FS_RemoveElement
    <3> QED
      BY <1>3, <3>1
  <2> QED
    BY <2>2, <2>3
<1>4. Nat \subseteq K
  <2> HIDE DEF K
  <2> QED
    BY <1>2, <1>3, Induction
<1> QED
  BY <1>1, <1>4

\* A finite set of integers has a largest element.
LEMMA MaxOf ==
  ASSUME NEW u, IsFiniteSet(u), u \subseteq Int, u # {}
  PROVE  Max(u) \in u /\ \A x \in u : x <= Max(u)
<1> DEFINE T == {v \in SUBSET u : v # {} => \E x \in v : \A y \in v : x >= y}
<1>1. {} \in T
  OBVIOUS
<1>2. ASSUME NEW v \in SUBSET u, v # {}, \A x \in v : v \ {x} \in T
      PROVE  v \in T
  <2>1. PICK x \in v : TRUE
    BY <1>2
  <2>2. CASE v = {x}
    BY <2>1, <2>2
  <2>3. CASE v # {x}
    <3>1. v \ {x} # {} /\ v \ {x} \in T
      BY <1>2, <2>1, <2>3
    <3>2. PICK y \in v \ {x} : \A z \in v \ {x} : y >= z
      BY <3>1
    <3>3. x \in Int /\ y \in Int /\ \A z \in v : z \in Int
      BY <2>1
    <3> QED
      BY <3>2, <3>3
  <2> QED
    BY <2>2, <2>3
<1>3. \E x \in u : \A y \in u : x >= y
  <2>1. u \in SUBSET u
    OBVIOUS
  <2> HIDE DEF T
  <2>2. u \in T
    BY <1>1, <1>2, <2>1, SetInduction
  <2> QED
    BY <2>2 DEF T
<1>4. Max(u) \in u /\ \A y \in u : Max(u) >= y
  BY <1>3 DEF Max
<1> QED
  BY <1>4

LEMMA Largest ==
  ASSUME NEW n \in Nat, NEW u \in SUBSET (1 .. n), u # {}
  PROVE  Max(u) \in u /\ \A x \in u : x <= Max(u)
<1>1. IsFiniteSet(1 .. n)
  BY FS_Interval
<1>2. u \subseteq 1 .. n
  OBVIOUS
<1>3. IsFiniteSet(u)
  BY <1>1, <1>2, FS_Subset
<1>4. u \subseteq Int
  BY <1>2
<1> QED
  BY <1>3, <1>4, MaxOf

-----------------------------------------------------------------------------
(* The folds of the reader: the scan for the end of the object, a string   *)
(* without its escapes, and a number in base 10 or 16.                     *)

DigitAt(c) == CHOOSE d \in DOMAIN Digit : Digit[d] = c
Undone(m, c) ==
  IF m.esc
  THEN [esc |-> FALSE, out |-> Append(m.out, IF c = "n" THEN NEWLINE ELSE c)]
  ELSE IF c = "\\" THEN [m EXCEPT !.esc = TRUE] ELSE [m EXCEPT !.out = Append(@, c)]

\* What a fold does with one token.
OneStep(o, x, c) ==
  CASE o = "scan" -> Scan(x, c)
    [] o = "undo" -> Undone(x, c)
    [] o = "ten" -> 10 * x + DigitAt(c) - 1
    [] OTHER -> 16 * x + DigitAt(c) - 1

FoldOf(f, o, b, s, u) == IF u = {} THEN b ELSE OneStep(o, f[u \ {Max(u)}], s[Max(u)])
Folds(f, o, b, s, n) == f = [u \in SUBSET (1 .. n) |-> FoldOf(f, o, b, s, u)]

LEMMA FoldsValue ==
  ASSUME NEW o, NEW b, NEW f, NEW s, NEW n \in Nat, Folds(f, o, b, s, n),
         NEW u \in SUBSET (1 .. n)
  PROVE  f[u] = FoldOf(f, o, b, s, u)
<1> DEFINE F(w) == FoldOf(f, o, b, s, w)
<1> HIDE DEF F
<1>1. f = [w \in SUBSET (1 .. n) |-> F(w)]
  BY DEF Folds, F
<1>2. f[u] = F(u)
  BY <1>1
<1> QED
  BY <1>2 DEF F

LEMMA FoldsExist ==
  ASSUME NEW o, NEW b, NEW s, NEW n \in Nat
  PROVE  \E f : Folds(f, o, b, s, n)
<1> DEFINE T == {k \in Nat : \E f : Folds(f, o, b, s, k)}
<1>1. 0 \in T
  <2> DEFINE f == [u \in SUBSET (1 .. 0) |-> b]
  <2>1. \A u \in SUBSET (1 .. 0) : u = {}
    OBVIOUS
  <2>2. Folds(f, o, b, s, 0)
    BY <2>1 DEF Folds, FoldOf
  <2> QED
    BY <2>2
<1>2. ASSUME NEW k \in Nat, k \in T
      PROVE  k + 1 \in T
  <2>1. PICK f : Folds(f, o, b, s, k)
    BY <1>2
  <2>0. \A w \in SUBSET (1 .. k) :
          f[w] = FoldOf(f, o, b, s, w)
    BY <2>1, FoldsValue
  <2> DEFINE h == [u \in SUBSET (1 .. k + 1) |->
                     IF k + 1 \in u THEN OneStep(o, f[u \ {k + 1}], s[k + 1])
                     ELSE f[u]]
  <2>2. ASSUME NEW u \in SUBSET (1 .. k + 1)
        PROVE  h[u] = FoldOf(h, o, b, s, u)
    <3>0. \A w \in SUBSET (1 .. k + 1) : k + 1 \notin w => w \in SUBSET (1 .. k) /\ h[w] = f[w]
      OBVIOUS
    <3>1. CASE k + 1 \in u
      <4>1. Max(u) = k + 1
        <5>1. k + 1 \in Nat /\ u # {}
          BY <3>1
        <5>2. Max(u) \in u /\ k + 1 <= Max(u)
          BY <5>1, <3>1, Largest
        <5>3. Max(u) \in 1 .. k + 1
          BY <5>2
        <5> QED
          BY <5>2, <5>3
      <4>2. h[u \ {k + 1}] = f[u \ {k + 1}]
        BY <3>0
      <4>3. h[u] = OneStep(o, f[u \ {k + 1}], s[k + 1])
        BY <3>1
      <4> QED
        BY <3>1, <4>1, <4>2, <4>3 DEF FoldOf
    <3>2. CASE k + 1 \notin u
      <4>1. u \in SUBSET (1 .. k) /\ h[u] = f[u]
        BY <3>0, <3>2
      <4>2. h[u \ {Max(u)}] = f[u \ {Max(u)}]
        BY <3>0, <3>2
      <4>3. f[u] = FoldOf(f, o, b, s, u)
        BY <4>1, <2>0
      <4> HIDE DEF h
      <4> QED
        BY <4>1, <4>2, <4>3 DEF FoldOf
    <3> QED
      BY <3>1, <3>2
  <2>3. Folds(h, o, b, s, k + 1)
    <3> DEFINE G(u) == FoldOf(h, o, b, s, u)
    <3>1. \A u \in SUBSET (1 .. k + 1) : h[u] = G(u)
      BY <2>2
    <3> HIDE DEF G
    <3>2. h = [u \in SUBSET (1 .. k + 1) |-> G(u)]
      BY <3>1
    <3> HIDE DEF h
    <3> QED
      BY <3>2 DEF Folds, G
  <2> QED
    BY <2>3
<1> HIDE DEF T
<1>3. n \in T
  BY <1>1, <1>2, Induction
<1> QED
  BY <1>3 DEF T

\* Two texts begin with the same n tokens.
SameUpTo(s, z, n) == \A i \in 1 .. n : s[i] = z[i]

Fold(f, n) == f[1 .. n]

\* Two folds agree on what the texts have in common.
LEMMA FoldsAgree ==
  ASSUME NEW o, NEW b, NEW f, NEW h, NEW s, NEW z, NEW n \in Nat, NEW m \in Nat, n <= m,
         Folds(f, o, b, s, n), Folds(h, o, b, z, m), SameUpTo(s, z, n)
  PROVE  Fold(f, n) = Fold(h, n)
<1> DEFINE T == {k \in Nat : k <= n => f[1 .. k] = h[1 .. k]}
<1>1. 0 \in T
  <2>1. 1 .. 0 = {} /\ {} \in SUBSET (1 .. n) /\ {} \in SUBSET (1 .. m)
    OBVIOUS
  <2>2. f[1 .. 0] = b /\ h[1 .. 0] = b
    <3>1. f[{}] = FoldOf(f, o, b, s, {}) /\ h[{}] = FoldOf(h, o, b, z, {})
      BY <2>1, FoldsValue
    <3> QED
      BY <2>1, <3>1 DEF FoldOf
  <2> QED
    BY <2>2
<1>2. ASSUME NEW k \in Nat, k \in T
      PROVE  k + 1 \in T
  <2>1. SUFFICES ASSUME k + 1 <= n PROVE f[1 .. k + 1] = h[1 .. k + 1]
    OBVIOUS
  <2> DEFINE u == 1 .. k + 1
  <2>2. u \in SUBSET (1 .. n) /\ u \in SUBSET (1 .. m) /\ u # {}
    BY <2>1
  <2>3. Max(u) = k + 1
    <3>1. k + 1 \in Nat /\ k + 1 \in u /\ u \in SUBSET (1 .. k + 1)
      OBVIOUS
    <3>2. Max(u) \in u /\ k + 1 <= Max(u)
      BY <3>1, <2>2, Largest
    <3> QED
      BY <3>2
  <2>4. u \ {k + 1} = 1 .. k
    OBVIOUS
  <2> HIDE DEF u
  <2>5. f[u] = OneStep(o, f[1 .. k], s[k + 1])
    <3>1. f[u] = FoldOf(f, o, b, s, u)
      BY <2>2, FoldsValue
    <3> QED
      BY <2>2, <2>3, <2>4, <3>1 DEF FoldOf
  <2>6. h[u] = OneStep(o, h[1 .. k], z[k + 1])
    <3>1. h[u] = FoldOf(h, o, b, z, u)
      BY <2>2, FoldsValue
    <3> QED
      BY <2>2, <2>3, <2>4, <3>1 DEF FoldOf
  <2>7. f[1 .. k] = h[1 .. k] /\ s[k + 1] = z[k + 1]
    BY <1>2, <2>1 DEF SameUpTo
  <2> QED
    BY <2>5, <2>6, <2>7 DEF u
<1> HIDE DEF T
<1>3. n \in T
  BY <1>1, <1>2, Induction
<1> QED
  BY <1>3 DEF T, Fold

\* What a text is folded to.
Folded(o, b, s, n) == (CHOOSE f : Folds(f, o, b, s, n))[1 .. n]

\* A token more is a step more.
LEMMA FoldMore ==
  ASSUME NEW o, NEW b, NEW s, NEW z, NEW n \in Nat, NEW m \in Nat, m = n + 1,
         DOMAIN s = 1 .. n, DOMAIN z = 1 .. m, \A i \in 1 .. n : s[i] = z[i]
  PROVE  Folded(o, b, z, m) = OneStep(o, Folded(o, b, s, n), z[m])
<1>1. PICK f : Folds(f, o, b, s, n) /\ Folded(o, b, s, n) = f[1 .. n]
  BY FoldsExist DEF Folded
<1>2. PICK h : Folds(h, o, b, z, m) /\ Folded(o, b, z, m) = h[1 .. m]
  BY FoldsExist DEF Folded
<1>3. Fold(f, n) = Fold(h, n)
  <2>1. n <= m
    OBVIOUS
  <2> QED
    <3>1. Folds(f, o, b, s, n) /\ Folds(h, o, b, z, m)
      BY <1>1, <1>2
    <3>2. SameUpTo(s, z, n)
      BY DEF SameUpTo
    <3> QED
      BY <2>1, <3>1, <3>2, FoldsAgree
<1> DEFINE u == 1 .. m
<1>4. m \in u /\ u # {} /\ u \in SUBSET (1 .. m)
  <2>1. m \in u
    OBVIOUS
  <2> QED
    BY <2>1
<1>5. u \ {m} = 1 .. n
  OBVIOUS
<1> HIDE DEF u
<1>6. Max(u) = m
  <2>1. Max(u) \in u /\ m <= Max(u)
    BY <1>4, Largest
  <2>2. Max(u) \in 1 .. m
    BY <2>1, <1>4
  <2> QED
    BY <2>1, <2>2
<1>7. h[u] = FoldOf(h, o, b, z, u)
  <2>1. Folds(h, o, b, z, m)
    BY <1>2
  <2>2. \A w \in SUBSET (1 .. m) : h[w] = FoldOf(h, o, b, z, w)
    BY <2>1, FoldsValue
  <2> QED
    BY <1>4, <2>2
<1> QED
  BY <1>1, <1>2, <1>3, <1>4, <1>5, <1>6, <1>7 DEF u, Fold, FoldOf

LEMMA FoldNone ==
  ASSUME NEW o, NEW b, NEW s
  PROVE  Folded(o, b, s, 0) = b
<1> DEFINE z == 0
<1>1. z \in Nat
  OBVIOUS
<1>2. 1 .. z = {} /\ {} \in SUBSET (1 .. z)
  OBVIOUS
<1> HIDE DEF z
<1>3. PICK f : Folds(f, o, b, s, z) /\ Folded(o, b, s, z) = f[1 .. z]
  BY <1>1, FoldsExist DEF Folded
<1>4. f[1 .. z] = b
  <2>1. f[{}] = FoldOf(f, o, b, s, {})
    BY <1>1, <1>2, <1>3, FoldsValue
  <2> QED
    BY <1>2, <2>1 DEF FoldOf
<1> QED
  BY <1>3, <1>4 DEF z

\* One token more.
LEMMA FoldAppend ==
  ASSUME NEW o, NEW b, NEW X, NEW s \in Seq(X), NEW c \in X
  PROVE  Folded(o, b, Append(s, c), Len(Append(s, c))) = OneStep(o, Folded(o, b, s, Len(s)), c)
<1> DEFINE z == Append(s, c)
           n == Len(s)
           m == Len(z)
<1>1. /\ n \in Nat /\ m \in Nat /\ m = n + 1 /\ DOMAIN s = 1 .. n /\ DOMAIN z = 1 .. m
      /\ z[m] = c /\ \A i \in 1 .. n : s[i] = z[i]
  OBVIOUS
<1> HIDE DEF z, n, m
<1>2. Folded(o, b, z, m) = OneStep(o, Folded(o, b, s, n), z[m])
  BY <1>1, FoldMore
<1> QED
  BY <1>1, <1>2 DEF z, n, m

\* The three folds are of this kind: what FoldLeft chooses is such a fold.
LEMMA FoldChosen ==
  ASSUME NEW o, NEW b, NEW s, NEW n \in Nat, NEW f, Folds(f, o, b, s, n)
  PROVE  f[1 .. n] = Folded(o, b, s, n)
<1>1. PICK h : Folds(h, o, b, s, n) /\ Folded(o, b, s, n) = h[1 .. n]
  BY FoldsExist DEF Folded
<1>2. Fold(f, n) = Fold(h, n)
  <2>1. n <= n /\ SameUpTo(s, s, n)
    BY DEF SameUpTo
  <2> QED
    BY <1>1, <2>1, FoldsAgree
<1> QED
  BY <1>1, <1>2 DEF Fold

ScanFold(f, b, s) ==
  f = [u \in SUBSET (DOMAIN s) |-> IF u = {} THEN b ELSE Scan(f[u \ {Max(u)}], s[Max(u)])]

LEMMA ScanFolds ==
  ASSUME NEW b, NEW s, NEW n \in Nat, DOMAIN s = 1 .. n
  PROVE  FoldLeft(Scan, b, s) = Folded("scan", b, s, n)
<1>1. \A f : Folds(f, "scan", b, s, n) <=> ScanFold(f, b, s)
  BY DEF Folds, FoldOf, OneStep, ScanFold
<1>2. FoldLeft(Scan, b, s) = (CHOOSE f : ScanFold(f, b, s))[DOMAIN s]
  BY DEF FoldLeft, MapThenFoldSet, ScanFold
<1>3. Folds(CHOOSE f : ScanFold(f, b, s), "scan", b, s, n)
  <2>1. \E f : ScanFold(f, b, s)
    BY <1>1, FoldsExist
  <2> QED
    BY <1>1, <2>1
<1> QED
  BY <1>2, <1>3, FoldChosen

UndoFold(f, b, s) ==
  f = [u \in SUBSET (DOMAIN s) |-> IF u = {} THEN b ELSE Undone(f[u \ {Max(u)}], s[Max(u)])]

LEMMA UndoFolds ==
  ASSUME NEW text, NEW n \in Nat, DOMAIN SubSeq(text, 2, Len(text) - 1) = 1 .. n
  PROVE  Unquoted(text) =
           Folded("undo", [esc |-> FALSE, out |-> <<>>], SubSeq(text, 2, Len(text) - 1), n).out
<1> DEFINE s == SubSeq(text, 2, Len(text) - 1)
           b == [esc |-> FALSE, out |-> <<>>]
<1>2. Unquoted(text) = (CHOOSE f : UndoFold(f, b, s))[DOMAIN s].out
  BY DEF FoldLeft, MapThenFoldSet, UndoFold, Unquoted, Undone
<1>0. DOMAIN s = 1 .. n
  OBVIOUS
<1> HIDE DEF s, b
<1>1. \A f : Folds(f, "undo", b, s, n) <=> UndoFold(f, b, s)
  BY <1>0 DEF Folds, FoldOf, OneStep, UndoFold
<1>3. Folds(CHOOSE f : UndoFold(f, b, s), "undo", b, s, n)
  <2>1. \E f : UndoFold(f, b, s)
    BY <1>1, FoldsExist
  <2> QED
    BY <1>1, <2>1
<1>4. Unquoted(text) = Folded("undo", b, s, n).out
  BY <1>0, <1>2, <1>3, FoldChosen
<1> QED
  BY <1>4 DEF s, b

\* base is 10 or 16.
Kind(base) == IF base = 10 THEN "ten" ELSE "hex"
ValueFold(f, base, s) ==
  f = [u \in SUBSET (DOMAIN s) |->
         IF u = {} THEN 0 ELSE base * f[u \ {Max(u)}] + DigitAt(s[Max(u)]) - 1]

LEMMA ValueFolds ==
  ASSUME NEW base \in {10, 16}, NEW s, NEW n \in Nat, DOMAIN s = 1 .. n
  PROVE  Value(base, s) = Folded(Kind(base), 0, s, n)
<1>1. \A f : Folds(f, Kind(base), 0, s, n) <=> ValueFold(f, base, s)
  <2>1. CASE base = 10
    BY <2>1 DEF Folds, FoldOf, OneStep, ValueFold, Kind
  <2>2. CASE base = 16
    BY <2>2 DEF Folds, FoldOf, OneStep, ValueFold, Kind
  <2> QED
    BY <2>1, <2>2
<1>2. Value(base, s) = (CHOOSE f : ValueFold(f, base, s))[DOMAIN s]
  BY DEF FoldLeft, MapThenFoldSet, ValueFold, Value, DigitAt
<1>3. Folds(CHOOSE f : ValueFold(f, base, s), Kind(base), 0, s, n)
  <2>1. \E f : ValueFold(f, base, s)
    BY <1>1, FoldsExist
  <2> QED
    BY <1>1, <2>1
<1> QED
  BY <1>2, <1>3, FoldChosen

\* What the fold makes of a whole text.
Run(o, b, s) == Folded(o, b, s, Len(s))

LEMMA RunNone ==
  ASSUME NEW o, NEW b
  PROVE  Run(o, b, <<>>) = b
BY FoldNone DEF Run

LEMMA RunAppend ==
  ASSUME NEW o, NEW b, NEW X, NEW s \in Seq(X), NEW c \in X
  PROVE  Run(o, b, Append(s, c)) = OneStep(o, Run(o, b, s), c)
BY FoldAppend DEF Run

-----------------------------------------------------------------------------
(* Numbers: what is written is read back.                                  *)

\* Induction that may look at all numbers below.
LEMMA Below0 ==
  ASSUME NEW T, \A n \in Nat : (\A k \in 0 .. n - 1 : k \in T) => n \in T
  PROVE  Nat \subseteq T
<1>1. SUFFICES ASSUME Nat \ T # {} PROVE FALSE
  OBVIOUS
<1>2. PICK x \in Nat \ T : \A y \in Nat \ T : x <= y
  BY <1>1, Least
<1>3. \A k \in 0 .. x - 1 : k \in T
  BY <1>2
<1> QED
  BY <1>2, <1>3

LEMMA Parts ==
  ASSUME NEW base \in {10, 16}, NEW n \in Nat
  PROVE  /\ n % base \in 0 .. base - 1 /\ n \div base \in Nat
         /\ n = base * (n \div base) + (n % base)
         /\ n >= base => n \div base \in 0 .. n - 1
<1>1. CASE base = 10
  BY <1>1
<1>2. CASE base = 16
  BY <1>2
<1> QED
  BY <1>1, <1>2

Char(k) == Digit[k + 1]
Chars == {Char(k) : k \in 0 .. 15}

LEMMA CharsAre ==
  /\ \A k \in 0 .. 15 : DigitAt(Char(k)) = k + 1
  /\ Chars = {Digit[n] : n \in 1 .. 16}
<1>1. DOMAIN Digit = 1 .. 16
  BY DEF Digit
<1>2. \A i, j \in 1 .. 16 : Digit[i] = Digit[j] => i = j
  BY DEF Digit
<1>4. ASSUME NEW k \in 0 .. 15
      PROVE  DigitAt(Char(k)) = k + 1
  <2>1. k + 1 \in 1 .. 16
    OBVIOUS
  <2> DEFINE x == CHOOSE d \in 1 .. 16 : Digit[d] = Digit[k + 1]
  <2>2. x = k + 1
    BY <1>2, <2>1
  <2> QED
    BY <1>1, <2>2 DEF DigitAt, Char
<1>5. Chars = {Digit[n] : n \in 1 .. 16}
  <2>1. \A n \in 1 .. 16 : n - 1 \in 0 .. 15 /\ Char(n - 1) = Digit[n]
    <3> TAKE n \in 1 .. 16
    <3>1. (n - 1) + 1 = n
      OBVIOUS
    <3> QED
      BY <3>1 DEF Char
  <2>2. \A k \in 0 .. 15 : k + 1 \in 1 .. 16 /\ Char(k) = Digit[k + 1]
    BY DEF Char
  <2> QED
    BY <2>1, <2>2 DEF Chars
<1> QED
  BY <1>4, <1>5

\* The digits of all numbers, and of those up to one.
DigitsFrom(base, d, n) == <<Char(n % base)>> \o IF n < base THEN << >> ELSE d[n \div base]
DigitsUpTo(base, d, n) == d = [k \in 0 .. n |-> DigitsFrom(base, d, k)]
Digits(base, d) == d = [k \in Nat |-> DigitsFrom(base, d, k)]

\* Numeral's function exists, and its values are given by the smaller ones.
LEMMA NumeralIs ==
  ASSUME NEW base \in {10, 16}, NEW v
  PROVE  Numeral(base, v) = Reverse((CHOOSE d : Digits(base, d))[v])
<1>1. \A d : Digits(base, d) <=> d = [n \in Nat |-> <<Digit[(n % base) + 1]>>
                                   \o IF n < base THEN << >> ELSE d[n \div base]]
  BY DEF Digits, DigitsFrom, Char
<1> QED
  BY <1>1 DEF Numeral

LEMMA DigitsUpToValue ==
  ASSUME NEW base \in {10, 16}, NEW d, NEW n \in Nat, DigitsUpTo(base, d, n)
  PROVE  \A k \in 0 .. n : d[k] = DigitsFrom(base, d, k)
<1> DEFINE F(k) == DigitsFrom(base, d, k)
<1> HIDE DEF F
<1>1. d = [k \in 0 .. n |-> F(k)]
  BY DEF DigitsUpTo, F
<1>2. \A k \in 0 .. n : d[k] = F(k)
  BY <1>1
<1> QED
  BY <1>2 DEF F

LEMMA DigitsValue ==
  ASSUME NEW base \in {10, 16}, NEW d, Digits(base, d)
  PROVE  \A k \in Nat : d[k] = DigitsFrom(base, d, k)
<1> DEFINE F(k) == DigitsFrom(base, d, k)
<1> HIDE DEF F
<1>1. d = [k \in Nat |-> F(k)]
  BY DEF Digits, F
<1>2. \A k \in Nat : d[k] = F(k)
  BY <1>1
<1> QED
  BY <1>2 DEF F

LEMMA DigitsAgree ==
  ASSUME NEW base \in {10, 16}, NEW d, NEW e, NEW n \in Nat, NEW m \in Nat, DigitsUpTo(base, d, n), DigitsUpTo(base, e, m)
  PROVE  \A k \in Nat : k <= n /\ k <= m => d[k] = e[k]
<1> DEFINE T == {k \in Nat : k <= n /\ k <= m => d[k] = e[k]}
<1>1. ASSUME NEW k \in Nat, \A j \in 0 .. k - 1 : j \in T
      PROVE  k \in T
  <2>1. SUFFICES ASSUME k <= n, k <= m PROVE d[k] = e[k]
    OBVIOUS
  <2>2. d[k] = DigitsFrom(base, d, k) /\ e[k] = DigitsFrom(base, e, k)
    BY <2>1, DigitsUpToValue
  <2>3. k >= base => d[k \div base] = e[k \div base]
    <3>1. SUFFICES ASSUME k >= base PROVE d[k \div base] = e[k \div base]
      OBVIOUS
    <3>2. k \div base \in 0 .. k - 1
      BY <3>1, Parts
    <3> QED
      BY <1>1, <2>1, <3>2
  <2> QED
    BY <2>2, <2>3 DEF DigitsFrom
<1> HIDE DEF T
<1>2. Nat \subseteq T
  BY <1>1, Below0
<1> QED
  BY <1>2 DEF T

LEMMA DigitsUpToExists ==
  ASSUME NEW base \in {10, 16}, NEW n \in Nat
  PROVE  \E d : DigitsUpTo(base, d, n)
<1> DEFINE T == {k \in Nat : \E d : DigitsUpTo(base, d, k)}
<1>1. 0 \in T
  <2> DEFINE d == [k \in 0 .. 0 |-> <<Char(k % base)>> \o << >>]
  <2>1. \A k \in 0 .. 0 : d[k] = DigitsFrom(base, d, k)
    BY DEF DigitsFrom
  <2>2. d = [k \in 0 .. 0 |-> d[k]]
    OBVIOUS
  <2> HIDE DEF d
  <2>3. DigitsUpTo(base, d, 0)
    <3> DEFINE G(k) == DigitsFrom(base, d, k)
    <3>1. \A k \in 0 .. 0 : d[k] = G(k)
      BY <2>1
    <3> HIDE DEF G
    <3>2. d = [k \in 0 .. 0 |-> G(k)]
      BY <2>2, <3>1
    <3> QED
      BY <3>2 DEF G, DigitsUpTo
  <2> QED
    BY <2>3
<1>2. ASSUME NEW m \in Nat, m \in T
      PROVE  m + 1 \in T
  <2>1. PICK d : DigitsUpTo(base, d, m)
    BY <1>2
  <2>2. \A k \in 0 .. m : d[k] = DigitsFrom(base, d, k)
    BY <2>1, DigitsUpToValue
  <2> DEFINE e == [k \in 0 .. m + 1 |-> IF k <= m THEN d[k] ELSE DigitsFrom(base, d, k)]
  <2>3. \A k \in 0 .. m : e[k] = d[k]
    OBVIOUS
  <2>4. ASSUME NEW k \in 0 .. m + 1
        PROVE  e[k] = DigitsFrom(base, e, k)
    <3>1. e[k] = DigitsFrom(base, d, k)
      BY <2>2
    <3>2. k >= base => e[k \div base] = d[k \div base]
      <4>1. SUFFICES ASSUME k >= base PROVE e[k \div base] = d[k \div base]
        OBVIOUS
      <4>2. k \div base \in 0 .. k - 1
        BY <4>1, Parts
      <4>3. k \div base \in 0 .. m
        BY <4>2
      <4> HIDE DEF e
      <4> QED
        BY <2>3, <4>3
    <3> HIDE DEF e
    <3> QED
      BY <3>1, <3>2 DEF DigitsFrom
  <2>5. e = [k \in 0 .. m + 1 |-> e[k]]
    OBVIOUS
  <2> HIDE DEF e
  <2>6. DigitsUpTo(base, e, m + 1)
    <3> DEFINE G(k) == DigitsFrom(base, e, k)
    <3>1. \A k \in 0 .. m + 1 : e[k] = G(k)
      BY <2>4
    <3> HIDE DEF G
    <3>2. e = [k \in 0 .. m + 1 |-> G(k)]
      BY <2>5, <3>1
    <3> QED
      BY <3>2 DEF G, DigitsUpTo
  <2> QED
    BY <2>6
<1> HIDE DEF T
<1>3. n \in T
  BY <1>1, <1>2, Induction
<1> QED
  BY <1>3 DEF T

LEMMA DigitsExists ==
  ASSUME NEW base \in {10, 16}
  PROVE  \E d : Digits(base, d)
<1> DEFINE Of(n) == CHOOSE d : DigitsUpTo(base, d, n)
           e == [n \in Nat |-> Of(n)[n]]
<1>1. \A n \in Nat : DigitsUpTo(base, Of(n), n)
  BY DigitsUpToExists
<1> HIDE DEF Of
<1>2. ASSUME NEW n \in Nat
      PROVE  e[n] = DigitsFrom(base, e, n)
  <2>1. e[n] = DigitsFrom(base, Of(n), n)
    <3>1. Of(n)[n] = DigitsFrom(base, Of(n), n)
      BY <1>1, DigitsUpToValue
    <3> QED
      BY <3>1
  <2>2. n >= base => e[n \div base] = Of(n)[n \div base]
    <3>1. SUFFICES ASSUME n >= base PROVE e[n \div base] = Of(n)[n \div base]
      OBVIOUS
    <3> DEFINE k == n \div base
    <3>2. k \in Nat /\ k <= n /\ k <= k
      BY <3>1, Parts
    <3> HIDE DEF k
    <3>3. Of(k)[k] = Of(n)[k]
      BY <1>1, <3>2, DigitsAgree
    <3> QED
      BY <3>2, <3>3 DEF k
  <2> HIDE DEF e
  <2> QED
    BY <2>1, <2>2 DEF DigitsFrom
<1>3. e = [n \in Nat |-> e[n]]
  OBVIOUS
<1> HIDE DEF e
<1>4. Digits(base, e)
  <2> DEFINE G(k) == DigitsFrom(base, e, k)
  <2>1. \A k \in Nat : e[k] = G(k)
    BY <1>2
  <2> HIDE DEF G
  <2>2. e = [k \in Nat |-> G(k)]
    BY <1>3, <2>1
  <2> QED
    BY <2>2 DEF G, Digits
<1> QED
  BY <1>4

\* The digits turned round are those of the quotient, and the remainder's.
LEMMA ReverseMore ==
  ASSUME NEW X, NEW q \in Seq(X), NEW c \in X
  PROVE  /\ Reverse(q) \in Seq(X) /\ Len(Reverse(q)) = Len(q)
         /\ <<c>> \o q \in Seq(X) /\ Len(<<c>> \o q) = Len(q) + 1
         /\ Reverse(<<c>> \o q) = Append(Reverse(q), c)
<1> DEFINE n == Len(q)
           t == <<c>> \o q
           r == Reverse(q)
<1>1. n \in Nat /\ \A i \in 1 .. n : q[i] \in X
  OBVIOUS
<1>2. t \in Seq(X) /\ Len(t) = n + 1 /\ t[1] = c /\ \A i \in 1 .. n : t[i + 1] = q[i]
  OBVIOUS
<1>3. r \in Seq(X) /\ Len(r) = n /\ r = [i \in 1 .. n |-> q[(n - i) + 1]]
  <2>1. r = [i \in 1 .. n |-> q[(n - i) + 1]]
    BY DEF Reverse
  <2>2. \A i \in 1 .. n : q[(n - i) + 1] \in X
    BY <1>1
  <2>3. r \in [1 .. n -> X]
    BY <2>1, <2>2
  <2> QED
    BY <1>1, <2>1, <2>3
<1>4. Append(r, c) = [i \in 1 .. n + 1 |-> IF i = n + 1 THEN c ELSE r[i]]
  <2> HIDE DEF r
  <2> QED
    BY <1>1, <1>3
<1>5. Reverse(t) = [i \in 1 .. n + 1 |-> t[((n + 1) - i) + 1]]
  BY <1>2 DEF Reverse
<1> HIDE DEF n, t, r
<1>6. ASSUME NEW i \in 1 .. n + 1
      PROVE  t[((n + 1) - i) + 1] = IF i = n + 1 THEN c ELSE r[i]
  <2>1. CASE i = n + 1
    BY <1>1, <1>2, <2>1
  <2>2. CASE i # n + 1
    <3> DEFINE j == (n - i) + 1
    <3>1. j \in 1 .. n /\ ((n + 1) - i) + 1 = j + 1 /\ i \in 1 .. n
      BY <1>1, <2>2
    <3>2. r[i] = q[j]
      BY <1>3, <3>1
    <3> HIDE DEF j
    <3>3. t[j + 1] = q[j]
      BY <1>2, <3>1
    <3> QED
      BY <2>2, <3>1, <3>2, <3>3
  <2> QED
    BY <2>1, <2>2
<1>7. Reverse(t) = Append(r, c)
  BY <1>4, <1>5, <1>6
<1> QED
  BY <1>2, <1>3, <1>7 DEF n, t, r

\* A number is written in digits, and read as itself.
LEMMA NumeralRead ==
  ASSUME NEW base \in {10, 16}, NEW v \in Nat
  PROVE  /\ Numeral(base, v) \in Seq(Chars) /\ Len(Numeral(base, v)) > 0
         /\ Value(base, Numeral(base, v)) = v
<1> DEFINE g == CHOOSE d : Digits(base, d)
           o == Kind(base)
           T == {k \in Nat : /\ g[k] \in Seq(Chars) /\ Len(g[k]) > 0
                             /\ Run(o, 0, Reverse(g[k])) = k}
<1>1. Digits(base, g)
  BY DigitsExists
<1>2. Numeral(base, v) = Reverse(g[v])
  BY NumeralIs
<1> HIDE DEF g
<1>3. ASSUME NEW n \in Nat, \A k \in 0 .. n - 1 : k \in T
      PROVE  n \in T
  <2> DEFINE m == n \div base
             c == Char(n % base)
             q == IF n < base THEN << >> ELSE g[m]
  <2>1. /\ n % base \in 0 .. base - 1 /\ m \in Nat /\ n = base * m + (n % base)
        /\ n >= base => m \in 0 .. n - 1
        /\ n < base => m = 0
    <3>1. n < base => n \div base = 0
      BY Parts
    <3> QED
      BY <3>1, Parts
  <2>2. g[n] = <<c>> \o q
    BY <1>1, DigitsValue DEF DigitsFrom
  <2>3. c \in Chars /\ DigitAt(c) = (n % base) + 1
    <3>1. n % base \in 0 .. 15
      BY <2>1
    <3> QED
      BY <3>1, CharsAre DEF Chars
  <2>4. q \in Seq(Chars) /\ Run(o, 0, Reverse(q)) = m
    <3>1. CASE n < base
      <4>1. q = << >> /\ Reverse(<< >>) = << >>
        BY <3>1 DEF Reverse
      <4> QED
        BY <2>1, <3>1, <4>1, RunNone
    <3>2. CASE n >= base
      <4>1. m \in T
        BY <1>3, <2>1, <3>2
      <4> QED
        BY <2>1, <3>2, <4>1
    <3> QED
      BY <3>1, <3>2
  <2> HIDE DEF m, c, q
  <2>5. /\ g[n] \in Seq(Chars) /\ Len(g[n]) = Len(q) + 1
        /\ Reverse(q) \in Seq(Chars) /\ Reverse(g[n]) = Append(Reverse(q), c)
    BY <2>2, <2>3, <2>4, ReverseMore
  <2>6. Run(o, 0, Reverse(g[n])) = OneStep(o, m, c)
    BY <2>3, <2>4, <2>5, RunAppend
  <2>7. OneStep(o, m, c) = base * m + DigitAt(c) - 1
    BY DEF OneStep, Kind
  <2>8. base * m + DigitAt(c) - 1 = n
    BY <2>1, <2>3
  <2>9. Len(g[n]) > 0
    BY <2>4, <2>5
  <2> QED
    BY <2>5, <2>6, <2>7, <2>8, <2>9
<1> HIDE DEF T
<1>4. v \in T
  BY <1>3, Below0
<1>5. /\ Numeral(base, v) \in Seq(Chars) /\ Len(Numeral(base, v)) > 0
  <2>1. g[v] \in Seq(Chars) /\ Len(g[v]) > 0
    BY <1>4 DEF T
  <2>2. PICK c \in Chars : TRUE
    BY DEF Chars
  <2>3. Reverse(g[v]) \in Seq(Chars) /\ Len(Reverse(g[v])) = Len(g[v])
    BY <2>1, <2>2, ReverseMore
  <2> QED
    BY <1>2, <2>1, <2>3
<1>6. Value(base, Numeral(base, v)) = Run(o, 0, Numeral(base, v))
  <2>1. /\ Len(Numeral(base, v)) \in Nat
        /\ DOMAIN Numeral(base, v) = 1 .. Len(Numeral(base, v))
    BY <1>5
  <2> QED
    BY <2>1, ValueFolds DEF Run
<1> QED
  BY <1>2, <1>4, <1>5, <1>6 DEF T

-----------------------------------------------------------------------------
(* Induction over sequences, on the set of those for which something holds. *)
LEMMA SeqInduction ==
  ASSUME NEW X, NEW T, <<>> \in T,
         \A t \in Seq(X), c \in X : t \in T => Append(t, c) \in T
  PROVE  Seq(X) \subseteq T
<1> DEFINE K == {n \in Nat : \A t \in Seq(X) : Len(t) = n => t \in T}
<1>1. 0 \in K
  <2>1. \A t \in Seq(X) : Len(t) = 0 => t = <<>>
    BY EmptySeq
  <2> QED
    BY <2>1
<1>2. ASSUME NEW n \in Nat, n \in K
      PROVE  n + 1 \in K
  <2>1. SUFFICES ASSUME NEW t \in Seq(X), Len(t) = n + 1
                 PROVE  t \in T
    OBVIOUS
  <2>2. t # <<>>
    BY <2>1
  <2>3. PICK s \in Seq(X), c \in X : t = Append(s, c)
    BY <2>2, SequenceEmptyOrAppend
  <2>4. Len(s) = n
    BY <2>1, <2>3
  <2>5. s \in T
    BY <1>2, <2>4
  <2> QED
    BY <2>3, <2>5
<1> HIDE DEF K
<1>3. Nat \subseteq K
  BY <1>1, <1>2, Induction
<1>4. ASSUME NEW t \in Seq(X)
      PROVE  t \in T
  <2>1. Len(t) \in K
    BY <1>3
  <2> QED
    BY <2>1 DEF K
<1> QED
  BY <1>4

LEMMA ConcatAppend ==
  ASSUME NEW X, NEW s \in Seq(X), NEW t \in Seq(X), NEW c \in X
  PROVE  s \o Append(t, c) = Append(s \o t, c)
<1>1. Append(t, c) = t \o <<c>> /\ Append(s \o t, c) = (s \o t) \o <<c>>
  <2>1. s \o t \in Seq(X)
    OBVIOUS
  <2> QED
    BY <2>1, AppendIsConcat
<1>2. <<c>> \in Seq(X)
  OBVIOUS
<1> QED
  BY <1>1, <1>2, ConcatAssociative

-----------------------------------------------------------------------------
(* The scan.                                                               *)

ScanStart == [end |-> FALSE, esc |-> FALSE, str |-> FALSE, at |-> 0, depth |-> 0]
ScanAt(s) == Run("scan", ScanStart, s)

\* The states of the scan inside of the first brace, and behind the last one.
Mid(esc, str, n) == [end |-> FALSE, esc |-> esc, str |-> str, at |-> n, depth |-> 1]
Ended(n) == [end |-> TRUE, esc |-> FALSE, str |-> FALSE, at |-> n, depth |-> 1 - 1]

LEMMA Scans ==
  ASSUME NEW n \in Nat, NEW c
  PROVE  /\ c \notin {"\"", "\\"} => Scan(Mid(FALSE, TRUE, n), c) = Mid(FALSE, TRUE, n + 1)
         /\ c \notin {"\"", "{", "}"} => Scan(Mid(FALSE, FALSE, n), c) = Mid(FALSE, FALSE, n + 1)
         /\ Scan(Mid(FALSE, TRUE, n), "\"") = Mid(FALSE, FALSE, n + 1)
         /\ Scan(Mid(FALSE, FALSE, n), "\"") = Mid(FALSE, TRUE, n + 1)
         /\ Scan(Mid(FALSE, TRUE, n), "\\") = Mid(TRUE, TRUE, n + 1)
         /\ Scan(Mid(TRUE, TRUE, n), c) = Mid(FALSE, TRUE, n + 1)
         /\ Scan(Mid(FALSE, FALSE, n), "}") = Ended(n + 1)
         /\ Scan(Ended(n), c) = Ended(n)
<1>1. c \notin {"\"", "\\"} => Scan(Mid(FALSE, TRUE, n), c) = Mid(FALSE, TRUE, n + 1)
  BY DEF Scan, Mid
<1>2. c \notin {"\"", "{", "}"} => Scan(Mid(FALSE, FALSE, n), c) = Mid(FALSE, FALSE, n + 1)
  BY DEF Scan, Mid
<1>3. Scan(Mid(FALSE, TRUE, n), "\"") = Mid(FALSE, FALSE, n + 1)
  BY DEF Scan, Mid
<1>4. Scan(Mid(FALSE, FALSE, n), "\"") = Mid(FALSE, TRUE, n + 1)
  BY DEF Scan, Mid
<1>5. Scan(Mid(FALSE, TRUE, n), "\\") = Mid(TRUE, TRUE, n + 1)
  BY DEF Scan, Mid
<1>6. Scan(Mid(TRUE, TRUE, n), c) = Mid(FALSE, TRUE, n + 1)
  BY DEF Scan, Mid
<1>7. Scan(Mid(FALSE, FALSE, n), "}") = Ended(n + 1)
  BY DEF Scan, Mid, Ended
<1>8. Scan(Ended(n), c) = Ended(n)
  BY DEF Scan, Ended
<1> QED
  BY <1>1, <1>2, <1>3, <1>4, <1>5, <1>6, <1>7, <1>8

\* The scan has come to the end of s, inside of the first brace: in a string, or not.
Open(s, in) == ScanAt(s) = Mid(FALSE, in = "string", Len(s))
Places == {"string", "object"}

\* The tokens that mean something there.
Marks(in) == IF in = "string" THEN {"\"", "\\"} ELSE {"\"", "{", "}"}

LEMMA ScanAppend ==
  ASSUME NEW X, NEW s \in Seq(X), NEW c \in X
  PROVE  /\ ScanAt(Append(s, c)) = Scan(ScanAt(s), c)
         /\ Append(s, c) \in Seq(X) /\ Len(Append(s, c)) = Len(s) + 1 /\ Len(s) \in Nat
<1>1. ScanAt(Append(s, c)) = OneStep("scan", ScanAt(s), c)
  BY RunAppend DEF ScanAt
<1> QED
  BY <1>1 DEF OneStep

\* What one token does to a scan that is inside.
LEMMA OpenInert ==
  ASSUME NEW X, NEW s \in Seq(X), NEW c \in X, NEW in \in Places, Open(s, in),
         c \notin Marks(in)
  PROVE  Open(Append(s, c), in)
<1>1. /\ ScanAt(Append(s, c)) = Scan(Mid(FALSE, in = "string", Len(s)), c)
      /\ Len(Append(s, c)) = Len(s) + 1 /\ Len(s) \in Nat
  <2>1. /\ ScanAt(Append(s, c)) = Scan(ScanAt(s), c)
        /\ Len(Append(s, c)) = Len(s) + 1 /\ Len(s) \in Nat
    BY ScanAppend
  <2>2. ScanAt(s) = Mid(FALSE, in = "string", Len(s))
    BY DEF Open
  <2> QED
    BY <2>1, <2>2
<1>2. CASE in = "string"
  <2>1. Scan(Mid(FALSE, TRUE, Len(s)), c) = Mid(FALSE, TRUE, Len(s) + 1)
    BY <1>1, <1>2, Scans DEF Marks
  <2> QED
    BY <1>1, <1>2, <2>1 DEF Open
<1>3. CASE in = "object"
  <2>0. (in = "string") = FALSE
    BY <1>3
  <2>1. Scan(Mid(FALSE, FALSE, Len(s)), c) = Mid(FALSE, FALSE, Len(s) + 1)
    BY <1>1, <1>3, Scans DEF Marks
  <2> QED
    BY <1>1, <2>0, <2>1 DEF Open
<1> QED
  BY <1>2, <1>3 DEF Places

LEMMA OpenQuote ==
  ASSUME NEW X, NEW s \in Seq(X), "\"" \in X
  PROVE  /\ Open(s, "object") => Open(Append(s, "\""), "string")
         /\ Open(s, "string") => Open(Append(s, "\""), "object")
<1>1. /\ ScanAt(Append(s, "\"")) = Scan(ScanAt(s), "\"")
      /\ Len(Append(s, "\"")) = Len(s) + 1 /\ Len(s) \in Nat
  BY ScanAppend
<1> QED
  BY <1>1, Scans DEF Open

LEMMA OpenEscape ==
  ASSUME NEW X, NEW s \in Seq(X), "\\" \in X, NEW c \in X, Open(s, "string")
  PROVE  Open(Append(Append(s, "\\"), c), "string")
<1> DEFINE q == Append(s, "\\")
<1>1. /\ ScanAt(q) = Scan(ScanAt(s), "\\")
      /\ q \in Seq(X) /\ Len(q) = Len(s) + 1 /\ Len(s) \in Nat
  BY ScanAppend
<1>2. ScanAt(q) = Mid(TRUE, TRUE, Len(s) + 1)
  BY <1>1, Scans DEF Open
<1> HIDE DEF q
<1>3. /\ ScanAt(Append(q, c)) = Scan(ScanAt(q), c)
      /\ Len(Append(q, c)) = Len(q) + 1 /\ Len(q) \in Nat
  BY <1>1, ScanAppend
<1>4. Scan(Mid(TRUE, TRUE, Len(q)), c) = Mid(FALSE, TRUE, Len(q) + 1)
  BY <1>3, Scans
<1> QED
  BY <1>1, <1>2, <1>3, <1>4 DEF Open, q

LEMMA OpenClose ==
  ASSUME NEW X, NEW s \in Seq(X), "}" \in X, Open(s, "object")
  PROVE  ScanAt(Append(s, "}")) = Ended(Len(s) + 1)
<1>1. ScanAt(Append(s, "}")) = Scan(ScanAt(s), "}") /\ Len(s) \in Nat
  BY ScanAppend
<1> QED
  BY <1>1, Scans DEF Open

LEMMA OpenFirst == Open(<<"{">>, "object")
<1> DEFINE X == {"{"}
           z == 0
<1>1. <<>> \in Seq(X) /\ "{" \in X /\ Append(<<>>, "{") = <<"{">> /\ Len(<<"{">>) = 1
  OBVIOUS
<1>2. ScanAt(<<"{">>) = Scan(ScanAt(<<>>), "{")
  <2> HIDE DEF X
  <2>1. ScanAt(Append(<<>>, "{")) = Scan(ScanAt(<<>>), "{")
    BY <1>1, ScanAppend
  <2> QED
    BY <1>1, <2>1
<1>3. ScanAt(<<>>) = ScanStart
  BY RunNone DEF ScanAt
<1>4. ScanStart = [end |-> FALSE, esc |-> FALSE, str |-> FALSE, at |-> z, depth |-> z]
  BY DEF ScanStart
<1>5. z \in Nat /\ z + 1 = 1
  OBVIOUS
<1> HIDE DEF z
<1>6. Scan([end |-> FALSE, esc |-> FALSE, str |-> FALSE, at |-> z, depth |-> z], "{")
        = Mid(FALSE, FALSE, z + 1)
  BY <1>5 DEF Scan, Mid
<1> QED
  BY <1>1, <1>2, <1>3, <1>4, <1>5, <1>6 DEF Open

\* A text of such tokens.
LEMMA OpenText ==
  ASSUME NEW X, NEW s \in Seq(X), NEW Y, Y \subseteq X, NEW in \in Places,
         Y \cap Marks(in) = {}, Open(s, in), NEW t \in Seq(Y)
  PROVE  Open(s \o t, in)
<1> DEFINE T == {q \in Seq(Y) : Open(s \o q, in)}
<1>1. <<>> \in T
  <2>1. s \o <<>> = s /\ <<>> \in Seq(Y)
    BY ConcatEmptySeq
  <2> QED
    BY <2>1
<1>2. ASSUME NEW q \in Seq(Y), NEW c \in Y, q \in T
      PROVE  Append(q, c) \in T
  <2>1. q \in Seq(X) /\ c \in X /\ s \o q \in Seq(X) /\ Append(q, c) \in Seq(Y)
    <3>1. q \in Seq(X)
      BY SeqMonotonic
    <3> QED
      BY <3>1
  <2>2. s \o Append(q, c) = Append(s \o q, c)
    BY <2>1, ConcatAppend
  <2>3. Open(Append(s \o q, c), in)
    BY <1>2, <2>1, OpenInert
  <2> QED
    BY <2>1, <2>2, <2>3
<1> HIDE DEF T
<1>3. t \in T
  BY <1>1, <1>2, SeqInduction
<1> QED
  BY <1>3 DEF T

\* Once the object has ended, what follows changes nothing.
LEMMA EndStays ==
  ASSUME NEW X, NEW s \in Seq(X), NEW n \in Nat, ScanAt(s) = Ended(n), NEW t \in Seq(X)
  PROVE  ScanAt(s \o t) = Ended(n)
<1> DEFINE T == {q \in Seq(X) : ScanAt(s \o q) = Ended(n)}
<1>1. <<>> \in T
  <2>1. s \o <<>> = s /\ <<>> \in Seq(X)
    BY ConcatEmptySeq
  <2> QED
    BY <2>1
<1>2. ASSUME NEW q \in Seq(X), NEW c \in X, q \in T
      PROVE  Append(q, c) \in T
  <2>1. s \o q \in Seq(X) /\ Append(q, c) \in Seq(X)
    OBVIOUS
  <2>2. s \o Append(q, c) = Append(s \o q, c)
    BY ConcatAppend
  <2>3. ScanAt(Append(s \o q, c)) = Scan(ScanAt(s \o q), c)
    BY <2>1, ScanAppend
  <2>4. Scan(Ended(n), c) = Ended(n)
    BY Scans
  <2> QED
    BY <1>2, <2>1, <2>2, <2>3, <2>4
<1> HIDE DEF T
<1>3. t \in T
  BY <1>1, <1>2, SeqInduction
<1> QED
  BY <1>3 DEF T

\* Any state of the scan: before the end, or at it.
Before(esc, str, n, d) == [end |-> FALSE, esc |-> esc, str |-> str, at |-> n, depth |-> d]
IsBefore(m) == \E esc, str \in BOOLEAN, n \in Nat, d \in Int : m = Before(esc, str, n, d)
IsEnded(m) == \E n \in Nat : m = Ended(n)

LEMMA BeforeIs ==
  ASSUME NEW n \in Nat, NEW d \in Int
  PROVE  /\ IsBefore(Before(TRUE, TRUE, n, d)) /\ IsBefore(Before(TRUE, FALSE, n, d))
         /\ IsBefore(Before(FALSE, TRUE, n, d)) /\ IsBefore(Before(FALSE, FALSE, n, d))
         /\ IsEnded(Ended(n))
BY DEF IsBefore, IsEnded

\* A step from before the end leads to a state before the end, or to it.
LEMMA ScanShape ==
  ASSUME NEW m, IsBefore(m), NEW c
  PROVE  IsBefore(Scan(m, c)) \/ IsEnded(Scan(m, c))
<1>1. PICK esc \in BOOLEAN, str \in BOOLEAN, n \in Nat, d \in Int : m = Before(esc, str, n, d)
  BY DEF IsBefore
<1>0. /\ n + 1 \in Nat /\ d + 1 \in Int /\ d - 1 \in Int
  OBVIOUS
<1>2. CASE esc = TRUE
  <2>1. /\ Scan(Before(TRUE, TRUE, n, d), c) = Before(FALSE, TRUE, n + 1, d)
        /\ Scan(Before(TRUE, FALSE, n, d), c) = Before(FALSE, FALSE, n + 1, d)
    BY DEF Scan, Before
  <2> QED
    BY <1>0, <1>1, <1>2, <2>1, BeforeIs
<1>3. CASE esc = FALSE /\ str = TRUE
  <2>1. CASE c = "\\"
    <3>1. Scan(Before(FALSE, TRUE, n, d), "\\") = Before(TRUE, TRUE, n + 1, d)
      BY DEF Scan, Before
    <3> QED
      BY <1>0, <1>1, <1>3, <2>1, <3>1, BeforeIs
  <2>2. CASE c = "\""
    <3>1. Scan(Before(FALSE, TRUE, n, d), "\"") = Before(FALSE, FALSE, n + 1, d)
      BY DEF Scan, Before
    <3> QED
      BY <1>0, <1>1, <1>3, <2>2, <3>1, BeforeIs
  <2>3. CASE c \notin {"\\", "\""}
    <3>1. Scan(Before(FALSE, TRUE, n, d), c) = Before(FALSE, TRUE, n + 1, d)
      BY <2>3 DEF Scan, Before
    <3> QED
      BY <1>0, <1>1, <1>3, <3>1, BeforeIs
  <2> QED
    BY <2>1, <2>2, <2>3
<1>4. CASE esc = FALSE /\ str = FALSE
  <2> DEFINE s == Before(FALSE, FALSE, n, d)
  <2>1. CASE c = "\""
    <3>1. Scan(s, "\"") = Before(FALSE, TRUE, n + 1, d)
      BY DEF Scan, Before
    <3> QED
      BY <1>0, <1>1, <1>4, <2>1, <3>1, BeforeIs
  <2>2. CASE c = "{"
    <3>1. Scan(s, "{") = Before(FALSE, FALSE, n + 1, d + 1)
      BY DEF Scan, Before
    <3> QED
      BY <1>0, <1>1, <1>4, <2>2, <3>1, BeforeIs
  <2>3. CASE c = "}" /\ d = 1
    <3>1. s = Mid(FALSE, FALSE, n)
      BY <2>3 DEF Before, Mid
    <3>2. Scan(s, "}") = Ended(n + 1)
      BY <3>1, Scans
    <3> QED
      BY <1>0, <1>1, <1>4, <2>3, <3>2, BeforeIs
  <2>4. CASE c = "}" /\ d # 1
    <3>1. Scan(s, "}") = Before(FALSE, FALSE, n + 1, d - 1)
      BY <2>4 DEF Scan, Before
    <3> QED
      BY <1>0, <1>1, <1>4, <2>4, <3>1, BeforeIs
  <2>5. CASE c \notin {"\"", "{", "}"}
    <3>1. Scan(s, c) = Before(FALSE, FALSE, n + 1, d)
      BY <2>5 DEF Scan, Before
    <3> QED
      BY <1>0, <1>1, <1>4, <3>1, BeforeIs
  <2> QED
    BY <2>1, <2>2, <2>3, <2>4, <2>5
<1> QED
  BY <1>2, <1>3, <1>4

LEMMA ScanAtShape ==
  ASSUME NEW X, NEW s \in Seq(X)
  PROVE  IsBefore(ScanAt(s)) \/ IsEnded(ScanAt(s))
<1> DEFINE T == {q \in Seq(X) : IsBefore(ScanAt(q)) \/ IsEnded(ScanAt(q))}
<1>1. <<>> \in T
  <2> DEFINE z == 0
  <2>1. ScanAt(<<>>) = ScanStart
    BY RunNone DEF ScanAt
  <2>2. ScanStart = Before(FALSE, FALSE, z, z)
    BY DEF ScanStart, Before
  <2>3. z \in Nat /\ z \in Int
    OBVIOUS
  <2>5. <<>> \in Seq(X)
    OBVIOUS
  <2> HIDE DEF z
  <2>4. IsBefore(Before(FALSE, FALSE, z, z))
    BY <2>3, BeforeIs
  <2> QED
    BY <2>1, <2>2, <2>4, <2>5
<1>2. ASSUME NEW q \in Seq(X), NEW c \in X, q \in T
      PROVE  Append(q, c) \in T
  <2>1. ScanAt(Append(q, c)) = Scan(ScanAt(q), c) /\ Append(q, c) \in Seq(X)
    BY ScanAppend
  <2>2. CASE IsBefore(ScanAt(q))
    BY <2>1, <2>2, ScanShape
  <2>3. CASE IsEnded(ScanAt(q))
    <3>1. Scan(ScanAt(q), c) = ScanAt(q)
      BY <2>3, Scans DEF IsEnded
    <3> QED
      BY <2>1, <2>3, <3>1
  <2> QED
    BY <1>2, <2>2, <2>3
<1> HIDE DEF T
<1>3. s \in T
  BY <1>1, <1>2, SeqInduction
<1> QED
  BY <1>3 DEF T

LEMMA ObjectIs ==
  ASSUME NEW X, NEW s \in Seq(X)
  PROVE  ObjectIn(s) = IF ScanAt(s).end THEN SubSeq(s, 1, ScanAt(s).at) ELSE <<>>
<1>1. Len(s) \in Nat /\ DOMAIN s = 1 .. Len(s)
  OBVIOUS
<1>2. FoldLeft(Scan, ScanStart, s) = ScanAt(s)
  BY <1>1, ScanFolds DEF ScanAt, Run
<1> QED
  BY <1>2 DEF ObjectIn, ScanStart

\* An object is found whole, whatever lands behind it ...
LEMMA ObjectWhole ==
  ASSUME NEW X, NEW t \in Seq(X), NEW n \in Nat, n >= 1, Len(t) = n,
         ScanAt(t) = Ended(n), NEW f \in Seq(X)
  PROVE  ObjectIn(t \o f) = t
<1>1. t \o f \in Seq(X)
  OBVIOUS
<1>3. ScanAt(t \o f) = Ended(n)
  BY EndStays
<1>4. Ended(n).end /\ Ended(n).at = n
  BY DEF Ended
<1>5. SubSeq(t \o f, 1, n) = t
  <2>1. 1 \in 1 .. Len(t) /\ n \in 1 .. Len(t)
    OBVIOUS
  <2>2. SubSeq(t \o f, 1, n) = SubSeq(t, 1, n)
    BY <2>1, SubSeqOfConcat1
  <2> QED
    BY <2>2, SubSeqFull
<1>6. ObjectIn(t \o f) = IF ScanAt(t \o f).end THEN SubSeq(t \o f, 1, ScanAt(t \o f).at) ELSE <<>>
  BY <1>1, ObjectIs
<1> QED
  BY <1>3, <1>4, <1>5, <1>6

\* ... and one that was cut is not found.
LEMMA ObjectCut ==
  ASSUME NEW X, NEW s \in Seq(X), NEW c \in X, Open(s, "object"), NEW k \in 0 .. Len(s)
  PROVE  ObjectIn(SubSeq(Append(s, c), 1, k)) = <<>>
<1> DEFINE t == SubSeq(s, 1, k)
           u == SubSeq(s, k + 1, Len(s))
<1>0. k \in Nat /\ Len(s) \in Nat /\ k <= Len(s)
  OBVIOUS
<1>5. t \in Seq(X) /\ Len(t) = k /\ \A i \in 1 .. k : t[i] = s[i]
  <2>1. \A i \in 1 .. k : s[i] \in X
    BY <1>0
  <2> QED
    BY <1>0, <2>1, SubSeqProperties
<1>1. SubSeq(Append(s, c), 1, k) = t
  <2> DEFINE a == Append(s, c)
             b == SubSeq(a, 1, k)
  <2>1. a \in Seq(X) /\ \A i \in 1 .. k : a[i] = s[i] /\ a[i] \in X
    BY <1>0
  <2> HIDE DEF a
  <2>3. b \in Seq(X) /\ Len(b) = k /\ \A i \in 1 .. k : b[i] = a[i]
    BY <1>0, <2>1, SubSeqProperties
  <2> HIDE DEF t, b
  <2>4. \A i \in 1 .. Len(b) : b[i] = t[i]
    BY <1>5, <2>1, <2>3
  <2>5. b = t
    BY <1>5, <2>3, <2>4, SeqEqual
  <2> QED
    BY <2>5 DEF b, a
<1>2. t \in Seq(X) /\ u \in Seq(X) /\ t \o u = s
  <2>1. 1 \in 1 .. Len(s) + 1 /\ k \in 1 - 1 .. Len(s) /\ Len(s) \in k .. Len(s)
    BY <1>0
  <2>2. SubSeq(s, 1, k) \o SubSeq(s, k + 1, Len(s)) = SubSeq(s, 1, Len(s))
    BY <2>1, ConcatAdjacentSubSeq
  <2>3. SubSeq(s, 1, Len(s)) = s
    BY SubSeqFull
  <2>4. u \in Seq(X)
    <3>1. \A i \in k + 1 .. Len(s) : s[i] \in X
      BY <1>0
    <3> QED
      BY <1>0, <3>1, SubSeqProperties
  <2> QED
    BY <1>5, <2>2, <2>3, <2>4
<1> HIDE DEF t, u
<1>3. ~IsEnded(ScanAt(t))
  <2>1. SUFFICES ASSUME NEW n \in Nat, ScanAt(t) = Ended(n) PROVE FALSE
    BY DEF IsEnded
  <2>2. ScanAt(s) = Ended(n)
    BY <1>2, <2>1, EndStays
  <2>3. Ended(n).end = TRUE /\ Mid(FALSE, "object" = "string", Len(s)).end = FALSE
    BY DEF Ended, Mid
  <2> QED
    BY <2>2, <2>3 DEF Open
<1>4. ScanAt(t).end = FALSE
  <2>1. IsBefore(ScanAt(t))
    BY <1>2, <1>3, ScanAtShape
  <2>2. PICK esc, str \in BOOLEAN, n \in Nat, d \in Int : ScanAt(t) = Before(esc, str, n, d)
    BY <2>1 DEF IsBefore
  <2> QED
    BY <2>2 DEF Before
<1> QED
  BY <1>1, <1>2, <1>4, ObjectIs

-----------------------------------------------------------------------------
(* Names: their escapes, and the reading of these.                         *)

BACK == "\\"
QUOTE == "\""
LETTER == "n"

\* The lists joined to one.
Flat(f, q, n) == f = [i \in 1 .. n |-> IF i = 1 THEN q[i] ELSE f[i - 1] \o q[i]]
FlatOf(f, q, i) == IF i = 1 THEN q[i] ELSE f[i - 1] \o q[i]

LEMMA FlatValue ==
  ASSUME NEW f, NEW q, NEW n \in Nat, Flat(f, q, n)
  PROVE  \A i \in 1 .. n : f[i] = FlatOf(f, q, i)
<1>1. f = [i \in 1 .. n |-> FlatOf(f, q, i)]
  BY DEF Flat, FlatOf
<1> DEFINE G(i) == FlatOf(f, q, i)
<1> HIDE DEF G
<1>2. f = [i \in 1 .. n |-> G(i)]
  BY <1>1 DEF G
<1>3. \A i \in 1 .. n : f[i] = G(i)
  BY <1>2
<1> QED
  BY <1>3 DEF G

LEMMA FlatIs ==
  ASSUME NEW f, NEW q, NEW n \in Nat, DOMAIN f = 1 .. n, f = [i \in 1 .. n |-> f[i]],
         \A i \in 1 .. n : f[i] = FlatOf(f, q, i)
  PROVE  Flat(f, q, n)
<1> DEFINE G(i) == FlatOf(f, q, i)
<1>1. \A i \in 1 .. n : f[i] = G(i)
  OBVIOUS
<1> HIDE DEF G
<1>2. f = [i \in 1 .. n |-> G(i)]
  BY <1>1
<1> QED
  BY <1>2 DEF G, Flat, FlatOf

LEMMA FlatExists ==
  ASSUME NEW q, NEW n \in Nat
  PROVE  \E f : Flat(f, q, n)
<1> DEFINE T == {k \in Nat : \E f : Flat(f, q, k)}
<1>1. 0 \in T
  <2> DEFINE f == [i \in 1 .. 0 |-> i]
  <2>1. DOMAIN f = 1 .. 0 /\ f = [i \in 1 .. 0 |-> f[i]] /\ \A i \in 1 .. 0 : f[i] = FlatOf(f, q, i)
    OBVIOUS
  <2> HIDE DEF f
  <2>2. Flat(f, q, 0)
    BY <2>1, FlatIs
  <2> QED
    BY <2>2
<1>2. ASSUME NEW k \in Nat, k \in T
      PROVE  k + 1 \in T
  <2>1. PICK f : Flat(f, q, k)
    BY <1>2
  <2>2. \A i \in 1 .. k : f[i] = FlatOf(f, q, i)
    BY <2>1, FlatValue
  <2> DEFINE h == [i \in 1 .. k + 1 |-> IF i <= k THEN f[i] ELSE FlatOf(f, q, i)]
  <2>3. \A i \in 1 .. k : h[i] = f[i]
    OBVIOUS
  <2>4. \A i \in 1 .. k + 1 : h[i] = FlatOf(f, q, i)
    BY <2>2
  <2>5. DOMAIN h = 1 .. k + 1 /\ h = [i \in 1 .. k + 1 |-> h[i]]
    OBVIOUS
  <2> HIDE DEF h
  <2>6. ASSUME NEW i \in 1 .. k + 1
        PROVE  h[i] = FlatOf(h, q, i)
    <3>1. i # 1 => h[i - 1] = f[i - 1]
      <4>1. i # 1 => i - 1 \in 1 .. k
        OBVIOUS
      <4> QED
        BY <2>3, <4>1
    <3> QED
      BY <2>4, <3>1 DEF FlatOf
  <2>7. Flat(h, q, k + 1)
    BY <2>5, <2>6, FlatIs
  <2> QED
    BY <2>7
<1> HIDE DEF T
<1>3. n \in T
  BY <1>1, <1>2, Induction
<1> QED
  BY <1>3 DEF T

LEMMA FlatAgree ==
  ASSUME NEW f, NEW h, NEW q, NEW z, NEW n \in Nat, NEW m \in Nat, n <= m,
         Flat(f, q, n), Flat(h, z, m), SameUpTo(q, z, n)
  PROVE  \A k \in 1 .. n : f[k] = h[k]
<1> DEFINE T == {k \in Nat : k \in 1 .. n => f[k] = h[k]}
<1>1. 0 \in T
  OBVIOUS
<1>2. ASSUME NEW k \in Nat, k \in T
      PROVE  k + 1 \in T
  <2>1. SUFFICES ASSUME k + 1 <= n PROVE f[k + 1] = h[k + 1]
    OBVIOUS
  <2> DEFINE j == k + 1
  <2>2. j \in 1 .. n /\ j \in 1 .. m /\ j - 1 = k /\ (j # 1 => k \in 1 .. n)
    BY <2>1
  <2> HIDE DEF j
  <2>3. f[j] = FlatOf(f, q, j) /\ h[j] = FlatOf(h, z, j)
    BY <2>2, FlatValue
  <2>4. q[j] = z[j]
    BY <2>2 DEF SameUpTo
  <2>5. j # 1 => f[j - 1] = h[j - 1]
    BY <1>2, <2>2
  <2>6. f[j] = h[j]
    BY <2>3, <2>4, <2>5 DEF FlatOf
  <2> QED
    BY <2>6 DEF j
<1>3. ASSUME NEW k \in 1 .. n
      PROVE  f[k] = h[k]
  <2> HIDE DEF T
  <2>1. k \in Nat
    OBVIOUS
  <2>2. k \in T
    BY <1>1, <1>2, <2>1, Induction
  <2> QED
    BY <2>2 DEF T
<1> QED
  BY <1>3

FlattenOf(q, n) == (CHOOSE f : Flat(f, q, n))[n]

LEMMA FlattenIs ==
  ASSUME NEW q, Len(q) # 0
  PROVE  FlattenSeq(q) = FlattenOf(q, Len(q))
BY DEF FlattenSeq, FlattenOf, Flat

Joined(q, z, n) == IF n = 0 THEN z[n + 1] ELSE FlattenOf(q, n) \o z[n + 1]

\* One list more is put behind the others.
LEMMA FlattenMore ==
  ASSUME NEW q, NEW z, NEW n \in Nat, NEW m \in Nat, m = n + 1, SameUpTo(q, z, n)
  PROVE  FlattenOf(z, m) = Joined(q, z, n)
<1>1. PICK f : Flat(f, q, n) /\ FlattenOf(q, n) = f[n]
  BY FlatExists DEF FlattenOf
<1>2. PICK h : Flat(h, z, m) /\ FlattenOf(z, m) = h[m]
  BY FlatExists DEF FlattenOf
<1>3. n <= m
  OBVIOUS
<1>4. \A k \in 1 .. n : f[k] = h[k]
  BY <1>1, <1>2, <1>3, FlatAgree
<1>5. h[m] = FlatOf(h, z, m)
  <2>1. m \in 1 .. m
    OBVIOUS
  <2> QED
    BY <1>2, <2>1, FlatValue
<1>6. m - 1 = n /\ (n = 0 <=> m = 1) /\ (n # 0 => n \in 1 .. n)
  OBVIOUS
<1> QED
  BY <1>1, <1>2, <1>4, <1>5, <1>6 DEF FlatOf, Joined

LEMMA Escapes ==
  /\ BACK # LETTER /\ QUOTE # LETTER /\ BACK # NEWLINE /\ LETTER # NEWLINE /\ QUOTE # NEWLINE
  /\ BACK # QUOTE
  /\ \A c : Escaped(c) = IF c = QUOTE \/ c = BACK THEN <<BACK, c>>
                         ELSE IF c = NEWLINE THEN <<BACK, LETTER>> ELSE <<c>>
BY DEF Escaped, BACK, QUOTE, LETTER, NEWLINE

LEMMA JsonNone == Json(<<>>) = <<>>
BY DEF Json, FlattenSeq

\* The tokens that a name is written in.
EscapedIn(X, Y) == /\ X \subseteq Y \cup {NEWLINE} /\ NEWLINE \notin Y
                   /\ {BACK, QUOTE, LETTER} \subseteq Y

LEMMA EscapedIs ==
  ASSUME NEW X, NEW Y, EscapedIn(X, Y), NEW c \in X
  PROVE  Escaped(c) \in Seq(Y)
<1>1. BACK \in Y /\ LETTER \in Y /\ (c # NEWLINE => c \in Y) /\ QUOTE \in Y
  BY DEF EscapedIn
<1>2. CASE c = QUOTE \/ c = BACK
  <2>1. Escaped(c) = <<BACK, c>> /\ c \in Y
    BY <1>1, <1>2, Escapes
  <2> QED
    BY <1>1, <2>1
<1>3. CASE c = NEWLINE
  <2>1. Escaped(c) = <<BACK, LETTER>>
    BY <1>3, Escapes
  <2> QED
    BY <1>1, <2>1
<1>4. CASE c # QUOTE /\ c # BACK /\ c # NEWLINE
  <2>1. Escaped(c) = <<c>> /\ c \in Y
    BY <1>1, <1>4, Escapes
  <2> QED
    BY <2>1
<1> QED
  BY <1>2, <1>3, <1>4

\* One character of a name more.
LEMMA JsonMore ==
  ASSUME NEW X, NEW Y, EscapedIn(X, Y), NEW name \in Seq(X), NEW c \in X
  PROVE  Json(Append(name, c)) = Json(name) \o Escaped(c)
<1> DEFINE a == Append(name, c)
           q == [i \in DOMAIN name |-> Escaped(name[i])]
           z == [i \in DOMAIN a |-> Escaped(a[i])]
           n == Len(name)
           m == n + 1
<1>1. /\ n \in Nat /\ m \in Nat /\ DOMAIN name = 1 .. n /\ DOMAIN a = 1 .. m /\ a[m] = c
      /\ \A i \in 1 .. n : a[i] = name[i]
  OBVIOUS
<1> HIDE DEF a
<1>2. Len(q) = n /\ Len(z) = m
  BY <1>1
<1>3. SameUpTo(q, z, n) /\ z[m] = Escaped(c)
  <2>1. m \in 1 .. m /\ \A i \in 1 .. n : i \in 1 .. m
    BY <1>1
  <2>2. z[m] = Escaped(a[m])
    BY <1>1, <2>1
  <2>3. \A i \in 1 .. n : q[i] = Escaped(name[i]) /\ z[i] = Escaped(a[i])
    BY <1>1, <2>1
  <2> HIDE DEF q, z
  <2> QED
    BY <1>1, <2>2, <2>3 DEF SameUpTo
<1>4. Json(name) = FlattenSeq(q) /\ Json(a) = FlattenSeq(z)
  BY DEF Json
<1> HIDE DEF q, z
<1>5. Json(a) = FlattenOf(z, m)
  <2>1. Len(z) # 0
    BY <1>1, <1>2
  <2> QED
    BY <1>2, <1>4, <2>1, FlattenIs
<1>6. FlattenOf(z, m) = IF n = 0 THEN z[m] ELSE FlattenOf(q, n) \o z[m]
  <2>1. n \in Nat /\ m \in Nat /\ m = n + 1 /\ SameUpTo(q, z, n)
    BY <1>1, <1>3
  <2> HIDE DEF n, m
  <2>2. FlattenOf(z, m) = Joined(q, z, n)
    BY <2>1, FlattenMore
  <2> QED
    BY <2>1, <2>2 DEF Joined
<1>7. CASE n = 0
  <2>1. name = <<>>
    BY <1>7, EmptySeq
  <2>2. <<>> \o Escaped(c) = Escaped(c)
    BY EscapedIs, ConcatEmptySeq
  <2> QED
    BY <1>3, <1>5, <1>6, <1>7, <2>1, <2>2, JsonNone DEF a
<1>8. CASE n # 0
  <2>1. Json(name) = FlattenOf(q, n)
    BY <1>2, <1>4, <1>8, FlattenIs
  <2> QED
    BY <1>3, <1>5, <1>6, <1>8, <2>1 DEF a
<1> QED
  BY <1>7, <1>8

LEMMA JsonType ==
  ASSUME NEW X, NEW Y, EscapedIn(X, Y), NEW name \in Seq(X)
  PROVE  Json(name) \in Seq(Y)
<1> DEFINE T == {q \in Seq(X) : Json(q) \in Seq(Y)}
<1>1. <<>> \in T
  <2>1. <<>> \in Seq(X) /\ <<>> \in Seq(Y)
    OBVIOUS
  <2> QED
    BY <2>1, JsonNone
<1>2. ASSUME NEW q \in Seq(X), NEW c \in X, q \in T
      PROVE  Append(q, c) \in T
  <2>1. Append(q, c) \in Seq(X)
    OBVIOUS
  <2>2. Json(q) \o Escaped(c) \in Seq(Y)
    <3>1. Json(q) \in Seq(Y) /\ Escaped(c) \in Seq(Y)
      BY <1>2, EscapedIs
    <3> QED
      BY <3>1, ConcatProperties
  <2> QED
    BY <2>1, <2>2, JsonMore
<1> HIDE DEF T
<1>3. name \in T
  BY <1>1, <1>2, SeqInduction
<1> QED
  BY <1>3 DEF T

\* Two tokens, and two tokens more.
LEMMA TwoTokens ==
  ASSUME NEW X, NEW c \in X, NEW d \in X
  PROVE  Append(<<c>>, d) = <<c, d>> /\ <<c>> \o <<d>> = <<c, d>>
<1> DEFINE t == <<c>>
<1>1. Append(t, d) = <<c, d>>
  <2>1. /\ Append(t, d) \in Seq(X) /\ Len(Append(t, d)) = 2
        /\ Append(t, d)[1] = c /\ Append(t, d)[2] = d
    OBVIOUS
  <2>2. /\ <<c, d>> \in Seq(X) /\ Len(<<c, d>>) = 2
        /\ <<c, d>>[1] = c /\ <<c, d>>[2] = d
    OBVIOUS
  <2>3. \A i \in 1 .. 2 : i = 1 \/ i = 2
    OBVIOUS
  <2> HIDE DEF t
  <2>4. \A i \in 1 .. Len(Append(t, d)) : Append(t, d)[i] = <<c, d>>[i]
    BY <2>1, <2>2, <2>3
  <2> QED
    BY <2>1, <2>2, <2>4, SeqEqual
<1>2. t \in Seq(X)
  OBVIOUS
<1> HIDE DEF t
<1>3. t \o <<d>> = Append(t, d)
  BY <1>2, AppendIsConcat
<1> QED
  BY <1>1, <1>3 DEF t

LEMMA ConcatTwo ==
  ASSUME NEW X, NEW s \in Seq(X), NEW c \in X, NEW d \in X
  PROVE  s \o <<c, d>> = Append(Append(s, c), d) /\ s \o <<c>> = Append(s, c)
<1> DEFINE t == <<c>>
<1>1. Append(t, d) = <<c, d>>
  BY TwoTokens
<1>2. s \o <<c>> = Append(s, c)
  BY AppendIsConcat
<1>3. t \in Seq(X)
  OBVIOUS
<1> HIDE DEF t
<1>4. s \o Append(t, d) = Append(s \o t, d)
  BY <1>3, ConcatAppend
<1> QED
  BY <1>1, <1>2, <1>4 DEF t

\* The scan passes a name whose quotes and backslashes are escaped.
LEMMA OpenJson ==
  ASSUME NEW X, NEW Y, EscapedIn(X, Y), NEW s \in Seq(Y), Open(s, "string"), NEW name \in Seq(X)
  PROVE  Open(s \o Json(name), "string")
<1> DEFINE T == {q \in Seq(X) : Open(s \o Json(q), "string")}
<1>1. <<>> \in T
  <2>1. <<>> \in Seq(X) /\ s \o <<>> = s
    BY ConcatEmptySeq
  <2> QED
    BY <2>1, JsonNone
<1>2. ASSUME NEW q \in Seq(X), NEW c \in X, q \in T
      PROVE  Append(q, c) \in T
  <2> DEFINE t == s \o Json(q)
  <2>1. Append(q, c) \in Seq(X)
    OBVIOUS
  <2>2. Json(q) \in Seq(Y) /\ Escaped(c) \in Seq(Y)
    BY JsonType, EscapedIs
  <2>3. t \in Seq(Y)
    BY <2>2, ConcatProperties
  <2>4. s \o Json(Append(q, c)) = t \o Escaped(c)
    <3>1. s \o (Json(q) \o Escaped(c)) = (s \o Json(q)) \o Escaped(c)
      BY <2>2, ConcatAssociative
    <3> QED
      BY <3>1, JsonMore
  <2>5. Open(t, "string")
    BY <1>2
  <2> HIDE DEF t
  <2>6. BACK \in Y /\ LETTER \in Y /\ QUOTE \in Y
    BY DEF EscapedIn
  <2>7. Open(t \o Escaped(c), "string")
    <3>1. \A d \in Y : Open(t \o <<BACK, d>>, "string")
      <4> TAKE d \in Y
      <4>1. Open(Append(Append(t, BACK), d), "string")
        BY <2>3, <2>5, <2>6, OpenEscape DEF BACK
      <4>2. t \o <<BACK, d>> = Append(Append(t, BACK), d)
        BY <2>3, <2>6, ConcatTwo
      <4> QED
        BY <4>1, <4>2
    <3>2. CASE c = QUOTE \/ c = BACK
      <4>1. Escaped(c) = <<BACK, c>> /\ c \in Y
        BY <2>6, <3>2, Escapes
      <4> QED
        BY <3>1, <4>1
    <3>3. CASE c = NEWLINE
      <4>1. Escaped(c) = <<BACK, LETTER>>
        BY <3>3, Escapes
      <4> QED
        BY <2>6, <3>1, <4>1
    <3>4. CASE c # QUOTE /\ c # BACK /\ c # NEWLINE
      <4>1. Escaped(c) = <<c>>
        BY <3>4, Escapes
      <4>2. c \in Y
        BY <3>4 DEF EscapedIn
      <4>3. c \notin Marks("string") /\ "string" \in Places
        BY <3>4 DEF Marks, Places, QUOTE, BACK
      <4>4. Open(Append(t, c), "string")
        BY <2>3, <2>5, <4>2, <4>3, OpenInert
      <4>5. t \o <<c>> = Append(t, c)
        BY <2>3, <4>2, ConcatTwo
      <4> QED
        BY <4>1, <4>4, <4>5
    <3> QED
      BY <3>2, <3>3, <3>4
  <2> QED
    BY <2>1, <2>4, <2>7
<1> HIDE DEF T
<1>3. name \in T
  BY <1>1, <1>2, SeqInduction
<1> QED
  BY <1>3 DEF T

\* The decoder: whether a backslash was the last token, and what it has.
Plainly(q) == [esc |-> FALSE, out |-> q]
Escaping(q) == [esc |-> TRUE, out |-> q]
Decoded(t) == Run("undo", Plainly(<<>>), t)

LEMMA DecodedMore ==
  ASSUME NEW Y, NEW t \in Seq(Y), NEW c \in Y
  PROVE  Decoded(Append(t, c)) = Undone(Decoded(t), c)
<1>1. Decoded(Append(t, c)) = OneStep("undo", Decoded(t), c)
  BY RunAppend DEF Decoded
<1> QED
  BY <1>1 DEF OneStep

LEMMA Undoes ==
  ASSUME NEW q, NEW c
  PROVE  /\ c # BACK => Undone(Plainly(q), c) = Plainly(Append(q, c))
         /\ Undone(Plainly(q), BACK) = Escaping(q)
         /\ Undone(Escaping(q), c)
              = Plainly(Append(q, IF c = LETTER THEN NEWLINE ELSE c))
<1>1. c # BACK => Undone(Plainly(q), c) = Plainly(Append(q, c))
  BY DEF Undone, Plainly, Escaping, BACK
<1>2. Undone(Plainly(q), BACK) = Escaping(q)
  <2>1. \A d : d = BACK => Undone(Plainly(q), d) = Escaping(q)
    BY DEF Undone, Plainly, Escaping, BACK
  <2> QED
    BY <2>1
<1>3. Undone(Escaping(q), c)
              = Plainly(Append(q, IF c = LETTER THEN NEWLINE ELSE c))
  BY DEF Undone, Plainly, Escaping, LETTER
<1> QED
  BY <1>1, <1>2, <1>3

\* A text without a backslash stays as it is ...
LEMMA DecodedPlain ==
  ASSUME NEW Y, BACK \notin Y, NEW t \in Seq(Y)
  PROVE  Decoded(t) = Plainly(t)
<1> DEFINE T == {q \in Seq(Y) : Decoded(q) = Plainly(q)}
<1>1. <<>> \in T
  <2>1. <<>> \in Seq(Y)
    OBVIOUS
  <2> QED
    BY <2>1, RunNone DEF Decoded
<1>2. ASSUME NEW q \in Seq(Y), NEW c \in Y, q \in T
      PROVE  Append(q, c) \in T
  <2>1. Append(q, c) \in Seq(Y) /\ c # BACK
    OBVIOUS
  <2>2. Undone(Plainly(q), c) = Plainly(Append(q, c))
    BY <2>1, Undoes
  <2> QED
    BY <1>2, <2>1, <2>2, DecodedMore
<1> HIDE DEF T
<1>3. t \in T
  BY <1>1, <1>2, SeqInduction
<1> QED
  BY <1>3 DEF T

\* ... and a name is decoded to itself.
LEMMA DecodedJson ==
  ASSUME NEW X, NEW Y, EscapedIn(X, Y), NEW name \in Seq(X)
  PROVE  Decoded(Json(name)) = Plainly(name)
<1> DEFINE T == {q \in Seq(X) : Decoded(Json(q)) = Plainly(q)}
<1>1. <<>> \in T
  <2>1. <<>> \in Seq(X)
    OBVIOUS
  <2> QED
    BY <2>1, JsonNone, RunNone DEF Decoded
<1>2. ASSUME NEW q \in Seq(X), NEW c \in X, q \in T
      PROVE  Append(q, c) \in T
  <2> DEFINE t == Json(q)
  <2>1. Append(q, c) \in Seq(X)
    OBVIOUS
  <2>2. t \in Seq(Y)
    BY JsonType
  <2>3. Json(Append(q, c)) = t \o Escaped(c)
    BY JsonMore
  <2>4. Decoded(t) = Plainly(q)
    BY <1>2
  <2> HIDE DEF t
  <2>5. BACK \in Y /\ LETTER \in Y /\ QUOTE \in Y
    BY DEF EscapedIn
  <2>6. \A d \in Y : Decoded(t \o <<BACK, d>>)
                       = Plainly(Append(q, IF d = LETTER THEN NEWLINE ELSE d))
    <3> TAKE d \in Y
    <3>1. t \o <<BACK, d>> = Append(Append(t, BACK), d)
      BY <2>2, <2>5, ConcatTwo
    <3>2. Decoded(Append(t, BACK)) = Escaping(q)
      BY <2>2, <2>4, <2>5, DecodedMore, Undoes
    <3>3. Append(t, BACK) \in Seq(Y)
      BY <2>2, <2>5
    <3> DEFINE u == Append(t, BACK)
    <3>4. Decoded(Append(u, d)) = Undone(Escaping(q), d)
      <4>1. u \in Seq(Y) /\ Decoded(u) = Escaping(q)
        BY <3>2, <3>3
      <4> HIDE DEF u
      <4> QED
        BY <4>1, DecodedMore
    <3> QED
      BY <3>1, <3>4, Undoes
  <2>7. Decoded(t \o Escaped(c)) = Plainly(Append(q, c))
    <3>2. CASE c = QUOTE \/ c = BACK
      <4>1. Escaped(c) = <<BACK, c>> /\ c \in Y /\ c # LETTER
        BY <2>5, <3>2, Escapes
      <4> QED
        BY <2>6, <4>1
    <3>3. CASE c = NEWLINE
      <4>1. Escaped(c) = <<BACK, LETTER>>
        BY <3>3, Escapes
      <4> QED
        BY <2>5, <2>6, <3>3, <4>1
    <3>4. CASE c # QUOTE /\ c # BACK /\ c # NEWLINE
      <4>1. Escaped(c) = <<c>>
        BY <3>4, Escapes
      <4>2. c \in Y
        BY <3>4 DEF EscapedIn
      <4>3. t \o <<c>> = Append(t, c)
        BY <2>2, <4>2, ConcatTwo
      <4>4. Decoded(Append(t, c)) = Undone(Plainly(q), c)
        BY <2>2, <2>4, <4>2, DecodedMore
      <4> QED
        BY <3>4, <4>1, <4>3, <4>4, Undoes
    <3> QED
      BY <3>2, <3>3, <3>4
  <2> QED
    BY <2>1, <2>3, <2>7
<1> HIDE DEF T
<1>3. name \in T
  BY <1>1, <1>2, SeqInduction
<1> QED
  BY <1>3 DEF T

\* Quotes go on and come off.
LEMMA UnquotedIs ==
  ASSUME NEW Y, NEW t \in Seq(Y), QUOTE \in Y
  PROVE  Quoted(t) \in Seq(Y) /\ Unquoted(Quoted(t)) = Decoded(t).out
<1> DEFINE q == <<QUOTE>> \o t
           w == q \o <<QUOTE>>
           n == Len(t)
<1>1. Quoted(t) = w
  BY DEF Quoted, QUOTE
<1>2. q \in Seq(Y) /\ Len(q) = n + 1 /\ n \in Nat /\ \A i \in 1 .. n : q[i + 1] = t[i]
  OBVIOUS
<1> HIDE DEF q
<1>3. w \in Seq(Y) /\ Len(w) = n + 2 /\ \A i \in 1 .. n + 1 : w[i] = q[i]
  BY <1>2
<1> HIDE DEF w
<1>4. SubSeq(w, 2, Len(w) - 1) = t
  <2> DEFINE k == Len(w) - 1
             u == SubSeq(w, 2, k)
  <2>1. k \in Int /\ 2 \in Int /\ k = n + 1 /\ \A i \in 2 .. k : w[i] \in Y
    BY <1>2, <1>3
  <2>2. /\ u \in Seq(Y) /\ Len(u) = IF 2 <= k THEN k - 2 + 1 ELSE 0
        /\ \A i \in 1 .. k - 2 + 1 : u[i] = w[2 + i - 1]
    BY <2>1, SubSeqProperties
  <2> HIDE DEF u, k, n
  <2>3. Len(u) = n /\ \A i \in 1 .. n : u[i] = w[i + 1]
    <3>1. n \in Nat /\ k = n + 1
      BY <1>2, <2>1
    <3>2. \A i \in 1 .. n : i \in 1 .. k - 2 + 1 /\ 2 + i - 1 = i + 1
      BY <3>1
    <3>3. Len(u) = n
      BY <2>2, <3>1
    <3> QED
      BY <2>2, <3>2, <3>3
  <2>4. \A i \in 1 .. Len(u) : u[i] = t[i]
    <3>1. \A i \in 1 .. n : i + 1 \in 1 .. n + 1
      BY <1>2
    <3> QED
      BY <1>2, <1>3, <2>3, <3>1
  <2>5. Len(u) = Len(t)
    BY <2>3 DEF n
  <2>6. u = t
    BY <2>2, <2>4, <2>5, SeqEqual
  <2> QED
    BY <2>6 DEF u, k
<1>5. DOMAIN SubSeq(w, 2, Len(w) - 1) = 1 .. n
  BY <1>4
<1>6. Unquoted(w) = Folded("undo", [esc |-> FALSE, out |-> <<>>], t, n).out
  BY <1>2, <1>4, <1>5, UndoFolds
<1> QED
  BY <1>1, <1>3, <1>6 DEF Decoded, Run, Plainly, n

-----------------------------------------------------------------------------
(* What stands behind a key.                                               *)

\* A text has a key at p, for the first time, and its value ends before q.
Spans(text, key, p, q) ==
  /\ p \in 1 .. Len(text) /\ q \in 1 .. Len(text) /\ p < q
  /\ text[p] = key /\ \A i \in 1 .. p - 1 : text[i] # key
  /\ \A i \in p + 1 .. q - 1 : text[i] \notin Keys
  /\ text[q] \in Keys \/ q = Len(text)

LEMMA MinIs ==
  ASSUME NEW S, S \subseteq Int, NEW x \in S, \A y \in S : x <= y
  PROVE  Min(S) = x
<1>1. \A y \in S : (\A z \in S : y <= z) => y = x
  OBVIOUS
<1>2. Min(S) \in S /\ \A z \in S : Min(S) <= z
  BY DEF Min
<1> QED
  BY <1>1, <1>2

\* After finds the value between the key and the next one.
LEMMA AfterIs ==
  ASSUME NEW Y, NEW text \in Seq(Y), NEW key, NEW p, NEW q, Spans(text, key, p, q)
  PROVE  After(text, key) = SubSeq(text, p + 1, q - 1)
<1> DEFINE I == {i \in 1 .. Len(text) : text[i] = key}
           J == {n \in p + 1 .. Len(text) : text[n] \in Keys \/ n = Len(text)}
<1>1. /\ p \in 1 .. Len(text) /\ q \in 1 .. Len(text) /\ p < q
      /\ text[p] = key /\ \A i \in 1 .. p - 1 : text[i] # key
      /\ \A i \in p + 1 .. q - 1 : text[i] \notin Keys
      /\ text[q] \in Keys \/ q = Len(text)
      /\ Len(text) \in Nat
  BY DEF Spans
<1>2. I \subseteq Int /\ p \in I /\ \A i \in I : p <= i
  BY <1>1
<1>3. J \subseteq Int /\ q \in J /\ \A i \in J : q <= i
  BY <1>1
<1>4. SelectInSeq(text, LAMBDA c : c = key) = IF I # {} THEN Min(I) ELSE 0
  BY DEF SelectInSeq
<1>5. SelectInSeq(text, LAMBDA c : c = key) = p
  <2> HIDE DEF I
  <2>1. Min(I) = p /\ I # {}
    BY <1>2, MinIs
  <2> QED
    BY <1>4, <2>1
<1>6. After(text, key) = SubSeq(text, p + 1, Min(J) - 1)
  <2>1. After(text, key)
          = SubSeq(text, SelectInSeq(text, LAMBDA c : c = key) + 1,
                   Min({n \in SelectInSeq(text, LAMBDA c : c = key) + 1 .. Len(text) :
                          text[n] \in Keys \/ n = Len(text)}) - 1)
    BY DEF After
  <2> QED
    BY <1>5, <2>1
<1>7. Min(J) = q
  <2> HIDE DEF J
  <2> QED
    BY <1>3, MinIs
<1> QED
  BY <1>6, <1>7

\* A text has a value under a key, with c behind it.
Ends(x, key, b, c) ==
  \E p, q : Spans(x, key, p, q) /\ x[q] = c /\ SubSeq(x, p + 1, q - 1) = b

\* With a key behind it the value stays, whatever is added.
LEMMA EndsOn ==
  ASSUME NEW Y, NEW x \in Seq(Y), NEW r \in Seq(Y), NEW key, NEW b, NEW c \in Keys,
         Ends(x, key, b, c)
  PROVE  Ends(x \o r, key, b, c)
<1> DEFINE w == x \o r
<1>0. PICK p, q : Spans(x, key, p, q) /\ x[q] = c /\ SubSeq(x, p + 1, q - 1) = b
  BY DEF Ends
<1>1. /\ p \in 1 .. Len(x) /\ q \in 1 .. Len(x) /\ p < q
      /\ x[p] = key /\ \A i \in 1 .. p - 1 : x[i] # key
      /\ \A i \in p + 1 .. q - 1 : x[i] \notin Keys
      /\ Len(x) \in Nat /\ Len(r) \in Nat
  BY <1>0 DEF Spans
<1>2. w \in Seq(Y) /\ Len(w) = Len(x) + Len(r) /\ \A i \in 1 .. Len(x) : w[i] = x[i]
  OBVIOUS
<1>3. SubSeq(w, p + 1, q - 1) = SubSeq(x, p + 1, q - 1)
  <2>1. CASE p + 1 <= q - 1
    <3>1. p + 1 \in 1 .. Len(x) /\ q - 1 \in 1 .. Len(x)
      BY <1>1, <2>1
    <3> QED
      BY <3>1, SubSeqOfConcat1
  <2>2. CASE p + 1 > q - 1
    <3>1. p + 1 \in Int /\ q - 1 \in Int /\ q - 1 < p + 1
      BY <1>1, <2>2
    <3> QED
      BY <3>1, SubSeqEmpty
  <2> QED
    BY <1>1, <2>1, <2>2
<1> HIDE DEF w
<1>4. p \in 1 .. Len(w) /\ q \in 1 .. Len(w)
  BY <1>1, <1>2
<1>5. /\ w[p] = x[p] /\ w[q] = x[q]
      /\ \A i \in 1 .. p - 1 : w[i] = x[i]
      /\ \A i \in p + 1 .. q - 1 : w[i] = x[i]
  <2>1. /\ \A i \in 1 .. p - 1 : i \in 1 .. Len(x)
        /\ \A i \in p + 1 .. q - 1 : i \in 1 .. Len(x)
    BY <1>1
  <2> QED
    BY <1>1, <1>2, <2>1
<1>6. Spans(w, key, p, q) /\ w[q] = c
  <2>1. \A i \in 1 .. p - 1 : w[i] # key
    BY <1>1, <1>5
  <2>2. \A i \in p + 1 .. q - 1 : w[i] \notin Keys
    BY <1>1, <1>5
  <2>3. w[p] = key /\ w[q] = c /\ p < q
    BY <1>0, <1>1, <1>5
  <2> QED
    BY <1>4, <2>1, <2>2, <2>3 DEF Spans
<1>7. Ends(w, key, b, c)
  BY <1>0, <1>3, <1>6 DEF Ends
<1> QED
  BY <1>7 DEF w

-----------------------------------------------------------------------------
(* The payload, field by field.                                            *)

\* A value has no key in it, and the scan passes it.
IsValue(b, Y) ==
  /\ b \in Seq(Y \ Keys)
  /\ \A s \in Seq(Y) : Open(s, "object") => Open(s \o b, "object")

\* The fields so far, under the keys ks.
Fields(t, Y, ks) ==
  /\ t \in Seq(Y) /\ Open(t, "object")
  /\ \A i \in 1 .. Len(t) : t[i] \in Keys => t[i] \in ks

LEMMA KeysInert ==
  ASSUME NEW key \in Keys
  PROVE  key \notin Marks("object") /\ "object" \in Places /\ key \notin {NEWLINE, CONTROL}
BY DEF Keys, Marks, Places, NEWLINE, CONTROL

\* A key and its value make a field more.
LEMMA FieldKey ==
  ASSUME NEW Y, NEW ks, NEW t, Fields(t, Y, ks), NEW key \in Keys, key \in Y
  PROVE  Fields(t \o <<key>>, Y, ks \cup {key})
<1> DEFINE a == Append(t, key)
<1>1. t \in Seq(Y) /\ Open(t, "object") /\ \A i \in 1 .. Len(t) : t[i] \in Keys => t[i] \in ks
  BY DEF Fields
<1>2. t \o <<key>> = a
  BY <1>1, AppendIsConcat
<1>3. Open(a, "object")
  BY <1>1, KeysInert, OpenInert
<1>4. a \in Seq(Y) /\ \A i \in 1 .. Len(a) : a[i] = key \/ (i \in 1 .. Len(t) /\ a[i] = t[i])
  BY <1>1
<1> HIDE DEF a
<1>5. Fields(a, Y, ks \cup {key})
  BY <1>1, <1>3, <1>4 DEF Fields
<1> QED
  BY <1>2, <1>5

LEMMA FieldValue ==
  ASSUME NEW Y, NEW ks, NEW t, Fields(t, Y, ks), NEW b, IsValue(b, Y)
  PROVE  Fields(t \o b, Y, ks)
<1> DEFINE a == t \o b
<1>1. t \in Seq(Y) /\ Open(t, "object") /\ \A i \in 1 .. Len(t) : t[i] \in Keys => t[i] \in ks
  BY DEF Fields
<1>2. b \in Seq(Y \ Keys) /\ Open(a, "object")
  BY <1>1 DEF IsValue
<1>3. b \in Seq(Y)
  BY <1>2, SeqMonotonic
<1>4. \A j \in 1 .. Len(b) : b[j] \notin Keys
  BY <1>2
<1>5. a \in Seq(Y) /\ Len(a) = Len(t) + Len(b) /\ Len(t) \in Nat /\ Len(b) \in Nat
      /\ \A i \in 1 .. Len(t) + Len(b) : a[i] = IF i <= Len(t) THEN t[i] ELSE b[i - Len(t)]
  BY <1>1, <1>3, ConcatProperties, LenProperties
<1> HIDE DEF a
<1>6. ASSUME NEW i \in 1 .. Len(a), a[i] \in Keys
      PROVE  a[i] \in ks
  <2>1. CASE i <= Len(t)
    BY <1>1, <1>5, <1>6, <2>1
  <2>2. CASE i > Len(t)
    <3>1. i - Len(t) \in 1 .. Len(b)
      BY <1>5, <2>2
    <3>2. a[i] = b[i - Len(t)]
      BY <1>5, <2>2
    <3> QED
      BY <1>4, <1>6, <3>1, <3>2
  <2> QED
    BY <1>5, <2>1, <2>2
<1>7. Fields(a, Y, ks)
  BY <1>2, <1>5, <1>6 DEF Fields
<1> QED
  BY <1>7 DEF a

\* A field more.
Add(t, key, b) == (t \o <<key>>) \o b

\* Its value is what stands under the key once something is behind it.
LEMMA FieldEnds ==
  ASSUME NEW Y, NEW ks, NEW t, Fields(t, Y, ks), NEW key \in Keys, key \in Y, key \notin ks,
         NEW b, IsValue(b, Y), NEW c \in Y
  PROVE  Ends(Add(t, key, b) \o <<c>>, key, b, c)
<1> DEFINE a == t \o <<key>>
           d == a \o b
           w == d \o <<c>>
           n == Len(t)
           m == Len(b)
           p == n + 1
           q == (n + m) + 2
<1>1. t \in Seq(Y) /\ n \in Nat /\ \A i \in 1 .. n : t[i] \in Keys => t[i] \in ks
  BY DEF Fields
<1>2. b \in Seq(Y) /\ m \in Nat /\ \A i \in 1 .. m : b[i] \notin Keys
  <2>1. b \in Seq(Y \ Keys)
    BY DEF IsValue
  <2>2. b \in Seq(Y)
    BY <2>1, SeqMonotonic
  <2> QED
    BY <2>1, <2>2
<1>3. a \in Seq(Y) /\ Len(a) = n + 1 /\ a[n + 1] = key /\ \A i \in 1 .. n : a[i] = t[i]
  <2>1. a = Append(t, key)
    BY <1>1, AppendIsConcat
  <2>2. /\ Append(t, key) \in Seq(Y) /\ Len(Append(t, key)) = Len(t) + 1
        /\ \A i \in 1 .. Len(t) : Append(t, key)[i] = t[i]
        /\ Append(t, key)[Len(t) + 1] = key
    BY <1>1, AppendProperties
  <2> HIDE DEF a
  <2> QED
    BY <2>1, <2>2 DEF n
<1> HIDE DEF a
<1>4. /\ d \in Seq(Y) /\ Len(d) = (n + 1) + m /\ \A i \in 1 .. n + 1 : d[i] = a[i]
      /\ \A i \in 1 .. m : d[(n + 1) + i] = b[i]
  <2>1. /\ d \in Seq(Y) /\ Len(d) = (n + 1) + m
        /\ \A i \in 1 .. (n + 1) + m : d[i] = IF i <= n + 1 THEN a[i] ELSE b[i - (n + 1)]
    <3>1. /\ a \o b \in Seq(Y) /\ Len(a \o b) = Len(a) + Len(b)
          /\ \A i \in 1 .. Len(a) + Len(b) :
               (a \o b)[i] = IF i <= Len(a) THEN a[i] ELSE b[i - Len(a)]
      BY <1>2, <1>3, ConcatProperties
    <3> HIDE DEF n
    <3> QED
      BY <1>3, <3>1
  <2> HIDE DEF d, n, m
  <2>2. \A i \in 1 .. m : (n + 1) + i \in 1 .. (n + 1) + m /\ ~((n + 1) + i <= n + 1)
                          /\ ((n + 1) + i) - (n + 1) = i
    BY <1>1, <1>2
  <2>3. \A i \in 1 .. m : d[(n + 1) + i] = b[i]
    BY <2>1, <2>2
  <2>4. \A i \in 1 .. n + 1 : d[i] = a[i]
    BY <1>1, <1>2, <2>1
  <2> QED
    BY <2>1, <2>3, <2>4
<1> HIDE DEF d, n, m
<1>5. /\ w \in Seq(Y) /\ Len(w) = q /\ w[q] = c
      /\ \A i \in 1 .. (n + 1) + m : w[i] = d[i]
  <2>0. Len(d) \in Nat /\ q = Len(d) + 1
    BY <1>1, <1>2, <1>4
  <2>1. w = Append(d, c)
    BY <1>4, AppendIsConcat
  <2>2. /\ Append(d, c) \in Seq(Y) /\ Len(Append(d, c)) = Len(d) + 1 /\ Append(d, c)[Len(d) + 1] = c
        /\ \A i \in 1 .. Len(d) : Append(d, c)[i] = d[i]
    BY <1>4, AppendProperties
  <2> HIDE DEF w, q
  <2> QED
    BY <1>4, <2>0, <2>1, <2>2
<1> HIDE DEF w
<1>6. p \in 1 .. Len(w) /\ q \in 1 .. Len(w) /\ p < q
  BY <1>1, <1>2, <1>5
<1>7. w[p] = key /\ \A i \in 1 .. p - 1 : w[i] # key
  <2>1. \A i \in 1 .. p - 1 : i \in 1 .. n /\ i \in 1 .. n + 1 /\ i \in 1 .. (n + 1) + m
    BY <1>1, <1>2
  <2>2. p \in 1 .. n + 1 /\ p \in 1 .. (n + 1) + m
    BY <1>1, <1>2
  <2>3. \A i \in 1 .. p - 1 : w[i] = t[i] /\ t[i] # key
    BY <1>1, <1>3, <1>4, <1>5, <2>1
  <2> QED
    BY <1>3, <1>4, <1>5, <2>2, <2>3
<1>8. \A i \in 1 .. m : w[p + i] = b[i]
  <2>1. \A i \in 1 .. m : p + i \in 1 .. (n + 1) + m
    BY <1>1, <1>2
  <2> QED
    BY <1>4, <1>5, <2>1
<1>9. \A i \in p + 1 .. q - 1 : w[i] \notin Keys
  <2> TAKE i \in p + 1 .. q - 1
  <2> DEFINE j == i - p
  <2>1. j \in 1 .. m /\ p + j = i
    BY <1>1, <1>2
  <2> HIDE DEF j, p, q
  <2>2. w[i] = b[j]
    BY <1>8, <2>1
  <2> QED
    BY <1>2, <2>1, <2>2
<1>10. SubSeq(w, p + 1, q - 1) = b
  <2> DEFINE u == SubSeq(w, p + 1, q - 1)
  <2>1. p + 1 \in Int /\ q - 1 \in Int /\ \A i \in p + 1 .. q - 1 : w[i] \in Y
    BY <1>1, <1>2, <1>5
  <2>2. /\ u \in Seq(Y) /\ Len(u) = IF p + 1 <= q - 1 THEN (q - 1) - (p + 1) + 1 ELSE 0
        /\ \A i \in 1 .. (q - 1) - (p + 1) + 1 : u[i] = w[(p + 1) + i - 1]
    BY <2>1, SubSeqProperties
  <2> HIDE DEF u
  <2>3. Len(u) = m /\ (q - 1) - (p + 1) + 1 = m
    BY <1>1, <1>2, <2>2
  <2>4. \A i \in 1 .. m : (p + 1) + i - 1 = p + i
    BY <1>1, <1>2
  <2>5. \A i \in 1 .. Len(u) : u[i] = b[i]
    BY <1>8, <2>2, <2>3, <2>4
  <2>6. Len(u) = Len(b)
    BY <2>3 DEF m
  <2>7. u = b
    BY <1>2, <2>2, <2>5, <2>6, SeqEqual
  <2> QED
    BY <2>7 DEF u
<1> HIDE DEF p, q
<1>11. Spans(w, key, p, q)
  BY <1>5, <1>6, <1>7, <1>9 DEF Spans
<1>12. Ends(w, key, b, c)
  BY <1>5, <1>10, <1>11 DEF Ends
<1> QED
  BY <1>12 DEF w, d, a, Add

LEMMA EndsAfter ==
  ASSUME NEW Y, NEW x \in Seq(Y), NEW key, NEW b, NEW c, Ends(x, key, b, c)
  PROVE  After(x, key) = b
<1>1. PICK p, q : Spans(x, key, p, q) /\ SubSeq(x, p + 1, q - 1) = b
  BY DEF Ends
<1> QED
  BY <1>1, AfterIs

LEMMA AddFields ==
  ASSUME NEW Y, NEW ks, NEW t, Fields(t, Y, ks), NEW key \in Keys, key \in Y, NEW b, IsValue(b, Y)
  PROVE  Fields(Add(t, key, b), Y, ks \cup {key})
<1>1. Fields(t \o <<key>>, Y, ks \cup {key})
  BY FieldKey
<1>2. Fields((t \o <<key>>) \o b, Y, ks \cup {key})
  BY <1>1, FieldValue
<1> QED
  BY <1>2 DEF Add

LEMMA AddTypes ==
  ASSUME NEW Y, NEW ks, NEW t, Fields(t, Y, ks), NEW key \in Y, NEW b, IsValue(b, Y)
  PROVE  t \in Seq(Y) /\ <<key>> \in Seq(Y) /\ t \o <<key>> \in Seq(Y) /\ b \in Seq(Y)
<1>1. t \in Seq(Y)
  BY DEF Fields
<1>2. b \in Seq(Y \ Keys)
  BY DEF IsValue
<1>3. b \in Seq(Y)
  BY <1>2, SeqMonotonic
<1> QED
  BY <1>1, <1>3

LEMMA AddEnds ==
  ASSUME NEW Y, NEW ks, NEW t, Fields(t, Y, ks), NEW key \in Y, NEW b, IsValue(b, Y),
         NEW k, NEW v, NEW c \in Keys, Ends(t, k, v, c)
  PROVE  Ends(Add(t, key, b), k, v, c)
<1>1. t \in Seq(Y) /\ <<key>> \in Seq(Y) /\ t \o <<key>> \in Seq(Y) /\ b \in Seq(Y)
  BY AddTypes
<1>2. Ends(t \o <<key>>, k, v, c)
  BY <1>1, EndsOn
<1>3. Ends((t \o <<key>>) \o b, k, v, c)
  BY <1>1, <1>2, EndsOn
<1> QED
  BY <1>3 DEF Add

\* The field before the one that is added has its end now.
LEMMA AddNew ==
  ASSUME NEW Y, NEW ks, NEW t, Fields(t, Y, ks), NEW k \in Keys, k \in Y, k \notin ks,
         NEW v, IsValue(v, Y), NEW key \in Keys, key \in Y, NEW b, IsValue(b, Y)
  PROVE  Ends(Add(Add(t, k, v), key, b), k, v, key)
<1> DEFINE a == Add(t, k, v)
<1>1. Fields(a, Y, ks \cup {k})
  BY AddFields
<1>2. Ends(a \o <<key>>, k, v, key)
  BY FieldEnds
<1> HIDE DEF a
<1>3. a \o <<key>> \in Seq(Y) /\ b \in Seq(Y)
  BY <1>1, AddTypes
<1>4. Ends((a \o <<key>>) \o b, k, v, key)
  BY <1>2, <1>3, EndsOn
<1> QED
  BY <1>4 DEF Add, a

\* The last field has its end at the brace.
LEMMA AddLast ==
  ASSUME NEW Y, NEW ks, NEW t, Fields(t, Y, ks), NEW k \in Keys, k \in Y, k \notin ks,
         NEW v, IsValue(v, Y), NEW c \in Y
  PROVE  After(Add(t, k, v) \o <<c>>, k) = v
<1> DEFINE a == Add(t, k, v)
<1>1. Ends(a \o <<c>>, k, v, c)
  BY FieldEnds
<1>2. Fields(a, Y, ks \cup {k})
  BY AddFields
<1> HIDE DEF a
<1>3. a \o <<c>> \in Seq(Y)
  BY <1>2 DEF Fields
<1>4. After(a \o <<c>>, k) = v
  BY <1>1, <1>3, EndsAfter
<1> QED
  BY <1>4 DEF a

-----------------------------------------------------------------------------
(* The values.                                                             *)

OPENING == "{"
CLOSING == "}"
MINUS == "-"
HEX == "0x"

\* The tokens of a payload whose name is made of X.
Tok(X) ==
  (X \ {NEWLINE}) \cup Chars \cup Keys
    \cup {BACK, QUOTE, LETTER, OPENING, CLOSING, MINUS, HEX, "map", "unmap"}

LEMMA CharsPlain ==
  /\ \A c \in Chars : c \notin Keys /\ c \notin {QUOTE, BACK, OPENING, CLOSING, MINUS, NEWLINE, CONTROL}
  /\ BACK \notin Chars
<1>1. \A c \in Chars : \E n \in 1 .. 16 : c = Digit[n]
  BY CharsAre
<1>2. \A n \in 1 .. 16 : /\ Digit[n] \notin Keys
                         /\ Digit[n] \notin {QUOTE, BACK, OPENING, CLOSING, MINUS, NEWLINE, CONTROL}
  <2>1. \A n \in 1 .. 16 : Digit[n] \in {"0", "1", "2", "3", "4", "5", "6", "7", "8", "9",
                                         "a", "b", "c", "d", "e", "f"}
    BY DEF Digit
  <2>2. \A d \in {"0", "1", "2", "3", "4", "5", "6", "7", "8", "9",
                  "a", "b", "c", "d", "e", "f"} :
          /\ d \notin Keys
          /\ d \notin {QUOTE, BACK, OPENING, CLOSING, MINUS, NEWLINE, CONTROL}
    BY DEF Keys, QUOTE, BACK, OPENING, CLOSING, MINUS, NEWLINE, CONTROL
  <2> QED
    BY <2>1, <2>2
<1>3. \A c \in Chars : c \notin Keys /\ c \notin {QUOTE, BACK, OPENING, CLOSING, MINUS, NEWLINE, CONTROL}
  BY <1>1, <1>2, Zenon
<1> QED
  BY <1>3

LEMMA TokensAre ==
  /\ \A c \in {BACK, QUOTE, LETTER, OPENING, CLOSING, MINUS, HEX, "map", "unmap"} :
       c \notin Keys /\ c # NEWLINE /\ c # CONTROL
  /\ \A c \in {LETTER, MINUS, HEX, "map", "unmap"} : c \notin Marks("string") /\ c # BACK
  /\ Marks("string") = {QUOTE, BACK} /\ Marks("object") = {QUOTE, OPENING, CLOSING}
  /\ MINUS \notin Marks("object")
  /\ \A c \in Keys : c # NEWLINE /\ c # CONTROL
  /\ NEWLINE # CONTROL
BY DEF BACK, QUOTE, LETTER, OPENING, CLOSING, MINUS, HEX, Keys, NEWLINE, CONTROL, Marks

LEMMA TokIs ==
  ASSUME NEW X, X \cap Keys = {}
  PROVE  /\ NEWLINE \notin Tok(X) /\ (CONTROL \notin X => CONTROL \notin Tok(X))
         /\ EscapedIn(X, Tok(X) \ Keys) /\ Keys \subseteq Tok(X)
         /\ {BACK, QUOTE, LETTER, OPENING, CLOSING, MINUS, HEX, "map", "unmap"} \subseteq Tok(X) \ Keys
         /\ Chars \subseteq Tok(X) \ Keys
<1>1. NEWLINE \notin Chars /\ CONTROL \notin Chars /\ NEWLINE \notin Keys /\ CONTROL \notin Keys
  BY CharsPlain, TokensAre
<1>2. NEWLINE \notin Tok(X) /\ (CONTROL \notin X => CONTROL \notin Tok(X))
  BY <1>1, TokensAre DEF Tok
<1>3. /\ {BACK, QUOTE, LETTER, OPENING, CLOSING, MINUS, HEX, "map", "unmap"} \subseteq Tok(X) \ Keys
      /\ Keys \subseteq Tok(X)
  BY TokensAre DEF Tok
<1>4. Chars \subseteq Tok(X) \ Keys
  BY CharsPlain DEF Tok
<1>5. X \subseteq (Tok(X) \ Keys) \cup {NEWLINE}
  BY DEF Tok
<1>6. EscapedIn(X, Tok(X) \ Keys)
  BY <1>2, <1>3, <1>5 DEF EscapedIn
<1> QED
  BY <1>2, <1>3, <1>4, <1>6

\* A string that the scan passes is a value with its quotes.
LEMMA QuotedValue ==
  ASSUME NEW Y, QUOTE \in Y, QUOTE \notin Keys, NEW t \in Seq(Y \ Keys),
         \A s \in Seq(Y) : Open(s, "string") => Open(s \o t, "string")
  PROVE  IsValue(Quoted(t), Y)
<1>1. t \in Seq(Y)
  BY SeqMonotonic
<1>2. Quoted(t) \in Seq(Y \ Keys)
  BY UnquotedIs
<1>3. ASSUME NEW s \in Seq(Y), Open(s, "object")
      PROVE  Open(s \o Quoted(t), "object")
  <2> DEFINE a == Append(s, QUOTE)
             b == a \o t
  <2>1. a \in Seq(Y) /\ Open(a, "string") /\ s \o <<QUOTE>> = a
    <3>1. a \in Seq(Y)
      OBVIOUS
    <3>2. Open(a, "string")
      BY <1>3, OpenQuote DEF QUOTE
    <3>3. s \o <<QUOTE>> = a
      BY AppendIsConcat
    <3> QED
      BY <3>1, <3>2, <3>3
  <2> HIDE DEF a
  <2>2. b \in Seq(Y) /\ Open(b, "string")
    BY <1>1, <2>1, ConcatProperties
  <2>3. s \o (<<QUOTE>> \o t) = b
    <3>1. <<QUOTE>> \in Seq(Y)
      OBVIOUS
    <3>2. (s \o <<QUOTE>>) \o t = s \o (<<QUOTE>> \o t)
      BY <1>1, <3>1, ConcatAssociative
    <3> QED
      BY <2>1, <3>2
  <2> HIDE DEF b
  <2>4. Open(Append(b, QUOTE), "object")
    BY <2>2, OpenQuote DEF QUOTE
  <2>5. s \o ((<<QUOTE>> \o t) \o <<QUOTE>>) = b \o <<QUOTE>>
    <3> DEFINE d == <<QUOTE>>
               u == d \o t
    <3>1. d \in Seq(Y)
      OBVIOUS
    <3> HIDE DEF d
    <3>2. u \in Seq(Y)
      BY <1>1, <3>1, ConcatProperties
    <3>4. s \o u = b
      BY <2>3 DEF d
    <3> HIDE DEF u
    <3>3. (s \o u) \o d = s \o (u \o d)
      BY <3>1, <3>2, ConcatAssociative
    <3>5. s \o (u \o d) = b \o d
      BY <3>3, <3>4
    <3> QED
      BY <3>5 DEF u, d
  <2>6. b \o <<QUOTE>> = Append(b, QUOTE)
    BY <2>2, AppendIsConcat
  <2>7. Quoted(t) = (<<QUOTE>> \o t) \o <<QUOTE>>
    BY DEF Quoted, QUOTE
  <2> QED
    BY <2>4, <2>5, <2>6, <2>7
<1> QED
  BY <1>2, <1>3 DEF IsValue

LEMMA PlainOpens ==
  ASSUME NEW Y, NEW B, B \subseteq Y, NEW in \in Places, B \cap Marks(in) = {}, NEW t \in Seq(B)
  PROVE  \A s \in Seq(Y) : Open(s, in) => Open(s \o t, in)
BY OpenText

LEMMA PlacesAre == "string" \in Places /\ "object" \in Places
BY DEF Places

\* A number is a value.
LEMMA NumeralValue ==
  ASSUME NEW X, X \cap Keys = {}, NEW base \in {10, 16}, NEW v \in Nat
  PROVE  IsValue(Numeral(base, v), Tok(X))
<1> DEFINE t == Numeral(base, v)
           Y == Tok(X)
<1>1. t \in Seq(Chars)
  BY NumeralRead
<1>2. Chars \subseteq Y \ Keys /\ Chars \subseteq Y
  BY TokIs
<1> HIDE DEF t, Y
<1>3. t \in Seq(Y \ Keys)
  BY <1>1, <1>2, SeqMonotonic
<1>4. Chars \cap Marks("object") = {}
  BY CharsPlain, TokensAre
<1>5. \A s \in Seq(Y) : Open(s, "object") => Open(s \o t, "object")
  BY <1>1, <1>2, <1>4, PlacesAre, PlainOpens
<1>6. IsValue(t, Y)
  BY <1>3, <1>5 DEF IsValue
<1> QED
  BY <1>6 DEF t, Y

LEMMA ConcatFirst ==
  ASSUME NEW Y, NEW c \in Y, NEW t \in Seq(Y)
  PROVE  /\ <<c>> \o t \in Seq(Y) /\ (<<c>> \o t)[1] = c /\ Tail(<<c>> \o t) = t
<1> DEFINE a == <<c>> \o t
<1>1. a \in Seq(Y) /\ Len(a) = Len(t) + 1 /\ a[1] = c /\ Len(t) \in Nat
      /\ \A i \in 1 .. Len(t) : a[i + 1] = t[i]
  OBVIOUS
<1> HIDE DEF a
<1>2. /\ Tail(a) \in Seq(Y) /\ Len(Tail(a)) = Len(t)
      /\ \A i \in 1 .. Len(t) : Tail(a)[i] = a[i + 1]
  BY <1>1, HeadTailProperties
<1>3. Tail(a) = t
  BY <1>1, <1>2, SeqEqual
<1> QED
  BY <1>1, <1>3 DEF a

\* A number is read as it was, with its sign.
LEMMA SignedValue ==
  ASSUME NEW X, X \cap Keys = {}, NEW v \in Int
  PROVE  /\ IsValue(Signed(v), Tok(X)) /\ Number(Signed(v)) = v
         /\ v >= 0 => Number(Numeral(10, v)) = v
<1> DEFINE Y == Tok(X)
<1>1. CASE v >= 0
  <2> DEFINE t == Numeral(10, v)
  <2>1. Signed(v) = t /\ v \in Nat
    BY <1>1 DEF Signed
  <2>2. t \in Seq(Chars) /\ Len(t) > 0 /\ Value(10, t) = v
    BY <2>1, NumeralRead
  <2>3. IsValue(t, Y)
    BY <2>1, NumeralValue
  <2> HIDE DEF t, Y
  <2>4. t[1] # MINUS
    BY <2>2, CharsPlain
  <2>5. Number(t) = v
    BY <2>2, <2>4 DEF Number, MINUS
  <2> QED
    BY <2>1, <2>3, <2>5 DEF Y, t
<1>2. CASE v < 0
  <2> DEFINE t == Numeral(10, -(v + 1) + 1)
             a == <<MINUS>> \o t
             B == Chars \cup {MINUS}
  <2>1. Signed(v) = a
    BY <1>2 DEF Signed, MINUS
  <2>2. t \in Seq(Chars) /\ Value(10, t) = -v
    <3>1. -(v + 1) + 1 \in Nat /\ -(v + 1) + 1 = -v
      BY <1>2
    <3> QED
      BY <3>1, NumeralRead
  <2>3. B \subseteq Y \ Keys /\ B \subseteq Y /\ B \cap Marks("object") = {}
    BY TokIs, CharsPlain, TokensAre
  <2> HIDE DEF t
  <2>4. t \in Seq(B)
    BY <2>2, SeqMonotonic
  <2> HIDE DEF Y
  <2>5. a \in Seq(B) /\ a[1] = MINUS /\ Tail(a) = t
    BY <2>4, ConcatFirst
  <2> HIDE DEF a, B
  <2>6. Number(a) = v
    <3>1. Number(a) = -Value(10, t)
      BY <2>5 DEF Number, MINUS
    <3> QED
      BY <2>2, <3>1
  <2>7. a \in Seq(Y \ Keys)
    BY <2>3, <2>5, SeqMonotonic
  <2>8. \A s \in Seq(Y) : Open(s, "object") => Open(s \o a, "object")
    BY <2>3, <2>5, PlacesAre, PlainOpens
  <2>9. IsValue(a, Y)
    BY <2>7, <2>8 DEF IsValue
  <2> QED
    BY <1>2, <2>1, <2>6, <2>9 DEF Y
<1> QED
  BY <1>1, <1>2

\* A string of tokens that mean nothing to the scan or the decoder.
LEMMA PlainValue ==
  ASSUME NEW X, X \cap Keys = {}, NEW B, B \subseteq Tok(X) \ Keys,
         B \cap Marks("string") = {}, BACK \notin B, NEW t \in Seq(B)
  PROVE  IsValue(Quoted(t), Tok(X)) /\ Unquoted(Quoted(t)) = t
<1> DEFINE Y == Tok(X)
<1>1. QUOTE \in Y /\ QUOTE \notin Keys
  BY TokIs
<1>2. B \subseteq Y \ Keys /\ B \subseteq Y
  OBVIOUS
<1> HIDE DEF Y
<1>3. t \in Seq(Y \ Keys) /\ t \in Seq(Y)
  BY <1>2, SeqMonotonic
<1>4. \A s \in Seq(Y) : Open(s, "string") => Open(s \o t, "string")
  BY <1>2, PlacesAre, PlainOpens
<1>5. IsValue(Quoted(t), Y)
  BY <1>1, <1>3, <1>4, QuotedValue
<1>6. Unquoted(Quoted(t)) = Decoded(t).out
  BY <1>1, <1>3, UnquotedIs
<1>7. Decoded(t) = Plainly(t)
  BY DecodedPlain
<1>8. Plainly(t).out = t
  BY DEF Plainly
<1> QED
  BY <1>5, <1>6, <1>7, <1>8 DEF Y

\* The word that names the event, an address, a name: each is read as it was.
LEMMA WordValue ==
  ASSUME NEW X, X \cap Keys = {}, NEW c \in {"map", "unmap"}
  PROVE  IsValue(Quoted(<<c>>), Tok(X)) /\ Unquoted(Quoted(<<c>>)) = <<c>>
<1> DEFINE B == {"map", "unmap"}
<1>1. B \subseteq Tok(X) \ Keys
  BY TokIs
<1>2. B \cap Marks("string") = {} /\ BACK \notin B
  BY TokensAre
<1>3. <<c>> \in Seq(B)
  OBVIOUS
<1> HIDE DEF B
<1> QED
  BY <1>1, <1>2, <1>3, PlainValue

LEMMA AddressValue ==
  ASSUME NEW X, X \cap Keys = {}, NEW a \in Nat
  PROVE  /\ IsValue(Quoted(<<HEX>> \o Numeral(16, a)), Tok(X))
         /\ Address(Quoted(<<HEX>> \o Numeral(16, a))) = a
<1> DEFINE n == Numeral(16, a)
           t == <<HEX>> \o n
           B == Chars \cup {HEX}
<1>1. n \in Seq(Chars) /\ Value(16, n) = a
  BY NumeralRead
<1>2. B \subseteq Tok(X) \ Keys
  BY TokIs
<1>3. B \cap Marks("string") = {} /\ BACK \notin B
  BY TokensAre, CharsPlain
<1> HIDE DEF n
<1>4. n \in Seq(B)
  BY <1>1, SeqMonotonic
<1>5. t \in Seq(B) /\ Tail(t) = n
  BY <1>4, ConcatFirst
<1> HIDE DEF t, B
<1>6. IsValue(Quoted(t), Tok(X)) /\ Unquoted(Quoted(t)) = t
  BY <1>2, <1>3, <1>5, PlainValue
<1>7. Address(Quoted(t)) = a
  BY <1>1, <1>5, <1>6 DEF Address
<1> QED
  BY <1>6, <1>7 DEF t, n

LEMMA NameValue ==
  ASSUME NEW X, X \cap Keys = {}, NEW name \in Seq(X)
  PROVE  /\ IsValue(Quoted(Json(name)), Tok(X))
         /\ Unquoted(Quoted(Json(name))) = name
<1> DEFINE Y == Tok(X)
           t == Json(name)
<1>1. QUOTE \in Y /\ QUOTE \notin Keys /\ EscapedIn(X, Y \ Keys)
  BY TokIs
<1>2. EscapedIn(X, Y)
  BY <1>1, TokIs DEF EscapedIn
<1> HIDE DEF Y
<1>3. t \in Seq(Y \ Keys)
  BY <1>1, JsonType
<1>4. \A s \in Seq(Y) : Open(s, "string") => Open(s \o t, "string")
  BY <1>2, OpenJson
<1>5. Decoded(t) = Plainly(name)
  BY <1>1, DecodedJson
<1> HIDE DEF t
<1>6. t \in Seq(Y)
  BY <1>3, SeqMonotonic
<1>7. IsValue(Quoted(t), Y)
  BY <1>1, <1>3, <1>4, QuotedValue
<1>8. Unquoted(Quoted(t)) = Decoded(t).out
  BY <1>1, <1>6, UnquotedIs
<1>9. Plainly(name).out = name
  BY DEF Plainly
<1> QED
  BY <1>5, <1>7, <1>8, <1>9 DEF Y, t

-----------------------------------------------------------------------------
(* The payload: its fields, and what is read back.                         *)

EVENT == "event:"
NAME == "shmname:"
ADDR == "addr:"
SIZE == "size:"
RET == "ret:"

LEMMA KeysAre ==
  /\ EVENT \in Keys /\ NAME \in Keys /\ ADDR \in Keys /\ SIZE \in Keys /\ RET \in Keys
  /\ NAME \notin {EVENT} /\ ADDR \notin {EVENT} /\ RET \notin {EVENT, ADDR}
  /\ ADDR \notin {EVENT, NAME} /\ SIZE \notin {EVENT, NAME, ADDR}
  /\ RET \notin {EVENT, NAME, ADDR, SIZE}
BY DEF Keys, EVENT, NAME, ADDR, SIZE, RET

\* The payload of a map and of an unmap, without the brace.
MapBody(q, n, a, s, r) ==
  Add(Add(Add(Add(Add(<<OPENING>>, EVENT, q), NAME, n), ADDR, a), SIZE, s), RET, r)
UnmapBody(q, a, r) == Add(Add(Add(<<OPENING>>, EVENT, q), ADDR, a), RET, r)

LEMMA Opening ==
  ASSUME NEW Y, OPENING \in Y \ Keys
  PROVE  Fields(<<OPENING>>, Y, {})
<1> DEFINE t == <<OPENING>>
<1>1. t \in Seq(Y) /\ Len(t) = 1 /\ t[1] = OPENING
  OBVIOUS
<1>2. Open(t, "object")
  BY OpenFirst DEF OPENING
<1> HIDE DEF t
<1>3. \A i \in 1 .. Len(t) : t[i] \in Keys => t[i] \in {}
  BY <1>1
<1>4. Fields(t, Y, {})
  BY <1>1, <1>2, <1>3 DEF Fields
<1> QED
  BY <1>4 DEF t

ReadsMap(w, q, n, a, s, r) ==
  /\ After(w, EVENT) = q /\ After(w, NAME) = n /\ After(w, ADDR) = a
  /\ After(w, SIZE) = s /\ After(w, RET) = r

\* Each field of a payload is found under its key.
LEMMA MapFields ==
  ASSUME NEW Y, OPENING \in Y \ Keys, Keys \subseteq Y, NEW c \in Y,
         NEW q, NEW n, NEW a, NEW s, NEW r,
         IsValue(q, Y), IsValue(n, Y), IsValue(a, Y), IsValue(s, Y), IsValue(r, Y)
  PROVE  /\ Fields(MapBody(q, n, a, s, r), Y, {EVENT, NAME, ADDR, SIZE, RET})
         /\ ReadsMap(MapBody(q, n, a, s, r) \o <<c>>, q, n, a, s, r)
<1> DEFINE t0 == <<OPENING>>
           t1 == Add(t0, EVENT, q)
           t2 == Add(t1, NAME, n)
           t3 == Add(t2, ADDR, a)
           t4 == Add(t3, SIZE, s)
           t5 == Add(t4, RET, r)
           w == t5 \o <<c>>
<1>0. Fields(t0, Y, {})
  BY Opening
<1>a. /\ EVENT \in Y /\ NAME \in Y /\ ADDR \in Y /\ SIZE \in Y /\ RET \in Y
      /\ EVENT \in Keys /\ NAME \in Keys /\ ADDR \in Keys /\ SIZE \in Keys /\ RET \in Keys
  BY KeysAre
<1> HIDE DEF t0
<1>1. Fields(t1, Y, {EVENT})
  <2>1. {} \cup {EVENT} = {EVENT}
    OBVIOUS
  <2> QED
    BY <1>0, <1>a, <2>1, AddFields
<1>2. Fields(t2, Y, {EVENT, NAME}) /\ Ends(t2, EVENT, q, NAME)
  <2>1. {EVENT} \cup {NAME} = {EVENT, NAME} /\ EVENT \notin {}
    OBVIOUS
  <2>2. Ends(t2, EVENT, q, NAME)
    BY <1>0, <1>a, <2>1, AddNew
  <2> HIDE DEF t1
  <2> QED
    BY <1>1, <1>a, <2>1, <2>2, AddFields
<1>3. /\ Fields(t3, Y, {EVENT, NAME, ADDR})
      /\ Ends(t3, EVENT, q, NAME) /\ Ends(t3, NAME, n, ADDR)
  <2>1. {EVENT, NAME} \cup {ADDR} = {EVENT, NAME, ADDR}
    OBVIOUS
  <2>2. Ends(t3, NAME, n, ADDR)
    <3> HIDE DEF t1
    <3> QED
      BY <1>1, <1>a, KeysAre, AddNew
  <2> HIDE DEF t2
  <2>3. Ends(t3, EVENT, q, NAME)
    BY <1>2, <1>a, AddEnds
  <2> QED
    BY <1>2, <1>a, <2>1, <2>2, <2>3, AddFields
<1>4. /\ Fields(t4, Y, {EVENT, NAME, ADDR, SIZE})
      /\ Ends(t4, EVENT, q, NAME) /\ Ends(t4, NAME, n, ADDR) /\ Ends(t4, ADDR, a, SIZE)
  <2>1. {EVENT, NAME, ADDR} \cup {SIZE} = {EVENT, NAME, ADDR, SIZE}
    OBVIOUS
  <2>2. Ends(t4, ADDR, a, SIZE)
    <3> HIDE DEF t2
    <3> QED
      BY <1>2, <1>a, KeysAre, AddNew
  <2> HIDE DEF t3
  <2>3. Ends(t4, EVENT, q, NAME) /\ Ends(t4, NAME, n, ADDR)
    BY <1>3, <1>a, AddEnds
  <2> QED
    BY <1>3, <1>a, <2>1, <2>2, <2>3, AddFields
<1>5. /\ Fields(t5, Y, {EVENT, NAME, ADDR, SIZE, RET})
      /\ Ends(t5, EVENT, q, NAME) /\ Ends(t5, NAME, n, ADDR) /\ Ends(t5, ADDR, a, SIZE)
      /\ Ends(t5, SIZE, s, RET)
  <2>1. {EVENT, NAME, ADDR, SIZE} \cup {RET} = {EVENT, NAME, ADDR, SIZE, RET}
    OBVIOUS
  <2>2. Ends(t5, SIZE, s, RET)
    <3> HIDE DEF t3
    <3> QED
      BY <1>3, <1>a, KeysAre, AddNew
  <2> HIDE DEF t4
  <2>3. Ends(t5, EVENT, q, NAME) /\ Ends(t5, NAME, n, ADDR) /\ Ends(t5, ADDR, a, SIZE)
    BY <1>4, <1>a, AddEnds
  <2> QED
    BY <1>4, <1>a, <2>1, <2>2, <2>3, AddFields
<1>6. After(w, RET) = r
  <2> HIDE DEF t4
  <2> QED
    BY <1>4, <1>a, KeysAre, AddLast
<1> HIDE DEF t5
<1>7. t5 \in Seq(Y) /\ <<c>> \in Seq(Y) /\ w \in Seq(Y)
  BY <1>5 DEF Fields
<1>8. /\ Ends(w, EVENT, q, NAME) /\ Ends(w, NAME, n, ADDR) /\ Ends(w, ADDR, a, SIZE)
      /\ Ends(w, SIZE, s, RET)
  BY <1>5, <1>7, <1>a, EndsOn
<1> HIDE DEF w
<1>9. /\ After(w, EVENT) = q /\ After(w, NAME) = n /\ After(w, ADDR) = a /\ After(w, SIZE) = s
  BY <1>7, <1>8, EndsAfter
<1>10. ReadsMap(w, q, n, a, s, r)
  BY <1>6, <1>9 DEF ReadsMap
<1> QED
  BY <1>5, <1>10 DEF w, t5, t4, t3, t2, t1, t0, MapBody

LEMMA UnmapFields ==
  ASSUME NEW Y, OPENING \in Y \ Keys, Keys \subseteq Y, NEW c \in Y,
         NEW q, NEW a, NEW r, IsValue(q, Y), IsValue(a, Y), IsValue(r, Y)
  PROVE  /\ Fields(UnmapBody(q, a, r), Y, {EVENT, ADDR, RET})
         /\ After(UnmapBody(q, a, r) \o <<c>>, EVENT) = q
         /\ After(UnmapBody(q, a, r) \o <<c>>, ADDR) = a
         /\ After(UnmapBody(q, a, r) \o <<c>>, RET) = r
<1> DEFINE t0 == <<OPENING>>
           t1 == Add(t0, EVENT, q)
           t2 == Add(t1, ADDR, a)
           t3 == Add(t2, RET, r)
           w == t3 \o <<c>>
<1>0. Fields(t0, Y, {})
  BY Opening
<1>a. /\ EVENT \in Y /\ ADDR \in Y /\ RET \in Y
      /\ EVENT \in Keys /\ ADDR \in Keys /\ RET \in Keys
  BY KeysAre
<1> HIDE DEF t0
<1>1. Fields(t1, Y, {EVENT})
  <2>1. {} \cup {EVENT} = {EVENT}
    OBVIOUS
  <2> QED
    BY <1>0, <1>a, <2>1, AddFields
<1>2. Fields(t2, Y, {EVENT, ADDR}) /\ Ends(t2, EVENT, q, ADDR)
  <2>1. {EVENT} \cup {ADDR} = {EVENT, ADDR} /\ EVENT \notin {}
    OBVIOUS
  <2>2. Ends(t2, EVENT, q, ADDR)
    BY <1>0, <1>a, <2>1, AddNew
  <2> HIDE DEF t1
  <2> QED
    BY <1>1, <1>a, <2>1, <2>2, AddFields
<1>3. /\ Fields(t3, Y, {EVENT, ADDR, RET})
      /\ Ends(t3, EVENT, q, ADDR) /\ Ends(t3, ADDR, a, RET)
  <2>1. {EVENT, ADDR} \cup {RET} = {EVENT, ADDR, RET}
    OBVIOUS
  <2>2. Ends(t3, ADDR, a, RET)
    <3> HIDE DEF t1
    <3> QED
      BY <1>1, <1>a, KeysAre, AddNew
  <2> HIDE DEF t2
  <2>3. Ends(t3, EVENT, q, ADDR)
    BY <1>2, <1>a, AddEnds
  <2> QED
    BY <1>2, <1>a, <2>1, <2>2, <2>3, AddFields
<1>4. After(w, RET) = r
  <2> HIDE DEF t2
  <2> QED
    BY <1>2, <1>a, KeysAre, AddLast
<1> HIDE DEF t3
<1>5. t3 \in Seq(Y) /\ <<c>> \in Seq(Y) /\ w \in Seq(Y)
  BY <1>3 DEF Fields
<1>6. Ends(w, EVENT, q, ADDR) /\ Ends(w, ADDR, a, RET)
  BY <1>3, <1>5, <1>a, EndsOn
<1> HIDE DEF w
<1>7. After(w, EVENT) = q /\ After(w, ADDR) = a
  BY <1>5, <1>6, EndsAfter
<1> QED
  BY <1>3, <1>4, <1>7 DEF w, t3, t2, t1, t0, UnmapBody

\* A payload is a body and the brace.
MapEvent(n, a, s, r) == [event |-> "map", shmname |-> n, addr |-> a, size |-> s, ret |-> r]
UnmapEvent(a, r) == [event |-> "unmap", addr |-> a, ret |-> r]
MapText(n, a, s, r) ==
  MapBody(Quoted(<<"map">>), Quoted(Json(n)), Quoted(<<HEX>> \o Numeral(16, a)),
          Numeral(10, s), Signed(r))
UnmapText(a, r) ==
  UnmapBody(Quoted(<<"unmap">>), Quoted(<<HEX>> \o Numeral(16, a)), Signed(r))

LEMMA Begins == <<OPENING>> \o <<EVENT>> = <<OPENING, EVENT>>
<1>1. OPENING \in {OPENING, EVENT} /\ EVENT \in {OPENING, EVENT}
  OBVIOUS
<1> QED
  BY <1>1, TwoTokens

\* Payload, written with Add.
LEMMA MapPayload ==
  ASSUME NEW n, NEW a, NEW s, NEW r
  PROVE  Payload(MapEvent(n, a, s, r)) = MapText(n, a, s, r) \o <<CLOSING>>
<1> DEFINE e == MapEvent(n, a, s, r)
           q == Quoted(<<"map">>)
           g == Quoted(Json(n))
           h == Quoted(<<HEX>> \o Numeral(16, a))
           i == Numeral(10, s)
           j == Signed(r)
<1>1. /\ e.event = "map" /\ e.shmname = n /\ e.addr = a /\ e.size = s /\ e.ret = r
  BY DEF MapEvent
<1> HIDE DEF e
<1>2. Payload(e) = <<OPENING, EVENT>> \o Quoted(<<"map">>) \o <<NAME>> \o Quoted(Json(e.shmname))
         \o <<ADDR>> \o Quoted(<<HEX>> \o Numeral(16, e.addr))
         \o <<SIZE>> \o Numeral(10, e.size) \o <<RET>> \o Signed(e.ret) \o <<CLOSING>>
  BY <1>1, Zenon DEF Payload, OPENING, EVENT, NAME, ADDR, HEX, SIZE, RET, CLOSING
<1>3. Payload(e) = <<OPENING, EVENT>> \o q \o <<NAME>> \o g \o <<ADDR>> \o h
                   \o <<SIZE>> \o i \o <<RET>> \o j \o <<CLOSING>>
  BY <1>1, <1>2, Zenon
<1>4. MapText(n, a, s, r) = (<<OPENING>> \o <<EVENT>>) \o q \o <<NAME>> \o g \o <<ADDR>> \o h
                   \o <<SIZE>> \o i \o <<RET>> \o j
  BY Zenon DEF MapText, MapBody, Add
<1> HIDE DEF q, g, h, i, j
<1> QED
  BY <1>3, <1>4, Begins, Zenon DEF e

LEMMA UnmapPayload ==
  ASSUME NEW a, NEW r
  PROVE  Payload(UnmapEvent(a, r)) = UnmapText(a, r) \o <<CLOSING>>
<1> DEFINE e == UnmapEvent(a, r)
           q == Quoted(<<"unmap">>)
           h == Quoted(<<HEX>> \o Numeral(16, a))
           j == Signed(r)
<1>1. /\ e.event # "map" /\ e.addr = a /\ e.ret = r
  BY DEF UnmapEvent
<1> HIDE DEF e
<1>2. Payload(e) = <<OPENING, EVENT>> \o Quoted(<<"unmap">>)
         \o <<ADDR>> \o Quoted(<<HEX>> \o Numeral(16, e.addr))
         \o <<RET>> \o Signed(e.ret) \o <<CLOSING>>
  BY <1>1, Zenon DEF Payload, OPENING, EVENT, ADDR, HEX, RET, CLOSING
<1>3. Payload(e) = <<OPENING, EVENT>> \o q \o <<ADDR>> \o h \o <<RET>> \o j \o <<CLOSING>>
  BY <1>1, <1>2, Zenon
<1>4. UnmapText(a, r) = (<<OPENING>> \o <<EVENT>>) \o q \o <<ADDR>> \o h \o <<RET>> \o j
  BY Zenon DEF UnmapText, UnmapBody, Add
<1> HIDE DEF q, h, j
<1> QED
  BY <1>3, <1>4, Begins, Zenon DEF e

\* What is in a log is a record of a map or of an unmap, of which X are the
\* characters of the name.
IsMap(e, X) ==
  \E n \in Seq(X), a \in Nat, s \in Nat, r \in Int : e = MapEvent(n, a, s, r)
IsUnmap(e) == \E a \in Nat, r \in Int : e = UnmapEvent(a, r)
IsPayload(w, Y) ==
  \E t \in Seq(Y) : /\ Open(t, "object") /\ w = t \o <<CLOSING>>

\* json.loads refuses none of our tokens.
LEMMA LoadsIs ==
  ASSUME NEW X, X \cap Keys = {}, CONTROL \notin X,
         NEW w \in Seq(Tok(X)), w # <<>>
  PROVE  ~Contains(w, NEWLINE) /\ ~Contains(w, CONTROL)
<1>1. NEWLINE \notin Tok(X) /\ CONTROL \notin Tok(X)
  BY TokIs
<1> QED
  BY <1>1 DEF Contains

\* It makes of a payload the event that was written.
LEMMA LoadsMap ==
  ASSUME NEW X, X \cap Keys = {}, NEW e, IsMap(e, X)
  PROVE  /\ IsPayload(Payload(e), Tok(X))
         /\ CONTROL \notin X => Loads(Payload(e)) = e
<1> DEFINE Y == Tok(X)
<1>0. PICK n \in Seq(X), a \in Nat, s \in Nat, r \in Int : e = MapEvent(n, a, s, r)
  BY DEF IsMap
<1> DEFINE q == Quoted(<<"map">>)
           g == Quoted(Json(n))
           h == Quoted(<<HEX>> \o Numeral(16, a))
           i == Numeral(10, s)
           j == Signed(r)
           t == MapBody(q, g, h, i, j)
           w == t \o <<CLOSING>>
<1>1. /\ OPENING \in Y \ Keys /\ Keys \subseteq Y /\ CLOSING \in Y
  BY TokIs
<1>2. /\ IsValue(q, Y) /\ Unquoted(q) = <<"map">>
      /\ IsValue(g, Y) /\ Unquoted(g) = n
      /\ IsValue(h, Y) /\ Address(h) = a
      /\ IsValue(i, Y) /\ IsValue(j, Y) /\ Number(j) = r
  BY WordValue, NameValue, AddressValue, NumeralValue, SignedValue
<1>3. Number(i) = s
  <2>1. s \in Int /\ s >= 0
    OBVIOUS
  <2> QED
    BY <2>1, SignedValue
<1>4. Payload(e) = w
  BY <1>0, MapPayload, Zenon DEF MapText
<1> HIDE DEF q, g, h, i, j, Y
<1>5. /\ Fields(t, Y, {EVENT, NAME, ADDR, SIZE, RET})
      /\ After(w, EVENT) = q /\ After(w, NAME) = g /\ After(w, ADDR) = h
      /\ After(w, SIZE) = i /\ After(w, RET) = j
  <2>1. /\ OPENING \in Y \ Keys /\ Keys \subseteq Y /\ CLOSING \in Y
        /\ IsValue(q, Y) /\ IsValue(g, Y) /\ IsValue(h, Y) /\ IsValue(i, Y) /\ IsValue(j, Y)
    BY <1>1, <1>2
  <2>2. /\ Fields(MapBody(q, g, h, i, j), Y, {EVENT, NAME, ADDR, SIZE, RET})
        /\ ReadsMap(MapBody(q, g, h, i, j) \o <<CLOSING>>, q, g, h, i, j)
    BY <2>1, MapFields
  <2> QED
    BY <2>2, Zenon DEF ReadsMap
<1> HIDE DEF t
<1>6. t \in Seq(Y) /\ Open(t, "object")
  BY <1>5 DEF Fields
<1>7. w \in Seq(Y) /\ w # <<>>
  BY <1>1, <1>6
<1>8. IsPayload(w, Y)
  BY <1>6 DEF IsPayload
<1> HIDE DEF w
<1>9. ASSUME CONTROL \notin X
      PROVE  Loads(w) = MapEvent(n, a, s, r)
  <2>1. ~Contains(w, NEWLINE) /\ ~Contains(w, CONTROL)
    BY <1>7, <1>9, LoadsIs DEF Y
  <2>2. Unquoted(After(w, "event:"))[1] = "map"
    BY <1>2, <1>5 DEF EVENT
  <2>3. Address(After(w, "addr:")) = a
    BY <1>2, <1>5 DEF ADDR
  <2>4. Number(After(w, "ret:")) = r
    BY <1>2, <1>5 DEF RET
  <2>5. Unquoted(After(w, "shmname:")) = n
    BY <1>2, <1>5 DEF NAME
  <2>6. Number(After(w, "size:")) = s
    BY <1>3, <1>5 DEF SIZE
  <2> QED
    BY <1>7, <2>1, <2>2, <2>3, <2>4, <2>5, <2>6 DEF Loads, MapEvent
<1> QED
  BY <1>0, <1>4, <1>8, <1>9 DEF Y

LEMMA LoadsUnmap ==
  ASSUME NEW X, X \cap Keys = {}, NEW e, IsUnmap(e)
  PROVE  /\ IsPayload(Payload(e), Tok(X))
         /\ CONTROL \notin X => Loads(Payload(e)) = e
<1> DEFINE Y == Tok(X)
<1>0. PICK a \in Nat, r \in Int : e = UnmapEvent(a, r)
  BY DEF IsUnmap
<1> DEFINE q == Quoted(<<"unmap">>)
           h == Quoted(<<HEX>> \o Numeral(16, a))
           j == Signed(r)
           t == UnmapBody(q, h, j)
           w == t \o <<CLOSING>>
<1>1. /\ OPENING \in Y \ Keys /\ Keys \subseteq Y /\ CLOSING \in Y
  BY TokIs
<1>2. /\ IsValue(q, Y) /\ Unquoted(q) = <<"unmap">>
      /\ IsValue(h, Y) /\ Address(h) = a
      /\ IsValue(j, Y) /\ Number(j) = r
  BY WordValue, AddressValue, SignedValue
<1>4. Payload(e) = w
  BY <1>0, UnmapPayload, Zenon DEF UnmapText
<1> HIDE DEF q, h, j, Y
<1>5. /\ Fields(t, Y, {EVENT, ADDR, RET})
      /\ After(w, EVENT) = q /\ After(w, ADDR) = h /\ After(w, RET) = j
  BY <1>1, <1>2, UnmapFields
<1> HIDE DEF t
<1>6. t \in Seq(Y) /\ Open(t, "object")
  BY <1>5 DEF Fields
<1>7. w \in Seq(Y) /\ w # <<>>
  BY <1>1, <1>6
<1>8. IsPayload(w, Y)
  BY <1>6 DEF IsPayload
<1> HIDE DEF w
<1>9. ASSUME CONTROL \notin X
      PROVE  Loads(w) = UnmapEvent(a, r)
  <2>1. ~Contains(w, NEWLINE) /\ ~Contains(w, CONTROL)
    BY <1>7, <1>9, LoadsIs DEF Y
  <2>2. Unquoted(After(w, "event:"))[1] = "unmap"
    BY <1>2, <1>5 DEF EVENT
  <2>3. Address(After(w, "addr:")) = a
    BY <1>2, <1>5 DEF ADDR
  <2>4. Number(After(w, "ret:")) = r
    BY <1>2, <1>5 DEF RET
  <2> QED
    BY <1>7, <2>1, <2>2, <2>3, <2>4 DEF Loads, UnmapEvent
<1> QED
  BY <1>0, <1>4, <1>8, <1>9 DEF Y

\* A whole payload is found, and one that was cut is not.
LEMMA Finds ==
  ASSUME NEW Y, CLOSING \in Y, NEW w, IsPayload(w, Y)
  PROVE  /\ w \in Seq(Y) /\ Len(w) > 0
         /\ \A Z : Y \subseteq Z => \A f \in Seq(Z) : ObjectIn(w \o f) = w
         /\ \A k \in 0 .. Len(w) - 1 : ObjectIn(SubSeq(w, 1, k)) = <<>>
<1>1. PICK t \in Seq(Y) : Open(t, "object") /\ w = t \o <<CLOSING>>
  BY DEF IsPayload
<1>2. w = Append(t, CLOSING)
  BY <1>1, AppendIsConcat
<1>3. /\ Append(t, CLOSING) \in Seq(Y) /\ Len(Append(t, CLOSING)) = Len(t) + 1
      /\ Len(t) \in Nat
  BY AppendProperties
<1>4. ScanAt(Append(t, CLOSING)) = Ended(Len(t) + 1)
  BY <1>1, OpenClose DEF CLOSING
<1>5. ASSUME NEW k \in 0 .. Len(w) - 1
      PROVE  ObjectIn(SubSeq(w, 1, k)) = <<>>
  <2>1. k \in 0 .. Len(t)
    BY <1>2, <1>3
  <2>2. ObjectIn(SubSeq(Append(t, CLOSING), 1, k)) = <<>>
    BY <1>1, <2>1, ObjectCut
  <2> QED
    BY <1>2, <2>2
<1>6. ASSUME NEW Z, Y \subseteq Z, NEW f \in Seq(Z)
      PROVE  ObjectIn(w \o f) = w
  <2> DEFINE n == Len(t) + 1
  <2>1. w \in Seq(Y) /\ n \in Nat /\ n >= 1 /\ Len(w) = n /\ ScanAt(w) = Ended(n)
    BY <1>2, <1>3, <1>4
  <2> HIDE DEF n
  <2>2. w \in Seq(Z)
    BY <1>6, <2>1, SeqMonotonic
  <2> QED
    BY <2>1, <2>2, ObjectWhole
<1>7. w \in Seq(Y) /\ Len(w) > 0
  BY <1>2, <1>3
<1> QED
  BY <1>5, <1>6, <1>7

-----------------------------------------------------------------------------
(* The lines of the log.                                                   *)

Events == MapEvents \cup UnmapEvents

\* The events are records over a name's characters, none of them a key.
LEMMA EventIs ==
  ASSUME NEW e \in Events
  PROVE  \E X : /\ X \cap Keys = {} /\ (IsMap(e, X) \/ IsUnmap(e))
                /\ Readable(e) => CONTROL \notin X
<1>1. CASE e \in MapEvents
  <2>1. PICK n \in Names, a \in Addrs, s \in Sizes, r \in Rets :
          e = [event |-> "map", shmname |-> n, addr |-> IF r >= 0 THEN a ELSE 0,
               size |-> s, ret |-> r]
    BY <1>1 DEF MapEvents
  <2> DEFINE b == IF r >= 0 THEN a ELSE 0
             X == ToSet(n)
  <2>2. /\ n \in Seq(X) /\ X \cap Keys = {} /\ b \in Nat /\ s \in Nat /\ r \in Int
    BY DpAssumption, TextAssumption
  <2>3. e = MapEvent(n, b, s, r)
    BY <2>1 DEF MapEvent
  <2> HIDE DEF b
  <2>4. IsMap(e, X)
    BY <2>2, <2>3 DEF IsMap
  <2>5. Readable(e) => CONTROL \notin X
    <3>1. e.event = "map" /\ e.shmname = n
      BY <2>3 DEF MapEvent
    <3>2. DOMAIN n = 1 .. Len(n)
      BY <2>2
    <3> QED
      BY <3>1, <3>2 DEF Readable, Contains, ToSet
  <2> QED
    BY <2>2, <2>4, <2>5
<1>2. CASE e \in UnmapEvents
  <2>1. PICK a \in Addrs, r \in Rets : e = [event |-> "unmap", addr |-> a, ret |-> r]
    BY <1>2 DEF UnmapEvents
  <2>2. a \in Nat /\ r \in Int
    BY DpAssumption
  <2>3. IsUnmap(e)
    BY <2>1, <2>2 DEF IsUnmap, UnmapEvent
  <2>4. {} \cap Keys = {} /\ CONTROL \notin {}
    OBVIOUS
  <2> QED
    BY <2>3, <2>4
<1> QED
  BY <1>1, <1>2 DEF Events

\* Any event's payload can be found in a line, and loaded if it is readable.
LEMMA PayloadIs ==
  ASSUME NEW e \in Events
  PROVE  /\ \E Y : CLOSING \in Y /\ IsPayload(Payload(e), Y)
         /\ Readable(e) => Loads(Payload(e)) = e
<1>1. PICK X : /\ X \cap Keys = {} /\ (IsMap(e, X) \/ IsUnmap(e))
               /\ Readable(e) => CONTROL \notin X
  BY EventIs
<1>2. CLOSING \in Tok(X)
  BY <1>1, TokIs
<1>3. IsPayload(Payload(e), Tok(X)) /\ (CONTROL \notin X => Loads(Payload(e)) = e)
  BY <1>1, LoadsMap, LoadsUnmap
<1> QED
  BY <1>1, <1>2, <1>3

\* A buffer keeps a text that fits, or a beginning of it with a place left.
LEMMA KeptIs ==
  ASSUME NEW Y, NEW w \in Seq(Y), Len(w) > 0, NEW cap \in Nat \ {0}
  PROVE  /\ Kept(w, cap) \in Seq(Y) /\ Len(Kept(w, cap)) < cap
         /\ Len(w) < cap => Kept(w, cap) = w
         /\ ~(Len(w) < cap) => Kept(w, cap) = SubSeq(w, 1, cap - 1) /\ cap - 1 \in 0 .. Len(w) - 1
<1> DEFINE n == IF Len(w) < cap THEN Len(w) ELSE cap - 1
           u == SubSeq(w, 1, n)
<1>1. Len(w) \in Nat /\ n \in 0 .. Len(w) /\ n < cap
      /\ (~(Len(w) < cap) => n = cap - 1 /\ cap - 1 \in 0 .. Len(w) - 1)
      /\ (Len(w) < cap => n = Len(w))
  OBVIOUS
<1>2. Kept(w, cap) = u
  BY DEF Kept
<1> HIDE DEF n
<1>3. 1 \in Int /\ n \in Int /\ \A i \in 1 .. n : w[i] \in Y
  BY <1>1
<1>4. /\ u \in Seq(Y) /\ Len(u) = IF 1 <= n THEN n - 1 + 1 ELSE 0
      /\ \A i \in 1 .. n - 1 + 1 : u[i] = w[1 + i - 1]
  BY <1>3, SubSeqProperties
<1>5. ASSUME Len(w) < cap
      PROVE  u = w
  <2> HIDE DEF u
  <2>1. n = Len(w) /\ Len(u) = Len(w)
    BY <1>1, <1>4, <1>5
  <2>2. \A i \in 1 .. Len(w) : u[i] = w[i]
    BY <1>1, <1>4, <2>1
  <2> QED
    BY <1>4, <2>1, <2>2, SeqEqual
<1>6. Len(u) < cap
  <2> HIDE DEF u
  <2> QED
    BY <1>1, <1>4
<1>7. ~(Len(w) < cap) => u = SubSeq(w, 1, cap - 1) /\ cap - 1 \in 0 .. Len(w) - 1
  BY <1>1
<1> HIDE DEF u
<1> QED
  BY <1>2, <1>4, <1>5, <1>6, <1>7

LEMMA CapIs ==
  ASSUME NEW e
  PROVE  Cap(e) \in Nat \ {0}
BY DpAssumption DEF Cap

\* What a line says to the reader.
ReadsBack(e, text, f) ==
  /\ Len(text) < Cap(e)
  /\ IF Len(Payload(e)) < Cap(e)
     THEN Readable(e) => Unwrap(text \o f) = e
     ELSE f = <<>> => Unwrap(text) = NoEvent

LEMMA LineReads ==
  ASSUME NEW e \in Events, NEW f \in Foreign
  PROVE  ReadsBack(e, Kept(Payload(e), Cap(e)), f)
<1> DEFINE w == Payload(e)
           cap == Cap(e)
           text == Kept(w, cap)
<1>1. PICK Y : CLOSING \in Y /\ IsPayload(w, Y)
  BY PayloadIs
<1>2. Readable(e) => Loads(w) = e
  BY PayloadIs
<1>3. cap \in Nat \ {0}
  BY CapIs
<1> DEFINE Z == Y \cup ToSet(f)
<1>4. f \in Seq(ToSet(f))
  BY TextAssumption
<1>5. Y \subseteq Z /\ ToSet(f) \subseteq Z
  OBVIOUS
<1> HIDE DEF w, cap, Z
<1>6. f \in Seq(Z)
  BY <1>4, <1>5, SeqMonotonic
<1>7. /\ w \in Seq(Y) /\ Len(w) > 0
      /\ ObjectIn(w \o f) = w
      /\ \A k \in 0 .. Len(w) - 1 : ObjectIn(SubSeq(w, 1, k)) = <<>>
  BY <1>1, <1>5, <1>6, Finds
<1>8. /\ Len(text) < cap
      /\ Len(w) < cap => text = w
      /\ ~(Len(w) < cap) => text = SubSeq(w, 1, cap - 1) /\ cap - 1 \in 0 .. Len(w) - 1
  BY <1>3, <1>7, KeptIs
<1> HIDE DEF text
<1>9. ASSUME Len(w) < cap, Readable(e)
      PROVE  Unwrap(text \o f) = e
  BY <1>2, <1>7, <1>8, <1>9 DEF Unwrap
<1>10. ASSUME ~(Len(w) < cap)
       PROVE  Unwrap(text) = NoEvent
  <2>1. ObjectIn(text) = <<>>
    BY <1>7, <1>8, <1>10
  <2>2. Loads(<<>>) = NoEvent
    BY Zenon DEF Loads
  <2> QED
    BY <2>1, <2>2 DEF Unwrap
<1> QED
  BY <1>8, <1>9, <1>10 DEF ReadsBack, w, cap, text

\* Every line of the log is what a buffer has kept of an event's payload.
Line(e, f) == [ev |-> e, text |-> Kept(Payload(e), Cap(e)), foreign |-> f]
Lines == {Line(e, f) : e \in Events, f \in Foreign}
OutOK == out \in Seq(Lines)

\* Only Log writes, and it writes such a line.
LEMMA OutStep == IInv /\ OutOK /\ [Next]_vars => OutOK'
<1> SUFFICES ASSUME IInv, OutOK, [Next]_vars
             PROVE  OutOK'
  OBVIOUS
<1>1. CASE out' = out
  BY <1>1 DEF OutOK
<1>2. ASSUME NEW t \in Contexts, Log(t)
      PROVE  OutOK'
  <2>1. stack[t] \in Seq(Calls) /\ stack[t] # <<>> /\ Top(t) \in Calls
    BY <1>2 DEF Log, Within, Top, Last, IInv, TypeOK
  <2>2. Top(t).ev \in Events
    BY <2>1 DEF Calls, Events
  <2>3. PICK f \in Foreign : out' = Append(out, Line(Top(t).ev, f))
    BY <1>2 DEF Log, Line
  <2>4. Line(Top(t).ev, f) \in Lines
    BY <2>2 DEF Lines
  <2> QED
    BY <2>3, <2>4, AppendProperties DEF OutOK
<1>3. [Next]_vars => out' = out \/ \E t \in Contexts : Log(t)
  BY DEF Next, Step, Call, Enter, Dropped, LogNests, Leave, vars
<1> QED
  BY <1>1, <1>2, <1>3

\* An event that fits its buffer is read back as it was, whatever lands behind its
\* line; one that was cut is refused: b_json's escapes and _json_object_end's scan
\* undo each other for every name, and no cut payload has its brace.
THEOREM EventsReadBack == Spec => []ReadBack
<1>1. OutOK => ReadBack
  <2> SUFFICES ASSUME OutOK, NEW n \in DOMAIN out
               PROVE  ReadsBack(out[n].ev, out[n].text, out[n].foreign)
    BY DEF ReadBack, ReadsBack
  <2>1. out[n] \in Lines
    BY DEF OutOK
  <2>2. PICK e \in Events, f \in Foreign : out[n] = Line(e, f)
    BY <2>1 DEF Lines
  <2>3. out[n].ev = e /\ out[n].text = Kept(Payload(e), Cap(e)) /\ out[n].foreign = f
    BY <2>2 DEF Line
  <2> QED
    BY <2>3, LineReads
<1>2. Init => OutOK
  BY DEF Init, OutOK
<1> QED
  BY <1>1, <1>2, InitInv, StepInv, OutStep, PTL DEF Spec
=============================================================================
