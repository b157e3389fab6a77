-------------------------- MODULE CpProfiler_proofs --------------------------
(***************************************************************************)
(* Theorems about CpProfiler, for any number of threads, addresses and     *)
(* calls, and for an OS that shares regions or refuses to unmap them; then *)
(* those about CpProfilerLog: what analyze_profile.py gets out of the file *)
(* the profiler writes.                                                    *)
(***************************************************************************)
EXTENDS CpProfilerLog, FiniteSetTheorems, SequenceTheorems, WellFoundedInduction, TLAPS

-----------------------------------------------------------------------------
(* Types.                                                                  *)

LEMMA CountIsNat == ASSUME NEW m PROVE Count(m) \in Nat
<1>1. LiveAddrs(m) \subseteq Addrs
  BY DEF LiveAddrs
<1> QED
  BY <1>1, FS_Subset, FS_CardinalityType, CpAssumption DEF Count

LEMMA TypeInit == Init => TypeOK
<1> SUFFICES ASSUME Init
             PROVE  TypeOK
  OBVIOUS
<1>1. NoCall \in Calls /\ NoStats \in Totals
  BY DEF NoCall, NoStats, Calls, Totals
<1>2. OsTypes
  BY DEF Init, OsTypes
<1>3. ThreadTypes
  BY <1>1 DEF Init, ThreadTypes, PCs
<1>4. GTypes
  <2>1. inited \in BOOLEAN /\ fd \in BOOLEAN
    BY DEF Init
  <2>2. live \in [Addrs -> Sizes \cup {0, NoEntry}] /\ bytes \in Int /\ tids \in Nat
    BY DEF Init
  <2>3. lock \in Threads \cup {NULL} /\ stats \in Totals
    BY <1>1 DEF Init
  <2> QED
    BY <2>1, <2>2, <2>3 DEF GTypes
<1>5. FileTypes
  BY CpAssumption DEF Init, FileTypes
<1> QED
  BY <1>2, <1>3, <1>4, <1>5 DEF TypeOK

\* What a wrapper's OS call changes besides the OS.
LEMMA CalledType ==
  ASSUME TypeOK, NEW t \in Threads, NEW op \in {"map", "unmap"},
         NEW a \in Addrs \cup {NULL}, NEW s \in Sizes \cup {0}, NEW ret \in Int,
         Called(t, op, a, s, ret)
  PROVE  ThreadTypes' /\ GTypes' /\ FileTypes'
<1>1. [op |-> op, addr |-> a, size |-> s, ret |-> ret] \in Calls
  BY DEF Calls
<1>2. ThreadTypes'
  BY <1>1 DEF Called, TypeOK, ThreadTypes, PCs
<1>3. GTypes'
  BY DEF Called, TypeOK, GTypes, g
<1>4. FileTypes'
  BY CpAssumption DEF Called, TypeOK, FileTypes
<1> QED
  BY <1>2, <1>3, <1>4

LEMMA OsCallType ==
  ASSUME TypeOK, NEW t \in Threads, OsCall(t)
  PROVE  TypeOK'
<1>0. UNCHANGED osVars /\ UNCHANGED given => OsTypes'
  BY DEF TypeOK, OsTypes, osVars
<1>1. ASSUME NEW a \in Addrs, NEW s \in Sizes, MapFresh(t, a, s)
      PROVE  TypeOK'
  <2>1. OsTypes'
    BY <1>1 DEF MapFresh, TypeOK, OsTypes
  <2> QED
    BY <1>1, <2>1, CalledType DEF MapFresh, TypeOK
<1>2. ASSUME NEW a \in Addrs, MapShared(t, a)
      PROVE  TypeOK'
  <2>0. plain' \in BOOLEAN
    BY <1>2 DEF MapShared
  <2>1. OsTypes' /\ regionSize[a] \in Sizes \cup {0} /\ refs[a] + 1 \in Int
    <3>1. refs' \in [Addrs -> Int] /\ UNCHANGED <<given, regionSize>>
      BY <1>2 DEF MapShared, TypeOK, OsTypes
    <3> QED
      BY <2>0, <3>1 DEF TypeOK, OsTypes
  <2>2. Called(t, "map", a, regionSize[a], refs[a] + 1)
    BY <1>2 DEF MapShared
  <2> QED
    BY <2>1, <2>2, CalledType DEF TypeOK
<1>3. CASE MapFails(t)
  <2>1. Called(t, "map", NULL, 0, -1) /\ OsTypes'
    BY <1>0, <1>3 DEF MapFails
  <2> QED
    BY <2>1, CalledType DEF TypeOK
<1>4. ASSUME NEW a \in Addrs, UnmapWorks(t, a)
      PROVE  TypeOK'
  <2>1. OsTypes'
    BY <1>4 DEF UnmapWorks, TypeOK, OsTypes
  <2> QED
    BY <1>4, <2>1, CalledType DEF UnmapWorks, TypeOK
<1>5. ASSUME NEW a \in Addrs, UnmapFails(t, a)
      PROVE  TypeOK'
  <2>0. plain' \in BOOLEAN
    BY <1>5 DEF UnmapFails
  <2>1. Called(t, "unmap", a, 0, -1) /\ OsTypes'
    BY <2>0, <1>5 DEF UnmapFails, TypeOK, OsTypes
  <2> QED
    BY <2>1, CalledType DEF TypeOK
<1>6. CASE UnmapNull(t)
  <2>1. Called(t, "unmap", NULL, 0, 0) /\ OsTypes'
    BY <1>0, <1>6 DEF UnmapNull
  <2> QED
    BY <2>1, CalledType DEF TypeOK
<1> QED
  BY <1>1, <1>2, <1>3, <1>4, <1>5, <1>6 DEF OsCall

\* Record keeps the types of all it touches.
LEMMA RecordType ==
  ASSUME TypeOK, NEW t \in Threads, NEW op, NEW text, Record(t, op, text),
         tid' \in [Threads -> Nat] => text \in EventLines,
         live' \in [Addrs -> Sizes \cup {0, NoEntry}], bytes' \in Int,
         stats' \in Totals
  PROVE  TypeOK'
<1>1. inited' \in BOOLEAN /\ fd' \in BOOLEAN
  BY DEF Record, EnsureInit, TypeOK, GTypes
<1>2. tids' \in Nat /\ tid' \in [Threads -> Nat]
  BY DEF Record, EnsureTid, TypeOK, GTypes, ThreadTypes
<1>3. OsTypes' /\ FileTypes'
  BY DEF Record, TypeOK, OsTypes, osVars, FileTypes
<1>4. GTypes'
  <2>1. lock' \in Threads \cup {NULL}
    BY DEF Record, TypeOK, GTypes
  <2> QED
    BY <1>1, <1>2, <2>1 DEF GTypes
<1>5. ThreadTypes'
  <2>1. pc' \in [Threads -> PCs] /\ call' \in [Threads -> Calls]
    BY DEF Record, TypeOK, ThreadTypes, PCs
  <2>2. line' \in [Threads -> EventLines \cup {NoLine}]
    BY <1>2 DEF Record, TypeOK, ThreadTypes
  <2> QED
    BY <1>2, <2>1, <2>2 DEF ThreadTypes
<1> QED
  BY <1>3, <1>4, <1>5 DEF TypeOK

LEMMA MapLineType ==
  ASSUME TypeOK, NEW t \in Threads, bytes' \in Int, tid' \in [Threads -> Nat]
  PROVE  MapLine(t) \in EventLines
<1>1. \A m : Count(m) \in Nat
  BY CountIsNat
<1>2. CommonTail(t) \in Tails
  BY <1>1 DEF CommonTail, Tails
<1>3. call[t] \in Calls
  BY DEF TypeOK, ThreadTypes
<1> QED
  BY <1>2, <1>3 DEF MapLine, EventLines, Calls

\* What is found in the live set has a size.
LEMMA FoundSize ==
  ASSUME TypeOK, NEW a, Found(a)
  PROVE  a \in Addrs /\ live[a] \in Sizes \cup {0} /\ live[a] \in Int
<1>1. a \in Addrs /\ live[a] # NoEntry
  BY DEF Found
<1>2. live[a] \in Sizes \cup {0, NoEntry}
  BY <1>1 DEF TypeOK, GTypes
<1>3. Sizes \subseteq Nat
  BY CpAssumption
<1>4. live[a] \in Sizes \cup {0}
  BY <1>1, <1>2
<1>5. \A x \in Sizes \cup {0} : x \in Int
  BY <1>3
<1>6. live[a] \in Int
  BY <1>4, <1>5, Zenon
<1> QED
  BY <1>1, <1>4, <1>6

LEMMA UnmapLineType ==
  ASSUME TypeOK, NEW t \in Threads, bytes' \in Int, tid' \in [Threads -> Nat]
  PROVE  UnmapLine(t) \in EventLines
<1>1. \A m : Count(m) \in Nat
  BY CountIsNat
<1>2. CommonTail(t) \in Tails
  BY <1>1 DEF CommonTail, Tails
<1>3. call[t] \in Calls
  BY DEF TypeOK, ThreadTypes
<1> DEFINE a == call[t].addr
           size == IF Found(a) THEN live[a] ELSE 0
<1>4. size \in Sizes \cup {0}
  BY FoundSize
<1>5. Found(a) \in BOOLEAN
  BY DEF Found
<1> HIDE DEF size
<1>6. UnmapLine(t) = [event |-> "unmap", addr |-> a, ret |-> call[t].ret,
                      matched |-> Found(a), size |-> size, tail |-> CommonTail(t)]
  BY DEF UnmapLine, size
<1> QED
  BY <1>2, <1>3, <1>4, <1>5, <1>6 DEF EventLines, Calls

\* The file grows by a line or a part of one.
LEMMA WrittenType ==
  ASSUME TypeOK, NEW text \in EventLines \cup FinalLines, Written(text)
  PROVE  log' \in Seq(Chunks) /\ faults' \in 0 .. MaxFaults
<1>1. \A w \in BOOLEAN : [rec |-> text, whole |-> w] \in Chunks
  BY DEF Chunks
<1>2. log \in Seq(Chunks) /\ faults \in 0 .. MaxFaults
  BY DEF TypeOK, FileTypes
<1>3. \A w \in BOOLEAN : Append(log, [rec |-> text, whole |-> w]) \in Seq(Chunks)
  BY <1>1, <1>2
<1>4. log' \in Seq(Chunks)
  BY <1>2, <1>3 DEF Written
<1>5. faults' \in 0 .. MaxFaults
  BY <1>2, CpAssumption DEF Written
<1> QED
  BY <1>4, <1>5

LEMMA FinishType ==
  ASSUME TypeOK, NEW t \in Threads, Finish(t)
  PROVE  TypeOK'
<1>1. line[t] # NoLine => line[t] \in EventLines \cup FinalLines
  BY DEF TypeOK, ThreadTypes
<1>2. log' \in Seq(Chunks) /\ faults' \in 0 .. MaxFaults
  BY <1>1, WrittenType DEF Finish, TypeOK, FileTypes
<1>3. FileTypes'
  BY <1>2 DEF Finish, TypeOK, FileTypes
<1>4. GTypes'
  BY DEF Finish, TypeOK, GTypes, g
<1>5. NoCall \in Calls
  BY DEF NoCall, Calls
<1>6. ThreadTypes'
  <2>1. pc' \in [Threads -> PCs] /\ call' \in [Threads -> Calls]
    BY <1>5 DEF Finish, TypeOK, ThreadTypes, PCs
  <2> QED
    BY <2>1 DEF Finish, TypeOK, ThreadTypes
<1>7. given' \in [Addrs -> Nat]
  <2>1. given \in [Addrs -> Nat]
    BY DEF TypeOK, OsTypes
  <2>2. CASE call[t].addr \in Addrs
    BY <2>1, <2>2 DEF Finish
  <2>3. CASE call[t].addr \notin Addrs
    <3>1. given' = given
      BY <2>1, <2>3 DEF Finish
    <3> QED
      BY <2>1, <3>1
  <2> QED
    BY <2>2, <2>3
<1>8. OsTypes'
  BY <1>7 DEF Finish, TypeOK, OsTypes, osVars
<1> QED
  BY <1>3, <1>4, <1>6, <1>8 DEF TypeOK

LEMMA LockType ==
  ASSUME TypeOK, NEW t \in Threads, Lock(t)
  PROVE  TypeOK'
<1>1. OsTypes' /\ FileTypes'
  BY DEF Lock, TypeOK, OsTypes, osVars, FileTypes
<1>2. GTypes'
  BY DEF Lock, TypeOK, GTypes, g
<1>3. ThreadTypes'
  BY DEF Lock, TypeOK, ThreadTypes, PCs
<1> QED
  BY <1>1, <1>2, <1>3 DEF TypeOK

\* A field at a time.
LEMMA TotalsField ==
  ASSUME NEW s \in Totals, NEW n \in Nat, NEW b \in Int
  PROVE  /\ [s EXCEPT !.maps = n] \in Totals
         /\ [s EXCEPT !.peakCount = n] \in Totals
         /\ [s EXCEPT !.peakBytes = b] \in Totals
         /\ [s EXCEPT !.failures = n] \in Totals
         /\ [s EXCEPT !.unmaps = n] \in Totals
         /\ [s EXCEPT !.unmatched = n] \in Totals
<1>1. [s EXCEPT !.maps = n] \in Totals
  BY DEF Totals
<1>2. [s EXCEPT !.peakCount = n] \in Totals
  BY DEF Totals
<1>3. [s EXCEPT !.peakBytes = b] \in Totals
  BY DEF Totals
<1>4. [s EXCEPT !.failures = n] \in Totals
  BY DEF Totals
<1>5. [s EXCEPT !.unmaps = n] \in Totals
  BY DEF Totals
<1>6. [s EXCEPT !.unmatched = n] \in Totals
  BY DEF Totals
<1> QED
  BY <1>1, <1>2, <1>3, <1>4, <1>5, <1>6

LEMMA TotalsType ==
  ASSUME NEW s \in Totals, NEW m \in Nat, NEW b \in Int
  PROVE  /\ s.peakCount \in Nat /\ s.peakBytes \in Int /\ s.failures \in Nat
         /\ [s EXCEPT !.maps = @ + 1, !.peakCount = m, !.peakBytes = b] \in Totals
         /\ [s EXCEPT !.maps = @ + 1, !.failures = m] \in Totals
         /\ [s EXCEPT !.unmaps = @ + 1] \in Totals
         /\ [s EXCEPT !.unmaps = @ + 1, !.unmatched = @ + 1] \in Totals
<1>1. /\ s.peakCount \in Nat /\ s.peakBytes \in Int /\ s.maps \in Nat
      /\ s.failures \in Nat /\ s.unmaps \in Nat /\ s.unmatched \in Nat
  BY DEF Totals
<1>2. s.maps + 1 \in Nat /\ s.unmaps + 1 \in Nat /\ s.unmatched + 1 \in Nat
  BY <1>1
<1> DEFINE mapped   == [s EXCEPT !.maps = s.maps + 1]
           counted  == [mapped EXCEPT !.peakCount = m]
           unmapped == [s EXCEPT !.unmaps = s.unmaps + 1]
<1>3. mapped \in Totals /\ unmapped \in Totals
  BY <1>2, TotalsField
<1> HIDE DEF mapped, unmapped
<1>4. counted \in Totals /\ [mapped EXCEPT !.failures = m] \in Totals
      /\ [unmapped EXCEPT !.unmatched = s.unmatched + 1] \in Totals
  BY <1>2, <1>3, TotalsField
<1> HIDE DEF counted
<1>5. [counted EXCEPT !.peakBytes = b] \in Totals
  BY <1>4, TotalsField
<1> USE DEF mapped, counted, unmapped
<1>6. /\ [s EXCEPT !.maps = @ + 1, !.peakCount = m, !.peakBytes = b]
           = [counted EXCEPT !.peakBytes = b]
      /\ [s EXCEPT !.maps = @ + 1, !.failures = m]
           = [mapped EXCEPT !.failures = m]
      /\ [s EXCEPT !.unmaps = @ + 1] = unmapped
      /\ [s EXCEPT !.unmaps = @ + 1, !.unmatched = @ + 1]
           = [unmapped EXCEPT !.unmatched = s.unmatched + 1]
  BY DEF Totals
<1> QED
  BY <1>1, <1>3, <1>4, <1>5, <1>6

LEMMA RecordsType ==
  ASSUME TypeOK, NEW t \in Threads,
         \/ RecordMap(t) \/ RecordMapFailed(t)
         \/ RecordUnmap(t) \/ RecordUnmatched(t)
  PROVE  TypeOK'
<1>1. call[t] \in Calls /\ stats \in Totals /\ bytes \in Int
      /\ live \in [Addrs -> Sizes \cup {0, NoEntry}]
  BY DEF TypeOK, ThreadTypes, GTypes
<1>2. \A m : Count(m) \in Nat
  BY CountIsNat
<1>3. Sizes \subseteq Nat
  BY CpAssumption
<1>4. CASE RecordMap(t)
  <2>1. call[t].addr \in Addrs /\ call[t].size \in Sizes \cup {0}
    BY <1>1, <1>4 DEF RecordMap, Calls
  <2>2. live' \in [Addrs -> Sizes \cup {0, NoEntry}]
    BY <1>1, <1>4, <2>1 DEF RecordMap
  <2>3. bytes' \in Int
    BY <1>1, <1>3, <1>4, <2>1 DEF RecordMap
  <2>4. stats' \in Totals
    <3>1. PICK n \in Nat : n = Count(live')
      BY <1>2
    <3>2. stats' = [stats EXCEPT !.maps = @ + 1,
                                 !.peakCount = Larger(stats.peakCount, n),
                                 !.peakBytes = Larger(stats.peakBytes, bytes')]
      BY <1>4, <3>1 DEF RecordMap
    <3>3. Larger(stats.peakCount, n) \in Nat
          /\ Larger(stats.peakBytes, bytes') \in Int
      BY <1>1, <2>3, TotalsType DEF Larger
    <3> QED
      BY <1>1, <3>2, <3>3, TotalsType
  <2>5. Record(t, "map", MapLine(t))
    BY <1>4 DEF RecordMap
  <2> QED
    BY <2>2, <2>3, <2>4, <2>5, MapLineType, RecordType
<1>5. CASE RecordMapFailed(t)
  <2>1. stats' \in Totals
    <3>1. PICK f \in Nat : stats' = [stats EXCEPT !.maps = @ + 1, !.failures = f]
      <4>1. stats.failures \in Nat
        BY <1>1, TotalsType
      <4>2. CASE call[t].ret < 0
        <5>1. stats' = [stats EXCEPT !.maps = @ + 1,
                                     !.failures = stats.failures + 1]
          BY <1>5, <4>2 DEF RecordMapFailed
        <5>2. stats.failures + 1 \in Nat
          BY <4>1
        <5> QED
          BY <5>1, <5>2
      <4>3. CASE ~(call[t].ret < 0)
        <5>1. stats' = [stats EXCEPT !.maps = @ + 1, !.failures = stats.failures]
          BY <1>5, <4>3 DEF RecordMapFailed
        <5> QED
          BY <4>1, <5>1
      <4> QED
        BY <4>2, <4>3
    <3> QED
      BY <1>1, <3>1, TotalsType
  <2>2. live' = live /\ bytes' = bytes /\ Record(t, "map", MapLine(t))
    BY <1>5 DEF RecordMapFailed
  <2> QED
    BY <1>1, <2>1, <2>2, MapLineType, RecordType
<1>6. CASE RecordUnmap(t)
  <2>1. live[call[t].addr] \in Int
    BY <1>6, FoundSize DEF RecordUnmap
  <2>2. live' \in [Addrs -> Sizes \cup {0, NoEntry}]
    BY <1>1, <1>6 DEF RecordUnmap
  <2>3. bytes' \in Int
    BY <1>1, <1>6, <2>1 DEF RecordUnmap
  <2>4. stats' \in Totals
    BY <1>1, <1>6, TotalsType DEF RecordUnmap
  <2>5. Record(t, "unmap", UnmapLine(t))
    BY <1>6 DEF RecordUnmap
  <2> QED
    BY <2>2, <2>3, <2>4, <2>5, UnmapLineType, RecordType
<1>7. CASE RecordUnmatched(t)
  <2>1. stats' \in Totals
    BY <1>1, <1>7, TotalsType DEF RecordUnmatched
  <2>2. live' = live /\ bytes' = bytes /\ Record(t, "unmap", UnmapLine(t))
    BY <1>7 DEF RecordUnmatched
  <2> QED
    BY <1>1, <2>1, <2>2, UnmapLineType, RecordType
<1> QED
  BY <1>4, <1>5, <1>6, <1>7

\* exit() and profiler_atexit.
LEMMA ExitType ==
  ASSUME TypeOK, Exit \/ Exiting
  PROVE  TypeOK'
<1>0. Main \in Threads
  BY CpAssumption
<1>1. UNCHANGED <<call, tid, line>> /\ pc' \in [Threads -> PCs] => ThreadTypes'
  BY DEF TypeOK, ThreadTypes
<1>2. \A p \in PCs : pc' = [pc EXCEPT ![Main] = p] => pc' \in [Threads -> PCs]
  BY DEF TypeOK, ThreadTypes
<1>3. UNCHANGED <<osVars, given>> => OsTypes'
  BY DEF TypeOK, OsTypes, osVars
<1>4. UNCHANGED <<lock, g>> => GTypes'
  BY DEF TypeOK, GTypes, g
<1>5. UNCHANGED g /\ lock' \in Threads \cup {NULL} => GTypes'
  BY DEF TypeOK, GTypes, g
<1>6. UNCHANGED <<log, calls, faults>> /\ left' \subseteq Addrs => FileTypes'
  BY DEF TypeOK, FileTypes
<1>7. left \subseteq Addrs
  BY DEF TypeOK, FileTypes
<1>8. CASE Exit
  <2>1. pc' \in [Threads -> PCs]
    BY <1>2, <1>8 DEF Exit, PCs
  <2> QED
    BY <1>1, <1>3, <1>4, <1>6, <1>7, <1>8, <2>1 DEF Exit, TypeOK
<1>9. CASE ExitLock
  <2>1. pc' \in [Threads -> PCs]
    BY <1>2, <1>9 DEF ExitLock, PCs
  <2>2. left' \subseteq Addrs
    BY <1>9 DEF ExitLock, LiveAddrs
  <2> QED
    BY <1>0, <1>1, <1>3, <1>5, <1>6, <1>9, <2>1, <2>2 DEF ExitLock, TypeOK
<1>10. ASSUME NEW a \in Addrs, ExitLine(a)
       PROVE  TypeOK'
  <2>1. live[a] \in Sizes \cup {0, NoEntry}
    BY DEF TypeOK, GTypes
  <2>2. [event |-> "live_at_exit", addr |-> a, size |-> live[a]]
          \in EventLines \cup FinalLines
    BY <2>1 DEF FinalLines
  <2>3. log' \in Seq(Chunks) /\ faults' \in 0 .. MaxFaults
    BY <1>10, <2>2, WrittenType DEF ExitLine
  <2>4. FileTypes'
    BY <1>7, <1>10, <2>3 DEF ExitLine, TypeOK, FileTypes
  <2>5. ThreadTypes'
    BY <1>10 DEF ExitLine, TypeOK, ThreadTypes
  <2> QED
    BY <1>3, <1>4, <1>10, <2>4, <2>5 DEF ExitLine, TypeOK
<1>11. CASE ExitSummary
  <2>1. Count(live) \in Nat /\ stats \in Totals
    BY CountIsNat DEF TypeOK, GTypes
  <2>2. Summary \in EventLines \cup FinalLines
    BY <2>1 DEF Summary, FinalLines
  <2>3. log' \in Seq(Chunks) /\ faults' \in 0 .. MaxFaults
    BY <1>11, <2>2, WrittenType DEF ExitSummary
  <2>4. FileTypes'
    BY <1>11, <2>3 DEF ExitSummary, TypeOK, FileTypes
  <2>5. pc' \in [Threads -> PCs]
    BY <1>2, <1>11 DEF ExitSummary, PCs
  <2>6. lock' = NULL /\ fd' = FALSE
        /\ UNCHANGED <<inited, live, bytes, stats, tids>>
    BY <1>11 DEF ExitSummary
  <2>7. GTypes'
    <3>1. inited' \in BOOLEAN /\ fd' \in BOOLEAN
      BY <2>6 DEF TypeOK, GTypes
    <3>2. live' \in [Addrs -> Sizes \cup {0, NoEntry}] /\ bytes' \in Int
          /\ stats' \in Totals /\ tids' \in Nat /\ lock' \in Threads \cup {NULL}
      BY <2>6 DEF TypeOK, GTypes
    <3> QED
      BY <3>1, <3>2 DEF GTypes
  <2> QED
    BY <1>1, <1>3, <1>11, <2>4, <2>5, <2>7 DEF ExitSummary, TypeOK
<1>12. CASE ExitSilent
  <2>1. pc' \in [Threads -> PCs]
    BY <1>2, <1>12 DEF ExitSilent, PCs
  <2> QED
    BY <1>1, <1>3, <1>5, <1>6, <1>12, <2>1 DEF ExitSilent, TypeOK
<1>13. CASE Gone
  <2>1. pc' \in [Threads -> PCs]
    BY <1>2, <1>13 DEF Gone, PCs
  <2> QED
    BY <1>1, <1>3, <1>4, <1>6, <1>7, <1>13, <2>1 DEF Gone, TypeOK
<1> QED
  BY <1>8, <1>9, <1>10, <1>11, <1>12, <1>13 DEF Exiting

LEMMA TypeStep == TypeOK /\ [Next]_vars => TypeOK'
<1> SUFFICES ASSUME TypeOK, [Next]_vars
             PROVE  TypeOK'
  OBVIOUS
<1>1. CASE Next
  <2>1. ASSUME NEW t \in Threads, Profile(t)
        PROVE  TypeOK'
    BY <2>1, LockType, FinishType, RecordsType DEF Profile
  <2> QED
    BY <1>1, <2>1, ExitType, OsCallType DEF Next
<1>2. CASE UNCHANGED vars
  <2>1. OsTypes' /\ FileTypes'
    BY <1>2 DEF vars, osVars, TypeOK, OsTypes, FileTypes
  <2>2. ThreadTypes'
    BY <1>2 DEF vars, TypeOK, ThreadTypes
  <2>3. GTypes'
    BY <1>2 DEF vars, g, TypeOK, GTypes
  <2> QED
    BY <2>1, <2>2, <2>3 DEF TypeOK
<1> QED
  BY <1>1, <1>2

\* The types hold in every state, whatever the OS and the threads do.
THEOREM CpTypes == Spec => []TypeOK
BY TypeInit, TypeStep, PTL DEF Spec

-----------------------------------------------------------------------------
(* The lock.                                                               *)

LEMMA LockInit == Init => LockInv
BY DEF Init, LockInv, InSection

LEMMA LockStep == TypeOK /\ LockInv /\ [Next]_vars => LockInv'
<1> SUFFICES ASSUME TypeOK, LockInv, [Next]_vars
             PROVE  LockInv'
  OBVIOUS
<1> USE DEF LockInv, InSection
<1>1. pc \in [Threads -> PCs] /\ Main \in Threads
  BY CpAssumption DEF TypeOK, ThreadTypes
<1>2. ASSUME NEW t \in Threads, OsCall(t)
      PROVE  LockInv'
  <2>1. pc' = [pc EXCEPT ![t] = "called"] /\ lock' = lock
    BY <1>2 DEF OsCall, Called, MapShared, UnmapWorks, UnmapFails, MapFresh,
                MapFails, UnmapNull
  <2> QED
    BY <1>1, <2>1
<1>3. ASSUME NEW t \in Threads, Lock(t)
      PROVE  LockInv'
  \* Nobody else can be inside: the lock was free, and NULL is no thread.
  <2>1. lock = NULL /\ lock' = t /\ pc' = [pc EXCEPT ![t] = "locked"]
    BY <1>3 DEF Lock
  <2> QED
    BY <1>1, <2>1, CpAssumption
<1>4. ASSUME NEW t \in Threads,
             \/ RecordMap(t) \/ RecordMapFailed(t)
             \/ RecordUnmap(t) \/ RecordUnmatched(t)
      PROVE  LockInv'
  <2>1. pc[t] = "locked" /\ pc' = [pc EXCEPT ![t] = "recorded"] /\ lock' = lock
    BY <1>4 DEF RecordMap, RecordMapFailed, RecordUnmap, RecordUnmatched, Record
  <2> QED
    BY <1>1, <2>1
<1>5. ASSUME NEW t \in Threads, Finish(t)
      PROVE  LockInv'
  <2>1. pc[t] = "recorded" /\ pc' = [pc EXCEPT ![t] = "idle"]
    BY <1>5 DEF Finish
  <2> QED
    BY <1>1, <2>1
<1>6. CASE Exit
  <2>1. lock' = lock /\ (pc' = [pc EXCEPT ![Main] = "exit"]
                         \/ pc' = [pc EXCEPT ![Main] = "closed"])
    BY <1>6 DEF Exit
  <2> QED
    BY <1>1, <2>1
<1>7. CASE ExitLock
  <2>1. lock = NULL /\ lock' = Main /\ pc' = [pc EXCEPT ![Main] = "report"]
    BY <1>7 DEF ExitLock
  <2> QED
    BY <1>1, <2>1, CpAssumption
<1>8. ASSUME NEW a \in Addrs, ExitLine(a)
      PROVE  LockInv'
  BY <1>8 DEF ExitLine
<1>9. CASE ExitSummary \/ ExitSilent
  <2>1. pc[Main] = "report" /\ pc' = [pc EXCEPT ![Main] = "closed"]
    BY <1>9 DEF ExitSummary, ExitSilent
  <2> QED
    BY <1>1, <2>1
<1>10. CASE Gone
  <2>1. lock' = lock /\ pc' = [pc EXCEPT ![Main] = "gone"]
    BY <1>10 DEF Gone
  <2> QED
    BY <1>1, <2>1
<1>11. CASE UNCHANGED vars
  BY <1>11 DEF vars
<1> QED
  BY <1>2, <1>3, <1>4, <1>5, <1>6, <1>7, <1>8, <1>9, <1>10, <1>11
     DEF Next, Exiting, Profile

\* From its update of g to the end of its write a thread is alone, and so is
\* profiler_atexit: no line is written into the middle of another.
THEOREM CpExclusive == Spec => []OneInSection
<1>1. LockInv => OneInSection
  BY DEF LockInv, OneInSection
<1> QED
  BY <1>1, TypeInit, TypeStep, LockInit, LockStep, PTL DEF Spec

-----------------------------------------------------------------------------
(* The OS and the live set.                                                *)

\* Who is mapping an address changes only with the thread whose call changes.
LEMMA MappingStep ==
  ASSUME TypeOK, NEW t \in Threads, NEW c, call' = [call EXCEPT ![t] = c],
         NEW a \in Addrs
  PROVE  Mapping(a)' = IF c.op = "map" /\ c.addr = a THEN Mapping(a) \cup {t}
                                                     ELSE Mapping(a) \ {t}
BY DEF TypeOK, ThreadTypes, Mapping

LEMMA MappingFinite ==
  ASSUME NEW a PROVE IsFiniteSet(Mapping(a)) /\ Cardinality(Mapping(a)) \in Nat
<1>1. Mapping(a) \subseteq Threads
  BY DEF Mapping
<1> QED
  BY <1>1, FS_Subset, FS_CardinalityType, CpAssumption

LEMMA MappingJoin ==
  ASSUME NEW a, NEW t, t \notin Mapping(a)
  PROVE  /\ Cardinality(Mapping(a) \cup {t}) = Cardinality(Mapping(a)) + 1
         /\ Mapping(a) \ {t} = Mapping(a)
<1>1. Cardinality(Mapping(a) \cup {t}) = Cardinality(Mapping(a)) + 1
  BY MappingFinite, FS_AddElement
<1> QED
  BY <1>1

LEMMA MappingLeave ==
  ASSUME NEW a, NEW t \in Mapping(a)
  PROVE  Cardinality(Mapping(a) \ {t}) = Cardinality(Mapping(a)) - 1
BY MappingFinite, FS_RemoveElement

LEMMA CallStep == TypeOK /\ CallInv /\ [Next]_vars => CallInv'
<1> SUFFICES ASSUME TypeOK, CallInv, [Next]_vars
             PROVE  CallInv'
  OBVIOUS
<1> USE DEF CallInv
<1>1. /\ pc \in [Threads -> PCs] /\ call \in [Threads -> Calls]
      /\ Main \in Threads /\ NULL \notin Addrs
  BY CpAssumption DEF TypeOK, ThreadTypes
<1>2. ASSUME NEW t \in Threads, OsCall(t)
      PROVE  CallInv'
  <2>1. ASSUME NEW op, NEW a, NEW s, NEW ret, Called(t, op, a, s, ret),
               op = "map" => (ret > 0 <=> a # NULL)
        PROVE  CallInv'
    <3>1. pc' = [pc EXCEPT ![t] = "called"]
          /\ call' = [call EXCEPT ![t] = [op |-> op, addr |-> a, size |-> s, ret |-> ret]]
      BY <2>1 DEF Called
    <3>2. /\ call'[t].op = op /\ call'[t].addr = a /\ call'[t].ret = ret
          /\ pc'[t] = "called"
          /\ \A u \in Threads \ {t} : call'[u] = call[u] /\ pc'[u] = pc[u]
      BY <1>1, <3>1
    <3> QED
      BY <2>1, <3>2
  <2>2. ASSUME NEW a \in Addrs, MapShared(t, a)
        PROVE  CallInv'
    <3>1. refs[a] + 1 > 0 /\ a # NULL
      BY <1>1, <2>2 DEF MapShared, TypeOK, OsTypes
    <3> QED
      BY <2>1, <2>2, <3>1 DEF MapShared
  <2>3. ASSUME NEW a \in Addrs, NEW s \in Sizes, MapFresh(t, a, s)
        PROVE  CallInv'
    BY <1>1, <2>1, <2>3 DEF MapFresh
  <2>4. ASSUME NEW a \in Addrs, UnmapWorks(t, a) \/ UnmapFails(t, a)
        PROVE  CallInv'
    BY <2>1, <2>4 DEF UnmapWorks, UnmapFails
  <2>5. CASE MapFails(t) \/ UnmapNull(t)
    BY <2>1, <2>5 DEF MapFails, UnmapNull
  <2> QED
    BY <1>2, <2>2, <2>3, <2>4, <2>5 DEF OsCall
<1>3. ASSUME NEW t \in Threads, Lock(t)
      PROVE  CallInv'
  BY <1>1, <1>3 DEF Lock
<1>4. ASSUME NEW t \in Threads, NEW op, NEW text, Record(t, op, text)
      PROVE  CallInv'
  BY <1>1, <1>4 DEF Record
<1>5. ASSUME NEW t \in Threads, Finish(t)
      PROVE  CallInv'
  <2>1. pc' = [pc EXCEPT ![t] = "idle"] /\ call' = [call EXCEPT ![t] = NoCall]
    BY <1>5 DEF Finish
  <2> QED
    BY <1>1, <2>1 DEF NoCall
<1>6. ASSUME NEW p, pc' = [pc EXCEPT ![Main] = p], call' = call,
             pc[Main] \notin {"called", "locked", "recorded"}
      PROVE  CallInv'
  BY <1>1, <1>6
<1>7. CASE Exit \/ Exiting
  <2>1. CASE Exit
    BY <1>6, <2>1 DEF Exit
  <2>2. CASE ExitLock \/ ExitSummary \/ ExitSilent \/ Gone
    BY <1>6, <2>2 DEF ExitLock, ExitSummary, ExitSilent, Gone
  <2>3. ASSUME NEW a \in Addrs, ExitLine(a)
        PROVE  CallInv'
    BY <2>3 DEF ExitLine
  <2> QED
    BY <1>7, <2>1, <2>2, <2>3 DEF Exiting
<1>8. CASE UNCHANGED vars
  BY <1>8 DEF vars
<1> QED
  BY <1>2, <1>3, <1>4, <1>5, <1>7, <1>8
     DEF Next, Profile, RecordMap, RecordMapFailed, RecordUnmap, RecordUnmatched

LEMMA RefInit == Init => RefInv /\ CallInv /\ NoPhantoms
<1> SUFFICES ASSUME Init
             PROVE  RefInv /\ CallInv /\ NoPhantoms
  OBVIOUS
<1>1. CallInv
  BY DEF Init, CallInv, NoCall
<1>2. ASSUME NEW a \in Addrs
      PROVE  refs[a] = given[a] + Cardinality(Mapping(a))
  <2>1. Mapping(a) = {}
    BY DEF Init, Mapping, NoCall
  <2>2. refs[a] = 0 /\ given[a] = 0
    BY DEF Init
  <2> QED
    BY <2>1, <2>2, FS_EmptySet
<1>3. NoPhantoms
  BY DEF Init, NoPhantoms
<1> QED
  BY <1>1, <1>2, <1>3 DEF RefInv

\* A map takes a reference and joins Mapping, an unmap gives one back, and a
\* map that returns passes its reference to the caller.
LEMMA RefStep == TypeOK /\ CallInv /\ RefInv /\ [Next]_vars => RefInv'
<1> SUFFICES ASSUME TypeOK, CallInv, RefInv, [Next]_vars, NEW b \in Addrs
             PROVE  refs'[b] = given'[b] + Cardinality(Mapping(b)')
  BY DEF RefInv
<1>1. /\ pc \in [Threads -> PCs] /\ call \in [Threads -> Calls]
      /\ refs \in [Addrs -> Int] /\ given \in [Addrs -> Nat]
      /\ Cardinality(Mapping(b)) \in Nat /\ NULL \notin Addrs
      /\ refs[b] = given[b] + Cardinality(Mapping(b))
  BY CpAssumption, MappingFinite DEF TypeOK, ThreadTypes, OsTypes, RefInv
<1>2. UNCHANGED <<refs, given, call>>
        => refs'[b] = given'[b] + Cardinality(Mapping(b)')
  <2> SUFFICES ASSUME UNCHANGED <<refs, given, call>>
               PROVE  refs'[b] = given'[b] + Cardinality(Mapping(b)')
    OBVIOUS
  <2>1. Mapping(b)' = Mapping(b)
    BY DEF Mapping
  <2> QED
    BY <1>1, <2>1
<1>3. ASSUME NEW t \in Threads, NEW op, NEW a, NEW s, NEW ret,
             Called(t, op, a, s, ret)
      PROVE  /\ t \notin Mapping(b)
             /\ op = "map" /\ a = b => Mapping(b)' = Mapping(b) \cup {t}
             /\ ~(op = "map" /\ a = b) => Mapping(b)' = Mapping(b)
  <2>1. call[t].op = "none"
        /\ call' = [call EXCEPT ![t] = [op |-> op, addr |-> a, size |-> s, ret |-> ret]]
    BY <1>3 DEF Called, CallInv
  <2>2. t \notin Mapping(b)
    BY <2>1 DEF Mapping
  <2> DEFINE c == [op |-> op, addr |-> a, size |-> s, ret |-> ret]
  <2>3. call' = [call EXCEPT ![t] = c] /\ c.op = op /\ c.addr = a
    BY <2>1
  <2> HIDE DEF c
  <2>4. Mapping(b)' = IF c.op = "map" /\ c.addr = b THEN Mapping(b) \cup {t}
                                                    ELSE Mapping(b) \ {t}
    BY <2>3, MappingStep
  <2> QED
    BY <2>2, <2>3, <2>4
<1>4. ASSUME NEW t \in Threads, OsCall(t)
      PROVE  refs'[b] = given'[b] + Cardinality(Mapping(b)')
  <2>1. ASSUME NEW a \in Addrs, NEW s, NEW ret, Called(t, "map", a, s, ret),
               refs' = [refs EXCEPT ![a] = refs[a] + 1], given' = given
        PROVE  refs'[b] = given'[b] + Cardinality(Mapping(b)')
    <3>1. CASE a = b
      <4>1. Cardinality(Mapping(b)') = Cardinality(Mapping(b)) + 1
        BY <1>3, <2>1, <3>1, MappingJoin
      <4> QED
        BY <1>1, <2>1, <3>1, <4>1
    <3>2. CASE a # b
      <4>1. Mapping(b)' = Mapping(b)
        BY <1>3, <2>1, <3>2
      <4> QED
        BY <1>1, <2>1, <3>2, <4>1
    <3> QED
      BY <3>1, <3>2
  <2>2. ASSUME NEW a \in Addrs, NEW s \in Sizes, MapFresh(t, a, s)
        PROVE  refs'[b] = given'[b] + Cardinality(Mapping(b)')
    <3>1. refs' = [refs EXCEPT ![a] = refs[a] + 1] /\ given' = given
      BY <1>1, <2>2 DEF MapFresh
    <3> QED
      BY <2>1, <2>2, <3>1 DEF MapFresh
  <2>3. ASSUME NEW a \in Addrs, MapShared(t, a)
        PROVE  refs'[b] = given'[b] + Cardinality(Mapping(b)')
    <3>1. refs' = [refs EXCEPT ![a] = refs[a] + 1] /\ given' = given
      BY <1>1, <2>3 DEF MapShared
    <3> QED
      BY <2>1, <2>3, <3>1 DEF MapShared
  <2>4. ASSUME NEW op, NEW a, Called(t, op, a, 0, -1) \/ Called(t, op, a, 0, 0),
               op = "unmap" \/ a = NULL, UNCHANGED <<refs, given>>
        PROVE  refs'[b] = given'[b] + Cardinality(Mapping(b)')
    <3>1. Mapping(b)' = Mapping(b)
      BY <1>1, <1>3, <2>4
    <3> QED
      BY <1>1, <2>4, <3>1
  <2>5. ASSUME NEW a \in Addrs, UnmapWorks(t, a)
        PROVE  refs'[b] = given'[b] + Cardinality(Mapping(b)')
    <3>1. Mapping(b)' = Mapping(b)
      BY <1>3, <2>5 DEF UnmapWorks
    <3> QED
      BY <1>1, <2>5, <3>1 DEF UnmapWorks
  <2>6. ASSUME NEW a \in Addrs, UnmapFails(t, a)
        PROVE  refs'[b] = given'[b] + Cardinality(Mapping(b)')
    BY <2>4, <2>6 DEF UnmapFails, osVars
  <2>7. CASE MapFails(t) \/ UnmapNull(t)
    BY <2>4, <2>7 DEF MapFails, UnmapNull, osVars
  <2> QED
    BY <1>4, <2>2, <2>3, <2>5, <2>6, <2>7 DEF OsCall
<1>5. ASSUME NEW t \in Threads, Finish(t)
      PROVE  refs'[b] = given'[b] + Cardinality(Mapping(b)')
  <2>1. call' = [call EXCEPT ![t] = NoCall] /\ refs' = refs
    BY <1>5 DEF Finish, osVars
  <2>2. Mapping(b)' = Mapping(b) \ {t}
    <3>1. NoCall.op # "map"
      BY DEF NoCall
    <3>2. Mapping(b)' = IF NoCall.op = "map" /\ NoCall.addr = b
                        THEN Mapping(b) \cup {t} ELSE Mapping(b) \ {t}
      BY <2>1, MappingStep
    <3> QED
      BY <3>1, <3>2
  <2>3. CASE t \in Mapping(b)
    <3>1. call[t].op = "map" /\ call[t].addr = b /\ call[t].ret > 0
      BY <1>1, <2>3 DEF Mapping, CallInv
    <3>2. given' = [given EXCEPT ![b] = given[b] + 1]
      BY <1>5, <3>1 DEF Finish
    <3>3. Cardinality(Mapping(b)') = Cardinality(Mapping(b)) - 1
      BY <2>2, <2>3, MappingLeave
    <3> QED
      BY <1>1, <2>1, <3>2, <3>3
  <2>4. CASE t \notin Mapping(b)
    <3>1. given'[b] = given[b]
      <4>1. ~(call[t].op = "map" /\ call[t].addr = b)
        BY <2>4 DEF Mapping
      <4> QED
        BY <1>1, <1>5, <4>1 DEF Finish
    <3>2. Mapping(b)' = Mapping(b)
      BY <2>2, <2>4
    <3> QED
      BY <1>1, <2>1, <3>1, <3>2
  <2> QED
    BY <2>3, <2>4
<1>6. ASSUME NEW t \in Threads, NEW op, NEW text, Lock(t) \/ Record(t, op, text)
      PROVE  refs'[b] = given'[b] + Cardinality(Mapping(b)')
  BY <1>2, <1>6 DEF Lock, Record, osVars
<1>7. CASE Exit \/ Exiting \/ UNCHANGED vars
  BY <1>2, <1>7 DEF Exit, Exiting, ExitLock, ExitLine, ExitSummary, ExitSilent,
                    Gone, vars, osVars
<1> QED
  BY <1>4, <1>5, <1>6, <1>7
     DEF Next, Profile, RecordMap, RecordMapFailed, RecordUnmap, RecordUnmatched

LEMMA PhantomStep ==
  TypeOK /\ CallInv /\ RefInv /\ NoPhantoms /\ [Next]_vars => NoPhantoms'
<1> SUFFICES ASSUME TypeOK, CallInv, RefInv, NoPhantoms, [Next]_vars,
                    NEW b \in Addrs, live'[b] # NoEntry
             PROVE  refs'[b] > 0 \/ \E u \in Threads : Pending(u, "unmap", b)'
  BY DEF NoPhantoms
<1> DEFINE Safe == refs'[b] > 0 \/ \E u \in Threads : Pending(u, "unmap", b)'
<1>1. /\ pc \in [Threads -> PCs] /\ call \in [Threads -> Calls]
      /\ refs \in [Addrs -> Int]
      /\ live \in [Addrs -> Sizes \cup {0, NoEntry}] /\ Main \in Threads
  BY CpAssumption DEF TypeOK, ThreadTypes, OsTypes, GTypes
\* A step that keeps the reference and the unmap that is pending is harmless.
<1>2. ASSUME live[b] # NoEntry, refs[b] > 0 => refs'[b] > 0,
             \A u \in Threads : Pending(u, "unmap", b) => Pending(u, "unmap", b)'
      PROVE  Safe
  BY <1>2 DEF NoPhantoms
<1> HIDE DEF Safe
<1>3. ASSUME NEW t \in Threads, NEW op, NEW a, NEW s, NEW ret,
             Called(t, op, a, s, ret), refs[b] > 0 => refs'[b] > 0
      PROVE  Safe
  <2>1. /\ pc[t] = "idle" /\ pc' = [pc EXCEPT ![t] = "called"] /\ live' = live
        /\ call' = [call EXCEPT ![t] = [op |-> op, addr |-> a, size |-> s, ret |-> ret]]
    BY <1>3 DEF Called, g
  <2>2. \A u \in Threads : Pending(u, "unmap", b) => Pending(u, "unmap", b)'
    BY <1>1, <2>1 DEF Pending
  <2> QED
    BY <1>2, <1>3, <2>1, <2>2
<1>4. ASSUME NEW t \in Threads, OsCall(t)
      PROVE  Safe
  <2>1. ASSUME NEW a \in Addrs, MapShared(t, a)
        PROVE  Safe
    <3>1. refs[b] > 0 => refs'[b] > 0
      BY <1>1, <2>1 DEF MapShared
    <3> QED
      BY <1>3, <2>1, <3>1 DEF MapShared
  <2>2. ASSUME NEW a \in Addrs, NEW s \in Sizes, MapFresh(t, a, s)
        PROVE  Safe
    <3>1. refs[b] > 0 => refs'[b] > 0
      BY <1>1, <2>2 DEF MapFresh
    <3> QED
      BY <1>3, <2>2, <3>1 DEF MapFresh
  <2>3. ASSUME NEW a \in Addrs, UnmapWorks(t, a), a # b
        PROVE  Safe
    <3>1. refs[b] > 0 => refs'[b] > 0
      BY <1>1, <2>3 DEF UnmapWorks
    <3> QED
      BY <1>3, <2>3, <3>1 DEF UnmapWorks
  \* The unmap of b itself is pending from here on.
  <2>4. CASE UnmapWorks(t, b)
    <3>1. /\ pc' = [pc EXCEPT ![t] = "called"]
          /\ call' = [call EXCEPT ![t] = [op |-> "unmap", addr |-> b, size |-> 0, ret |-> 0]]
      BY <2>4 DEF UnmapWorks, Called
    <3>2. Pending(t, "unmap", b)'
      BY <1>1, <3>1 DEF Pending
    <3> QED
      BY <3>2 DEF Safe
  <2>5. ASSUME NEW a \in Addrs, UnmapFails(t, a)
        PROVE  Safe
    BY <1>3, <2>5 DEF UnmapFails, osVars
  <2>6. CASE MapFails(t) \/ UnmapNull(t)
    BY <1>3, <2>6 DEF MapFails, UnmapNull, osVars
  <2> QED
    BY <1>4, <2>1, <2>2, <2>3, <2>4, <2>5, <2>6 DEF OsCall
<1>5. ASSUME NEW t \in Threads, Lock(t)
      PROVE  Safe
  <2>1. /\ pc' = [pc EXCEPT ![t] = "locked"] /\ call' = call
        /\ live' = live /\ refs' = refs
    BY <1>5 DEF Lock, g, osVars
  <2>2. \A u \in Threads : Pending(u, "unmap", b) => Pending(u, "unmap", b)'
    BY <1>1, <2>1 DEF Pending
  <2> QED
    BY <1>2, <2>1, <2>2
\* A record takes at most its own thread out of Pending.
<1>6. ASSUME NEW t \in Threads, NEW op, NEW text, Record(t, op, text),
             live[b] # NoEntry, ~(op = "unmap" /\ call[t].addr = b)
      PROVE  Safe
  <2>1. /\ pc' = [pc EXCEPT ![t] = "recorded"] /\ call' = call /\ refs' = refs
        /\ call[t].op = op
    BY <1>6 DEF Record, osVars
  <2>2. \A u \in Threads : Pending(u, "unmap", b) => Pending(u, "unmap", b)'
    BY <1>1, <1>6, <2>1 DEF Pending
  <2> QED
    BY <1>2, <1>6, <2>1, <2>2
<1>7. ASSUME NEW t \in Threads, RecordMap(t)
      PROVE  Safe
  <2>1. /\ live' = [live EXCEPT ![call[t].addr] = call[t].size]
        /\ Record(t, "map", MapLine(t))
    BY <1>7 DEF RecordMap
  <2>2. CASE call[t].addr = b
    \* The map that is being recorded still holds the reference it took.
    <3>1. t \in Mapping(b) /\ refs' = refs
      BY <2>1, <2>2 DEF Mapping, Record, osVars
    <3>2. Cardinality(Mapping(b)) # 0
      BY <3>1, MappingFinite, FS_EmptySet
    <3>3. given[b] \in Nat /\ refs[b] = given[b] + Cardinality(Mapping(b))
      BY DEF RefInv, TypeOK, OsTypes
    <3>4. refs'[b] > 0
      BY <3>1, <3>2, <3>3, MappingFinite
    <3> QED
      BY <3>4 DEF Safe
  <2>3. CASE call[t].addr # b
    <3>1. live[b] # NoEntry
      BY <1>1, <2>1, <2>3
    <3> QED
      BY <1>6, <2>1, <2>3, <3>1
  <2> QED
    BY <2>2, <2>3
<1>8. ASSUME NEW t \in Threads, RecordMapFailed(t)
      PROVE  Safe
  BY <1>6, <1>8 DEF RecordMapFailed
<1>9. ASSUME NEW t \in Threads, RecordUnmap(t)
      PROVE  Safe
  <2>1. live' = [live EXCEPT ![call[t].addr] = NoEntry]
        /\ Record(t, "unmap", UnmapLine(t))
    BY <1>9 DEF RecordUnmap
  <2>2. live[b] # NoEntry /\ call[t].addr # b
    BY <1>1, <2>1
  <2> QED
    BY <1>6, <2>1, <2>2
<1>10. ASSUME NEW t \in Threads, RecordUnmatched(t)
       PROVE  Safe
  <2>1. live[b] # NoEntry /\ ~Found(call[t].addr) /\ Record(t, "unmap", UnmapLine(t))
    BY <1>10 DEF RecordUnmatched
  <2> QED
    BY <1>6, <2>1 DEF Found
<1>11. ASSUME NEW t \in Threads, Finish(t)
       PROVE  Safe
  <2>1. /\ pc[t] = "recorded" /\ pc' = [pc EXCEPT ![t] = "idle"]
        /\ call' = [call EXCEPT ![t] = NoCall] /\ live' = live /\ refs' = refs
    BY <1>11 DEF Finish, g, osVars
  <2>2. \A u \in Threads : Pending(u, "unmap", b) => Pending(u, "unmap", b)'
    BY <1>1, <2>1 DEF Pending
  <2> QED
    BY <1>2, <2>1, <2>2
<1>12. ASSUME Exit \/ Exiting
       PROVE  Safe
  <2>1. live' = live /\ refs' = refs /\ call' = call
    BY <1>12 DEF Exit, Exiting, ExitLock, ExitLine, ExitSummary, ExitSilent, Gone,
                 osVars, g
  <2>2. \/ pc' = pc
        \/ /\ pc[Main] \notin {"called", "locked"}
           /\ \E p : pc' = [pc EXCEPT ![Main] = p]
    BY <1>12 DEF Exit, Exiting, ExitLock, ExitLine, ExitSummary, ExitSilent, Gone
  <2>3. \A u \in Threads : Pending(u, "unmap", b) => Pending(u, "unmap", b)'
    BY <1>1, <2>1, <2>2 DEF Pending
  <2> QED
    BY <1>2, <2>1, <2>3
<1>13. ASSUME UNCHANGED vars
       PROVE  Safe
  <2>1. live' = live /\ refs' = refs /\ call' = call /\ pc' = pc
    BY <1>13 DEF vars, osVars, g
  <2>2. \A u \in Threads : Pending(u, "unmap", b) => Pending(u, "unmap", b)'
    BY <2>1 DEF Pending
  <2> QED
    BY <1>2, <2>1, <2>2
<1>14. Safe
  <2>1. ASSUME NEW t \in Threads, Profile(t)
        PROVE  Safe
    BY <1>5, <1>7, <1>8, <1>9, <1>10, <1>11, <2>1 DEF Profile
  <2> QED
    BY <1>4, <1>12, <1>13, <2>1 DEF Next
<1> QED
  BY <1>14 DEF Safe

\* However the threads' calls and their records interleave, and even when the
\* OS shares regions or refuses to unmap them, an address in the live set is
\* mapped, or an unmap of it is on its way to the profiler.
THEOREM CpNoPhantoms == Spec => []NoPhantoms
<1>1. Init => TypeOK /\ CallInv /\ RefInv /\ NoPhantoms
  BY TypeInit, RefInit
<1>2. TypeOK /\ CallInv /\ RefInv /\ NoPhantoms /\ [Next]_vars
        => (TypeOK /\ CallInv /\ RefInv /\ NoPhantoms)'
  BY TypeStep, CallStep, RefStep, PhantomStep
<1> QED
  BY <1>1, <1>2, PTL DEF Spec
-----------------------------------------------------------------------------
(* What the records say when nothing strange happens: the live set is what  *)
(* the OS has mapped, and the file has a line of every call that returned.  *)

LEMMA PlainInit == Init => PlainInv
BY DEF Init, PlainInv, PlainAt, Waits, Pending, NoCall

\* Where a step leaves the OS, the live set and who waits for a record alone.
LEMMA PlainFrame ==
  ASSUME NEW b \in Addrs, PlainAt(b),
         refs'[b] = refs[b], regionSize'[b] = regionSize[b], live'[b] = live[b],
         \A u \in Threads :
           /\ Pending(u, "map", b)' <=> Pending(u, "map", b)
           /\ Pending(u, "unmap", b)' <=> Pending(u, "unmap", b)
           /\ Pending(u, "map", b) => call'[u] = call[u]
  PROVE  PlainAt(b)'
BY DEF PlainAt, Waits

\* A call to the OS by which b is not concerned.
LEMMA CallElsewhere ==
  ASSUME TypeOK, NEW b \in Addrs, PlainAt(b), NEW t \in Threads,
         NEW op, NEW a, NEW s, NEW ret, Called(t, op, a, s, ret), a # b,
         refs'[b] = refs[b], regionSize'[b] = regionSize[b]
  PROVE  PlainAt(b)'
<1>1. pc \in [Threads -> PCs] /\ call \in [Threads -> Calls]
  BY DEF TypeOK, ThreadTypes
<1>2. /\ pc[t] = "idle" /\ pc' = [pc EXCEPT ![t] = "called"] /\ live' = live
      /\ call' = [call EXCEPT ![t] = [op |-> op, addr |-> a, size |-> s, ret |-> ret]]
  BY DEF Called, g
<1>3. \A u \in Threads :
        /\ Pending(u, "map", b)' <=> Pending(u, "map", b)
        /\ Pending(u, "unmap", b)' <=> Pending(u, "unmap", b)
        /\ Pending(u, "map", b) => call'[u] = call[u]
  BY <1>1, <1>2 DEF Pending
<1> QED
  BY <1>2, <1>3, PlainFrame

\* A fresh region at b: nobody waits there, and its map does from here on.
LEMMA FreshAt ==
  ASSUME TypeOK, NEW b \in Addrs, PlainAt(b), NEW t \in Threads, NEW s \in Sizes,
         MapFresh(t, b, s), plain'
  PROVE  PlainAt(b)'
<1>1. /\ pc \in [Threads -> PCs] /\ call \in [Threads -> Calls]
      /\ refs \in [Addrs -> Int] /\ regionSize \in [Addrs -> Sizes \cup {0}]
  BY DEF TypeOK, ThreadTypes, OsTypes
<1>2. /\ pc[t] = "idle" /\ pc' = [pc EXCEPT ![t] = "called"] /\ live' = live
      /\ call' = [call EXCEPT ![t] = [op |-> "map", addr |-> b, size |-> s, ret |-> 1]]
      /\ refs[b] = 0 /\ refs'[b] = 1 /\ regionSize'[b] = s
      /\ \A u \in Threads : ~Pending(u, "unmap", b)
  BY <1>1 DEF MapFresh, Called, g
<1>3. \A u \in Threads : ~Pending(u, "map", b)
  BY <1>2 DEF PlainAt
<1>4. live[b] = NoEntry
  BY <1>2, <1>3 DEF PlainAt, Waits
<1>5. \A u \in Threads : /\ ~Pending(u, "unmap", b)'
                         /\ Pending(u, "map", b)' <=> u = t
  BY <1>1, <1>2, <1>3 DEF Pending
<1>6. call'[t].size = s
  BY <1>1, <1>2
<1> QED
  BY <1>2, <1>4, <1>5, <1>6 DEF PlainAt, Waits

\* An unmap of b: its caller held the one reference, so no map waits.
LEMMA UnmapAt ==
  ASSUME TypeOK, RefInv, NEW b \in Addrs, PlainAt(b), NEW t \in Threads,
         UnmapWorks(t, b)
  PROVE  PlainAt(b)'
<1>1. /\ pc \in [Threads -> PCs] /\ call \in [Threads -> Calls]
      /\ refs \in [Addrs -> Int] /\ given[b] \in Nat /\ given[b] > 0
      /\ Cardinality(Mapping(b)) \in Nat
      /\ refs[b] = given[b] + Cardinality(Mapping(b))
  BY MappingFinite DEF TypeOK, ThreadTypes, OsTypes, RefInv, UnmapWorks
<1>2. /\ pc[t] = "idle" /\ pc' = [pc EXCEPT ![t] = "called"] /\ live' = live
      /\ call' = [call EXCEPT ![t] = [op |-> "unmap", addr |-> b, size |-> 0, ret |-> 0]]
      /\ refs'[b] = refs[b] - 1 /\ regionSize' = regionSize
  BY <1>1 DEF UnmapWorks, Called, g
<1>3. refs[b] = 1 /\ Cardinality(Mapping(b)) = 0
  BY <1>1 DEF PlainAt
<1>4. Mapping(b) = {}
  BY <1>3, MappingFinite, FS_EmptySet
<1>5. \A u \in Threads : ~Pending(u, "map", b) /\ ~Pending(u, "unmap", b)
  BY <1>3, <1>4 DEF PlainAt, Mapping, Pending
<1>6. live[b] = regionSize[b] /\ regionSize[b] \in Sizes
  BY <1>3, <1>5 DEF PlainAt, Waits
<1>7. \A u \in Threads : /\ ~Pending(u, "map", b)'
                         /\ Pending(u, "unmap", b)' <=> u = t
  BY <1>1, <1>2, <1>5 DEF Pending
<1> QED
  BY <1>2, <1>3, <1>6, <1>7 DEF PlainAt, Waits

LEMMA OsPlain ==
  ASSUME TypeOK, RefInv, PlainInv, NEW t \in Threads, OsCall(t), plain',
         NEW b \in Addrs
  PROVE  PlainAt(b)'
<1>1. /\ refs \in [Addrs -> Int] /\ regionSize \in [Addrs -> Sizes \cup {0}]
      /\ NULL \notin Addrs
  BY CpAssumption DEF TypeOK, OsTypes
<1>2. ASSUME NEW a \in Addrs, NEW s \in Sizes, MapFresh(t, a, s)
      PROVE  PlainAt(b)'
  <2>1. PlainAt(b)
    BY <1>2 DEF MapFresh, PlainInv
  <2>2. CASE a # b
    <3>1. refs'[b] = refs[b] /\ regionSize'[b] = regionSize[b]
      BY <1>1, <1>2, <2>2 DEF MapFresh
    <3> QED
      BY <1>2, <2>1, <2>2, <3>1, CallElsewhere DEF MapFresh
  <2> QED
    BY <1>2, <2>1, <2>2, FreshAt
<1>3. ASSUME NEW a \in Addrs, MapShared(t, a) \/ UnmapFails(t, a)
      PROVE  FALSE
  BY <1>3 DEF MapShared, UnmapFails
<1>4. ASSUME NEW a \in Addrs, UnmapWorks(t, a)
      PROVE  PlainAt(b)'
  <2>1. PlainAt(b)
    BY <1>4 DEF UnmapWorks, PlainInv
  <2>2. CASE a # b
    <3>1. refs'[b] = refs[b] /\ regionSize'[b] = regionSize[b]
      BY <1>1, <1>4, <2>2 DEF UnmapWorks
    <3> QED
      BY <1>4, <2>1, <2>2, <3>1, CallElsewhere DEF UnmapWorks
  <2> QED
    BY <1>4, <2>1, <2>2, UnmapAt
<1>5. CASE MapFails(t) \/ UnmapNull(t)
  <2>1. PlainAt(b) /\ refs'[b] = refs[b] /\ regionSize'[b] = regionSize[b] /\ NULL # b
    BY <1>1, <1>5 DEF MapFails, UnmapNull, osVars, PlainInv
  <2> QED
    BY <1>5, <2>1, CallElsewhere DEF MapFails, UnmapNull
<1> QED
  BY <1>2, <1>3, <1>4, <1>5 DEF OsCall

\* A record that does not concern b.
LEMMA RecordElsewhere ==
  ASSUME TypeOK, NEW b \in Addrs, PlainAt(b), NEW t \in Threads, NEW op, NEW text,
         Record(t, op, text), call[t].addr # b, live'[b] = live[b]
  PROVE  PlainAt(b)'
<1>1. pc \in [Threads -> PCs]
  BY DEF TypeOK, ThreadTypes
<1>2. /\ pc' = [pc EXCEPT ![t] = "recorded"] /\ call' = call
      /\ refs' = refs /\ regionSize' = regionSize
  BY DEF Record, osVars
<1>3. \A u \in Threads :
        /\ Pending(u, "map", b)' <=> Pending(u, "map", b)
        /\ Pending(u, "unmap", b)' <=> Pending(u, "unmap", b)
  BY <1>1, <1>2 DEF Pending
<1> QED
  BY <1>2, <1>3, PlainFrame

\* One that does: it was the only one to wait.
LEMMA RecordAt ==
  ASSUME TypeOK, NEW b \in Addrs, PlainAt(b), NEW t \in Threads, NEW op, NEW text,
         Record(t, op, text), call[t].addr = b, op \in {"map", "unmap"}
  PROVE  /\ Pending(t, op, b)
         /\ \A u \in Threads : ~Waits(u, b)'
         /\ refs'[b] = refs[b] /\ regionSize'[b] = regionSize[b]
<1>1. pc \in [Threads -> PCs]
  BY DEF TypeOK, ThreadTypes
<1>2. /\ pc[t] = "locked" /\ pc' = [pc EXCEPT ![t] = "recorded"] /\ call' = call
      /\ call[t].op = op /\ refs' = refs /\ regionSize' = regionSize
  BY DEF Record, osVars
<1>3. Pending(t, op, b)
  BY <1>2 DEF Pending
<1>4. \A u \in Threads : u # t => ~Waits(u, b)
  BY <1>3 DEF PlainAt, Waits
<1>5. \A u \in Threads : ~Waits(u, b)'
  BY <1>1, <1>2, <1>4 DEF Waits, Pending
<1> QED
  BY <1>2, <1>3, <1>5

LEMMA RecordPlain ==
  ASSUME TypeOK, CallInv, NEW t \in Threads, NEW b \in Addrs, PlainAt(b),
         \/ RecordMap(t) \/ RecordMapFailed(t)
         \/ RecordUnmap(t) \/ RecordUnmatched(t)
  PROVE  PlainAt(b)'
<1>1. live \in [Addrs -> Sizes \cup {0, NoEntry}] /\ NoEntry \notin Sizes /\ NULL \notin Addrs
  BY CpAssumption DEF TypeOK, GTypes
<1>2. CASE RecordMap(t)
  <2>1. /\ live' = [live EXCEPT ![call[t].addr] = call[t].size]
        /\ Record(t, "map", MapLine(t))
    BY <1>2 DEF RecordMap
  <2>2. CASE call[t].addr = b
    <3>1. /\ Pending(t, "map", b) /\ \A u \in Threads : ~Waits(u, b)'
          /\ refs'[b] = refs[b] /\ regionSize'[b] = regionSize[b]
      BY <2>1, <2>2, RecordAt
    <3>2. refs[b] = 1 /\ call[t].size = regionSize[b] /\ regionSize[b] \in Sizes
      BY <3>1 DEF PlainAt
    <3>3. live'[b] = regionSize[b]
      BY <1>1, <2>1, <2>2, <3>2
    <3> QED
      BY <3>1, <3>2, <3>3 DEF PlainAt, Waits
  <2>3. CASE call[t].addr # b
    BY <1>1, <2>1, <2>3, RecordElsewhere
  <2> QED
    BY <2>2, <2>3
<1>3. CASE RecordMapFailed(t)
  <2>1. /\ ~(call[t].ret >= 0 /\ call[t].addr # NULL) /\ live' = live
        /\ Record(t, "map", MapLine(t)) /\ call[t].op = "map" /\ call[t] \in Calls
    BY <1>3 DEF RecordMapFailed, Record, TypeOK, ThreadTypes
  <2>2. call[t].addr = NULL
    BY <2>1 DEF CallInv, Calls
  <2> QED
    BY <1>1, <2>1, <2>2, RecordElsewhere
<1>4. CASE RecordUnmap(t)
  <2>1. /\ live' = [live EXCEPT ![call[t].addr] = NoEntry]
        /\ Record(t, "unmap", UnmapLine(t))
    BY <1>4 DEF RecordUnmap
  <2>2. CASE call[t].addr = b
    <3>1. /\ Pending(t, "unmap", b) /\ \A u \in Threads : ~Waits(u, b)'
          /\ refs'[b] = refs[b] /\ regionSize'[b] = regionSize[b]
      BY <2>1, <2>2, RecordAt
    <3>2. refs[b] = 0 /\ live'[b] = NoEntry
      BY <1>1, <2>1, <2>2, <3>1 DEF PlainAt
    <3> QED
      BY <3>1, <3>2 DEF PlainAt, Waits
  <2>3. CASE call[t].addr # b
    BY <1>1, <2>1, <2>3, RecordElsewhere
  <2> QED
    BY <2>2, <2>3
<1>5. CASE RecordUnmatched(t)
  <2>1. ~Found(call[t].addr) /\ live' = live /\ Record(t, "unmap", UnmapLine(t))
    BY <1>5 DEF RecordUnmatched
  \* An unmap that waits finds its entry.
  <2>2. call[t].addr # b
    <3> SUFFICES ASSUME call[t].addr = b
                 PROVE  FALSE
      OBVIOUS
    <3>1. Pending(t, "unmap", b)
      BY <2>1, RecordAt
    <3>2. live[b] \in Sizes
      BY <3>1 DEF PlainAt
    <3> QED
      BY <1>1, <2>1, <3>2 DEF Found
  <2> QED
    BY <2>1, <2>2, RecordElsewhere
<1> QED
  BY <1>2, <1>3, <1>4, <1>5

LEMMA PlainStep == TypeOK /\ CallInv /\ RefInv /\ PlainInv /\ [Next]_vars => PlainInv'
<1> SUFFICES ASSUME TypeOK, CallInv, RefInv, PlainInv, [Next]_vars, plain',
                    NEW b \in Addrs
             PROVE  PlainAt(b)'
  BY DEF PlainInv
<1>1. pc \in [Threads -> PCs] /\ call \in [Threads -> Calls] /\ Main \in Threads
  BY CpAssumption DEF TypeOK, ThreadTypes
<1>2. ASSUME NEW t \in Threads, OsCall(t)
      PROVE  PlainAt(b)'
  BY <1>2, OsPlain
<1>3. ASSUME NEW t \in Threads,
             \/ RecordMap(t) \/ RecordMapFailed(t)
             \/ RecordUnmap(t) \/ RecordUnmatched(t)
      PROVE  PlainAt(b)'
  <2>1. PlainAt(b)
    BY <1>3 DEF RecordMap, RecordMapFailed, RecordUnmap, RecordUnmatched, Record, osVars,
                PlainInv
  <2> QED
    BY <1>3, <2>1, RecordPlain
\* No other step touches the OS, the live set or who waits.
<1>4. ASSUME UNCHANGED <<osVars, live>>,
             \A u \in Threads :
               /\ Pending(u, "map", b)' <=> Pending(u, "map", b)
               /\ Pending(u, "unmap", b)' <=> Pending(u, "unmap", b)
               /\ Pending(u, "map", b) => call'[u] = call[u]
      PROVE  PlainAt(b)'
  <2>1. PlainAt(b)
    BY <1>4 DEF osVars, PlainInv
  <2> QED
    BY <1>4, <2>1, PlainFrame DEF osVars
<1>5. ASSUME NEW t \in Threads, Lock(t)
      PROVE  PlainAt(b)'
  <2>1. /\ UNCHANGED <<osVars, live, call>>
        /\ pc[t] = "called" /\ pc' = [pc EXCEPT ![t] = "locked"]
    BY <1>5 DEF Lock, g
  <2> QED
    BY <1>1, <1>4, <2>1 DEF Pending
<1>6. ASSUME NEW t \in Threads, Finish(t)
      PROVE  PlainAt(b)'
  <2>1. /\ UNCHANGED <<osVars, live>> /\ call' = [call EXCEPT ![t] = NoCall]
        /\ pc[t] = "recorded" /\ pc' = [pc EXCEPT ![t] = "idle"]
    BY <1>6 DEF Finish, g
  <2> QED
    BY <1>1, <1>4, <2>1 DEF Pending
<1>7. ASSUME Exit \/ Exiting \/ UNCHANGED vars
      PROVE  PlainAt(b)'
  <2>1. UNCHANGED <<osVars, live, call>>
    BY <1>7 DEF Exit, Exiting, ExitLock, ExitLine, ExitSummary, ExitSilent, Gone, vars, g
  <2>2. \/ pc' = pc
        \/ /\ pc[Main] \notin {"called", "locked"}
           /\ \E p \in {"exit", "report", "closed", "gone"} : pc' = [pc EXCEPT ![Main] = p]
    BY <1>7 DEF Exit, Exiting, ExitLock, ExitLine, ExitSummary, ExitSilent, Gone, vars
  <2>3. \A u \in Threads : pc'[u] \in {"called", "locked"} <=> pc[u] \in {"called", "locked"}
    BY <1>1, <2>2
  <2> QED
    BY <1>4, <2>1, <2>3 DEF Pending
<1> QED
  BY <1>2, <1>3, <1>5, <1>6, <1>7 DEF Next, Profile

\* As long as the OS shares no region, refuses no unmap and gives out no address
\* before its unmap is recorded, the live set is what is mapped whenever no call
\* is on its way to the profiler, for any number of threads and addresses.
THEOREM LiveSetIsMapped == Spec => []LiveIsMapped
<1>1. Init => TypeOK /\ CallInv /\ RefInv /\ PlainInv
  BY TypeInit, RefInit, PlainInit
<1>2. TypeOK /\ CallInv /\ RefInv /\ PlainInv /\ [Next]_vars
        => (TypeOK /\ CallInv /\ RefInv /\ PlainInv)'
  BY TypeStep, CallStep, RefStep, PlainStep
<1>3. PlainInv => LiveIsMapped
  BY DEF PlainInv, PlainAt, LiveIsMapped, Waits, Pending
<1> QED
  BY <1>1, <1>2, <1>3, PTL DEF Spec

-----------------------------------------------------------------------------
(* The file.                                                               *)

LEMMA UnderWayFinite ==
  IsFiniteSet(UnderWay) /\ Cardinality(UnderWay) \in Nat
<1>1. UnderWay \subseteq Threads
  BY DEF UnderWay
<1> QED
  BY <1>1, FS_Subset, FS_CardinalityType, CpAssumption

\* A line more, or a line that is none of an event.
LEMMA LinesGrow ==
  ASSUME TypeOK, NEW text, log' = Append(log, [rec |-> text, whole |-> TRUE])
  PROVE  /\ IsFiniteSet(LinesOf(Events)) /\ Cardinality(LinesOf(Events)) \in Nat
         /\ text.event \in Events =>
              Cardinality(LinesOf(Events)') = Cardinality(LinesOf(Events)) + 1
         /\ text.event \notin Events => LinesOf(Events)' = LinesOf(Events)
<1>1. log \in Seq(Chunks) /\ Len(log) \in Nat /\ DOMAIN log = 1 .. Len(log)
  BY DEF TypeOK, FileTypes
<1>2. LinesOf(Events) \subseteq 1 .. Len(log) /\ IsFiniteSet(1 .. Len(log))
  BY <1>1, FS_Interval DEF LinesOf
<1>3. IsFiniteSet(LinesOf(Events)) /\ Cardinality(LinesOf(Events)) \in Nat
  BY <1>2, FS_Subset, FS_CardinalityType
<1>4. /\ DOMAIN log' = 1 .. Len(log) + 1 /\ log'[Len(log) + 1].rec = text
      /\ \A n \in DOMAIN log : log'[n] = log[n]
  BY <1>1
<1>5. LinesOf(Events)' = LinesOf(Events) \cup
        (IF text.event \in Events THEN {Len(log) + 1} ELSE {})
  BY <1>1, <1>4 DEF LinesOf, Events
<1>6. Len(log) + 1 \notin LinesOf(Events)
  BY <1>1, <1>2
<1>7. Cardinality(LinesOf(Events) \cup {Len(log) + 1}) = Cardinality(LinesOf(Events)) + 1
  BY <1>3, <1>6, FS_AddElement
<1> QED
  BY <1>3, <1>5, <1>7

\* Without a fault a line is written whole.
LEMMA WrittenWhole ==
  ASSUME TypeOK, NEW text, Written(text), faults' = 0
  PROVE  faults = 0 /\ log' = Append(log, [rec |-> text, whole |-> TRUE])
<1>1. faults \in Nat
  BY CpAssumption DEF TypeOK, FileTypes
<1> QED
  BY <1>1 DEF Written

LEMMA FileInit == Init => FileInv
<1> SUFFICES ASSUME Init
             PROVE  FileInv
  OBVIOUS
<1>1. UnderWay = {}
  BY DEF Init, UnderWay
<1>2. Cardinality(UnderWay) = 0
  BY <1>1, FS_EmptySet
<1> QED
  BY <1>2 DEF Init, FileInv

\* A step that leaves the file and who is under way alone.
LEMMA FileFrame ==
  ASSUME FileInv, UNCHANGED <<inited, log, calls, faults, line>>, fd' => fd,
         UnderWay' = UnderWay,
         \A t \in Threads : pc'[t] = "recorded" => pc[t] = "recorded"
  PROVE  FileInv'
<1>1. LinesOf(Events)' = LinesOf(Events)
  BY DEF LinesOf, Events
<1> QED
  BY <1>1 DEF FileInv

LEMMA OsFile ==
  ASSUME TypeOK, FileInv, NEW t \in Threads, OsCall(t)
  PROVE  FileInv'
<1>1. pc \in [Threads -> PCs] /\ calls \in Nat
  BY CpAssumption DEF TypeOK, ThreadTypes, FileTypes
<1>2. /\ pc[t] = "idle" /\ pc' = [pc EXCEPT ![t] = "called"] /\ calls' = calls + 1
      /\ UNCHANGED <<inited, fd, log, faults, line>>
  BY DEF OsCall, MapShared, MapFresh, UnmapWorks, UnmapFails, MapFails, UnmapNull,
         Called, g
<1>3. UnderWay' = UnderWay \cup {t} /\ t \notin UnderWay
  BY <1>1, <1>2 DEF UnderWay
<1>4. /\ Cardinality(UnderWay') = Cardinality(UnderWay) + 1
      /\ Cardinality(UnderWay) \in Nat
  BY <1>3, UnderWayFinite, FS_AddElement
<1>5. LinesOf(Events)' = LinesOf(Events)
  BY <1>2 DEF LinesOf, Events
<1>6. \A u \in Threads : pc'[u] = "recorded" => pc[u] = "recorded"
  BY <1>1, <1>2
<1> QED
  BY <1>1, <1>2, <1>4, <1>5, <1>6 DEF FileInv

\* The first record finds an empty file and every call under way; a later one
\* the file as it was.
LEMMA RecordFile ==
  ASSUME TypeOK, FileInv, NEW t \in Threads, NEW op, NEW text \in EventLines,
         Record(t, op, text)
  PROVE  FileInv'
<1>1. pc \in [Threads -> PCs] /\ line \in [Threads -> EventLines \cup {NoLine}]
      /\ calls \in Nat /\ inited \in BOOLEAN
  BY CpAssumption DEF TypeOK, ThreadTypes, FileTypes, GTypes
<1>2. /\ pc[t] = "locked" /\ pc' = [pc EXCEPT ![t] = "recorded"]
      /\ line' = [line EXCEPT ![t] = IF fd' THEN text ELSE NoLine]
      /\ EnsureInit /\ UNCHANGED <<log, calls, faults>>
  BY DEF Record
<1>3. UnderWay' = UnderWay
  BY <1>1, <1>2 DEF UnderWay
<1>4. LinesOf(Events)' = LinesOf(Events)
  BY <1>2 DEF LinesOf, Events
<1>5. inited'
  BY <1>1, <1>2 DEF EnsureInit
<1>6. ASSUME faults' = 0, fd'
      PROVE  /\ Cardinality(LinesOf(Events)') = calls' - Cardinality(UnderWay')
             /\ \A u \in Threads : pc'[u] = "recorded" => line'[u] # NoLine
  <2>1. line'[t] # NoLine
    BY <1>1, <1>2, <1>6, LineAssumption
  <2>2. CASE inited
    BY <1>1, <1>2, <1>3, <1>4, <1>6, <2>1, <2>2 DEF EnsureInit, FileInv
  <2>3. CASE ~inited
    <3>1. LinesOf(Events) = {}
      BY <1>2, <1>6, <2>3 DEF FileInv, LinesOf
    <3>2. Cardinality(LinesOf(Events)) = 0 /\ Cardinality(UnderWay) \in Nat
      BY <3>1, FS_EmptySet, UnderWayFinite
    <3> QED
      BY <1>1, <1>2, <1>3, <1>4, <1>6, <2>1, <2>3, <3>2 DEF FileInv
  <2> QED
    BY <2>2, <2>3
<1> QED
  BY <1>5, <1>6 DEF FileInv

LEMMA FinishFile ==
  ASSUME TypeOK, FileInv, NEW t \in Threads, Finish(t)
  PROVE  FileInv'
<1>1. /\ pc \in [Threads -> PCs] /\ line \in [Threads -> EventLines \cup {NoLine}]
      /\ calls \in Nat /\ faults \in Nat
  BY CpAssumption DEF TypeOK, ThreadTypes, FileTypes
<1>2. /\ pc[t] = "recorded" /\ pc' = [pc EXCEPT ![t] = "idle"]
      /\ line' = [line EXCEPT ![t] = NoLine] /\ UNCHANGED <<inited, fd, calls>>
      /\ IF line[t] # NoLine THEN Written(line[t]) ELSE UNCHANGED <<log, faults>>
  BY DEF Finish, g
<1>3. ASSUME faults' = 0
      PROVE  faults = 0 /\ inited
  BY <1>2, <1>3, WrittenWhole DEF FileInv
<1>4. ASSUME faults' = 0, fd'
      PROVE  /\ Cardinality(LinesOf(Events)') = calls' - Cardinality(UnderWay')
             /\ \A u \in Threads : pc'[u] = "recorded" => line'[u] # NoLine
  <2>1. /\ line[t] # NoLine /\ fd /\ Cardinality(LinesOf(Events)) = calls - Cardinality(UnderWay)
        /\ \A u \in Threads : pc[u] = "recorded" => line[u] # NoLine
    BY <1>2, <1>3, <1>4 DEF FileInv
  <2>2. line[t].event \in Events
    BY <1>1, <2>1 DEF EventLines, Events
  <2>3. log' = Append(log, [rec |-> line[t], whole |-> TRUE])
    BY <1>2, <1>4, <2>1, WrittenWhole
  <2>4. /\ Cardinality(LinesOf(Events)') = Cardinality(LinesOf(Events)) + 1
        /\ Cardinality(LinesOf(Events)) \in Nat
    BY <2>2, <2>3, LinesGrow
  <2>5. UnderWay' = UnderWay \ {t} /\ t \in UnderWay
    BY <1>1, <1>2 DEF UnderWay
  <2>6. /\ Cardinality(UnderWay') = Cardinality(UnderWay) - 1
        /\ Cardinality(UnderWay) \in Nat
    BY <2>5, UnderWayFinite, FS_RemoveElement
  <2>7. \A u \in Threads : pc'[u] = "recorded" => line'[u] # NoLine
    BY <1>1, <1>2, <2>1
  <2> QED
    BY <1>1, <1>2, <2>1, <2>4, <2>6, <2>7
<1> QED
  BY <1>2, <1>3, <1>4 DEF FileInv

LEMMA FileStep == TypeOK /\ FileInv /\ [Next]_vars => FileInv'
<1> SUFFICES ASSUME TypeOK, TypeOK', FileInv, [Next]_vars
             PROVE  FileInv'
  BY TypeStep
<1>1. pc \in [Threads -> PCs] /\ Main \in Threads
  BY CpAssumption DEF TypeOK, ThreadTypes
<1>2. ASSUME NEW t \in Threads, Lock(t)
      PROVE  FileInv'
  <2>1. /\ pc[t] = "called" /\ pc' = [pc EXCEPT ![t] = "locked"]
        /\ UNCHANGED <<inited, fd, log, calls, faults, line>>
    BY <1>2 DEF Lock, g
  <2>2. UnderWay' = UnderWay
    BY <1>1, <2>1 DEF UnderWay
  <2> QED
    BY <1>1, <2>1, <2>2, FileFrame
<1>3. ASSUME NEW t \in Threads,
             \/ RecordMap(t) \/ RecordMapFailed(t)
             \/ RecordUnmap(t) \/ RecordUnmatched(t)
      PROVE  FileInv'
  <2>1. bytes' \in Int /\ tid' \in [Threads -> Nat]
    BY DEF TypeOK, GTypes, ThreadTypes
  <2>2. MapLine(t) \in EventLines /\ UnmapLine(t) \in EventLines
    BY <2>1, MapLineType, UnmapLineType
  <2> QED
    BY <1>3, <2>2, RecordFile DEF RecordMap, RecordMapFailed, RecordUnmap, RecordUnmatched
\* The end of the process: nobody under way is concerned.
<1>4. ASSUME NEW p \in {"exit", "report", "closed", "gone"},
             pc' = [pc EXCEPT ![Main] = p],
             pc[Main] \notin {"called", "locked", "recorded"}
      PROVE  /\ UnderWay' = UnderWay
             /\ \A t \in Threads : pc'[t] = "recorded" => pc[t] = "recorded"
  BY <1>1, <1>4 DEF UnderWay
<1>5. CASE Exit \/ ExitLock \/ ExitSilent \/ Gone
  <2>1. UNCHANGED <<inited, fd, log, calls, faults, line>>
    BY <1>5 DEF Exit, ExitLock, ExitSilent, Gone, g
  <2>2. /\ pc[Main] \notin {"called", "locked", "recorded"}
        /\ \E p \in {"exit", "report", "closed", "gone"} : pc' = [pc EXCEPT ![Main] = p]
    BY <1>5 DEF Exit, ExitLock, ExitSilent, Gone
  <2> QED
    BY <1>4, <2>1, <2>2, FileFrame
<1>6. ASSUME NEW a \in Addrs, ExitLine(a)
      PROVE  FileInv'
  <2> DEFINE text == [event |-> "live_at_exit", addr |-> a, size |-> live[a]]
  <2>1. fd /\ Written(text) /\ UNCHANGED <<pc, inited, fd, calls, line>>
    BY <1>6 DEF ExitLine, g
  <2>2. text.event \notin Events
    BY DEF Events
  <2> HIDE DEF text
  <2>3. UnderWay' = UnderWay
    BY <2>1 DEF UnderWay
  <2>4. ASSUME faults' = 0
        PROVE  faults = 0 /\ LinesOf(Events)' = LinesOf(Events)
    BY <2>1, <2>2, <2>4, WrittenWhole, LinesGrow
  <2> QED
    BY <2>1, <2>3, <2>4 DEF FileInv
<1>7. CASE ExitSummary
  <2>1. /\ fd /\ ~fd' /\ Written(Summary) /\ inited' = inited
        /\ pc[Main] = "report" /\ pc' = [pc EXCEPT ![Main] = "closed"]
    BY <1>7 DEF ExitSummary
  <2> QED
    BY <2>1, WrittenWhole DEF FileInv
<1>8. ASSUME UNCHANGED vars
      PROVE  FileInv'
  <2>1. UNCHANGED <<inited, fd, log, calls, faults, line, pc>>
    BY <1>8 DEF vars, g
  <2>2. UnderWay' = UnderWay
    BY <2>1 DEF UnderWay
  <2> QED
    BY <2>1, <2>2, FileFrame
<1>9. ASSUME NEW t \in Threads, Profile(t)
      PROVE  FileInv'
  BY <1>2, <1>3, <1>9, FinishFile DEF Profile
<1> QED
  BY <1>5, <1>6, <1>7, <1>8, <1>9, OsFile DEF Next, Exiting

\* For any number of threads: as long as no write has failed and the file is
\* open, it has a line of every call that has returned, and of no other, so that
\* a process that is killed loses the calls under way and nothing else.
THEOREM ReturnedCallsLogged == Spec => []ReturnedIsLogged
<1>1. FileInv => ReturnedIsLogged
  BY DEF FileInv, ReturnedIsLogged
<1> QED
  BY <1>1, TypeInit, TypeStep, FileInit, FileStep, PTL DEF Spec

-----------------------------------------------------------------------------
(* CpProfilerLog.  The operators that read a file fold over sequences and  *)
(* sets.  What they compute is found by induction on the length or the     *)
(* size; a claim is the set of the numbers it holds of, and the least      *)
(* number outside of it, if there is one, follows one inside.  Two facts   *)
(* on the reader, ReplayAppend (a record more is one step of correlate)    *)
(* and LoadWhole (a file without torn lines is read whole), make the rest  *)
(* a proof about single steps.                                             *)

-----------------------------------------------------------------------------
(* Induction over the natural numbers, and over the subsets of a set.      *)

Less == OpToRel(<, Nat)

\* Every set of natural numbers has a least element.
LEMMA Least ==
  ASSUME NEW T, T \subseteq Nat, T # {}
  PROVE  \E x \in T : \A y \in T : x <= y
<1>1. IsWellFoundedOn(Less, Nat)
  BY NatLessThanWellFounded DEF Less
<1>2. \E x \in T : \A y \in T : ~(<<y, x>> \in Less)
  BY <1>1, WFMin
<1>3. \A x, y \in Nat : y < x => <<y, x>> \in Less
  BY DEF Less, OpToRel
<1>4. PICK x \in T : \A y \in T : ~(<<y, x>> \in Less)
  BY <1>2
<1>5. ASSUME NEW y \in T
      PROVE  x <= y
  <2>1. x \in Nat /\ y \in Nat /\ ~(y < x)
    BY <1>3, <1>4
  <2> QED
    BY <2>1
<1> QED
  BY <1>5

\* Induction, on the set of the numbers for which something holds.
LEMMA Induction ==
  ASSUME NEW T, 0 \in T, \A n \in Nat : n \in T => n + 1 \in T
  PROVE  Nat \subseteq T
<1>1. SUFFICES ASSUME Nat \ T # {} PROVE FALSE
  OBVIOUS
<1>2. PICK x \in Nat \ T : \A y \in Nat \ T : x <= y
  BY <1>1, Least
<1>3. x - 1 \in Nat /\ x - 1 \in T
  BY <1>2
<1> QED
  BY <1>2, <1>3

\* A set of numbers up to n has a largest.
LEMMA Largest ==
  ASSUME NEW n \in Nat, NEW u \in SUBSET (1 .. n), u # {}
  PROVE  /\ Reader!Max(u) \in u
         /\ \A x \in u : x <= Reader!Max(u)
<1> DEFINE T == {b \in Nat : \A x \in u : x <= b}
<1>1. n \in T
  OBVIOUS
<1>2. PICK b \in T : \A c \in T : b <= c
  <2>1. T \subseteq Nat /\ T # {}
    BY <1>1
  <2> QED
    BY <2>1, Least
<1>3. b \in u
  <2>1. SUFFICES ASSUME b \notin u PROVE FALSE
    OBVIOUS
  <2>2. b - 1 \in Nat /\ \A x \in u : x <= b - 1
    <3>1. \A x \in u : x \in Nat /\ x >= 1 /\ x <= b /\ x # b
      BY <1>2, <2>1
    <3>2. PICK x : x \in u
      OBVIOUS
    <3>3. b \in Nat /\ b # 0
      BY <1>2, <3>1, <3>2
    <3>4. \A y \in u : y <= b - 1
      BY <3>1, <3>3
    <3> QED
      BY <3>3, <3>4
  <2> QED
    BY <1>2, <2>2
<1>4. \E x \in u : \A y \in u : x >= y
  BY <1>2, <1>3
<1>5. Reader!Max(u) \in u /\ \A y \in u : Reader!Max(u) >= y
  BY <1>4 DEF Reader!Max
<1> QED
  BY <1>5

\* Induction over the subsets of a finite set.
LEMMA SetInduction ==
  ASSUME NEW S, IsFiniteSet(S), NEW T, {} \in T,
         \A u \in SUBSET S : u # {} /\ (\A x \in u : u \ {x} \in T) => u \in T
  PROVE  \A u \in SUBSET S : u \in T
<1> DEFINE K == {k \in Nat : \A u \in SUBSET S : Cardinality(u) = k => u \in T}
<1>1. \A u \in SUBSET S : IsFiniteSet(u) /\ Cardinality(u) \in Nat
  BY FS_Subset, FS_CardinalityType
<1>2. 0 \in K
  BY <1>1, FS_EmptySet
<1>3. ASSUME NEW k \in Nat, k \in K
      PROVE  k + 1 \in K
  <2>1. SUFFICES ASSUME NEW u \in SUBSET S, Cardinality(u) = k + 1
                 PROVE  u \in T
    OBVIOUS
  <2>2. u # {}
    BY <1>1, <2>1, FS_EmptySet
  <2>3. ASSUME NEW x \in u
        PROVE  u \ {x} \in T
    <3>1. Cardinality(u \ {x}) = k
      BY <1>1, <2>1, FS_RemoveElement
    <3> QED
      BY <1>3, <3>1
  <2> QED
    BY <2>2, <2>3
<1>4. Nat \subseteq K
  <2> HIDE DEF K
  <2> QED
    BY <1>2, <1>3, Induction
<1> QED
  BY <1>1, <1>4

-----------------------------------------------------------------------------
(* The sum over a set.                                                     *)

Chosen(u) == CHOOSE x \in u : TRUE

LEMMA ChosenIsIn == ASSUME NEW u, u # {} PROVE Chosen(u) \in u
BY DEF Chosen

\* The sum of m over a set.
Sum(m, S) == MapThenSumSet(LAMBDA a : m[a], S)

Sums(f, m, S) ==
  f = [u \in SUBSET S |-> IF u = {} THEN 0 ELSE m[Chosen(u)] + f[u \ {Chosen(u)}]]

LEMMA SumIsSums ==
  ASSUME NEW m, NEW S
  PROVE  Sum(m, S) = (CHOOSE f : Sums(f, m, S))[S]
BY DEF Sum, MapThenSumSet, MapThenFoldSet, Sums, Chosen

LEMMA SumsValue ==
  ASSUME NEW f, NEW m, NEW S, Sums(f, m, S), NEW u \in SUBSET S
  PROVE  f[u] = IF u = {} THEN 0 ELSE m[Chosen(u)] + f[u \ {Chosen(u)}]
<1> DEFINE F(w) == IF w = {} THEN 0 ELSE m[Chosen(w)] + f[w \ {Chosen(w)}]
<1> HIDE DEF F
<1>1. f = [w \in SUBSET S |-> F(w)]
  BY DEF Sums, F
<1>2. f[u] = F(u)
  BY <1>1
<1> QED
  BY <1>2 DEF F

LEMMA SumsExist ==
  ASSUME NEW m, NEW S, IsFiniteSet(S)
  PROVE  \E f : Sums(f, m, S)
<1> DEFINE Step(f, u) == IF u = {} THEN 0 ELSE m[Chosen(u)] + f[u \ {Chosen(u)}]
           UpTo(f, k) == \A u \in SUBSET S : Cardinality(u) <= k => f[u] = Step(f, u)
           K == {k \in Nat : \E f : UpTo(f, k)}
<1>1. \A u \in SUBSET S : IsFiniteSet(u) /\ Cardinality(u) \in Nat
  BY FS_Subset, FS_CardinalityType
<1>2. \A u \in SUBSET S : Cardinality(u) = 0 => u = {}
  BY <1>1, FS_EmptySet
<1>3. 0 \in K
  <2> DEFINE f == [u \in SUBSET S |-> 0]
  <2>1. UpTo(f, 0)
    BY <1>1, <1>2
  <2> QED
    BY <2>1
<1>4. ASSUME NEW k \in Nat, k \in K
      PROVE  k + 1 \in K
  <2>1. PICK f : UpTo(f, k)
    BY <1>4
  <2> HIDE DEF Step
  <2> DEFINE h == [u \in SUBSET S |-> Step(f, u)]
  <2>2. \A u \in SUBSET S : Cardinality(u) <= k => h[u] = f[u]
    BY <2>1
  <2>3. ASSUME NEW u \in SUBSET S, Cardinality(u) <= k + 1
        PROVE  h[u] = Step(h, u)
    <3>1. CASE u = {}
      BY <3>1 DEF Step
    <3>2. CASE u # {}
      <4>1. Chosen(u) \in u
        BY <3>2, ChosenIsIn
      <4>2. Cardinality(u \ {Chosen(u)}) = Cardinality(u) - 1
        BY <1>1, <4>1, FS_RemoveElement
      <4>3. u \ {Chosen(u)} \in SUBSET S /\ Cardinality(u \ {Chosen(u)}) <= k
        BY <1>1, <2>3, <4>2
      <4>4. h[u \ {Chosen(u)}] = f[u \ {Chosen(u)}]
        BY <2>2, <4>3
      <4>5. h[u] = m[Chosen(u)] + f[u \ {Chosen(u)}]
        BY <3>2 DEF Step
      <4> HIDE DEF h
      <4> QED
        BY <3>2, <4>4, <4>5 DEF Step
    <3> QED
      BY <3>1, <3>2
  <2>4. UpTo(h, k + 1)
    BY <2>3
  <2> HIDE DEF h, UpTo
  <2> QED
    BY <2>4
<1>5. Cardinality(S) \in K
  <2> HIDE DEF K
  <2> QED
    BY <1>1, <1>3, <1>4, Induction
<1>6. PICK f : UpTo(f, Cardinality(S))
  BY <1>5
<1>7. \A u \in SUBSET S : Cardinality(u) <= Cardinality(S)
  BY FS_Subset
<1> DEFINE h == [u \in SUBSET S |-> f[u]]
<1>8. \A u \in SUBSET S : f[u] = Step(f, u)
  <2> HIDE DEF Step
  <2> QED
    BY <1>6, <1>7
<1>9. \A u \in SUBSET S : h[u] = Step(h, u)
  <2>1. ASSUME NEW u \in SUBSET S
        PROVE  h[u] = Step(h, u)
    <3>1. u \ {Chosen(u)} \in SUBSET S
      OBVIOUS
    <3>2. h[u] = f[u] /\ h[u \ {Chosen(u)}] = f[u \ {Chosen(u)}]
      BY <3>1
    <3> HIDE DEF h
    <3> QED
      BY <1>8, <3>2
  <2> QED
    BY <2>1
<1>10. h = [u \in SUBSET S |-> Step(h, u)]
  <2> HIDE DEF Step
  <2>1. DOMAIN h = SUBSET S /\ h = [u \in SUBSET S |-> h[u]]
    OBVIOUS
  <2> HIDE DEF h
  <2> QED
    BY <1>9, <2>1
<1>11. Sums(h, m, S)
  <2> HIDE DEF h
  <2> QED
    BY <1>10 DEF Sums
<1> QED
  BY <1>11

LEMMA SumsType ==
  ASSUME NEW m, NEW S, IsFiniteSet(S), NEW f, Sums(f, m, S), \A a \in S : m[a] \in Int
  PROVE  \A u \in SUBSET S : f[u] \in Int
<1> DEFINE T == {u \in SUBSET S : f[u] \in Int}
<1>1. {} \in T
  <2>1. {} \in SUBSET S
    OBVIOUS
  <2>2. f[{}] = IF {} = {} THEN 0 ELSE m[Chosen({})] + f[{} \ {Chosen({})}]
    BY <2>1, SumsValue
  <2> QED
    BY <2>1, <2>2
<1>2. ASSUME NEW u \in SUBSET S, u # {}, \A x \in u : u \ {x} \in T
      PROVE  u \in T
  <2>1. Chosen(u) \in u /\ m[Chosen(u)] \in Int /\ f[u \ {Chosen(u)}] \in Int
    BY <1>2, ChosenIsIn
  <2>2. f[u] = IF u = {} THEN 0 ELSE m[Chosen(u)] + f[u \ {Chosen(u)}]
    BY SumsValue
  <2> QED
    BY <1>2, <2>1, <2>2
<1>3. \A u \in SUBSET S : u \in T
  <2> HIDE DEF T
  <2> QED
    BY <1>1, <1>2, SetInduction
<1> QED
  BY <1>3

\* The order of the elements makes no difference.
LEMMA SumsTake ==
  ASSUME NEW m, NEW S, IsFiniteSet(S), NEW f, Sums(f, m, S), \A a \in S : m[a] \in Int
  PROVE  \A u \in SUBSET S : \A x \in u : f[u] = m[x] + f[u \ {x}]
<1> DEFINE T == {u \in SUBSET S : \A x \in u : f[u] = m[x] + f[u \ {x}]}
<1>1. {} \in T
  OBVIOUS
<1>2. ASSUME NEW u \in SUBSET S, u # {}, \A x \in u : u \ {x} \in T
      PROVE  u \in T
  <2> DEFINE c == Chosen(u)
  <2>1. c \in u
    BY <1>2, ChosenIsIn
  <2>2. f[u] = m[c] + f[u \ {c}]
    <3>1. u # {}
      BY <1>2
    <3>2. f[u] = IF u = {} THEN 0 ELSE m[Chosen(u)] + f[u \ {Chosen(u)}]
      BY SumsValue
    <3> QED
      BY <3>1, <3>2
  <2> HIDE DEF c
  <2>3. ASSUME NEW x \in u, x # c
        PROVE  f[u] = m[x] + f[u \ {x}]
    <3> DEFINE w == u \ {c, x}
    <3>1. f[u \ {c}] = m[x] + f[w]
      <4>1. u \ {c} \in T /\ x \in u \ {c} /\ (u \ {c}) \ {x} = w
        BY <1>2, <2>1, <2>3
      <4> QED
        BY <4>1
    <3>2. f[u \ {x}] = m[c] + f[w]
      <4>1. u \ {x} \in T /\ c \in u \ {x} /\ (u \ {x}) \ {c} = w
        BY <1>2, <2>1, <2>3
      <4> QED
        BY <4>1
    <3>3. m[c] \in Int /\ m[x] \in Int /\ f[w] \in Int
      <4>1. w \in SUBSET S
        OBVIOUS
      <4> QED
        BY <2>1, <2>3, <4>1, SumsType
    <3> HIDE DEF w
    <3> QED
      BY <2>2, <3>1, <3>2, <3>3
  <2> QED
    BY <2>2, <2>3
<1>3. \A u \in SUBSET S : u \in T
  <2> HIDE DEF T
  <2> QED
    BY <1>1, <1>2, SetInduction
<1> QED
  BY <1>3

\* Sums of what is the same are the same, whatever else there is.
LEMMA SumsAgree ==
  ASSUME NEW m, NEW w, NEW S, NEW Z, IsFiniteSet(S), S \subseteq Z,
         NEW f, NEW h, Sums(f, m, S), Sums(h, w, Z), \A a \in S : m[a] = w[a]
  PROVE  \A u \in SUBSET S : f[u] = h[u]
<1> DEFINE T == {u \in SUBSET S : f[u] = h[u]}
<1>1. {} \in T
  BY SumsValue
<1>2. ASSUME NEW u \in SUBSET S, u # {}, \A x \in u : u \ {x} \in T
      PROVE  u \in T
  <2>1. Chosen(u) \in u /\ m[Chosen(u)] = w[Chosen(u)] /\ f[u \ {Chosen(u)}] = h[u \ {Chosen(u)}]
    BY <1>2, ChosenIsIn
  <2>2. f[u] = m[Chosen(u)] + f[u \ {Chosen(u)}]
    BY <1>2, SumsValue
  <2>3. h[u] = w[Chosen(u)] + h[u \ {Chosen(u)}]
    <3>1. \A v \in SUBSET Z :
            h[v] = IF v = {} THEN 0 ELSE w[Chosen(v)] + h[v \ {Chosen(v)}]
      BY SumsValue
    <3>2. u \in SUBSET Z
      OBVIOUS
    <3> QED
      BY <1>2, <3>1, <3>2
  <2> QED
    BY <2>1, <2>2, <2>3
<1>3. \A u \in SUBSET S : u \in T
  <2> HIDE DEF T
  <2> QED
    BY <1>1, <1>2, SetInduction
<1> QED
  BY <1>3

LEMMA SumFound ==
  ASSUME NEW m, NEW S, IsFiniteSet(S)
  PROVE  \E f : Sums(f, m, S) /\ Sum(m, S) = f[S]
BY SumsExist, SumIsSums

LEMMA SumEmpty == ASSUME NEW m PROVE Sum(m, {}) = 0
BY SumFound, SumsValue, FS_EmptySet

LEMMA SumType ==
  ASSUME NEW m, NEW S, IsFiniteSet(S), \A a \in S : m[a] \in Int
  PROVE  Sum(m, S) \in Int
BY SumFound, SumsType

LEMMA SumSame ==
  ASSUME NEW m, NEW w, NEW S, IsFiniteSet(S), \A a \in S : m[a] = w[a]
  PROVE  Sum(m, S) = Sum(w, S)
<1>1. PICK f : Sums(f, m, S) /\ Sum(m, S) = f[S]
  BY SumFound
<1>2. PICK h : Sums(h, w, S) /\ Sum(w, S) = h[S]
  BY SumFound
<1>3. \A u \in SUBSET S : f[u] = h[u]
  <2>1. S \subseteq S
    OBVIOUS
  <2> QED
    BY <1>1, <1>2, <2>1, SumsAgree
<1> QED
  BY <1>1, <1>2, <1>3

LEMMA SumTake ==
  ASSUME NEW m, NEW S, IsFiniteSet(S), \A a \in S : m[a] \in Int, NEW x \in S
  PROVE  Sum(m, S) = m[x] + Sum(m, S \ {x})
<1> DEFINE R == S \ {x}
<1>0. IsFiniteSet(R) /\ R \subseteq S
  BY FS_Subset
<1>1. PICK f : Sums(f, m, S) /\ Sum(m, S) = f[S]
  BY SumFound
<1>2. PICK h : Sums(h, m, R) /\ Sum(m, R) = h[R]
  BY <1>0, SumFound
<1>3. f[S] = m[x] + f[R]
  BY <1>1, SumsTake
<1>4. h[R] = f[R]
  <2> HIDE DEF R
  <2>1. \A a \in R : m[a] = m[a]
    OBVIOUS
  <2>2. \A u \in SUBSET R : h[u] = f[u]
    BY <1>0, <1>1, <1>2, <2>1, SumsAgree
  <2> QED
    BY <2>2
<1> QED
  BY <1>1, <1>2, <1>3, <1>4

-----------------------------------------------------------------------------
(* correlate: the replay of a list of records.                             *)

Folds(f, s, n) ==
  f = [u \in SUBSET (1 .. n) |->
         IF u = {} THEN Reader!NoRecords
         ELSE Reader!CorrelateRecord(f[u \ {Reader!Max(u)}], s[Reader!Max(u)])]

LEMMA FoldsValue ==
  ASSUME NEW f, NEW s, NEW n \in Nat, Folds(f, s, n), NEW u \in SUBSET (1 .. n)
  PROVE  f[u] = IF u = {} THEN Reader!NoRecords
                ELSE Reader!CorrelateRecord(f[u \ {Reader!Max(u)}], s[Reader!Max(u)])
<1> DEFINE F(w) == IF w = {} THEN Reader!NoRecords
             ELSE Reader!CorrelateRecord(f[w \ {Reader!Max(w)}], s[Reader!Max(w)])
<1> HIDE DEF F
<1>1. f = [w \in SUBSET (1 .. n) |-> F(w)]
  BY DEF Folds, F
<1>2. f[u] = F(u)
  BY <1>1
<1> QED
  BY <1>2 DEF F

LEMMA FoldsExist ==
  ASSUME NEW s, NEW n \in Nat
  PROVE  \E f : Folds(f, s, n)
<1> DEFINE T == {k \in Nat : \E f : Folds(f, s, k)}
<1>1. 0 \in T
  <2> DEFINE f == [u \in SUBSET (1 .. 0) |-> Reader!NoRecords]
  <2>1. \A u \in SUBSET (1 .. 0) : u = {}
    OBVIOUS
  <2>2. Folds(f, s, 0)
    BY <2>1 DEF Folds
  <2> QED
    BY <2>2
<1>2. ASSUME NEW k \in Nat, k \in T
      PROVE  k + 1 \in T
  <2>1. PICK f : Folds(f, s, k)
    BY <1>2
  <2>0. \A w \in SUBSET (1 .. k) :
          f[w] = IF w = {} THEN Reader!NoRecords
                 ELSE Reader!CorrelateRecord(f[w \ {Reader!Max(w)}], s[Reader!Max(w)])
    BY <2>1, FoldsValue
  <2> DEFINE h == [u \in SUBSET (1 .. k + 1) |->
                     IF k + 1 \in u THEN Reader!CorrelateRecord(f[u \ {k + 1}], s[k + 1])
                     ELSE f[u]]
  <2>2. ASSUME NEW u \in SUBSET (1 .. k + 1)
        PROVE  h[u] = IF u = {} THEN Reader!NoRecords
                      ELSE Reader!CorrelateRecord(h[u \ {Reader!Max(u)}], s[Reader!Max(u)])
    <3>0. \A w \in SUBSET (1 .. k + 1) : k + 1 \notin w => w \in SUBSET (1 .. k) /\ h[w] = f[w]
      OBVIOUS
    <3>1. CASE k + 1 \in u
      <4>1. Reader!Max(u) = k + 1
        <5>1. k + 1 \in Nat /\ u # {}
          BY <3>1
        <5>2. Reader!Max(u) \in u /\ k + 1 <= Reader!Max(u)
          BY <5>1, <3>1, Largest
        <5>3. Reader!Max(u) \in 1 .. k + 1
          BY <5>2
        <5> QED
          BY <5>2, <5>3
      <4>2. h[u \ {k + 1}] = f[u \ {k + 1}]
        BY <3>0
      <4>3. h[u] = Reader!CorrelateRecord(f[u \ {k + 1}], s[k + 1])
        BY <3>1
      <4> QED
        BY <3>1, <4>1, <4>2, <4>3
    <3>2. CASE k + 1 \notin u
      <4>1. u \in SUBSET (1 .. k) /\ h[u] = f[u]
        BY <3>0, <3>2
      <4>2. h[u \ {Reader!Max(u)}] = f[u \ {Reader!Max(u)}]
        BY <3>0, <3>2
      <4>3. f[u] = IF u = {} THEN Reader!NoRecords
                   ELSE Reader!CorrelateRecord(f[u \ {Reader!Max(u)}], s[Reader!Max(u)])
        BY <4>1, <2>0
      <4> HIDE DEF h
      <4> QED
        BY <4>1, <4>2, <4>3
    <3> QED
      BY <3>1, <3>2
  <2>3. Folds(h, s, k + 1)
    <3> DEFINE G(u) == IF u = {} THEN Reader!NoRecords
                ELSE Reader!CorrelateRecord(h[u \ {Reader!Max(u)}], s[Reader!Max(u)])
    <3>1. \A u \in SUBSET (1 .. k + 1) : h[u] = G(u)
      BY <2>2
    <3> HIDE DEF G
    <3>2. h = [u \in SUBSET (1 .. k + 1) |-> G(u)]
      BY <3>1
    <3> HIDE DEF h
    <3> QED
      BY <3>2 DEF Folds, G
  <2> QED
    BY <2>3
<1> HIDE DEF T
<1>3. n \in T
  BY <1>1, <1>2, Induction
<1> QED
  BY <1>3 DEF T

\* Two lists begin with the same n records.
SameUpTo(s, z, n) == \A i \in 1 .. n : s[i] = z[i]

Fold(f, n) == f[1 .. n]

\* Two replays agree on what the lists have in common.
LEMMA FoldsAgree ==
  ASSUME NEW f, NEW h, NEW s, NEW z, NEW n \in Nat, NEW m \in Nat, n <= m,
         Folds(f, s, n), Folds(h, z, m), SameUpTo(s, z, n)
  PROVE  Fold(f, n) = Fold(h, n)
<1> DEFINE T == {k \in Nat : k <= n => f[1 .. k] = h[1 .. k]}
<1>1. 0 \in T
  <2>1. 1 .. 0 = {} /\ {} \in SUBSET (1 .. n) /\ {} \in SUBSET (1 .. m)
    OBVIOUS
  <2> QED
    BY <2>1, FoldsValue
<1>2. ASSUME NEW k \in Nat, k \in T
      PROVE  k + 1 \in T
  <2>1. SUFFICES ASSUME k + 1 <= n PROVE f[1 .. k + 1] = h[1 .. k + 1]
    OBVIOUS
  <2> DEFINE u == 1 .. k + 1
  <2>2. u \in SUBSET (1 .. n) /\ u \in SUBSET (1 .. m) /\ u # {}
    BY <2>1
  <2>3. Reader!Max(u) = k + 1
    <3>1. k + 1 \in Nat /\ k + 1 \in u /\ u \in SUBSET (1 .. k + 1)
      OBVIOUS
    <3>2. Reader!Max(u) \in u /\ k + 1 <= Reader!Max(u)
      BY <3>1, <2>2, Largest
    <3> QED
      BY <3>2
  <2>4. u \ {k + 1} = 1 .. k
    OBVIOUS
  <2> HIDE DEF u
  <2>5. f[u] = Reader!CorrelateRecord(f[1 .. k], s[k + 1])
    <3>1. f[u] = IF u = {} THEN Reader!NoRecords
                 ELSE Reader!CorrelateRecord(f[u \ {Reader!Max(u)}], s[Reader!Max(u)])
      BY <2>2, FoldsValue
    <3> QED
      BY <2>2, <2>3, <2>4, <3>1
  <2>6. h[u] = Reader!CorrelateRecord(h[1 .. k], z[k + 1])
    <3>1. h[u] = IF u = {} THEN Reader!NoRecords
                 ELSE Reader!CorrelateRecord(h[u \ {Reader!Max(u)}], z[Reader!Max(u)])
      BY <2>2, FoldsValue
    <3> QED
      BY <2>2, <2>3, <2>4, <3>1
  <2>7. f[1 .. k] = h[1 .. k] /\ s[k + 1] = z[k + 1]
    BY <1>2, <2>1 DEF SameUpTo
  <2> QED
    BY <2>5, <2>6, <2>7 DEF u
<1> HIDE DEF T
<1>3. n \in T
  BY <1>1, <1>2, Induction
<1> QED
  BY <1>3 DEF T, Fold

LEMMA ReplayFolds ==
  ASSUME NEW s, NEW n \in Nat, DOMAIN s = 1 .. n
  PROVE  \E f : Folds(f, s, n) /\ Reader!Replay(s) = f[1 .. n]
<1>1. Reader!Replay(s) = (CHOOSE f : Folds(f, s, n))[1 .. n]
  BY DEF Reader!Replay, Reader!FoldLeft, Reader!MapThenFoldSet, Folds
<1> QED
  BY <1>1, FoldsExist

LEMMA ReplayNone == Reader!Replay(<< >>) = Reader!NoRecords
<1>1. DOMAIN << >> = 1 .. 0 /\ 1 .. 0 = {}
  OBVIOUS
<1> QED
  BY <1>1, ReplayFolds, FoldsValue

LEMMA ReplayMore ==
  ASSUME NEW s, NEW z, NEW n \in Nat, NEW m \in Nat, m = n + 1,
         DOMAIN s = 1 .. n, DOMAIN z = 1 .. m, \A i \in 1 .. n : s[i] = z[i]
  PROVE  Reader!Replay(z) = Reader!CorrelateRecord(Reader!Replay(s), z[m])
<1>1. PICK f : Folds(f, s, n) /\ Reader!Replay(s) = f[1 .. n]
  BY ReplayFolds
<1>2. PICK h : Folds(h, z, m) /\ Reader!Replay(z) = h[1 .. m]
  BY ReplayFolds
<1>3. Fold(f, n) = Fold(h, n)
  <2>1. n <= m
    OBVIOUS
  <2> QED
    <3>1. Folds(f, s, n) /\ Folds(h, z, m)
      BY <1>1, <1>2
    <3>2. SameUpTo(s, z, n)
      BY DEF SameUpTo
    <3> QED
      BY <2>1, <3>1, <3>2, FoldsAgree
<1> DEFINE u == 1 .. m
<1>4. m \in u /\ u # {} /\ u \in SUBSET (1 .. m)
  <2>1. m \in u
    OBVIOUS
  <2> QED
    BY <2>1
<1>5. u \ {m} = 1 .. n
  OBVIOUS
<1> HIDE DEF u
<1>6. Reader!Max(u) = m
  <2>1. Reader!Max(u) \in u /\ m <= Reader!Max(u)
    BY <1>4, Largest
  <2>2. Reader!Max(u) \in 1 .. m
    BY <2>1, <1>4
  <2> QED
    BY <2>1, <2>2
<1>7. h[u] = IF u = {} THEN Reader!NoRecords
             ELSE Reader!CorrelateRecord(h[u \ {Reader!Max(u)}], z[Reader!Max(u)])
  <2>1. Folds(h, z, m)
    BY <1>2
  <2>2. u \in SUBSET (1 .. m)
    BY <1>4
  <2> QED
    BY <2>1, <2>2, FoldsValue
<1> QED
  BY <1>1, <1>2, <1>3, <1>4, <1>5, <1>6, <1>7 DEF u, Fold

\* One more record is replayed on top of those before it.
LEMMA ReplayAppend ==
  ASSUME NEW R, NEW s \in Seq(R), NEW r \in R
  PROVE  Reader!Replay(Append(s, r)) = Reader!CorrelateRecord(Reader!Replay(s), r)
<1> DEFINE n == Len(s)
           m == Len(s) + 1
           z == Append(s, r)
<1>1. n \in Nat /\ m \in Nat /\ m = n + 1
  OBVIOUS
<1>2. /\ DOMAIN s = 1 .. n /\ DOMAIN z = 1 .. m
      /\ z[m] = r /\ \A i \in 1 .. n : s[i] = z[i]
  OBVIOUS
<1> HIDE DEF n, m, z
<1>3. Reader!Replay(z) = Reader!CorrelateRecord(Reader!Replay(s), z[m])
  BY <1>1, <1>2, ReplayMore
<1> QED
  BY <1>2, <1>3 DEF z

-----------------------------------------------------------------------------
(* load_records.                                                           *)

Loads(f, file) ==
  f = [n \in 0 .. Len(file) |->
         IF n = 0 THEN << >> ELSE f[n - 1] \o Reader!RecordsOf(file, n)]

\* The records of the first n lines.
Recs(file, n) == [k \in 1 .. n |-> file[k].rec]

LEMMA RecsAppend ==
  ASSUME NEW file, NEW n \in Nat
  PROVE  Recs(file, n + 1) = Recs(file, n) \o <<file[n + 1].rec>>
<1> DEFINE R == {file[k].rec : k \in 1 .. n + 1}
           r == file[n + 1].rec
<1>1. \A k \in 1 .. n + 1 : file[k].rec \in R
  OBVIOUS
<1>2. r \in R
  OBVIOUS
<1> HIDE DEF R, r
<1>3. Recs(file, n) \in Seq(R) /\ Len(Recs(file, n)) = n
  BY <1>1 DEF Recs
<1>4. /\ Recs(file, n) \o <<r>> \in Seq(R) /\ Len(Recs(file, n) \o <<r>>) = n + 1
      /\ \A k \in 1 .. n + 1 :
           (Recs(file, n) \o <<r>>)[k] = IF k = n + 1 THEN r ELSE Recs(file, n)[k]
  BY <1>2, <1>3
<1>5. Recs(file, n + 1) \in Seq(R) /\ Len(Recs(file, n + 1)) = n + 1
  BY <1>1 DEF Recs
<1>6. \A k \in 1 .. n + 1 : Recs(file, n + 1)[k] = (Recs(file, n) \o <<r>>)[k]
  BY <1>4 DEF Recs, r
<1>7. Recs(file, n + 1) = Recs(file, n) \o <<r>>
  BY <1>4, <1>5, <1>6, SeqEqual
<1> QED
  BY <1>7 DEF r

\* Of lines that are all whole, load_records gets every record.
LEMMA LoadWhole ==
  ASSUME NEW C, NEW file \in Seq(C), \A n \in 1 .. Len(file) : file[n].whole = TRUE
  PROVE  Reader!Load(file) = Recs(file, Len(file))
<1>0. Len(file) \in Nat
  OBVIOUS
<1>1. Reader!Load(file) = (CHOOSE f : Loads(f, file))[Len(file)]
  BY DEF Reader!Load, Loads
<1>2. \A n \in 1 .. Len(file) : Reader!RecordsOf(file, n) = <<file[n].rec>>
  BY DEF Reader!RecordsOf, Reader!Parses
<1> DEFINE h == [n \in 0 .. Len(file) |-> Recs(file, n)]
<1>3. Recs(file, 0) = << >>
  BY DEF Recs
<1>4. Loads(h, file)
  <2>1. ASSUME NEW n \in 0 .. Len(file)
        PROVE  h[n] = IF n = 0 THEN << >> ELSE h[n - 1] \o Reader!RecordsOf(file, n)
    <3>1. CASE n = 0
      BY <1>3, <3>1
    <3>2. CASE n > 0
      <4>1. n - 1 \in Nat /\ n - 1 + 1 = n /\ n - 1 \in 0 .. Len(file) /\ n \in 1 .. Len(file)
        BY <3>2, <1>0
      <4>2. h[n] = Recs(file, n - 1) \o <<file[n].rec>>
        BY <4>1, RecsAppend
      <4>3. h[n - 1] = Recs(file, n - 1)
        BY <4>1
      <4>4. n # 0 /\ Reader!RecordsOf(file, n) = <<file[n].rec>>
        BY <3>2, <4>1, <1>2
      <4> HIDE DEF h
      <4> QED
        BY <4>2, <4>3, <4>4
    <3>3. n = 0 \/ n > 0
      BY <1>0
    <3> HIDE DEF h
    <3> QED
      BY <3>1, <3>2, <3>3
  <2> HIDE DEF h
  <2> DEFINE H(n) == IF n = 0 THEN << >> ELSE h[n - 1] \o Reader!RecordsOf(file, n)
  <2>2. \A n \in 0 .. Len(file) : h[n] = H(n)
    BY <2>1
  <2> HIDE DEF H
  <2>3. h = [n \in 0 .. Len(file) |-> H(n)]
    BY <2>2 DEF h
  <2> QED
    BY <2>3 DEF Loads, H
<1>5. PICK f : Loads(f, file) /\ Reader!Load(file) = f[Len(file)]
  BY <1>1, <1>4
<1>6. \A n \in 0 .. Len(file) :
         f[n] = IF n = 0 THEN << >> ELSE f[n - 1] \o Reader!RecordsOf(file, n)
  <2> DEFINE F(n) == IF n = 0 THEN << >> ELSE f[n - 1] \o Reader!RecordsOf(file, n)
  <2> HIDE DEF F
  <2>1. f = [n \in 0 .. Len(file) |-> F(n)]
    BY <1>5 DEF Loads, F
  <2>2. \A n \in 0 .. Len(file) : f[n] = F(n)
    BY <2>1
  <2> QED
    BY <2>2 DEF F
<1> DEFINE T == {n \in Nat : n <= Len(file) => f[n] = Recs(file, n)}
<1>7. 0 \in T
  BY <1>0, <1>3, <1>6
<1>8. ASSUME NEW n \in Nat, n \in T
      PROVE  n + 1 \in T
  <2>1. SUFFICES ASSUME n + 1 <= Len(file) PROVE f[n + 1] = Recs(file, n + 1)
    OBVIOUS
  <2>2. n + 1 \in 0 .. Len(file) /\ n + 1 \in 1 .. Len(file) /\ n + 1 - 1 = n /\ n + 1 > 0
    BY <2>1, <1>0
  <2>3. f[n + 1] = f[n] \o <<file[n + 1].rec>>
    <3>1. f[n + 1] = IF n + 1 = 0 THEN << >>
                     ELSE f[n + 1 - 1] \o Reader!RecordsOf(file, n + 1)
      BY <2>2, <1>6
    <3>2. Reader!RecordsOf(file, n + 1) = <<file[n + 1].rec>>
      BY <2>2, <1>2
    <3>3. n + 1 # 0 /\ n + 1 - 1 = n
      OBVIOUS
    <3>4. f[n + 1] = f[n] \o Reader!RecordsOf(file, n + 1)
      BY <3>1, <3>3
    <3> QED
      BY <3>2, <3>4
  <2>4. f[n] = Recs(file, n)
    BY <1>0, <1>8, <2>1
  <2> QED
    BY <2>3, <2>4, RecsAppend
<1> HIDE DEF T
<1>9. Len(file) \in T
  BY <1>0, <1>7, <1>8, Induction
<1> QED
  BY <1>0, <1>5, <1>9 DEF T

-----------------------------------------------------------------------------
(* live_bytes.                                                             *)

LEMMA LiveFinite ==
  ASSUME NEW m
  PROVE  IsFiniteSet(LiveAddrs(m))
<1>1. LiveAddrs(m) \subseteq Addrs
  BY DEF LiveAddrs
<1> QED
  BY <1>1, FS_Subset, CpAssumption

LEMMA BytesIsSum == ASSUME NEW m PROVE Bytes(m) = Sum(m, LiveAddrs(m))
BY DEF Bytes, Sum

LEMMA LiveSizes ==
  ASSUME TypeOK, NEW a \in LiveAddrs(live)
  PROVE  live[a] \in Int /\ live[a] >= 0 /\ live[a] \in Sizes \cup {0}
<1>1. live[a] \in Sizes \cup {0}
  BY DEF LiveAddrs, TypeOK, GTypes
<1>2. Sizes \cup {0} \subseteq Nat
  BY CpAssumption
<1>3. live[a] \in Nat
  BY <1>1, <1>2
<1> QED
  BY <1>1, <1>3

\* An address comes into the live set, or is there already.
LEMMA BytesPut ==
  ASSUME TypeOK, NEW a \in Addrs, NEW s \in Nat,
         live' = [live EXCEPT ![a] = s], s # NoEntry
  PROVE  /\ Bytes(live) \in Int /\ Bytes(live') \in Int
         /\ Bytes(live') <= Bytes(live) + s
         /\ live[a] = NoEntry => Bytes(live') = Bytes(live) + s
<1> DEFINE L == LiveAddrs(live)
           R == L \ {a}
<1>1. live \in [Addrs -> Sizes \cup {0, NoEntry}]
  BY DEF TypeOK, GTypes
<1>2. LiveAddrs(live') = L \cup {a}
  BY <1>1 DEF LiveAddrs
<1>3. IsFiniteSet(L) /\ IsFiniteSet(L \cup {a}) /\ IsFiniteSet(R)
  BY <1>2, LiveFinite, FS_Subset
<1>4. \A b \in L : live[b] \in Int /\ live[b] >= 0
  BY LiveSizes
<1>5. /\ live'[a] = s
      /\ \A b \in R : live'[b] = live[b]
  BY <1>1 DEF LiveAddrs
<1>6. \A b \in L \cup {a} : live'[b] \in Int
  BY <1>4, <1>5
<1>7. (L \cup {a}) \ {a} = R
  OBVIOUS
<1>8. a \notin L <=> live[a] = NoEntry
  BY DEF LiveAddrs
<1> HIDE DEF L, R
<1>9. Sum(live', L \cup {a}) = s + Sum(live', R)
  <2> DEFINE K == L \cup {a}
             now == live'
  <2>1. IsFiniteSet(K) /\ \A b \in K : now[b] \in Int
    BY <1>3, <1>6
  <2>2. a \in K
    OBVIOUS
  <2> HIDE DEF K, now
  <2>3. Sum(now, K) = now[a] + Sum(now, K \ {a})
    BY <2>1, <2>2, SumTake
  <2> QED
    BY <1>5, <1>7, <2>3 DEF K, now
<1>10. Sum(live', R) = Sum(live, R)
  <2> DEFINE now == live'
  <2>1. IsFiniteSet(R) /\ \A b \in R : now[b] = live[b]
    BY <1>3, <1>5
  <2> HIDE DEF now
  <2>2. Sum(now, R) = Sum(live, R)
    BY <2>1, SumSame
  <2> QED
    BY <2>2 DEF now
<1>11. Sum(live, R) \in Int /\ Sum(live, L) \in Int
  BY <1>3, <1>4, SumType DEF R
<1>12. CASE a \in L
  <2>1. Sum(live, L) = live[a] + Sum(live, R)
    BY <1>3, <1>4, <1>12, SumTake DEF R
  <2>2. live[a] \in Int /\ live[a] >= 0
    BY <1>4, <1>12
  <2>3. Sum(live, R) <= Sum(live, L)
    BY <1>11, <2>1, <2>2
  <2>4. Bytes(live') = s + Sum(live, R) /\ Bytes(live) = Sum(live, L)
    BY <1>2, <1>9, <1>10, BytesIsSum DEF L
  <2> QED
    BY <1>8, <1>11, <1>12, <2>3, <2>4
<1>13. CASE a \notin L
  <2>1. R = L
    BY <1>13 DEF R
  <2>2. Bytes(live') = s + Sum(live, L) /\ Bytes(live) = Sum(live, L)
    BY <1>2, <1>9, <1>10, <2>1, BytesIsSum DEF L
  <2> QED
    BY <1>11, <2>2
<1> QED
  BY <1>12, <1>13

\* An address leaves it.
LEMMA BytesErase ==
  ASSUME TypeOK, NEW a \in LiveAddrs(live), live' = [live EXCEPT ![a] = NoEntry]
  PROVE  /\ Bytes(live) \in Int /\ live[a] \in Int
         /\ Bytes(live') = Bytes(live) - live[a]
<1> DEFINE L == LiveAddrs(live)
           R == L \ {a}
<1>1. live \in [Addrs -> Sizes \cup {0, NoEntry}] /\ a \in Addrs
  BY DEF TypeOK, GTypes, LiveAddrs
<1>2. LiveAddrs(live') = R
  BY <1>1 DEF LiveAddrs
<1>3. IsFiniteSet(L) /\ IsFiniteSet(R)
  BY LiveFinite, FS_Subset
<1>4. \A b \in L : live[b] \in Int
  BY LiveSizes
<1>5. \A b \in R : live'[b] = live[b]
  BY <1>1 DEF LiveAddrs
<1>6. a \in L
  OBVIOUS
<1> HIDE DEF L, R
<1>7. Sum(live', R) = Sum(live, R)
  <2> DEFINE now == live'
  <2>1. IsFiniteSet(R) /\ \A b \in R : now[b] = live[b]
    BY <1>3, <1>5
  <2> HIDE DEF now
  <2>2. Sum(now, R) = Sum(live, R)
    BY <2>1, SumSame
  <2> QED
    BY <2>2 DEF now
<1>8. Sum(live, L) = live[a] + Sum(live, R)
  BY <1>3, <1>4, <1>6, SumTake DEF R
<1>9. Sum(live, R) \in Int /\ live[a] \in Int
  BY <1>3, <1>4, <1>6, SumType DEF R
<1>10. Bytes(live') = Sum(live', R) /\ Bytes(live) = Sum(live, L)
  BY <1>2, BytesIsSum DEF L
<1> QED
  BY <1>7, <1>8, <1>9, <1>10

LEMMA BytesInit == Init => BytesInv
<1> SUFFICES ASSUME Init
             PROVE  BytesInv
  OBVIOUS
<1>1. LiveAddrs(live) = {} /\ bytes = 0
  BY DEF Init, LiveAddrs
<1>2. Bytes(live) = 0
  BY <1>1, BytesIsSum, SumEmpty
<1> QED
  BY <1>1, <1>2 DEF BytesInv

LEMMA BytesStep == TypeOK /\ PlainInv /\ BytesInv /\ [Next]_vars => BytesInv'
<1> SUFFICES ASSUME TypeOK, PlainInv, BytesInv, [Next]_vars
             PROVE  BytesInv'
  OBVIOUS
<1>1. bytes \in Int /\ live \in [Addrs -> Sizes \cup {0, NoEntry}] /\ plain \in BOOLEAN
  BY DEF TypeOK, GTypes, OsTypes
<1>2. ASSUME UNCHANGED <<live, bytes>>, plain' => plain
      PROVE  BytesInv'
  <2>1. Bytes(live') = Bytes(live)
    BY <1>2
  <2> QED
    BY <1>2, <2>1 DEF BytesInv
<1>3. ASSUME NEW t \in Threads, RecordMap(t)
      PROVE  BytesInv'
  <2> DEFINE a == call[t].addr
             s == call[t].size
  <2>1. /\ call[t] \in Calls /\ a # NULL /\ plain' = plain
        /\ live' = [live EXCEPT ![a] = s] /\ bytes' = bytes + s
        /\ pc[t] = "locked" /\ call[t].op = "map"
    BY <1>3 DEF RecordMap, Record, osVars, TypeOK, ThreadTypes
  <2>2. a \in Addrs /\ s \in Nat /\ s # NoEntry
    <3>1. a \in Addrs /\ s \in Sizes \cup {0}
      BY <2>1 DEF Calls
    <3>2. Sizes \cup {0} \subseteq Nat /\ NoEntry \notin Sizes \cup {0}
      BY CpAssumption
    <3> QED
      BY <3>1, <3>2
  \* As long as the OS is plain, the address was not live.
  <2>3. plain => live[a] = NoEntry
    <3>1. Pending(t, "map", a)
      BY <2>1 DEF Pending
    <3> QED
      BY <2>2, <3>1 DEF PlainInv, PlainAt
  <2> HIDE DEF a, s
  <2>4. /\ Bytes(live) \in Int /\ Bytes(live') \in Int
        /\ Bytes(live') <= Bytes(live) + s
        /\ live[a] = NoEntry => Bytes(live') = Bytes(live) + s
    BY <2>1, <2>2, BytesPut
  <2>5. bytes >= Bytes(live) /\ (plain => bytes = Bytes(live))
    BY DEF BytesInv
  <2>6. bytes' >= Bytes(live')
    BY <1>1, <2>1, <2>2, <2>4, <2>5
  <2>7. plain' => bytes' = Bytes(live')
    BY <2>1, <2>3, <2>4, <2>5
  <2> QED
    BY <2>6, <2>7 DEF BytesInv
<1>4. ASSUME NEW t \in Threads, RecordUnmap(t)
      PROVE  BytesInv'
  <2> DEFINE a == call[t].addr
  <2>1. /\ Found(a) /\ plain' = plain
        /\ live' = [live EXCEPT ![a] = NoEntry] /\ bytes' = bytes - live[a]
    BY <1>4 DEF RecordUnmap, Record, osVars
  <2>2. a \in LiveAddrs(live)
    BY <2>1 DEF Found, LiveAddrs
  <2> HIDE DEF a
  <2>3. /\ Bytes(live) \in Int /\ live[a] \in Int
        /\ Bytes(live') = Bytes(live) - live[a]
    BY <2>1, <2>2, BytesErase
  <2>5. bytes >= Bytes(live) /\ (plain => bytes = Bytes(live))
    BY DEF BytesInv
  <2>6. bytes' >= Bytes(live')
    BY <1>1, <2>1, <2>3, <2>5
  <2>7. plain' => bytes' = Bytes(live')
    BY <2>1, <2>3, <2>5
  <2> QED
    BY <2>6, <2>7 DEF BytesInv
<1>5. ASSUME NEW t \in Threads, RecordMapFailed(t) \/ RecordUnmatched(t)
      PROVE  BytesInv'
  BY <1>2, <1>5 DEF RecordMapFailed, RecordUnmatched, Record, osVars
<1>6. ASSUME NEW t \in Threads, Lock(t) \/ Finish(t) \/ OsCall(t)
      PROVE  BytesInv'
  <2>1. UNCHANGED <<live, bytes>>
    BY <1>6 DEF Lock, Finish, OsCall, MapShared, MapFresh, UnmapWorks, UnmapFails,
                MapFails, UnmapNull, Called, g
  <2>2. plain' => plain
    BY <1>6 DEF Lock, Finish, OsCall, MapShared, MapFresh, UnmapWorks, UnmapFails,
                MapFails, UnmapNull, osVars
  <2> QED
    BY <1>2, <2>1, <2>2
<1>7. ASSUME Exit \/ Exiting \/ UNCHANGED vars
      PROVE  BytesInv'
  <2>1. UNCHANGED <<live, bytes>>
    BY <1>7 DEF Exit, Exiting, ExitLock, ExitLine, ExitSummary, ExitSilent, Gone, vars, g
  <2>2. plain' = plain
    BY <1>7 DEF Exit, Exiting, ExitLock, ExitLine, ExitSummary, ExitSilent, Gone, vars,
                osVars
  <2> QED
    BY <1>2, <2>1, <2>2
<1> QED
  BY <1>3, <1>4, <1>5, <1>6, <1>7 DEF Next, Profile

\* live_bytes never falls below what is live, whatever the OS shares or refuses
\* and however calls and records interleave.
THEOREM BytesNeverShort == Spec => []BytesCoverLive
<1>1. Init => TypeOK /\ CallInv /\ RefInv /\ PlainInv /\ BytesInv
  BY TypeInit, RefInit, PlainInit, BytesInit
<1>2. TypeOK /\ CallInv /\ RefInv /\ PlainInv /\ BytesInv /\ [Next]_vars
        => (TypeOK /\ CallInv /\ RefInv /\ PlainInv /\ BytesInv)'
  BY TypeStep, CallStep, RefStep, PlainStep, BytesStep
<1>3. BytesInv => BytesCoverLive
  BY DEF BytesInv, BytesCoverLive
<1> QED
  BY <1>1, <1>2, <1>3, PTL DEF Spec

-----------------------------------------------------------------------------
(* correlate, record by record: what it does with a line of the profiler.  *)

Text == EventLines \cup FinalLines

\* What correlate keeps of one process.
Fields ==
  {"live", "bytes", "peakCount", "peakBytes", "matched", "unmatched", "lifetimes", "last"}

Reading(m) ==
  /\ m = [f \in Fields |-> m[f]]
  /\ m.bytes \in Int /\ m.peakBytes \in Int /\ m.peakCount \in Int /\ m.unmatched \in Int
  /\ \A a \in DOMAIN m.live : m.live[a].size \in Nat
  /\ IsFiniteSet(DOMAIN m.live)

\* The instance of the reader has its own name for the size of a set.
LEMMA SameCardinality == ASSUME NEW S PROVE Reader!Cardinality(S) = Cardinality(S)
BY DEF Reader!Cardinality, Cardinality

LEMMA LargerIs ==
  ASSUME NEW i \in Int, NEW j \in Int
  PROVE  /\ Larger(i, j) \in {i, j} /\ Larger(i, j) >= i /\ Larger(i, j) >= j
         /\ Reader!Larger(i, j) = Larger(i, j)
BY DEF Larger, Reader!Larger

\* A line of the profiler: the fields that correlate looks for.
LEMMA TextFields ==
  ASSUME NEW r \in Text
  PROVE  /\ "ts" \notin DOMAIN r
         /\ r.event \in {"map", "unmap", "live_at_exit", "summary"}
         /\ r.event \in {"map", "unmap"} =>
              /\ "addr" \in DOMAIN r /\ "ret" \in DOMAIN r /\ "size" \in DOMAIN r
              /\ r.addr \in Addrs \cup {NULL} /\ r.ret \in Int /\ r.size \in Nat
              /\ r.tail.count \in Nat /\ r.tail.bytes \in Int
<1>1. Sizes \cup {0} \subseteq Nat
  BY CpAssumption
<1>2. CASE r \in [event : {"map"}, addr : Addrs \cup {NULL}, size : Sizes \cup {0}, ret : Int,
                  tail : Tails]
  BY <1>1, <1>2 DEF Tails
<1>3. CASE r \in [event : {"unmap"}, addr : Addrs \cup {NULL}, ret : Int, matched : BOOLEAN,
                  size : Sizes \cup {0}, tail : Tails]
  BY <1>1, <1>3 DEF Tails
<1>4. CASE r \in FinalLines
  <2>1. CASE r \in [event : {"live_at_exit"}, addr : Addrs, size : Sizes \cup {0, NoEntry}]
    BY <2>1
  <2>2. CASE r \in [event : {"summary"}, totals : Totals, stillLive : Nat]
    BY <2>2
  <2> QED
    BY <1>4, <2>1, <2>2 DEF FinalLines
<1> QED
  BY <1>2, <1>3, <1>4 DEF Text, EventLines

\* Without a time, what a record leaves of the last one.
LEMMA NoTime ==
  ASSUME NEW m, Reading(m), NEW r \in Text
  PROVE  [m EXCEPT !.last = Reader!Get(r, "ts", m.last)] = m
<1>1. Reader!Get(r, "ts", m.last) = m.last
  BY TextFields DEF Reader!Get
<1>2. m = [f \in Fields |-> m[f]] /\ "last" \in Fields
  BY DEF Reading, Fields
<1>3. [m EXCEPT !["last"] = m["last"]] = m
  BY <1>2
<1> QED
  BY <1>1, <1>3

\* A map that worked.
LEMMA ReadMap ==
  ASSUME NEW m, Reading(m), NEW r \in Text, NEW w, w = Reader!CorrelateRecord(m, r),
         r.event = "map", r.ret >= 0, r.addr # NULL
  PROVE  /\ Reading(w)
         /\ DOMAIN w.live = DOMAIN m.live \cup {r.addr}
         /\ \A a \in DOMAIN w.live : w.live[a].size = IF a = r.addr THEN r.size
                                                      ELSE m.live[a].size
         /\ w.bytes <= m.bytes + r.size
         /\ w.peakCount = Larger(m.peakCount, Cardinality(DOMAIN w.live))
         /\ w.peakBytes = Larger(m.peakBytes, w.bytes)
         /\ w.unmatched = m.unmatched
<1>0. /\ "addr" \in DOMAIN r /\ "ret" \in DOMAIN r /\ "size" \in DOMAIN r
      /\ r.size \in Nat
  BY TextFields
<1>1. Reader!MapOk(r) /\ Reader!Get(r, "addr", NULL) = r.addr
      /\ Reader!Get(r, "size", 0) = r.size
  BY <1>0 DEF Reader!MapOk, Reader!IsMap, Reader!Get
<1>2. w = Reader!CorrelateMap(m, r)
  <2>1. w = Reader!CorrelateMap([m EXCEPT !.last = Reader!Get(r, "ts", m.last)], r)
    BY <1>1 DEF Reader!CorrelateRecord
  <2> QED
    BY <2>1, NoTime
<1> DEFINE entry == [size |-> Reader!Get(r, "size", 0), ts |-> Reader!Get(r, "ts", NULL),
                     name |-> Reader!Get(r, "name", NULL), flags |-> Reader!Get(r, "flags", NULL)]
           now == [a \in DOMAIN m.live \cup {r.addr} |->
                     IF a = r.addr THEN entry ELSE m.live[a]]
           sum == m.bytes + entry.size - Reader!SizeAt(m.live, r.addr)
<1>3. entry.size = r.size
  BY <1>1
<1>4. w = [m EXCEPT !.live = now, !.bytes = sum,
                    !.peakCount = Reader!Larger(m.peakCount, Reader!Cardinality(DOMAIN now)),
                    !.peakBytes = Reader!Larger(m.peakBytes, sum)]
  BY <1>2 DEF Reader!CorrelateMap
<1> HIDE DEF entry
<1>5. DOMAIN now = DOMAIN m.live \cup {r.addr}
      /\ \A a \in DOMAIN now : now[a] = IF a = r.addr THEN entry ELSE m.live[a]
  OBVIOUS
<1> HIDE DEF now
<1>6. /\ sum \in Int /\ sum <= m.bytes + r.size
  <2>1. Reader!SizeAt(m.live, r.addr) \in Nat
    BY DEF Reader!SizeAt, Reading
  <2> QED
    BY <1>0, <1>3, <2>1 DEF Reading
<1>7. m = [f \in Fields |-> m[f]] /\ m.peakCount \in Int /\ m.peakBytes \in Int
      /\ m.unmatched \in Int /\ IsFiniteSet(DOMAIN m.live)
      /\ \A a \in DOMAIN m.live : m.live[a].size \in Nat
  BY DEF Reading
<1>8. w = [m EXCEPT !.live = now, !.bytes = sum,
                    !.peakCount = Reader!Larger(m.peakCount, Cardinality(DOMAIN now)),
                    !.peakBytes = Reader!Larger(m.peakBytes, sum)]
  BY <1>4, SameCardinality
<1> HIDE DEF sum
<1>9. /\ w = [f \in Fields |-> w[f]]
      /\ w.live = now /\ w.bytes = sum
      /\ w.peakCount = Reader!Larger(m.peakCount, Cardinality(DOMAIN now))
      /\ w.peakBytes = Reader!Larger(m.peakBytes, sum)
      /\ w.unmatched = m.unmatched
  BY <1>7, <1>8 DEF Fields
<1>10. IsFiniteSet(DOMAIN now) /\ Cardinality(DOMAIN now) \in Nat
  <2>1. IsFiniteSet(DOMAIN m.live \cup {r.addr})
    BY <1>7, FS_AddElement
  <2> QED
    BY <1>5, <2>1, FS_CardinalityType
<1>11. /\ w.peakCount = Larger(m.peakCount, Cardinality(DOMAIN w.live)) /\ w.peakCount \in Int
       /\ w.peakBytes = Larger(m.peakBytes, w.bytes) /\ w.peakBytes \in Int
  BY <1>6, <1>7, <1>9, <1>10, LargerIs
<1>12. \A a \in DOMAIN w.live : /\ w.live[a].size = IF a = r.addr THEN r.size ELSE m.live[a].size
                                /\ w.live[a].size \in Nat
  BY <1>0, <1>3, <1>5, <1>7, <1>9
<1>13. Reading(w)
  BY <1>6, <1>7, <1>9, <1>10, <1>11, <1>12 DEF Reading
<1> QED
  BY <1>5, <1>6, <1>9, <1>11, <1>12, <1>13

\* An unmap of an address that is live.
LEMMA ReadUnmap ==
  ASSUME NEW m, Reading(m), NEW r \in Text, NEW w, w = Reader!CorrelateRecord(m, r),
         r.event = "unmap", r.addr \in DOMAIN m.live
  PROVE  /\ Reading(w)
         /\ DOMAIN w.live = DOMAIN m.live \ {r.addr}
         /\ \A a \in DOMAIN w.live : w.live[a].size = m.live[a].size
         /\ w.bytes = m.bytes - m.live[r.addr].size
         /\ w.peakCount = m.peakCount /\ w.peakBytes = m.peakBytes
         /\ w.unmatched = m.unmatched
<1>0. "addr" \in DOMAIN r /\ "ts" \notin DOMAIN r
  BY TextFields
<1>1. /\ ~Reader!MapOk(r) /\ Reader!Get(r, "addr", NULL) = r.addr
      /\ Reader!Get(r, "ts", NULL) = NULL
  BY <1>0 DEF Reader!MapOk, Reader!IsMap, Reader!Get
<1>2. w = Reader!CorrelateUnmap(m, r)
  <2>1. w = Reader!CorrelateUnmap([m EXCEPT !.last = Reader!Get(r, "ts", m.last)], r)
    BY <1>1 DEF Reader!CorrelateRecord
  <2> QED
    BY <2>1, NoTime
<1> DEFINE now == [a \in DOMAIN m.live \ {r.addr} |-> m.live[a]]
           was == m.live[r.addr]
<1>3. w = [m EXCEPT !.live = now, !.bytes = m.bytes - was.size, !.matched = m.matched + 1,
                    !.lifetimes = m.lifetimes]
  BY <1>1, <1>2 DEF Reader!CorrelateUnmap
<1>4. DOMAIN now = DOMAIN m.live \ {r.addr}
      /\ \A a \in DOMAIN now : now[a] = m.live[a]
  OBVIOUS
<1> HIDE DEF now
<1>5. m = [f \in Fields |-> m[f]] /\ m.peakCount \in Int /\ m.peakBytes \in Int
      /\ m.unmatched \in Int /\ IsFiniteSet(DOMAIN m.live) /\ m.bytes \in Int
      /\ \A a \in DOMAIN m.live : m.live[a].size \in Nat
  BY DEF Reading
<1>6. /\ w = [f \in Fields |-> w[f]]
      /\ w.live = now /\ w.bytes = m.bytes - was.size
      /\ w.peakCount = m.peakCount /\ w.peakBytes = m.peakBytes
      /\ w.unmatched = m.unmatched
  BY <1>3, <1>5 DEF Fields
<1>7. IsFiniteSet(DOMAIN now)
  BY <1>4, <1>5, FS_Subset
<1>8. m.bytes - was.size \in Int
  BY <1>5
<1>9. Reading(w)
  BY <1>4, <1>5, <1>6, <1>7, <1>8 DEF Reading
<1> QED
  BY <1>4, <1>6, <1>9

\* One of an address that is not.
LEMMA ReadUnmatched ==
  ASSUME NEW m, Reading(m), NEW r \in Text, NEW w, w = Reader!CorrelateRecord(m, r),
         r.event = "unmap", r.addr \notin DOMAIN m.live
  PROVE  Reading(w) /\ w = [m EXCEPT !.unmatched = m.unmatched + 1]
<1>0. "addr" \in DOMAIN r
  BY TextFields
<1>1. ~Reader!MapOk(r) /\ Reader!Get(r, "addr", NULL) = r.addr
  BY <1>0 DEF Reader!MapOk, Reader!IsMap, Reader!Get
<1> DEFINE n == [m EXCEPT !.last = Reader!Get(r, "ts", m.last)]
<1>2. w = [n EXCEPT !.unmatched = n.unmatched + 1]
  BY <1>1 DEF Reader!CorrelateRecord
<1>3. n = m
  BY NoTime
<1> HIDE DEF n
<1>4. w = [m EXCEPT !.unmatched = m.unmatched + 1]
  BY <1>2, <1>3
<1>5. Reading(w)
  BY <1>4 DEF Reading, Fields
<1> QED
  BY <1>4, <1>5

\* All other records say nothing to correlate.
LEMMA ReadOther ==
  ASSUME NEW m, Reading(m), NEW r \in Text,
         r.event # "unmap", r.event = "map" => ~(r.ret >= 0 /\ r.addr # NULL)
  PROVE  Reader!CorrelateRecord(m, r) = m
<1>0. r.event = "map" => "addr" \in DOMAIN r /\ "ret" \in DOMAIN r
  BY TextFields
<1>1. ~(Reader!MapOk(r) /\ Reader!Get(r, "addr", NULL) # NULL)
  <2>1. CASE r.event = "map"
    BY <1>0, <2>1 DEF Reader!MapOk, Reader!IsMap, Reader!Get
  <2>2. CASE r.event # "map"
    <3>1. r.event # "map_on_pg"
      BY TextFields
    <3> QED
      BY <2>2, <3>1 DEF Reader!MapOk, Reader!IsMap
  <2> QED
    BY <2>1, <2>2
<1>2. Reader!CorrelateRecord(m, r) = [m EXCEPT !.last = Reader!Get(r, "ts", m.last)]
  BY <1>1 DEF Reader!CorrelateRecord
<1> QED
  BY <1>2, NoTime

LEMMA ReadAny ==
  ASSUME NEW m, Reading(m), NEW r \in Text
  PROVE  Reading(Reader!CorrelateRecord(m, r))
<1>1. CASE r.event = "map" /\ r.ret >= 0 /\ r.addr # NULL
  BY <1>1, ReadMap
<1>2. CASE r.event = "unmap" /\ r.addr \in DOMAIN m.live
  BY <1>2, ReadUnmap
<1>3. CASE r.event = "unmap" /\ r.addr \notin DOMAIN m.live
  BY <1>3, ReadUnmatched
<1>4. CASE r.event # "unmap" /\ ~(r.event = "map" /\ r.ret >= 0 /\ r.addr # NULL)
  BY <1>4, ReadOther
<1> QED
  BY <1>1, <1>2, <1>3, <1>4

\* So it is after any lines of the profiler.
LEMMA ReplayReading ==
  ASSUME NEW s \in Seq(Text)
  PROVE  Reading(Reader!Replay(s))
<1> DEFINE T == {n \in Nat : \A z \in Seq(Text) : Len(z) = n => Reading(Reader!Replay(z))}
<1>1. 0 \in T
  <2>1. \A z \in Seq(Text) : Len(z) = 0 => z = << >>
    BY EmptySeq
  <2>2. Reading(Reader!NoRecords)
    <3>1. DOMAIN << >> = {} /\ IsFiniteSet(DOMAIN << >>)
      BY FS_EmptySet
    <3> QED
      BY <3>1 DEF Reading, Fields, Reader!NoRecords
  <2> QED
    BY <2>1, <2>2, ReplayNone
<1>2. ASSUME NEW n \in Nat, n \in T
      PROVE  n + 1 \in T
  <2>1. SUFFICES ASSUME NEW z \in Seq(Text), Len(z) = n + 1
                 PROVE  Reading(Reader!Replay(z))
    OBVIOUS
  <2> DEFINE y == SubSeq(z, 1, n)
  <2>2. y \in Seq(Text) /\ Len(y) = n /\ DOMAIN y = 1 .. n
        /\ \A i \in 1 .. n : y[i] = z[i]
    BY <2>1
  <2>3. DOMAIN z = 1 .. n + 1 /\ z[n + 1] \in Text
    BY <2>1
  <2> HIDE DEF y
  <2>4. Reader!Replay(z) = Reader!CorrelateRecord(Reader!Replay(y), z[n + 1])
    <3>1. n + 1 \in Nat
      OBVIOUS
    <3> QED
      BY <2>2, <2>3, <3>1, ReplayMore
  <2> QED
    BY <1>2, <2>2, <2>3, <2>4, ReadAny
<1> HIDE DEF T
<1>3. Len(s) \in T
  BY <1>1, <1>2, Induction
<1> QED
  BY <1>3 DEF T

-----------------------------------------------------------------------------
(* The totals of a list of records.                                        *)

Of(list, event) == {n \in DOMAIN list : list[n].event = event}
Failing(list) == {n \in Of(list, "map") : list[n].ret < 0}
Lost(list) == {n \in Of(list, "unmap") : ~list[n].matched}
Heights(list) == {0} \cup {list[n].tail.count : n \in Of(list, "map")}
Weights(list) == {0} \cup {list[n].tail.bytes : n \in Of(list, "map")}

LEMMA AddsUpIs ==
  ASSUME NEW s, NEW list
  PROVE  AddsUp(s, list) <=>
           /\ s.maps = Cardinality(Of(list, "map")) /\ s.unmaps = Cardinality(Of(list, "unmap"))
           /\ s.failures = Cardinality(Failing(list))
           /\ s.unmatched = Cardinality(Lost(list))
           /\ Top(s.peakCount, Heights(list)) /\ Top(s.peakBytes, Weights(list))
BY DEF AddsUp, Of, Failing, Lost, Heights, Weights

\* A list with one record more.
Longer(z, list, r) ==
  /\ list \in Seq(Text) /\ r \in Text /\ z = Append(list, r)

\* k is the place of r.
LastAt(z, list, r, k) ==
  /\ k \notin DOMAIN list /\ DOMAIN z = DOMAIN list \cup {k}
  /\ z[k] = r /\ \A n \in DOMAIN list : z[n] = list[n]

LEMMA LongerIs ==
  ASSUME NEW list, NEW r, NEW z, Longer(z, list, r)
  PROVE  \E k : LastAt(z, list, r, k)
<1>1. /\ list \in Seq(Text) /\ r \in Text /\ z = Append(list, r)
  BY DEF Longer
<1>2. Len(list) \in Nat /\ DOMAIN list = 1 .. Len(list)
  BY <1>1
<1>3. DOMAIN z = 1 .. Len(list) + 1 /\ z[Len(list) + 1] = r
      /\ \A n \in 1 .. Len(list) : z[n] = list[n]
  BY <1>1
<1>4. 1 .. Len(list) + 1 = (1 .. Len(list)) \cup {Len(list) + 1}
  BY <1>2
<1> DEFINE k == Len(list) + 1
<1>5. LastAt(z, list, r, k)
  BY <1>2, <1>3, <1>4 DEF LastAt
<1> HIDE DEF k
<1> QED
  BY <1>5

LEMMA OfFinite ==
  ASSUME NEW list \in Seq(Text), NEW S, S \subseteq DOMAIN list
  PROVE  IsFiniteSet(S) /\ Cardinality(S) \in Nat
<1>1. DOMAIN list = 1 .. Len(list) /\ Len(list) \in Nat
  OBVIOUS
<1>2. IsFiniteSet(1 .. Len(list))
  BY <1>1, FS_Interval
<1> QED
  BY <1>1, <1>2, FS_Subset, FS_CardinalityType

LEMMA OneMore ==
  ASSUME NEW list \in Seq(Text), NEW S, S \subseteq DOMAIN list, NEW n, n \notin DOMAIN list
  PROVE  Cardinality(S \cup {n}) = Cardinality(S) + 1
BY OfFinite, FS_AddElement

\* A map more.
LEMMA MoreMaps ==
  ASSUME NEW list, NEW r, NEW z, Longer(z, list, r), r.event = "map"
  PROVE  /\ Cardinality(Of(z, "map")) = Cardinality(Of(list, "map")) + 1
         /\ Cardinality(Of(z, "unmap")) = Cardinality(Of(list, "unmap"))
         /\ Cardinality(Failing(z)) =
              IF r.ret < 0 THEN Cardinality(Failing(list)) + 1 ELSE Cardinality(Failing(list))
         /\ Cardinality(Lost(z)) = Cardinality(Lost(list))
         /\ Heights(z) = Heights(list) \cup {r.tail.count}
         /\ Weights(z) = Weights(list) \cup {r.tail.bytes}
<1>0. PICK k : LastAt(z, list, r, k)
  BY LongerIs
<1>1. /\ k \notin DOMAIN list /\ DOMAIN z = DOMAIN list \cup {k}
      /\ z[k] = r /\ \A n \in DOMAIN list : z[n] = list[n]
  BY <1>0 DEF LastAt
<1>2. list \in Seq(Text)
  BY DEF Longer
<1>3. Of(z, "map") = Of(list, "map") \cup {k}
  BY <1>1 DEF Of
<1>4. Of(z, "unmap") = Of(list, "unmap")
  BY <1>1 DEF Of
<1>5. Failing(z) = IF r.ret < 0 THEN Failing(list) \cup {k} ELSE Failing(list)
  BY <1>1, <1>3 DEF Failing, Of
<1>6. Lost(z) = Lost(list)
  BY <1>1, <1>4 DEF Lost, Of
<1>7. Heights(z) = Heights(list) \cup {r.tail.count}
  BY <1>1, <1>3 DEF Heights, Of
<1>8. Weights(z) = Weights(list) \cup {r.tail.bytes}
  BY <1>1, <1>3 DEF Weights, Of
<1>9. Of(list, "map") \subseteq DOMAIN list /\ Failing(list) \subseteq DOMAIN list
  BY DEF Of, Failing
<1> QED
  BY <1>1, <1>2, <1>3, <1>4, <1>5, <1>6, <1>7, <1>8, <1>9, OneMore

\* An unmap more.
LEMMA MoreUnmaps ==
  ASSUME NEW list, NEW r, NEW z, Longer(z, list, r), r.event = "unmap"
  PROVE  /\ Cardinality(Of(z, "map")) = Cardinality(Of(list, "map"))
         /\ Cardinality(Of(z, "unmap")) = Cardinality(Of(list, "unmap")) + 1
         /\ Cardinality(Failing(z)) = Cardinality(Failing(list))
         /\ Cardinality(Lost(z)) =
              IF r.matched THEN Cardinality(Lost(list)) ELSE Cardinality(Lost(list)) + 1
         /\ Heights(z) = Heights(list) /\ Weights(z) = Weights(list)
<1>0. PICK k : LastAt(z, list, r, k)
  BY LongerIs
<1>1. /\ k \notin DOMAIN list /\ DOMAIN z = DOMAIN list \cup {k}
      /\ z[k] = r /\ \A n \in DOMAIN list : z[n] = list[n]
  BY <1>0 DEF LastAt
<1>2. list \in Seq(Text)
  BY DEF Longer
<1>3. Of(z, "map") = Of(list, "map")
  BY <1>1 DEF Of
<1>4. Of(z, "unmap") = Of(list, "unmap") \cup {k}
  BY <1>1 DEF Of
<1>5. Failing(z) = Failing(list)
  BY <1>1, <1>3 DEF Failing, Of
<1>6. Lost(z) = IF r.matched THEN Lost(list) ELSE Lost(list) \cup {k}
  BY <1>1, <1>4 DEF Lost, Of
<1>7. Heights(z) = Heights(list) /\ Weights(z) = Weights(list)
  BY <1>1, <1>3 DEF Heights, Weights, Of
<1>8. Of(list, "unmap") \subseteq DOMAIN list /\ Lost(list) \subseteq DOMAIN list
  BY DEF Of, Lost
<1> QED
  BY <1>1, <1>2, <1>3, <1>4, <1>5, <1>6, <1>7, <1>8, OneMore

\* A line that is none of an event.
LEMMA MoreOther ==
  ASSUME NEW list, NEW r, NEW z, Longer(z, list, r), r.event \notin {"map", "unmap"}
  PROVE  /\ Of(z, "map") = Of(list, "map") /\ Of(z, "unmap") = Of(list, "unmap")
         /\ Failing(z) = Failing(list) /\ Lost(z) = Lost(list)
         /\ Heights(z) = Heights(list) /\ Weights(z) = Weights(list)
<1>0. PICK k : LastAt(z, list, r, k)
  BY LongerIs
<1>1. /\ k \notin DOMAIN list /\ DOMAIN z = DOMAIN list \cup {k}
      /\ z[k] = r /\ \A n \in DOMAIN list : z[n] = list[n]
  BY <1>0 DEF LastAt
<1>2. Of(z, "map") = Of(list, "map") /\ Of(z, "unmap") = Of(list, "unmap")
  BY <1>1 DEF Of
<1> QED
  BY <1>1, <1>2 DEF Failing, Lost, Heights, Weights, Of

LEMMA HeightsType ==
  ASSUME NEW list \in Seq(Text)
  PROVE  Heights(list) \subseteq Int /\ Weights(list) \subseteq Int
<1>1. ASSUME NEW n \in Of(list, "map")
      PROVE  list[n].tail.count \in Int /\ list[n].tail.bytes \in Int
  <2>1. list[n] \in Text /\ list[n].event = "map"
    BY DEF Of
  <2> QED
    BY <2>1, TextFields
<1> QED
  BY <1>1 DEF Heights, Weights

\* One more number, and the larger of it and the peak so far.
LEMMA TopMore ==
  ASSUME NEW S, S \subseteq Int, NEW p, Top(p, S), NEW x \in Int
  PROVE  Top(Larger(p, x), S \cup {x}) /\ (x <= p => Top(p, S \cup {x}))
<1>1. p \in Int /\ \A y \in S : y \in Int /\ y <= p
  BY DEF Top
<1>2. Larger(p, x) \in {p, x} /\ Larger(p, x) >= p /\ Larger(p, x) >= x /\ Larger(p, x) \in Int
  BY <1>1, LargerIs
<1>3. \A y \in S \cup {x} : y <= Larger(p, x)
  BY <1>1, <1>2
<1>4. p \in S
  BY DEF Top
<1> QED
  BY <1>1, <1>2, <1>3, <1>4 DEF Top

-----------------------------------------------------------------------------
(* Told(list), of a live set m, its bytes b and the totals s: each of the  *)
(* records the profiler makes keeps it.                                    *)

Follows(w, m, b, s) ==
  /\ DOMAIN w.live = LiveAddrs(m) /\ \A a \in LiveAddrs(m) : w.live[a].size = m[a]
  /\ w.bytes <= b /\ w.peakBytes <= s.peakBytes
  /\ w.peakCount = s.peakCount /\ w.unmatched = s.unmatched

Agrees(list, m, b, s) ==
  /\ Follows(Reader!Replay(list), m, b, s) /\ AddsUp(s, list)
  /\ Count(m) <= s.peakCount /\ b <= s.peakBytes

LEMMA ToldIs == ASSUME NEW list PROVE Told(list) <=> Agrees(list, live, bytes, stats)
BY DEF Told, Tracks, Agrees, Follows

LiveSets == [Addrs -> Sizes \cup {0, NoEntry}]

LEMMA SizesAre ==
  ASSUME NEW m \in LiveSets, NEW a \in LiveAddrs(m)
  PROVE  m[a] \in Nat
<1>1. m[a] \in Sizes \cup {0}
  BY DEF LiveAddrs, LiveSets
<1>2. Sizes \cup {0} \subseteq Nat
  BY CpAssumption
<1> QED
  BY <1>1, <1>2

LEMMA ReplayLonger ==
  ASSUME NEW list, NEW r, NEW z, Longer(z, list, r)
  PROVE  /\ Reading(Reader!Replay(list)) /\ r \in Text
         /\ Reader!Replay(z) = Reader!CorrelateRecord(Reader!Replay(list), r)
BY ReplayAppend, ReplayReading DEF Longer

\* The totals after each kind of record.
MapTotals(s, c, p) ==
  [s EXCEPT !.maps = @ + 1, !.peakCount = Larger(@, c), !.peakBytes = Larger(@, p)]
FailTotals(s, ret) ==
  [s EXCEPT !.maps = @ + 1, !.failures = IF ret < 0 THEN @ + 1 ELSE @]
UnmapTotals(s) == [s EXCEPT !.unmaps = @ + 1]
UnmatchedTotals(s) == [s EXCEPT !.unmaps = @ + 1, !.unmatched = @ + 1]

\* The record of a map that worked, which makes m into w and the bytes b into p.
MapsTo(r, m, b, w, p) ==
  /\ r.event = "map" /\ r.ret >= 0 /\ r.addr \in Addrs /\ r.size \in Sizes \cup {0}
  /\ w = [m EXCEPT ![r.addr] = r.size] /\ p = b + r.size
  /\ r.tail.count = Count(w) /\ r.tail.bytes = p

LEMMA AgreesMap ==
  ASSUME NEW list, NEW r, NEW z, Longer(z, list, r),
         NEW m \in LiveSets, NEW b \in Int, NEW s \in Totals, Agrees(list, m, b, s),
         NEW w, NEW p, MapsTo(r, m, b, w, p), NEW u, u = MapTotals(s, Count(w), p)
  PROVE  Agrees(z, w, p, u)
<1>10. /\ r.event = "map" /\ r.ret >= 0 /\ r.addr \in Addrs /\ r.size \in Sizes \cup {0}
      /\ w = [m EXCEPT ![r.addr] = r.size] /\ p = b + r.size
      /\ r.tail.count = Count(w) /\ r.tail.bytes = p
  BY DEF MapsTo
<1>0. /\ r \in Text /\ list \in Seq(Text) /\ r.addr # NULL /\ r.ret \in Int
      /\ r.size \in Nat /\ r.size # NoEntry
  <2>1. r \in Text /\ list \in Seq(Text)
    BY DEF Longer
  <2>2. r.addr # NULL /\ r.size # NoEntry
    BY <1>10, CpAssumption
  <2> QED
    BY <1>10, <2>1, <2>2, TextFields
<1> DEFINE old == Reader!Replay(list)
           new == Reader!Replay(z)
<1>1. Reading(old) /\ new = Reader!CorrelateRecord(old, r)
  BY ReplayLonger
<1>2. Follows(old, m, b, s) /\ AddsUp(s, list) /\ Count(m) <= s.peakCount /\ b <= s.peakBytes
  BY DEF Agrees
<1> HIDE DEF old, new
<1>3. /\ Reading(new)
      /\ DOMAIN new.live = DOMAIN old.live \cup {r.addr}
      /\ \A a \in DOMAIN new.live : new.live[a].size = IF a = r.addr THEN r.size
                                                       ELSE old.live[a].size
      /\ new.bytes <= old.bytes + r.size
      /\ new.peakCount = Larger(old.peakCount, Cardinality(DOMAIN new.live))
      /\ new.peakBytes = Larger(old.peakBytes, new.bytes)
      /\ new.unmatched = old.unmatched
  BY <1>10, <1>0, <1>1, ReadMap
<1>4. LiveAddrs(w) = LiveAddrs(m) \cup {r.addr}
  BY <1>10, <1>0 DEF LiveAddrs, LiveSets
<1>5. /\ Count(w) \in Nat /\ s.peakCount \in Nat /\ s.peakBytes \in Int /\ p \in Int
      /\ s.maps \in Nat
  BY <1>10, <1>0, CountIsNat DEF Totals
<1>6. /\ u.maps = s.maps + 1 /\ u.unmaps = s.unmaps /\ u.failures = s.failures
      /\ u.unmatched = s.unmatched /\ u.peakCount = Larger(s.peakCount, Count(w))
      /\ u.peakBytes = Larger(s.peakBytes, p)
  BY DEF Totals, MapTotals
<1>7. Follows(new, w, p, u)
  <2>1. DOMAIN new.live = LiveAddrs(w)
    BY <1>2, <1>3, <1>4 DEF Follows
  <2>2. \A a \in LiveAddrs(w) : new.live[a].size = w[a]
    BY <1>10, <1>2, <1>3, <1>4, <2>1 DEF Follows, LiveAddrs, LiveSets
  <2>3. old.bytes \in Int /\ old.peakBytes \in Int /\ new.bytes \in Int
    BY <1>1, <1>3 DEF Reading
  <2>4. new.bytes <= p
    BY <1>10, <1>0, <1>2, <1>3, <2>3 DEF Follows
  <2>5. new.peakBytes <= u.peakBytes
    BY <1>2, <1>3, <1>5, <1>6, <2>3, <2>4 DEF Follows, Larger
  <2>6. new.peakCount = u.peakCount /\ new.unmatched = u.unmatched
    BY <1>2, <1>3, <1>6, <2>1 DEF Follows, Count
  <2> QED
    BY <2>1, <2>2, <2>4, <2>5, <2>6 DEF Follows
<1>8. AddsUp(u, z)
  <2>1. /\ s.maps = Cardinality(Of(list, "map")) /\ s.unmaps = Cardinality(Of(list, "unmap"))
        /\ s.failures = Cardinality(Failing(list)) /\ s.unmatched = Cardinality(Lost(list))
        /\ Top(s.peakCount, Heights(list)) /\ Top(s.peakBytes, Weights(list))
    BY <1>2, AddsUpIs
  <2>2. /\ Cardinality(Of(z, "map")) = Cardinality(Of(list, "map")) + 1
        /\ Cardinality(Of(z, "unmap")) = Cardinality(Of(list, "unmap"))
        /\ Cardinality(Failing(z)) = Cardinality(Failing(list))
        /\ Cardinality(Lost(z)) = Cardinality(Lost(list))
        /\ Heights(z) = Heights(list) \cup {r.tail.count}
        /\ Weights(z) = Weights(list) \cup {r.tail.bytes}
    BY <1>10, <1>0, MoreMaps
  <2>3. Heights(list) \subseteq Int /\ Weights(list) \subseteq Int
    BY <1>0, HeightsType
  <2>4. Top(Larger(s.peakCount, Count(w)), Heights(list) \cup {Count(w)})
    <3>1. PICK c \in Int : c = Count(w)
      BY <1>5
    <3>2. Top(Larger(s.peakCount, c), Heights(list) \cup {c})
      BY <2>1, <2>3, TopMore
    <3> QED
      BY <3>1, <3>2
  <2>5. Top(Larger(s.peakBytes, p), Weights(list) \cup {p})
    BY <1>5, <2>1, <2>3, TopMore
  <2>6. Top(u.peakCount, Heights(z)) /\ Top(u.peakBytes, Weights(z))
    BY <1>10, <1>6, <2>2, <2>4, <2>5
  <2> QED
    BY <1>6, <2>1, <2>2, <2>6, AddsUpIs
<1>9. Count(w) <= u.peakCount /\ p <= u.peakBytes
  BY <1>5, <1>6, LargerIs
<1> QED
  BY <1>7, <1>8, <1>9 DEF Agrees, new

LEMMA AgreesMapFailed ==
  ASSUME NEW list, NEW r, NEW z, Longer(z, list, r),
         NEW m \in LiveSets, NEW b \in Int, NEW s \in Totals, Agrees(list, m, b, s),
         r.event = "map", ~(r.ret >= 0 /\ r.addr # NULL),
         NEW u, u = FailTotals(s, r.ret),
         r.tail.count = Count(m), r.tail.bytes = b
  PROVE  Agrees(z, m, b, u)
<1>0. r \in Text /\ list \in Seq(Text)
  BY DEF Longer
<1>1. Reader!Replay(z) = Reader!Replay(list)
  BY <1>0, ReplayLonger, ReadOther
<1>2. /\ Follows(Reader!Replay(list), m, b, s) /\ AddsUp(s, list)
      /\ Count(m) <= s.peakCount /\ b <= s.peakBytes
  BY DEF Agrees
<1>3. /\ u.maps = s.maps + 1 /\ u.unmaps = s.unmaps
      /\ u.failures = IF r.ret < 0 THEN s.failures + 1 ELSE s.failures
      /\ u.unmatched = s.unmatched /\ u.peakCount = s.peakCount
      /\ u.peakBytes = s.peakBytes
  BY DEF Totals, FailTotals
<1>4. AddsUp(u, z)
  <2>1. /\ s.maps = Cardinality(Of(list, "map")) /\ s.unmaps = Cardinality(Of(list, "unmap"))
        /\ s.failures = Cardinality(Failing(list)) /\ s.unmatched = Cardinality(Lost(list))
        /\ Top(s.peakCount, Heights(list)) /\ Top(s.peakBytes, Weights(list))
    BY <1>2, AddsUpIs
  <2>2. /\ Cardinality(Of(z, "map")) = Cardinality(Of(list, "map")) + 1
        /\ Cardinality(Of(z, "unmap")) = Cardinality(Of(list, "unmap"))
        /\ Cardinality(Failing(z)) =
             IF r.ret < 0 THEN Cardinality(Failing(list)) + 1 ELSE Cardinality(Failing(list))
        /\ Cardinality(Lost(z)) = Cardinality(Lost(list))
        /\ Heights(z) = Heights(list) \cup {r.tail.count}
        /\ Weights(z) = Weights(list) \cup {r.tail.bytes}
    BY <1>0, MoreMaps
  <2>3. Heights(list) \subseteq Int /\ Weights(list) \subseteq Int
    BY <1>0, HeightsType
  <2>4. Count(m) \in Int
    BY CountIsNat
  <2>5. Top(s.peakCount, Heights(list) \cup {Count(m)})
    BY <1>2, <2>1, <2>3, <2>4, TopMore
  <2>6. Top(s.peakBytes, Weights(list) \cup {b})
    BY <1>2, <2>1, <2>3, TopMore
  <2>7. Top(u.peakCount, Heights(z)) /\ Top(u.peakBytes, Weights(z))
    BY <1>3, <2>2, <2>5, <2>6
  <2> QED
    BY <1>3, <2>1, <2>2, <2>7, AddsUpIs
<1>5. Follows(Reader!Replay(list), m, b, u)
  BY <1>2, <1>3 DEF Follows
<1> QED
  BY <1>1, <1>2, <1>3, <1>4, <1>5 DEF Agrees

LEMMA AgreesUnmap ==
  ASSUME NEW list, NEW r, NEW z, Longer(z, list, r),
         NEW m \in LiveSets, NEW b \in Int, NEW s \in Totals, Agrees(list, m, b, s),
         r.event = "unmap", r.addr \in LiveAddrs(m), r.matched,
         NEW w, w = [m EXCEPT ![r.addr] = NoEntry],
         NEW u, u = UnmapTotals(s)
  PROVE  Agrees(z, w, b - m[r.addr], u)
<1>0. r \in Text /\ list \in Seq(Text)
  BY DEF Longer
<1> DEFINE old == Reader!Replay(list)
           new == Reader!Replay(z)
<1>1. Reading(old) /\ new = Reader!CorrelateRecord(old, r)
  BY ReplayLonger
<1>2. Follows(old, m, b, s) /\ AddsUp(s, list) /\ Count(m) <= s.peakCount /\ b <= s.peakBytes
  BY DEF Agrees
<1> HIDE DEF old, new
<1>3. /\ Reading(new)
      /\ DOMAIN new.live = DOMAIN old.live \ {r.addr}
      /\ \A a \in DOMAIN new.live : new.live[a].size = old.live[a].size
      /\ new.bytes = old.bytes - old.live[r.addr].size
      /\ new.peakCount = old.peakCount /\ new.peakBytes = old.peakBytes
      /\ new.unmatched = old.unmatched
  BY <1>0, <1>1, <1>2, ReadUnmap DEF Follows
<1>4. LiveAddrs(w) = LiveAddrs(m) \ {r.addr}
  BY DEF LiveAddrs, LiveSets
<1>5. /\ u.maps = s.maps /\ u.unmaps = s.unmaps + 1 /\ u.failures = s.failures
      /\ u.unmatched = s.unmatched /\ u.peakCount = s.peakCount
      /\ u.peakBytes = s.peakBytes
  BY DEF Totals, UnmapTotals
<1>6. m[r.addr] \in Nat
  BY SizesAre
<1>7. Follows(new, w, b - m[r.addr], u)
  <2>1. DOMAIN new.live = LiveAddrs(w)
    BY <1>2, <1>3, <1>4 DEF Follows
  <2>2. \A a \in LiveAddrs(w) : new.live[a].size = w[a]
    BY <1>2, <1>3, <1>4, <2>1 DEF Follows, LiveAddrs, LiveSets
  <2>3. old.bytes \in Int /\ old.live[r.addr].size = m[r.addr]
    BY <1>1, <1>2 DEF Reading, Follows
  <2>4. new.bytes <= b - m[r.addr]
    BY <1>2, <1>3, <1>6, <2>3 DEF Follows
  <2> QED
    BY <1>2, <1>3, <1>5, <2>1, <2>2, <2>4 DEF Follows
<1>8. AddsUp(u, z)
  <2>1. /\ s.maps = Cardinality(Of(list, "map")) /\ s.unmaps = Cardinality(Of(list, "unmap"))
        /\ s.failures = Cardinality(Failing(list)) /\ s.unmatched = Cardinality(Lost(list))
        /\ Top(s.peakCount, Heights(list)) /\ Top(s.peakBytes, Weights(list))
    BY <1>2, AddsUpIs
  <2>2. /\ Cardinality(Of(z, "map")) = Cardinality(Of(list, "map"))
        /\ Cardinality(Of(z, "unmap")) = Cardinality(Of(list, "unmap")) + 1
        /\ Cardinality(Failing(z)) = Cardinality(Failing(list))
        /\ Cardinality(Lost(z)) = Cardinality(Lost(list))
        /\ Heights(z) = Heights(list) /\ Weights(z) = Weights(list)
    BY MoreUnmaps
  <2> QED
    BY <1>5, <2>1, <2>2, AddsUpIs
<1>9. Count(w) <= u.peakCount /\ b - m[r.addr] <= u.peakBytes
  <2>1. IsFiniteSet(LiveAddrs(m)) /\ r.addr \in LiveAddrs(m)
    BY LiveFinite
  <2>2. Count(w) = Count(m) - 1
    BY <1>4, <2>1, FS_RemoveElement DEF Count
  <2>3. Count(m) \in Nat /\ s.peakCount \in Nat /\ s.peakBytes \in Int
    BY CountIsNat DEF Totals
  <2> QED
    BY <1>2, <1>5, <1>6, <2>2, <2>3
<1> QED
  BY <1>7, <1>8, <1>9 DEF Agrees, new

LEMMA AgreesUnmatched ==
  ASSUME NEW list, NEW r, NEW z, Longer(z, list, r),
         NEW m \in LiveSets, NEW b \in Int, NEW s \in Totals, Agrees(list, m, b, s),
         r.event = "unmap", r.addr \notin LiveAddrs(m), ~r.matched,
         NEW u, u = UnmatchedTotals(s)
  PROVE  Agrees(z, m, b, u)
<1>0. r \in Text /\ list \in Seq(Text)
  BY DEF Longer
<1> DEFINE old == Reader!Replay(list)
           new == Reader!Replay(z)
<1>1. Reading(old) /\ new = Reader!CorrelateRecord(old, r)
  BY ReplayLonger
<1>2. Follows(old, m, b, s) /\ AddsUp(s, list) /\ Count(m) <= s.peakCount /\ b <= s.peakBytes
  BY DEF Agrees
<1> HIDE DEF old, new
<1>3. new = [old EXCEPT !.unmatched = old.unmatched + 1]
  BY <1>0, <1>1, <1>2, ReadUnmatched DEF Follows
<1>4. /\ new.live = old.live /\ new.bytes = old.bytes /\ new.peakBytes = old.peakBytes
      /\ new.peakCount = old.peakCount /\ new.unmatched = old.unmatched + 1
  BY <1>1, <1>3 DEF Reading, Fields
<1>5. /\ u.maps = s.maps /\ u.unmaps = s.unmaps + 1 /\ u.failures = s.failures
      /\ u.unmatched = s.unmatched + 1 /\ u.peakCount = s.peakCount
      /\ u.peakBytes = s.peakBytes
  BY DEF Totals, UnmatchedTotals
<1>6. Follows(new, m, b, u)
  BY <1>2, <1>4, <1>5 DEF Follows
<1>7. AddsUp(u, z)
  <2>1. /\ s.maps = Cardinality(Of(list, "map")) /\ s.unmaps = Cardinality(Of(list, "unmap"))
        /\ s.failures = Cardinality(Failing(list)) /\ s.unmatched = Cardinality(Lost(list))
        /\ Top(s.peakCount, Heights(list)) /\ Top(s.peakBytes, Weights(list))
    BY <1>2, AddsUpIs
  <2>2. /\ Cardinality(Of(z, "map")) = Cardinality(Of(list, "map"))
        /\ Cardinality(Of(z, "unmap")) = Cardinality(Of(list, "unmap")) + 1
        /\ Cardinality(Failing(z)) = Cardinality(Failing(list))
        /\ Cardinality(Lost(z)) = Cardinality(Lost(list)) + 1
        /\ Heights(z) = Heights(list) /\ Weights(z) = Weights(list)
    BY MoreUnmaps
  <2> QED
    BY <1>5, <2>1, <2>2, AddsUpIs
<1> QED
  BY <1>2, <1>5, <1>6, <1>7 DEF Agrees, new

LEMMA AgreesOther ==
  ASSUME NEW list, NEW r, NEW z, Longer(z, list, r),
         NEW m, NEW b, NEW s, Agrees(list, m, b, s),
         r.event \notin {"map", "unmap"}
  PROVE  Agrees(z, m, b, s)
<1>0. r \in Text
  BY DEF Longer
<1>1. Reader!Replay(z) = Reader!Replay(list)
  BY <1>0, ReplayLonger, ReadOther
<1>2. AddsUp(s, z)
  BY AddsUpIs, MoreOther DEF Agrees
<1> QED
  BY <1>1, <1>2 DEF Agrees

-----------------------------------------------------------------------------
(* The file.                                                               *)

ReadFile(file, n) == Reader!Replay(Reader!Load(SubSeq(file, 1, n)))

LEMMA CorrelateFileIs ==
  ASSUME NEW n
  PROVE  CorrelateFile(n) = ReadFile(log, n) /\ CorrelateFile(n)' = ReadFile(log', n)
BY DEF CorrelateFile, ReadFile

\* A reader of a file without torn lines replays the records in it.
LEMMA ReadWhole ==
  ASSUME NEW C, NEW file \in Seq(C), NEW n \in 0 .. Len(file),
         \A k \in DOMAIN file : file[k].whole = TRUE
  PROVE  ReadFile(file, n) = Reader!Replay(Recs(file, n))
<1> DEFINE part == SubSeq(file, 1, n)
<1>1. /\ part \in Seq(C) /\ Len(part) = n
      /\ \A k \in 1 .. n : part[k] = file[k] /\ k \in DOMAIN file
  OBVIOUS
<1> HIDE DEF part
<1>2. \A k \in 1 .. Len(part) : part[k].whole = TRUE
  BY <1>1
<1>3. Reader!Load(part) = Recs(part, n)
  BY <1>1, <1>2, LoadWhole
<1>4. Recs(part, n) = Recs(file, n)
  BY <1>1 DEF Recs
<1> QED
  BY <1>3, <1>4 DEF ReadFile, part

LEMMA ChunksAre ==
  ASSUME NEW file \in Seq(Chunks)
  PROVE  /\ DOMAIN file = 1 .. Len(file) /\ Len(file) \in Nat
         /\ \A n \in DOMAIN file : file[n].rec \in Text /\ file[n].whole \in BOOLEAN
<1>1. DOMAIN file = 1 .. Len(file) /\ Len(file) \in Nat
  OBVIOUS
<1>2. \A n \in DOMAIN file : file[n] \in Chunks
  OBVIOUS
<1> QED
  BY <1>1, <1>2 DEF Chunks, Text

RecordsIn(file) == [n \in DOMAIN file |-> file[n].rec]

LEMMA RecordsInType ==
  ASSUME NEW file \in Seq(Chunks)
  PROVE  /\ RecordsIn(file) \in Seq(Text) /\ Len(RecordsIn(file)) = Len(file)
         /\ RecordsIn(file) = Recs(file, Len(file))
<1>1. /\ DOMAIN file = 1 .. Len(file) /\ Len(file) \in Nat
      /\ \A n \in DOMAIN file : file[n].rec \in Text
  BY ChunksAre
<1> QED
  BY <1>1 DEF RecordsIn, Recs

LEMMA RecordsInMore ==
  ASSUME NEW file \in Seq(Chunks), NEW text \in Text, NEW more,
         more = Append(file, [rec |-> text, whole |-> TRUE])
  PROVE  /\ more \in Seq(Chunks) /\ Len(more) = Len(file) + 1
         /\ \A n \in DOMAIN file : more[n] = file[n]
         /\ more[Len(more)] = [rec |-> text, whole |-> TRUE]
         /\ RecordsIn(more) = Append(RecordsIn(file), text)
<1> DEFINE chunk == [rec |-> text, whole |-> TRUE]
<1>1. chunk \in Chunks /\ chunk.rec = text
  BY DEF Chunks, Text
<1> HIDE DEF chunk
<1>2. /\ DOMAIN file = 1 .. Len(file) /\ Len(file) \in Nat
      /\ \A n \in DOMAIN file : file[n].rec \in Text
  BY ChunksAre
<1>3. /\ more \in Seq(Chunks) /\ Len(more) = Len(file) + 1
      /\ \A n \in DOMAIN file : more[n] = file[n]
      /\ more[Len(more)] = chunk
  BY <1>1 DEF chunk
<1>4. RecordsIn(file) \in Seq(Text) /\ Len(RecordsIn(file)) = Len(file)
  BY RecordsInType
<1>5. RecordsIn(more) = Append(RecordsIn(file), text)
  <2> DEFINE z == Append(RecordsIn(file), text)
  <2>1. /\ z \in Seq(Text) /\ Len(z) = Len(file) + 1 /\ z[Len(file) + 1] = text
        /\ \A n \in 1 .. Len(file) : z[n] = RecordsIn(file)[n]
    BY <1>4
  <2> HIDE DEF z
  <2>2. RecordsIn(more) \in Seq(Text) /\ Len(RecordsIn(more)) = Len(file) + 1
    BY <1>3, RecordsInType
  <2>3. \A n \in 1 .. Len(file) + 1 : RecordsIn(more)[n] = more[n].rec
    <3>1. DOMAIN more = 1 .. Len(file) + 1
      BY <1>3, ChunksAre
    <3> QED
      BY <3>1 DEF RecordsIn
  <2>4. \A n \in 1 .. Len(file) : RecordsIn(more)[n] = z[n]
    BY <1>2, <1>3, <2>1, <2>3 DEF RecordsIn
  <2>5. RecordsIn(more)[Len(file) + 1] = z[Len(file) + 1]
    <3>1. Len(file) + 1 \in 1 .. Len(file) + 1
      BY <1>2
    <3>2. more[Len(file) + 1].rec = text
      BY <1>1, <1>3
    <3> QED
      BY <2>1, <2>3, <3>1, <3>2
  <2>6. \A n \in 1 .. Len(file) + 1 : n \in 1 .. Len(file) \/ n = Len(file) + 1
    BY <1>2
  <2>7. \A n \in 1 .. Len(z) : RecordsIn(more)[n] = z[n]
    BY <2>1, <2>4, <2>5, <2>6
  <2>8. RecordsIn(more) = z
    BY <2>1, <2>2, <2>7, SeqEqual
  <2> QED
    BY <2>8 DEF z
<1> QED
  BY <1>3, <1>5 DEF chunk

\* What was read of the first n lines is read when there are more.
LEMMA ReadFirst ==
  ASSUME NEW file \in Seq(Chunks), NEW text \in Text, NEW more,
         more = Append(file, [rec |-> text, whole |-> TRUE]),
         \A k \in DOMAIN file : file[k].whole = TRUE,
         NEW n \in 1 .. Len(file)
  PROVE  ReadFile(more, n) = ReadFile(file, n)
<1>1. /\ more \in Seq(Chunks) /\ Len(more) = Len(file) + 1
      /\ \A k \in DOMAIN file : more[k] = file[k]
      /\ more[Len(more)] = [rec |-> text, whole |-> TRUE]
  BY RecordsInMore
<1>2. Len(file) \in Nat /\ DOMAIN file = 1 .. Len(file) /\ DOMAIN more = 1 .. Len(file) + 1
  BY <1>1, ChunksAre
<1>3. \A k \in DOMAIN more : k \in DOMAIN file \/ k = Len(more)
  BY <1>1, <1>2
<1>4. \A k \in DOMAIN more : more[k].whole = TRUE
  BY <1>1, <1>3
<1>5. n \in 0 .. Len(more) /\ n \in 0 .. Len(file)
  BY <1>1, <1>2
<1>6. ReadFile(more, n) = Reader!Replay(Recs(more, n))
  BY <1>1, <1>4, <1>5, ReadWhole
<1>7. ReadFile(file, n) = Reader!Replay(Recs(file, n))
  BY <1>5, ReadWhole
<1>8. Recs(more, n) = Recs(file, n)
  BY <1>1, <1>2 DEF Recs
<1> QED
  BY <1>6, <1>7, <1>8

\* All of a file.
LEMMA ReadAll ==
  ASSUME NEW file \in Seq(Chunks), \A k \in DOMAIN file : file[k].whole = TRUE
  PROVE  ReadFile(file, Len(file)) = Reader!Replay(RecordsIn(file))
<1>1. Len(file) \in 0 .. Len(file)
  BY ChunksAre
<1> QED
  BY <1>1, ReadWhole, RecordsInType

\* The live set that a reader arrives at.
LiveOf(w) == [a \in Addrs |-> IF a \in DOMAIN w.live THEN w.live[a].size ELSE NoEntry]

LEMMA LiveOfIs ==
  ASSUME NEW w, NEW m \in LiveSets, NEW b, NEW s, Follows(w, m, b, s)
  PROVE  LiveOf(w) = m
<1>1. \A a \in Addrs : LiveOf(w)[a] = m[a]
  BY DEF Follows, LiveOf, LiveAddrs
<1>2. DOMAIN LiveOf(w) = Addrs
  BY DEF LiveOf
<1>3. LiveOf(w) = [a \in Addrs |-> LiveOf(w)[a]]
  BY DEF LiveOf
<1>4. m = [a \in Addrs |-> m[a]]
  BY DEF LiveSets
<1> QED
  BY <1>1, <1>3, <1>4

LEMMA ReplayIs ==
  ASSUME NEW n
  PROVE  Replay(n) = LiveOf(ReadFile(log, n)) /\ Replay(n)' = LiveOf(ReadFile(log', n))
BY DEF Replay, LiveOf, CorrelateFile, ReadFile

LEMMA RecordsAre ==
  ASSUME TypeOK
  PROVE  /\ log \in Seq(Chunks) /\ Records = RecordsIn(log) /\ Records \in Seq(Text)
         /\ DOMAIN log = 1 .. Len(log) /\ Len(log) \in Nat
         /\ \A n \in DOMAIN log : log[n].whole \in BOOLEAN
<1>1. log \in Seq(Chunks)
  BY DEF TypeOK, FileTypes
<1> QED
  BY <1>1, ChunksAre, RecordsInType DEF Records, RecordsIn

LEMMA RecordsNext == Records' = RecordsIn(log')
BY DEF Records, RecordsIn

\* The thread inside is the only one that can be writing.
LEMMA WritingOne ==
  ASSUME TypeOK, LockInv, NEW t \in Threads, InSection(t)
  PROVE  /\ pc[t] = "recorded" => Writing = {t}
         /\ pc[t] # "recorded" => Writing = {}
BY DEF LockInv, InSection, Writing

-----------------------------------------------------------------------------
(* The lines that wait, and those that are written.                        *)

LEMMA LineInit == Init => LineInv
BY DEF Init, LineInv

LEMMA LineFrame ==
  ASSUME LineInv, UNCHANGED <<line, log, faults>>, fd' = fd,
         \A t \in Threads : pc[t] = "recorded" => pc'[t] = "recorded"
  PROVE  LineInv'
BY DEF LineInv

LEMMA WrittenLines ==
  ASSUME TypeOK, LineInv, NEW text \in Text, Written(text), faults' = 0
  PROVE  \A n \in DOMAIN log' : log'[n].whole
<1>1. faults = 0 /\ log' = Append(log, [rec |-> text, whole |-> TRUE])
  BY WrittenWhole
<1>2. log \in Seq(Chunks) /\ DOMAIN log = 1 .. Len(log) /\ Len(log) \in Nat
  BY RecordsAre
<1>3. /\ log' \in Seq(Chunks) /\ Len(log') = Len(log) + 1
      /\ \A n \in DOMAIN log : log'[n] = log[n]
      /\ log'[Len(log')] = [rec |-> text, whole |-> TRUE]
  BY <1>1, <1>2, RecordsInMore
<1>4. \A n \in DOMAIN log' : n \in DOMAIN log \/ n = Len(log')
  <2>1. DOMAIN log' = 1 .. Len(log')
    BY <1>3, ChunksAre
  <2> QED
    BY <1>2, <1>3, <2>1
<1>5. \A n \in DOMAIN log : log[n].whole
  BY <1>1 DEF LineInv
<1> QED
  BY <1>3, <1>4, <1>5

LEMMA FinalText ==
  ASSUME TypeOK
  PROVE  /\ Summary \in Text
         /\ \A a \in Addrs : [event |-> "live_at_exit", addr |-> a, size |-> live[a]] \in Text
<1>1. Summary \in Text
  BY CountIsNat DEF Summary, Text, FinalLines, TypeOK, GTypes
<1>2. ASSUME NEW a \in Addrs
      PROVE  [event |-> "live_at_exit", addr |-> a, size |-> live[a]] \in Text
  <2>1. live[a] \in Sizes \cup {0, NoEntry}
    BY DEF TypeOK, GTypes
  <2> QED
    BY <2>1 DEF Text, FinalLines
<1> QED
  BY <1>1, <1>2

LEMMA RecordLine ==
  ASSUME TypeOK, LockInv, LineInv, NEW t \in Threads, NEW op, NEW text, Record(t, op, text)
  PROVE  LineInv'
<1>1. /\ pc[t] = "locked" /\ pc' = [pc EXCEPT ![t] = "recorded"]
      /\ line' = [line EXCEPT ![t] = IF fd' THEN text ELSE NoLine]
      /\ EnsureInit /\ UNCHANGED <<log, faults>>
  BY DEF Record
<1>2. pc \in [Threads -> PCs] /\ line \in [Threads -> EventLines \cup {NoLine}]
  BY DEF TypeOK, ThreadTypes
\* Nobody else is inside, so no other line waits.
<1>3. \A u \in Threads : pc[u] # "recorded"
  BY <1>1, WritingOne DEF InSection, Writing
<1>4. \A u \in Threads : line[u] = NoLine
  BY <1>3 DEF LineInv
<1>5. \A u \in Threads : line'[u] # NoLine => u = t /\ fd' /\ pc'[u] = "recorded"
  BY <1>1, <1>2, <1>4
<1> QED
  BY <1>1, <1>5 DEF LineInv

LEMMA LineStep == TypeOK /\ LockInv /\ LineInv /\ [Next]_vars => LineInv'
<1> SUFFICES ASSUME TypeOK, LockInv, LineInv, [Next]_vars
             PROVE  LineInv'
  OBVIOUS
<1>1. /\ pc \in [Threads -> PCs] /\ line \in [Threads -> EventLines \cup {NoLine}]
      /\ Main \in Threads
  BY CpAssumption DEF TypeOK, ThreadTypes
<1>2. ASSUME NEW t \in Threads, OsCall(t)
      PROVE  LineInv'
  <2>1. /\ UNCHANGED <<line, log, faults>> /\ fd' = fd
        /\ pc[t] = "idle" /\ pc' = [pc EXCEPT ![t] = "called"]
    BY <1>2 DEF OsCall, MapShared, MapFresh, UnmapWorks, UnmapFails, MapFails, UnmapNull,
                Called, g
  <2> QED
    BY <1>1, <2>1, LineFrame
<1>3. ASSUME NEW t \in Threads, Lock(t)
      PROVE  LineInv'
  <2>1. /\ UNCHANGED <<line, log, faults>> /\ fd' = fd
        /\ pc[t] = "called" /\ pc' = [pc EXCEPT ![t] = "locked"]
    BY <1>3 DEF Lock, g
  <2> QED
    BY <1>1, <2>1, LineFrame
<1>4. ASSUME NEW t \in Threads,
             \/ RecordMap(t) \/ RecordMapFailed(t)
             \/ RecordUnmap(t) \/ RecordUnmatched(t)
      PROVE  LineInv'
  BY <1>4, RecordLine DEF RecordMap, RecordMapFailed, RecordUnmap, RecordUnmatched
<1>5. ASSUME NEW t \in Threads, Finish(t)
      PROVE  LineInv'
  <2>1. /\ pc' = [pc EXCEPT ![t] = "idle"] /\ line' = [line EXCEPT ![t] = NoLine]
        /\ fd' = fd
        /\ IF line[t] # NoLine THEN Written(line[t]) ELSE UNCHANGED <<log, faults>>
    BY <1>5 DEF Finish, g
  <2>2. \A u \in Threads : line'[u] # NoLine => fd' /\ pc'[u] = "recorded"
    BY <1>1, <2>1 DEF LineInv
  <2>3. line[t] # NoLine => line[t] \in Text
    BY <1>1 DEF Text
  <2>4. faults' = 0 => \A n \in DOMAIN log' : log'[n].whole
    BY <2>1, <2>3, WrittenLines DEF LineInv
  <2> QED
    BY <2>2, <2>4 DEF LineInv
<1>6. CASE Exit \/ ExitLock \/ ExitSilent \/ Gone
  <2>1. UNCHANGED <<line, log, faults>> /\ fd' = fd
    BY <1>6 DEF Exit, ExitLock, ExitSilent, Gone, g
  <2>2. /\ pc[Main] # "recorded"
        /\ \E p \in {"exit", "report", "closed", "gone"} : pc' = [pc EXCEPT ![Main] = p]
    BY <1>6 DEF Exit, ExitLock, ExitSilent, Gone
  <2> QED
    BY <1>1, <2>1, <2>2, LineFrame
<1>7. ASSUME NEW a \in Addrs, ExitLine(a)
      PROVE  LineInv'
  <2> DEFINE text == [event |-> "live_at_exit", addr |-> a, size |-> live[a]]
  <2>1. Written(text) /\ UNCHANGED <<pc, line>> /\ fd' = fd
    BY <1>7 DEF ExitLine, g
  <2>2. text \in Text
    BY FinalText
  <2> HIDE DEF text
  <2>3. faults' = 0 => \A n \in DOMAIN log' : log'[n].whole
    BY <2>1, <2>2, WrittenLines
  <2> QED
    BY <2>1, <2>3 DEF LineInv
<1>8. CASE ExitSummary
  <2>1. Written(Summary) /\ line' = line /\ pc[Main] = "report"
    BY <1>8 DEF ExitSummary
  <2>2. faults' = 0 => \A n \in DOMAIN log' : log'[n].whole
    BY <2>1, FinalText, WrittenLines
  <2>3. \A u \in Threads : pc[u] # "recorded"
    BY <1>1, <2>1, WritingOne DEF InSection, Writing
  <2>4. \A u \in Threads : line'[u] = NoLine
    BY <2>1, <2>3 DEF LineInv
  <2> QED
    BY <2>2, <2>4 DEF LineInv
<1>9. CASE UNCHANGED vars
  <2>1. UNCHANGED <<line, log, faults, pc>> /\ fd' = fd
    BY <1>9 DEF vars, g
  <2> QED
    BY <2>1, LineFrame
<1> QED
  BY <1>2, <1>3, <1>4, <1>5, <1>6, <1>7, <1>8, <1>9 DEF Next, Exiting, Profile

-----------------------------------------------------------------------------
(* What the file tells: a reader has what the profiler has.                *)

Telling(list, m, b, s, text) ==
  /\ Agrees(Append(list, text), m, b, s)
  /\ text.tail.count = Count(m) /\ text.tail.bytes = b

LEMMA ToldInvIs ==
  ToldInv <=>
    ((fd \/ ~inited) /\ faults = 0 =>
       /\ Writing = {} => Agrees(Records, live, bytes, stats)
       /\ \A t \in Writing : Telling(Records, live, bytes, stats, line[t]))
BY ToldIs DEF ToldInv, Telling

LEMMA ToldInvNext ==
  ToldInv' <=>
    ((fd' \/ ~inited') /\ faults' = 0 =>
       /\ Writing' = {} => Agrees(Records', live', bytes', stats')
       /\ \A t \in Writing' : Telling(Records', live', bytes', stats', line'[t]))
BY DEF ToldInv, Told, Tracks, AddsUp, Agrees, Follows, Telling

LEMMA ToldInit == Init => ToldInv
<1> SUFFICES ASSUME Init
             PROVE  ToldInv
  OBVIOUS
<1>1. Writing = {}
  BY DEF Init, Writing
<1>2. Records = << >> /\ DOMAIN << >> = {}
  BY DEF Init, Records
<1>3. LiveAddrs(live) = {} /\ bytes = 0 /\ stats = NoStats
  BY DEF Init, LiveAddrs
<1>4. Cardinality({}) = 0
  BY FS_EmptySet
<1>5. Follows(Reader!NoRecords, live, bytes, stats)
  BY <1>3 DEF Follows, Reader!NoRecords, NoStats
<1>6. AddsUp(stats, << >>)
  <2>1. /\ Of(<< >>, "map") = {} /\ Of(<< >>, "unmap") = {} /\ Failing(<< >>) = {}
        /\ Lost(<< >>) = {} /\ Heights(<< >>) = {0} /\ Weights(<< >>) = {0}
    BY <1>2 DEF Of, Failing, Lost, Heights, Weights
  <2>2. Top(0, {0})
    BY DEF Top
  <2> QED
    BY <1>3, <1>4, <2>1, <2>2, AddsUpIs DEF NoStats
<1>7. Count(live) = 0 /\ stats.peakCount = 0 /\ stats.peakBytes = 0
  BY <1>3, <1>4 DEF Count, NoStats
<1>8. Agrees(Records, live, bytes, stats)
  BY <1>2, <1>3, <1>5, <1>6, <1>7, ReplayNone DEF Agrees
<1> QED
  BY <1>1, <1>8, ToldInvIs

LEMMA ToldFrame ==
  ASSUME ToldInv, UNCHANGED <<log, faults, inited, live, bytes, stats, line>>, fd' = fd,
         Writing' = Writing
  PROVE  ToldInv'
<1>1. Records' = Records
  BY DEF Records
<1> QED
  BY <1>1, ToldInvIs, ToldInvNext

LEMMA ToldRecord ==
  ASSUME TypeOK, LockInv, ToldInv, NEW t \in Threads, NEW op, NEW text,
         Record(t, op, text),
         Agrees(Records, live, bytes, stats) => Telling(Records, live', bytes', stats', text)
  PROVE  ToldInv'
<1>1. pc \in [Threads -> PCs] /\ line \in [Threads -> EventLines \cup {NoLine}]
      /\ inited \in BOOLEAN
  BY DEF TypeOK, ThreadTypes, GTypes
<1>2. /\ pc[t] = "locked" /\ pc' = [pc EXCEPT ![t] = "recorded"]
      /\ line' = [line EXCEPT ![t] = IF fd' THEN text ELSE NoLine]
      /\ EnsureInit /\ UNCHANGED <<log, faults>>
  BY DEF Record
<1>3. Writing = {}
  BY <1>2, WritingOne DEF InSection
<1>4. Writing' = {t}
  BY <1>1, <1>2, <1>3 DEF Writing
<1>5. Records' = Records
  BY <1>2 DEF Records
<1>6. ASSUME fd' \/ ~inited', faults' = 0
      PROVE  Telling(Records', live', bytes', stats', line'[t])
  <2>1. fd' /\ (fd \/ ~inited) /\ faults = 0
    BY <1>1, <1>2, <1>6 DEF EnsureInit
  <2>2. line'[t] = text
    BY <1>1, <1>2, <2>1
  <2>3. Agrees(Records, live, bytes, stats)
    BY <1>3, <2>1, ToldInvIs
  <2> QED
    BY <1>5, <2>2, <2>3
<1> QED
  BY <1>4, <1>6, ToldInvNext

\* The records of the four cases.
LEMMA EventText ==
  ASSUME TypeOK, TypeOK', NEW t \in Threads
  PROVE  /\ MapLine(t) \in Text /\ UnmapLine(t) \in Text
         /\ Longer(Append(Records, MapLine(t)), Records, MapLine(t))
         /\ Longer(Append(Records, UnmapLine(t)), Records, UnmapLine(t))
<1>1. bytes' \in Int /\ tid' \in [Threads -> Nat]
  BY DEF TypeOK, GTypes, ThreadTypes
<1>2. MapLine(t) \in Text /\ UnmapLine(t) \in Text
  BY <1>1, MapLineType, UnmapLineType DEF Text
<1> QED
  BY <1>2, RecordsAre DEF Longer

LEMMA ToldEvent ==
  ASSUME TypeOK, TypeOK', LockInv, ToldInv, NEW t \in Threads,
         \/ RecordMap(t) \/ RecordMapFailed(t)
         \/ RecordUnmap(t) \/ RecordUnmatched(t)
  PROVE  ToldInv'
<1>1. /\ live \in LiveSets /\ bytes \in Int /\ stats \in Totals /\ call[t] \in Calls
      /\ NULL \notin Addrs
  BY CpAssumption DEF TypeOK, GTypes, ThreadTypes, LiveSets
<1>2. CASE RecordMap(t)
  <2> DEFINE r == MapLine(t)
             z == Append(Records, r)
  <2>1. /\ r.event = "map" /\ r.ret = call[t].ret /\ r.addr = call[t].addr
        /\ r.size = call[t].size /\ r.tail.count = Count(live') /\ r.tail.bytes = bytes'
    BY DEF MapLine, CommonTail
  <2>2. /\ r.ret >= 0 /\ r.addr # NULL
        /\ live' = [live EXCEPT ![r.addr] = r.size] /\ bytes' = bytes + r.size
        /\ stats' = [stats EXCEPT !.maps = @ + 1,
                                  !.peakCount = Larger(@, Count(live')),
                                  !.peakBytes = Larger(@, bytes')]
        /\ Record(t, "map", r)
    BY <1>2, <2>1 DEF RecordMap
  <2>3. r.addr \in Addrs /\ r.size \in Sizes \cup {0}
    BY <1>1, <2>1, <2>2 DEF Calls
  <2>4. Longer(z, Records, r)
    BY EventText
  <2> HIDE DEF r, z
  <2>5. Agrees(Records, live, bytes, stats) => Agrees(z, live', bytes', stats')
    <3> DEFINE w == live'
               p == bytes'
               u == stats'
    <3>1. MapsTo(r, live, bytes, w, p) /\ u = MapTotals(stats, Count(w), p)
      BY <2>1, <2>2, <2>3 DEF MapTotals, MapsTo
    <3> HIDE DEF w, p, u
    <3>2. Agrees(Records, live, bytes, stats) => Agrees(z, w, p, u)
      BY <1>1, <2>4, <3>1, AgreesMap
    <3> QED
      BY <3>2 DEF w, p, u
  <2> QED
    BY <2>1, <2>2, <2>5, ToldRecord DEF Telling, z
<1>3. CASE RecordMapFailed(t)
  <2> DEFINE r == MapLine(t)
             z == Append(Records, r)
  <2>1. /\ r.event = "map" /\ r.ret = call[t].ret /\ r.addr = call[t].addr
        /\ r.tail.count = Count(live') /\ r.tail.bytes = bytes'
    BY DEF MapLine, CommonTail
  <2>2. /\ ~(r.ret >= 0 /\ r.addr # NULL) /\ live' = live /\ bytes' = bytes
        /\ stats' = [stats EXCEPT !.maps = @ + 1,
                                  !.failures = IF r.ret < 0 THEN @ + 1 ELSE @]
        /\ Record(t, "map", r)
    BY <1>3, <2>1 DEF RecordMapFailed
  <2>3. Longer(z, Records, r)
    BY EventText
  <2> HIDE DEF r, z
  <2>4. Agrees(Records, live, bytes, stats) => Agrees(z, live, bytes, stats')
    <3> DEFINE u == stats'
    <3>1. /\ u = FailTotals(stats, r.ret)
          /\ r.tail.count = Count(live) /\ r.tail.bytes = bytes
      BY <2>1, <2>2 DEF FailTotals
    <3> HIDE DEF u
    <3>2. Agrees(Records, live, bytes, stats) => Agrees(z, live, bytes, u)
      BY <1>1, <2>1, <2>2, <2>3, <3>1, AgreesMapFailed
    <3> QED
      BY <3>2 DEF u
  <2> QED
    BY <2>1, <2>2, <2>4, ToldRecord DEF Telling, z
<1>4. CASE RecordUnmap(t)
  <2> DEFINE r == UnmapLine(t)
             z == Append(Records, r)
  <2>1. /\ r.event = "unmap" /\ r.addr = call[t].addr /\ (r.matched <=> Found(call[t].addr))
        /\ r.tail.count = Count(live') /\ r.tail.bytes = bytes'
    BY DEF UnmapLine, CommonTail
  <2>2. /\ Found(r.addr) /\ live' = [live EXCEPT ![r.addr] = NoEntry]
        /\ bytes' = bytes - live[r.addr] /\ stats' = [stats EXCEPT !.unmaps = @ + 1]
        /\ Record(t, "unmap", r)
    BY <1>4, <2>1 DEF RecordUnmap
  <2>3. r.addr \in LiveAddrs(live) /\ r.matched
    BY <2>1, <2>2 DEF Found, LiveAddrs
  <2>4. Longer(z, Records, r)
    BY EventText
  <2> HIDE DEF r, z
  <2>5. Agrees(Records, live, bytes, stats) => Agrees(z, live', bytes', stats')
    <3> DEFINE w == live'
               u == stats'
    <3>1. w = [live EXCEPT ![r.addr] = NoEntry] /\ u = UnmapTotals(stats)
      BY <2>2 DEF UnmapTotals
    <3> HIDE DEF w, u
    <3>2. Agrees(Records, live, bytes, stats) => Agrees(z, w, bytes - live[r.addr], u)
      BY <1>1, <2>1, <2>3, <2>4, <3>1, AgreesUnmap
    <3> QED
      BY <2>2, <3>2 DEF w, u
  <2> QED
    BY <2>1, <2>2, <2>5, ToldRecord DEF Telling, z
<1>5. CASE RecordUnmatched(t)
  <2> DEFINE r == UnmapLine(t)
             z == Append(Records, r)
  <2>1. /\ r.event = "unmap" /\ r.addr = call[t].addr /\ (r.matched <=> Found(call[t].addr))
        /\ r.tail.count = Count(live') /\ r.tail.bytes = bytes'
    BY DEF UnmapLine, CommonTail
  <2>2. /\ ~Found(r.addr) /\ live' = live /\ bytes' = bytes
        /\ stats' = [stats EXCEPT !.unmaps = @ + 1, !.unmatched = @ + 1]
        /\ Record(t, "unmap", r)
    BY <1>5, <2>1 DEF RecordUnmatched
  <2>3. r.addr \notin LiveAddrs(live) /\ ~r.matched
    BY <2>1, <2>2 DEF Found, LiveAddrs
  <2>4. Longer(z, Records, r)
    BY EventText
  <2> HIDE DEF r, z
  <2>5. Agrees(Records, live, bytes, stats) => Agrees(z, live, bytes, stats')
    <3> DEFINE u == stats'
    <3>1. u = UnmatchedTotals(stats)
      BY <2>2 DEF UnmatchedTotals
    <3> HIDE DEF u
    <3>2. Agrees(Records, live, bytes, stats) => Agrees(z, live, bytes, u)
      BY <1>1, <2>1, <2>3, <2>4, <3>1, AgreesUnmatched
    <3> QED
      BY <3>2 DEF u
  <2> QED
    BY <2>1, <2>2, <2>5, ToldRecord DEF Telling, z
<1> QED
  BY <1>2, <1>3, <1>4, <1>5

\* A line that is written whole is one record more.
LEMMA WrittenRecord ==
  ASSUME TypeOK, NEW text \in Text, Written(text), faults' = 0
  PROVE  /\ faults = 0 /\ log' = Append(log, [rec |-> text, whole |-> TRUE])
         /\ Records' = Append(Records, text) /\ Longer(Records', Records, text)
<1>1. faults = 0 /\ log' = Append(log, [rec |-> text, whole |-> TRUE])
  BY WrittenWhole
<1>2. Records' = Append(Records, text)
  <2> DEFINE more == log'
  <2>1. more = Append(log, [rec |-> text, whole |-> TRUE]) /\ log \in Seq(Chunks)
    BY <1>1, RecordsAre
  <2> HIDE DEF more
  <2>2. RecordsIn(more) = Append(RecordsIn(log), text)
    BY <2>1, RecordsInMore
  <2> QED
    BY <2>2, RecordsAre, RecordsNext DEF more
<1> QED
  BY <1>1, <1>2, RecordsAre DEF Longer

LEMMA ToldFinish ==
  ASSUME TypeOK, LockInv, FileInv, ToldInv, NEW t \in Threads, Finish(t)
  PROVE  ToldInv'
<1>1. pc \in [Threads -> PCs] /\ line \in [Threads -> EventLines \cup {NoLine}]
  BY DEF TypeOK, ThreadTypes
<1>2. /\ pc[t] = "recorded" /\ pc' = [pc EXCEPT ![t] = "idle"]
      /\ UNCHANGED <<inited, live, bytes, stats>> /\ fd' = fd
      /\ IF line[t] # NoLine THEN Written(line[t]) ELSE UNCHANGED <<log, faults>>
  BY DEF Finish, g
<1>3. Writing = {t}
  BY <1>2, WritingOne DEF InSection
<1>4. Writing' = {}
  BY <1>1, <1>2, <1>3 DEF Writing
<1>5. ASSUME fd' \/ ~inited', faults' = 0
      PROVE  Agrees(Records', live', bytes', stats')
  <2>1. line[t] # NoLine => line[t] \in Text
    BY <1>1 DEF Text
  <2>2. faults = 0
    BY <1>2, <1>5, <2>1, WrittenRecord
  <2>3. fd /\ line[t] # NoLine
    BY <1>2, <1>5, <2>2 DEF FileInv
  <2>4. Records' = Append(Records, line[t])
    BY <1>2, <1>5, <2>1, <2>3, WrittenRecord
  <2>5. Agrees(Append(Records, line[t]), live, bytes, stats)
    BY <1>3, <2>2, <2>3, ToldInvIs DEF Telling
  <2> QED
    BY <1>2, <2>4, <2>5
<1> QED
  BY <1>4, <1>5, ToldInvNext

LEMMA ToldStep ==
  TypeOK /\ LockInv /\ FileInv /\ ToldInv /\ [Next]_vars => ToldInv'
<1> SUFFICES ASSUME TypeOK, TypeOK', LockInv, FileInv, ToldInv, [Next]_vars
             PROVE  ToldInv'
  BY TypeStep
<1>1. pc \in [Threads -> PCs] /\ Main \in Threads
  BY CpAssumption DEF TypeOK, ThreadTypes
<1>2. ASSUME NEW t \in Threads, NEW p, pc' = [pc EXCEPT ![t] = p],
             pc[t] # "recorded", p # "recorded"
      PROVE  Writing' = Writing
  BY <1>1, <1>2 DEF Writing
<1>3. ASSUME NEW t \in Threads, OsCall(t)
      PROVE  ToldInv'
  <2>1. /\ UNCHANGED <<log, faults, inited, live, bytes, stats, line>> /\ fd' = fd
        /\ pc[t] = "idle" /\ pc' = [pc EXCEPT ![t] = "called"]
    BY <1>3 DEF OsCall, MapShared, MapFresh, UnmapWorks, UnmapFails, MapFails, UnmapNull,
                Called, g
  <2> QED
    BY <1>2, <2>1, ToldFrame
<1>4. ASSUME NEW t \in Threads, Lock(t)
      PROVE  ToldInv'
  <2>1. /\ UNCHANGED <<log, faults, inited, live, bytes, stats, line>> /\ fd' = fd
        /\ pc[t] = "called" /\ pc' = [pc EXCEPT ![t] = "locked"]
    BY <1>4 DEF Lock, g
  <2> QED
    BY <1>2, <2>1, ToldFrame
<1>5. CASE Exit \/ ExitLock \/ ExitSilent \/ Gone
  <2>1. UNCHANGED <<log, faults, inited, live, bytes, stats, line>> /\ fd' = fd
    BY <1>5 DEF Exit, ExitLock, ExitSilent, Gone, g
  <2>2. /\ pc[Main] # "recorded"
        /\ \E p \in {"exit", "report", "closed", "gone"} : pc' = [pc EXCEPT ![Main] = p]
    BY <1>5 DEF Exit, ExitLock, ExitSilent, Gone
  <2> QED
    BY <1>1, <1>2, <2>1, <2>2, ToldFrame
<1>6. ASSUME NEW a \in Addrs, ExitLine(a)
      PROVE  ToldInv'
  <2> DEFINE text == [event |-> "live_at_exit", addr |-> a, size |-> live[a]]
  <2>1. /\ Written(text) /\ UNCHANGED <<pc, inited, live, bytes, stats>> /\ fd' = fd
        /\ pc[Main] = "report" /\ fd
    BY <1>6 DEF ExitLine, g
  <2>2. text \in Text /\ text.event \notin {"map", "unmap"}
    BY FinalText
  <2> HIDE DEF text
  <2>3. Writing = {} /\ Writing' = {}
    BY <1>1, <2>1, WritingOne DEF InSection, Writing
  <2>4. ASSUME faults' = 0
        PROVE  Agrees(Records', live', bytes', stats')
    <3>1. faults = 0 /\ Longer(Records', Records, text)
      BY <2>1, <2>2, <2>4, WrittenRecord
    <3>2. Agrees(Records, live, bytes, stats)
      BY <2>1, <2>3, <3>1, ToldInvIs
    <3> DEFINE z == Records'
    <3>3. Longer(z, Records, text)
      BY <3>1
    <3> HIDE DEF z
    <3>4. Agrees(z, live, bytes, stats)
      BY <2>2, <3>2, <3>3, AgreesOther
    <3> QED
      BY <2>1, <3>4 DEF z
  <2> QED
    BY <2>3, <2>4, ToldInvNext
<1>7. CASE ExitSummary
  \* The file is closed from here on.
  <2>1. Written(Summary) /\ fd /\ ~fd' /\ inited' = inited
    BY <1>7 DEF ExitSummary
  <2>2. ASSUME faults' = 0, ~inited'
        PROVE  FALSE
    BY <2>1, <2>2, FinalText, WrittenRecord DEF FileInv
  <2> QED
    BY <2>1, <2>2, ToldInvNext
<1>8. CASE UNCHANGED vars
  <2>1. UNCHANGED <<log, faults, inited, live, bytes, stats, line, pc>> /\ fd' = fd
    BY <1>8 DEF vars, g
  <2>2. Writing' = Writing
    BY <2>1 DEF Writing
  <2> QED
    BY <2>1, <2>2, ToldFrame
<1> QED
  BY <1>3, <1>4, <1>5, <1>6, <1>7, <1>8, ToldEvent, ToldFinish DEF Next, Exiting, Profile

LEMMA WholeLog ==
  ASSUME TypeOK, LineInv, faults = 0
  PROVE  /\ \A n \in DOMAIN log : log[n].whole = TRUE
         /\ ReadFile(log, Len(log)) = Reader!Replay(Records)
<1>1. \A n \in DOMAIN log : log[n].whole = TRUE
  BY RecordsAre DEF LineInv
<1> QED
  BY <1>1, RecordsAre, ReadAll

\* A step that leaves the file alone leaves what it tells alone.
LEMMA ReplayFrame ==
  ASSUME log' = log, NEW n
  PROVE  Replay(n)' = Replay(n) /\ CorrelateFile(n)' = CorrelateFile(n)
BY ReplayIs, CorrelateFileIs

\* So does a line more, of the lines before it.
LEMMA ReplayMoreLines ==
  ASSUME TypeOK, LineInv, faults = 0, NEW text \in Text,
         log' = Append(log, [rec |-> text, whole |-> TRUE]), NEW n \in 1 .. Len(log)
  PROVE  Replay(n)' = Replay(n)
<1> DEFINE more == log'
<1>1. more = Append(log, [rec |-> text, whole |-> TRUE]) /\ log \in Seq(Chunks)
      /\ \A k \in DOMAIN log : log[k].whole = TRUE
  BY RecordsAre, WholeLog
<1>2. Replay(n)' = LiveOf(ReadFile(more, n)) /\ Replay(n) = LiveOf(ReadFile(log, n))
  BY ReplayIs
<1> HIDE DEF more
<1>3. ReadFile(more, n) = ReadFile(log, n)
  BY <1>1, ReadFirst
<1> QED
  BY <1>2, <1>3

LEMMA ReplaysLive ==
  ASSUME TypeOK, LineInv, faults = 0, NEW m \in LiveSets, NEW b, NEW s,
         Agrees(Records, m, b, s)
  PROVE  Replay(Len(log)) = m
<1>1. Replay(Len(log)) = LiveOf(Reader!Replay(Records))
  BY WholeLog, ReplayIs
<1>2. Follows(Reader!Replay(Records), m, b, s)
  BY DEF Agrees
<1> QED
  BY <1>1, <1>2, LiveOfIs

-----------------------------------------------------------------------------
(* What each line tells.                                                   *)

\* The lines of a file that is one line longer.
LEMMA LogMore ==
  ASSUME TypeOK, NEW text \in Text, log' = Append(log, [rec |-> text, whole |-> TRUE])
  PROVE  /\ DOMAIN log' = 1 .. Len(log') /\ Len(log') = Len(log) + 1 /\ Len(log) \in Nat
         /\ log'[Len(log')].rec = text /\ \A k \in DOMAIN log : log'[k] = log[k]
         /\ DOMAIN log = 1 .. Len(log)
<1> DEFINE more == log'
<1>1. more = Append(log, [rec |-> text, whole |-> TRUE]) /\ log \in Seq(Chunks)
  BY RecordsAre
<1> HIDE DEF more
<1>2. /\ more \in Seq(Chunks) /\ Len(more) = Len(log) + 1
      /\ \A k \in DOMAIN log : more[k] = log[k]
      /\ more[Len(more)] = [rec |-> text, whole |-> TRUE]
  BY <1>1, RecordsInMore
<1> QED
  BY <1>2, RecordsAre, ChunksAre DEF more

LEMMA LinesMore ==
  ASSUME TypeOK, NEW text \in Text, log' = Append(log, [rec |-> text, whole |-> TRUE]), NEW S
  PROVE  /\ text.event \in S => LinesOf(S)' = LinesOf(S) \cup {Len(log')}
         /\ text.event \notin S => LinesOf(S)' = LinesOf(S)
         /\ Len(log') \notin LinesOf(S) /\ Len(log') = Len(log) + 1
         /\ log'[Len(log')].rec = text /\ \A k \in LinesOf(S) : log'[k] = log[k]
         /\ IsFiniteSet(LinesOf(S)) /\ Cardinality(LinesOf(S)) \in Nat
<1>1. /\ DOMAIN log' = 1 .. Len(log') /\ Len(log') = Len(log) + 1 /\ Len(log) \in Nat
      /\ log'[Len(log')].rec = text /\ \A k \in DOMAIN log : log'[k] = log[k]
      /\ DOMAIN log = 1 .. Len(log)
  BY LogMore
<1>2. \A k : k \in DOMAIN log' <=> k \in DOMAIN log \/ k = Len(log')
  BY <1>1
<1>3. Len(log') \notin DOMAIN log
  BY <1>1
<1>4. LinesOf(S) \subseteq DOMAIN log
  BY DEF LinesOf
<1>5. IsFiniteSet(LinesOf(S)) /\ Cardinality(LinesOf(S)) \in Nat
  <2>1. IsFiniteSet(1 .. Len(log))
    BY <1>1, FS_Interval
  <2> QED
    BY <1>1, <1>4, <2>1, FS_Subset, FS_CardinalityType
<1>6. \A k : k \in LinesOf(S)' <=> k \in DOMAIN log' /\ log'[k].rec.event \in S
  BY DEF LinesOf
<1>7. \A k : k \in LinesOf(S) <=> k \in DOMAIN log /\ log[k].rec.event \in S
  BY DEF LinesOf
<1>8. Len(log') \in DOMAIN log' /\ Len(log') \notin LinesOf(S)
  BY <1>2, <1>3, <1>4
<1>9. \A k \in LinesOf(S) : log'[k] = log[k]
  BY <1>1, <1>4
<1>10. ASSUME NEW k, k # Len(log')
       PROVE  k \in LinesOf(S)' <=> k \in LinesOf(S)
  BY <1>1, <1>2, <1>6, <1>7, <1>10
<1>11. Len(log') \in LinesOf(S)' <=> text.event \in S
  BY <1>1, <1>6, <1>8
<1>12. text.event \in S => LinesOf(S)' = LinesOf(S) \cup {Len(log')}
  BY <1>10, <1>11
<1>13. text.event \notin S => LinesOf(S)' = LinesOf(S)
  BY <1>8, <1>10, <1>11
<1> QED
  BY <1>1, <1>5, <1>8, <1>9, <1>12, <1>13

LEMMA LinesTellInit == Init => LinesTell
BY DEF Init, LinesTell, LinesOf

\* The line that a thread has written tells what is so.
LEMMA FinishTells ==
  ASSUME TypeOK, TypeOK', LockInv, FileInv, LineInv, LineInv', ToldInv, ToldInv', BytesInv,
         LinesTell, NEW t \in Threads, Finish(t)
  PROVE  LinesTell'
<1>1. /\ pc \in [Threads -> PCs] /\ line \in [Threads -> EventLines \cup {NoLine}]
  BY DEF TypeOK, ThreadTypes
<1>2. /\ pc[t] = "recorded" /\ UNCHANGED <<inited, live, bytes, stats, plain>> /\ fd' = fd
      /\ IF line[t] # NoLine THEN Written(line[t]) ELSE UNCHANGED <<log, faults>>
  BY DEF Finish, g, osVars
<1>3. SUFFICES ASSUME faults' = 0, NEW n \in LinesOf(Events)'
               PROVE  /\ log'[n].rec.tail.count = Count(Replay(n)')
                      /\ plain' => log'[n].rec.tail.bytes = Bytes(Replay(n)')
  BY DEF LinesTell
<1> DEFINE text == line[t]
<1>4. CASE text = NoLine
  <2>1. log' = log /\ faults = 0 /\ n \in LinesOf(Events) /\ Replay(n)' = Replay(n)
    BY <1>2, <1>3, <1>4, ReplayFrame DEF LinesOf
  <2> QED
    BY <1>2, <2>1 DEF LinesTell
<1>5. CASE text # NoLine
  <2>1. text \in Text
    BY <1>1, <1>5 DEF Text
  <2>2. /\ faults = 0 /\ log' = Append(log, [rec |-> text, whole |-> TRUE])
        /\ Records' = Append(Records, text)
    BY <1>2, <1>3, <1>5, <2>1, WrittenRecord
  <2>3. fd
    BY <1>5 DEF LineInv
  <2>4. Writing = {t}
    BY <1>2, WritingOne DEF InSection
  <2>5. Telling(Records, live, bytes, stats, text)
    BY <2>2, <2>3, <2>4, ToldInvIs
  <2>6. /\ DOMAIN log' = 1 .. Len(log') /\ Len(log') = Len(log) + 1 /\ Len(log) \in Nat
        /\ log'[Len(log')].rec = text /\ \A k \in DOMAIN log : log'[k] = log[k]
        /\ DOMAIN log = 1 .. Len(log)
    BY <2>1, <2>2, LogMore
  <2> HIDE DEF text
  <2>7. CASE n = Len(log')
    <3>1. Agrees(Records', live', bytes', stats')
      BY <1>2, <2>2, <2>5 DEF Telling
    <3>2. live' \in LiveSets
      BY DEF TypeOK, GTypes, LiveSets
    <3>3. Replay(n)' = live'
      <4>1. Follows(Reader!Replay(Records'), live', bytes', stats')
        BY <3>1 DEF Agrees
      <4>2. Replay(n)' = LiveOf(ReadFile(log', n))
        BY ReplayIs
      <4>3. \A k \in DOMAIN log' : log'[k].whole = TRUE
        <5>1. \A k \in DOMAIN log' : log'[k].whole \in BOOLEAN
          <6>1. log' \in Seq(Chunks)
            BY DEF TypeOK, FileTypes
          <6> QED
            BY <6>1, ChunksAre
        <5> QED
          BY <1>3, <5>1 DEF LineInv
      <4>4. ReadFile(log', n) = Reader!Replay(Records')
        <5>1. log' \in Seq(Chunks)
          BY DEF TypeOK, FileTypes
        <5> QED
          BY <2>7, <4>3, <5>1, ReadAll, RecordsNext
      <4> DEFINE w == Reader!Replay(Records')
                 m == live'
                 b == bytes'
                 s == stats'
      <4>5. m \in LiveSets /\ Follows(w, m, b, s)
        BY <3>2, <4>1
      <4>6. Replay(n)' = LiveOf(w)
        BY <4>2, <4>4
      <4> HIDE DEF w, m, b, s
      <4>7. LiveOf(w) = m
        BY <4>5, LiveOfIs
      <4> QED
        BY <4>6, <4>7 DEF m
    <3>4. text.tail.count = Count(live) /\ text.tail.bytes = bytes
      BY <2>5 DEF Telling
    <3>5. plain' => bytes' = Bytes(live')
      BY <1>2 DEF BytesInv
    <3> QED
      BY <1>2, <2>6, <2>7, <3>3, <3>4, <3>5
  <2>8. CASE n # Len(log')
    <3>1. n \in DOMAIN log /\ n \in 1 .. Len(log) /\ log'[n] = log[n]
      <4>1. n \in 1 .. Len(log')
        BY <2>6 DEF LinesOf
      <4> QED
        BY <2>6, <2>8, <4>1
    <3>2. n \in LinesOf(Events)
      BY <3>1 DEF LinesOf
    <3>3. Replay(n)' = Replay(n)
      BY <2>1, <2>2, <3>1, ReplayMoreLines
    <3> QED
      BY <1>2, <2>2, <3>1, <3>2, <3>3 DEF LinesTell
  <2> QED
    BY <2>7, <2>8
<1> QED
  BY <1>4, <1>5

LEMMA TellsFrame ==
  ASSUME LinesTell, UNCHANGED <<log, faults>>, plain' => plain
  PROVE  LinesTell'
<1>1. SUFFICES ASSUME faults' = 0, NEW n \in LinesOf(Events)'
               PROVE  /\ log'[n].rec.tail.count = Count(Replay(n)')
                      /\ plain' => log'[n].rec.tail.bytes = Bytes(Replay(n)')
  BY DEF LinesTell
<1>2. n \in LinesOf(Events) /\ Replay(n)' = Replay(n)
  BY ReplayFrame DEF LinesOf
<1> QED
  BY <1>1, <1>2 DEF LinesTell

\* A line of profiler_atexit.
LEMMA TellsFinal ==
  ASSUME TypeOK, LineInv, LinesTell, NEW text \in Text, text.event \notin Events,
         Written(text), plain' = plain
  PROVE  LinesTell'
<1>1. SUFFICES ASSUME faults' = 0, NEW n \in LinesOf(Events)'
               PROVE  /\ log'[n].rec.tail.count = Count(Replay(n)')
                      /\ plain' => log'[n].rec.tail.bytes = Bytes(Replay(n)')
  BY DEF LinesTell
<1>2. faults = 0 /\ log' = Append(log, [rec |-> text, whole |-> TRUE])
  BY <1>1, WrittenRecord
<1>3. n \in LinesOf(Events) /\ log'[n] = log[n]
  BY <1>1, <1>2, LinesMore
<1>4. n \in 1 .. Len(log)
  BY <1>3, RecordsAre DEF LinesOf
<1>5. Replay(n)' = Replay(n)
  BY <1>2, <1>4, ReplayMoreLines
<1> QED
  BY <1>2, <1>3, <1>5 DEF LinesTell

LEMMA LinesTellStep ==
  ASSUME TypeOK, TypeOK', LockInv, FileInv, LineInv, LineInv', ToldInv, ToldInv', BytesInv,
         LinesTell, [Next]_vars
  PROVE  LinesTell'
<1>1. ASSUME NEW t \in Threads, OsCall(t)
      PROVE  LinesTell'
  <2>1. UNCHANGED <<log, faults>>
    BY <1>1 DEF OsCall, MapShared, MapFresh, UnmapWorks, UnmapFails, MapFails, UnmapNull,
                Called
  <2>2. plain' => plain
    BY <1>1 DEF OsCall, MapShared, MapFresh, UnmapWorks, UnmapFails, MapFails, UnmapNull,
                osVars
  <2> QED
    BY <2>1, <2>2, TellsFrame
<1>2. ASSUME NEW t \in Threads,
             \/ Lock(t) \/ RecordMap(t) \/ RecordMapFailed(t)
             \/ RecordUnmap(t) \/ RecordUnmatched(t)
      PROVE  LinesTell'
  <2>1. UNCHANGED <<log, faults>> /\ plain' = plain
    BY <1>2 DEF Lock, RecordMap, RecordMapFailed, RecordUnmap, RecordUnmatched, Record,
                osVars
  <2> QED
    BY <2>1, TellsFrame
<1>3. ASSUME NEW t \in Threads, Finish(t)
      PROVE  LinesTell'
  BY <1>3, FinishTells
<1>4. CASE Exit \/ ExitLock \/ ExitSilent \/ Gone \/ UNCHANGED vars
  <2>1. UNCHANGED <<log, faults>> /\ plain' = plain
    BY <1>4 DEF Exit, ExitLock, ExitSilent, Gone, vars, osVars
  <2> QED
    BY <2>1, TellsFrame
<1>5. ASSUME NEW a \in Addrs, ExitLine(a)
      PROVE  LinesTell'
  <2> DEFINE text == [event |-> "live_at_exit", addr |-> a, size |-> live[a]]
  <2>1. Written(text) /\ plain' = plain
    BY <1>5 DEF ExitLine, osVars
  <2>2. text \in Text /\ text.event \notin Events
    BY FinalText DEF Events
  <2> HIDE DEF text
  <2> QED
    BY <2>1, <2>2, TellsFinal
<1>6. CASE ExitSummary
  <2>1. Written(Summary) /\ plain' = plain /\ Summary.event \notin Events
    BY <1>6 DEF ExitSummary, osVars, Summary, Events
  <2> QED
    BY <2>1, FinalText, TellsFinal
<1> QED
  BY <1>1, <1>2, <1>3, <1>4, <1>5, <1>6 DEF Next, Exiting, Profile

-----------------------------------------------------------------------------
(* The lines that profiler_atexit writes.                                  *)

LEMMA ExitInit == Init => ExitInv
BY CpAssumption DEF Init, ExitInv, LinesOf

\* ExitInv of the entries that have been reported.
Reported(exits, done, all) ==
  /\ {<<log[n].rec.addr, log[n].rec.size>> : n \in exits} = {<<a, live[a]>> : a \in done}
  /\ Cardinality(exits) = Cardinality(done)
  /\ left \subseteq all

ExitsAre ==
  /\ LinesOf({"summary"}) = {}
  /\ pc[Main] # "report" => LinesOf({"live_at_exit"}) = {}
  /\ pc[Main] = "report" =>
       Reported(LinesOf({"live_at_exit"}), LiveAddrs(live) \ left, LiveAddrs(live))

LEMMA ExitInvIs ==
  ExitInv <=> /\ pc[Main] \in {"exit", "report"} => inited
              /\ (fd \/ ~inited) /\ faults = 0 => ExitsAre
BY DEF ExitInv, ExitsAre, Reported

LEMMA ExitInvNext ==
  ExitInv' <=> /\ pc'[Main] \in {"exit", "report"} => inited'
               /\ (fd' \/ ~inited') /\ faults' = 0 => ExitsAre'
BY DEF ExitInv, ExitsAre, Reported

\* A step that is neither a write nor a change of the reported live set.
LEMMA ExitFrame ==
  ASSUME ExitInv, UNCHANGED <<log, faults>>,
         pc'[Main] \in {"exit", "report"} => inited',
         fd' \/ ~inited' => fd \/ ~inited,
         pc[Main] = "report" <=> pc'[Main] = "report",
         pc[Main] = "report" => UNCHANGED <<live, left>>
  PROVE  ExitInv'
<1>1. LinesOf({"summary"})' = LinesOf({"summary"})
      /\ LinesOf({"live_at_exit"})' = LinesOf({"live_at_exit"})
  BY DEF LinesOf
<1>2. (fd' \/ ~inited') /\ faults' = 0 => ExitsAre
  BY ExitInvIs
<1>3. ASSUME ExitsAre
      PROVE  ExitsAre'
  <2>1. CASE pc[Main] # "report"
    BY <1>1, <1>3, <2>1 DEF ExitsAre
  <2>2. CASE pc[Main] = "report"
    BY <1>1, <1>3, <2>2 DEF ExitsAre, Reported
  <2> QED
    BY <2>1, <2>2
<1> QED
  BY <1>2, <1>3, ExitInvNext

LEMMA ExitFinish ==
  ASSUME TypeOK, LockInv, ExitInv, NEW t \in Threads, Finish(t)
  PROVE  ExitInv'
<1>1. /\ pc \in [Threads -> PCs] /\ line \in [Threads -> EventLines \cup {NoLine}]
      /\ Main \in Threads
  BY CpAssumption DEF TypeOK, ThreadTypes
<1>2. /\ pc[t] = "recorded" /\ pc' = [pc EXCEPT ![t] = "idle"]
      /\ UNCHANGED <<inited, live>> /\ fd' = fd
      /\ IF line[t] # NoLine THEN Written(line[t]) ELSE UNCHANGED <<log, faults>>
  BY DEF Finish, g
<1>3. pc[Main] # "report" /\ pc'[Main] # "report"
      /\ (pc'[Main] = "exit" => pc[Main] = "exit")
  BY <1>1, <1>2 DEF LockInv, InSection
<1>4. ASSUME faults' = 0
      PROVE  /\ faults = 0 /\ LinesOf({"summary"})' = LinesOf({"summary"})
             /\ LinesOf({"live_at_exit"})' = LinesOf({"live_at_exit"})
  <2>1. CASE line[t] = NoLine
    BY <1>2, <1>4, <2>1 DEF LinesOf
  <2>2. CASE line[t] # NoLine
    <3>1. line[t] \in Text /\ line[t].event \in {"map", "unmap"}
      BY <1>1, <2>2 DEF Text, EventLines
    <3>2. faults = 0 /\ log' = Append(log, [rec |-> line[t], whole |-> TRUE])
      BY <1>2, <1>4, <2>2, <3>1, WrittenRecord
    <3>3. line[t].event \notin {"summary"} /\ line[t].event \notin {"live_at_exit"}
      BY <3>1
    <3> QED
      BY <3>1, <3>2, <3>3, LinesMore
  <2> QED
    BY <2>1, <2>2
<1>5. (fd' \/ ~inited') /\ faults' = 0 => ExitsAre'
  BY <1>2, <1>3, <1>4, ExitInvIs DEF ExitsAre
<1>6. pc'[Main] \in {"exit", "report"} => inited'
  BY <1>2, <1>3, ExitInvIs
<1> QED
  BY <1>5, <1>6, ExitInvNext

LEMMA ExitReports ==
  ASSUME TypeOK, ExitInv, NEW a \in Addrs, ExitLine(a)
  PROVE  ExitInv'
<1> DEFINE text  == [event |-> "live_at_exit", addr |-> a, size |-> live[a]]
           exits == LinesOf({"live_at_exit"})
           done  == LiveAddrs(live) \ left
<1>1. /\ pc[Main] = "report" /\ fd /\ a \in left /\ left' = left \ {a} /\ Written(text)
      /\ UNCHANGED <<pc, inited, live>> /\ fd' = fd
  BY DEF ExitLine, g
<1>2. /\ text \in Text /\ text.event = "live_at_exit" /\ text.addr = a /\ text.size = live[a]
  BY FinalText
<1> HIDE DEF text
<1>3. ASSUME faults' = 0
      PROVE  ExitsAre'
  <2>1. faults = 0 /\ log' = Append(log, [rec |-> text, whole |-> TRUE])
    BY <1>1, <1>2, <1>3, WrittenRecord
  <2>2. LinesOf({"summary"}) = {} /\ Reported(exits, done, LiveAddrs(live))
    BY <1>1, <2>1, ExitInvIs DEF ExitsAre
  <2>3. LinesOf({"summary"})' = {}
    BY <1>2, <2>1, <2>2, LinesMore
  <2> DEFINE k == Len(log')
  <2>4. /\ LinesOf({"live_at_exit"})' = exits \cup {k} /\ k \notin exits
        /\ log'[k].rec = text /\ \A n \in exits : log'[n] = log[n]
        /\ IsFiniteSet(exits)
    BY <1>2, <2>1, LinesMore
  <2>5. /\ LiveAddrs(live') \ left' = done \cup {a} /\ a \notin done
        /\ left' \subseteq LiveAddrs(live')
    BY <1>1, <2>2 DEF Reported
  <2>6. IsFiniteSet(done)
    BY LiveFinite, FS_Subset
  <2> HIDE DEF k, exits, done
  <2>7. Cardinality(exits \cup {k}) = Cardinality(done \cup {a})
    <3>1. Cardinality(exits \cup {k}) = Cardinality(exits) + 1
      BY <2>4, FS_AddElement
    <3>2. Cardinality(done \cup {a}) = Cardinality(done) + 1
      BY <2>5, <2>6, FS_AddElement
    <3> QED
      BY <2>2, <3>1, <3>2 DEF Reported
  <2>8. {<<log'[n].rec.addr, log'[n].rec.size>> : n \in exits \cup {k}}
          = {<<b, live'[b]>> : b \in done \cup {a}}
    <3>1. {<<log'[n].rec.addr, log'[n].rec.size>> : n \in exits \cup {k}}
            = {<<log[n].rec.addr, log[n].rec.size>> : n \in exits} \cup {<<a, live[a]>>}
      BY <1>2, <2>4
    <3>2. {<<b, live'[b]>> : b \in done \cup {a}}
            = {<<b, live[b]>> : b \in done} \cup {<<a, live[a]>>}
      BY <1>1
    <3> QED
      BY <2>2, <3>1, <3>2 DEF Reported
  <2>9. Reported(LinesOf({"live_at_exit"}), LiveAddrs(live) \ left, LiveAddrs(live))'
    BY <2>4, <2>5, <2>7, <2>8 DEF Reported
  <2> QED
    BY <1>1, <2>3, <2>9 DEF ExitsAre
<1>4. pc'[Main] \in {"exit", "report"} => inited'
  BY <1>1, ExitInvIs
<1> QED
  BY <1>3, <1>4, ExitInvNext

LEMMA ExitStep == TypeOK /\ LockInv /\ ExitInv /\ [Next]_vars => ExitInv'
<1> SUFFICES ASSUME TypeOK, LockInv, ExitInv, [Next]_vars
             PROVE  ExitInv'
  OBVIOUS
<1>1. pc \in [Threads -> PCs] /\ Main \in Threads /\ inited \in BOOLEAN /\ fd \in BOOLEAN
  BY CpAssumption DEF TypeOK, ThreadTypes, GTypes
<1>2. pc[Main] \in {"exit", "report"} => inited
  BY ExitInvIs
<1>3. ASSUME NEW t \in Threads, OsCall(t)
      PROVE  ExitInv'
  <2>1. /\ UNCHANGED <<log, faults, inited, live, left>> /\ fd' = fd
        /\ pc[t] = "idle" /\ pc' = [pc EXCEPT ![t] = "called"]
    BY <1>3 DEF OsCall, MapShared, MapFresh, UnmapWorks, UnmapFails, MapFails, UnmapNull,
                Called, g
  <2> QED
    BY <1>1, <1>2, <2>1, ExitFrame
<1>4. ASSUME NEW t \in Threads, Lock(t)
      PROVE  ExitInv'
  <2>1. /\ UNCHANGED <<log, faults, inited, live, left>> /\ fd' = fd
        /\ pc[t] = "called" /\ pc' = [pc EXCEPT ![t] = "locked"]
    BY <1>4 DEF Lock, g
  <2> QED
    BY <1>1, <1>2, <2>1, ExitFrame
<1>5. ASSUME NEW t \in Threads,
             \/ RecordMap(t) \/ RecordMapFailed(t)
             \/ RecordUnmap(t) \/ RecordUnmatched(t)
      PROVE  ExitInv'
  <2>1. /\ pc[t] = "locked" /\ pc' = [pc EXCEPT ![t] = "recorded"]
        /\ UNCHANGED <<log, faults>> /\ EnsureInit
    BY <1>5 DEF RecordMap, RecordMapFailed, RecordUnmap, RecordUnmatched, Record
  \* profiler_atexit is not inside.
  <2>2. pc[Main] # "report" /\ pc'[Main] # "report"
    BY <1>1, <2>1 DEF LockInv, InSection
  <2>3. inited' /\ (fd' => fd \/ ~inited)
    BY <1>1, <2>1 DEF EnsureInit
  <2> QED
    BY <2>1, <2>2, <2>3, ExitFrame
<1>6. CASE Exit
  <2>1. /\ UNCHANGED <<log, faults, inited, live, left>> /\ fd' = fd
        /\ pc[Main] = "idle"
        /\ pc' = [pc EXCEPT ![Main] = IF inited THEN "exit" ELSE "closed"]
    BY <1>6 DEF Exit, g
  <2> QED
    BY <1>1, <2>1, ExitFrame
<1>7. CASE ExitLock
  <2>1. /\ UNCHANGED <<log, faults, inited, live>> /\ fd' = fd
        /\ pc[Main] = "exit" /\ pc' = [pc EXCEPT ![Main] = "report"]
        /\ left' = LiveAddrs(live)
    BY <1>7 DEF ExitLock, g
  <2>2. LinesOf({"summary"})' = LinesOf({"summary"})
        /\ LinesOf({"live_at_exit"})' = LinesOf({"live_at_exit"})
    BY <2>1 DEF LinesOf
  <2>3. (fd' \/ ~inited') /\ faults' = 0 => ExitsAre
    BY <2>1, ExitInvIs
  <2>4. LiveAddrs(live') \ left' = {} /\ left' \subseteq LiveAddrs(live')
    BY <2>1
  <2>5. ExitsAre => ExitsAre'
    BY <1>1, <2>1, <2>2, <2>4 DEF ExitsAre, Reported
  <2> QED
    BY <1>2, <2>1, <2>3, <2>5, ExitInvNext
<1>8. CASE ExitSummary
  <2>1. ~fd' /\ inited' = inited /\ pc[Main] = "report" /\ pc' = [pc EXCEPT ![Main] = "closed"]
    BY <1>8 DEF ExitSummary
  <2> QED
    BY <1>1, <1>2, <2>1, ExitInvNext
<1>9. CASE ExitSilent
  <2>1. /\ ~fd /\ fd' = fd /\ inited' = inited /\ pc[Main] = "report"
        /\ pc' = [pc EXCEPT ![Main] = "closed"]
    BY <1>9 DEF ExitSilent, g
  <2> QED
    BY <1>1, <1>2, <2>1, ExitInvNext
<1>10. CASE Gone \/ UNCHANGED vars
  <2>1. /\ UNCHANGED <<log, faults, inited, live, left>> /\ fd' = fd
        /\ \/ pc' = pc
           \/ pc[Main] = "closed" /\ pc' = [pc EXCEPT ![Main] = "gone"]
    BY <1>10 DEF Gone, vars, g
  <2> QED
    BY <1>1, <1>2, <2>1, ExitFrame
<1> QED
  BY <1>3, <1>4, <1>5, <1>6, <1>7, <1>8, <1>9, <1>10, ExitFinish, ExitReports
     DEF Next, Exiting, Profile

-----------------------------------------------------------------------------
(* The summary.                                                            *)

\* SummaryAgrees and ExitLinesAgree of a summary s that is line n of a file.
Summed(s, n, length, list, w) ==
  /\ n = length /\ AddsUp(s, list)
  /\ s.peakCount = w.peakCount /\ s.peakBytes >= w.peakBytes /\ s.unmatched = w.unmatched

Closed(file, exits, m, count) ==
  /\ {<<file[k].rec.addr, file[k].rec.size>> : k \in exits}
       = {<<a, m[a]>> : a \in LiveAddrs(m)}
  /\ count = Cardinality(exits)

Ends ==
  faults = 0 => \A n \in LinesOf({"summary"}) :
    /\ Summed(log[n].rec.totals, n, Len(log), Records, CorrelateFile(n))
    /\ Closed(log, LinesOf({"live_at_exit"}), Replay(n), log[n].rec.stillLive)

LEMMA EndsIs == Ends <=> SummaryAgrees /\ ExitLinesAgree
BY DEF Ends, SummaryAgrees, ExitLinesAgree, Summed, Closed

LEMMA EndsInit == Init => Ends
BY DEF Init, Ends, LinesOf

LEMMA EndsFrame ==
  ASSUME Ends, UNCHANGED <<log, faults>>
  PROVE  Ends'
<1>1. SUFFICES ASSUME faults' = 0, NEW n \in LinesOf({"summary"})'
               PROVE  /\ Summed(log'[n].rec.totals, n, Len(log'), Records', CorrelateFile(n)')
                      /\ Closed(log', LinesOf({"live_at_exit"})', Replay(n)',
                                log'[n].rec.stillLive)
  BY DEF Ends, Summed, Closed, AddsUp
<1>2. /\ n \in LinesOf({"summary"}) /\ Records' = Records
      /\ LinesOf({"live_at_exit"})' = LinesOf({"live_at_exit"})
  BY <1>1 DEF LinesOf, Records
<1>3. Replay(n)' = Replay(n) /\ CorrelateFile(n)' = CorrelateFile(n)
  BY ReplayFrame
<1> QED
  BY <1>1, <1>2, <1>3 DEF Ends

\* As long as the file is open no summary is in it.
LEMMA EndsOpen ==
  ASSUME TypeOK, ExitInv, fd, NEW text \in Text, text.event # "summary", Written(text)
  PROVE  Ends'
<1>1. SUFFICES ASSUME faults' = 0
               PROVE  LinesOf({"summary"})' = {}
  BY DEF Ends
<1>2. faults = 0 /\ log' = Append(log, [rec |-> text, whole |-> TRUE])
  BY <1>1, WrittenRecord
<1>3. LinesOf({"summary"}) = {}
  BY <1>2, ExitInvIs DEF ExitsAre
<1>4. text.event \notin {"summary"}
  OBVIOUS
<1> QED
  BY <1>2, <1>3, <1>4, LinesMore

LEMMA EndsSummary ==
  ASSUME TypeOK, TypeOK', LockInv, LineInv, ToldInv, ExitInv, ExitSummary
  PROVE  Ends'
<1>1. /\ pc[Main] = "report" /\ fd /\ left = {} /\ Written(Summary) /\ live' = live
  BY DEF ExitSummary
<1>2. Main \in Threads /\ Summary \in Text
  BY CpAssumption, FinalText
<1>3. Summary.event = "summary" /\ Summary.totals = stats /\ Summary.stillLive = Count(live)
  BY DEF Summary
<1> DEFINE text == Summary
           file == log'
           list == Records'
           exits == LinesOf({"live_at_exit"})
<1> HIDE DEF text
<1>4. SUFFICES ASSUME faults' = 0, NEW n \in LinesOf({"summary"})'
               PROVE  /\ Summed(file[n].rec.totals, n, Len(file), list, CorrelateFile(n)')
                      /\ Closed(file, LinesOf({"live_at_exit"})', Replay(n)',
                                file[n].rec.stillLive)
  BY DEF Ends, Summed, Closed, AddsUp
<1>5. /\ faults = 0 /\ log' = Append(log, [rec |-> text, whole |-> TRUE])
      /\ Longer(list, Records, text)
  BY <1>1, <1>2, <1>4, WrittenRecord DEF text
<1>6. LinesOf({"summary"}) = {} /\ Reported(exits, LiveAddrs(live), LiveAddrs(live))
  BY <1>1, <1>5, ExitInvIs DEF ExitsAre
<1>7. /\ n = Len(file) /\ file[n].rec = text
      /\ LinesOf({"live_at_exit"})' = exits /\ \A k \in exits : file[k] = log[k]
  <2>1. text \in Text /\ text.event \in {"summary"} /\ text.event \notin {"live_at_exit"}
    BY <1>2, <1>3 DEF text
  <2>2. LinesOf({"summary"})' = {Len(file)} /\ file[Len(file)].rec = text
    BY <1>5, <1>6, <2>1, LinesMore
  <2>3. LinesOf({"live_at_exit"})' = exits /\ \A k \in exits : file[k] = log[k]
    BY <1>5, <2>1, LinesMore
  <2> QED
    BY <1>4, <2>2, <2>3
\* All records are in the file, and a reader has what the profiler has.
<1>8. Agrees(list, live, bytes, stats)
  <2>1. Writing = {}
    BY <1>1, <1>2, WritingOne DEF InSection
  <2>2. Agrees(Records, live, bytes, stats)
    BY <1>1, <1>5, <2>1, ToldInvIs
  <2>3. text.event \notin {"map", "unmap"}
    BY <1>3 DEF text
  <2> HIDE DEF list
  <2> QED
    BY <1>5, <2>2, <2>3, AgreesOther
<1>9. file \in Seq(Chunks) /\ \A k \in DOMAIN file : file[k].whole = TRUE
  <2>1. file \in Seq(Chunks)
    BY DEF TypeOK, FileTypes
  <2>2. \A k \in DOMAIN file : file[k].whole \in BOOLEAN
    BY <2>1, ChunksAre
  <2>3. \A k \in DOMAIN file : file[k].whole
    BY <1>1, <1>2, <1>4, WrittenLines
  <2> QED
    BY <2>1, <2>2, <2>3
<1>10. CorrelateFile(n)' = Reader!Replay(list) /\ Replay(n)' = LiveOf(Reader!Replay(list))
  <2>1. CorrelateFile(n)' = ReadFile(file, n) /\ Replay(n)' = LiveOf(ReadFile(file, n))
    BY CorrelateFileIs, ReplayIs
  <2>2. list = RecordsIn(file)
    BY RecordsNext
  <2> HIDE DEF file, list
  <2>3. ReadFile(file, n) = Reader!Replay(list)
    BY <1>7, <1>9, <2>2, ReadAll
  <2> QED
    BY <2>1, <2>3
<1> DEFINE w == Reader!Replay(list)
<1> HIDE DEF file, list, w
<1>11. Follows(w, live, bytes, stats) /\ AddsUp(stats, list)
  BY <1>8 DEF Agrees, w
<1>12. LiveOf(w) = live
  <2>1. live \in LiveSets
    BY DEF TypeOK, GTypes, LiveSets
  <2> QED
    BY <1>11, <2>1, LiveOfIs
<1>13. w.peakBytes <= stats.peakBytes => stats.peakBytes >= w.peakBytes
  <2>1. stats.peakBytes \in Int
    BY DEF TypeOK, GTypes, Totals
  <2>2. list \in Seq(Text)
    <3>1. list = RecordsIn(file)
      BY RecordsNext DEF list, file
    <3> QED
      BY <1>9, <3>1, RecordsInType
  <2>3. Reading(w)
    BY <2>2, ReplayReading DEF w
  <2> QED
    BY <2>1, <2>3 DEF Reading
<1>14. Summed(file[n].rec.totals, n, Len(file), list, CorrelateFile(n)')
  BY <1>3, <1>7, <1>10, <1>11, <1>13 DEF Summed, Follows, text, w
<1>15. Closed(file, LinesOf({"live_at_exit"})', Replay(n)', file[n].rec.stillLive)
  <2>1. {<<file[k].rec.addr, file[k].rec.size>> : k \in exits}
          = {<<log[k].rec.addr, log[k].rec.size>> : k \in exits}
    BY <1>7
  <2>2. Cardinality(exits) = Count(live)
    BY <1>6 DEF Reported, Count
  <2>3. file[n].rec.stillLive = Count(live)
    BY <1>3, <1>7 DEF text
  <2>4. Replay(n)' = live
    BY <1>10, <1>12 DEF w
  <2>5. {<<log[k].rec.addr, log[k].rec.size>> : k \in exits}
          = {<<a, live[a]>> : a \in LiveAddrs(live)}
    BY <1>6 DEF Reported
  <2> HIDE DEF exits
  <2> QED
    BY <1>7, <2>1, <2>2, <2>3, <2>4, <2>5 DEF Closed
<1> QED
  BY <1>14, <1>15

LEMMA EndsStep ==
  ASSUME TypeOK, LockInv, LineInv, ToldInv, ExitInv, Ends, [Next]_vars
  PROVE  Ends'
<1>0. TypeOK'
  BY TypeStep
<1>1. ASSUME NEW t \in Threads, OsCall(t)
      PROVE  Ends'
  <2>1. UNCHANGED <<log, faults>>
    BY <1>1 DEF OsCall, MapShared, MapFresh, UnmapWorks, UnmapFails, MapFails, UnmapNull,
                Called
  <2> QED
    BY <2>1, EndsFrame
<1>2. ASSUME NEW t \in Threads,
             \/ Lock(t) \/ RecordMap(t) \/ RecordMapFailed(t)
             \/ RecordUnmap(t) \/ RecordUnmatched(t)
      PROVE  Ends'
  <2>1. UNCHANGED <<log, faults>>
    BY <1>2 DEF Lock, RecordMap, RecordMapFailed, RecordUnmap, RecordUnmatched, Record
  <2> QED
    BY <2>1, EndsFrame
<1>3. ASSUME NEW t \in Threads, Finish(t)
      PROVE  Ends'
  <2>1. CASE line[t] = NoLine
    BY <1>3, <2>1, EndsFrame DEF Finish
  <2>2. CASE line[t] # NoLine
    <3>1. Written(line[t]) /\ fd
      BY <1>3, <2>2 DEF Finish, LineInv
    <3>2. line[t] \in Text /\ line[t].event # "summary"
      BY <2>2 DEF Text, EventLines, TypeOK, ThreadTypes
    <3> QED
      BY <3>1, <3>2, EndsOpen
  <2> QED
    BY <2>1, <2>2
<1>4. CASE Exit \/ ExitLock \/ ExitSilent \/ Gone \/ UNCHANGED vars
  <2>1. UNCHANGED <<log, faults>>
    BY <1>4 DEF Exit, ExitLock, ExitSilent, Gone, vars
  <2> QED
    BY <2>1, EndsFrame
<1>5. ASSUME NEW a \in Addrs, ExitLine(a)
      PROVE  Ends'
  <2> DEFINE text == [event |-> "live_at_exit", addr |-> a, size |-> live[a]]
  <2>1. Written(text) /\ fd
    BY <1>5 DEF ExitLine
  <2>2. text \in Text /\ text.event # "summary"
    BY FinalText
  <2> HIDE DEF text
  <2> QED
    BY <2>1, <2>2, EndsOpen
<1> QED
  BY <1>0, <1>1, <1>2, <1>3, <1>4, <1>5, EndsSummary DEF Next, Exiting, Profile

-----------------------------------------------------------------------------
(* Faults.                                                                 *)

One(p) == IF p THEN 1 ELSE 0

LEMMA OneIs == ASSUME NEW p PROVE One(p) \in 0 .. 1 /\ (p => One(p) = 1) /\ (~p => One(p) = 0)
BY DEF One

LEMMA TornInvIs ==
  TornInv <=>
    /\ ~inited => /\ ~fd /\ log = << >> /\ calls = Cardinality(UnderWay)
                  /\ \A t \in Threads : pc[t] # "recorded"
    /\ fd => /\ \A t \in Threads : pc[t] = "recorded" => line[t] # NoLine
             /\ Cardinality(Parsed) + 2 * faults
                  >= calls - Cardinality(UnderWay) + One(Torn)
BY DEF TornInv, One

LEMMA TornInvNext ==
  TornInv' <=>
    /\ ~inited' => /\ ~fd' /\ log' = << >> /\ calls' = Cardinality(UnderWay')
                   /\ \A t \in Threads : pc'[t] # "recorded"
    /\ fd' => /\ \A t \in Threads : pc'[t] = "recorded" => line'[t] # NoLine
              /\ Cardinality(Parsed') + 2 * faults'
                   >= calls' - Cardinality(UnderWay') + One(Torn')
BY DEF TornInv, One

LEMMA TornTypes ==
  ASSUME TypeOK
  PROVE  /\ calls \in Nat /\ faults \in Nat
         /\ IsFiniteSet(UnderWay) /\ Cardinality(UnderWay) \in Nat
         /\ IsFiniteSet(Parsed) /\ Cardinality(Parsed) \in Nat
<1>1. Parsed \subseteq 1 .. Len(log) /\ Len(log) \in Nat
  BY RecordsAre DEF Parsed, LinesOf
<1>2. IsFiniteSet(Parsed) /\ Cardinality(Parsed) \in Nat
  <2>1. IsFiniteSet(1 .. Len(log))
    BY <1>1, FS_Interval
  <2>2. IsFiniteSet(Parsed)
    BY <1>1, <2>1, FS_Subset
  <2> QED
    BY <2>2, FS_CardinalityType
<1> QED
  BY <1>2, UnderWayFinite, CpAssumption DEF TypeOK, FileTypes

LEMMA TornTypesNext ==
  ASSUME TypeOK'
  PROVE  Cardinality(Parsed') \in Nat /\ faults' \in Nat
<1>1. log' \in Seq(Chunks) /\ faults' \in Nat
  BY CpAssumption DEF TypeOK, FileTypes
<1>2. Parsed' \subseteq DOMAIN log'
  BY DEF Parsed, LinesOf
<1>3. DOMAIN log' = 1 .. Len(log') /\ Len(log') \in Nat
  BY <1>1
<1>4. IsFiniteSet(1 .. Len(log'))
  BY <1>3, FS_Interval
<1>5. IsFiniteSet(Parsed')
  BY <1>2, <1>3, <1>4, FS_Subset
<1> QED
  BY <1>1, <1>5, FS_CardinalityType

\* A line more, whole or not: a torn one before it spoils it.
LEMMA ParsedMore ==
  ASSUME TypeOK, NEW text \in Text, NEW w \in BOOLEAN,
         log' = Append(log, [rec |-> text, whole |-> w])
  PROVE  /\ text.event \in Events /\ w /\ ~Torn =>
              Cardinality(Parsed') = Cardinality(Parsed) + 1
         /\ ~(text.event \in Events /\ w /\ ~Torn) => Parsed' = Parsed
         /\ Torn' <=> ~w
<1> DEFINE k == Len(log) + 1
           more == log'
<1>1. /\ log \in Seq(Chunks) /\ DOMAIN log = 1 .. Len(log) /\ Len(log) \in Nat
      /\ k \in Nat /\ k \notin DOMAIN log
  BY RecordsAre
<1>2. /\ DOMAIN more = DOMAIN log \cup {k} /\ more[k] = [rec |-> text, whole |-> w]
      /\ \A n \in DOMAIN log : more[n] = log[n] /\ Len(more) = k
  BY <1>1
<1>3. more # << >> /\ Len(more) = k
  BY <1>1
<1>4. Torn' <=> ~w
  BY <1>2, <1>3 DEF Torn
<1>5. Parsed = {n \in DOMAIN log : log[n].rec.event \in Events /\ log[n].whole
                                    /\ (n > 1 => log[n - 1].whole)}
  BY DEF Parsed, LinesOf, Parses, Reader!Parses
<1>6. Parsed' = {n \in DOMAIN more : more[n].rec.event \in Events /\ more[n].whole
                                      /\ (n > 1 => more[n - 1].whole)}
  BY DEF Parsed, LinesOf, Parses, Reader!Parses
<1>7. Torn <=> ~(k > 1 => more[k - 1].whole)
  <2>1. CASE Len(log) = 0
    <3>1. log = << >> /\ ~(k > 1)
      BY <1>1, <2>1
    <3> QED
      BY <3>1 DEF Torn
  <2>2. CASE Len(log) # 0
    <3>1. log # << >> /\ k > 1 /\ k - 1 = Len(log) /\ Len(log) \in DOMAIN log
      BY <1>1, <2>2
    <3> QED
      BY <1>2, <3>1 DEF Torn
  <2> QED
    BY <2>1, <2>2
<1> HIDE DEF k, more
<1>8. \A n \in DOMAIN log : more[n] = log[n] /\ (n > 1 => more[n - 1] = log[n - 1])
  BY <1>1, <1>2
<1>9. \A n : n \in Parsed' <=> n \in Parsed \/ (n = k /\ text.event \in Events /\ w /\ ~Torn)
  BY <1>1, <1>2, <1>5, <1>6, <1>7, <1>8
<1>10. ASSUME text.event \in Events /\ w /\ ~Torn
       PROVE  Cardinality(Parsed') = Cardinality(Parsed) + 1
  <2>1. Parsed' = Parsed \cup {k} /\ k \notin Parsed
    BY <1>1, <1>5, <1>9, <1>10
  <2> QED
    BY <2>1, TornTypes, FS_AddElement
<1> QED
  BY <1>4, <1>9, <1>10

\* A write makes its line one that parses, or costs two.
LEMMA TornWritten ==
  ASSUME TypeOK, TypeOK', NEW text \in Text, Written(text)
  PROVE  Cardinality(Parsed') + 2 * faults' + One(Torn)
           >= Cardinality(Parsed) + 2 * faults + One(Torn') + One(text.event \in Events)
<1> DEFINE p == Cardinality(Parsed)
           q == Cardinality(Parsed')
<1>0. p \in Nat /\ faults \in Nat
  BY TornTypes
<1> DEFINE event == text.event \in Events
<1>1. CASE log' = Append(log, [rec |-> text, whole |-> TRUE]) /\ faults' = faults
  <2>1. /\ event /\ ~Torn => q = p + 1
        /\ ~(event /\ ~Torn) => q = p
        /\ ~Torn'
    BY <1>1, ParsedMore
  <2>2. CASE event /\ ~Torn
    <3>1. q = p + 1 /\ One(Torn) = 0 /\ One(Torn') = 0 /\ One(event) = 1
      BY <2>1, <2>2, OneIs
    <3> QED
      BY <1>0, <1>1, <3>1
  <2>3. CASE event /\ Torn
    <3>1. q = p /\ One(Torn) = 1 /\ One(Torn') = 0 /\ One(event) = 1
      BY <2>1, <2>3, OneIs
    <3> QED
      BY <1>0, <1>1, <3>1
  <2>4. CASE ~event
    <3>1. q = p /\ One(Torn) \in 0 .. 1 /\ One(Torn') = 0 /\ One(event) = 0
      BY <2>1, <2>4, OneIs
    <3> QED
      BY <1>0, <1>1, <3>1
  <2> QED
    BY <2>2, <2>3, <2>4
<1>2. CASE log' = log /\ faults' = faults + 1
  <2>1. Parsed' = Parsed /\ (Torn' <=> Torn)
    BY <1>2 DEF Parsed, LinesOf, Parses, Torn
  <2>2. q = p /\ One(Torn') = One(Torn) /\ One(Torn) \in 0 .. 1 /\ One(event) \in 0 .. 1
    BY <2>1, OneIs DEF One
  <2> QED
    BY <1>0, <1>2, <2>2
<1>3. CASE log' = Append(log, [rec |-> text, whole |-> FALSE]) /\ faults' = faults + 1
  <2>1. q = p
    BY <1>3, ParsedMore
  <2>2. One(Torn') \in 0 .. 1 /\ One(Torn) \in 0 .. 1 /\ One(event) \in 0 .. 1
    BY OneIs
  <2> QED
    BY <1>0, <1>3, <2>1, <2>2
<1> QED
  BY <1>1, <1>2, <1>3 DEF Written

LEMMA TornInit == Init => TornInv
<1> SUFFICES ASSUME Init
             PROVE  TornInv
  OBVIOUS
<1>1. UnderWay = {}
  BY DEF Init, UnderWay
<1> QED
  BY <1>1, FS_EmptySet DEF Init, TornInv

\* A step that writes nothing; it may be a call more, which is under way.
LEMMA TornFrame ==
  ASSUME TypeOK, TornInv, UNCHANGED <<log, faults, inited, line>>, fd' = fd,
         calls' - Cardinality(UnderWay') = calls - Cardinality(UnderWay),
         calls \in Nat, calls' \in Nat,
         \A t \in Threads : pc'[t] = "recorded" => pc[t] = "recorded"
  PROVE  TornInv'
<1>1. Parsed' = Parsed /\ Torn' = Torn
  BY DEF Parsed, LinesOf, Parses, Torn
<1>2. Cardinality(UnderWay) \in Nat /\ Cardinality(UnderWay') \in Nat
  <2>1. UnderWay' \subseteq Threads
    BY DEF UnderWay
  <2> QED
    BY <2>1, UnderWayFinite, CpAssumption, FS_Subset, FS_CardinalityType
<1>3. calls = Cardinality(UnderWay) => calls' = Cardinality(UnderWay')
  BY <1>2
<1> QED
  BY <1>1, <1>3, TornInvIs, TornInvNext

LEMMA TornRecord ==
  ASSUME TypeOK, TypeOK', TornInv, NEW t \in Threads, NEW op, NEW text \in EventLines,
         Record(t, op, text)
  PROVE  TornInv'
<1>1. pc \in [Threads -> PCs] /\ line \in [Threads -> EventLines \cup {NoLine}]
      /\ inited \in BOOLEAN
  BY DEF TypeOK, ThreadTypes, GTypes
<1>2. /\ pc[t] = "locked" /\ pc' = [pc EXCEPT ![t] = "recorded"]
      /\ line' = [line EXCEPT ![t] = IF fd' THEN text ELSE NoLine]
      /\ EnsureInit /\ UNCHANGED <<log, calls, faults>>
  BY DEF Record
<1>3. UnderWay' = UnderWay
  BY <1>1, <1>2 DEF UnderWay
<1>4. Parsed' = Parsed /\ Torn' = Torn
  BY <1>2 DEF Parsed, LinesOf, Parses, Torn
<1>5. inited'
  BY <1>1, <1>2 DEF EnsureInit
<1>6. ASSUME fd'
      PROVE  /\ \A u \in Threads : pc'[u] = "recorded" => line'[u] # NoLine
             /\ Cardinality(Parsed') + 2 * faults'
                  >= calls' - Cardinality(UnderWay') + One(Torn')
  <2>1. line'[t] # NoLine
    BY <1>1, <1>2, <1>6, LineAssumption
  <2>2. CASE inited
    BY <1>1, <1>2, <1>3, <1>4, <1>6, <2>1, <2>2, TornInvIs DEF EnsureInit
  <2>3. CASE ~inited
    <3>1. log = << >> /\ calls = Cardinality(UnderWay) /\ \A u \in Threads : pc[u] # "recorded"
      BY <2>3, TornInvIs
    <3>2. ~Torn
      BY <3>1 DEF Torn
    <3>3. One(Torn') = 0
      BY <1>4, <3>2 DEF One
    <3>4. Cardinality(Parsed) + 2 * faults >= calls - Cardinality(UnderWay) + 0
      BY <3>1, TornTypes
    <3>5. \A u \in Threads : pc'[u] = "recorded" => line'[u] # NoLine
      BY <1>1, <1>2, <2>1, <3>1
    <3> QED
      BY <1>2, <1>3, <1>4, <3>3, <3>4, <3>5
  <2> QED
    BY <2>2, <2>3
<1> QED
  BY <1>5, <1>6, TornInvNext

LEMMA TornFinish ==
  ASSUME TypeOK, TypeOK', TornInv, NEW t \in Threads, Finish(t)
  PROVE  TornInv'
<1>1. pc \in [Threads -> PCs] /\ line \in [Threads -> EventLines \cup {NoLine}]
  BY DEF TypeOK, ThreadTypes
<1>2. /\ pc[t] = "recorded" /\ pc' = [pc EXCEPT ![t] = "idle"]
      /\ line' = [line EXCEPT ![t] = NoLine] /\ fd' = fd /\ UNCHANGED <<inited, calls>>
      /\ IF line[t] # NoLine THEN Written(line[t]) ELSE UNCHANGED <<log, faults>>
  BY DEF Finish, g
<1>3. inited'
  BY <1>2, TornInvIs
<1>4. ASSUME fd'
      PROVE  /\ \A u \in Threads : pc'[u] = "recorded" => line'[u] # NoLine
             /\ Cardinality(Parsed') + 2 * faults'
                  >= calls' - Cardinality(UnderWay') + One(Torn')
  <2>1. /\ \A u \in Threads : pc[u] = "recorded" => line[u] # NoLine
        /\ Cardinality(Parsed) + 2 * faults >= calls - Cardinality(UnderWay) + One(Torn)
    BY <1>2, <1>4, TornInvIs
  <2>2. /\ line[t] \in Text /\ line[t].event \in Events /\ Written(line[t])
    BY <1>1, <1>2, <2>1 DEF Text, EventLines, Events
  <2>3. Cardinality(Parsed') + 2 * faults' + One(Torn)
          >= Cardinality(Parsed) + 2 * faults + One(Torn') + 1
    <3>1. One(line[t].event \in Events) = 1
      BY <2>2 DEF One
    <3> QED
      BY <2>2, <3>1, TornWritten
  <2>4. Cardinality(UnderWay') = Cardinality(UnderWay) - 1
    <3>1. UnderWay' = UnderWay \ {t} /\ t \in UnderWay
      BY <1>1, <1>2 DEF UnderWay
    <3> QED
      BY <3>1, UnderWayFinite, FS_RemoveElement
  <2>5. /\ calls \in Nat /\ Cardinality(UnderWay) \in Nat /\ Cardinality(Parsed) \in Nat
        /\ faults \in Nat /\ Cardinality(Parsed') \in Nat /\ faults' \in Nat
        /\ One(Torn) \in Int /\ One(Torn') \in Int /\ calls' = calls
    <3>1. Cardinality(Parsed') \in Nat /\ faults' \in Nat
      BY TornTypesNext
    <3> QED
      BY <1>2, <3>1, TornTypes, OneIs
  <2>6. Cardinality(Parsed') + 2 * faults' >= calls' - Cardinality(UnderWay') + One(Torn')
    BY <2>1, <2>3, <2>4, <2>5
  <2> QED
    BY <1>1, <1>2, <2>1, <2>6
<1> QED
  BY <1>3, <1>4, TornInvNext

LEMMA TornStep == TypeOK /\ TornInv /\ [Next]_vars => TornInv'
<1> SUFFICES ASSUME TypeOK, TypeOK', TornInv, [Next]_vars
             PROVE  TornInv'
  BY TypeStep
<1>1. /\ pc \in [Threads -> PCs] /\ Main \in Threads
      /\ calls \in Nat /\ Cardinality(UnderWay) \in Nat
  BY TornTypes, CpAssumption DEF TypeOK, ThreadTypes
<1>2. ASSUME NEW t \in Threads, OsCall(t)
      PROVE  TornInv'
  <2>1. /\ pc[t] = "idle" /\ pc' = [pc EXCEPT ![t] = "called"] /\ calls' = calls + 1
        /\ UNCHANGED <<inited, log, faults, line>> /\ fd' = fd
    BY <1>2 DEF OsCall, MapShared, MapFresh, UnmapWorks, UnmapFails, MapFails, UnmapNull,
                Called, g
  <2>2. UnderWay' = UnderWay \cup {t} /\ t \notin UnderWay
    BY <1>1, <2>1 DEF UnderWay
  <2>3. Cardinality(UnderWay') = Cardinality(UnderWay) + 1
    BY <2>2, UnderWayFinite, FS_AddElement
  <2>4. calls' - Cardinality(UnderWay') = calls - Cardinality(UnderWay) /\ calls' \in Nat
    BY <1>1, <2>1, <2>3
  <2> QED
    BY <1>1, <2>1, <2>4, TornFrame
<1>3. ASSUME NEW t \in Threads, Lock(t)
      PROVE  TornInv'
  <2>1. /\ pc[t] = "called" /\ pc' = [pc EXCEPT ![t] = "locked"]
        /\ UNCHANGED <<inited, log, calls, faults, line>> /\ fd' = fd
    BY <1>3 DEF Lock, g
  <2>2. UnderWay' = UnderWay
    BY <1>1, <2>1 DEF UnderWay
  <2> QED
    BY <1>1, <2>1, <2>2, TornFrame
<1>4. ASSUME NEW t \in Threads,
             \/ RecordMap(t) \/ RecordMapFailed(t)
             \/ RecordUnmap(t) \/ RecordUnmatched(t)
      PROVE  TornInv'
  <2>1. bytes' \in Int /\ tid' \in [Threads -> Nat]
    BY DEF TypeOK, GTypes, ThreadTypes
  <2>2. MapLine(t) \in EventLines /\ UnmapLine(t) \in EventLines
    BY <2>1, MapLineType, UnmapLineType
  <2> QED
    BY <1>4, <2>2, TornRecord DEF RecordMap, RecordMapFailed, RecordUnmap, RecordUnmatched
<1>5. CASE Exit \/ ExitLock \/ ExitSilent \/ Gone
  <2>1. UNCHANGED <<inited, log, calls, faults, line>> /\ fd' = fd
    BY <1>5 DEF Exit, ExitLock, ExitSilent, Gone, g
  <2>2. /\ pc[Main] \notin {"called", "locked", "recorded"}
        /\ \E p \in {"exit", "report", "closed", "gone"} : pc' = [pc EXCEPT ![Main] = p]
    BY <1>5 DEF Exit, ExitLock, ExitSilent, Gone
  <2>3. UnderWay' = UnderWay /\ \A t \in Threads : pc'[t] = "recorded" => pc[t] = "recorded"
    BY <1>1, <2>2 DEF UnderWay
  <2> QED
    BY <1>1, <2>1, <2>3, TornFrame
<1>6. ASSUME NEW a \in Addrs, ExitLine(a)
      PROVE  TornInv'
  <2> DEFINE text == [event |-> "live_at_exit", addr |-> a, size |-> live[a]]
  <2>1. fd /\ Written(text) /\ UNCHANGED <<pc, inited, calls, line>> /\ fd' = fd
    BY <1>6 DEF ExitLine, g
  <2>2. text \in Text /\ text.event \notin Events
    BY FinalText DEF Events
  <2> HIDE DEF text
  <2>3. UnderWay' = UnderWay
    BY <2>1 DEF UnderWay
  <2>4. Cardinality(Parsed') + 2 * faults' + One(Torn)
          >= Cardinality(Parsed) + 2 * faults + One(Torn') + 0
    <3>1. One(text.event \in Events) = 0
      BY <2>2 DEF One
    <3> QED
      BY <2>1, <2>2, <3>1, TornWritten
  <2>5. /\ Cardinality(Parsed) \in Nat /\ faults \in Nat /\ Cardinality(Parsed') \in Nat
        /\ faults' \in Nat /\ One(Torn) \in Int /\ One(Torn') \in Int
    BY TornTypes, TornTypesNext, OneIs
  <2>6. inited /\ Cardinality(Parsed) + 2 * faults >= calls - Cardinality(UnderWay) + One(Torn)
    BY <2>1, TornInvIs
  <2>7. Cardinality(Parsed') + 2 * faults' >= calls - Cardinality(UnderWay) + One(Torn')
    BY <1>1, <2>4, <2>5, <2>6
  <2> QED
    BY <2>1, <2>3, <2>6, <2>7, TornInvIs, TornInvNext
<1>7. CASE ExitSummary
  <2>1. fd /\ ~fd' /\ inited' = inited
    BY <1>7 DEF ExitSummary
  <2> QED
    BY <2>1, TornInvIs, TornInvNext
<1>8. CASE UNCHANGED vars
  <2>1. UNCHANGED <<inited, log, calls, faults, line, pc>> /\ fd' = fd
    BY <1>8 DEF vars, g
  <2>2. UnderWay' = UnderWay
    BY <2>1 DEF UnderWay
  <2> QED
    BY <1>1, <2>1, <2>2, TornFrame
<1> QED
  BY <1>2, <1>3, <1>4, <1>5, <1>6, <1>7, <1>8, TornFinish DEF Next, Exiting, Profile

-----------------------------------------------------------------------------
(* The theorems.                                                           *)

\* What is shown of every step at once: the parts that the proofs of the others
\* rest on, and the three properties that speak of earlier lines.
LogIInv ==
  /\ TypeOK /\ LockInv /\ CallInv /\ RefInv /\ PlainInv /\ FileInv
  /\ LogInv /\ LinesTell /\ Ends

LEMMA LogInit == Init => LogIInv
BY TypeInit, LockInit, RefInit, PlainInit, FileInit, LineInit, ToldInit, BytesInit,
   ExitInit, LinesTellInit, EndsInit
   DEF LogIInv, LogInv

LEMMA LogStep == LogIInv /\ [Next]_vars => LogIInv'
<1> SUFFICES ASSUME LogIInv, [Next]_vars
             PROVE  LogIInv'
  OBVIOUS
<1>1. /\ TypeOK /\ LockInv /\ CallInv /\ RefInv /\ PlainInv /\ FileInv
      /\ ToldInv /\ LineInv /\ ExitInv /\ BytesInv /\ LinesTell /\ Ends
  BY DEF LogIInv, LogInv
<1>2. TypeOK' /\ LockInv' /\ CallInv' /\ RefInv' /\ PlainInv' /\ FileInv'
  BY <1>1, TypeStep, LockStep, CallStep, RefStep, PlainStep, FileStep
<1>3. ToldInv' /\ LineInv' /\ ExitInv' /\ BytesInv'
  BY <1>1, ToldStep, LineStep, ExitStep, BytesStep
<1>4. LinesTell'
  BY <1>1, <1>2, <1>3, LinesTellStep
<1>5. Ends'
  BY <1>1, EndsStep
<1> QED
  BY <1>2, <1>3, <1>4, <1>5 DEF LogIInv, LogInv

\* The file lacks no record but the one that is being written, a line waits only
\* while the file is open, profiler_atexit has reported the entries it has
\* passed, and live_bytes is exact as long as the OS is plain.
THEOREM LogTold == Spec => []LogInv
<1>1. LogIInv => LogInv
  BY DEF LogIInv
<1> QED
  BY <1>1, LogInit, LogStep, PTL DEF Spec

\* For any number of threads and whatever their calls interleave to: without
\* faults, analyze_profile.py arrives at the live set the profiler holds whenever
\* no line is about to be written.
THEOREM LogReplaysLive == Spec => []LogReplays
<1>1. LogIInv => LogReplays
  <2> SUFFICES ASSUME LogIInv, fd, faults = 0, \A t \in Threads : pc[t] # "recorded"
               PROVE  Replay(Len(log)) = live
    BY DEF LogReplays
  <2>1. TypeOK /\ LineInv /\ ToldInv /\ Writing = {}
    BY DEF LogIInv, LogInv, Writing
  <2>2. live \in LiveSets /\ Agrees(Records, live, bytes, stats)
    BY <2>1, ToldInvIs DEF TypeOK, GTypes, LiveSets
  <2> QED
    BY <2>1, <2>2, ReplaysLive
<1> QED
  BY <1>1, LogInit, LogStep, PTL DEF Spec

\* live_count and live_bytes of every line (lb_common_tail) are those of the live
\* set a reader has after that line; the bytes as long as the OS is plain.
THEOREM LogLinesTell == Spec => []LinesTell
<1>1. LogIInv => LinesTell
  BY DEF LogIInv
<1> QED
  BY <1>1, LogInit, LogStep, PTL DEF Spec

\* The summary of profiler_atexit is the last line, and its totals and peaks are
\* those of the lines before it and those that correlate finds.
THEOREM LogSummaryAgrees == Spec => []SummaryAgrees
<1>1. LogIInv => SummaryAgrees
  BY EndsIs DEF LogIInv
<1> QED
  BY <1>1, LogInit, LogStep, PTL DEF Spec

\* The live_at_exit lines of profiler_atexit are what correlate finds never freed.
THEOREM LogExitLinesAgree == Spec => []ExitLinesAgree
<1>1. LogIInv => ExitLinesAgree
  BY EndsIs DEF LogIInv
<1> QED
  BY <1>1, LogInit, LogStep, PTL DEF Spec

\* For any number of failed or short writes of mm_write_all: each costs at most
\* two lines, wherever it strikes and whoever writes next.
THEOREM TornLinesCostTwo == Spec => []TornCostsTwo
<1>1. Init => TypeOK /\ TornInv
  BY TypeInit, TornInit
<1>2. TypeOK /\ TornInv /\ [Next]_vars => (TypeOK /\ TornInv)'
  BY TypeStep, TornStep
<1>3. TypeOK /\ TornInv => TornCostsTwo
  <2> SUFFICES ASSUME TypeOK, TornInv, fd
               PROVE  Cardinality(Parsed) + 2 * faults >= calls - Cardinality(UnderWay)
    BY DEF TornCostsTwo, Parsed
  <2>1. Cardinality(Parsed) + 2 * faults >= calls - Cardinality(UnderWay) + One(Torn)
    BY TornInvIs
  <2> QED
    BY <2>1, TornTypes, OneIs
<1> QED
  BY <1>1, <1>2, <1>3, PTL DEF Spec
=============================================================================
