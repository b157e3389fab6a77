----------------------------- MODULE CpProfiler -----------------------------
(***************************************************************************)
(* The control-plane profiler: threads that call the Platform_Shm*         *)
(* wrappers (src/platform_shm.c), the OS below them, and the file backend  *)
(* of src/profiler/shm_profiler.c that records each call.                  *)
(*                                                                         *)
(* A wrapper makes the OS call first and records it afterwards; only the   *)
(* recording is under the spin lock.  So what the profiler sees may be in  *)
(* another order than what the OS did.  The live set is the map of module  *)
(* LiveSet.  Names, flags, times and the text of a line are left out; a    *)
(* line is a record of the fields the properties read.  Every write goes   *)
(* straight to the file, so the states of `log` are what a process that is *)
(* killed at that point leaves behind.                                     *)
(***************************************************************************)
EXTENDS Integers, Sequences, FiniteSets

CONSTANTS
  Threads, Main,      \* Main is the thread that calls exit()
  Addrs, NULL,        \* addresses the OS may give out; the null pointer
  Sizes, NoEntry,     \* sizes of regions; no entry in the live set
  NoLine,
  Sharing,            \* the OS attaches a second map of a name to its region
  UnmapMayFail,       \* ShmUnmap may return < 0, leaving the region mapped
  OpenMayFail,        \* mm_open may return -1
  MaxCalls,           \* bound: wrapper calls made
  MaxFaults           \* bound: write() calls that fail or stop half way

ASSUME CpAssumption ==
  /\ Main \in Threads /\ IsFiniteSet(Threads) /\ IsFiniteSet(Addrs)
  /\ NULL \notin Addrs /\ NULL \notin Threads
  /\ Sizes \subseteq Nat \ {0} /\ NoEntry \notin Sizes \cup {0}
  /\ Sharing \in BOOLEAN /\ UnmapMayFail \in BOOLEAN /\ OpenMayFail \in BOOLEAN
  /\ MaxCalls \in Nat /\ MaxFaults \in Nat

VARIABLES
  refs, regionSize,   \* the OS: references to each address, size of its region
  plain,              \* history: so far the OS has shared no region, refused no
                      \* unmap, and given out no address whose unmap was yet to
                      \* be recorded
  given,              \* how often a caller holds each address
  pc, call,           \* where each thread is, and the OS call it has to record
  lock,               \* g_lock: the thread that holds it, or NULL
  inited, fd,         \* g.inited; whether g.fd >= 0
  live, bytes,        \* g.live as a map from addresses to sizes; g.live_bytes
  stats,              \* the peaks and totals of g
  tids, tid,          \* g.tid_counter, and t_tid of each thread
  line,               \* buf of each thread
  left,               \* profiler_atexit: entries its loop has not reported
  log,                \* the file: a sequence of [rec, whole]
  calls, faults       \* counters that bound the model

osVars == <<refs, regionSize, plain>>
g == <<inited, fd, live, bytes, stats, tids>>
vars == <<osVars, given, pc, call, lock, g, tid, line, left, log, calls, faults>>

-----------------------------------------------------------------------------
NoCall == [op |-> "none", addr |-> NULL, size |-> 0, ret |-> 0]

NoStats == [peakCount |-> 0, peakBytes |-> 0, maps |-> 0, failures |-> 0,
            unmaps |-> 0, unmatched |-> 0]

Larger(m, n) == IF m >= n THEN m ELSE n

\* The addresses of a live set m, and how many there are (g.live.count).
LiveAddrs(m) == {a \in Addrs : m[a] # NoEntry}
Count(m) == Cardinality(LiveAddrs(m))

Running == pc[Main] # "gone"

Init ==
  /\ refs = [a \in Addrs |-> 0] /\ regionSize = [a \in Addrs |-> 0]
  /\ plain = TRUE
  /\ given = [a \in Addrs |-> 0]
  /\ pc = [t \in Threads |-> "idle"] /\ call = [t \in Threads |-> NoCall]
  /\ lock = NULL
  /\ inited = FALSE /\ fd = FALSE
  /\ live = [a \in Addrs |-> NoEntry] /\ bytes = 0
  /\ stats = NoStats
  /\ tids = 0 /\ tid = [t \in Threads |-> 0] /\ line = [t \in Threads |-> NoLine]
  /\ left = {} /\ log = << >>
  /\ calls = 0 /\ faults = 0

-----------------------------------------------------------------------------
(* The wrappers: the OS call comes first, its result waits to be recorded. *)

\* The OS has been called; the arguments and result are the thread's own.
Called(t, op, a, s, ret) ==
  /\ Running /\ pc[t] = "idle" /\ calls < MaxCalls
  /\ call' = [call EXCEPT ![t] = [op |-> op, addr |-> a, size |-> s, ret |-> ret]]
  /\ pc' = [pc EXCEPT ![t] = "called"]
  /\ calls' = calls + 1
  /\ UNCHANGED <<lock, g, tid, line, left, log, faults>>

\* A thread that has called the OS and not yet updated the live set.
Pending(t, op, a) ==
  /\ pc[t] \in {"called", "locked"} /\ call[t].op = op /\ call[t].addr = a

\* ShmMap or ShmMapOnPg makes a region at an address that is free.
MapFresh(t, a, s) ==
  /\ refs[a] = 0
  /\ refs' = [refs EXCEPT ![a] = 1]
  /\ regionSize' = [regionSize EXCEPT ![a] = s]
  /\ plain' = (plain /\ \A u \in Threads : ~Pending(u, "unmap", a))
  /\ Called(t, "map", a, s, 1)
  /\ UNCHANGED given

\* The name is mapped already: same address, and the new reference count.
MapShared(t, a) ==
  /\ Sharing /\ refs[a] > 0
  /\ refs' = [refs EXCEPT ![a] = @ + 1]
  /\ plain' = FALSE
  /\ Called(t, "map", a, regionSize[a], refs[a] + 1)
  /\ UNCHANGED <<regionSize, given>>

\* No address is handed to the profiler when the OS call has failed.  The line has
\* the size that was asked for, which nothing reads: 0 stands for it.
MapFails(t) ==
  /\ Called(t, "map", NULL, 0, -1)
  /\ UNCHANGED <<osVars, given>>

\* A caller gives back an address it holds; the OS drops a reference ...
UnmapWorks(t, a) ==
  /\ given[a] > 0
  /\ given' = [given EXCEPT ![a] = @ - 1]
  /\ refs' = [refs EXCEPT ![a] = @ - 1]
  /\ Called(t, "unmap", a, 0, 0)
  /\ UNCHANGED <<regionSize, plain>>

\* ... or refuses to, and the caller still holds it.
UnmapFails(t, a) ==
  /\ UnmapMayFail /\ given[a] > 0
  /\ plain' = FALSE
  /\ Called(t, "unmap", a, 0, -1)
  /\ UNCHANGED <<refs, regionSize, given>>

\* ShmUnmap(NULL), which free() accepts.
UnmapNull(t) ==
  /\ Called(t, "unmap", NULL, 0, 0)
  /\ UNCHANGED <<osVars, given>>

-----------------------------------------------------------------------------
(* shm_profiler_on_map and shm_profiler_on_unmap.                          *)

Lock(t) ==
  /\ Running /\ pc[t] = "called" /\ lock = NULL
  /\ lock' = t
  /\ pc' = [pc EXCEPT ![t] = "locked"]
  /\ UNCHANGED <<osVars, given, call, g, tid, line, left, log, calls, faults>>

\* ensure_init: the first record opens the file, once and for all.
EnsureInit ==
  IF inited THEN UNCHANGED <<inited, fd>>
  ELSE inited' = TRUE /\ fd' \in IF OpenMayFail THEN BOOLEAN ELSE {TRUE}

\* A thread gets its id at its first record.
EnsureTid(t) ==
  IF tid[t] # 0 THEN UNCHANGED <<tids, tid>>
  ELSE tids' = tids + 1 /\ tid' = [tid EXCEPT ![t] = tids + 1]

\* Mutant: the count from before the event.
MutCountTail(t) == [count |-> Count(live), bytes |-> bytes', tid |-> tid'[t]]

\* lb_common_tail: the live set after the event, and the thread.
CommonTail(t) == [count |-> Count(live'), bytes |-> bytes', tid |-> tid'[t]]

\* Mutant: the lock is released before the line is written.
MutRecord(t, op, text) ==
  /\ Running /\ pc[t] = "locked" /\ call[t].op = op
  /\ EnsureInit /\ EnsureTid(t)
  /\ line' = [line EXCEPT ![t] = IF fd' THEN text ELSE NoLine]
  /\ pc' = [pc EXCEPT ![t] = "recorded"]
  /\ lock' = NULL
  /\ UNCHANGED <<osVars, given, call, left, log, calls, faults>>

\* What every record does under the lock around its own part: open the file,
\* name the thread and, if there is a file, format the line.
Record(t, op, text) ==
  /\ Running /\ pc[t] = "locked" /\ call[t].op = op
  /\ EnsureInit /\ EnsureTid(t)
  /\ line' = [line EXCEPT ![t] = IF fd' THEN text ELSE NoLine]
  /\ pc' = [pc EXCEPT ![t] = "recorded"]
  /\ UNCHANGED <<osVars, given, call, lock, left, log, calls, faults>>

MapLine(t) ==
  [event |-> "map", addr |-> call[t].addr, size |-> call[t].size,
   ret |-> call[t].ret, tail |-> CommonTail(t)]

\* Mutant: the peaks are taken before the update.
MutRecordMapPeak(t) ==
  LET c == call[t] IN
  /\ c.ret >= 0 /\ c.addr # NULL
  /\ live' = [live EXCEPT ![c.addr] = c.size]
  /\ bytes' = bytes + c.size
  /\ stats' = [stats EXCEPT !.maps = @ + 1,
                            !.peakCount = Larger(@, Count(live)),
                            !.peakBytes = Larger(@, bytes)]
  /\ Record(t, "map", MapLine(t))

\* Mutant: an address that is in the live set already adds nothing to bytes.
MutRecordMapBytes(t) ==
  LET c == call[t] IN
  /\ c.ret >= 0 /\ c.addr # NULL
  /\ live' = [live EXCEPT ![c.addr] = c.size]
  /\ bytes' = IF live[c.addr] = NoEntry THEN bytes + c.size ELSE bytes
  /\ stats' = [stats EXCEPT !.maps = @ + 1,
                            !.peakCount = Larger(@, Count(live')),
                            !.peakBytes = Larger(@, bytes')]
  /\ Record(t, "map", MapLine(t))

\* shm_profiler_on_map of a map that worked: table_put, live_bytes, the peaks.
RecordMap(t) ==
  LET c == call[t] IN
  /\ c.ret >= 0 /\ c.addr # NULL
  /\ live' = [live EXCEPT ![c.addr] = c.size]
  /\ bytes' = bytes + c.size
  /\ stats' = [stats EXCEPT !.maps = @ + 1,
                            !.peakCount = Larger(@, Count(live')),
                            !.peakBytes = Larger(@, bytes')]
  /\ Record(t, "map", MapLine(t))

\* shm_profiler_on_map of one that did not.
RecordMapFailed(t) ==
  /\ ~(call[t].ret >= 0 /\ call[t].addr # NULL)
  /\ stats' = [stats EXCEPT !.maps = @ + 1,
                            !.failures = IF call[t].ret < 0 THEN @ + 1 ELSE @]
  /\ UNCHANGED <<live, bytes>>
  /\ Record(t, "map", MapLine(t))

\* table_find on the live set.
Found(a) == a \in Addrs /\ live[a] # NoEntry

UnmapLine(t) ==
  LET a == call[t].addr IN
  [event |-> "unmap", addr |-> a, ret |-> call[t].ret, matched |-> Found(a),
   size |-> IF Found(a) THEN live[a] ELSE 0, tail |-> CommonTail(t)]

\* Mutant: the entry is not erased.
MutRecordUnmapKeeps(t) ==
  /\ Found(call[t].addr)
  /\ bytes' = bytes - live[call[t].addr]
  /\ stats' = [stats EXCEPT !.unmaps = @ + 1]
  /\ UNCHANGED live
  /\ Record(t, "unmap", UnmapLine(t))

\* shm_profiler_on_unmap of an address in the live set: table_erase.  What the
\* OS call returned plays no part.
RecordUnmap(t) ==
  LET a == call[t].addr IN
  /\ Found(a)
  /\ live' = [live EXCEPT ![a] = NoEntry]
  /\ bytes' = bytes - live[a]
  /\ stats' = [stats EXCEPT !.unmaps = @ + 1]
  /\ Record(t, "unmap", UnmapLine(t))

\* shm_profiler_on_unmap of an address that is not there.
RecordUnmatched(t) ==
  /\ ~Found(call[t].addr)
  /\ stats' = [stats EXCEPT !.unmaps = @ + 1, !.unmatched = @ + 1]
  /\ UNCHANGED <<live, bytes>>
  /\ Record(t, "unmap", UnmapLine(t))

\* Mutant: the newline is lost.
MutWritten(text) ==
  /\ log' = Append(log, [rec |-> text, whole |-> FALSE])
  /\ UNCHANGED faults

\* mm_write_all: the whole line, or a part of it without its newline, possibly
\* nothing.  A short write is followed by another for the rest; one that fails is
\* not, not even for EINTR, and the rest of the line is lost.
Written(text) ==
  \/ /\ log' = Append(log, [rec |-> text, whole |-> TRUE])
     /\ UNCHANGED faults
  \/ /\ faults < MaxFaults
     /\ faults' = faults + 1
     /\ log' \in {log, Append(log, [rec |-> text, whole |-> FALSE])}

\* Mutants: an OS call that failed leaves no line; the lock is not released.
MutFinishQuiet(t) ==
  /\ Running /\ pc[t] = "recorded"
  /\ IF line[t] # NoLine /\ call[t].ret >= 0
     THEN Written(line[t]) ELSE UNCHANGED <<log, faults>>
  /\ line' = [line EXCEPT ![t] = NoLine]
  /\ lock' = NULL
  /\ pc' = [pc EXCEPT ![t] = "idle"]
  /\ given' = IF call[t].op = "map" /\ call[t].ret > 0
              THEN [given EXCEPT ![call[t].addr] = @ + 1] ELSE given
  /\ call' = [call EXCEPT ![t] = NoCall]
  /\ UNCHANGED <<osVars, g, tid, left, calls>>
MutFinishLocked(t) ==
  /\ Running /\ pc[t] = "recorded"
  /\ IF line[t] # NoLine THEN Written(line[t]) ELSE UNCHANGED <<log, faults>>
  /\ line' = [line EXCEPT ![t] = NoLine]
  /\ pc' = [pc EXCEPT ![t] = "idle"]
  /\ given' = IF call[t].op = "map" /\ call[t].ret > 0
              THEN [given EXCEPT ![call[t].addr] = @ + 1] ELSE given
  /\ call' = [call EXCEPT ![t] = NoCall]
  /\ UNCHANGED <<osVars, lock, g, tid, left, calls>>

\* The line is written, the lock released, and the wrapper returns.
Finish(t) ==
  /\ Running /\ pc[t] = "recorded"
  /\ IF line[t] # NoLine THEN Written(line[t]) ELSE UNCHANGED <<log, faults>>
  /\ line' = [line EXCEPT ![t] = NoLine]
  /\ lock' = NULL
  /\ pc' = [pc EXCEPT ![t] = "idle"]
  /\ given' = IF call[t].op = "map" /\ call[t].ret > 0
              THEN [given EXCEPT ![call[t].addr] = @ + 1] ELSE given
  /\ call' = [call EXCEPT ![t] = NoCall]
  /\ UNCHANGED <<osVars, g, tid, left, calls>>

-----------------------------------------------------------------------------
(* exit(): profiler_atexit runs while the other threads still do.          *)

\* Without a first record no handler is registered.
Exit ==
  /\ pc[Main] = "idle"
  /\ pc' = [pc EXCEPT ![Main] = IF inited THEN "exit" ELSE "closed"]
  /\ UNCHANGED <<osVars, given, call, lock, g, tid, line, left, log, calls, faults>>

\* Mutant: profiler_atexit does not take the lock.
MutExitLock ==
  /\ pc[Main] = "exit"
  /\ pc' = [pc EXCEPT ![Main] = "report"]
  /\ left' = LiveAddrs(live)
  /\ UNCHANGED <<osVars, given, call, lock, g, tid, line, log, calls, faults>>

ExitLock ==
  /\ pc[Main] = "exit" /\ lock = NULL
  /\ lock' = Main
  /\ pc' = [pc EXCEPT ![Main] = "report"]
  /\ left' = LiveAddrs(live)
  /\ UNCHANGED <<osVars, given, call, g, tid, line, log, calls, faults>>

\* One iteration that finds a used slot; slot order is any order.
ExitLine(a) ==
  /\ pc[Main] = "report" /\ fd /\ a \in left
  /\ left' = left \ {a}
  /\ Written([event |-> "live_at_exit", addr |-> a, size |-> live[a]])
  /\ UNCHANGED <<osVars, given, pc, call, lock, g, tid, line, calls>>

Summary == [event |-> "summary", totals |-> stats, stillLive |-> Count(live)]

\* The summary line; then the file is closed and the lock released.
ExitSummary ==
  /\ pc[Main] = "report" /\ fd /\ left = {}
  /\ Written(Summary)
  /\ fd' = FALSE
  /\ lock' = NULL
  /\ pc' = [pc EXCEPT ![Main] = "closed"]
  /\ UNCHANGED <<osVars, given, call, inited, live, bytes, stats, tids, tid,
                 line, left, calls>>

\* Mutant: profiler_atexit gives up although the file is open.
MutExitSilent ==
  /\ pc[Main] = "report"
  /\ lock' = NULL /\ left' = {}
  /\ pc' = [pc EXCEPT ![Main] = "closed"]
  /\ UNCHANGED <<osVars, given, call, g, tid, line, log, calls, faults>>

\* The file was never opened: nothing to report.
ExitSilent ==
  /\ pc[Main] = "report" /\ ~fd
  /\ lock' = NULL /\ left' = {}
  /\ pc' = [pc EXCEPT ![Main] = "closed"]
  /\ UNCHANGED <<osVars, given, call, g, tid, line, log, calls, faults>>

\* The process ends, whatever the other threads are doing.
Gone ==
  /\ pc[Main] = "closed"
  /\ pc' = [pc EXCEPT ![Main] = "gone"]
  /\ UNCHANGED <<osVars, given, call, lock, g, tid, line, left, log, calls, faults>>

-----------------------------------------------------------------------------
OsCall(t) ==
  \/ \E a \in Addrs : MapShared(t, a) \/ UnmapWorks(t, a) \/ UnmapFails(t, a)
  \/ \E a \in Addrs, s \in Sizes : MapFresh(t, a, s)
  \/ MapFails(t) \/ UnmapNull(t)

Profile(t) ==
  \/ Lock(t) \/ Finish(t)
  \/ RecordMap(t) \/ RecordMapFailed(t) \/ RecordUnmap(t) \/ RecordUnmatched(t)

Exiting ==
  \/ ExitLock \/ ExitSummary \/ ExitSilent \/ Gone
  \/ \E a \in Addrs : ExitLine(a)

Next == Exit \/ Exiting \/ \E t \in Threads : OsCall(t) \/ Profile(t)

Spec == Init /\ [][Next]_vars

\* A thread inside a wrapper, or in exit(), is scheduled again.  A caller need
\* not make calls, and nobody need call exit().
FairSpec == Spec /\ WF_vars(Exiting) /\ \A t \in Threads : WF_vars(Profile(t))

-----------------------------------------------------------------------------
Calls == [op : {"none", "map", "unmap"}, addr : Addrs \cup {NULL},
          size : Sizes \cup {0}, ret : Int]

Totals == [peakCount : Nat, peakBytes : Int, maps : Nat, failures : Nat,
           unmaps : Nat, unmatched : Nat]

Tails == [count : Nat, bytes : Int, tid : Nat]

EventLines ==
  [event : {"map"}, addr : Addrs \cup {NULL}, size : Sizes \cup {0}, ret : Int,
   tail : Tails]
  \cup
  [event : {"unmap"}, addr : Addrs \cup {NULL}, ret : Int, matched : BOOLEAN,
   size : Sizes \cup {0}, tail : Tails]

ASSUME LineAssumption == NoLine \notin EventLines

FinalLines ==
  [event : {"live_at_exit"}, addr : Addrs, size : Sizes \cup {0, NoEntry}]
  \cup
  [event : {"summary"}, totals : Totals, stillLive : Nat]

Chunks == [rec : EventLines \cup FinalLines, whole : BOOLEAN]

PCs == {"idle", "called", "locked", "recorded", "exit", "report", "closed", "gone"}

OsTypes ==
  /\ refs \in [Addrs -> Int] /\ given \in [Addrs -> Nat]
  /\ regionSize \in [Addrs -> Sizes \cup {0}] /\ plain \in BOOLEAN

ThreadTypes ==
  /\ pc \in [Threads -> PCs] /\ call \in [Threads -> Calls]
  /\ tid \in [Threads -> Nat]
  /\ line \in [Threads -> EventLines \cup {NoLine}]

GTypes ==
  /\ lock \in Threads \cup {NULL}
  /\ inited \in BOOLEAN /\ fd \in BOOLEAN
  /\ live \in [Addrs -> Sizes \cup {0, NoEntry}] /\ bytes \in Int
  /\ stats \in Totals /\ tids \in Nat

FileTypes ==
  /\ left \subseteq Addrs /\ log \in Seq(Chunks)
  /\ calls \in 0 .. MaxCalls /\ faults \in 0 .. MaxFaults

TypeOK == OsTypes /\ ThreadTypes /\ GTypes /\ FileTypes

(* The lock and the OS.                                                    *)

InSection(t) == pc[t] \in {"locked", "recorded", "report"}

\* From its update of g to the end of its write a thread is alone.
OneInSection ==
  \A s, t \in Threads : InSection(s) /\ InSection(t) => s = t

\* Why: the lock is the thread's.
LockInv == \A t \in Threads : InSection(t) => lock = t

\* The profiler errs on one side only: whatever the threads' OS calls and
\* records interleave to, an address in the live set is mapped, unless an
\* unmap of it has yet to be recorded.
NoPhantoms ==
  \A a \in Addrs : live[a] # NoEntry =>
    refs[a] > 0 \/ \E t \in Threads : Pending(t, "unmap", a)

\* Why: a reference is held by a caller, or by a map that has not returned.
Mapping(a) == {t \in Threads : call[t].op = "map" /\ call[t].addr = a}
RefInv == \A a \in Addrs : refs[a] = given[a] + Cardinality(Mapping(a))
CallInv ==
  \A t \in Threads :
    /\ call[t].op = "map" => (call[t].ret > 0 <=> call[t].addr # NULL)
    /\ pc[t] \notin {"called", "locked", "recorded"} => call[t].op = "none"

\* If the OS never shares a region or refuses an unmap, and gives out no address
\* whose unmap is yet to be recorded, the live set is what is mapped.
LiveIsMapped ==
  plain /\ (\A t \in Threads : pc[t] \notin {"called", "locked"}) =>
    \A a \in Addrs : live[a] = IF refs[a] > 0 THEN regionSize[a] ELSE NoEntry

\* Why: of each address at most one call is yet to be recorded, and the live set
\* says what it will have to be by then.
Waits(t, a) == Pending(t, "map", a) \/ Pending(t, "unmap", a)
PlainAt(a) ==
  /\ \A t, u \in Threads : Waits(t, a) /\ Waits(u, a) => t = u
  /\ refs[a] \in {0, 1}
  /\ refs[a] = 1 => regionSize[a] \in Sizes
  /\ \A t \in Threads :
       /\ Pending(t, "map", a) =>
            refs[a] = 1 /\ call[t].size = regionSize[a] /\ live[a] = NoEntry
       /\ Pending(t, "unmap", a) =>
            refs[a] = 0 /\ regionSize[a] \in Sizes /\ live[a] = regionSize[a]
  /\ (\A t \in Threads : ~Waits(t, a)) =>
       live[a] = IF refs[a] = 1 THEN regionSize[a] ELSE NoEntry
PlainInv == plain => \A a \in Addrs : PlainAt(a)

(* The file.                                                               *)

Events == {"map", "unmap"}

LinesOf(S) == {n \in DOMAIN log : log[n].rec.event \in S}

\* Calls made and not yet recorded in the file.
UnderWay == {t \in Threads : pc[t] \in {"called", "locked", "recorded"}}

\* While the file is open, a call that has returned is in it: a process that
\* is killed loses the calls that were under way and no other.
ReturnedIsLogged ==
  fd /\ faults = 0 =>
    Cardinality(LinesOf(Events)) = calls - Cardinality(UnderWay)

\* Why: before the first record there is no file and no call is done.
FileInv ==
  faults = 0 =>
    /\ ~inited => /\ ~fd /\ log = << >> /\ calls = Cardinality(UnderWay)
                  /\ \A t \in Threads : pc[t] # "recorded"
    /\ fd => /\ Cardinality(LinesOf(Events)) = calls - Cardinality(UnderWay)
             /\ \A t \in Threads : pc[t] = "recorded" => line[t] # NoLine

IInv == TypeOK /\ LockInv /\ CallInv /\ RefInv /\ NoPhantoms /\ PlainInv /\ FileInv
=============================================================================
