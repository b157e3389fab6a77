-------------------------------- MODULE Fleet --------------------------------
(***************************************************************************)
(* Processes that share named regions of one OS, each with the profiler    *)
(* built in, and the tools that read what they leave behind: all records,  *)
(* in one file or several, and the log the OS keeps of the regions it has  *)
(* made.                                                                   *)
(*                                                                         *)
(* A call and its record are one step: what other threads of the process   *)
(* do in between is the matter of CpProfiler.  A process may die between   *)
(* the two, its pid may be given out again, and the clock that stamps the  *)
(* records may be set back.  A name that a process maps again is at the    *)
(* address it has already, with one more reference, and the OS may refuse  *)
(* a map and an unmap: so what a process has mapped, which the OS knows,   *)
(* is one thing, and what its profiler takes it to have is another.        *)
(***************************************************************************)
EXTENDS CrossCheck

CONSTANTS
  Procs, Cp,       \* pids; those on the control plane, which use ShmMapOnPg
  Flags,           \* what GetShmFlags tells each of them
  Names, Asked,    \* names of regions, sizes that are asked for
  OldLines,        \* what is in the OS's log before
  MaxCalls,        \* bound: wrapper calls made
  MaxEnds,         \* bound: processes that end
  MaxClock         \* bound: the clock

\* An entry of the profiler's table, and what the OS knows of a region that a
\* process has mapped: where, asked for with which size and since when, and how
\* many references the process has.
Region == [addr : Nat, size : Nat, since : Nat]
Mapping == [addr : Nat, size : Nat, since : Nat, refs : Nat \ {0}]

ASSUME FleetAssumption ==
  /\ IsFiniteSet(Procs) /\ Cp \subseteq Procs /\ IsFiniteSet(Names)
  /\ NULL \notin Names \cup Int \cup Region \cup Mapping
  /\ Flags \in [Procs -> 0 .. 5] /\ Asked \subseteq Nat \ {0} /\ IsFiniteSet(Asked)
  /\ MaxCalls \in Nat /\ MaxEnds \in Nat /\ MaxClock \in Nat /\ Granule \in Nat \ {0}

\* What is in the OS's log before is not about these names.
ASSUME LogAssumption ==
  /\ Asked # {} /\ OldLines \in Seq(Range(OldLines))
  /\ \A k \in DOMAIN OldLines : OldLines[k].words >= 4 => OldLines[k].name \notin Names

VARIABLES
  clock, stepped,  \* now_ns; whether it has been set back
  up, runs,        \* the processes that run; how often each has started
  mapped,          \* the OS: of each process, what it has mapped of each name
  region,          \* the OS: size of the region of each name, 0 for none
  osLog,           \* the OS's log
  held,            \* g.live of each process, by name: a Region
  bytes, peak,     \* g.live_bytes; g.peak_count and g.peak_bytes
  inited,          \* the processes whose profiler has recorded a call
  most,            \* history: the most any process had mapped, and the OS's peaks
  done, last,      \* of each process: lifetimes of what it freed, its last event
  unknown,         \* unmaps of addresses that were not mapped
  odd,             \* of each process, names it mapped again, or the OS did not unmap
  lost,            \* names of regions whose maker died before it recorded them
  file,            \* the records, in the order they were written
  calls, ends

osVars == <<mapped, region, osLog>>
profiler == <<held, bytes, peak, inited>>
history == <<most, done, last, unknown, odd, lost>>
vars == <<clock, stepped, up, runs, osVars, profiler, history, file, calls, ends>>

-----------------------------------------------------------------------------
\* The names a process has mapped, and the addresses they are at.
Mapped(p) == {n \in Names : mapped[p][n] # NULL}
Taken(p) == {mapped[p][n].addr : n \in Mapped(p)}
Free(p) == Min((1 .. Cardinality(Names) + 1) \ Taken(p))

\* The names its profiler has an entry of.
Listed(p) == {n \in Names : held[p][n] # NULL}

\* The references all processes have to a name.
References(n) == Total([p \in {q \in up : n \in Mapped(q)} |-> mapped[p][n].refs])

Nothing == [n \in Names |-> NULL]
NoPeak == [count |-> 0, bytes |-> 0]

Init ==
  /\ clock = 0 /\ stepped = FALSE
  /\ up = Procs /\ runs = [p \in Procs |-> 1]
  /\ mapped = [p \in Procs |-> Nothing]
  /\ region = [n \in Names |-> 0] /\ osLog = OldLines
  /\ held = [p \in Procs |-> Nothing] /\ bytes = [p \in Procs |-> 0]
  /\ peak = [p \in Procs |-> NoPeak] /\ inited = {}
  /\ most = [count |-> 0, bytes |-> 0, os |-> 0, cost |-> 0]
  /\ done = [p \in Procs |-> << >>] /\ last = [p \in Procs |-> NULL] /\ unknown = 0
  /\ odd = [p \in Procs |-> {}] /\ lost = {}
  /\ file = << >> /\ calls = 0 /\ ends = 0

\* The profiler writes its records, with its pid and the time.
Stamped(p, r) ==
  [f \in DOMAIN r \cup {"pid", "ts"} |->
     CASE f = "pid" -> p [] f = "ts" -> clock [] OTHER -> r[f]]

Write(p, records) ==
  file' = file \o [k \in DOMAIN records |-> [rec |-> Stamped(p, records[k]), whole |-> TRUE]]

\* The record of a call.
Record(p, r) ==
  /\ Write(p, <<r>>)
  /\ last' = [last EXCEPT ![p] = clock] /\ inited' = inited \cup {p}

\* Bound: after the last call the clock stops, and no process is killed or started.
Going == calls < MaxCalls

Call(p) == p \in up /\ Going /\ calls' = calls + 1 /\ UNCHANGED ends

\* The line the OS writes when it has made a region: sizes in hexadecimal, the
\* first without a prefix.
OsLine(n, addr, size) ==
  [words |-> 7, addr |-> addr, name |-> n,
   req |-> [prefix |-> FALSE, digits |-> Text!Numeral(16, size)],
   aligned |-> [prefix |-> TRUE, digits |-> Text!Numeral(16, RoundUp(size))]]

\* A name that is mapped somewhere keeps its region, whatever is asked for.
OsMaps(n, addr, size) ==
  IF region[n] = 0
  THEN region' = [region EXCEPT ![n] = size] /\ osLog' = Append(osLog, OsLine(n, addr, size))
  ELSE UNCHANGED <<region, osLog>>

\* A region no process has mapped any more is gone.
OsFrees ==
  region' = [n \in Names |-> IF \E p \in up' : mapped'[p][n] # NULL THEN region[n] ELSE 0]

SizesOf(now) == Total([n \in {m \in Names : now[m] # NULL} |-> now[n].size])

\* The record of a map: the control plane's call returns the reference count.
MapRecord(p, n, addr, size) ==
  IF p \in Cp
  THEN [event |-> "map_on_pg", name |-> n, size |-> size, addr |-> addr,
        flags |-> Flags[p], ret |-> References(n) + 1, pgname |-> p]
  ELSE [event |-> "map", name |-> n, size |-> size, addr |-> addr,
        flags |-> Flags[p], ret |-> 0]

\* shm_profiler_on_map, of a map that succeeded: table_put writes over an entry of
\* the same address, and the size is added all the same.
OnMap(p, n, addr, size) ==
  /\ held' = [held EXCEPT ![p][n] = [addr |-> addr, size |-> size, since |-> clock]]
  /\ bytes' = [bytes EXCEPT ![p] = @ + size]
  /\ peak' = [peak EXCEPT ![p].count = Larger(@, Cardinality(Listed(p) \cup {n})),
                          ![p].bytes = Larger(@, bytes[p] + size)]
  /\ Record(p, MapRecord(p, n, addr, size))

UnmapRecord(addr, ret) == [event |-> "unmap", addr |-> addr, ret |-> ret]

\* shm_profiler_on_unmap, of a region that is mapped: ret plays no part.
OnUnmap(p, n, ret) ==
  /\ IF n \in Listed(p)
     THEN /\ held' = [held EXCEPT ![p][n] = NULL]
          /\ bytes' = [bytes EXCEPT ![p] = @ - held[p][n].size]
     ELSE UNCHANGED <<held, bytes>>
  /\ Record(p, UnmapRecord(mapped[p][n].addr, ret))
  /\ UNCHANGED peak

Map(p, n, size) ==
  /\ Call(p) /\ n \notin Mapped(p)
  /\ OsMaps(n, Free(p), size)
  /\ mapped' = [mapped EXCEPT ![p][n] = [addr |-> Free(p), size |-> size,
                                         since |-> clock, refs |-> 1]]
  /\ OnMap(p, n, Free(p), size)
  /\ most' = [count |-> Larger(most.count, Cardinality(Mapped(p) \cup {n})),
              bytes |-> Larger(most.bytes, SizesOf(mapped'[p])),
              os    |-> Larger(most.os, Total(region')),
              cost  |-> Larger(most.cost, Total([m \in Names |-> RoundUp(region'[m])]))]
  /\ UNCHANGED <<clock, stepped, up, runs, done, unknown, odd, lost>>

\* Another part of the process maps the name too, and gets the same address.
MapAgain(p, n, size) ==
  /\ Call(p) /\ n \in Mapped(p)
  /\ mapped' = [mapped EXCEPT ![p][n].refs = @ + 1]
  /\ OnMap(p, n, mapped[p][n].addr, size)
  /\ odd' = [odd EXCEPT ![p] = @ \cup {n}]
  /\ UNCHANGED <<clock, stepped, up, runs, region, osLog, most, done, unknown, lost>>

\* The OS refuses; the record has no address.  Nothing reads the name it has.
MapFails(p) ==
  /\ Call(p)
  /\ Record(p, [MapRecord(p, NULL, NULL, Max(Asked)) EXCEPT !.ret = -1])
  /\ UNCHANGED <<clock, stepped, up, runs, osVars, held, bytes, peak, most, done, unknown,
                 odd, lost>>

\* One reference less; the last one frees the region.
Unmap(p, n) ==
  /\ Call(p) /\ n \in Mapped(p)
  /\ IF mapped[p][n].refs > 1
     THEN mapped' = [mapped EXCEPT ![p][n].refs = @ - 1] /\ UNCHANGED done
     ELSE /\ mapped' = [mapped EXCEPT ![p][n] = NULL]
          /\ done' = [done EXCEPT ![p] = Append(@, [size |-> mapped[p][n].size,
                                                    flags |-> Flags[p],
                                                    life |-> clock - mapped[p][n].since])]
  /\ UNCHANGED up /\ OsFrees
  /\ OnUnmap(p, n, 0)
  /\ UNCHANGED <<clock, stepped, runs, osLog, most, unknown, odd, lost>>

\* The OS refuses, and the region stays mapped.
UnmapRefused(p, n) ==
  /\ Call(p) /\ n \in Mapped(p)
  /\ OnUnmap(p, n, -1)
  /\ odd' = [odd EXCEPT ![p] = @ \cup {n}]
  /\ UNCHANGED <<clock, stepped, up, runs, osVars, most, done, unknown, lost>>

\* An address is freed twice, or was never mapped: the OS refuses.
UnmapUnknown(p) ==
  /\ Call(p)
  /\ Record(p, UnmapRecord(Free(p), -1))
  /\ unknown' = unknown + 1
  /\ UNCHANGED <<clock, stepped, up, runs, osVars, held, bytes, peak, most, done, odd, lost>>

-----------------------------------------------------------------------------
(* Ends and starts of processes.                                           *)

Ends(p) ==
  /\ p \in up /\ ends < MaxEnds /\ ends' = ends + 1
  /\ up' = up \ {p} /\ UNCHANGED mapped /\ OsFrees

\* exit(): on the control plane profiler_atexit, if a call was recorded, reports
\* what is live, and the peaks.
ExitLines(p) ==
  LET names == SetToSeq(Listed(p))
  IN  [k \in DOMAIN names |->
         [event |-> "live_at_exit", name |-> names[k], addr |-> held[p][names[k]].addr,
          size |-> held[p][names[k]].size, age |-> clock - held[p][names[k]].since]]
      \o <<[event |-> "summary", peakCount |-> peak[p].count, peakBytes |-> peak[p].bytes]>>

Exit(p) ==
  /\ Ends(p)
  /\ IF p \in Cp /\ p \in inited THEN Write(p, ExitLines(p)) ELSE UNCHANGED file
  /\ UNCHANGED <<clock, stepped, runs, osLog, profiler, history, calls>>

\* A process is killed, between two calls or inside of one that has made no region ...
Kill(p) ==
  /\ Going /\ Ends(p)
  /\ UNCHANGED <<clock, stepped, runs, osLog, profiler, history, file, calls>>

\* ... or inside of a map, after the OS has made a region for it.
KillInMap(p, n) ==
  /\ Going /\ Ends(p) /\ region[n] = 0
  /\ osLog' = Append(osLog, OsLine(n, Free(p), Max(Asked)))
  /\ lost' = lost \cup {n}
  /\ UNCHANGED <<clock, stepped, runs, profiler, most, done, last, unknown, odd, file, calls>>

\* A new process gets the pid of one that has ended.
Start(p) ==
  /\ Going /\ p \notin up
  /\ up' = up \cup {p} /\ runs' = [runs EXCEPT ![p] = @ + 1]
  /\ mapped' = [mapped EXCEPT ![p] = Nothing]
  /\ held' = [held EXCEPT ![p] = Nothing] /\ bytes' = [bytes EXCEPT ![p] = 0]
  /\ peak' = [peak EXCEPT ![p] = NoPeak] /\ inited' = inited \ {p}
  /\ UNCHANGED <<clock, stepped, region, osLog, history, file, calls, ends>>

\* Times are told apart from the first call on.
Tick ==
  /\ Going /\ calls > 0 /\ clock < MaxClock /\ clock' = clock + 1
  /\ UNCHANGED <<stepped, up, runs, osVars, profiler, history, file, calls, ends>>

StepBack ==
  /\ Going /\ clock > 0 /\ ~stepped /\ clock' = clock - 1 /\ stepped' = TRUE
  /\ UNCHANGED <<up, runs, osVars, profiler, history, file, calls, ends>>

Next ==
  \/ \E p \in Procs :
       \/ \E n \in Names :
            \/ \E size \in Asked : Map(p, n, size) \/ MapAgain(p, n, size)
            \/ Unmap(p, n) \/ UnmapRefused(p, n) \/ KillInMap(p, n)
       \/ MapFails(p) \/ UnmapUnknown(p) \/ Exit(p) \/ Kill(p) \/ Start(p)
  \/ Tick \/ StepBack

Spec == Init /\ [][Next]_vars
=============================================================================
