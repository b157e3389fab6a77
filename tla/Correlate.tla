------------------------------ MODULE Correlate ------------------------------
(***************************************************************************)
(* The reader of the profiler's files, src/tools/analyze_profile.py:       *)
(* load_records, which takes files apart into records, and correlate,      *)
(* which replays the map and unmap events of each process in the order of  *)
(* their times to find what was live.                                      *)
(*                                                                         *)
(* A file is a sequence of lines [rec, whole]; a line that is not whole    *)
(* has lost its newline, and spoils the next one as well.  A record is a   *)
(* JSON object: a function on the fields it has.  NULL is Python's None,   *)
(* and an address that is not real.                                        *)
(***************************************************************************)
EXTENDS Integers, SequencesExt, FiniteSetsExt, TLC

CONSTANT NULL

Larger(m, n) == IF m >= n THEN m ELSE n

\* The sum of what a function has.
Total(f) == MapThenSumSet(LAMBDA x : f[x], DOMAIN f)

\* r.get(field, default)
Get(r, field, default) == IF field \in DOMAIN r THEN r[field] ELSE default

\* json.loads accepts the n-th line.
Parses(file, n) == file[n].whole /\ (n > 1 => file[n - 1].whole)

\* A line that json.loads rejects is skipped.
RecordsOf(file, n) == IF Parses(file, n) THEN <<file[n].rec>> ELSE << >>

Load(file) ==
  LET loaded[n \in 0 .. Len(file)] ==
        IF n = 0 THEN << >> ELSE loaded[n - 1] \o RecordsOf(file, n)
  IN  loaded[Len(file)]

LoadRecords(files) == FlattenSeq([n \in DOMAIN files |-> Load(files[n])])

\* Mutant: "0 == success", which DP's maps meet and CP's do not.
MutMapOk(r) == r.event \in {"map", "map_on_pg"} /\ Get(r, "ret", 0) = 0

IsMap(r) == r.event \in {"map", "map_on_pg"}
MapOk(r) == IsMap(r) /\ Get(r, "ret", 0) >= 0

-----------------------------------------------------------------------------
(* One process.                                                            *)

NoRecords ==
  [live |-> << >>, bytes |-> 0, peakCount |-> 0, peakBytes |-> 0, matched |-> 0,
   unmatched |-> 0, lifetimes |-> << >>, last |-> NULL]

SizeAt(live, addr) == IF addr \in DOMAIN live THEN live[addr].size ELSE 0

\* A map that succeeded.  An address that is reused without an unmap gives its
\* old size back.
CorrelateMap(m, r) ==
  LET entry == [size |-> Get(r, "size", 0), ts |-> Get(r, "ts", NULL),
                name |-> Get(r, "name", NULL), flags |-> Get(r, "flags", NULL)]
      now   == [a \in DOMAIN m.live \cup {r.addr} |->
                  IF a = r.addr THEN entry ELSE m.live[a]]
      sum   == m.bytes + entry.size - SizeAt(m.live, r.addr)
  IN  [m EXCEPT !.live = now, !.bytes = sum,
                !.peakCount = Larger(@, Cardinality(DOMAIN now)),
                !.peakBytes = Larger(@, sum)]

\* An unmap of an address that is live.  Whether the OS call succeeded plays no
\* part.
CorrelateUnmap(m, r) ==
  LET was == m.live[r.addr]
      at  == Get(r, "ts", NULL)
  IN  [m EXCEPT !.live = [a \in DOMAIN @ \ {r.addr} |-> @[a]],
                !.bytes = @ - was.size, !.matched = @ + 1,
                !.lifetimes = IF NULL \in {at, was.ts} THEN @
                              ELSE Append(@, [size |-> was.size, life |-> at - was.ts,
                                              flags |-> was.flags])]

CorrelateRecord(m, r) ==
  LET n == [m EXCEPT !.last = Get(r, "ts", @)] IN
  CASE MapOk(r) /\ Get(r, "addr", NULL) # NULL -> CorrelateMap(n, r)
    [] r.event = "unmap" /\ Get(r, "addr", NULL) \in DOMAIN m.live -> CorrelateUnmap(n, r)
    [] r.event = "unmap" /\ Get(r, "addr", NULL) \notin DOMAIN m.live ->
         [n EXCEPT !.unmatched = @ + 1]
    [] OTHER -> n

\* The replay of the events of one process, in the order given.
Replay(events) == FoldLeft(CorrelateRecord, NoRecords, events)

-----------------------------------------------------------------------------
(* All processes.  A list of records is read by its positions.             *)

IsEvent(r) == r.event \in {"map", "map_on_pg", "unmap"}
Pids(records) == {Get(records[n], "pid", NULL) : n \in
                    {k \in DOMAIN records : IsEvent(records[k])}}

\* by_pid
EventsOf(records, pid) ==
  {n \in DOMAIN records : IsEvent(records[n]) /\ Get(records[n], "pid", NULL) = pid}

\* Mutant: without the sort.
MutBefore(records, i, j) == i < j

\* list.sort is stable: of two events with one time the first stays first.
Before(records, i, j) ==
  LET s == Get(records[i], "ts", 0)
      t == Get(records[j], "ts", 0)
  IN  s < t \/ (s = t /\ i < j)

\* The records at some positions, in the order of their times.
ByTime(records, at) ==
  LET Rank(i) == Cardinality({j \in at : Before(records, j, i)})
  IN  [n \in 1 .. Cardinality(at) |-> records[CHOOSE i \in at : Rank(i) = n - 1]]

\* correlate: the replay of each process.  The code runs their lists together,
\* which loses whose they are.
Correlated(records) ==
  [pid \in Pids(records) |-> Replay(ByTime(records, EventsOf(records, pid)))]

\* What is live at the end, with its age at the last event of its process.
NeverFreed(m) ==
  [a \in DOMAIN m.live |->
     [name |-> m.live[a].name, size |-> m.live[a].size, flags |-> m.live[a].flags,
      age |-> IF NULL \in {m.last, m.live[a].ts} THEN 0 ELSE m.last - m.live[a].ts]]

\* Mutant: the peaks of the processes are added up.
MutHighest(peaks) == SumSet(peaks)

\* The peaks are those of the one process that has the highest.
Highest(peaks) == Max({0} \cup peaks)

PeakCount(corr) == Highest({corr[pid].peakCount : pid \in DOMAIN corr})
PeakBytes(corr) == Highest({corr[pid].peakBytes : pid \in DOMAIN corr})
Unmatched(corr) == Total([pid \in DOMAIN corr |-> corr[pid].unmatched])
=============================================================================
