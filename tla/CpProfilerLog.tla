---------------------------- MODULE CpProfilerLog ----------------------------
(***************************************************************************)
(* What a reader, which is analyze_profile.py, may rely on in the file     *)
(* CpProfiler writes, and in the live set behind it.  There is one process *)
(* here, and a clock that does not step back: now_ns is read under the     *)
(* profiler's lock, so the lines of the file are in the order of their     *)
(* times already.  Module Fleet has many processes and any clock.          *)
(***************************************************************************)
EXTENDS CpProfiler, SequencesExt, FiniteSetsExt

Reader == INSTANCE Correlate

Parses(n) == Reader!Parses(log, n)

\* What correlate makes of the first n lines.
CorrelateFile(n) == Reader!Replay(Reader!Load(SubSeq(log, 1, n)))

\* The live set a reader of the first n lines arrives at.
Replay(n) ==
  LET entries == CorrelateFile(n).live
  IN  [a \in Addrs |-> IF a \in DOMAIN entries THEN entries[a].size ELSE NoEntry]

\* The sum of the sizes of a live set.
Bytes(m) == MapThenSumSet(LAMBDA a : m[a], LiveAddrs(m))

\* The lines are in the order of the updates: the correlator arrives at the
\* live set the profiler holds, whenever no line is about to be written.
LogReplays ==
  fd /\ faults = 0 /\ (\A t \in Threads : pc[t] # "recorded")
    => Replay(Len(log)) = live

\* "Every event carries .. live_count, live_bytes (live-set after the event)":
\* true of each line, whichever thread wrote it; of the bytes only as long as the
\* OS shares no region and refuses no unmap (docs/STEP1.md:50).
LinesTell ==
  faults = 0 =>
    \A n \in LinesOf(Events) :
      LET after == Replay(n) IN
      /\ log[n].rec.tail.count = Count(after)
      /\ plain => log[n].rec.tail.bytes = Bytes(after)

\* The size of the entry that the map of the n-th line has written over.
WrittenOver(n) ==
  LET r   == log[n].rec
      was == Replay(n - 1)
  IN  IF r.event = "map" /\ r.addr \in LiveAddrs(was) THEN was[r.addr] ELSE 0

\* Whatever the OS does, the bytes of a line exceed the live set after the event by
\* the sizes of the entries that were written over until then, and by nothing else:
\* shm_profiler_on_map adds a size and takes none off, so each region that is mapped
\* again is counted once more for good.
BytesTell ==
  faults = 0 =>
    \A n \in LinesOf(Events) :
      log[n].rec.tail.bytes
        = Bytes(Replay(n)) + MapThenSumSet(WrittenOver, LinesOf(Events) \cap 1 .. n)

\* One write that fails or stops half way costs at most two lines: its own and
\* the one that is glued to it.  All others are lines of their own.
TornCostsTwo ==
  fd =>
    Cardinality({n \in LinesOf(Events) : Parses(n)}) + 2 * faults
      >= calls - Cardinality(UnderWay)

\* live_bytes never falls below what is live, so the subtraction in
\* shm_profiler_on_unmap never wraps the unsigned counter.
BytesCoverLive == bytes >= Bytes(live)

\* The records of the file, whole or not.
Records == [n \in DOMAIN log |-> log[n].rec]

\* The totals and peaks of a list of records.
Top(p, S) == p \in S /\ \A x \in S : x <= p
AddsUp(s, list) ==
  LET At(event) == {n \in DOMAIN list : list[n].event = event} IN
  /\ s.maps = Cardinality(At("map")) /\ s.unmaps = Cardinality(At("unmap"))
  /\ s.failures = Cardinality({n \in At("map") : list[n].ret < 0})
  /\ s.unmatched = Cardinality({n \in At("unmap") : ~list[n].matched})
  /\ Top(s.peakCount, {0} \cup {list[n].tail.count : n \in At("map")})
  /\ Top(s.peakBytes, {0} \cup {list[n].tail.bytes : n \in At("map")})

\* The summary is the last line, although threads may record while the process
\* ends; its totals and peaks are those of the event lines before it, and those
\* the correlator finds by itself, but for the peak of the bytes: it
\* takes the old size off when an address is mapped again, and the profiler
\* does not.
SummaryAgrees ==
  faults = 0 => \A n \in LinesOf({"summary"}) :
    LET s == log[n].rec.totals IN
    /\ n = Len(log)
    /\ AddsUp(s, Records)
    /\ s.peakCount = CorrelateFile(n).peakCount
    /\ s.peakBytes >= CorrelateFile(n).peakBytes
    /\ s.unmatched = CorrelateFile(n).unmatched

\* The live_at_exit lines are what the correlator finds never freed, entry by
\* entry.
ExitLinesAgree ==
  faults = 0 => \A n \in LinesOf({"summary"}) :
    LET exits == LinesOf({"live_at_exit"})
        atEnd == Replay(n)
    IN  /\ {<<log[m].rec.addr, log[m].rec.size>> : m \in exits}
             = {<<a, atEnd[a]>> : a \in LiveAddrs(atEnd)}
        /\ log[n].rec.stillLive = Cardinality(exits)

(* Why.  The lines are written under the lock and one at a time, so there is *)
(* at most one record that has been made and is not in the file.             *)

Writing == {t \in Threads : pc[t] = "recorded"}

\* A correlator that has read every record holds what the profiler holds.
Tracks(m) ==
  /\ DOMAIN m.live = LiveAddrs(live)
  /\ \A a \in LiveAddrs(live) : m.live[a].size = live[a]
  /\ m.bytes <= bytes /\ m.peakBytes <= stats.peakBytes
  /\ m.peakCount = stats.peakCount /\ m.unmatched = stats.unmatched

Told(list) ==
  /\ Tracks(Reader!Replay(list)) /\ AddsUp(stats, list)
  /\ Count(live) <= stats.peakCount /\ bytes <= stats.peakBytes

\* As long as the file is open, or is yet to be opened, it lacks no record but
\* the one that is being written, which tells the present state.
ToldInv ==
  (fd \/ ~inited) /\ faults = 0 =>
    /\ Writing = {} => Told(Records)
    /\ \A t \in Writing : /\ Told(Append(Records, line[t]))
                           /\ line[t].tail.count = Count(live)
                           /\ line[t].tail.bytes = bytes

\* A line waits only while the file is open, and without faults all are whole.
LineInv ==
  /\ \A t \in Threads : line[t] # NoLine => fd /\ pc[t] = "recorded"
  /\ faults = 0 => \A n \in DOMAIN log : log[n].whole

\* profiler_atexit has written the lines of the entries it has passed.
ExitInv ==
  /\ pc[Main] \in {"exit", "report"} => inited
  /\ (fd \/ ~inited) /\ faults = 0 =>
       LET exits == LinesOf({"live_at_exit"})
           done  == LiveAddrs(live) \ left
       IN  /\ LinesOf({"summary"}) = {}
           /\ pc[Main] # "report" => exits = {}
           /\ pc[Main] = "report" =>
                /\ left \subseteq LiveAddrs(live)
                /\ {<<log[m].rec.addr, log[m].rec.size>> : m \in exits}
                      = {<<a, live[a]>> : a \in done}
                /\ Cardinality(exits) = Cardinality(done)

\* An address that is mapped again adds to bytes and takes nothing off; that
\* cannot be while the OS is plain.
BytesInv == bytes >= Bytes(live) /\ (plain => bytes = Bytes(live))

LogInv == ToldInv /\ LineInv /\ ExitInv /\ BytesInv

\* A torn line at the end of the file has yet to cost the line after it.
Torn == log # << >> /\ ~log[Len(log)].whole
Parsed == {n \in LinesOf(Events) : Parses(n)}
TornInv ==
  /\ ~inited => /\ ~fd /\ log = << >> /\ calls = Cardinality(UnderWay)
                /\ \A t \in Threads : pc[t] # "recorded"
  /\ fd => /\ \A t \in Threads : pc[t] = "recorded" => line[t] # NoLine
           /\ Cardinality(Parsed) + 2 * faults
                >= calls - Cardinality(UnderWay) + IF Torn THEN 1 ELSE 0

\* "the profiler sees everything" (docs/DESIGN.md:57): with no call under way,
\* every mapped region is in the live set.
EverythingSeen ==
  (\A t \in Threads : pc[t] = "idle") =>
    \A a \in Addrs : refs[a] > 0 => live[a] # NoEntry

(* Liveness.                                                               *)

\* A call that has entered a wrapper returns, unless the process ends first.
\* The lock is a test-and-set loop: this rests on there being an end to the
\* calls that compete for it.
CallsReturn ==
  \A t \in Threads : pc[t] = "called" ~> pc[t] = "idle" \/ ~Running

\* exit() ends, and leaves a summary as the last line if the file could be opened
\* and written; with faults too nothing follows what there is of a summary.
ExitEnds ==
  pc[Main] = "exit" ~>
    /\ ~Running
    /\ LinesOf({"summary"}) \subseteq {Len(log)}
    /\ LinesOf({"summary"}) # {} \/ faults > 0 \/ log = << >>
=============================================================================
