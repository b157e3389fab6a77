----------------------------- MODULE FleetReport -----------------------------
(***************************************************************************)
(* What the reports on the files of module Fleet are worth.                *)
(***************************************************************************)
EXTENDS Fleet

Records == LoadRecords(<<file>>)
Replayed == Correlated(Records)

\* No pid was given out twice.
OwnPids == \A p \in Procs : runs[p] = 1

\* No process mapped a name it had mapped, and no unmap was refused.
Plain == \A p \in Procs : odd[p] = {}

\* What there is to tell of a name a process has mapped.
Told(p, n) == [name |-> n, size |-> mapped[p][n].size, flags |-> Flags[p],
               age |-> last[p] - mapped[p][n].since]

\* What is told as never freed is mapped, and for no less long ...
OnlyMapped(p, never) ==
  \A a \in DOMAIN never : \E n \in Mapped(p) :
    /\ a = mapped[p][n].addr /\ never[a].name = n
    /\ never[a].flags = Flags[p] /\ never[a].age <= Told(p, n).age

\* ... and what is mapped is told, but for odd names.
MappedTold(p, never) ==
  \A n \in Mapped(p) \ odd[p] :
    /\ mapped[p][n].addr \in DOMAIN never
    /\ never[mapped[p][n].addr] = Told(p, n)

\* With a clock that only goes forward and a pid for each process, though the
\* records of all are mixed in one file: what the replay finds never freed a
\* process has mapped when it last returned from a call, each region once and for
\* no less long; only names that were mapped again, or that the OS did not unmap,
\* may be missing, and all others are told with their sizes and ages.  Without
\* such names, neither are the lifetimes of what was freed wrong nor the number of
\* unmaps of unknown addresses, which else may be too high.  The lines a process
\* writes as it exits name nothing else.
LiveAgrees ==
  ~stepped /\ OwnPids =>
    LET found == Replayed
    IN  /\ \A p \in DOMAIN found :
             /\ OnlyMapped(p, NeverFreed(found[p])) /\ MappedTold(p, NeverFreed(found[p]))
             /\ odd[p] = {} => found[p].lifetimes = done[p]
        /\ \A p \in Procs \ DOMAIN found : last[p] = NULL
        /\ Unmatched(found) >= unknown /\ (Plain => Unmatched(found) = unknown)
        /\ \A k \in Leaks(Records) :
             LET leak  == Records[k]
                 never == NeverFreed(found[leak.pid])
             IN  /\ leak.addr \in DOMAIN never
                 /\ leak.size = never[leak.addr].size
                 /\ leak.age >= never[leak.addr].age

\* The peak of the count is never above what some process had mapped at a time, if
\* each has a pid of its own; and both peaks are exactly that if besides no name
\* was mapped again and no unmap refused.  Pids that are given out again only ever
\* make them too high.  A summary has the count the replay finds of its process,
\* and no less bytes: more only if a name was mapped again.
PeakIsLargest ==
  ~stepped =>
    LET found == Replayed
        told  == SummaryPeak(Records)
    IN  /\ OwnPids => PeakCount(found) <= most.count
        /\ Plain => PeakCount(found) >= most.count /\ PeakBytes(found) >= most.bytes
        /\ Plain /\ OwnPids => PeakBytes(found) = most.bytes
        /\ told.count <= PeakCount(found) /\ (Plain => told.bytes <= PeakBytes(found))
        /\ \A k \in Summaries(Records) :
             LET s == Records[k] IN
             runs[s.pid] = 1 /\ s.pid \in DOMAIN found =>
               /\ s.peakCount = found[s.pid].peakCount
               /\ s.peakBytes >= found[s.pid].peakBytes
               /\ odd[s.pid] = {} => s.peakBytes = found[s.pid].peakBytes

\* "real physical memory requested": the distinct regions are at least what the
\* OS ever held at a time, and at most what all maps add up to, by their sizes
\* and by their costs; whatever the clock did.
DistinctCovers ==
  lost = {} =>
    LET records  == Records
        distinct == DistinctBytes(records)
        cost     == DistinctCost(records)
    IN  /\ most.os <= distinct /\ distinct <= Requested(records)
        /\ most.cost <= cost /\ cost <= OsCost(records)
        /\ Requested(records) <= OsCost(records)

\* All sizes a name was asked for with, in maps that were recorded.
SizesAsked(n) ==
  {file[k].rec.size : k \in {j \in DOMAIN file : /\ MapOk(file[j].rec)
                                                /\ file[j].rec.name = n}}

\* The two logs differ only as they should: missing are names that no map that
\* was recorded ever had, none is extra, and a name that was always asked for
\* with one size matches, if the tool can tell that the sizes are hexadecimal.
CrossMatches ==
  \A reqHex \in BOOLEAN :
    LET told   == \/ reqHex
                  \/ \E k \in DOMAIN osLog : /\ osLog[k].words >= 4
                                             /\ HexDigit \cap Range(osLog[k].req.digits) # {}
        result == Compare(osLog, Records, Names, reqHex, FALSE)
        only   == Compare(osLog, Records, Names, reqHex, TRUE)
    IN  /\ result.missing = {n \in lost : SizesAsked(n) = {}}
        /\ result.extra = {}
        /\ only = [result EXCEPT !.missing = {}]
        /\ told /\ lost = {} => \A n \in Names : Cardinality(SizesAsked(n)) = 1 =>
             n \notin result.sizeDiffers \cup result.alignDiffers

\* Figures that a reader takes from the report.
Figures(records) ==
  <<Correlated(records), Regions(records), SizeRows(Sizes(records)), SummaryPeak(records)>>

\* Two events of one process with one time, on either side of a cut.
Tied(cut) ==
  \E i \in 1 .. cut, j \in cut + 1 .. Len(file) :
    LET r == file[i].rec
        s == file[j].rec
    IN  IsEvent(r) /\ IsEvent(s) /\ r.pid = s.pid /\ r.ts = s.ts

\* It plays no part in how many files the records are, or which is read first:
\* not if each process has its own, nor if one file was rotated, as long as no
\* process has two events with one time on either side.
FileOrder ==
  LET whole == Figures(Records)
      Part(at) == [n \in 1 .. Cardinality(at) |->
                     file[CHOOSE i \in at : Cardinality({j \in at : j < i}) = n - 1]]
  IN  /\ \A p \in Procs :
           LET own == {n \in DOMAIN file : file[n].rec.pid = p}
           IN  whole = Figures(LoadRecords(<<Part(own), Part(DOMAIN file \ own)>>))
      /\ \A cut \in DOMAIN file : ~Tied(cut) =>
           whole = Figures(LoadRecords(<<SubSeq(file, cut + 1, Len(file)),
                                         SubSeq(file, 1, cut)>>))

\* The range a row says it counts.
InRow(v, edges, label) ==
  /\ label <= Len(edges) => v <= edges[label]
  /\ label > 1 => edges[label - 1] < v

\* Each table counts what its rows say, once: sizes to the last, lifetimes up
\* to the last edge, and each map in one class of flags.  What ShmMapOnPg has
\* mapped is found by its pgname.
RowsCountOnce ==
  LET records == Records
      sizes == Sizes(records)
      lives == AllLifetimes(Correlated(records))
      sizeRows == SizeRows(sizes)
      lifeRows == LifeRows(lives)
      grid == Grid(lives)
      classes == ByVaClass(records)
      pgs == ByPg(records)
  IN  /\ \A row \in 1 .. Len(SizeEdges) + 1 :
           sizeRows[row] = HowMany(sizes, LAMBDA v : InRow(v, SizeEdges, row))
      /\ \A row \in 1 .. Len(LifeEdges) :
           lifeRows[row] = HowMany(lives, LAMBDA x : InRow(x.life, LifeEdges, row))
      /\ \A row \in 1 .. Len(SizeEdges) :
           Total(grid[row + 1]) = HowMany(lives, LAMBDA x : InRow(x.size, SizeEdges, row))
      /\ Total(classes) = Cardinality(OkMaps(records))
      /\ \A pg \in Cp : Cardinality({n \in OkMaps(records) : records[n].pid = pg})
                            = IF pg \in DOMAIN pgs THEN pgs[pg].maps ELSE 0

(* Why.  What the replay of the records of a process arrives at is compared  *)
(* with what the process has, event by event.                                *)

Life == [size : Nat, life : Int, flags : 0 .. 5]
Types ==
  /\ clock \in Nat /\ stepped \in BOOLEAN /\ up \subseteq Procs /\ unknown \in Nat
  /\ runs \in [Procs -> Nat \ {0}] /\ region \in [Names -> Nat]
  /\ mapped \in [Procs -> [Names -> Mapping \cup {NULL}]]
  /\ held \in [Procs -> [Names -> Region \cup {NULL}]]
  /\ bytes \in [Procs -> Int] /\ inited \subseteq Procs /\ odd \in [Procs -> SUBSET Names]
  /\ peak \in [Procs -> [count : Nat, bytes : Nat]]
  /\ most \in [count : Nat, bytes : Nat, os : Nat, cost : Nat]
  /\ last \in [Procs -> Nat \cup {NULL}]
  /\ done \in [Procs -> Seq(Life)]

\* Records as the processes write them.
MapShape(r) ==
  /\ IsMap(r) /\ {"name", "size", "addr", "flags", "ret"} \subseteq DOMAIN r
  /\ r.flags = Flags[r.pid]
  /\ r.event = "map_on_pg" <=> r.pid \in Cp
  /\ r.event = "map_on_pg" => "pgname" \in DOMAIN r /\ r.pgname = r.pid
  /\ \/ r.ret \in Nat /\ r.addr \in Nat /\ r.name \in Names /\ r.size \in Asked
     \/ r.ret = -1 /\ r.addr = NULL
UnmapShape(r) ==
  r.event = "unmap" /\ {"addr", "ret"} \subseteq DOMAIN r /\ r.addr \in Nat /\ r.ret \in {0, -1}
LeakShape(r) ==
  /\ r.event = "live_at_exit" /\ {"name", "size", "addr", "age"} \subseteq DOMAIN r
SummaryShape(r) ==
  /\ r.event = "summary" /\ {"peakCount", "peakBytes"} \subseteq DOMAIN r
  /\ r.peakCount \in Nat /\ r.peakBytes \in Nat
Shape(r) ==
  /\ {"event", "pid", "ts"} \subseteq DOMAIN r /\ r.pid \in Procs /\ r.ts \in Nat
  /\ MapShape(r) \/ UnmapShape(r) \/ LeakShape(r) \/ SummaryShape(r)

FileInv ==
  /\ file \in Seq(Range(file))
  /\ \A n \in DOMAIN file :
       /\ file[n].whole /\ Shape(file[n].rec)
       /\ ~stepped => file[n].rec.ts <= clock

\* A region is not larger than the largest map of its name; the bounds on the
\* distinct regions are kept by each map.
RegionInv ==
  /\ \A n \in Names : region[n] > 0 =>
       n \in DOMAIN Regions(Records) /\ region[n] <= Regions(Records)[n].size
  /\ most.os <= DistinctBytes(Records) /\ DistinctBytes(Records) <= Requested(Records)
  /\ most.cost <= DistinctCost(Records) /\ DistinctCost(Records) <= OsCost(Records)
  /\ Requested(Records) <= OsCost(Records)

\* What the profiler has an entry of is mapped, where the entry says and for no
\* less long; and all that is mapped has an entry, and one reference, but for odd
\* names.  The bytes are the sum of the entries, if there are none.
Listing(p) ==
  \A n \in Listed(p) : n \in Mapped(p) /\ held[p][n].addr = mapped[p][n].addr
Complete(p) ==
  \A n \in Mapped(p) \ odd[p] :
    /\ n \in Listed(p) /\ mapped[p][n].refs = 1
    /\ mapped[p][n].size = held[p][n].size /\ mapped[p][n].since = held[p][n].since
Apart(p) == \A n, m \in Mapped(p) : mapped[p][n].addr = mapped[p][m].addr => n = m
Past(p) ==
  ~stepped => /\ \A n \in Listed(p) : mapped[p][n].since <= held[p][n].since
              /\ \A n \in Mapped(p) : mapped[p][n].since <= clock
Adds(p) == SizesOf(held[p]) <= bytes[p] /\ (odd[p] = {} => SizesOf(held[p]) = bytes[p])
EntryInv(p) ==
  /\ Listing(p) /\ Complete(p) /\ Apart(p) /\ Past(p) /\ Adds(p)
  /\ p \in inited => last[p] # NULL
EntriesInv == \A p \in Procs : EntryInv(p)

ReplayOf(p) == Replay(ByTime(Records, EventsOf(Records, p)))

\* Whatever pids came back, the replay has what the profiler has; and nothing else
\* as long as none did.
HasAll(p, m) ==
  /\ \A n \in Listed(p) :
       /\ held[p][n].addr \in DOMAIN m.live
       /\ m.live[held[p][n].addr] = [size |-> held[p][n].size, ts |-> held[p][n].since,
                                     name |-> n, flags |-> Flags[p]]
  /\ peak[p].count <= m.peakCount /\ (odd[p] = {} => peak[p].bytes <= m.peakBytes)
  /\ m.last = last[p]
HasOnly(p, m) ==
  /\ DOMAIN m.live = {held[p][n].addr : n \in Listed(p)}
  /\ m.peakCount = peak[p].count /\ m.peakBytes <= peak[p].bytes
  /\ odd[p] = {} => m.lifetimes = done[p] /\ m.peakBytes = peak[p].bytes

ReplayInv ==
  ~stepped => \A p \in Procs :
    /\ HasAll(p, ReplayOf(p))
    /\ runs[p] = 1 => HasOnly(p, ReplayOf(p))
    /\ p \in Pids(Records) <=> last[p] # NULL
    /\ last[p] # NULL => last[p] <= clock

UnknownInv ==
  ~stepped /\ OwnPids =>
    LET sum == Total([p \in Procs |-> ReplayOf(p).unmatched])
    IN  unknown <= sum /\ (Plain => unknown = sum)

\* The largest peaks are no less than any profiler has seen, and if nothing is odd
\* some replay has reached them.
PeaksSeen ==
  \A p \in Procs : /\ Cardinality(Mapped(p)) <= most.count /\ peak[p].count <= most.count
                   /\ odd[p] = {} => peak[p].bytes <= most.bytes
MostReached ==
  ~stepped /\ Plain =>
    /\ most.count > 0 => \E p \in Procs : most.count <= ReplayOf(p).peakCount
    /\ most.bytes > 0 => \E p \in Procs : most.bytes <= ReplayOf(p).peakBytes
MostInv == PeaksSeen /\ MostReached

\* No summary says more than the replay finds; and it says what its process has
\* left, as long as the pid does not come back.
SummaryInv ==
  ~stepped => \A k \in Summaries(Records) :
    LET s == Records[k]
        p == s.pid
    IN  /\ s.peakCount <= ReplayOf(p).peakCount
        /\ odd[p] = {} => s.peakBytes <= ReplayOf(p).peakBytes
        /\ runs[p] = 1 => /\ p \notin up
                          /\ s.peakCount = peak[p].count /\ s.peakBytes = peak[p].bytes

\* What a process that has ended left behind stays as it was.
LeakInv ==
  ~stepped => \A k \in Leaks(Records) :
    LET r == Records[k] IN
    runs[r.pid] = 1 =>
      /\ r.pid \notin up /\ last[r.pid] # NULL
      /\ \E n \in Listed(r.pid) :
           /\ r.addr = held[r.pid][n].addr /\ r.size = held[r.pid][n].size
           /\ r.age >= last[r.pid] - held[r.pid][n].since

\* What is mapped the OS has.
KeptInv == \A p \in up : \A n \in Mapped(p) : region[n] > 0

\* Each line about one of our names is of a map that was recorded, or of one whose
\* maker died; and each region the OS has, or had when it was asked for, has a line.
ByUs(line) ==
  \E size \in Asked : /\ line = OsLine(line.name, line.addr, size)
                      /\ line.name \in lost \/ size \in SizesAsked(line.name)
LogInv ==
  /\ lost \subseteq Names /\ osLog \in Seq(Range(osLog))
  /\ \A k \in DOMAIN osLog : osLog[k].words >= 4 /\ osLog[k].name \in Names => ByUs(osLog[k])
  /\ \A n \in Names : region[n] > 0 \/ n \in lost \/ SizesAsked(n) # {} =>
       \E k \in DOMAIN osLog : osLog[k].words >= 4 /\ osLog[k].name = n
=============================================================================
