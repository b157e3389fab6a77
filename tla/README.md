# mem-manager in TLA+

mem-manager finds out who allocates memory. It has two programs in it that run
inside other processes, and tools that read what those leave behind:

* a **shared-memory profiler** (`src/profiler/shm_profiler.c`), called by the
  `Platform_Shm*` wrappers of `src/platform_shm.c` after each OS call;
* a **heap tracer** (`tools/mem_trace.c`), preloaded into a process, which wraps
  malloc, mmap and their families;
* **offline tools** in Python and shell, which correlate and attribute.

Both in-process parts are short and almost untested where they are hard: they
are called by any thread at any time, keep tables with open addressing and
tombstones, and are trusted to be right about a live set that nobody else
counts. The tools then draw conclusions from what several processes, the OS and
the kernel leave behind, each at a time of its own. The in-process parts are
modelled first, and the tools on the files of processes that run, die and start
again.

## Inventory

### Live-set hash table (`Entry` .. `table_erase`, shm_profiler.c:332-441)

State: `Table` (slots, capacity, `count`, `tombs`). Operations: `table_init`,
`table_put` (which may `table_grow`), `table_find`, `table_erase`. Hard: the
probe loops have no bound of their own and end only because a load check counts
tombstones; a reused tombstone must not duplicate a key; an erase or a rehash
must not cut a probe. Correct means: it is a map, its counters are exact, its
loops end, and churn does not make it grow for ever.

### Control-plane profiler (shm_profiler.c:209-621, `IS_CP`)

State: `g` (file, live set, `live_bytes`, peaks and totals), the spin lock
`g_lock`, a thread-local id. Operations: `shm_profiler_on_map`,
`shm_profiler_on_unmap`, `profiler_atexit`. Hard: the OS call is outside the
lock and its record inside, so the two can happen in different orders; writes
can fail half way; `exit()` runs while other threads still record; a process
can be killed anywhere. Correct means: the file is a history of the live set
that a reader can replay, and the exit lines and the summary agree with it.

### Wrappers, OS stub and real OS (platform_shm.c, os/os_shm_stub.c)

No state of their own. The stub allocates a fresh region for each map; the real
OS, as comments and docs describe it, gives one region per name with a
reference count and may refuse an unmap.

### Data-plane profiler (shm_profiler.c:33-205, no `IS_CP`)

State: the flag `g_in_log`. Operations: the same two records, which write a line
through the OS's logger. Hard: the logger may map memory through the same
wrappers; the flag that stops this recursion also drops what another context
records at that moment; a buffer cuts long lines; names go into JSON. Correct
means: no recursion and no waiting, nothing lost while contexts do not overlap,
and a line is read back as what was written or not at all.

### Heap tracer (tools/mem_trace.c)

State: 64 shards of a fixed table of live allocations, each with a mutex; a
table of call stacks with another; a thread-local sampling count and recursion
flag; dump files. Operations: eleven wrapped calls, `record_alloc`,
`record_mmap`, `intern_stack`, `table_put`, `table_del`, `do_dump`. Hard: each
wrapper is a real call and a table update that other threads can get between;
tables never grow; dumps run concurrently. Correct means: the table is the live
memory (less what sampling leaves out), a stack keeps its number, and a dump is
net of frees.

### Profile report (tools/analyze_profile.py)

State: none but the records. `load_records` takes files apart, `correlate`
replays the events of each pid in the order of their times, and `main` derives
sizes, waste, distinct regions, peaks, lifetimes and roll-ups. Hard: the records
are of many processes, in many files, read in any order; processes die with a
call half done; pids come back; the clock is wall-clock time; the planes differ
in their success code. Correct means: the figures are those of what happened, or
err on a known side.

### OS-log cross-check (tools/crosscheck_os_log.py)

Compares the names and sizes in the OS's own log with the distinct regions of
the profile. Hard: the log is of the whole machine, and whether its numbers are
hexadecimal is guessed. Correct means: a difference is reported when and only
when a region was not recorded, or was asked for with different sizes.

### Heap-trace analyser (tools/analyze_mem_trace.py)

Ranks the tracer's dump by stack, attributes the resident bytes of each mapping
in a snapshot of smaps to the records that overlap it, and reconciles the two.
Hard: mappings are given back in parts, records overlap, the two snapshots are
of different moments, and what mincore says of a region with a hole is nothing.
Correct means: the tables add up, each byte counts once, and what is called
unexplained is that.

### Scripts, demo, test

`collect_profile.sh` concatenates files for the report, `resolve_dump.sh` calls
addr2line; the demo and the unit test call the wrappers.

## Modules

| module | models | state and actions in the code's terms |
| --- | --- | --- |
| `LiveSet` | what the hash table promises | a map, insert, find-and-erase |
| `LiveTable` | the hash table | `slots`, `count`, `tombs`; one action per way `table_put` and `table_find` can end, one step per old slot of the rehash loop |
| `CpProfiler` | wrappers, OS, file backend | per thread: OS call (`Map*`, `Unmap*`), `Lock`, `Record*` (the update of `g` and the formatted line), `Finish` (write, unlock, return); `Exit*` for `profiler_atexit` |
| `Correlate` | `load_records` and `correlate` of `analyze_profile.py` | operators: which lines parse, what one event does to the replay of a process, all processes |
| `Report` | the figures of `analyze_profile.py`'s `main` | operators on records: sizes, costs, distinct regions, histograms, cross-tab, roll-ups, peaks |
| `CrossCheck` | `crosscheck_os_log.py` | operators: the guess of a column's base, the regions of the OS's log, the comparison |
| `Fleet` | processes of both planes that share named regions, the OS and its log, the clock | `held` (the profiler's table) and `mapped` (what the OS knows) per process, `region` and `osLog` of the OS, `file` the records; `Map`, `MapAgain`, `MapFails`, `Unmap`, `UnmapRefused`, `UnmapUnknown`, `Exit`, `Kill`, `KillInMap`, `Start`, `Tick`, `StepBack` |
| `FleetReport` | what the reports on those files are worth | properties that relate figures to what happened |
| `CpProfilerLog` | what a reader may rely on | properties that relate the file, its replay and the profiler's state |
| `LogLine` | the data plane's formatter and `unwrap_log` | operators: the payload of an event, what the buffer keeps, the scan for the object, the decoded event |
| `DpLog` | the data-plane backend under a logger that maps memory | per context a stack of calls: `Enter` (the flag was clear), `Dropped` (it was set), `LogNests`, `Log`, `Leave` |
| `LossyMap` | what a shard promises | a map whose insertions may be lost |
| `ShardTable` | one shard, `table_put` and `table_del` | slots, tombstones, no growth |
| `StackTable` | `intern_stack` | stacks in order, the index; a step per probe iteration |
| `Sampler` | the sampling in `record_alloc` | the count of each thread, and the two sums an analyser compares |
| `TraceReport` | `analyze_mem_trace.py` | operators: resident bytes of a line, categories of mappings, the ranking, `attribute_rss` |
| `MemReport` | a traced process with pages, the tracer's table, its dump and smaps | `vma`, `resident`, `tab`; `Malloc`, `Free`, `Mmap`, `Munmap`, `Touch`, and the snapshots `Dump` and `Smaps` |
| `MemTrace` | the wrapped calls, the table, the dumper | per thread: real call and table update in the code's order; `DumpStart`, `DumpShard` |

`LiveTable` implements `LiveSet` and `ShardTable` implements `LossyMap` (checked
as refinements); `Correlate` reads what `CpProfiler` writes, and `LogLine`'s reader
what `DpLog` writes; `Report` and `CrossCheck` stand on `Correlate` and read what the
processes of `Fleet` write; `TraceReport` reads what `MemReport`'s process leaves.
`CpProfiler` uses a map in the place of `LiveTable` and `MemTrace` and `MemReport` one
in the place of the shards. The `*_proofs` modules hold the theorems and `MC_*` the
instances.

Definitions whose name starts with `Mut` are not part of any specification.
Each is what the definition below it would be with a plausible bug (a dropped
guard, a missing update, another order), and shows which property that bug
breaks.

## What the runs check

**LiveTable** (four keys, capacity 4 growing to 8, hashes that collide and
wrap, values that tell a re-map from the first map). `CountInv`: the counters,
kept by increments in five places, are what a scan would count. `ProbeEnds`: an
empty slot remains, so the loops end. `UniqueInv`, `PathInv`: one entry per
address, on its probe path, also in the middle of a rehash. `CapBounded`:
tombstones do not make the table grow without end. `IsLiveSet`: it is a map.
`PutReturns`: an insertion ends.
Four keys are enough for a tombstone before and after an entry, for a wrapped
probe and for a growth with tombstones left behind.

**CpThreads** (two threads, two addresses, two sizes, four calls, an OS that
shares regions and refuses unmaps). `LogReplays` and `LinesTell`: lines are in the
order of updates, so that the correlator's replay arrives at the live set, and
carry the live set after each. `ReturnedIsLogged`: a call that has returned is in
the file, so killing the process loses only calls under way. `SummaryAgrees`,
`ExitLinesAgree`: the summary is the last line, and totals, peaks and
`live_at_exit` lines are those that the correlator finds by itself in the events
before them, though other threads go on recording.
`BytesTell`: whatever the OS does, the bytes of a line are those of the live set after
it and the sizes of the entries that maps have written over until then, so that a
region mapped twice is counted once too often for good, and nothing else is.
`NoPhantoms`: whatever the OS does, an address in the live set is mapped or its
unmap has yet to be recorded. `BytesCoverLive`: `live_bytes` is at least the sum
of the live set, so its subtraction never wraps. `LiveIsMapped`, and the bytes in
`LinesTell`: as long as the OS gives every map a region of its own and
refuses no unmap, and no address is given out again before its unmap is recorded
(the history variable `plain`), the docs' promises hold to the letter: the live
set is what is mapped, `live_bytes` is its sum. Four calls are a map, an unmap and a
second map that overtakes the record of the unmap, and one more.

**CpFaults** (two threads, two writes that fail or stop half way, a file that
may not open; weak fairness). `TornCostsTwo`: each fault costs at most its own
line and the one glued to it (with three calls the bound is tight for one
fault and slack for two; the proof is for any number). `CallsReturn`. `ExitEnds`: and nothing follows the
summary.

**DpLog** (two contexts, two calls, each line with a nested call of the logger,
names of quotes, braces, backslashes, newlines and control characters, texts
behind a line that look like JSON, a map buffer that some lines outgrow, by one
place or more). `SeesAll`: while
contexts do not overlap every event is in the log, in order, and none of the
logger's own. `ReadBack`: a line that fits its buffer is read back as the event
it was, whatever lands behind it, and one that was cut is refused. `CallsReturn`.
Texts are sequences of the characters either side looks at, so buffers are 24
and 20 tokens instead of 512 and 128 bytes: as in the code, no unmap is cut and
some maps are. Two calls are one that meets the flag and the one that holds it,
or one after the other.

**Sampler** (two threads, interval 5, sizes around it, 18 bytes each).
`SampleError` bounds how wrong the estimate can be.

**StackTable** (four stacks in a table of four, colliding and wrapping; the
tables' allocation may fail in part). `OneNumber`: stacks are not split.
`AnswerStands`: a number handed out stays that of its stack. `InternReturns`.

**ShardTable** (five addresses, four slots). `IsLossyMap`: nothing but insertions
is ever lost. `EnoughSlots`: nothing is lost before as many addresses as slots
have been there, however often they came and went. Five addresses and four slots
reach the full and the worn-out shard.

**MemTrace** (two threads, two heap and two mmap addresses in two shards, three
allocations, failing calls, unrecorded allocations, a dumper). `TableExact`: no
entry outlives its allocation, except between the two steps of an mremap.
`HeapHeld`: no call about another block removes an entry. `DumpNetOfFrees`,
`DumpCovers`: what a dump, which takes one shard at a time, does promise. Three
allocations are an address, its reuse, and a third that moves between shards.

**Fleet** (a process of each plane, two names, two sizes, three calls, one
process that exits or is killed and may come back with its pid, a clock that
ticks and is set back once; an OS log that also has a line of another program,
one with junk for a size and one that is cut). What the OS has mapped for a process
and what its profiler takes it to have are two variables, which come apart in two
ways the code does not look at: a name is mapped again (`MapAgain`; the OS gives the
same region, docs/STEP2_DESIGN.zh.md:17, with one more reference, and the profiler
writes over its entry), and an unmap is refused (`UnmapRefused`; the profiler erases
the entry all the same, and so does `correlate`, analyze_profile.py:272). `odd` has the
names of both.
`LiveAgrees`: with a forward clock and a pid for each process, what the replay finds
never freed its process had mapped when it last returned from a call, each region
once and for no less long; what is missing are odd names, and all others are told with
size, flags and age; without odd names also what each process freed, how long it held
it, and how many unmaps were of unknown addresses are exact. A process killed inside an
unmap therefore counts as still having the region, which is all that its records can
tell. `PeakIsLargest`: the peak of the count never exceeds what some process had
mapped, and both peaks are exact as long as no name is odd, never too low even if pids
come back. A summary has the count that the replay finds, and the bytes too unless one
of its process's names is odd: then they may be more (shm_profiler.c:517), never less.
`FileOrder`: the figures do not depend on how records are spread over files, nor on
which is read first.
`DistinctCovers`: the "real physical memory
requested" lies between what the OS held at a time and what all maps add up to,
whatever the clock did. `CrossMatches`: what is missing in the profile is what a
process died before recording, nothing is extra, sizes match where they must.
`RowsCountOnce`: each table counts what its rows say; the sizes and times of the run
are below, at and between the edges, not above the last.
Three calls are a name made, shared and dropped, or mapped twice and unmapped once, or
mapped, refused an unmap and mapped again, or made, dropped and made again with
another size; one end is a crash and one restart. The clock is still before the first
call: only differences of times matter.

**MemReport** (five pages of two bytes, of them one of heap and one of stack;
lengths below, at and above a page and above a window of mincore; two stacks with
a common frame; three calls). `AttributedExact`: the tables of the report add up, even
where records overlap, and where they do not, each byte counts for
the record that has it, or none, although the scan for records gives up early
(the distance at which it does is 2 bytes here and 16 GiB in the code).
`CoverageBounded`: of a process that stands still between the snapshots, and
whose records share no page and were not sampled, the unexplained part is what
no record covers, and at most the windows with a hole. Three calls are a mapping,
a part of it given back and a mapping in its place. Fractions are counted in units
of 1/2520, which every length divides.

The bounds keep each run at about two minutes or below. Larger instances were run once while
the modules were written and showed nothing else: `LiveTable` with six keys and
two growths, `ShardTable` with five slots, `MemTrace` with
four allocations, and `CpProfiler` with a faulty write in the four-call run (four
million states).

### Runs that find a violation

* **CpRaceMissed** (`EverythingSeen`). docs/DESIGN.md:57 says the profiler sees
  everything. Thread 1 unmaps an address; before its record takes the lock,
  thread 2 is given the same address and records its map; thread 1's record then
  erases the new entry. The region is mapped and unseen.
* **StackTableFull** (`InternReturns`). With as many stacks as places, a new
  stack finds no empty slot, and the check for a full table is behind one: the
  loop does not end and holds `stk_mtx`, while the header says that the program reaches
  steady state normally (mem_trace.c:9).

Two more that no run singles out, because the properties of ShardTable and MemTrace
are worded around them:

* A probe of `table_put` (mem_trace.c:185) that meets neither its address nor an empty
  slot stores nothing, although it passed tombstones. Once each slot of a shard has
  been used, new addresses are dropped for good, though MEM_TRACE.md:138 says
  that large allocations are always recorded. `EnoughSlots` says from when on.
* `mremap` (mem_trace.c:437) deletes the old address after the real call; another
  thread's `mmap` may have been given and recorded it in between, and its entry is
  erased, though MEM_TRACE.md:144 says the table is always what is live. `HeapHeld`
  is therefore about malloc blocks.

Other divergences seen while modelling, which the constants of the runs switch
off or on:

* Control plane: a name that one process maps twice is at one address; its entry is
  written over (shm_profiler.c:397) and its size added again (:517), so that the
  `live_bytes` of later lines is not that of the "live-set after the event", as
  docs/STEP1.md:50 says (`BytesTell` has the difference; hence `BytesCoverLive` is an
  inequality). The first unmap of such a region erases its one entry, and so does an
  unmap that the OS refused (:555): the region gets no `live_at_exit` line, though
  docs/STEP1.md:66 says that each one still mapped does. Nor does `correlate` find it never
  freed (analyze_profile.py:272), and its peaks can then be below what was mapped. `plain`
  in `CpProfilerLog`, and `odd` in `Fleet`, mark these cases.
* Data plane: contexts that overlap lose events, which the comment at
  shm_profiler.c:138 rules out by assumption (`crossed` in DpLog); a name with a
  control character other than newline, return and tab makes a line that
  `json.loads` refuses (:120, excepted in `ReadBack`); a line that was cut and has
  another module's text behind it may close on a brace of that text and decode to
  another name.
* Heap tracer: `realloc` loses the entry of a block when the real call fails
  (mem_trace.c:384); `stks` allocated without `stk_idx` makes the next call read
  through NULL (:150, `Died` in StackTable); sampling forgets the overshoot, so sizes
  just below the interval are under-counted by up to half (:232, the lower bound of
  `SampleError` is tight); a dump may show two blocks that were never live together
  (:302).
* Profile report: a pid that is given out again merges two processes, so that the
  first one's mappings stay live (analyze_profile.py:244); a step back of the clock
  puts an unmap before its map (:252); on the data plane a pid stands for a context
  (:162-198), so memory mapped on one vcpu and unmapped on another is unmatched on both;
  lifetimes above 10 s have no row in the histogram, and sizes above 2 MB none in the
  cross-tab, whose first row is printed twice (:455, :472; `Labels`); "a single pool
  only needs ~peak_live_bytes" (:432) is the peak of one process, not of all together.
* Cross-check: the header says that sizes are decimal without a 0x prefix
  (crosscheck_os_log.py:15), while the code takes a whole column for hexadecimal as
  soon as one line of any program has a letter from a to f in it, even a line of junk
  (:58); sizes that happen to have none are read as decimal (`told` in `CrossMatches`;
  this is what --req-hex is for).
* Heap-trace analyser: munmap of the tail of a mapping leaves its entry at full size,
  and of its head removes it (mem_trace.c:427); the kernel then gives the pages out
  again, records overlap, and UNATTRIBUTED can be negative (analyze_mem_trace.py:224).
  A window of mincore with a hole counts no resident bytes at all (mem_trace.c:278).
  The estimate for a sampled block scales the resident bytes of whole pages
  (analyze_mem_trace.py:49), and can be far above its weight. Mappings of files count
  as "our measured resident" but not as territory (:287), since the flag
  MAP_ANONYMOUS (:26) is not looked at; `[anon:...]` names and /dev/zero are not
  territory either.

## Fairness

`LiveTable`, `StackTable` and `DpLog`: a thread inside an operation goes on; it holds the
lock, or needs none, and nothing blocks it. `CpProfiler`: weak fairness of each thread inside a
wrapper and of `exit()`. Callers need not call, and nobody need exit. The spin
lock itself is unfair; that a spinning thread gets it rests on the end of
competing calls, which the bound on calls provides. The code gives no more.
Deadlock is not checked where the system stops on purpose: the process exits, the
bound on calls is reached, or it has died.

## What is proved

TLAPS checks these for every value of the constants, under the assumptions the
modules name (`TableAssumption`, `CpAssumption`, `LineAssumption`,
`SamplerAssumption`, `ShardAssumption`, `StackAssumption`, `TraceAssumption`,
`DpAssumption`, `FleetAssumption`: types, distinctness of the markers (NULL is no name,
number, entry or mapping), finite sets where
something is counted, sets of inputs that are not empty, and an initial capacity of at
least 4; `ReportAssumption` of `Report`: the edges of a histogram rise, as SIZE_BUCKETS
and LIFE_BUCKETS_NS do, analyze_profile.py:33-34; `LogAssumption`: what the OS logged
before the first process started is not about the names these use; `TextAssumption` of
`DpLog`: names and what lands behind a line are texts, and no character of a name is one
of the tokens that stand for a key of ours with its punctuation).

* `LiveTable_proofs`: types, `CountInv`, `ProbeEnds`, `UniqueInv`, `PathInv`,
  `CapBounded`, and the refinement of `LiveSet`. The invariant joins them with
  what holds in the middle of a growth: which old slots are still waiting and
  that the new table has room for them. `ProbeEnds` needs `CountInv`, because
  the load check is about the counters; uniqueness needs paths, because a put
  that finds no entry on its path must know there is none elsewhere; the
  capacity bound counts entries against the number of keys.
* `CpProfiler_proofs`: types, `OneInSection`, `NoPhantoms`, `LiveIsMapped` and
  `ReturnedIsLogged`. The lock part is that whoever is in the section holds the lock.
  For `NoPhantoms` the invariant counts references (`RefInv`): those of an address are
  the callers that hold it and the maps that have not yet returned. So a map on its
  way to be recorded still has its region, and one that is recorded stays mapped until
  an unmap is under way. For `LiveIsMapped` (`PlainInv`), when the OS does nothing
  strange at most one call on an address is yet to be recorded, and the live set says
  what it will have to by then: an unmap that waits finds its entry. For
  `ReturnedIsLogged` (`FileInv`) the lines of events and the calls under way add up to
  the calls made, from the first record on, which finds an empty file and every call
  under way.
* `CpProfiler_proofs`, on what `load_records` and `correlate` make of the file: the six
  invariants of `CpProfilerLog` that hold.
  * `LogReplays`, `LinesTell`, `SummaryAgrees`, `ExitLinesAgree`. None is inductive:
    each speaks of some moments or some lines only, and profiler_atexit closes the
    file. The invariant is `LogIInv`. Its core (`LogInv`, in `CpProfilerLog`) is that
    the file lacks no record but the one made by the thread in state `recorded`, and
    that the replay of all others, and of that one too, is the live set, the peaks and
    the totals of `g` (`ToldInv`); that a line waits only while the file is open and
    that without faults every line is whole (`LineInv`); which entries profiler_atexit
    has reported (`ExitInv`); that `live_bytes` is exact while the OS is plain and
    never too low (`BytesInv`). `LinesTell` joins in because a line tells of the file
    up to itself, which the lines behind it leave alone. `Ends`, which is `SummaryAgrees` and
    `ExitLinesAgree` put for the proof, carries what the summary line says over to the
    state in which the file is closed, where `ToldInv` says nothing any more. `RefInv` and `PlainInv` are needed for `BytesInv`, which
    has to know that a plain OS gives no address that still has an entry; `LockInv` and
    `FileInv` for there being one writer, and for the file that is empty until
    `ensure_init`.
  * `BytesCoverLive` is part of `BytesInv`.
  * `TornCostsTwo`: each fault is charged two lines. A file that ends in a torn line
    has paid for one of them and owes the other to the next line, which is what makes
    the count inductive (`TornInv`).

  These properties compute with folds: `Replay` is `FoldLeft`, `Bytes` a sum over a set.
  The library's induction theorems cannot be used (their parameter is an operator), so
  a claim about every sequence or set is put as a set of numbers, the lengths for
  which it holds, and the least number outside of it, which exists because `<` is well
  founded on `Nat` (`Least`, `Induction`, `SetInduction`), is refuted. `ReplayAppend`
  (a record more is one step of `correlate`), `LoadWhole` (a file without torn lines is
  read whole) and the lemmas on sums over sets (`SumTake`) are got in this way once; the
  rest is about single steps.
* `Sampler_proofs`: `SampleError`, by an invariant that puts the running count
  between the two sums.
* `ShardTable_proofs`: `EnoughSlots` and the refinement of `LossyMap`. The invariant
  charges each slot that is not empty to an address of its own whose probe runs past
  it (`ChargeInv`). A new entry that takes a tombstone may find its address charged
  with a later one; the two swap their charges, and the paths join (`PathJoin`).
* `StackTable_proofs`: `OneNumber` and `AnswerStands`. A probe that ends at an empty
  place knows the stack to be new, because the path to a stack that has a number
  has no empty place (`PlacedInv`), and it has passed none itself (`ProbeInv`).
* `MemTrace_proofs`: `TableExact`, `HeapHeld`, `DumpNetOfFrees` and `DumpCovers`. A
  thread inside a call holds an allocation nobody else has (`HoldInv`,
  `OneHolder`); what it is to release has no entry any more (`GiveInv`), what it is to
  record never had one (`TakeInv`); numbers are of one address and never come back
  (`NumberInv`); of the shards written already a dump is complete (`CoverInv`).
* `Fleet_proofs`: all six invariants of the run Fleet, for any number of processes,
  names, sizes, calls, deaths and pids that come back. A region is not an invariant of
  the file, nor the file one of the processes, so each rests on one that ties the two
  (the part "Why" of `FleetReport`; each is checked by TLC like the rest):
  * `DistinctCovers`, from `Types`, `FileInv` (each line is whole and of one of the four
    shapes a process writes, none later than a clock that never went back) and
    `RegionInv`: what the OS holds of a name is at most the largest recorded map of it,
    so a map raises the peak of the OS by no more than it raises the distinct bytes, by
    size and by cost. `lost = {}` is in the property for the region whose maker died.
  * `LiveAgrees` and `PeakIsLargest`, from `EntriesInv`, `ReplayInv`, `UnknownInv`,
    `MostInv`, `SummaryInv` and `LeakInv`. The profiler's entries are compared with what
    the OS has mapped: each entry is of a mapped name, at its address and no older, and
    what is mapped has one, but for odd names (`EntriesInv`). The replay is compared with
    the profiler: as long as the clock only goes forward, sorting the events of a pid by
    time leaves them in the order they were written in, so one call more is one step of
    `correlate` more; the replay of a pid then has all that its process has
    (`HasAll`), and nothing else if no pid came back (`HasOnly`); of the bytes of the
    profiler, to which a second map adds twice, only one side holds for odd names. A
    summary and a `live_at_exit` line say what was so when the process ended, which
    stays as it was (`SummaryInv`, `LeakInv`). Without odd names the peak of the report
    is reached by the replay of some process (`MostInv`): without that, it could be below
    what was true of one that is gone.
  * `RowsCountOnce`: the rows divide the values, because the edges rise; and `FileInv`
    says what fields a record has.
  * `FileOrder`: reading the records in another order is a bijection of their positions
    (`Together` for two files). It leaves sums and counts as they are, and keeps the
    order of the events of a pid by time and position as long as no two with one time
    change places.
  * `CrossMatches`, from `LogInv`: each line of the OS about one of the names is of a
    recorded map, or of one whose maker died, and each region has a line; what is mapped
    the OS has (`KeptInv`). That all of
    them can be read, in a column taken for hexadecimal or not, and what they say, rests
    on `NumeralRead`: the digits that are written, from the last to the first, are read
    back to the number. The digits are a recursive function, and their existence and
    value are got by strong induction.

  The sums and counts over positions are handled like those of `CpProfiler_proofs`, with
  lemmas on sums over any finite set (`SumTake`), on bijections of what is summed, on
  ranks of positions and on folds.
* `DpLog_proofs`: `SeesAll` and `ReadBack`. The flag is set exactly while the one call
  under way is past its exchange, so a call of the logger's meets it set and the stack is
  never deeper than two (`AloneInv`), whatever `MaxDepth` is.

  `ReadBack` is about texts, for names, numbers, buffers and texts behind a line of any
  length. That a line is what the buffer kept of an event's payload is inductive by
  itself (`OutOK`); the rest is what writer and reader do to such a line (`LineReads`):
  * The three folds of the reader (the scan, the decoder of a string, the value of a
    numeral) exist and take one step for a token more, which is got once for all
    three (`FoldAppend`); with induction over texts, on the set of those for which
    something holds (`SeqInduction`), each statement is then about one token.
  * `NumeralRead`: the digits that are written, from the last to the first, are read back.
  * `OpenJson` and `DecodedJson`: the scan is inside the string after each character of
    an escaped name, and the decoder has the name up to there.
  * `ObjectWhole` and `ObjectCut`: if the scan is inside the object before the last brace,
    the whole text is the object whatever follows, and no shorter text has one.
  * `FieldEnds`, `EndsOn`, `AfterIs`: a value without keys that the scan passes (`IsValue`)
    is what stands under its key once something is behind it. Each value is of that kind
    (`NumeralValue`, `SignedValue`, `AddressValue`, `WordValue`, `NameValue`), and the
    payload is made of five or three of them (`MapFields`, `UnmapFields`).

TLC checked each of these invariants on the instances of the
runs before it was proved.

Only model-checked:

* `BytesTell`: an invariant of the kind of `ToldInv`, with the sum of what was written
  over in it; what the run adds to the proved `LinesTell` and `BytesCoverLive` is how
  large the excess is.
* Liveness under fairness, and `ENABLED`: out of the provers' reach.
* `MemReport`'s `AttributedExact` and `CoverageBounded`. Their operators
  use `SelectSeq`, `SortSeq`, `:>` and `@@`, of which the provers know no definition, and
  divide by lengths, which is not linear; the sums of the first could be reformulated over
  positions as `Report` is, the rest needs a lemma on quotients that nothing else
  here would use.

## Not modelled

* A `calloc` in the profiler that returns NULL: there is no handling, the
  process dies.
* The clocks in a log's prefix, and so the records of `DpLog` in the report: `Fleet`'s
  data-plane process writes records with a pid and a time as the reader would have
  made them. The text of the control plane's lines; a line cut by its buffer is
  torn like one whose write stopped (`Written`).
* Of a second map of a name in one process: any other address than the one it has
  already. Only that one is what the docs call sharing, and `table_put` overwrites.
* The `flags` of a line in `LogLine`, one number more; in the code it moves the place
  where the buffer cuts. The size in the record of a map that failed (`CpProfiler`).
* Allocations before `mt_init`, which sets the count to the next sample anew
  (mem_trace.c:349): the sums of `Sampler` begin with it.
* In `MemTrace` an munmap gives back all of one mapping; parts are in `MemReport`, where
  in turn no range has a hole and no call fails. Writes that fail in `do_dump`, which the
  code does not look at: a dump is what was to be written.
* Whether an overwrite in a shard may be lost: in `LossyMap` that is a stuttering step,
  so the refinement of `ShardTable` does not rule it out. (In the code and in `PutOver`
  an overwrite is never lost.)
* Percentiles, rates and wording in the reports. Threads in `Fleet` and `MemReport`:
  a call and its record are one step there, and `CpProfiler` and `MemTrace` have the
  interleavings.
* The tracer's recursion guard, bootstrap allocator, symbol resolution and frame
  rendering; `mmap` with `MAP_FIXED` over a mapping; in the analyser the resolver
  of symbols, which runs addr2line, and `--hist`.
* The shell scripts, the demo program and the unit test. The memory-pool
  documents describe code that does not exist yet.

## Plan

In order; these are done.

1. `LiveSet`, `LiveTable` and its proofs: everything else rests on the table.
2. `CpProfiler`, `CpProfilerLog`, proofs of the lock and of `NoPhantoms`.
3. `Sampler` and its bound.
4. `LossyMap`, `ShardTable`, `StackTable`.
5. `MemTrace` over `LossyMap`.
6. `DpLog` and `LogLine`: the data plane's flag, nested and concurrent calls, the
   line and its way back.
7. `Correlate`: the replay of `analyze_profile.py`, fed with the files `CpProfiler`
   can write.
8. `Report`, `CrossCheck`, `Fleet`: the tools on what several processes leave.
   `TraceReport`, `MemReport`: the same for the heap tracer.
9. Proofs: `StackTable`, `ShardTable` with its refinement, `MemTrace`, `DpLog`, and
   of `CpProfiler` what its records say.
10. Proofs about the file of `CpProfiler` as its reader sees it (`CpProfilerLog`).
11. `Report`, `Correlate` and `Fleet` over positions instead of `SelectSeq` and `SortSeq`,
    and the proofs about what the tools say of a fleet (`Fleet_proofs`).
12. The proof of `ReadBack`: a line of the data plane and its way back, for every text.

Still open, and the next proofs to try: `BytesTell`, and the sums of `AttributedExact`
(its part `TotalsAgree`) once `TraceReport` sums over sets of positions, with the
lemmas on sums of `Fleet_proofs`.
