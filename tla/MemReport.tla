------------------------------ MODULE MemReport ------------------------------
(***************************************************************************)
(* A traced process and the report on it: pages of its address space that  *)
(* are mapped, touched and given back, the tracer's table of allocations   *)
(* (src/tools/mem_trace.c), its dump, a snapshot of smaps taken some time  *)
(* after it, and what analyze_mem_trace.py makes of the two.               *)
(*                                                                         *)
(* A wrapper is one step: MemTrace has the interleavings.  The kernel      *)
(* shows neighbouring anonymous pages as one mapping, and each mapping of  *)
(* a file as one.  Addresses are counted in bytes from 0.                  *)
(***************************************************************************)
EXTENDS TraceReport

CONSTANTS
  NPages, PageSize,   \* the address space
  HeapPages,          \* the pages of [heap]
  Window,             \* pages one call of mincore asks for
  SampleBytes,        \* sample_bytes
  Lengths, Blocks,    \* lengths for mmap, sizes for malloc
  Stacks, Depth,      \* call stacks; how many frames the report shows
  MaxCalls            \* bound: calls of malloc, free, mmap and munmap

Pages == 0 .. NPages - 1
NoPage == [path |-> "none", id |-> 0]
None == << >>

ASSUME ReportAssumption ==
  /\ NPages \in Nat /\ PageSize \in Nat \ {0} /\ Window \in Nat \ {0}
  /\ SampleBytes \in Nat \ {0} /\ HeapPages \subseteq Pages
  /\ \A n \in 1 .. NPages * PageSize : Scale % n = 0

VARIABLES
  vma,          \* of each page, the path of its mapping, and a number
  resident,     \* the pages that are in memory
  tab,          \* the tracer's table: a map from addresses to entries
  blocks,       \* malloc blocks in use, recorded or not
  dump, smaps,  \* what the two snapshots hold
  drift,        \* whether the process has gone on between them
  calls

vars == <<vma, resident, tab, blocks, dump, smaps, drift, calls>>

-----------------------------------------------------------------------------
\* The pages from addr on that n bytes take.
PagesOf(addr, n) ==
  addr \div PageSize .. (addr + n - 1) \div PageSize

Taken(p) == vma[p].path # "none"

Init ==
  /\ vma = [p \in Pages |-> IF p \in HeapPages THEN [path |-> "[heap]", id |-> 0]
                            ELSE IF p = NPages - 1 THEN [path |-> "[stack]", id |-> 0]
                            ELSE NoPage]
  /\ resident = {NPages - 1} /\ tab = None /\ blocks = None
  /\ dump = None /\ smaps = None /\ drift = FALSE /\ calls = 0

\* The process goes on; after the second snapshot nothing matters any more.
Runs == smaps = None /\ UNCHANGED <<dump, smaps>> /\ drift' = (dump # None)
Call == Runs /\ calls < MaxCalls /\ calls' = calls + 1

\* table_put and table_del.  There is one entry for an address.
TablePut(addr, entry) == tab' = (addr :> entry) @@ tab
TableDel(addr) == tab' = [a \in DOMAIN tab \ {addr} |-> tab[a]]

Entry(kind, size, weight, stack) ==
  [kind |-> kind, size |-> size, weight |-> weight, stack |-> stack]

\* malloc puts a block into the heap.  One below the sampling interval may be
\* left out, or stand for a whole interval.
Malloc(addr, size, stack) ==
  /\ Call
  /\ PagesOf(addr, size) \subseteq HeapPages
  /\ \A b \in DOMAIN blocks : addr >= b + blocks[b] \/ addr + size <= b
  /\ blocks' = (addr :> size) @@ blocks
  /\ \/ size >= SampleBytes /\ TablePut(addr, Entry("A", size, size, stack))
     \/ size < SampleBytes /\ TablePut(addr, Entry("A", size, SampleBytes, stack))
     \/ size < SampleBytes /\ UNCHANGED tab
  /\ UNCHANGED <<vma, resident>>

\* free: the allocator keeps the pages.
Free(addr) ==
  /\ Call /\ addr \in DOMAIN blocks
  /\ TableDel(addr)
  /\ blocks' = [b \in DOMAIN blocks \ {addr} |-> blocks[b]]
  /\ UNCHANGED <<vma, resident>>

\* mmap gets free pages.  A mapping that the wrapper does not see, or that is
\* smaller than mmap_min, leaves no entry.
Mmap(page, length, path, stack) ==
  LET pages == PagesOf(page * PageSize, length) IN
  /\ Call
  /\ pages \subseteq Pages /\ \A p \in pages : ~Taken(p)
  /\ vma' = [p \in Pages |-> IF p \in pages
                             THEN [path |-> path, id |-> IF path = "" THEN 0 ELSE page]
                             ELSE vma[p]]
  /\ \/ TablePut(page * PageSize, Entry("M", length, length, stack))
     \/ UNCHANGED tab
  /\ UNCHANGED <<resident, blocks>>

\* munmap gives back a mapping or a part of one: the entry that goes is the one
\* for the first address, whatever its size.  A range with a hole, and a call that
\* fails, are left out.
Munmap(page, length) ==
  LET pages == PagesOf(page * PageSize, length) IN
  /\ Call
  /\ pages \subseteq Pages \ HeapPages /\ \A p \in pages : Taken(p) /\ p < NPages - 1
  /\ vma' = [p \in Pages |-> IF p \in pages THEN NoPage ELSE vma[p]]
  /\ resident' = resident \ pages
  /\ TableDel(page * PageSize)
  /\ UNCHANGED blocks

\* The process touches a page.
Touch(p) ==
  /\ Runs /\ Taken(p) /\ p \notin resident
  /\ resident' = resident \cup {p}
  /\ UNCHANGED <<vma, tab, blocks, calls>>

-----------------------------------------------------------------------------
(* The snapshots.                                                          *)

\* resident_bytes: mincore tells nothing of a window with a page that is not
\* mapped.
ResidentBytes(addr, size) ==
  LET pages == PagesOf(addr, size)
      WindowOf(p) == {q \in pages : (q - Min(pages)) \div Window = (p - Min(pages)) \div Window}
  IN  PageSize * Cardinality({p \in pages \cap resident : \A q \in WindowOf(p) : Taken(q)})

\* do_dump
Lines ==
  LET order == SetToSortSeq(DOMAIN tab, <)
  IN  [n \in DOMAIN order |->
         LET a == order[n] IN
         [addr |-> a, resident |-> ResidentBytes(a, tab[a].size)] @@ tab[a]]

\* /proc/<pid>/smaps: the longest runs of pages of one mapping.
Starts == {p \in Pages : Taken(p) /\ (p > 0 => vma[p - 1] # vma[p])}
Vmas ==
  LET order == SetToSortSeq(Starts, <)
      After(p) == Min({q \in p .. NPages : q = NPages \/ vma[q] # vma[p]})
  IN  [n \in DOMAIN order |->
         LET p == order[n] IN
         [start |-> p * PageSize, end |-> After(p) * PageSize, path |-> vma[p].path,
          rss |-> PageSize * Cardinality((p .. After(p) - 1) \cap resident)]]

Dump ==
  /\ dump = None /\ tab # None /\ dump' = Lines
  /\ UNCHANGED <<vma, resident, tab, blocks, smaps, drift, calls>>

Smaps ==
  /\ dump # None /\ smaps = None /\ smaps' = Vmas
  /\ UNCHANGED <<vma, resident, tab, blocks, dump, drift, calls>>

Next ==
  \/ \E stack \in Stacks :
       \/ \E addr \in 0 .. NPages * PageSize - 1, size \in Blocks : Malloc(addr, size, stack)
       \/ \E page \in Pages, length \in Lengths, path \in {"", "/lib"} :
            Mmap(page, length, path, stack)
  \/ \E addr \in DOMAIN blocks : Free(addr)
  \/ \E page \in Pages, length \in Lengths : Munmap(page, length)
  \/ \E p \in Pages : Touch(p)
  \/ Dump \/ Smaps

Spec == Init /\ [][Next]_vars

-----------------------------------------------------------------------------
Reported == smaps # None

\* The tables of the report add up: mappings to the total in both of its parts,
\* what is attributed and what is not to that total even where records overlap,
\* and the ranking, at any depth, to what the lines weigh, each line once.
TotalsAgree ==
  Reported =>
    LET part  == AttributeRss(OfKind(dump, "M"), smaps)
        cats  == Categories(smaps)
        Sum(f) == MapThenSumSet(LAMBDA k : f[k], DOMAIN f)
    IN  /\ Sum(part.by) + part.unattributed = part.total
        /\ Scale * Sum(cats) = part.total
        /\ \A depth \in 0 .. Depth, key \in {"weight", "est_res"} :
             LET rank == RankByStack(dump, depth, key)
             IN  /\ MapThenSumSet(LAMBDA k : rank[k].weight, DOMAIN rank)
                      = Total([n \in DOMAIN dump |-> WeightOf(dump[n], key)])
                 /\ MapThenSumSet(LAMBDA k : rank[k].count, DOMAIN rank) = Len(dump)

\* The mapping a byte is in, and the records that have it.
Within(v) == {b \in 0 .. NPages * PageSize - 1 : v.start <= b /\ b < v.end}
Having(b, kind) ==
  {n \in DOMAIN dump : /\ dump[n].kind = kind
                       /\ dump[n].addr <= b /\ b < dump[n].addr + dump[n].size}

\* Where no two records overlap, each byte of a mapping counts for the one record
\* that has it, or for none: the scan misses nothing, though it gives up early.
EachByteOnce ==
  Reported /\ (\A b \in 0 .. NPages * PageSize - 1 : Cardinality(Having(b, "M")) <= 1) =>
    LET part == AttributeRss(OfKind(dump, "M"), smaps)
        Bytes(v, stack) ==
          {b \in Within(v) : \E n \in Having(b, "M") : dump[n].stack = stack}
        Free0(v) == {b \in Within(v) : Having(b, "M") = {}}
        Sum(Set(_)) == Total(Map1(LAMBDA v : Share(v, Cardinality(Set(v))), smaps))
    IN  /\ \A stack \in DOMAIN part.by : part.by[stack] = Sum(LAMBDA v : Bytes(v, stack))
        /\ part.unattributed = Sum(Free0)

\* What the report says of the bytes of mappings is right: its tables add up,
\* overlaps or not, and without overlaps every byte is where it belongs.
AttributedExact == TotalsAgree /\ EachByteOnce

\* The pages of a line, and whether the measure of its resident bytes is exact:
\* it shares no page, stands for itself alone and has no page of a file.
PagesOfLine(n) == PagesOf(dump[n].addr, dump[n].size)
Alone(n) == \A m \in DOMAIN dump \ {n} : PagesOfLine(n) \cap PagesOfLine(m) = {}
Plain(n) ==
  /\ Alone(n) /\ dump[n].weight = dump[n].size
  /\ \A p \in PagesOfLine(n) : vma[p].path # "/lib"

\* "RESIDENT is exact" for large allocations: if the process stood still between
\* the snapshots, what is measured is not more than the anonymous mappings and
\* the heap, and what is not explained is what lies outside of all records, and
\* in windows with a hole.
CoverageBounded ==
  Reported /\ ~drift /\ (\A n \in DOMAIN dump : Plain(n)) =>
    LET land  == {p \in resident : vma[p].path \in {"", "[heap]"}}
        holed == {n \in DOMAIN dump : \E p \in PagesOfLine(n) : ~Taken(p)}
        whole == UNION {PagesOfLine(n) : n \in DOMAIN dump \ holed}
        gap   == Scale * Territory(smaps) - MeasuredResident(dump)
    IN  /\ gap >= 0
        /\ gap <= Scale * PageSize * Cardinality(land \ whole)
        /\ holed = {} => gap = Scale * PageSize * Cardinality(land \ whole)
=============================================================================
