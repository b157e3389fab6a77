----------------------------- MODULE TraceReport -----------------------------
(***************************************************************************)
(* src/tools/analyze_mem_trace.py: what it makes of a dump of the heap     *)
(* tracer and of a snapshot of /proc/<pid>/smaps.                          *)
(*                                                                         *)
(* A line of a dump is a record [kind, addr, size, weight, stack], and     *)
(* resident in the newer layout; a mapping of smaps is [start, end, path,  *)
(* rss].  What the code computes as a fraction of bytes is counted in      *)
(* units of 1/Scale here; Scale is divisible by every length there is.     *)
(***************************************************************************)
EXTENDS Integers, SequencesExt, FiniteSetsExt, TLC

CONSTANTS
  Scale,
  Far       \* how far below a mapping the scan for records gives up: 1 << 34

Total(s) == FoldLeft(LAMBDA x, y : x + y, 0, s)
Map1(f(_), s) == [n \in DOMAIN s |-> f(s[n])]

\* parse_dump: the lines of one kind.  A line of the older layout has no
\* resident bytes.
Resident(line) == IF "resident" \in DOMAIN line THEN line.resident ELSE 0
EstRes(line) ==
  IF line.size = 0 THEN 0 ELSE (Scale * Resident(line) * line.weight) \div line.size

OfKind(lines, kind) == SelectSeq(lines, LAMBDA line : line.kind = kind)

\* a_res + m_res
MeasuredResident(lines) == Total(Map1(EstRes, lines))

-----------------------------------------------------------------------------
(* smaps.                                                                  *)

\* Mutant: the heap is taken for something else.
MutCategory(path) ==
  CASE path = "" -> "anon"
    [] path = "[stack]" -> "stack"
    [] path \in {"/lib", "/dev/zero"} -> "file"
    [] OTHER -> "other"

\* smaps_categories, by the name a mapping has.
Category(path) ==
  CASE path = "" -> "anon"
    [] path = "[heap]" -> "heap"
    [] path = "[stack]" -> "stack"
    [] path \in {"/lib", "/dev/zero"} -> "file"
    [] OTHER -> "other"

Categories(vmas) ==
  [c \in {"anon", "heap", "stack", "file", "other"} |->
     Total(Map1(LAMBDA v : v.rss, SelectSeq(vmas, LAMBDA v : Category(v.path) = c)))]

\* "malloc/allocator land"
Territory(vmas) == Categories(vmas)["anon"] + Categories(vmas)["heap"]

-----------------------------------------------------------------------------
(* rank_by_stack.                                                          *)

First(depth, stack) == SubSeq(stack, 1, IF depth < Len(stack) THEN depth ELSE Len(stack))

\* r[weight_key]; est_res is in units of 1/Scale, weight is not.
WeightOf(line, key) == IF key = "est_res" THEN EstRes(line) ELSE line.weight

RankByStack(lines, depth, key) ==
  LET Of(stack) == SelectSeq(lines, LAMBDA line : First(depth, line.stack) = stack)
  IN  [stack \in {First(depth, lines[n].stack) : n \in DOMAIN lines} |->
         [weight |-> Total(Map1(LAMBDA line : WeightOf(line, key), Of(stack))),
          count |-> Len(Of(stack))]]

-----------------------------------------------------------------------------
(* attribute_rss.                                                          *)

Ends(r) == r.addr + r.size
Lower(m, n) == IF m <= n THEN m ELSE n
Higher(m, n) == IF m >= n THEN m ELSE n

\* Mutant: a record that begins below the mapping counts in full.
MutOverlap(r, v) == Lower(Ends(r), v.end) - r.addr

Overlap(r, v) == Lower(Ends(r), v.end) - Higher(r.addr, v.start)

\* The scan goes down from the last record that begins before the end of the
\* mapping, to the first that ends before the mapping and begins far below it.
Hits(recs, v) ==
  LET last == Cardinality({n \in DOMAIN recs : recs[n].addr <= v.end})
      stop == {n \in 1 .. last : Ends(recs[n]) <= v.start /\ recs[n].addr < v.start - Far}
  IN  {n \in Max({0} \cup stop) + 1 .. last :
         Ends(recs[n]) > v.start /\ Overlap(recs[n], v) > 0}

\* What falls on n bytes of a mapping if its resident bytes are spread evenly.
Share(v, n) == (Scale * v.rss * n) \div (v.end - v.start)

\* Where records overlap this is less than the bytes without one, or negative.
Uncovered(recs, v) ==
  v.end - v.start - MapThenSumSet(LAMBDA n : Overlap(recs[n], v), Hits(recs, v))

AttributeRss(lines, vmas) ==
  LET recs == SortSeq(lines, LAMBDA r, s : r.addr < s.addr)
      Of(stack, v) == {n \in Hits(recs, v) : recs[n].stack = stack}
  IN  [by |-> [stack \in {recs[n].stack : n \in DOMAIN recs} |->
                 Total(Map1(LAMBDA v : MapThenSumSet(LAMBDA n : Share(v, Overlap(recs[n], v)),
                                                     Of(stack, v)), vmas))],
       unattributed |-> Total(Map1(LAMBDA v : Share(v, Uncovered(recs, v)), vmas)),
       total |-> Scale * Total(Map1(LAMBDA v : v.rss, vmas))]
=============================================================================
