------------------------------- MODULE Report --------------------------------
(***************************************************************************)
(* The figures main of src/tools/analyze_profile.py prints, as functions   *)
(* of the records it has loaded.  A size in bytes and the 2 MB the OS      *)
(* gives regions out in are scaled down: Granule stands for MB2, and the   *)
(* edges of the histograms and the length of a second are constants too.   *)
(* How a figure is worded or put in units is left out.                     *)
(***************************************************************************)
EXTENDS Correlate

CONSTANTS
  Granule,                \* MB2
  SizeEdges, LifeEdges,   \* SIZE_BUCKETS, LIFE_BUCKETS_NS
  Milli, Second           \* the times that part the columns of the cross-tab

\* Edges rise.
ASSUME ReportAssumption ==
  \A edges \in {SizeEdges, LifeEdges} :
    edges \in Seq(Nat) /\ \A i, j \in DOMAIN edges : i < j => edges[i] < edges[j]

\* Figures are about what is at some positions, in whatever order it is there.
HowMany(f, P(_)) == Cardinality({x \in DOMAIN f : P(f[x])})

RoundUp(size) == ((size + Granule - 1) \div Granule) * Granule

-----------------------------------------------------------------------------
(* Calls and sizes.                                                        *)

OkMaps(records) == {n \in DOMAIN records : MapOk(records[n])}
Sizes(records) == [n \in OkMaps(records) |-> records[n].size]

Requested(records) == Total(Sizes(records))
OsCost(records) == Total([n \in OkMaps(records) |-> RoundUp(records[n].size)])

\* The maps that tell a name.
Named(records) == {n \in OkMaps(records) : Get(records[n], "name", NULL) # NULL}

\* Mutant: the size of a region is that of its last map.
MutRegions(records) ==
  LET At(name) == {n \in Named(records) : records[n].name = name}
  IN  [name \in {records[n].name : n \in Named(records)} |->
         [size |-> records[Max(At(name))].size, maps |-> Cardinality(At(name))]]

\* Distinct regions: one entry for each name, with the largest size.
Regions(records) ==
  LET At(name) == {n \in Named(records) : records[n].name = name}
  IN  [name \in {records[n].name : n \in Named(records)} |->
         [size |-> Max({records[n].size : n \in At(name)}), maps |-> Cardinality(At(name))]]

DistinctBytes(records) ==
  LET by == Regions(records) IN Total([name \in DOMAIN by |-> by[name].size])
DistinctCost(records) ==
  LET by == Regions(records) IN Total([name \in DOMAIN by |-> RoundUp(by[name].size)])

-----------------------------------------------------------------------------
(* Histograms.                                                             *)

\* Mutant: an edge belongs to the bucket above it.
MutBucket(v, edges) ==
  LET above == {n \in DOMAIN edges : v < edges[n]}
  IN  IF above = {} THEN Len(edges) + 1 ELSE Min(above)

\* bucket_label: the number of the first edge v is not above.
Bucket(v, edges) ==
  LET above == {n \in DOMAIN edges : v <= edges[n]}
  IN  IF above = {} THEN Len(edges) + 1 ELSE Min(above)

\* The labels main asks for, one for 0 and one for each edge: the first comes
\* twice, and none is that of what is above the last edge.
Labels(edges) == <<Bucket(0, edges)>> \o [n \in DOMAIN edges |-> Bucket(edges[n], edges)]

In(values, edges, label) == HowMany(values, LAMBDA v : Bucket(v, edges) = label)

\* The size histogram goes on with the labels it has not printed yet.
SizeRows(sizes) == [label \in 1 .. Len(SizeEdges) + 1 |-> In(sizes, SizeEdges, label)]

\* The lifetimes of all processes that correlate has found.
AllLifetimes(corr) ==
  LET at == UNION {{pid} \X DOMAIN corr[pid].lifetimes : pid \in DOMAIN corr}
  IN  [x \in at |-> corr[x[1]].lifetimes[x[2]]]

\* The lifetime histogram stops after the labels: hist.pop prints each once.
LifeRows(lifetimes) ==
  LET lives == [n \in DOMAIN lifetimes |-> lifetimes[n].life]
  IN  [label \in Range(Labels(LifeEdges)) |-> In(lives, LifeEdges, label)]

Column(life) == IF life < Milli THEN 1 ELSE IF life < Second THEN 2 ELSE 3

\* The cross-tab: one row for each label asked for, so the first is there twice.
Grid(lifetimes) ==
  LET Row(label) == {x \in DOMAIN lifetimes : Bucket(lifetimes[x].size, SizeEdges) = label}
  IN  [n \in DOMAIN Labels(SizeEdges) |->
         [col \in 1 .. 3 |->
            Cardinality({x \in Row(Labels(SizeEdges)[n]) : Column(lifetimes[x].life) = col})]]

-----------------------------------------------------------------------------
(* Roll-ups.                                                               *)

\* by_pg: what ShmMapOnPg has mapped for each pgname.
ByPg(records) ==
  LET on == {n \in OkMaps(records) : records[n].event = "map_on_pg"}
      Of(pg) == {n \in on : Get(records[n], "pgname", "?") = pg}
  IN  [pg \in {Get(records[n], "pgname", "?") : n \in on} |->
         [maps |-> Cardinality(Of(pg)), bytes |-> Total([n \in Of(pg) |-> records[n].size])]]

\* va_class
VaClass(flags) ==
  CASE flags \in {4, 5} -> "VA-same"
    [] flags \in {0, 1, 2} -> "VA-differs"
    [] flags = 3 -> "proc-shared"
    [] OTHER -> "unknown"

\* The roll-up of the flags by class.
ByVaClass(records) ==
  LET ClassOf(n) == VaClass(Get(records[n], "flags", NULL))
  IN  [class \in {ClassOf(n) : n \in OkMaps(records)} |->
         Cardinality({n \in OkMaps(records) : ClassOf(n) = class})]

Summaries(records) == {n \in DOMAIN records : records[n].event = "summary"}
Leaks(records) == {n \in DOMAIN records : records[n].event = "live_at_exit"}

\* The peaks "from CP summary".
SummaryPeak(records) ==
  [count |-> Max({0} \cup {records[n].peakCount : n \in Summaries(records)}),
   bytes |-> Max({0} \cup {records[n].peakBytes : n \in Summaries(records)})]
=============================================================================
