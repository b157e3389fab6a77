------------------------------ MODULE MemTrace ------------------------------
(***************************************************************************)
(* The heap tracer (src/tools/mem_trace.c): threads whose calls of         *)
(* malloc, free, realloc, mmap, munmap and mremap it wraps, the real       *)
(* allocator below, the table of live allocations, and the dumper.         *)
(*                                                                         *)
(* A wrapper is two or three steps, the real call and the table's, in the  *)
(* order of the code; any other thread may run between them.  The table is *)
(* the map LossyMap.  Every allocation has a number of its own, so that an *)
(* entry left over from an earlier one at the same address can be told.    *)
(*                                                                         *)
(* Callers free what they were given, and once.  calloc, posix_memalign,   *)
(* aligned_alloc and memalign are malloc.  The recursion guard and the     *)
(* bootstrap allocator are left out.                                       *)
(***************************************************************************)
EXTENDS Integers

CONSTANTS
  Threads,
  Heap, Maps,      \* addresses malloc, and mmap, may return
  NULL,
  Shard,           \* address -> the shard of its entry
  NSHARD,
  MayDrop,         \* an allocation may go unrecorded: not sampled, too small,
                   \* no stack number, no slot
  MayFail,         \* of {"realloc", "munmap"}: real calls that may fail
  MayMove,         \* the program calls mremap
  MaxAllocs        \* bound: allocations made

Addrs == Heap \cup Maps

ASSUME TraceAssumption ==
  /\ Heap \cap Maps = {} /\ NULL \notin Addrs
  /\ NSHARD \in Nat \ {0}
  /\ Shard \in [Addrs -> 1 .. NSHARD]
  /\ MayDrop \in BOOLEAN /\ MayMove \in BOOLEAN
  /\ MayFail \subseteq {"realloc", "munmap"}
  /\ MaxAllocs \in Nat

VARIABLES
  mem,             \* the number of the allocation at an address, 0 for none
  own,             \* addresses that callers hold
  tab,             \* the number of the allocation an entry was made for, or 0
  pc, addr, num,   \* of each thread: where it is, the address it is to record
                   \* or release, and the number of that allocation
  old,             \* of each thread: mremap's old address
  made,            \* how many allocations there have been
  gone, kept,      \* those released; those recorded and not given back
  next,            \* the dumper: the shard it writes next; 0 when it waits
  out,             \* the entries in its file
  start            \* kept, and gone, when it began

threadVars == <<pc, addr, num, old>>
dumpVars == <<next, out, start>>
vars == <<mem, own, tab, threadVars, made, gone, kept, dumpVars>>

NoStart == [kept |-> {}, gone |-> {}]

Init ==
  /\ mem = [a \in Addrs |-> 0] /\ own = {}
  /\ tab = [a \in Addrs |-> 0]
  /\ pc = [t \in Threads |-> "idle"]
  /\ addr = [t \in Threads |-> NULL] /\ num = [t \in Threads |-> 0]
  /\ old = [t \in Threads |-> NULL]
  /\ made = 0 /\ gone = {} /\ kept = {}
  /\ next = 0 /\ out = {} /\ start = NoStart

Goto(t, l) == pc' = [pc EXCEPT ![t] = l]
With(t, a) == addr' = [addr EXCEPT ![t] = a]

\* The real allocator: an allocation at b, in the place of R, which it releases.
Obtain(t, b, R) ==
  /\ made < MaxAllocs
  /\ b \in R \/ mem[b] = 0
  /\ made' = made + 1
  /\ gone' = gone \cup {mem[a] : a \in R}
  /\ mem' = [a \in Addrs |-> IF a = b THEN made'
                             ELSE IF a \in R THEN 0 ELSE mem[a]]
  /\ num' = [num EXCEPT ![t] = made']
  /\ With(t, b)

Release(t) ==
  /\ gone' = gone \cup {mem[addr[t]]}
  /\ mem' = [mem EXCEPT ![addr[t]] = 0]
  /\ UNCHANGED made

TableDel(a) == tab' = [tab EXCEPT ![a] = 0]

-----------------------------------------------------------------------------
\* malloc and its family: the real call.
Malloc(t, a) ==
  /\ pc[t] = "idle" /\ a \in Heap
  /\ Obtain(t, a, {})
  /\ Goto(t, "put")
  /\ UNCHANGED <<own, tab, old, kept, dumpVars>>

\* mmap: the real call.
Mmap(t, a) ==
  /\ pc[t] = "idle" /\ a \in Maps
  /\ Obtain(t, a, {})
  /\ Goto(t, "put")
  /\ UNCHANGED <<own, tab, old, kept, dumpVars>>

\* record_alloc or record_mmap, and the return to the caller.
Recorded(t) ==
  /\ pc[t] = "put"
  /\ own' = own \cup {addr[t]}
  /\ Goto(t, "idle")
  /\ With(t, NULL)
  /\ num' = [num EXCEPT ![t] = 0]
  /\ UNCHANGED <<mem, old, made, gone, dumpVars>>

\* Mutant: the shard's mutex is only tried, and the entry dropped.
MutPut(t) ==
  /\ UNCHANGED tab
  /\ kept' = kept \cup {num[t]}
  /\ Recorded(t)

Put(t) ==
  /\ tab' = [tab EXCEPT ![addr[t]] = num[t]]
  /\ kept' = kept \cup {num[t]}
  /\ Recorded(t)

NotPut(t) ==
  /\ MayDrop
  /\ UNCHANGED <<tab, kept>>
  /\ Recorded(t)

\* Mutant: table_del is forgotten.
MutGive(t, a, l) ==
  /\ pc[t] = "idle" /\ a \in own
  /\ own' = own \ {a}
  /\ kept' = kept \ {mem[a]}
  /\ Goto(t, l)
  /\ With(t, a)
  /\ UNCHANGED <<mem, tab, num, old, made, gone, dumpVars>>

\* A call that releases an address starts with the table.
Give(t, a, l) ==
  /\ pc[t] = "idle" /\ a \in own
  /\ own' = own \ {a}
  /\ kept' = kept \ {mem[a]}
  /\ TableDel(a)
  /\ Goto(t, l)
  /\ With(t, a)
  /\ UNCHANGED <<mem, num, old, made, gone, dumpVars>>

Free(t, a) == a \in Heap /\ Give(t, a, "free")
Realloc(t, a) == a \in Heap /\ Give(t, a, "realloc")
\* Of all that mmap gave: parts are the matter of MemReport.
Munmap(t, a) == a \in Maps /\ Give(t, a, "munmap")

\* real_free and real_munmap; real_realloc to size 0 releases the block too.
RealRelease(t) ==
  /\ pc[t] \in {"free", "realloc", "munmap"}
  /\ Release(t)
  /\ Goto(t, "idle")
  /\ With(t, NULL)
  /\ UNCHANGED <<own, tab, num, old, kept, dumpVars>>

\* real_realloc, in place or to another block; what it returns is recorded.
RealRealloc(t, b) ==
  /\ pc[t] = "realloc" /\ b \in Heap
  /\ Obtain(t, b, {addr[t]})
  /\ Goto(t, "put")
  /\ UNCHANGED <<own, tab, old, kept, dumpVars>>

\* real_realloc or real_munmap fails: the caller keeps the address.
RealFails(t) ==
  /\ pc[t] \in MayFail
  /\ own' = own \cup {addr[t]}
  /\ Goto(t, "idle")
  /\ With(t, NULL)
  /\ UNCHANGED <<mem, tab, num, old, made, gone, kept, dumpVars>>

\* mremap starts with the real call.  One that fails changes nothing.
Mremap(t, a, b) ==
  /\ MayMove /\ pc[t] = "idle" /\ a \in own /\ {a, b} \subseteq Maps
  /\ own' = own \ {a}
  /\ kept' = kept \ {mem[a]}
  /\ Obtain(t, b, {a})
  /\ old' = [old EXCEPT ![t] = a]
  /\ Goto(t, "moved")
  /\ UNCHANGED <<tab, dumpVars>>

\* Mutant: mremap does not delete the old entry.
MutMremapDel(t) ==
  /\ pc[t] = "moved"
  /\ old' = [old EXCEPT ![t] = NULL]
  /\ Goto(t, "put")
  /\ UNCHANGED <<mem, own, tab, addr, num, made, gone, kept, dumpVars>>

MremapDel(t) ==
  /\ pc[t] = "moved"
  /\ TableDel(old[t])
  /\ old' = [old EXCEPT ![t] = NULL]
  /\ Goto(t, "put")
  /\ UNCHANGED <<mem, own, addr, num, made, gone, kept, dumpVars>>

-----------------------------------------------------------------------------
Entries(S) == {<<a, tab[a]>> : a \in {b \in S : tab[b] # 0}}

\* do_dump, on a signal or at exit; dump_mtx admits one at a time.
DumpStart ==
  /\ next = 0
  /\ next' = 1
  /\ out' = {}
  /\ start' = [kept |-> kept, gone |-> gone]
  /\ UNCHANGED <<mem, own, tab, threadVars, made, gone, kept>>

Lines(k) == {a \in Addrs : Shard[a] = k}

\* Mutant: the last shard is not written.
MutDumpShard ==
  /\ next > 0
  /\ out' = IF next = NSHARD THEN out ELSE out \cup Entries(Lines(next))
  /\ next' = (next + 1) % (NSHARD + 1)
  /\ UNCHANGED <<mem, own, tab, threadVars, made, gone, kept, start>>

\* One shard, under its mutex: a line for every entry.
DumpShard ==
  /\ next > 0
  /\ out' = out \cup Entries(Lines(next))
  /\ next' = (next + 1) % (NSHARD + 1)
  /\ UNCHANGED <<mem, own, tab, threadVars, made, gone, kept, start>>

-----------------------------------------------------------------------------
Call(t) ==
  \/ \E a \in Addrs : Malloc(t, a) \/ Mmap(t, a)
  \/ \E a \in Addrs : Free(t, a) \/ Realloc(t, a) \/ Munmap(t, a)
  \/ \E a, b \in Addrs : Mremap(t, a, b)

Return(t) ==
  \/ Put(t) \/ NotPut(t) \/ RealRelease(t) \/ RealFails(t) \/ MremapDel(t)
  \/ \E b \in Addrs : RealRealloc(t, b)

Next == DumpStart \/ DumpShard \/ \E t \in Threads : Call(t) \/ Return(t)

Spec == Init /\ [][Next]_vars

-----------------------------------------------------------------------------
Nums == 1 .. made

TypeOK ==
  /\ made \in 0 .. MaxAllocs /\ gone \subseteq Nums /\ kept \subseteq Nums
  /\ mem \in [Addrs -> 0 .. made] /\ tab \in [Addrs -> 0 .. made]
  /\ own \subseteq {a \in Addrs : mem[a] # 0}
  /\ pc \in [Threads -> {"idle", "put", "free", "realloc", "munmap", "moved"}]
  /\ addr \in [Threads -> Addrs \cup {NULL}]
  /\ num \in [Threads -> 0 .. made]
  /\ old \in [Threads -> Maps \cup {NULL}]
  /\ next \in 0 .. NSHARD /\ out \subseteq Addrs \X Nums
  /\ start \in [kept : SUBSET Nums, gone : SUBSET Nums]

\* No entry is left over from an allocation that was released: it is removed
\* before the address can be given out again, and made before the caller can
\* release it, whatever other threads do in between.  The one exception is the
\* old address of an mremap, between the real call and table_del.
Moving(a) == \E t \in Threads : pc[t] = "moved" /\ old[t] = a
TableExact == \A a \in Addrs : tab[a] # 0 => tab[a] = mem[a] \/ Moving(a)

\* No call about another block ever removes the entry of a malloc block that
\* was recorded and that its caller still holds.
HeapHeld == \A a \in Heap : mem[a] \in kept => tab[a] = mem[a]

\* A dump reports no malloc block that was released before it began ("already
\* net of frees", :28), although it takes the shards one after the other.
DumpNetOfFrees == \A e \in out : e[1] \in Heap => e[2] \notin start.gone

\* And it leaves out no malloc block that was recorded when it began and that
\* its caller still holds when it ends.
DumpCovers ==
  next = 0 =>
    \A a \in Heap : mem[a] \in start.kept \cap kept => <<a, mem[a]>> \in out

-----------------------------------------------------------------------------
(* Why.  A thread inside a call holds an allocation that no other thread     *)
(* and no caller has.                                                        *)

Busy(t) == pc[t] # "idle"
Taking(t) == pc[t] \in {"put", "moved"}
Giving(t) == pc[t] \in {"free", "realloc", "munmap"}

HoldInv ==
  \A t \in Threads :
    /\ Busy(t) => addr[t] \in Addrs \ own /\ mem[addr[t]] # 0
    /\ pc[t] \in {"free", "realloc"} => addr[t] \in Heap
    /\ pc[t] \in {"munmap", "moved"} => addr[t] \in Maps
    /\ pc[t] = "moved" => old[t] \in Maps
OneHolder ==
  \A t, u \in Threads : Busy(t) /\ Busy(u) /\ addr[t] = addr[u] => t = u

\* What is still to be recorded has never been, and what is to be released has
\* no entry any more.
TakeInv ==
  \A t \in Threads :
    Taking(t) => num[t] = mem[addr[t]] /\ num[t] \notin kept \cup start.kept
GiveInv == \A t \in Threads : Giving(t) => tab[addr[t]] = 0

NumberInv ==
  /\ \A a, b \in Addrs : mem[a] = mem[b] /\ mem[a] # 0 => a = b
  /\ \A a \in Addrs : mem[a] \notin gone
  /\ start.gone \subseteq gone

\* Of the shards that are written already DumpCovers holds.
CoverInv ==
  \A a \in Heap :
    (next = 0 \/ Shard[a] < next) /\ mem[a] \in start.kept \cap kept =>
      <<a, mem[a]>> \in out

IInv ==
  /\ TypeOK /\ HoldInv /\ OneHolder /\ TakeInv /\ GiveInv /\ NumberInv
  /\ TableExact /\ HeapHeld /\ DumpNetOfFrees /\ CoverInv
=============================================================================
