--------------------------- MODULE MemTrace_proofs ---------------------------
(***************************************************************************)
(* The heap tracer's table stays exact and its dumps say what they should, *)
(* for any number of threads, addresses and shards, however the real calls *)
(* and the table's are interleaved.                                        *)
(***************************************************************************)
EXTENDS MemTrace, TLAPS

LEMMA InitInv == Init => IInv
<1> SUFFICES ASSUME Init
             PROVE  IInv
  OBVIOUS
<1> USE TraceAssumption
<1>1. TypeOK
  BY DEF Init, TypeOK, NoStart, Nums
<1>2. HoldInv /\ OneHolder /\ TakeInv /\ GiveInv
  BY DEF Init, HoldInv, OneHolder, TakeInv, GiveInv, Busy, Taking, Giving
<1>3. NumberInv /\ TableExact /\ HeapHeld /\ DumpNetOfFrees /\ CoverInv
  BY DEF Init, NumberInv, TableExact, HeapHeld, DumpNetOfFrees, CoverInv, NoStart
<1> QED
  BY <1>1, <1>2, <1>3 DEF IInv

\* What the invariant says of types, with the sets spelt out.
LEMMA Types ==
  ASSUME IInv
  PROVE  /\ made \in Nat /\ made <= MaxAllocs
         /\ gone \subseteq 1 .. made /\ kept \subseteq 1 .. made
         /\ start.kept \subseteq 1 .. made /\ start.gone \subseteq 1 .. made
         /\ mem \in [Addrs -> 0 .. made] /\ tab \in [Addrs -> 0 .. made]
         /\ out \subseteq Addrs \X (1 .. made)
         /\ own \subseteq Addrs /\ \A a \in own : mem[a] # 0
         /\ pc \in [Threads -> {"idle", "put", "free", "realloc", "munmap", "moved"}]
         /\ addr \in [Threads -> Addrs \cup {NULL}] /\ num \in [Threads -> 0 .. made]
         /\ old \in [Threads -> Maps \cup {NULL}]
         /\ Heap \subseteq Addrs /\ Maps \subseteq Addrs /\ Heap \cap Maps = {}
BY TraceAssumption DEF IInv, TypeOK, Nums, Addrs

\* No malloc block is being moved by mremap.
LEMMA HeapNotMoving ==
  ASSUME IInv, NEW a \in Heap
  PROVE  ~Moving(a) /\ (tab[a] # 0 => tab[a] = mem[a])
<1>1. ~Moving(a)
  BY Types DEF IInv, HoldInv, Moving
<1> QED
  BY <1>1, Types DEF IInv, TableExact

\* The real malloc or mmap gives out an address nobody has.
LEMMA GrabInv ==
  ASSUME IInv, NEW t \in Threads, NEW b \in Addrs, Malloc(t, b) \/ Mmap(t, b)
  PROVE  IInv'
<1> USE TraceAssumption
<1>1. /\ pc[t] = "idle" /\ mem[b] = 0 /\ made < MaxAllocs /\ made' = made + 1
      /\ gone' = gone /\ mem' \in [Addrs -> 0 .. made + 1] /\ mem'[b] = made + 1
      /\ \A a \in Addrs \ {b} : mem'[a] = mem[a]
      /\ pc' = [pc EXCEPT ![t] = "put"] /\ addr' = [addr EXCEPT ![t] = b]
      /\ num' = [num EXCEPT ![t] = made + 1]
      /\ own' = own /\ tab' = tab /\ old' = old /\ kept' = kept
      /\ next' = next /\ out' = out /\ start' = start
  <2>1. /\ pc[t] = "idle" /\ Obtain(t, b, {}) /\ pc' = [pc EXCEPT ![t] = "put"]
        /\ own' = own /\ tab' = tab /\ old' = old /\ kept' = kept
        /\ next' = next /\ out' = out /\ start' = start
    BY DEF Malloc, Mmap, Goto, dumpVars
  <2>2. {mem[a] : a \in {}} = {}
    OBVIOUS
  <2>3. mem' = [a \in Addrs |-> IF a = b THEN made' ELSE mem[a]] /\ mem[b] = 0 /\ made' = made + 1
    BY <2>1 DEF Obtain
  <2> QED
    BY <2>1, <2>2, <2>3, Types DEF Obtain, With
<1>2. TypeOK'
  BY <1>1, Types DEF IInv, TypeOK, Nums, Addrs
<1>3. HoldInv'
  BY <1>1, Types DEF IInv, HoldInv, OneHolder, Busy
<1>4. OneHolder'
  BY <1>1, Types DEF IInv, OneHolder, HoldInv, Busy
<1>5. TakeInv'
  BY <1>1, Types DEF IInv, TakeInv, HoldInv, OneHolder, Taking, Busy
<1>6. GiveInv'
  BY <1>1, Types DEF IInv, GiveInv, HoldInv, OneHolder, Giving, Busy
<1>7. NumberInv'
  BY <1>1, Types DEF IInv, NumberInv, HoldInv, Busy
<1>8. TableExact'
  BY <1>1, Types DEF IInv, TableExact, HoldInv, Moving, Busy
<1>9. HeapHeld'
  BY <1>1, Types DEF IInv, HeapHeld, NumberInv, HoldInv, Busy
<1>10. DumpNetOfFrees'
  BY <1>1, Types DEF IInv, DumpNetOfFrees
<1>11. CoverInv'
  BY <1>1, Types DEF IInv, CoverInv, HoldInv, TakeInv, Taking, Busy
<1> QED
  BY <1>2, <1>3, <1>4, <1>5, <1>6, <1>7, <1>8, <1>9, <1>10, <1>11 DEF IInv

\* The real realloc, in place or moving.
LEMMA ReallocInv ==
  ASSUME IInv, NEW t \in Threads, NEW b \in Addrs, RealRealloc(t, b)
  PROVE  IInv'
<1> USE TraceAssumption
<1>1. /\ pc[t] = "realloc" /\ b \in Heap /\ made < MaxAllocs /\ made' = made + 1
      /\ b = addr[t] \/ mem[b] = 0
      /\ gone' = gone \cup {mem[addr[t]]} /\ mem' \in [Addrs -> 0 .. made + 1]
      /\ mem'[b] = made + 1 /\ (b # addr[t] => mem'[addr[t]] = 0)
      /\ \A a \in Addrs \ {b, addr[t]} : mem'[a] = mem[a]
      /\ addr[t] \in Heap /\ addr[t] \notin own /\ mem[addr[t]] # 0 /\ tab[addr[t]] = 0
      /\ pc' = [pc EXCEPT ![t] = "put"] /\ addr' = [addr EXCEPT ![t] = b]
      /\ num' = [num EXCEPT ![t] = made + 1]
      /\ own' = own /\ tab' = tab /\ old' = old /\ kept' = kept
      /\ next' = next /\ out' = out /\ start' = start
  BY Types DEF RealRealloc, Obtain, Goto, With, dumpVars, IInv, HoldInv, GiveInv, Busy, Giving
<1>2. TypeOK'
  <2>1. /\ made' \in 0 .. MaxAllocs /\ gone' \subseteq 1 .. made' /\ kept' \subseteq 1 .. made'
        /\ mem' \in [Addrs -> 0 .. made'] /\ tab' \in [Addrs -> 0 .. made']
    BY <1>1, Types
  <2>2. own' \subseteq {x \in Addrs : mem'[x] # 0}
    BY <1>1, Types
  <2>3. /\ pc' \in [Threads -> {"idle", "put", "free", "realloc", "munmap", "moved"}]
        /\ addr' \in [Threads -> Addrs \cup {NULL}]
        /\ num' \in [Threads -> 0 .. made'] /\ old' \in [Threads -> Maps \cup {NULL}]
    BY <1>1, Types
  <2>4. /\ next' \in 0 .. NSHARD /\ out' \subseteq Addrs \X (1 .. made')
        /\ start' \in [kept : SUBSET (1 .. made'), gone : SUBSET (1 .. made')]
    BY <1>1, Types DEF IInv, TypeOK, Nums
  <2> QED
    BY <2>1, <2>2, <2>3, <2>4 DEF TypeOK, Nums
<1>3. HoldInv'
  BY <1>1, Types DEF IInv, HoldInv, OneHolder, Busy
<1>4. OneHolder'
  BY <1>1, Types DEF IInv, OneHolder, HoldInv, Busy
<1>5. TakeInv'
  BY <1>1, Types DEF IInv, TakeInv, HoldInv, OneHolder, Taking, Busy
<1>6. GiveInv'
  BY <1>1, Types DEF IInv, GiveInv, HoldInv, OneHolder, Giving, Busy
<1>7. NumberInv'
  BY <1>1, Types DEF IInv, NumberInv, HoldInv, Busy
<1>8. TableExact'
  BY <1>1, Types DEF IInv, TableExact, HoldInv, Moving, Busy
<1>9. HeapHeld'
  BY <1>1, Types DEF IInv, HeapHeld, NumberInv, HoldInv, Busy
<1>10. DumpNetOfFrees'
  BY <1>1, Types DEF IInv, DumpNetOfFrees
<1>11. CoverInv'
  BY <1>1, Types DEF IInv, CoverInv, HoldInv, TakeInv, Taking, Busy
<1> QED
  BY <1>2, <1>3, <1>4, <1>5, <1>6, <1>7, <1>8, <1>9, <1>10, <1>11 DEF IInv

\* The real mremap, which leaves the old entry for the step after it.
LEMMA MremapInv ==
  ASSUME IInv, NEW t \in Threads, NEW a \in Addrs, NEW b \in Addrs, Mremap(t, a, b)
  PROVE  IInv'
<1> USE TraceAssumption
<1>1. /\ pc[t] = "idle" /\ a \in Maps /\ b \in Maps /\ made < MaxAllocs /\ made' = made + 1
      /\ a \in own /\ mem[a] # 0 /\ (b = a \/ mem[b] = 0)
      /\ gone' = gone \cup {mem[a]} /\ mem' \in [Addrs -> 0 .. made + 1]
      /\ mem'[b] = made + 1 /\ (b # a => mem'[a] = 0)
      /\ \A c \in Addrs \ {a, b} : mem'[c] = mem[c]
      /\ pc' = [pc EXCEPT ![t] = "moved"] /\ addr' = [addr EXCEPT ![t] = b]
      /\ num' = [num EXCEPT ![t] = made + 1] /\ old' = [old EXCEPT ![t] = a]
      /\ own' = own \ {a} /\ tab' = tab /\ kept' = kept \ {mem[a]}
      /\ next' = next /\ out' = out /\ start' = start
  BY Types DEF Mremap, Obtain, Goto, With, dumpVars
<1>2. TypeOK'
  <2>1. /\ made' \in 0 .. MaxAllocs /\ gone' \subseteq 1 .. made' /\ kept' \subseteq 1 .. made'
        /\ mem' \in [Addrs -> 0 .. made'] /\ tab' \in [Addrs -> 0 .. made']
    BY <1>1, Types
  <2>2. own' \subseteq {x \in Addrs : mem'[x] # 0}
    BY <1>1, Types
  <2>3. /\ pc' \in [Threads -> {"idle", "put", "free", "realloc", "munmap", "moved"}]
        /\ addr' \in [Threads -> Addrs \cup {NULL}]
        /\ num' \in [Threads -> 0 .. made'] /\ old' \in [Threads -> Maps \cup {NULL}]
    BY <1>1, Types
  <2>4. /\ next' \in 0 .. NSHARD /\ out' \subseteq Addrs \X (1 .. made')
        /\ start' \in [kept : SUBSET (1 .. made'), gone : SUBSET (1 .. made')]
    BY <1>1, Types DEF IInv, TypeOK, Nums
  <2> QED
    BY <2>1, <2>2, <2>3, <2>4 DEF TypeOK, Nums
<1>3. HoldInv'
  BY <1>1, Types DEF IInv, HoldInv, OneHolder, Busy
<1>4. OneHolder'
  BY <1>1, Types DEF IInv, OneHolder, HoldInv, Busy
<1>5. TakeInv'
  BY <1>1, Types DEF IInv, TakeInv, HoldInv, OneHolder, Taking, Busy
<1>6. GiveInv'
  BY <1>1, Types DEF IInv, GiveInv, HoldInv, OneHolder, Giving, Busy
<1>7. NumberInv'
  BY <1>1, Types DEF IInv, NumberInv, HoldInv, Busy
<1>8. TableExact'
  BY <1>1, Types DEF IInv, TableExact, HoldInv, Moving, Busy
<1>9. HeapHeld'
  BY <1>1, Types DEF IInv, HeapHeld, NumberInv, HoldInv, Busy
<1>10. DumpNetOfFrees'
  BY <1>1, Types DEF IInv, DumpNetOfFrees
<1>11. CoverInv'
  BY <1>1, Types DEF IInv, CoverInv, HoldInv, TakeInv, Taking, Busy
<1> QED
  BY <1>2, <1>3, <1>4, <1>5, <1>6, <1>7, <1>8, <1>9, <1>10, <1>11 DEF IInv

\* The entry is made, or not, and the caller gets the address.
LEMMA RecordInv ==
  ASSUME IInv, NEW t \in Threads, Put(t) \/ NotPut(t)
  PROVE  IInv'
<1> USE TraceAssumption
<1>1. /\ pc[t] = "put" /\ addr[t] \in Addrs /\ addr[t] \notin own /\ mem[addr[t]] # 0
      /\ num[t] = mem[addr[t]] /\ num[t] \notin kept \cup start.kept
      /\ \/ tab' = [tab EXCEPT ![addr[t]] = num[t]] /\ kept' = kept \cup {num[t]}
         \/ tab' = tab /\ kept' = kept
      /\ own' = own \cup {addr[t]} /\ pc' = [pc EXCEPT ![t] = "idle"]
      /\ addr' = [addr EXCEPT ![t] = NULL] /\ num' = [num EXCEPT ![t] = 0]
      /\ mem' = mem /\ old' = old /\ made' = made /\ gone' = gone
      /\ next' = next /\ out' = out /\ start' = start
  BY Types DEF Put, NotPut, Recorded, Goto, With, dumpVars, IInv, HoldInv, TakeInv, Busy, Taking
<1>2. TypeOK'
  <2>1. /\ made' \in 0 .. MaxAllocs /\ gone' \subseteq 1 .. made' /\ kept' \subseteq 1 .. made'
        /\ mem' \in [Addrs -> 0 .. made'] /\ tab' \in [Addrs -> 0 .. made']
    BY <1>1, Types
  <2>2. own' \subseteq {x \in Addrs : mem'[x] # 0}
    BY <1>1, Types
  <2>3. /\ pc' \in [Threads -> {"idle", "put", "free", "realloc", "munmap", "moved"}]
        /\ addr' \in [Threads -> Addrs \cup {NULL}]
        /\ num' \in [Threads -> 0 .. made'] /\ old' \in [Threads -> Maps \cup {NULL}]
    BY <1>1, Types
  <2>4. /\ next' \in 0 .. NSHARD /\ out' \subseteq Addrs \X (1 .. made')
        /\ start' \in [kept : SUBSET (1 .. made'), gone : SUBSET (1 .. made')]
    BY <1>1, Types DEF IInv, TypeOK, Nums
  <2> QED
    BY <2>1, <2>2, <2>3, <2>4 DEF TypeOK, Nums
<1>3. HoldInv'
  BY <1>1, Types DEF IInv, HoldInv, OneHolder, Busy
<1>4. OneHolder'
  BY <1>1, Types DEF IInv, OneHolder, HoldInv, Busy
<1>5. TakeInv'
  BY <1>1, Types DEF IInv, TakeInv, HoldInv, OneHolder, NumberInv, Taking, Busy
<1>6. GiveInv'
  BY <1>1, Types DEF IInv, GiveInv, HoldInv, OneHolder, Giving, Busy
<1>7. NumberInv'
  BY <1>1, Types DEF IInv, NumberInv, HoldInv, Busy
<1>8. TableExact'
  BY <1>1, Types DEF IInv, TableExact, HoldInv, Moving, Busy
<1>9. HeapHeld'
  BY <1>1, Types DEF IInv, HeapHeld, NumberInv, HoldInv, Busy
<1>10. DumpNetOfFrees'
  BY <1>1, Types DEF IInv, DumpNetOfFrees
<1>11. CoverInv'
  BY <1>1, Types DEF IInv, CoverInv, HoldInv, TakeInv, Taking, Busy
<1> QED
  BY <1>2, <1>3, <1>4, <1>5, <1>6, <1>7, <1>8, <1>9, <1>10, <1>11 DEF IInv

\* A caller gives an address back: its entry goes first.
LEMMA GiveStep ==
  ASSUME IInv, NEW t \in Threads, NEW a \in Addrs,
         Free(t, a) \/ Realloc(t, a) \/ Munmap(t, a)
  PROVE  IInv'
<1> USE TraceAssumption
<1>1. /\ pc[t] = "idle" /\ a \in own /\ mem[a] # 0
      /\ own' = own \ {a} /\ kept' = kept \ {mem[a]} /\ tab' = [tab EXCEPT ![a] = 0]
      /\ \/ a \in Heap /\ pc' = [pc EXCEPT ![t] = "free"]
         \/ a \in Heap /\ pc' = [pc EXCEPT ![t] = "realloc"]
         \/ a \in Maps /\ pc' = [pc EXCEPT ![t] = "munmap"]
      /\ addr' = [addr EXCEPT ![t] = a]
      /\ mem' = mem /\ num' = num /\ old' = old /\ made' = made /\ gone' = gone
      /\ next' = next /\ out' = out /\ start' = start
  BY Types DEF Free, Realloc, Munmap, Give, TableDel, Goto, With, dumpVars
<1>2. TypeOK'
  <2>1. /\ made' \in 0 .. MaxAllocs /\ gone' \subseteq 1 .. made' /\ kept' \subseteq 1 .. made'
        /\ mem' \in [Addrs -> 0 .. made'] /\ tab' \in [Addrs -> 0 .. made']
    BY <1>1, Types
  <2>2. own' \subseteq {x \in Addrs : mem'[x] # 0}
    BY <1>1, Types
  <2>3. /\ pc' \in [Threads -> {"idle", "put", "free", "realloc", "munmap", "moved"}]
        /\ addr' \in [Threads -> Addrs \cup {NULL}]
        /\ num' \in [Threads -> 0 .. made'] /\ old' \in [Threads -> Maps \cup {NULL}]
    BY <1>1, Types
  <2>4. /\ next' \in 0 .. NSHARD /\ out' \subseteq Addrs \X (1 .. made')
        /\ start' \in [kept : SUBSET (1 .. made'), gone : SUBSET (1 .. made')]
    BY <1>1, Types DEF IInv, TypeOK, Nums
  <2> QED
    BY <2>1, <2>2, <2>3, <2>4 DEF TypeOK, Nums
<1>3. HoldInv'
  BY <1>1, Types DEF IInv, HoldInv, OneHolder, Busy
<1>4. OneHolder'
  BY <1>1, Types DEF IInv, OneHolder, HoldInv, Busy
<1>5. TakeInv'
  BY <1>1, Types DEF IInv, TakeInv, HoldInv, OneHolder, Taking, Busy
<1>6. GiveInv'
  BY <1>1, Types DEF IInv, GiveInv, HoldInv, OneHolder, Giving, Busy
<1>7. NumberInv'
  BY <1>1, Types DEF IInv, NumberInv, HoldInv, Busy
<1>8. TableExact'
  BY <1>1, Types DEF IInv, TableExact, HoldInv, Moving, Busy
<1>9. HeapHeld'
  BY <1>1, Types DEF IInv, HeapHeld, NumberInv, HoldInv, Busy
<1>10. DumpNetOfFrees'
  BY <1>1, Types DEF IInv, DumpNetOfFrees
<1>11. CoverInv'
  BY <1>1, Types DEF IInv, CoverInv, HoldInv, TakeInv, Taking, Busy
<1> QED
  BY <1>2, <1>3, <1>4, <1>5, <1>6, <1>7, <1>8, <1>9, <1>10, <1>11 DEF IInv

\* The real free or munmap: by now there is no entry.
LEMMA ReleaseInv ==
  ASSUME IInv, NEW t \in Threads, RealRelease(t)
  PROVE  IInv'
<1> USE TraceAssumption
<1>1. /\ pc[t] \in {"free", "realloc", "munmap"} /\ addr[t] \in Addrs /\ addr[t] \notin own
      /\ mem[addr[t]] # 0 /\ tab[addr[t]] = 0
      /\ gone' = gone \cup {mem[addr[t]]} /\ mem' = [mem EXCEPT ![addr[t]] = 0]
      /\ pc' = [pc EXCEPT ![t] = "idle"] /\ addr' = [addr EXCEPT ![t] = NULL]
      /\ own' = own /\ tab' = tab /\ num' = num /\ old' = old /\ made' = made /\ kept' = kept
      /\ next' = next /\ out' = out /\ start' = start
  BY Types DEF RealRelease, Release, Goto, With, dumpVars, IInv, HoldInv, GiveInv, Busy, Giving
<1>2. TypeOK'
  <2>1. /\ made' \in 0 .. MaxAllocs /\ gone' \subseteq 1 .. made' /\ kept' \subseteq 1 .. made'
        /\ mem' \in [Addrs -> 0 .. made'] /\ tab' \in [Addrs -> 0 .. made']
    BY <1>1, Types
  <2>2. own' \subseteq {x \in Addrs : mem'[x] # 0}
    BY <1>1, Types
  <2>3. /\ pc' \in [Threads -> {"idle", "put", "free", "realloc", "munmap", "moved"}]
        /\ addr' \in [Threads -> Addrs \cup {NULL}]
        /\ num' \in [Threads -> 0 .. made'] /\ old' \in [Threads -> Maps \cup {NULL}]
    BY <1>1, Types
  <2>4. /\ next' \in 0 .. NSHARD /\ out' \subseteq Addrs \X (1 .. made')
        /\ start' \in [kept : SUBSET (1 .. made'), gone : SUBSET (1 .. made')]
    BY <1>1, Types DEF IInv, TypeOK, Nums
  <2> QED
    BY <2>1, <2>2, <2>3, <2>4 DEF TypeOK, Nums
<1>3. HoldInv'
  BY <1>1, Types DEF IInv, HoldInv, OneHolder, Busy
<1>4. OneHolder'
  BY <1>1, Types DEF IInv, OneHolder, HoldInv, Busy
<1>5. TakeInv'
  BY <1>1, Types DEF IInv, TakeInv, HoldInv, OneHolder, Taking, Busy
<1>6. GiveInv'
  BY <1>1, Types DEF IInv, GiveInv, HoldInv, OneHolder, Giving, Busy
<1>7. NumberInv'
  BY <1>1, Types DEF IInv, NumberInv, HoldInv, Busy
<1>8. TableExact'
  BY <1>1, Types DEF IInv, TableExact, HoldInv, Moving, Busy
<1>9. HeapHeld'
  BY <1>1, Types DEF IInv, HeapHeld, NumberInv, HoldInv, Busy
<1>10. DumpNetOfFrees'
  BY <1>1, Types DEF IInv, DumpNetOfFrees
<1>11. CoverInv'
  BY <1>1, Types DEF IInv, CoverInv, HoldInv, TakeInv, Taking, Busy
<1> QED
  BY <1>2, <1>3, <1>4, <1>5, <1>6, <1>7, <1>8, <1>9, <1>10, <1>11 DEF IInv

\* The real call fails and the caller keeps the address.
LEMMA FailInv ==
  ASSUME IInv, NEW t \in Threads, RealFails(t)
  PROVE  IInv'
<1> USE TraceAssumption
<1>1. /\ pc[t] \in {"realloc", "munmap"} /\ addr[t] \in Addrs /\ mem[addr[t]] # 0
      /\ own' = own \cup {addr[t]}
      /\ pc' = [pc EXCEPT ![t] = "idle"] /\ addr' = [addr EXCEPT ![t] = NULL]
      /\ mem' = mem /\ tab' = tab /\ num' = num /\ old' = old /\ made' = made
      /\ gone' = gone /\ kept' = kept /\ next' = next /\ out' = out /\ start' = start
  BY Types DEF RealFails, Goto, With, dumpVars, IInv, HoldInv, Busy
<1>2. TypeOK'
  BY <1>1, Types DEF IInv, TypeOK, Nums, Addrs
<1>3. HoldInv'
  BY <1>1, Types DEF IInv, HoldInv, OneHolder, Busy
<1>4. OneHolder'
  BY <1>1, Types DEF IInv, OneHolder, HoldInv, Busy
<1>5. TakeInv'
  BY <1>1, Types DEF IInv, TakeInv, HoldInv, OneHolder, Taking, Busy
<1>6. GiveInv'
  BY <1>1, Types DEF IInv, GiveInv, HoldInv, OneHolder, Giving, Busy
<1>7. NumberInv'
  BY <1>1, Types DEF IInv, NumberInv, HoldInv, Busy
<1>8. TableExact'
  BY <1>1, Types DEF IInv, TableExact, HoldInv, Moving, Busy
<1>9. HeapHeld'
  BY <1>1, Types DEF IInv, HeapHeld, NumberInv, HoldInv, Busy
<1>10. DumpNetOfFrees'
  BY <1>1, Types DEF IInv, DumpNetOfFrees
<1>11. CoverInv'
  BY <1>1, Types DEF IInv, CoverInv, HoldInv, TakeInv, Taking, Busy
<1> QED
  BY <1>2, <1>3, <1>4, <1>5, <1>6, <1>7, <1>8, <1>9, <1>10, <1>11 DEF IInv

\* mremap deletes the old entry, whoever has mapped the address since.
LEMMA MremapDelInv ==
  ASSUME IInv, NEW t \in Threads, MremapDel(t)
  PROVE  IInv'
<1> USE TraceAssumption
<1>1. /\ pc[t] = "moved" /\ old[t] \in Maps /\ tab' = [tab EXCEPT ![old[t]] = 0]
      /\ old' = [old EXCEPT ![t] = NULL] /\ pc' = [pc EXCEPT ![t] = "put"]
      /\ mem' = mem /\ own' = own /\ addr' = addr /\ num' = num /\ made' = made
      /\ gone' = gone /\ kept' = kept /\ next' = next /\ out' = out /\ start' = start
  BY Types DEF MremapDel, TableDel, Goto, dumpVars, IInv, HoldInv
<1>2. TypeOK'
  BY <1>1, Types DEF IInv, TypeOK, Nums, Addrs
<1>3. HoldInv'
  BY <1>1, Types DEF IInv, HoldInv, OneHolder, Busy
<1>4. OneHolder'
  BY <1>1, Types DEF IInv, OneHolder, HoldInv, Busy
<1>5. TakeInv'
  BY <1>1, Types DEF IInv, TakeInv, HoldInv, OneHolder, Taking, Busy
<1>6. GiveInv'
  BY <1>1, Types DEF IInv, GiveInv, HoldInv, OneHolder, Giving, Busy
<1>7. NumberInv'
  BY <1>1, Types DEF IInv, NumberInv, HoldInv, Busy
<1>8. TableExact'
  BY <1>1, Types DEF IInv, TableExact, HoldInv, Moving, Busy
<1>9. HeapHeld'
  BY <1>1, Types DEF IInv, HeapHeld, NumberInv, HoldInv, Busy
<1>10. DumpNetOfFrees'
  BY <1>1, Types DEF IInv, DumpNetOfFrees
<1>11. CoverInv'
  BY <1>1, Types DEF IInv, CoverInv, HoldInv, TakeInv, Taking, Busy
<1> QED
  BY <1>2, <1>3, <1>4, <1>5, <1>6, <1>7, <1>8, <1>9, <1>10, <1>11 DEF IInv

\* A dump begins.
LEMMA DumpStartInv ==
  ASSUME IInv, DumpStart
  PROVE  IInv'
<1> USE TraceAssumption
<1>1. /\ next = 0 /\ next' = 1 /\ out' = {} /\ start'.kept = kept /\ start'.gone = gone
      /\ start' \in [kept : SUBSET (1 .. made), gone : SUBSET (1 .. made)]
      /\ mem' = mem /\ own' = own /\ tab' = tab /\ made' = made /\ gone' = gone /\ kept' = kept
      /\ pc' = pc /\ addr' = addr /\ num' = num /\ old' = old
  BY Types DEF DumpStart, threadVars
<1>2. TypeOK'
  BY <1>1, Types DEF IInv, TypeOK, Nums, Addrs
<1>3. HoldInv'
  BY <1>1, Types DEF IInv, HoldInv, OneHolder, Busy
<1>4. OneHolder'
  BY <1>1, Types DEF IInv, OneHolder, HoldInv, Busy
<1>5. TakeInv'
  BY <1>1, Types DEF IInv, TakeInv, HoldInv, OneHolder, Taking, Busy
<1>6. GiveInv'
  BY <1>1, Types DEF IInv, GiveInv, HoldInv, OneHolder, Giving, Busy
<1>7. NumberInv'
  BY <1>1, Types DEF IInv, NumberInv, HoldInv, Busy
<1>8. TableExact'
  BY <1>1, Types DEF IInv, TableExact, HoldInv, Moving, Busy
<1>9. HeapHeld'
  BY <1>1, Types DEF IInv, HeapHeld, NumberInv, HoldInv, Busy
<1>10. DumpNetOfFrees'
  BY <1>1, Types DEF IInv, DumpNetOfFrees
<1>11. CoverInv'
  BY <1>1, Types DEF IInv, CoverInv, HoldInv, TakeInv, Taking, Busy
<1> QED
  BY <1>2, <1>3, <1>4, <1>5, <1>6, <1>7, <1>8, <1>9, <1>10, <1>11 DEF IInv

\* One shard is written.
LEMMA DumpShardInv ==
  ASSUME IInv, DumpShard
  PROVE  IInv'
<1> USE TraceAssumption
<1>1. /\ next \in 1 .. NSHARD /\ next' = IF next = NSHARD THEN 0 ELSE next + 1
      /\ \A e : e \in out' <=> \/ e \in out
                               \/ \E a \in Addrs : /\ Shard[a] = next /\ tab[a] # 0
                                                   /\ e = <<a, tab[a]>>
      /\ mem' = mem /\ own' = own /\ tab' = tab /\ made' = made /\ gone' = gone /\ kept' = kept
      /\ pc' = pc /\ addr' = addr /\ num' = num /\ old' = old /\ start' = start
  BY Types DEF DumpShard, threadVars, Entries, Lines, IInv, TypeOK
<1>2. TypeOK'
  BY <1>1, Types DEF IInv, TypeOK, Nums, Addrs
<1>3. HoldInv'
  BY <1>1, Types DEF IInv, HoldInv, OneHolder, Busy
<1>4. OneHolder'
  BY <1>1, Types DEF IInv, OneHolder, HoldInv, Busy
<1>5. TakeInv'
  BY <1>1, Types DEF IInv, TakeInv, HoldInv, OneHolder, Taking, Busy
<1>6. GiveInv'
  BY <1>1, Types DEF IInv, GiveInv, HoldInv, OneHolder, Giving, Busy
<1>7. NumberInv'
  BY <1>1, Types DEF IInv, NumberInv, HoldInv, Busy
<1>8. TableExact'
  BY <1>1, Types DEF IInv, TableExact, HoldInv, Moving, Busy
<1>9. HeapHeld'
  BY <1>1, Types DEF IInv, HeapHeld, NumberInv, HoldInv, Busy
<1>10. DumpNetOfFrees'
  BY <1>1, Types, HeapNotMoving DEF IInv, DumpNetOfFrees, NumberInv
<1>11. CoverInv'
  BY <1>1, Types DEF IInv, CoverInv, HeapHeld, Addrs
<1> QED
  BY <1>2, <1>3, <1>4, <1>5, <1>6, <1>7, <1>8, <1>9, <1>10, <1>11 DEF IInv

LEMMA StepInv == IInv /\ [Next]_vars => IInv'
<1> SUFFICES ASSUME IInv, [Next]_vars
             PROVE  IInv'
  OBVIOUS
<1>1. ASSUME NEW t \in Threads, Call(t)
      PROVE  IInv'
  BY <1>1, GrabInv, GiveStep, MremapInv DEF Call
<1>2. ASSUME NEW t \in Threads, Return(t)
      PROVE  IInv'
  BY <1>2, RecordInv, ReleaseInv, FailInv, MremapDelInv, ReallocInv DEF Return
<1>3. CASE UNCHANGED vars
  BY <1>3 DEF vars, threadVars, dumpVars, IInv, TypeOK, HoldInv, OneHolder, TakeInv, GiveInv,
              NumberInv, TableExact, HeapHeld, DumpNetOfFrees, CoverInv, Moving, Busy,
              Taking, Giving, Nums
<1> QED
  BY <1>1, <1>2, <1>3, DumpStartInv, DumpShardInv DEF Next

LEMMA Invariance == Spec => []IInv
BY InitInv, StepInv, PTL DEF Spec

-----------------------------------------------------------------------------
\* No entry outlives its allocation, whatever other threads do between a real
\* call and the table's, but for the old address of an mremap under way.
THEOREM TableStaysExact == Spec => []TableExact
<1>1. IInv => TableExact
  BY DEF IInv
<1> QED
  BY <1>1, Invariance, PTL

\* A malloc block that was recorded keeps its entry until it is given back.
THEOREM HeapStaysHeld == Spec => []HeapHeld
<1>1. IInv => HeapHeld
  BY DEF IInv
<1> QED
  BY <1>1, Invariance, PTL

\* A dump has no malloc block that was released before it began.
THEOREM DumpsNetOfFrees == Spec => []DumpNetOfFrees
<1>1. IInv => DumpNetOfFrees
  BY DEF IInv
<1> QED
  BY <1>1, Invariance, PTL

\* A dump has every malloc block that was recorded when it began and is still
\* held when it ends, although it takes the shards one after the other.
THEOREM DumpsCover == Spec => []DumpCovers
<1>1. IInv => DumpCovers
  BY DEF IInv, CoverInv, DumpCovers
<1> QED
  BY <1>1, Invariance, PTL
=============================================================================
