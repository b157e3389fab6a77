----------------------------- MODULE StackTable -----------------------------
(***************************************************************************)
(* The call-stack table of the heap tracer (src/tools/mem_trace.c,         *)
(* intern_stack): stacks are numbered in the order they are first seen,    *)
(* and found again through an open-addressing index.  Both tables have     *)
(* STK_CAP places and neither ever loses one.                              *)
(*                                                                         *)
(* A call holds stk_mtx from beginning to end, so calls do not overlap and *)
(* one is enough to model.  The probe loop is one step per iteration: the  *)
(* question is whether it ends.  A stack is a value that is equal to       *)
(* another if the code's hash, length and memcmp say so; its hash is all   *)
(* that picks the slot where its probe starts.                             *)
(***************************************************************************)
EXTENDS Integers, Sequences

CONSTANTS
  Stacks,        \* the call stacks of the program
  Hash,          \* FNV of the frames, as a function Stacks -> Nat
  STK_CAP,       \* places in either table
  CallocFails,   \* real_calloc and real_malloc may return NULL
  NoStack

ASSUME StackAssumption ==
  /\ Hash \in [Stacks -> Nat]
  /\ STK_CAP \in Nat \ {0}
  /\ CallocFails \in BOOLEAN
  /\ NoStack \notin Stacks

VARIABLES
  stks,          \* the stacks so far: stack number n is stks[n + 1]
  stk_idx,       \* slot -> number, -1 when empty
  made,          \* which of the two tables have been allocated
  arg, s,        \* the stack of the call under way, and its slot
  ret            \* what the last call answered: [stack, id], id -1 for none

tables == <<stks, stk_idx, made>>
vars == <<tables, arg, s, ret>>

Slots == 0 .. STK_CAP - 1
stk_used == Len(stks)

NoRet == [stack |-> NoStack, id |-> -1]

Init ==
  /\ stks = << >> /\ stk_idx = [h \in Slots |-> -1]
  /\ made = {}
  /\ arg = NoStack /\ s = 0
  /\ ret = NoRet

Idle == arg = NoStack

Answer(st, id) ==
  /\ ret' = [stack |-> st, id |-> id]
  /\ arg' = NoStack /\ s' = 0

\* The call that finds no stks allocates both tables.  If it gets one of them
\* only it gives up, and keeps what it got.
AllocFails(st) ==
  /\ Idle /\ "stks" \notin made /\ CallocFails
  /\ made' \in {{}, {"stks"}, {"stk_idx"}}
  /\ Answer(st, -1)
  /\ UNCHANGED <<stks, stk_idx>>

\* A call with the tables in place, or that puts them there; the code looks at
\* stks only.
Enter(st) ==
  /\ Idle
  /\ made' = IF "stks" \in made THEN made ELSE {"stks", "stk_idx"}
  /\ arg' = st
  /\ s' = Hash[st] % STK_CAP
  /\ UNCHANGED <<stks, stk_idx, ret>>

\* What the probe loop reads; with no stk_idx the process dies here.
Probing == ~Idle /\ "stk_idx" \in made
Id == stk_idx[s]

\* Mutant: the slot is not filled.
MutClaimSlot ==
  /\ Probing /\ Id < 0
  /\ stks' = Append(stks, arg)
  /\ Answer(arg, stk_used)
  /\ UNCHANGED <<stk_idx, made>>

\* An empty slot: the stack is new, and is entered if there is room.
Claim ==
  /\ Probing /\ Id < 0
  /\ UNCHANGED made
  /\ IF stk_used >= STK_CAP
     THEN Answer(arg, -1) /\ UNCHANGED <<stks, stk_idx>>
     ELSE /\ stks' = Append(stks, arg)
          /\ stk_idx' = [stk_idx EXCEPT ![s] = stk_used]
          /\ Answer(arg, stk_used)

\* Mutant: the frames are not compared.
MutMatch ==
  /\ Probing /\ Id >= 0
  /\ Answer(arg, Id)
  /\ UNCHANGED tables

\* The slot of a stack that is equal.
Match ==
  /\ Probing /\ Id >= 0 /\ stks[Id + 1] = arg
  /\ Answer(arg, Id)
  /\ UNCHANGED tables

\* Mutant: the probe does not move.
MutProbe ==
  /\ Probing /\ Id >= 0 /\ stks[Id + 1] # arg
  /\ UNCHANGED vars

\* The slot of another stack.
Probe ==
  /\ Probing /\ Id >= 0 /\ stks[Id + 1] # arg
  /\ s' = (s + 1) % STK_CAP
  /\ UNCHANGED <<tables, arg, ret>>

Advance == Claim \/ Match \/ Probe

Next == Advance \/ \E st \in Stacks : AllocFails(st) \/ Enter(st)

Spec == Init /\ [][Next]_vars

\* The thread that holds stk_mtx goes on.
FairSpec == Spec /\ WF_vars(Advance)

-----------------------------------------------------------------------------
TypeOK ==
  /\ stks \in Seq(Stacks) /\ stk_used <= STK_CAP
  /\ stk_idx \in [Slots -> -1 .. STK_CAP - 1]
  /\ made \subseteq {"stks", "stk_idx"}
  /\ arg \in Stacks \cup {NoStack}
  /\ s \in Slots
  /\ ret \in [stack : Stacks \cup {NoStack}, id : -1 .. STK_CAP - 1]

\* A stack has one number, however its probe ran when it was first seen and
\* when it is looked for again: what an analyser groups by stack is not split.
OneNumber ==
  \A m, n \in DOMAIN stks : stks[m] = stks[n] => m = n

\* The number answered is that of the stack that was asked for, and stays it
\* ("append-only; ids stay valid forever", :144).
AnswerStands == ret.id >= 0 => stks[ret.id + 1] = ret.stack

\* Why: a stack is found where its probe comes to it before it comes to an empty
\* slot, and a probe under way has not missed its stack.
Start(st) == Hash[st] % STK_CAP
Path(a, b) == IF a <= b THEN a .. b - 1 ELSE (a .. STK_CAP - 1) \cup (0 .. b - 1)

NumbersInv == /\ \A h \in Slots : stk_idx[h] < stk_used
              /\ ret.id < stk_used
PlacedInv ==
  \A n \in DOMAIN stks : \E h \in Slots :
    /\ stk_idx[h] = n - 1
    /\ \A j \in Path(Start(stks[n]), h) : stk_idx[j] >= 0
ProbeInv ==
  ~Idle => \A j \in Path(Start(arg), s) :
             stk_idx[j] >= 0 /\ stks[stk_idx[j] + 1] # arg

IInv == TypeOK /\ NumbersInv /\ PlacedInv /\ ProbeInv /\ OneNumber /\ AnswerStands

\* The process has died: a call went on without an index, because an earlier
\* one got stks and no stk_idx.
Died == ~Idle /\ "stk_idx" \notin made

\* A call returns: the tracer does not stop the program it watches ("the program
\* reaches steady state normally", :9).  True only of a program that has no
\* more than STK_CAP stacks, and if it does not die: the check for a full table
\* sits behind an empty slot, and with all numbers given out there is none.
InternReturns == ~Idle ~> Idle \/ Died
=============================================================================
