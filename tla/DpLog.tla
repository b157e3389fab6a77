------------------------------- MODULE DpLog --------------------------------
(***************************************************************************)
(* The data-plane backend (src/profiler/shm_profiler.c without IS_CP) as   *)
(* its wrappers call it (src/platform_shm.c).  It keeps one flag: a call   *)
(* that finds it set records nothing.  That is meant for the logger, which *)
(* may map shared memory itself, through the same wrappers, while it       *)
(* writes our line; it also meets calls of other contexts.                 *)
(*                                                                         *)
(* A context is what runs the program's calls one at a time; it has a      *)
(* stack of calls under way, of which all but the first are the logger's.  *)
(* LOG_FILE_INFO appends our line, and another module's text may land      *)
(* behind it (analyze_profile.py:138).                                     *)
(***************************************************************************)
EXTENDS LogLine

CONSTANTS
  Contexts,
  Names, Addrs, Sizes, Rets,  \* what the program passes, and the OS answers
  Foreign,                    \* texts that may land behind a line of ours
  MAP_CAP, UNMAP_CAP,         \* the two buffers, in tokens
  LogMaps,                    \* the logger maps shared memory for each line
  MaxCalls,                   \* bound: calls of the program
  MaxDepth                    \* bound: calls inside one another

ASSUME DpAssumption ==
  /\ Addrs \subseteq Nat \ {0} /\ Sizes \subseteq Nat /\ Rets \subseteq Int
  /\ {} \notin {Names, Addrs, Sizes, Rets}
  /\ LogMaps \in BOOLEAN
  /\ {MAP_CAP, UNMAP_CAP, MaxCalls, MaxDepth} \subseteq Nat \ {0}

\* Names and what lands behind a line are texts; no character of a name is a key.
ASSUME TextAssumption ==
  /\ \A f \in Names \cup Foreign : f \in Seq(ToSet(f))
  /\ \A n \in Names : ToSet(n) \cap Keys = {}

VARIABLES
  g_in_log,
  stack,         \* context -> its calls under way, the outermost first
  out,           \* the lines of the log that are ours: [ev, text, foreign]
  done,          \* history: the program's events, in the order it called
  crossed        \* history: a context called while another was in a call

vars == <<g_in_log, stack, out, done, crossed>>

\* A map that failed is recorded with no address.
MapEvents ==
  {[event |-> "map", shmname |-> n, addr |-> IF r >= 0 THEN a ELSE 0, size |-> s, ret |-> r] :
     n \in Names, a \in Addrs, s \in Sizes, r \in Rets}
UnmapEvents == {[event |-> "unmap", addr |-> a, ret |-> r] : a \in Addrs, r \in Rets}

\* What the logger maps is of no interest but for being mapped.
LogEvent == CHOOSE e \in MapEvents : TRUE

Cap(e) == IF e.event = "map" THEN MAP_CAP ELSE UNMAP_CAP

Top(t) == Last(stack[t])
Within(t, at) == stack[t] # <<>> /\ Top(t).at = at
Put(t, call) == stack' = [stack EXCEPT ![t] = Append(Front(@), call)]
Pop(t) == stack' = [stack EXCEPT ![t] = Front(@)]

Init ==
  /\ g_in_log = FALSE
  /\ stack = [t \in Contexts |-> <<>>]
  /\ out = <<>> /\ done = <<>> /\ crossed = FALSE

-----------------------------------------------------------------------------
\* Platform_ShmMap or Platform_ShmUnmap, after its OS call.
Call(t, e) ==
  /\ stack[t] = <<>> /\ Len(done) < MaxCalls
  /\ stack' = [stack EXCEPT ![t] = <<[ev |-> e, at |-> "calling", nested |-> FALSE]>>]
  /\ done' = Append(done, e)
  /\ crossed' = (crossed \/ \E u \in Contexts \ {t} : stack[u] # <<>>)
  /\ UNCHANGED <<g_in_log, out>>

\* The exchange finds the flag clear: the line will be written.
Enter(t) ==
  /\ Within(t, "calling") /\ ~g_in_log
  /\ g_in_log' = TRUE
  /\ Put(t, [Top(t) EXCEPT !.at = "writing"])
  /\ UNCHANGED <<out, done, crossed>>

\* Mutant: the call waits for the flag as for a lock.
MutDropped(t) == FALSE /\ Within(t, "calling") /\ UNCHANGED vars

\* It finds it set: the call returns, and its event is nowhere.
Dropped(t) ==
  /\ Within(t, "calling") /\ g_in_log
  /\ Pop(t)
  /\ UNCHANGED <<g_in_log, out, done, crossed>>

\* The logger, with our line in hand, maps memory first.
LogNests(t) ==
  /\ LogMaps /\ Within(t, "writing") /\ ~Top(t).nested /\ Len(stack[t]) < MaxDepth
  /\ stack' = [stack EXCEPT ![t] =
       Append(Append(Front(@), [Top(t) EXCEPT !.nested = TRUE]),
              [ev |-> LogEvent, at |-> "calling", nested |-> FALSE])]
  /\ UNCHANGED <<g_in_log, out, done, crossed>>

\* LOG_FILE_INFO writes what of the payload the buffer has kept.
Log(t) ==
  /\ Within(t, "writing") /\ (LogMaps => Top(t).nested \/ Len(stack[t]) = MaxDepth)
  /\ \E f \in Foreign :
       out' = Append(out, [ev |-> Top(t).ev, text |-> Kept(Payload(Top(t).ev), Cap(Top(t).ev)),
                           foreign |-> f])
  /\ Put(t, [Top(t) EXCEPT !.at = "written"])
  /\ UNCHANGED <<g_in_log, done, crossed>>

\* Mutant: the record of an unmap forgets to give the flag back.
MutLeave(t) ==
  /\ Within(t, "written")
  /\ g_in_log' = (Top(t).ev.event = "unmap")
  /\ Pop(t)
  /\ UNCHANGED <<out, done, crossed>>

\* The flag is given back and the call returns.
Leave(t) ==
  /\ Within(t, "written")
  /\ g_in_log' = FALSE
  /\ Pop(t)
  /\ UNCHANGED <<out, done, crossed>>

Step(t) == Enter(t) \/ Dropped(t) \/ LogNests(t) \/ Log(t) \/ Leave(t)

Next == \E t \in Contexts : Step(t) \/ \E e \in MapEvents \cup UnmapEvents : Call(t, e)

Spec == Init /\ [][Next]_vars

\* A context inside a wrapper goes on; nothing makes it call.
FairSpec == Spec /\ \A t \in Contexts : WF_vars(Step(t))

-----------------------------------------------------------------------------
Calls == [ev : MapEvents \cup UnmapEvents, at : {"calling", "writing", "written"},
          nested : BOOLEAN]

TypeOK ==
  /\ {g_in_log, crossed} \subseteq BOOLEAN
  /\ stack \in [Contexts -> Seq(Calls)]
  /\ done \in Seq(MapEvents \cup UnmapEvents)

\* As long as contexts do not overlap, the log has each event of the program, in
\* its order, and none of the logger's own: "one global flag suffices" (:138).
SeesAll ==
  ~crossed /\ (\A t \in Contexts : stack[t] = <<>>) =>
    Len(out) = Len(done) /\ \A n \in DOMAIN done : out[n].ev = done[n]

\* Why: then the flag is set exactly while the one call under way is past its
\* exchange, and a call of the logger's own meets it set.
Matches(n) == Len(out) = n /\ \A k \in 1 .. n : out[k].ev = done[k]
AloneAt(t) ==
  LET first == stack[t][1] IN
  /\ done # <<>> /\ first.ev = done[Len(done)]
  /\ g_in_log <=> first.at # "calling"
  /\ \/ Len(stack[t]) = 1
     \/ Len(stack[t]) = 2 /\ first.at = "writing" /\ stack[t][2].at = "calling"
  /\ Matches(IF first.at = "written" THEN Len(done) ELSE Len(done) - 1)
AloneInv ==
  ~crossed =>
    /\ \A t, u \in Contexts : stack[t] # <<>> /\ stack[u] # <<>> => t = u
    /\ (\A t \in Contexts : stack[t] = <<>>) => ~g_in_log /\ Matches(Len(done))
    /\ \A t \in Contexts : stack[t] # <<>> => AloneAt(t)

IInv == TypeOK /\ AloneInv

\* An event whose payload fits the buffer is read back as it was, whatever lands
\* behind it; one that does not fit, and was cut, is refused and not misread.
\* Only a control character that b_json does not escape spoils a line that fits.
\* The terminating zero always has its place in the buffer.
Readable(e) == e.event = "map" => ~Contains(e.shmname, CONTROL)
ReadBack ==
  \A n \in DOMAIN out :
    LET e == out[n].ev IN
    /\ Len(out[n].text) < Cap(e)
    /\ IF Len(Payload(e)) < Cap(e)
       THEN Readable(e) => Unwrap(out[n].text \o out[n].foreign) = e
       ELSE out[n].foreign = <<>> => Unwrap(out[n].text) = NoEvent

\* Every call returns, the logger's nested ones too: the flag is tried, not waited for.
CallsReturn == \A t \in Contexts : stack[t] # <<>> ~> stack[t] = <<>>
=============================================================================
