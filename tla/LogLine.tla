------------------------------ MODULE LogLine -------------------------------
(***************************************************************************)
(* One line of the data plane's log: how src/profiler/shm_profiler.c       *)
(* writes an event (the b_* functions) and how tools/analyze_profile.py    *)
(* gets it back out of the line (unwrap_log, _json_object_end).            *)
(*                                                                         *)
(* A text is a sequence of tokens: a character that one of the two sides   *)
(* looks at, "x" for one that neither does, or a key with the punctuation  *)
(* around it, which never varies ("addr:" is `,"addr":`).  An event        *)
(* has no pgname: the data plane has no ShmMapOnPg.  The flags of a map,   *)
(* one more number behind the size, are left out.                          *)
(***************************************************************************)
EXTENDS Integers, SequencesExt, FiniteSetsExt

NEWLINE == "newline"
CONTROL == "control"        \* one that b_json has no escape for

Digit == <<"0", "1", "2", "3", "4", "5", "6", "7", "8", "9",
           "a", "b", "c", "d", "e", "f">>
Keys == {"event:", "shmname:", "addr:", "size:", "ret:"}

NoEvent == [event |-> "none"]

-----------------------------------------------------------------------------
(* The writer.                                                             *)

\* b_json passes every other character on as it is.
Escaped(c) ==
  CASE c \in {"\"", "\\"} -> <<"\\", c>>
    [] c = NEWLINE -> <<"\\", "n">>
    [] OTHER -> <<c>>

Quoted(text) == <<"\"">> \o text \o <<"\"">>

\* Mutant: with the quote and the backslash passed on.
MutJson(name) == name

Json(name) == FlattenSeq([n \in DOMAIN name |-> Escaped(name[n])])

\* b_u64 and b_hex: the digits come out last first and are turned round.
Numeral(base, v) ==
  LET digits[n \in Nat] == <<Digit[(n % base) + 1]>>
                           \o IF n < base THEN <<>> ELSE digits[n \div base]
  IN  Reverse(digits[v])

\* b_i64: a negative number is negated in the unsigned type.
Signed(v) == IF v < 0 THEN <<"-">> \o Numeral(10, -(v + 1) + 1) ELSE Numeral(10, v)

\* The payload of an event, before it meets the end of its buffer.
Payload(e) ==
  IF e.event = "map"
  THEN <<"{", "event:">> \o Quoted(<<"map">>) \o <<"shmname:">> \o Quoted(Json(e.shmname))
       \o <<"addr:">> \o Quoted(<<"0x">> \o Numeral(16, e.addr))
       \o <<"size:">> \o Numeral(10, e.size) \o <<"ret:">> \o Signed(e.ret) \o <<"}">>
  ELSE <<"{", "event:">> \o Quoted(<<"unmap">>)
       \o <<"addr:">> \o Quoted(<<"0x">> \o Numeral(16, e.addr))
       \o <<"ret:">> \o Signed(e.ret) \o <<"}">>

\* What b_raw let into a buffer of cap places, the last of which b_finish takes
\* for the zero.
Kept(text, cap) == SubSeq(text, 1, IF Len(text) < cap THEN Len(text) ELSE cap - 1)

-----------------------------------------------------------------------------
(* The reader.                                                             *)

\* One step of the scan for the brace that closes the first one.  Braces and
\* quotes in a string do not count, nor what is behind a backslash there.
Scan(m, c) ==
  CASE m.end -> m
    [] m.esc -> [m EXCEPT !.esc = FALSE, !.at = @ + 1]
    [] ~m.esc /\ m.str ->
         [m EXCEPT !.esc = c = "\\", !.str = c # "\"", !.at = @ + 1]
    [] OTHER ->
         [m EXCEPT !.str = c = "\"", !.at = @ + 1,
                   !.depth = CASE c = "{" -> @ + 1 [] c = "}" -> @ - 1 [] OTHER -> @,
                   !.end = c = "}" /\ m.depth = 1]

\* The first object of a line, or nothing when it is not closed.
ObjectIn(line) ==
  LET m == FoldLeft(Scan, [end |-> FALSE, esc |-> FALSE, str |-> FALSE,
                           at |-> 0, depth |-> 0], line)
  IN  IF m.end THEN SubSeq(line, 1, m.at) ELSE <<>>

\* json.loads: what stands behind a key, a string without its escapes, a number.
After(text, key) ==
  LET from == SelectInSeq(text, LAMBDA c : c = key) + 1
      ends == {n \in from .. Len(text) : text[n] \in Keys \/ n = Len(text)}
  IN  SubSeq(text, from, Min(ends) - 1)

Unquoted(text) ==
  LET inner == SubSeq(text, 2, Len(text) - 1)
      Undo(m, c) ==
        IF m.esc
        THEN [esc |-> FALSE, out |-> Append(m.out, IF c = "n" THEN NEWLINE ELSE c)]
        ELSE IF c = "\\" THEN [m EXCEPT !.esc = TRUE] ELSE [m EXCEPT !.out = Append(@, c)]
  IN  FoldLeft(Undo, [esc |-> FALSE, out |-> <<>>], inner).out

Value(base, digits) ==
  FoldLeft(LAMBDA v, c : base * v + (CHOOSE d \in DOMAIN Digit : Digit[d] = c) - 1, 0, digits)
Number(text) == IF text[1] = "-" THEN -Value(10, Tail(text)) ELSE Value(10, text)
Address(text) == Value(16, Tail(Unquoted(text)))

Loads(text) ==
  IF text = <<>> \/ Contains(text, NEWLINE) \/ Contains(text, CONTROL) THEN NoEvent
  ELSE LET event == Unquoted(After(text, "event:"))[1]
           addr  == Address(After(text, "addr:"))
           ret   == Number(After(text, "ret:"))
       IN  IF event = "map"
           THEN [event |-> event, shmname |-> Unquoted(After(text, "shmname:")),
                 addr |-> addr, size |-> Number(After(text, "size:")), ret |-> ret]
           ELSE [event |-> event, addr |-> addr, ret |-> ret]

\* unwrap_log, for a line with our module's tag.
Unwrap(line) == Loads(ObjectIn(line))
=============================================================================
