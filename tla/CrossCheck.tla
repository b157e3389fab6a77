----------------------------- MODULE CrossCheck ------------------------------
(***************************************************************************)
(* src/tools/crosscheck_os_log.py: the regions in the OS's own log against *)
(* those in the profiler's records.                                        *)
(*                                                                         *)
(* A line of the OS's log is the number of its words behind the time, and  *)
(* the ones the tool reads.  A number is a token [prefix, digits]: whether *)
(* it begins with 0x, and the characters that follow.                      *)
(***************************************************************************)
EXTENDS Report

Text == INSTANCE LogLine

HexDigit == {"a", "b", "c", "d", "e", "f"}

\* Mutant: only a prefix tells that a column is hexadecimal.
MutColIsHex(tokens) == \E t \in tokens : t.prefix

\* _col_is_hex: one value that can only be hexadecimal makes all of them so.
ColIsHex(tokens) == \E t \in tokens : t.prefix \/ HexDigit \cap Range(t.digits) # {}

\* int(token, base) raises ValueError.
Bad(t, hex) ==
  \E d \in Range(t.digits) :
    ~\E n \in 1 .. IF hex \/ t.prefix THEN 16 ELSE 10 : d = Text!Digit[n]

\* _to_int
ToInt(t, hex) == Text!Value(IF hex \/ t.prefix THEN 16 ELSE 10, t.digits)

\* parse_os_log: for each name the largest values of its lines.
OsRegions(lines, reqHex) ==
  LET rows  == {n \in DOMAIN lines : lines[n].words >= 4}
      size  == reqHex \/ ColIsHex({lines[n].req : n \in rows})
      align == ColIsHex({lines[n].aligned : n \in rows})
      read  == {n \in rows : ~Bad(lines[n].req, size) /\ ~Bad(lines[n].aligned, align)}
      Of(name) == {n \in read : lines[n].name = name}
  IN  [name \in {lines[n].name : n \in read} |->
         [req |-> Max({ToInt(lines[n].req, size) : n \in Of(name)}),
          aligned |-> Max({ToInt(lines[n].aligned, align) : n \in Of(name)}),
          count |-> Cardinality(Of(name))]]

\* main, with the names the filter keeps.  load_profiler_regions finds what
\* analyze_profile.py calls the distinct regions.
Compare(lines, records, keep, reqHex, capturedOnly) ==
  LET prof   == Regions(records)
      os     == OsRegions(lines, reqHex)
      ours   == DOMAIN prof \cap keep
      theirs == IF capturedOnly THEN DOMAIN os \cap keep \cap ours ELSE DOMAIN os \cap keep
      both   == ours \cap theirs
  IN  [missing |-> theirs \ ours, extra |-> ours \ theirs,
       sizeDiffers  |-> {name \in both : prof[name].size # os[name].req},
       alignDiffers |-> {name \in both : RoundUp(prof[name].size) # os[name].aligned}]
=============================================================================
