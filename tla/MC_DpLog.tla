------------------------------ MODULE MC_DpLog ------------------------------
(* Names that a scanner or a decoder could stumble over, one that is too long *)
(* for its buffer with its escapes only, and texts that look like ours.       *)
EXTENDS DpLog

NamesAll == {<<>>, <<"}", "\"">>, <<"\\">>, <<"n", NEWLINE>>, <<CONTROL>>,
             <<"\"", "\"", "x">>}
ForeignAll == {<<>>, <<"x", "\"", "}">>, <<"}", "{", "}">>}
AddrsAll == {26}
SizesAll == {10}
RetsAll == {-10, 0}
=============================================================================
