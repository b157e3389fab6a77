----------------------------- MODULE MC_MemReport -----------------------------
(* An instance of MemReport: two stacks that share their first frame.         *)
EXTENDS MemReport

CONSTANTS f, g, h

TwoStacks == {<<f, g>>, <<f, h>>}
=============================================================================
