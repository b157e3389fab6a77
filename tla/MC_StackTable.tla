--------------------------- MODULE MC_StackTable ---------------------------
(* Four places; stacks that collide, probe on into others' slots and wrap.    *)
EXTENDS StackTable, TLC
CONSTANTS a, b, c, d, e

Stacks4 == {a, b, c, d}
Stacks5 == Stacks4 \cup {e}

HashWrap4 == (a :> 3) @@ (b :> 3) @@ (c :> 7) @@ (d :> 0)
HashWrap5 == HashWrap4 @@ (e :> 1)
=============================================================================
