--------------------------- MODULE MC_ShardTable ---------------------------
(* Four slots; homes that collide and wrap around the end of the slots.       *)
EXTENDS ShardTable, TLC
CONSTANTS a, b, c, d, e

FiveAddrs == {a, b, c, d, e}

Homes == (a :> 3) @@ (b :> 3) @@ (c :> 0) @@ (d :> 3) @@ (e :> 1)
=============================================================================
