---------------------------- MODULE MC_LiveTable ----------------------------
(* Small instances of LiveTable: capacity 4, hashes chosen so that keys       *)
(* collide and probe sequences wrap around the end of the slots.              *)
EXTENDS LiveTable, TLC
CONSTANTS a, b, c, d, e, f

Keys4 == {a, b, c, d}
Keys6 == {a, b, c, d, e, f}

\* a, b and c share home 3 at capacity 4, where the probe wraps at once.  At
\* capacity 8 they spread over 3 and 7 and wrap again; d starts where they wrap.
HashWrap == (a :> 3) @@ (b :> 7) @@ (c :> 7) @@ (d :> 0)
HashWrap5 == HashWrap @@ (e :> 6)
HashWrap6 == HashWrap5 @@ (f :> 15)
=============================================================================
