------------------------------- MODULE MC_Fleet -------------------------------
(* An instance of Fleet: one process of each plane, two names.                *)
EXTENDS FleetReport

CONSTANTS cp, dp

TwoFlags == cp :> 4 @@ dp :> 1
Edges == <<10, 16>>
Lives == <<1>>

\* A line of another program, one with junk for a size, and one that is cut.
Other(words, digits) ==
  [words |-> words, addr |-> 0, name |-> "other",
   req |-> [prefix |-> FALSE, digits |-> digits],
   aligned |-> [prefix |-> TRUE, digits |-> <<"1", "0">>]]
LogBefore == <<Other(7, <<"1", "1">>), Other(7, <<"x">>), Other(3, <<"b">>)>>

AnyName == Permutations(Names)
=============================================================================
