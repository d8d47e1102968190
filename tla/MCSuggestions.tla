----------------------------- MODULE MCSuggestions -----------------------------
(***************************************************************************)
(* An order whose operation is planned on the first of two machines, and   *)
(* three places for suggestions.                                           *)
(***************************************************************************)
EXTENDS Suggestions, TLC

CONSTANTS m1, m2, o1, i1, i2, i3

MCEntry    == [o \in Orders |-> [id |-> i1, machine |-> m1, started |-> FALSE, locked |-> FALSE]]
MCPriority == [o \in Orders |-> "LOW"]
MCSymmetry == Permutations(Rows) \cup Permutations(Sessions)
=============================================================================
