---------------------------- MODULE MCOrderIntake ----------------------------
(* Automatic numbers have one digit fewer than they need: SO-000001 and SO-000002 are
   reserved for the sequence, 3 and 4 may be typed or reached by it.  Rows 1 or 2 may have
   been seeded.  Two files: one with both kinds of rows, one with typed numbers only. *)
EXTENDS OrderIntake, TLC

CONSTANTS p1, p2, p3, b1, b2

MCSessions == {p1, p2, p3}
MCSymmetry == Permutations(MCSessions)
MCBatches == {b1, b2}
MCManualNumbers == {3, 4}
MCSeededNumbers == {1, 2}
MCRows == b1 :> [auto |-> 1, manual |-> {3}] @@ b2 :> [auto |-> 0, manual |-> {3, 4}]
===============================================================================
