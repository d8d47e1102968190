--------------------------- MODULE MCProductionFlow ---------------------------
(* Small plants for ProductionFlow: one order whose product may change, routings of two
   and three steps. *)
EXTENDS ProductionFlow, TLC

CONSTANTS o1, pLong, pShort

MCOrders == {o1}
MCProducts == {pLong, pShort}
MCSeqs == {10, 20, 30}
MCRouting == pLong :> {10, 20, 30} @@ pShort :> {10, 20}

\* What the server actions of the floor page ask for: Start and Resume, Pause,
\* Complete; none of them overrides the sequence gate.
MCFloorActions == {"IN_PROGRESS", "ON_HOLD", "COMPLETED"}
===============================================================================
