---------------------------- MODULE MCStockLedger ----------------------------
(* One material and two requests at a time: movements of different materials touch
   different rows and never wait for each other. *)
EXTENDS StockLedger

CONSTANTS m1, p1, p2

MCMaterials == {m1}
MCSessions == {p1, p2}
MCAmounts == 0 .. 2
===============================================================================
