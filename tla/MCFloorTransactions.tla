------------------------ MODULE MCFloorTransactions ------------------------
(* Three sessions, a routing of two steps, and committed rows that the sequential handlers
   of ProductionFlow.tla produce: a fresh plan, work under way, work almost done, an
   order held while it is worked on, one held before it was ever planned, and one whose second
   step a run could not place, completed without it, reopened, held and released. *)
EXTENDS FloorTransactions, TLC

CONSTANTS p1, p2, p3

MCSeqs == {10, 20}
MCSessions == {p1, p2, p3}
MCSymmetry == Permutations(MCSessions)

MCRow(st, started, hold) ==
    [status |-> st, started |-> started, ended |-> st = "COMPLETED",
     locked |-> FALSE, hold |-> hold, run |-> 0]

MCScene(st, first, second) ==
    [order |-> [status |-> st, dirty |-> first = NoEntry],
     entry |-> 10 :> first @@ 20 :> second]

Queued == MCRow("QUEUED", FALSE, "none")
Running == MCRow("IN_PROGRESS", TRUE, "none")
Done == MCRow("COMPLETED", TRUE, "none")

MCScenes ==
    {MCScene("QUEUED", Queued, Queued),
     MCScene("IN_PROGRESS", Done, Queued),
     MCScene("IN_PROGRESS", Done, Running),
     MCScene("ON_HOLD", MCRow("ON_HOLD", TRUE, "IN_PROGRESS"), MCRow("ON_HOLD", FALSE, "QUEUED")),
     MCScene("ON_HOLD", NoEntry, NoEntry),
     [order |-> [status |-> "QUEUED", dirty |-> TRUE], entry |-> 10 :> Done @@ 20 :> NoEntry]}

MCCalls ==
    [kind : {"floor"}, seq : MCSeqs, to : {"IN_PROGRESS", "ON_HOLD", "COMPLETED"}]
    \cup [kind : {"status"}, seq : {0}, to : OrderStatuses]
    \cup [kind : {"edit", "run"}, seq : {0}, to : {"none"}]
===============================================================================
