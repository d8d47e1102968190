--------------------------- MODULE FloorTransactions ---------------------------
(***************************************************************************)
(* The handlers of ProductionFlow.tla, statement by statement: floor       *)
(* transitions, order status changes, plant edits and schedule runs that   *)
(* several sessions carry out at the same time on the rows of one order.   *)
(* Every handler is one interactive transaction under READ COMMITTED:      *)
(*                                                                         *)
(*   a SELECT sees what is committed, and the session's own writes;        *)
(*   an UPDATE or DELETE waits until no other open transaction has written *)
(*   the row, then evaluates its WHERE on the row as it is, but its data   *)
(*   comes from what the session read before;                              *)
(*   what a transaction has written stays locked until it ends;            *)
(*   an UPDATE by id of a row that is gone ends the transaction (P2025);   *)
(*   a rollback throws the session's writes away.                          *)
(*                                                                         *)
(* The call to markScheduleDirty() that follows a commit is a transaction  *)
(* of its own.  Roles are not modelled (they narrow who may call, not how  *)
(* calls interleave); neither are manual moves, and the audit rows,        *)
(* notifications and e-mails the transactions also write.  Of the delivery *)
(* risk only that it is written to the order's row.  The open conflicts of *)
(* the order are one row for each run.  There is one order: statements     *)
(* that write several (markScheduleDirty({ all: true }) against the loop   *)
(* of a run over its orders) may wait in circles this module does not see. *)
(***************************************************************************)
EXTENDS ScheduleRows, Naturals

CONSTANTS
    Seqs,      \* the routing of the order's product
    Sessions,  \* requests served at the same time
    NoSession, \* nobody
    Unwritten, \* a row the transaction has not written
    Calls,     \* what may be asked for: [kind, seq, to]
    Scenes,    \* committed rows to start from: [order, entry]
    MaxCalls,  \* bound: calls in a behaviour
    MaxRuns,   \* bound: schedule runs in a behaviour
    MaxEdits   \* bound: plant edits in a behaviour

Row == [status : OperationStatuses, started : BOOLEAN, ended : BOOLEAN,
        locked : BOOLEAN, hold : HoldReasons, run : 0 .. MaxRuns]
OrderRow == [status : OrderStatuses, dirty : BOOLEAN]

\* The requests there are: transitions of one operation, status changes of the order,
\* plant edits and runs.
Requests ==
    [kind : {"floor"}, seq : Seqs, to : OperationStatuses]
    \cup [kind : {"status"}, seq : {0}, to : OrderStatuses]
    \cup [kind : {"edit", "run"}, seq : {0}, to : {"none"}]

\* Work that is running, done or held while it ran has an actual start.
StampsFit(e) == e.status \in {"IN_PROGRESS", "COMPLETED"} \/ e.hold = "IN_PROGRESS" => e.started

\* What ProductionFlow.tla shows of the rows its handlers leave (Rows, NoSilentGap): stamps
\* fit, and an order that is planned has all its steps on the board or the banner.
IsScene(scene) ==
    /\ scene.order \in OrderRow
    /\ scene.entry \in [Seqs -> Row \cup {NoEntry}]
    /\ \A s \in Seqs : Exists(scene.entry[s]) => StampsFit(scene.entry[s])
    /\ scene.order.status \in {"QUEUED", "IN_PROGRESS"} /\ ~scene.order.dirty
          => \A s \in Seqs : Exists(scene.entry[s])

ASSUME SessionsAssumption == NoSession \notin Sessions
ASSUME SeqsAssumption == Seqs \subseteq Nat
ASSUME RunsAssumption == MaxRuns \in Nat
ASSUME UnwrittenAssumption == Unwritten \notin OrderRow \cup Row \cup {NoEntry}
ASSUME CallsAssumption == Calls \subseteq Requests
ASSUME ScenesAssumption == \A scene \in Scenes : IsScene(scene)

VARIABLES
    order,     \* committed Order row: [status, dirty]
    entry,     \* committed ScheduleEntry rows by sequence; `run` is the run that made it
    conflicts, \* runs with an open ScheduleConflict of the order
    planner,   \* the session that holds the lock of the Tenant row
    plant,     \* version of the data a plan is made from
    basis,     \* the version each run loaded
    calls,     \* calls made so far
    runs,      \* schedule runs begun so far
    lost,      \* a session ended between its commit and markScheduleDirty()
    overlapped, \* history: sessions whose call the commit of another has overlapped, if
               \* that one changed the status of the order or theirs is to change it
    raced,     \* history: an overlapped floor transition has changed the status of the order
    pc,        \* the statement each session executes next
    call,      \* what it was asked for
    seen,      \* what it read: [status, dirty, rows]
    todo,      \* rows its current statement or loop has still to write
    wOrder,    \* the Order row as its transaction wrote it
    wEntry,    \* the ScheduleEntry rows as its transaction wrote them
    wConflict  \* [resolves, reports]: conflicts its transaction resolved or deleted, and
               \* inserted

rows == <<order, entry, conflicts>>
locals == <<call, seen, todo>>
writes == <<wOrder, wEntry, wConflict>>
counters == <<plant, basis, calls, runs, lost, overlapped, raced>>
vars == <<rows, planner, counters, pc, locals, writes>>

NoCall == [kind |-> "none", seq |-> 0, to |-> "none", run |-> 0]
NoRows == [s \in Seqs |-> Unwritten]
NothingSeen == [status |-> "none", dirty |-> FALSE, rows |-> NoRows]
NoConflict == [resolves |-> {}, reports |-> {}]

Init ==
    /\ \E scene \in Scenes : order = scene.order /\ entry = scene.entry
    /\ conflicts = {}
    /\ planner = NoSession
    /\ plant = 0 /\ basis = [r \in 0 .. MaxRuns |-> 0]
    /\ calls = 0 /\ runs = 0 /\ lost = FALSE
    /\ overlapped = {} /\ raced = FALSE
    /\ pc = [p \in Sessions |-> "idle"]
    /\ call = [p \in Sessions |-> NoCall]
    /\ seen = [p \in Sessions |-> NothingSeen]
    /\ todo = [p \in Sessions |-> {}]
    /\ wOrder = [p \in Sessions |-> Unwritten]
    /\ wEntry = [p \in Sessions |-> NoRows]
    /\ wConflict = [p \in Sessions |-> NoConflict]

-----------------------------------------------------------------------------
\* What a session sees, and what it waits for.

OrderSeen(p) == IF wOrder[p] = Unwritten THEN order ELSE wOrder[p]
EntriesSeen(p) == [s \in Seqs |-> IF wEntry[p][s] = Unwritten THEN entry[s] ELSE wEntry[p][s]]

\* Mutant: a run considers every order it may mark.
IsConsideredIfOpen(st) == st \in OpenStatuses

IsConsidered(st) == st \in {"QUEUED", "IN_PROGRESS"}
Fixed(p) == {s \in Seqs : Exists(seen[p].rows[s]) /\ IsFixedEntry(seen[p].rows[s])}

\* What the run of session p has to place.
Remaining(p) == IF IsConsidered(seen[p].status) THEN Seqs \ Fixed(p) ELSE {}

\* markScheduleDirty() has a row to write.
Markable(o) == o.status \in OpenStatuses /\ ~o.dirty

\* Mutant: the last updateMany of a run without its status condition.
ClearableAnyStatus(o) == o.dirty

\* The last updateMany of a run, over the orders on hold, has a row to write.
Clearable(o) == o.status = "ON_HOLD" /\ o.dirty

\* A hold or release writes its steps in the order of their sequence.
IsNext(p, s) == s \in todo[p] /\ \A r \in todo[p] : s <= r

\* The rows the next statement of p needs.
NeedsOrder(p) ==
    \/ pc[p] \in {"order", "rolledUp", "risk", "considered"}
    \/ pc[p] \in {"late", "marking"} /\ Markable(OrderSeen(p))
    \/ pc[p] = "held" /\ Clearable(OrderSeen(p))

NeedsEntries(p) ==
    CASE pc[p] = "operation" -> {call[p].seq}
      [] pc[p] = "step"      -> {s \in Seqs : IsNext(p, s)}
      [] pc[p] = "inserting" -> Remaining(p)
      [] OTHER               -> {}

\* The deleteMany of a run has deleted rows; conflicts that name them go with them.
DeletesRows(p) == \E s \in Seqs : wEntry[p][s] = NoEntry

NeedsConflicts(p) ==
    \/ pc[p] = "resolving"
    \/ pc[p] = "reporting" /\ IsConsidered(seen[p].status)
    \/ pc[p] = "deleting" /\ todo[p] = {} /\ DeletesRows(p)

EntryHeldByOther(p, s) == \E q \in Sessions \ {p} : wEntry[q][s] # Unwritten

\* Mutant: runs without the row lock of the tenant.
TenantLockIgnored(p) == TRUE

TenantFree(p) == planner = NoSession

\* The next statement of p may have to wait for the end of q's transaction.
WaitsFor(p, q) ==
    \/ NeedsOrder(p) /\ wOrder[q] # Unwritten
    \/ \E s \in NeedsEntries(p) : wEntry[q][s] # Unwritten
    \/ NeedsConflicts(p) /\ wConflict[q].resolves # {}
    \/ pc[p] = "deleting" /\ \E s \in todo[p] : wEntry[q][s] # Unwritten
    \/ pc[p] = "tenant" /\ ~TenantFree(p) /\ planner = q

\* The next statement of p cannot be executed now; a deleteMany works row by row.
Waits(p) == pc[p] # "deleting" /\ \E q \in Sessions \ {p} : WaitsFor(p, q)

Goto(p, next) == pc' = [pc EXCEPT ![p] = next]

\* The end of a call, whatever became of it.
End(p) ==
    /\ Goto(p, "idle")
    /\ call' = [call EXCEPT ![p] = NoCall]
    /\ seen' = [seen EXCEPT ![p] = NothingSeen]
    /\ todo' = [todo EXCEPT ![p] = {}]
    /\ wOrder' = [wOrder EXCEPT ![p] = Unwritten]
    /\ wEntry' = [wEntry EXCEPT ![p] = NoRows]
    /\ wConflict' = [wConflict EXCEPT ![p] = NoConflict]
    /\ planner' = IF planner = p THEN NoSession ELSE planner

WriteOrder(p, row) == wOrder' = [wOrder EXCEPT ![p] = row]
WriteEntry(p, s, row) == wEntry' = [wEntry EXCEPT ![p][s] = row]

-----------------------------------------------------------------------------
\* A request arrives.  runSchedule() inserts its RUNNING row before its transaction.

Begin(p, c) ==
    /\ pc[p] = "idle"
    /\ calls < MaxCalls
    /\ c.kind = "run" => runs < MaxRuns
    /\ c.kind = "edit" => plant < MaxEdits
    /\ calls' = calls + 1
    /\ runs' = IF c.kind = "run" THEN runs + 1 ELSE runs
    /\ call' = [call EXCEPT ![p] = [kind |-> c.kind, seq |-> c.seq, to |-> c.to,
                                    run |-> IF c.kind = "run" THEN runs' ELSE 0]]
    /\ Goto(p, CASE c.kind = "floor"  -> "read"
                 [] c.kind = "status" -> "from"
                 [] c.kind = "edit"   -> "edit"
                 [] c.kind = "run"    -> "tenant")
    /\ overlapped' = overlapped \ {p}
    /\ UNCHANGED <<rows, planner, plant, basis, lost, raced, seen, todo, writes>>

-----------------------------------------------------------------------------
\* applyOperationTransition().

ReadOperation(p) ==
    LET s == call[p].seq
        to == call[p].to
    IN  /\ pc[p] = "read"
        /\ IF /\ Exists(entry[s])
              /\ CanTransitionOperation(entry[s].status, to, "ADMIN")
              /\ order.status \notin TerminalStatuses
              /\ order.status = "ON_HOLD" => to = "ON_HOLD"
           THEN /\ seen' = [seen EXCEPT ![p].rows[s] = entry[s]]
                /\ Goto(p, IF to = "IN_PROGRESS" /\ entry[s].status # "COMPLETED"
                           THEN "gate" ELSE "operation")
                /\ UNCHANGED <<planner, call, todo, writes>>
           ELSE End(p)
        /\ UNCHANGED <<rows, counters>>

CheckGate(p) ==
    /\ pc[p] = "gate"
    /\ IF \A r \in Seqs : r < call[p].seq /\ Exists(entry[r]) => entry[r].status \in DoneStatuses
       THEN Goto(p, "operation") /\ UNCHANGED <<planner, locals, writes>>
       ELSE End(p)
    /\ UNCHANGED <<rows, counters>>

\* The row of sequence s is the one p has read.
StillThere(p, s) == Exists(entry[s]) /\ entry[s].run = seen[p].rows[s].run

UpdateOperation(p) ==
    LET s == call[p].seq
        from == seen[p].rows[s].status
    IN  /\ pc[p] = "operation" /\ ~Waits(p)
        /\ IF StillThere(p, s)
           THEN /\ WriteEntry(p, s, Moved([entry[s] EXCEPT !.status = from], call[p].to))
                /\ \E next \in {"late", "updated"} : Goto(p, next)
                /\ UNCHANGED <<planner, locals, wOrder, wConflict>>
           ELSE End(p)
        /\ UNCHANGED <<rows, counters>>

\* markScheduleDirty() inside the transaction, for a start or an end off its plan.
MarkLate(p) ==
    /\ pc[p] = "late" /\ ~Waits(p)
    /\ IF Markable(OrderSeen(p)) THEN WriteOrder(p, [OrderSeen(p) EXCEPT !.dirty = TRUE])
       ELSE UNCHANGED wOrder
    /\ Goto(p, "updated")
    /\ UNCHANGED <<rows, planner, counters, locals, wEntry, wConflict>>

\* Mutant: the steps are read outside the transaction.
RollUpOutside(p) ==
    LET st == OrderSeen(p).status
        target == RolledUp(st, StatusesOf(entry))
    IN  /\ pc[p] = "updated"
        /\ seen' = [seen EXCEPT ![p].status = target, ![p].rows = EntriesSeen(p)]
        /\ Goto(p, IF target = st THEN "risk" ELSE "rolledUp")
        /\ UNCHANGED <<rows, planner, counters, call, todo, writes>>

\* rollupOrderStatus(): the order and its steps as this transaction sees them.
RollUp(p) ==
    LET st == OrderSeen(p).status
        target == RolledUp(st, StatusesOf(EntriesSeen(p)))
    IN  /\ pc[p] = "updated"
        /\ seen' = [seen EXCEPT ![p].status = target, ![p].rows = EntriesSeen(p)]
        /\ Goto(p, IF target = st THEN "risk" ELSE "rolledUp")
        /\ UNCHANGED <<rows, planner, counters, call, todo, writes>>

UpdateRolledUp(p) ==
    LET closes == seen[p].status = "COMPLETED"
    IN  /\ pc[p] = "rolledUp" /\ ~Waits(p)
        /\ WriteOrder(p, [status |-> seen[p].status, dirty |-> OrderSeen(p).dirty /\ ~closes])
        /\ Goto(p, IF closes THEN "resolving" ELSE "risk")
        /\ UNCHANGED <<rows, planner, counters, locals, wEntry, wConflict>>

\* resolveOrderConflicts() of an order that is completed.
ResolveConflicts(p) ==
    /\ pc[p] = "resolving" /\ ~Waits(p)
    /\ wConflict' = [wConflict EXCEPT ![p].resolves = conflicts]
    /\ Goto(p, "risk")
    /\ UNCHANGED <<rows, planner, counters, locals, wOrder, wEntry>>

\* reassessOrderRisk(): another update of the order if its risk has changed.
ReassessRisk(p, changed) ==
    /\ pc[p] = "risk"
    /\ IF changed THEN ~Waits(p) /\ WriteOrder(p, OrderSeen(p)) ELSE UNCHANGED wOrder
    /\ Goto(p, "commit")
    /\ UNCHANGED <<rows, planner, counters, locals, wEntry, wConflict>>

-----------------------------------------------------------------------------
\* changeOrderStatus() with holdOrder() and releaseOrder().

ReadOrder(p) ==
    /\ pc[p] = "from"
    /\ IF CanTransition(order.status, call[p].to, "ADMIN")
       THEN /\ seen' = [seen EXCEPT ![p].status = order.status]
            /\ Goto(p, "order")
            /\ UNCHANGED <<planner, call, todo, writes>>
       ELSE End(p)
    /\ UNCHANGED <<rows, counters>>

UpdateOrder(p) ==
    /\ pc[p] = "order" /\ ~Waits(p)
    /\ WriteOrder(p, [order EXCEPT !.status = call[p].to])
    /\ Goto(p, IF "ON_HOLD" \in {seen[p].status, call[p].to} THEN "steps" ELSE "commit")
    /\ UNCHANGED <<rows, planner, counters, locals, wEntry, wConflict>>

\* The row after the hold or release of the step p read as `read`.
Resettled(p, read) == IF call[p].to = "ON_HOLD" THEN Held(read) ELSE Released(read)

ReadSteps(p) ==
    /\ pc[p] = "steps"
    /\ seen' = [seen EXCEPT ![p].rows = entry]
    /\ todo' = [todo EXCEPT ![p] = {s \in Seqs : Resettled(p, entry[s]) # entry[s]}]
    /\ Goto(p, IF todo'[p] = {} THEN "commit" ELSE "step")
    /\ UNCHANGED <<rows, planner, counters, call, writes>>

UpdateStep(p, s) ==
    LET written == Resettled(p, seen[p].rows[s])
    IN  /\ pc[p] = "step" /\ ~Waits(p)
        /\ IsNext(p, s)
        /\ IF StillThere(p, s)
           THEN /\ WriteEntry(p, s, [entry[s] EXCEPT !.status = written.status, !.hold = written.hold])
                /\ todo' = [todo EXCEPT ![p] = @ \ {s}]
                /\ Goto(p, IF todo'[p] = {} THEN "commit" ELSE "step")
                /\ UNCHANGED <<planner, call, seen, wOrder, wConflict>>
           ELSE End(p)
        /\ UNCHANGED <<rows, counters>>

-----------------------------------------------------------------------------
\* An edit of machines, calendars, downtime, a routing or stock, already committed.

EditPlant(p) ==
    /\ pc[p] = "edit"
    /\ plant' = plant + 1
    /\ Goto(p, "marking")
    /\ UNCHANGED <<rows, planner, basis, calls, runs, lost, overlapped, raced, locals, writes>>

\* markScheduleDirty() on the connection itself, after the commit.
MarkScheduleDirty(p) ==
    /\ pc[p] = "marking" /\ ~Waits(p)
    /\ order' = [order EXCEPT !.dirty = @ \/ Markable(order)]
    /\ End(p)
    /\ UNCHANGED <<entry, conflicts, counters>>

-----------------------------------------------------------------------------
\* runSchedule().

LockTenant(p) ==
    /\ pc[p] = "tenant" /\ ~Waits(p)
    /\ planner' = p
    /\ Goto(p, "orders")
    /\ UNCHANGED <<rows, counters, locals, writes>>

\* Mutant: the orders are loaded FOR UPDATE.
LoadOrdersForUpdate(p) ==
    /\ pc[p] = "orders"
    /\ \A q \in Sessions : wOrder[q] = Unwritten
    /\ seen' = [seen EXCEPT ![p].status = order.status, ![p].dirty = order.dirty]
    /\ basis' = [basis EXCEPT ![call[p].run] = plant]
    /\ WriteOrder(p, order)
    /\ Goto(p, "entries")
    /\ UNCHANGED <<rows, planner, plant, calls, runs, lost, overlapped, raced, call, todo, wEntry, wConflict>>

\* loadEngineInput(): plant data and orders, then entries.
LoadOrders(p) ==
    /\ pc[p] = "orders"
    /\ seen' = [seen EXCEPT ![p].status = order.status, ![p].dirty = order.dirty]
    /\ basis' = [basis EXCEPT ![call[p].run] = plant]
    /\ Goto(p, "entries")
    /\ UNCHANGED <<rows, planner, plant, calls, runs, lost, overlapped, raced, call, todo, writes>>

LoadEntries(p) ==
    /\ pc[p] = "entries"
    /\ seen' = [seen EXCEPT ![p].rows = entry]
    /\ Goto(p, "delete")
    /\ UNCHANGED <<rows, planner, counters, call, todo, writes>>

\* deleteMany: the rows that match when the statement begins ...
FindReplaced(p) ==
    /\ pc[p] = "delete"
    /\ todo' = [todo EXCEPT ![p] =
          {s \in Seqs : IsConsidered(seen[p].status) /\ IsReplaced(entry[s])}]
    /\ Goto(p, "deleting")
    /\ UNCHANGED <<rows, planner, counters, call, seen, writes>>

\* Mutant: the rows found are deleted by id.
MatchesById(e) == TRUE

\* ... are deleted one by one if they still match once they are locked.
StillMatches(e) == IsReplaced(e)

DeleteRow(p, s) ==
    /\ pc[p] = "deleting"
    /\ s \in todo[p] /\ ~EntryHeldByOther(p, s)
    /\ IF StillMatches(entry[s]) THEN WriteEntry(p, s, NoEntry) ELSE UNCHANGED wEntry
    /\ todo' = [todo EXCEPT ![p] = @ \ {s}]
    /\ UNCHANGED <<rows, planner, counters, pc, call, seen, wOrder, wConflict>>

\* The statement ends with its cascade: the conflicts that name a deleted row.
RowsDeleted(p, cascaded) ==
    /\ pc[p] = "deleting" /\ todo[p] = {}
    /\ cascaded # {} => DeletesRows(p)
    /\ \A q \in Sessions \ {p} : cascaded \cap wConflict[q].resolves = {}
    /\ wConflict' = [wConflict EXCEPT ![p].resolves = cascaded]
    /\ Goto(p, "inserting")
    /\ UNCHANGED <<rows, planner, counters, locals, wOrder, wEntry>>

\* FreshEntry, and the run that made it.
FreshRow(r) == [status |-> "QUEUED", started |-> FALSE, ended |-> FALSE,
                locked |-> FALSE, hold |-> "none", run |-> r]

\* The order is placed completely or not at all.  A row the plan needs and that is still
\* there breaks the unique index.
InsertRows(p, placed) ==
    LET plan == IF placed THEN Remaining(p) ELSE {}
        fresh == FreshRow(call[p].run)
    IN  /\ pc[p] = "inserting" /\ ~Waits(p)
        /\ IF \E s \in plan : Exists(EntriesSeen(p)[s])
           THEN End(p)
           ELSE /\ wEntry' = [wEntry EXCEPT ![p] =
                      [s \in Seqs |-> IF s \in plan THEN fresh ELSE @[s]]]
                /\ Goto(p, "reporting")
                /\ UNCHANGED <<planner, locals, wOrder, wConflict>>
        /\ UNCHANGED <<rows, counters>>

\* The run has inserted every step it had to place.
Placed(p) == \A s \in Remaining(p) : wEntry[p][s] = FreshRow(call[p].run)

\* The open conflicts of a considered order are resolved and those of the run inserted;
\* what it could not place is among them.
ReplaceConflicts(p, reported) ==
    LET considered == IsConsidered(seen[p].status)
    IN  /\ pc[p] = "reporting" /\ ~Waits(p)
        /\ Placed(p) \/ reported
        /\ wConflict' = [wConflict EXCEPT ![p] =
              [resolves |-> IF considered THEN conflicts ELSE {},
               reports  |-> IF considered /\ reported THEN {call[p].run} ELSE {}]]
        /\ Goto(p, IF considered THEN "considered" ELSE "held")
        /\ UNCHANGED <<rows, planner, counters, locals, wOrder, wEntry>>

\* The loaded order is written only if it was loaded dirty or its plan changed.
ClearConsidered(p, changed) ==
    /\ pc[p] = "considered"
    /\ IF seen[p].dirty \/ changed
       THEN ~Waits(p) /\ WriteOrder(p, [order EXCEPT !.dirty = FALSE])
       ELSE UNCHANGED wOrder
    /\ Goto(p, "held")
    /\ UNCHANGED <<rows, planner, counters, locals, wEntry, wConflict>>

ClearHeld(p) ==
    /\ pc[p] = "held" /\ ~Waits(p)
    /\ IF Clearable(OrderSeen(p))
       THEN WriteOrder(p, [OrderSeen(p) EXCEPT !.dirty = FALSE])
       ELSE UNCHANGED wOrder
    /\ Goto(p, "commit")
    /\ UNCHANGED <<rows, planner, counters, locals, wEntry, wConflict>>

-----------------------------------------------------------------------------
\* The commit of an interactive transaction, and its end without one: an error, a
\* lost connection, the transaction timeout, the database breaking a deadlock, or a
\* crash of the server.

Commit(p) ==
    /\ pc[p] = "commit"
    /\ order' = OrderSeen(p)
    /\ entry' = EntriesSeen(p)
    /\ conflicts' = (conflicts \ wConflict[p].resolves) \cup wConflict[p].reports
    /\ IF call[p].kind = "status"
       THEN /\ Goto(p, "marking")
            /\ wOrder' = [wOrder EXCEPT ![p] = Unwritten]
            /\ wEntry' = [wEntry EXCEPT ![p] = NoRows]
            /\ UNCHANGED <<planner, locals, wConflict>>
       ELSE End(p)
    /\ overlapped' = (overlapped \ {p}) \cup
          {q \in Sessions \ {p} :
              call[q] # NoCall /\ (order'.status # order.status \/ call[q].kind = "status")}
    /\ raced' = (raced \/ (call[p].kind = "floor" /\ p \in overlapped /\ order'.status # order.status))
    /\ UNCHANGED <<plant, basis, calls, runs, lost>>

Rollback(p) ==
    /\ pc[p] # "idle"
    /\ lost' = (lost \/ pc[p] = "marking")
    /\ End(p)
    /\ UNCHANGED <<rows, plant, basis, calls, runs, overlapped, raced>>

-----------------------------------------------------------------------------
FloorStep(p) ==
    \/ ReadOperation(p) \/ CheckGate(p) \/ UpdateOperation(p)
    \/ MarkLate(p) \/ RollUp(p) \/ UpdateRolledUp(p) \/ ResolveConflicts(p)
    \/ \E changed \in BOOLEAN : ReassessRisk(p, changed)

StatusStep(p) == ReadOrder(p) \/ UpdateOrder(p) \/ ReadSteps(p) \/ \E s \in Seqs : UpdateStep(p, s)

RunStep(p) ==
    \/ LockTenant(p) \/ LoadOrders(p) \/ LoadEntries(p) \/ FindReplaced(p)
    \/ \E s \in Seqs : DeleteRow(p, s)
    \/ \E cascaded \in SUBSET conflicts : RowsDeleted(p, cascaded)
    \/ \E placed \in BOOLEAN : InsertRows(p, placed)
    \/ \E reported \in BOOLEAN : ReplaceConflicts(p, reported)
    \/ \E changed \in BOOLEAN : ClearConsidered(p, changed)
    \/ ClearHeld(p)

Step(p) ==
    \/ FloorStep(p) \/ StatusStep(p) \/ RunStep(p)
    \/ EditPlant(p) \/ MarkScheduleDirty(p) \/ Commit(p)

Next ==
    \E p \in Sessions :
        \/ \E c \in Calls : Begin(p, c)
        \/ Step(p)
        \/ Rollback(p)

Spec == Init /\ [][Next]_vars

-----------------------------------------------------------------------------
(* Properties *)

Statements ==
    {"idle", "read", "gate", "operation", "late", "updated", "rolledUp",
     "resolving", "risk", "from", "order", "steps", "step", "edit", "marking",
     "tenant", "orders", "entries", "delete", "deleting", "inserting", "reporting",
     "considered", "held", "commit"}

CallsUnderWay ==
    [kind : {"floor"}, seq : Seqs, to : OperationStatuses, run : {0}]
    \cup [kind : {"status"}, seq : {0}, to : OrderStatuses, run : {0}]
    \cup [kind : {"edit"}, seq : {0}, to : {"none"}, run : {0}]
    \cup [kind : {"run"}, seq : {0}, to : {"none"}, run : 1 .. MaxRuns]

Overlays == [Seqs -> Row \cup {NoEntry, Unwritten}]
Readings == [status : OrderStatuses \cup {"none"}, dirty : BOOLEAN, rows : Overlays]
ConflictWrites == [resolves : SUBSET (1 .. MaxRuns), reports : SUBSET (1 .. MaxRuns)]

TypeOK ==
    /\ order \in OrderRow
    /\ entry \in [Seqs -> Row \cup {NoEntry}]
    /\ conflicts \in SUBSET (1 .. MaxRuns)
    /\ planner \in Sessions \cup {NoSession}
    /\ plant \in Nat /\ basis \in [0 .. MaxRuns -> Nat]
    /\ calls \in Nat /\ runs \in 0 .. MaxRuns
    /\ lost \in BOOLEAN /\ raced \in BOOLEAN
    /\ overlapped \in SUBSET Sessions
    /\ pc \in [Sessions -> Statements]
    /\ call \in [Sessions -> CallsUnderWay \cup {NoCall}]
    /\ seen \in [Sessions -> Readings]
    /\ todo \in [Sessions -> SUBSET Seqs]
    /\ wOrder \in [Sessions -> OrderRow \cup {Unwritten}]
    /\ wEntry \in [Sessions -> Overlays]
    /\ wConflict \in [Sessions -> ConflictWrites]

\* An operator's start survives a schedule run that was planned without it: the row
\* of a started operation is neither deleted nor replaced by one that is not started.
StartedWorkSurvives ==
    [][\A s \in Seqs : entry[s].started => entry'[s].started]_vars

\* Two runs never overtake each other: the board is not put back to a plan made from
\* older data than the one it shows.
PlanNeverRegresses ==
    [][\A s \in Seqs :
         /\ Exists(entry[s]) /\ Exists(entry'[s])
         /\ entry'[s].run # entry[s].run
         => basis[entry'[s].run] >= basis[entry[s].run]]_vars

\* docs/M2_SPEC.md:137: the commit of a floor transition leaves the order in the status
\* its steps ask for, unless others have changed a step or the order since its roll-up
\* read them: two operators who finish the last two steps at the same time may leave
\* the order open (rollupOrderStatus() reads without a lock).
RollUpAgrees ==
    [][\A p \in Sessions :
         /\ Commit(p) /\ call[p].kind = "floor"
         /\ EntriesSeen(p) = seen[p].rows /\ OrderSeen(p).status = seen[p].status
         => RolledUp(order'.status, StatusesOf(entry')) = order'.status]_vars

\* docs/M2_SPEC.md:138: a hold of the order holds all its steps.  A call that no commit has
\* overlapped never brings queued or running work to an order on hold.  Where one of the two
\* is a hold or a release it may: a run or a start that read the order before a hold commits
\* after it, or a run inserts rows after the hold has read the steps.
Unfrozen(o, e) ==
    o.status = "ON_HOLD" /\ \E s \in Seqs : e[s].status \in {"QUEUED", "IN_PROGRESS"}
HoldsLeakOnlyOverlapped ==
    [][\A p \in Sessions :
         Commit(p) /\ p \notin overlapped /\ Unfrozen(order', entry') => Unfrozen(order, entry)]_vars

\* Whatever interleaves with a run, a step that has no place on the board is announced
\* by the banner or a conflict, except while the markScheduleDirty() call that follows
\* a status change is still to come, if it was lost with its session, or if a roll-up has
\* changed the status of the order beside others: an operator who reopens the last step of
\* an order that was open when the request read it, and COMPLETED when its roll-up does,
\* reopens the order, and nobody marks it.
GapsAnnounced ==
    /\ IsConsidered(order.status) /\ ~order.dirty /\ conflicts = {}
    /\ \A p \in Sessions : pc[p] # "marking"
    /\ ~lost /\ ~raced
    => \A s \in Seqs : Exists(entry[s])

\* Transactions take the rows of operations, then the conflicts, then the row of the order,
\* except two: changeOrderStatus() starts with the order, and a floor transition that completes
\* the order writes it before it resolves the conflicts a run resolves first
\* (operation-status.ts:404 and 412 against run.ts:351 and 418).  Sessions that wait for each
\* other over the rows of one order have one of the two among them, the second with a run:
\* other floor transitions and runs alone never need the database to break a deadlock.
DeadlocksNeedOrderFirst ==
    \A group \in (SUBSET Sessions) \ {{}} :
        (\A p \in group : \E q \in group \ {p} : WaitsFor(p, q)) =>
            \/ \E p \in group : call[p].kind = "status"
            \/ \E p, q \in group : pc[p] = "resolving" /\ call[q].kind = "run"

-----------------------------------------------------------------------------
(* What the documents say and the code does not do: refuted by a run of its
   own. *)

\* docs/ARCHITECTURE.md section 4: "status transitions are a fixed state machine".
\* The status an order is moved from is read before its row is locked.
OrderFollowsStateMachine ==
    [][order'.status # order.status =>
         <<order.status, order'.status>> \in OrderTransitions \cup Reopens]_vars
===============================================================================
