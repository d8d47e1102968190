---------------------------- MODULE ProductionFlow ----------------------------
(***************************************************************************)
(* Orders, their operations on the shop floor and the schedule runs that   *)
(* plan them, with every request handled one after the other: each action  *)
(* below is one whole Server Action, from its permission check to its last *)
(* write, including the markScheduleDirty() call that follows the          *)
(* transaction.  FloorTransactions.tla breaks the same handlers into the   *)
(* statements of their database transactions.                              *)
(*                                                                         *)
(* Left out: planned times and machines (the engine decides WHICH steps    *)
(* get a row here, not when), quantities, risk, notifications, audit rows. *)
(***************************************************************************)
EXTENDS ScheduleRows, Naturals

CONSTANTS
    Orders,       \* order rows
    Products,     \* products an order may be for
    Seqs,         \* sequence numbers of routing steps
    Routing,      \* Routing[p]: the sequences of product p's routing
    FloorTargets, \* statuses the callers of applyOperationTransition() ask for
    Overrides     \* values they give `overridePrevious`

ASSUME SeqsAssumption == Seqs \subseteq Nat
ASSUME RoutingAssumption == Routing \in [Products -> SUBSET Seqs]
ASSUME CallerAssumption ==
    FloorTargets \subseteq OperationStatuses /\ Overrides \subseteq BOOLEAN

VARIABLES
    status,      \* Order.status, "NONE" before the order exists
    product,     \* Order.productId
    completedAt, \* Order.completedAt is set
    dirty,       \* Order.scheduleDirty
    conflict,    \* the order has an open ScheduleConflict
    entry,       \* ScheduleEntry by order and sequence
    lastRun      \* status of the latest ScheduleRun, "NONE" before the first

vars == <<status, product, completedAt, dirty, conflict, entry, lastRun>>

Init ==
    /\ status = [o \in Orders |-> "NONE"]
    /\ product \in [Orders -> Products]
    /\ completedAt = [o \in Orders |-> FALSE]
    /\ dirty = [o \in Orders |-> FALSE]
    /\ conflict = [o \in Orders |-> FALSE]
    /\ entry = [o \in Orders |-> [s \in Seqs |-> NoEntry]]
    /\ lastRun = "NONE"

IsOpen(o) == status[o] \in OpenStatuses

-----------------------------------------------------------------------------
\* Orders.

CreateOrder(o, p, role) ==
    /\ Can(role, "orders:write")
    /\ status[o] = "NONE"
    /\ status' = [status EXCEPT ![o] = "QUEUED"]
    /\ product' = [product EXCEPT ![o] = p]
    /\ dirty' = [dirty EXCEPT ![o] = TRUE]
    /\ UNCHANGED <<completedAt, conflict, entry, lastRun>>

\* An edit of an order in a terminal state reaches its notes only and marks nothing.
UpdateOrder(o, p, role) ==
    /\ Can(role, "orders:write")
    /\ IsOpen(o)
    /\ p # product[o] => IdentityEditable(status[o])
    /\ product' = [product EXCEPT ![o] = p]
    /\ dirty' = [dirty EXCEPT ![o] = TRUE]
    /\ UNCHANGED <<status, completedAt, conflict, entry, lastRun>>

ChangeOrderStatus(o, to, role) ==
    LET from == status[o]
    IN  /\ CanTransition(from, to, role)
        /\ status' = [status EXCEPT ![o] = to]
        /\ completedAt' = [completedAt EXCEPT ![o] = CompletedAtFor(from, to, @)]
        /\ entry' = [entry EXCEPT ![o] =
              [s \in Seqs |-> IF to = "ON_HOLD" THEN Held(entry[o][s])
                              ELSE IF from = "ON_HOLD" THEN Released(entry[o][s])
                              ELSE entry[o][s]]]
        /\ dirty' = [dirty EXCEPT ![o] = @ \/ to \in OpenStatuses]
        /\ UNCHANGED <<product, conflict, lastRun>>

\* Machines, calendars, downtime, routings and stock: the mutations that end in
\* markScheduleDirty(db, { all: true }).
PlantChanged ==
    /\ dirty' = [o \in Orders |-> dirty[o] \/ IsOpen(o)]
    /\ UNCHANGED <<status, product, completedAt, conflict, entry, lastRun>>

-----------------------------------------------------------------------------
\* The shop floor.

Blocking(o, s) ==
    {r \in Seqs : /\ r < s
                  /\ Exists(entry[o][r])
                  /\ entry[o][r].status \notin DoneStatuses}

\* `late`: the operation starts or ends more than 30 minutes off its plan.
ApplyOperationTransition(o, s, to, role, override, late) ==
    LET e      == entry[o][s]
        starts == to = "IN_PROGRESS" /\ e.status # "COMPLETED"
        flags  == late /\ (to = "COMPLETED" \/ (starts /\ ~e.started))
        row    == [entry[o] EXCEPT ![s] = Moved(e, to)]
        rolled == RolledUp(status[o], StatusesOf(row))
        closes == rolled = "COMPLETED" /\ status[o] # "COMPLETED"
    IN  /\ CanTransitionOperation(e.status, to, role)
        /\ status[o] \notin TerminalStatuses
        /\ status[o] = "ON_HOLD" => to = "ON_HOLD"
        /\ starts /\ Blocking(o, s) # {} => override /\ IsPlannerRole(role)
        /\ entry' = [entry EXCEPT ![o] = row]
        /\ status' = [status EXCEPT ![o] = rolled]
        /\ completedAt' = [completedAt EXCEPT ![o] =
              IF rolled = status[o] THEN @ ELSE CompletedAtFor(status[o], rolled, @)]
        /\ dirty' = [dirty EXCEPT ![o] = (@ \/ flags) /\ ~closes]
        /\ conflict' = [conflict EXCEPT ![o] = @ /\ ~closes]
        /\ UNCHANGED <<product, lastRun>>

-----------------------------------------------------------------------------
\* Schedule runs.  `E` is the table of entries as the run finds it: the current
\* one, or the one moveEntry() / unlockEntry() just committed.

\* Mutant: a run also re-plans the orders on hold.
ConsideredOpen == {o \in Orders : IsOpen(o)}

Considered == {o \in Orders : status[o] \in {"QUEUED", "IN_PROGRESS"}}

FixedSeqs(E, o) == {s \in Seqs : Exists(E[o][s]) /\ IsFixedEntry(E[o][s])}
CompletedSeqs(E, o) == {s \in FixedSeqs(E, o) : E[o][s].status \in DoneStatuses}
Remaining(E, o) == Routing[product[o]] \ (CompletedSeqs(E, o) \cup FixedSeqs(E, o))

\* The orders the engine may fail to place: one with a step left to place (no
\* active machine, no capacity in the horizon), one without any step at all.
MayFail(E) ==
    {o \in Considered : \/ Remaining(E, o) # {}
                        \/ Routing[product[o]] = {} /\ FixedSeqs(E, o) = {}}

\* Orders the engine may report a conflict on: also one on hold, for a locked entry
\* that overlaps another or lies outside working time.
MayConflict(E) ==
    Considered \cup {o \in Orders : /\ status[o] = "ON_HOLD"
                                    /\ \E s \in Seqs : E[o][s].locked}

\* The engine plans an order completely or not at all.
Planned(E, failed, o) == IF o \in Considered \ failed THEN Remaining(E, o) ELSE {}

AfterDelete(E) ==
    [o \in Orders |-> [s \in Seqs |->
        IF o \in Considered /\ IsReplaced(E[o][s]) THEN NoEntry ELSE E[o][s]]]

\* A planned step whose row is still there breaks the unique index.
Collides(E, failed) ==
    \E o \in Orders : \E s \in Planned(E, failed, o) : Exists(AfterDelete(E)[o][s])

RunCompletes(E, failed, reported) ==
    /\ ~Collides(E, failed)
    /\ entry' = [o \in Orders |-> [s \in Seqs |->
          IF s \in Planned(E, failed, o) THEN FreshEntry ELSE AfterDelete(E)[o][s]]]
    /\ conflict' = [o \in Orders |-> \/ o \in reported
                                     \/ conflict[o] /\ o \notin Considered]
    /\ dirty' = [o \in Orders |-> dirty[o] /\ ~IsOpen(o)]
    /\ lastRun' = "COMPLETED"
    /\ UNCHANGED <<status, product, completedAt>>

RunFails(E, failed) ==
    /\ Collides(E, failed)
    /\ entry' = E
    /\ lastRun' = "FAILED"
    /\ UNCHANGED <<status, product, completedAt, dirty, conflict>>

\* Mutant: an order that could not be placed is left out without a conflict.
RunOnSilently(E) ==
    \E failed \in SUBSET MayFail(E), reported \in SUBSET MayConflict(E) :
        RunCompletes(E, failed, reported) \/ RunFails(E, failed)

RunOn(E) ==
    \E failed \in SUBSET MayFail(E) :
        \/ \E more \in SUBSET MayConflict(E) : RunCompletes(E, failed, failed \cup more)
        \/ RunFails(E, failed)

RunSchedule(role) ==
    /\ Can(role, "schedule:run")
    /\ RunOn(entry)

MoveEntry(o, s, role) ==
    /\ Can(role, "schedule:move")
    /\ Exists(entry[o][s])
    /\ entry[o][s].status \notin {"IN_PROGRESS", "COMPLETED"}
    /\ RunOn([entry EXCEPT ![o][s].locked = TRUE])

UnlockEntry(o, s, role) ==
    /\ Can(role, "schedule:move")
    /\ Exists(entry[o][s])
    /\ RunOn([entry EXCEPT ![o][s].locked = FALSE])

-----------------------------------------------------------------------------
Next ==
    \/ \E o \in Orders, p \in Products, role \in Roles :
          CreateOrder(o, p, role) \/ UpdateOrder(o, p, role)
    \/ \E o \in Orders, to \in OrderStatuses, role \in Roles :
          ChangeOrderStatus(o, to, role)
    \/ PlantChanged
    \/ \E o \in Orders, s \in Seqs, to \in FloorTargets, role \in Roles,
          override \in Overrides, late \in BOOLEAN :
          ApplyOperationTransition(o, s, to, role, override, late)
    \/ \E role \in Roles : RunSchedule(role)
    \/ \E o \in Orders, s \in Seqs, role \in Roles :
          MoveEntry(o, s, role) \/ UnlockEntry(o, s, role)

Spec == Init /\ [][Next]_vars

-----------------------------------------------------------------------------
(* Properties *)

TypeOK ==
    /\ status \in [Orders -> OrderStatuses \cup {"NONE"}]
    /\ product \in [Orders -> Products]
    /\ completedAt \in [Orders -> BOOLEAN]
    /\ dirty \in [Orders -> BOOLEAN]
    /\ conflict \in [Orders -> BOOLEAN]
    /\ entry \in [Orders -> [Seqs -> Entry \cup {NoEntry}]]
    /\ lastRun \in {"NONE", "COMPLETED", "FAILED"}

\* While an order is on hold nothing of it is queued or running: no floor
\* transition, schedule run, move or unlock puts a step of it back to work.
HoldFreezesWork ==
    \A o \in Orders, s \in Seqs :
        status[o] = "ON_HOLD" => entry[o][s].status \notin {"QUEUED", "IN_PROGRESS"}

\* An order-level hold and the release that ends it are inverse: as long as an
\* order is on hold, and in the steps that put it there and take it away, each
\* operation keeps the status it has but for the hold.  An operation paused on
\* the floor before the hold is still paused after the release.
HoldPreservesWork ==
    [][\A o \in Orders, s \in Seqs :
         "ON_HOLD" \in {status[o], status'[o]} =>
             Underlying(entry'[o][s]) = Underlying(entry[o][s])]_vars

\* Work that has begun is recorded by its row: no row goes back to QUEUED (or is
\* skipped) after it was started, so isFixedEntry() and the deleteMany of a run
\* agree on it.
StartedNeverQueued ==
    \A o \in Orders, s \in Seqs :
        entry[o][s].started =>
            Underlying(entry[o][s]) \in {"IN_PROGRESS", "ON_HOLD", "COMPLETED"}

\* Started work survives re-planning: its row is never deleted, replaced or made
\* to look as if it had not begun.  A row placed by hand is deleted only after
\* it was unlocked.
FixedWorkSurvives ==
    [][\A o \in Orders, s \in Seqs :
         /\ entry[o][s].started => entry'[o][s].started
         /\ entry[o][s].locked => Exists(entry'[o][s])
                                  \/ \E role \in Roles : UnlockEntry(o, s, role)]_vars

\* The rows a run inserts never meet a row it left in place: no run ends in the
\* unique-index error of (tenantId, orderId, sequence).
RunsNeverCollide == lastRun # "FAILED"

\* completedAt and actualEndAt say when an order or an operation was completed,
\* and are empty as long as it is not.
CompletionStamps ==
    /\ \A o \in Orders : completedAt[o] <=> status[o] = "COMPLETED"
    /\ \A o \in Orders, s \in Seqs :
          entry[o][s].ended <=> entry[o][s].status = "COMPLETED"

\* A plan never has a silent gap: if a step of an order that is to be scheduled
\* has no place on the board, the board says so, by its "out of date" banner or
\* by an open conflict.
NoSilentGap ==
    \A o \in Considered :
        \/ dirty[o]
        \/ conflict[o]
        \/ \A s \in Routing[product[o]] : Exists(entry[o][s])

-----------------------------------------------------------------------------
(* What the documents say and the code does not do: refuted by a run of its
   own. *)

\* docs/M2_SPEC.md section 4: "all steps COMPLETED/SKIPPED -> COMPLETED".  The roll-up
\* looks at the rows of the order, and a run that cannot place an order has deleted
\* the rows of the steps still to come.
RollUpCoversRouting ==
    [][\A o \in Orders :
         status[o] \in {"QUEUED", "IN_PROGRESS"} /\ status'[o] = "COMPLETED" /\ entry' # entry =>
             \A s \in Routing[product[o]] : entry'[o][s].status \in DoneStatuses]_vars
===============================================================================
