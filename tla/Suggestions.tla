------------------------------ MODULE Suggestions ------------------------------
(***************************************************************************)
(* Optimization suggestions, from their generation on a page load to their *)
(* end as APPLIED, DISMISSED or STALE: src/lib/optimization/, the manual   *)
(* moves of src/lib/scheduling/move.ts they are applied with, and the rate *)
(* limit of src/lib/rate-limit.ts, statement by statement under READ       *)
(* COMMITTED.                                                              *)
(*                                                                         *)
(* Each order has one operation still to do, in one work center; its row   *)
(* on the board has an id, which a schedule run replaces.  Whether a       *)
(* perturbation pays off is left open (SchedulingEngine.tla plans).        *)
(* Completed rows are like those in progress.  A new id is one nobody      *)
(* remembers, so that a few ids are enough.                                *)
(***************************************************************************)
EXTENDS Integers, Sequences, FiniteSets

CONSTANTS
    Orders,
    Machines,
    Ids,           \* of schedule rows
    Rows,          \* of OptimizationSuggestion
    Sessions,
    NoId,
    NoEntry,
    NoMachine,
    NoRow,
    NoSession,
    InitialEntry,
    InitialPriority,
    MaxRequests,   \* bound: requests
    MaxChanges     \* bound: changes by others

Rank       == [LOW |-> 0, NORMAL |-> 1, HIGH |-> 2, URGENT |-> 3]
Priorities == DOMAIN Rank
PriorityUp == [LOW |-> "NORMAL", NORMAL |-> "HIGH", HIGH |-> "URGENT", URGENT |-> "URGENT"]

Entries == [id : Ids, machine : Machines, started : BOOLEAN, locked : BOOLEAN]
Suggestions ==
    [kind : {"REASSIGN_MACHINE"}, order : Orders, entry : Ids \cup {NoId}, to : Machines \cup {NoMachine}]
        \cup [kind : {"REPRIORITIZE"}, order : Orders, entry : {NoId}, to : Priorities]
MachineStatuses == {"ACTIVE", "INACTIVE", "MAINTENANCE"}
Statuses == {"PENDING", "APPLIED", "DISMISSED", "STALE"}
Nothing  == [kind |-> "none", entry |-> NoId]
Move     == [kind : {"REASSIGN_MACHINE"}, entry : Ids, to : Machines]

ASSUME SuggestionsAssumption ==
    /\ NoId \notin Ids
    /\ NoEntry \notin Entries
    /\ NoMachine \notin Machines \cup MachineStatuses
    /\ NoRow \notin Rows \cup Statuses
    /\ NoSession \notin Sessions
    /\ InitialEntry \in [Orders -> Entries \cup {NoEntry}]
    /\ InitialPriority \in [Orders -> Priorities]

VARIABLES
    entry,      \* ScheduleEntry rows, by order
    priority,   \* Order.priority
    machines,   \* Machine.status; NoMachine when deleted
    suggested,  \* what the rows of OptimizationSuggestion say
    status,     \* their status; NoRow before they are inserted
    rowLock,    \* the generation whose transaction has updated them
    audit,      \* AuditLog, by suggestion
    bucket,     \* the tenant's RateLimitBucket
    pc,         \* what a session does next
    row,        \* the suggestion it is about
    held,       \* what it has read of it
    outcome,    \* the status it wants to give it
    fresh,      \* the suggestions it has generated
    wanted,     \* the rows it found PENDING
    requests, changes

plant == <<entry, priority, machines>>
table == <<suggested, status, rowLock, audit>>
local == <<row, held, outcome, fresh, wanted>>
count == <<requests, changes>>
vars  == <<plant, table, bucket, pc, local, count>>

Steps == {"idle", "hit", "reset", "load", "ids", "supersede", "wait", "insert", "read", "reverify", "entry",
          "claim", "prioritise", "moveRead", "moveWrite", "run", "audit"}

Exists(o) == entry[o] # NoEntry
Active == {m \in Machines : machines[m] = "ACTIVE"}
HasId(o, id) == Exists(o) /\ entry[o].id = id
Known(id) == \E o \in Orders : HasId(o, id)

Init ==
    /\ entry = InitialEntry
    /\ priority = InitialPriority
    /\ machines = [m \in Machines |-> "ACTIVE"]
    /\ suggested = [s \in Rows |-> Nothing]
    /\ status = [s \in Rows |-> NoRow]
    /\ rowLock = [s \in Rows |-> NoSession]
    /\ audit = [s \in Rows |-> <<>>]
    /\ bucket = [count |-> 0, passed |-> FALSE]
    /\ pc = [p \in Sessions |-> "idle"]
    /\ row = [p \in Sessions |-> NoRow]
    /\ held = [p \in Sessions |-> Nothing]
    /\ outcome = [p \in Sessions |-> "PENDING"]
    /\ fresh = [p \in Sessions |-> {}]
    /\ wanted = [p \in Sessions |-> {}]
    /\ requests = 0 /\ changes = 0

-----------------------------------------------------------------------------
Goto(p, step) == pc' = [pc EXCEPT ![p] = step]

\* The request is over: answered, refused or crashed.  Locks end with the transaction.
Finished(p) ==
    /\ Goto(p, "idle")
    /\ row' = [row EXCEPT ![p] = NoRow]
    /\ held' = [held EXCEPT ![p] = Nothing]
    /\ outcome' = [outcome EXCEPT ![p] = "PENDING"]
    /\ fresh' = [fresh EXCEPT ![p] = {}]
    /\ wanted' = [wanted EXCEPT ![p] = {}]
Unlocked(p) == [s \in Rows |-> IF rowLock[s] = p THEN NoSession ELSE rowLock[s]]

Ask(p, step) ==
    /\ pc[p] = "idle"
    /\ requests < MaxRequests
    /\ requests' = requests + 1
    /\ Goto(p, step)
    /\ UNCHANGED <<plant, table, bucket, fresh, wanted, changes>>

OpenPage(p) == Ask(p, "hit") /\ UNCHANGED local

\* Apply or dismiss a suggestion that some page has shown.
Resolve(p) ==
    /\ \E s \in Rows : status[s] # NoRow /\ row' = [row EXCEPT ![p] = s]
    /\ \E target \in {"APPLIED", "DISMISSED"} : outcome' = [outcome EXCEPT ![p] = target]
    /\ Ask(p, "read")
    /\ UNCHANGED held

\* Drag an operation to a machine on the board.
Drag(p) ==
    /\ \E o \in Orders, m \in Machines :
          Exists(o) /\ held' = [held EXCEPT ![p] = [kind |-> "REASSIGN_MACHINE", entry |-> entry[o].id, to |-> m]]
    /\ Ask(p, "moveRead")
    /\ UNCHANGED <<row, outcome>>

RunSchedule(p) == Ask(p, "run") /\ UNCHANGED local

-----------------------------------------------------------------------------
(***************************************************************************)
(* Generation.  The upsert of hit() counts, a second statement begins a    *)
(* new window; the limit is one per window.                                *)
(***************************************************************************)
Counted == IF bucket.count < 2 THEN bucket.count + 1 ELSE bucket.count   \* two are as good as more

Hit(p) ==
    /\ pc[p] = "hit"
    /\ bucket' = [bucket EXCEPT !.count = Counted]
    /\ IF bucket.passed
       THEN Goto(p, "reset")
       ELSE Goto(p, IF Counted > 1 THEN "idle" ELSE "load")
    /\ UNCHANGED <<plant, table, local, count>>

Reset(p) ==
    /\ pc[p] = "reset"
    /\ bucket' = [count |-> 1, passed |-> FALSE]
    /\ Goto(p, "load")
    /\ UNCHANGED <<plant, table, local, count>>

WindowPasses ==
    /\ bucket.count > 0 /\ ~bucket.passed
    /\ bucket' = [bucket EXCEPT !.passed = TRUE]
    /\ UNCHANGED <<plant, table, pc, local, count>>

\* The step at hand may be planned anew: isFixedEntry() does not hold.
Free(o) == Exists(o) => ~entry[o].started /\ ~entry[o].locked

\* What generateSuggestions() may come up with: tryReassignMachine(), tryReprioritize().
Perturbations ==
    {[kind |-> "REASSIGN_MACHINE", order |-> o, entry |-> NoId, to |-> m] :
        o \in {u \in Orders : Free(u) /\ Cardinality(Active) >= 2}, m \in Active}
    \cup {[kind |-> "REPRIORITIZE", order |-> o, entry |-> NoId, to |-> PriorityUp[priority[o]]] :
        o \in {u \in Orders : PriorityUp[priority[u]] # priority[u]}}
Same(f, g) == f.order = g.order /\ f.kind = g.kind

\* The plant is read and the engine tries: at most one of each kind for an order.
Load(p) ==
    /\ pc[p] = "load"
    /\ \E batch \in SUBSET Perturbations :
          /\ \A f, g \in batch : Same(f, g) => f = g
          /\ fresh' = [fresh EXCEPT ![p] = batch]
    /\ Goto(p, "ids")
    /\ UNCHANGED <<plant, table, bucket, row, held, outcome, wanted, count>>

\* The rows of the operations to reassign, as they are by now.
FindEntries(p) ==
    /\ pc[p] = "ids"
    /\ fresh' = [fresh EXCEPT ![p] =
          {IF f.kind = "REASSIGN_MACHINE" /\ Exists(f.order) THEN [f EXCEPT !.entry = entry[f.order].id] ELSE f : f \in @}]
    /\ Goto(p, "supersede")
    /\ UNCHANGED <<plant, table, bucket, row, held, outcome, wanted, count>>

Pending == {s \in Rows : status[s] = "PENDING"}

\* The UPDATE finds its rows, waits for those another generation has updated, and looks at them again.
Supersede(p) ==
    /\ pc[p] = "supersede"
    /\ wanted' = [wanted EXCEPT ![p] = Pending]
    /\ Goto(p, "wait")
    /\ UNCHANGED <<plant, table, bucket, row, held, outcome, fresh, count>>

Superseded(p) == wanted[p] \cap Pending

LockPending(p) ==
    /\ pc[p] = "wait"
    /\ \A s \in wanted[p] : rowLock[s] = NoSession
    /\ rowLock' = [s \in Rows |-> IF s \in Superseded(p) THEN p ELSE rowLock[s]]
    /\ Goto(p, "insert")
    /\ UNCHANGED <<plant, suggested, status, audit, bucket, local, count>>

\* What a new suggestion refers to is still there.
Insertable(f) ==
    /\ f.entry = NoId \/ Known(f.entry)
    /\ f.kind = "REASSIGN_MACHINE" => machines[f.to] # NoMachine

\* createMany and COMMIT, or ROLLBACK.
Insert(p) ==
    /\ pc[p] = "insert"
    /\ \/ /\ \A f \in fresh[p] : Insertable(f)
          /\ \E new \in [fresh[p] -> {s \in Rows : status[s] = NoRow}] :
                /\ \A f, g \in fresh[p] : new[f] = new[g] => f = g
                /\ LET inserted == {new[f] : f \in fresh[p]}
                   IN  /\ suggested' = [s \in Rows |-> IF s \in inserted THEN CHOOSE f \in fresh[p] : new[f] = s
                                                       ELSE suggested[s]]
                       /\ status' = [s \in Rows |-> IF s \in inserted THEN "PENDING"
                                                    ELSE IF rowLock[s] = p THEN "STALE" ELSE status[s]]
       \/ /\ \E f \in fresh[p] : ~Insertable(f)
          /\ UNCHANGED <<suggested, status>>
    /\ rowLock' = Unlocked(p)
    /\ Finished(p)
    /\ UNCHANGED <<plant, audit, bucket, count>>
-----------------------------------------------------------------------------
(***************************************************************************)
(* applySuggestion(), dismissSuggestion().                                 *)
(***************************************************************************)
\* A suggestion that is no longer pending is refused.
Read(p) ==
    /\ pc[p] = "read"
    /\ IF status[row[p]] = "PENDING"
       THEN /\ held' = [held EXCEPT ![p] = suggested[row[p]]]
            /\ Goto(p, IF outcome[p] = "APPLIED" THEN "reverify" ELSE "claim")
            /\ UNCHANGED <<row, outcome, fresh, wanted>>
       ELSE Finished(p)
    /\ UNCHANGED <<plant, table, bucket, count>>

\* markStale() claims like the others do.
Stale(p) == outcome' = [outcome EXCEPT ![p] = "STALE"] /\ Goto(p, "claim")

\* Valid when the engine comes up with a suggestion of that kind for that order.
Reverify(p) ==
    /\ pc[p] = "reverify"
    /\ \/ Stale(p)
       \/ /\ \E f \in Perturbations : Same(f, held[p])
          /\ IF held[p].kind = "REPRIORITIZE"
             THEN Goto(p, "claim") /\ UNCHANGED outcome
             ELSE IF held[p].entry = NoId \/ held[p].to = NoMachine
             THEN Stale(p)
             ELSE Goto(p, "entry") /\ UNCHANGED outcome
    /\ UNCHANGED <<plant, table, bucket, row, held, fresh, wanted, count>>

FindEntry(p) ==
    /\ pc[p] = "entry"
    /\ IF Known(held[p].entry) THEN Goto(p, "claim") /\ UNCHANGED outcome ELSE Stale(p)
    /\ UNCHANGED <<plant, table, bucket, row, held, fresh, wanted, count>>

\* Mutant: the claim does not look at the status.
ClaimableAnyway(s) == TRUE

Claimable(s) == status[s] = "PENDING"

\* Mutants: the loser of a claim goes on; the loser of a claim for STALE writes its audit row.
AfterClaimAnyway(p, claimed) ==
    IF outcome[p] # "APPLIED" THEN "audit"
    ELSE IF held[p].kind = "REPRIORITIZE" THEN "prioritise" ELSE "moveRead"
AfterClaimAudited(p, claimed) ==
    IF outcome[p] = "STALE" THEN "audit"
    ELSE IF ~claimed THEN "idle"
    ELSE IF outcome[p] # "APPLIED" THEN "audit"
    ELSE IF held[p].kind = "REPRIORITIZE" THEN "prioritise" ELSE "moveRead"

AfterClaim(p, claimed) ==
    IF ~claimed THEN "idle"
    ELSE IF outcome[p] # "APPLIED" THEN "audit"
    ELSE IF held[p].kind = "REPRIORITIZE" THEN "prioritise" ELSE "moveRead"

\* claimStatus(): one conditional UPDATE, which waits for a generation that has updated the row.
Claim(p) ==
    /\ pc[p] = "claim"
    /\ rowLock[row[p]] = NoSession
    /\ LET claimed == Claimable(row[p])
           next    == AfterClaim(p, claimed)
       IN  /\ status' = IF claimed THEN [status EXCEPT ![row[p]] = outcome[p]] ELSE status
           /\ IF next = "idle" THEN Finished(p) ELSE Goto(p, next) /\ UNCHANGED local
    /\ UNCHANGED <<plant, suggested, rowLock, audit, bucket, count>>

Prioritise(p) ==
    /\ pc[p] = "prioritise"
    /\ priority' = [priority EXCEPT ![held[p].order] = held[p].to]
    /\ Goto(p, "run")
    /\ UNCHANGED <<entry, machines, table, bucket, local, count>>

\* The audit row, and for APPLIED the notification; the last statement of each request.
RecordOutcome(p) ==
    /\ pc[p] = "audit"
    /\ audit' = [audit EXCEPT ![row[p]] = Append(@, outcome[p])]
    /\ Finished(p)
    /\ UNCHANGED <<plant, suggested, status, rowLock, bucket, count>>

-----------------------------------------------------------------------------
(***************************************************************************)
(* moveEntry() and runSchedule(), on their own or for a suggestion.        *)
(***************************************************************************)
Refused(p) == Finished(p) /\ UNCHANGED plant

\* validateMove()
Movable(p) ==
    /\ held[p].to \in Active
    /\ \E o \in Orders : HasId(o, held[p].entry) /\ ~entry[o].started

MoveRead(p) ==
    /\ pc[p] = "moveRead"
    /\ IF Movable(p) THEN Goto(p, "moveWrite") /\ UNCHANGED <<plant, local>> ELSE Refused(p)
    /\ UNCHANGED <<table, bucket, count>>

\* By id, whatever has become of the row, to a machine that must still be there.
MoveWrite(p) ==
    /\ pc[p] = "moveWrite"
    /\ \/ \E o \in Orders :
             /\ HasId(o, held[p].entry)
             /\ machines[held[p].to] # NoMachine
             /\ entry' = [entry EXCEPT ![o].machine = held[p].to, ![o].locked = TRUE]
             /\ Goto(p, "run")
             /\ UNCHANGED <<priority, machines, local>>
       \/ (~Known(held[p].entry) \/ machines[held[p].to] = NoMachine) /\ Refused(p)
    /\ UNCHANGED <<table, bucket, count>>

Remembered ==
    {entry[o].id : o \in {u \in Orders : Exists(u)}}
        \cup {suggested[s].entry : s \in Rows} \cup {held[p].entry : p \in Sessions}
        \cup UNION {{f.entry : f \in fresh[p]} : p \in Sessions}

NewEntries == [id : Ids \ Remembered, machine : Active, started : {FALSE}, locked : {FALSE}]

\* What a run may leave: rows that are not fixed are deleted, planned anew or not, and suggestions
\* about them lose their entry (SetNull).
Planned(new) ==
    /\ \A o \in Orders : ~Free(o) => new[o] = entry[o]
    /\ \A o, u \in Orders : o # u /\ new[o] # NoEntry /\ new[u] # NoEntry => new[o].id # new[u].id
Unlinked(new) ==
    [s \in Rows |-> IF suggested[s].entry # NoId /\ ~\E o \in Orders : new[o] # NoEntry /\ new[o].id = suggested[s].entry
                    THEN [suggested[s] EXCEPT !.entry = NoId] ELSE suggested[s]]

\* In one step: runs of a tenant exclude each other (FloorTransactions.tla has their statements),
\* and wait for the suggestions a generation has updated.
Run(p) ==
    /\ pc[p] = "run"
    /\ \E new \in [Orders -> NewEntries \cup Entries \cup {NoEntry}] :
          /\ \A o \in Orders : Free(o) => new[o] \in NewEntries \cup {NoEntry}
          /\ Planned(new)
          /\ \A s \in Rows : Unlinked(new)[s] # suggested[s] => rowLock[s] = NoSession
          /\ entry' = new
          /\ suggested' = Unlinked(new)
    /\ IF outcome[p] = "APPLIED" THEN Goto(p, "audit") /\ UNCHANGED local ELSE Finished(p)
    /\ UNCHANGED <<priority, machines, status, rowLock, audit, bucket, count>>

\* An error, a deadlock, a timeout or a crash at any statement.
Abort(p) ==
    /\ pc[p] # "idle"
    /\ Finished(p)
    /\ rowLock' = Unlocked(p)
    /\ UNCHANGED <<plant, suggested, status, audit, bucket, count>>

-----------------------------------------------------------------------------
(***************************************************************************)
(* What others do to the plant.                                            *)
(***************************************************************************)
Change == changes < MaxChanges /\ changes' = changes + 1 /\ UNCHANGED <<status, rowLock, audit, bucket, pc, local, requests>>

\* updateOrder()
EditPriority(o) ==
    /\ Change
    /\ \E to \in Priorities : priority' = [priority EXCEPT ![o] = to]
    /\ UNCHANGED <<entry, machines, suggested>>

\* applyOperationTransition()
StartOperation(o) ==
    /\ Change
    /\ Exists(o)
    /\ entry' = [entry EXCEPT ![o].started = TRUE]
    /\ UNCHANGED <<priority, machines, suggested>>

SetMachineStatus(m) ==
    /\ Change
    /\ machines[m] # NoMachine
    /\ \E to \in MachineStatuses : machines' = [machines EXCEPT ![m] = to]
    /\ UNCHANGED <<entry, priority, suggested>>

\* What a suggestion says once a machine it names is gone (SetNull).
WithoutMachine(f, m) == IF f.kind = "REASSIGN_MACHINE" /\ f.to = m THEN [f EXCEPT !.to = NoMachine] ELSE f

\* deleteMachine(): rows on the board hold the machine (NoAction), suggestions let it go.
DeleteMachine(m) ==
    /\ Change
    /\ machines[m] # NoMachine
    /\ \A o \in Orders : Exists(o) => entry[o].machine # m
    /\ \A s \in Rows : WithoutMachine(suggested[s], m) # suggested[s] => rowLock[s] = NoSession
    /\ machines' = [machines EXCEPT ![m] = NoMachine]
    /\ suggested' = [s \in Rows |-> WithoutMachine(suggested[s], m)]
    /\ UNCHANGED <<entry, priority>>

Serve(p) ==
    \/ Hit(p) \/ Reset(p) \/ Load(p) \/ FindEntries(p) \/ Supersede(p) \/ LockPending(p) \/ Insert(p)
    \/ Read(p) \/ Reverify(p) \/ FindEntry(p) \/ Claim(p) \/ Prioritise(p) \/ RecordOutcome(p)
    \/ MoveRead(p) \/ MoveWrite(p) \/ Run(p)

Next ==
    \/ \E p \in Sessions :
          OpenPage(p) \/ Resolve(p) \/ Drag(p) \/ RunSchedule(p) \/ Serve(p) \/ Abort(p)
    \/ \E o \in Orders : EditPriority(o) \/ StartOperation(o)
    \/ \E m \in Machines : SetMachineStatus(m) \/ DeleteMachine(m)
    \/ WindowPasses

Spec == Init /\ [][Next]_vars

-----------------------------------------------------------------------------
(***************************************************************************)
(* Properties.                                                             *)
(***************************************************************************)
\* Types of the rows and of the sessions' variables.
TypeOK ==
    /\ entry \in [Orders -> Entries \cup {NoEntry}]
    /\ priority \in [Orders -> Priorities]
    /\ machines \in [Machines -> MachineStatuses \cup {NoMachine}]
    /\ suggested \in [Rows -> Suggestions \cup {Nothing}]
    /\ status \in [Rows -> Statuses \cup {NoRow}]
    /\ rowLock \in [Rows -> Sessions \cup {NoSession}]
    /\ audit \in [Rows -> Seq(Statuses)]
    /\ bucket \in [count : 0 .. 2, passed : BOOLEAN]
    /\ pc \in [Sessions -> Steps]
    /\ row \in [Sessions -> Rows \cup {NoRow}]
    /\ held \in [Sessions -> Suggestions \cup Move \cup {Nothing}]
    /\ outcome \in [Sessions -> Statuses]
    /\ fresh \in [Sessions -> SUBSET Suggestions]
    /\ wanted \in [Sessions -> SUBSET Rows]

\* A suggestion that has been applied, dismissed, replaced or found stale
\* stays so, whatever else was under way with it (claimStatus() and the
\* updateMany() of generateAndPersistSuggestions()).
ResolvedOnce ==
    [][\A s \in Rows : status[s] \notin {NoRow, "PENDING"} => status'[s] = status[s]]_vars

\* Whoever changes the plan for a suggestion has claimed it, alone, and it
\* is APPLIED by then (apply.ts:102-108).
Applying(p) == outcome[p] = "APPLIED" /\ pc[p] \in {"prioritise", "moveRead", "moveWrite", "run", "audit"}
EffectsByWinners ==
    \A p \in Sessions : Applying(p) =>
        /\ status[row[p]] = "APPLIED"
        /\ \A q \in Sessions : Applying(q) /\ row[q] = row[p] => q = p

\* The audit trail has one entry about the end of a suggestion at most, and
\* it is the status the suggestion has (apply.ts:49, 170-175).
AuditTellsOutcome ==
    \A s \in Rows : audit[s] = <<>> \/ audit[s] = <<status[s]>>

\* optimization/apply.ts:130, "priority raised to": applying a suggestion
\* never takes a priority down.
PriorityOnlyRaised ==
    [][\A p \in Sessions : Prioritise(p) => Rank[priority'[held[p].order]] >= Rank[priority[held[p].order]]]_vars
=============================================================================
