----------------------------- MODULE ScheduleRows -----------------------------
(***************************************************************************)
(* One row of the ScheduleEntry table (prisma/schema.prisma), as far as    *)
(* the handlers look at it, and what each handler makes of a row.          *)
(*                                                                         *)
(*   started, ended   actualStartAt, actualEndAt are set                   *)
(*   locked           placed by hand (moveEntry)                           *)
(*   hold             holdReason: "none" (null), "paused" (the reason a    *)
(*                    person gave) or the status an order-level hold took  *)
(*                    the operation from (the JSON of encodeHeldFrom, which *)
(*                    holdOrder writes for QUEUED and IN_PROGRESS rows)    *)
(*                                                                         *)
(* The table is unique in (tenantId, orderId, sequence), so it is a        *)
(* function of order and sequence whose value NoEntry is an absent row.    *)
(***************************************************************************)
EXTENDS StatusRules

HoldReasons == {"none", "paused", "QUEUED", "IN_PROGRESS"}

Entry == [status : OperationStatuses, started : BOOLEAN, ended : BOOLEAN,
          locked : BOOLEAN, hold : HoldReasons]

NoEntry == [status |-> "NONE", started |-> FALSE, ended |-> FALSE,
            locked |-> FALSE, hold |-> "none"]

Exists(e) == e.status # "NONE"

\* The row a schedule run creates.
FreshEntry == [status |-> "QUEUED", started |-> FALSE, ended |-> FALSE,
               locked |-> FALSE, hold |-> "none"]

\* Mutant: an operation paused after its start may be moved like any other.
IsFixedUnlessPaused(e) == e.locked \/ e.status \in {"IN_PROGRESS", "COMPLETED"}

\* Mutant: the deleteMany without its actualStartAt condition.
IsReplacedThoughStarted(e) == e.status \in {"QUEUED", "ON_HOLD"} /\ ~e.locked

\* What the engine must not move, and what a run deletes first.  The two are
\* written in two places of run.ts and are not each other's complement.
IsFixedEntry(e) ==
    \/ e.locked
    \/ e.status \in {"IN_PROGRESS", "COMPLETED"}
    \/ e.status = "ON_HOLD" /\ e.started

IsReplaced(e) ==
    /\ e.status \in {"QUEUED", "ON_HOLD"}
    /\ ~e.locked
    /\ ~e.started

\* The row after applyOperationTransition() wrote status `to`.
Moved(e, to) ==
    LET starts   == to = "IN_PROGRESS" /\ e.status # "COMPLETED"
        reopens  == to = "IN_PROGRESS" /\ e.status = "COMPLETED"
    IN  [e EXCEPT !.status  = to,
                  !.started = @ \/ starts \/ to = "COMPLETED",
                  !.ended   = (@ \/ to = "COMPLETED") /\ ~reopens,
                  !.hold    = IF to = "ON_HOLD" THEN "paused"
                              ELSE IF starts \/ to = "QUEUED" THEN "none" ELSE @]

\* Mutants: the hold forgets what was running; the release puts every held row back in
\* the queue.
HeldAsQueued(e) ==
    IF e.status \in {"QUEUED", "IN_PROGRESS"}
    THEN [e EXCEPT !.status = "ON_HOLD", !.hold = "QUEUED"] ELSE e

ReleasedToQueue(e) ==
    IF e.status = "ON_HOLD" /\ e.hold \in OperationStatuses
    THEN [e EXCEPT !.status = "QUEUED", !.hold = "none"] ELSE e

\* The row after an order-level hold, and after the release of one.
Held(e) ==
    IF e.status \in {"QUEUED", "IN_PROGRESS"}
    THEN [e EXCEPT !.status = "ON_HOLD", !.hold = e.status] ELSE e

Released(e) ==
    IF e.status = "ON_HOLD" /\ e.hold \in OperationStatuses
    THEN [e EXCEPT !.status = e.hold, !.hold = "none"] ELSE e

\* The status an operation has but for an order-level hold.
Underlying(e) ==
    IF e.status = "ON_HOLD" /\ e.hold \in OperationStatuses THEN e.hold ELSE e.status

StatusesOf(row) == {row[s].status : s \in {x \in DOMAIN row : Exists(row[x])}}
===============================================================================
