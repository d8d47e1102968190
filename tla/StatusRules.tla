----------------------------- MODULE StatusRules -----------------------------
(***************************************************************************)
(* The two status machines of ProdPlan and the roles that may drive them:  *)
(* orders (src/lib/orders/status.ts) and the operations of an order on the *)
(* shop floor (src/lib/scheduling/operation-status.ts).  Constant-level:   *)
(* every module about orders and schedule entries extends this one.        *)
(***************************************************************************)

Roles == {"ADMIN", "PLANNER", "SUPERVISOR", "VIEWER"}

\* The permissions the modelled handlers ask for.
Permissions == {"orders:write", "orders:status", "orders:cancel",
                "schedule:run", "schedule:move", "operations:status",
                "materials:write", "stock:move", "stock:adjust"}

Matrix == [ADMIN      |-> Permissions,
           PLANNER    |-> Permissions,
           SUPERVISOR |-> {"orders:status", "operations:status", "stock:move"},
           VIEWER     |-> {}]

Can(role, permission) == permission \in Matrix[role]

-----------------------------------------------------------------------------
\* Orders.

OpenStatuses == {"QUEUED", "IN_PROGRESS", "ON_HOLD"}
TerminalStatuses == {"COMPLETED", "CANCELLED"}
OrderStatuses == OpenStatuses \cup TerminalStatuses

OrderTransitions ==
    ({"QUEUED"}      \X {"IN_PROGRESS", "ON_HOLD", "CANCELLED"}) \cup
    ({"IN_PROGRESS"} \X {"ON_HOLD", "COMPLETED", "CANCELLED"})   \cup
    ({"ON_HOLD"}     \X {"QUEUED", "IN_PROGRESS", "CANCELLED"})

Reopens == {<<"COMPLETED", "IN_PROGRESS">>, <<"CANCELLED", "QUEUED">>}

CanTransition(from, to, role) ==
    \/ /\ <<from, to>> \in Reopens
       /\ role = "ADMIN"
    \/ /\ <<from, to>> \in OrderTransitions
       /\ Can(role, IF to = "CANCELLED" THEN "orders:cancel" ELSE "orders:status")

\* Mutant: a reopened order keeps its completedAt.
CompletedAtKept(from, to, stamped) == to = "COMPLETED" \/ stamped

\* Whether completedAt is set after a transition of an order where it was `stamped`.
CompletedAtFor(from, to, stamped) ==
    \/ to = "COMPLETED"
    \/ stamped /\ <<from, to>> \notin Reopens

\* Customer, product and order number may be edited.
IdentityEditable(status) == status = "QUEUED"

-----------------------------------------------------------------------------
\* Operations of an order (ScheduleEntry.status).

OperationStatuses == {"QUEUED", "IN_PROGRESS", "ON_HOLD", "COMPLETED", "SKIPPED"}
DoneStatuses == {"COMPLETED", "SKIPPED"}

OperationTransitions ==
    ({"QUEUED"}      \X {"IN_PROGRESS", "ON_HOLD", "SKIPPED"}) \cup
    ({"IN_PROGRESS"} \X {"ON_HOLD", "COMPLETED"})              \cup
    ({"ON_HOLD"}     \X {"QUEUED", "IN_PROGRESS"})             \cup
    {<<"COMPLETED", "IN_PROGRESS">>, <<"SKIPPED", "QUEUED">>}

PlannerOnly == {<<"QUEUED", "SKIPPED">>, <<"COMPLETED", "IN_PROGRESS">>,
                <<"SKIPPED", "QUEUED">>}

IsPlannerRole(role) == role \in {"ADMIN", "PLANNER"}

CanTransitionOperation(from, to, role) ==
    /\ <<from, to>> \in OperationTransitions
    /\ Can(role, "operations:status")
    /\ <<from, to>> \in PlannerOnly => IsPlannerRole(role)

\* The order status a set of operation statuses rolls up to ("none": leave it alone).
RollupTarget(steps) ==
    IF "IN_PROGRESS" \in steps THEN "IN_PROGRESS"
    ELSE IF steps # {} /\ steps \subseteq DoneStatuses THEN "COMPLETED"
    ELSE "none"

\* What the roll-up makes of an order in `status` whose operations have the
\* statuses `steps`: the system acts with the rights of an ADMIN.
RolledUp(status, steps) ==
    LET target == RollupTarget(steps)
    IN  IF /\ status \notin {"ON_HOLD", "CANCELLED"}
           /\ target # "none"
           /\ CanTransition(status, target, "ADMIN")
        THEN target ELSE status
=============================================================================
