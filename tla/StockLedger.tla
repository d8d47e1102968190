----------------------------- MODULE StockLedger -----------------------------
(***************************************************************************)
(* Stock movements (src/lib/stock.ts) and the material master they run     *)
(* beside (src/lib/materials/service.ts), statement by statement: every    *)
(* request is a database transaction of its own under READ COMMITTED.  A   *)
(* statement reads what is committed; an UPDATE or DELETE waits for the    *)
(* row's lock and sees the row as it is once it has the lock; the          *)
(* transaction keeps the lock and hides its own writes until it commits.   *)
(*                                                                         *)
(* Quantities are Decimal(14,3), here whole numbers of their smallest unit *)
(* (round3 makes every delta one); MaxStock is the largest value of the    *)
(* column.  The server action's markScheduleDirty() call after the commit  *)
(* is PlantChanged of ProductionFlow.tla.  Left out: codes, units,         *)
(* reorder data, audit rows, BOM references (they only forbid a delete).   *)
(***************************************************************************)
EXTENDS StatusRules, Integers, Sequences

CONSTANTS
    Materials,   \* material rows
    Sessions,    \* requests served at the same time
    NoSession,   \* nobody
    Amounts,     \* the numbers users type into the movement dialog
    MaxStock,    \* the largest stockOnHand the column holds
    MaxMovements \* bound: movements are asked for while the ledger is shorter

ASSUME SessionsAssumption == NoSession \notin Sessions
ASSUME AmountsAssumption == Amounts \subseteq Nat /\ MaxStock \in Nat /\ MaxMovements \in Nat

VARIABLES
    state,   \* "new" (no row yet), "present" or "deleted"
    active,  \* Material.isActive
    stock,   \* Material.stockOnHand, committed
    ledger,  \* StockMovement rows, committed
    lock,    \* the session whose transaction holds the lock of the row
    pc,      \* what a session has done of its transaction
    request, \* the movement it was asked for
    seen,    \* the stockOnHand it read
    balance  \* the stockOnHand it wrote, not yet committed

vars == <<state, active, stock, ledger, lock, pc, request, seen, balance>>

\* What the ledger promises, in terms of the committed rows.
Book == INSTANCE StockBook
            WITH gone <- {m \in Materials : state[m] = "deleted"}, Deltas <- -MaxStock .. MaxStock

\* StockMovementRequest: `amount` is the quantity, or the counted stock of an ADJUSTMENT.
Requests == [material : Materials, type : Book!MovementTypes, amount : Amounts]

NoRequest == [material |-> "none", type |-> "none", amount |-> 0]

Init ==
    /\ state = [m \in Materials |-> "new"]
    /\ active = [m \in Materials |-> FALSE]
    /\ stock = [m \in Materials |-> 0]
    /\ ledger = [m \in Materials |-> <<>>]
    /\ lock = [m \in Materials |-> NoSession]
    /\ pc = [p \in Sessions |-> "idle"]
    /\ request = [p \in Sessions |-> NoRequest]
    /\ seen = [p \in Sessions |-> 0]
    /\ balance = [p \in Sessions |-> 0]

-----------------------------------------------------------------------------
\* Helpers.  `p` is a session, `m` its material.

Material(p) == request[p].material

PermissionForMovement(type) == IF type = "ADJUSTMENT" THEN "stock:adjust" ELSE "stock:move"

MovementDelta(r, current) ==
    CASE r.type \in {"RECEIPT", "RETURN"} -> r.amount
      [] r.type = "ISSUE"                 -> -r.amount
      [] r.type = "ADJUSTMENT"            -> r.amount - current

Delta(p) == MovementDelta(request[p], seen[p])

\* Mutants: the guard looks at the balance that was read; the UPDATE writes a balance
\* computed from the one that was read.
CoveredWhenRead(p) == Delta(p) < 0 => seen[p] >= -Delta(p)
NewBalanceFromRead(p) == seen[p] + Delta(p)

\* The WHERE of the UPDATE beyond the key, and what its increment leaves.
Covered(p) == Delta(p) < 0 => stock[Material(p)] >= -Delta(p)
NewBalance(p) == stock[Material(p)] + Delta(p)

\* Mutant: the movement row carries the balance expected from the read.
MovementAsRead(p) ==
    [type |-> request[p].type, quantity |-> Delta(p), balanceAfter |-> seen[p] + Delta(p)]

Movement(p) ==
    [type |-> request[p].type, quantity |-> Delta(p), balanceAfter |-> balance[p]]

\* Mutant: an abandoned transaction keeps its lock.
LockKept(p) == lock

LockReleased(p) == [m \in Materials |-> IF lock[m] = p THEN NoSession ELSE lock[m]]

\* The end of a transaction, committed or not.
Finish(p) ==
    /\ pc' = [pc EXCEPT ![p] = "idle"]
    /\ request' = [request EXCEPT ![p] = NoRequest]
    /\ seen' = [seen EXCEPT ![p] = 0]
    /\ balance' = [balance EXCEPT ![p] = 0]
    /\ lock' = LockReleased(p)

-----------------------------------------------------------------------------
\* The material master.

CreateMaterial(m, isActive, role) ==
    /\ Can(role, "materials:write")
    /\ state[m] = "new"
    /\ state' = [state EXCEPT ![m] = "present"]
    /\ active' = [active EXCEPT ![m] = isActive]
    /\ UNCHANGED <<stock, ledger, lock, pc, request, seen, balance>>

\* setMaterialActive(), and updateMaterial() as far as it writes isActive.
SetMaterialActive(m, isActive, role) ==
    /\ Can(role, "materials:write")
    /\ state[m] = "present"
    /\ lock[m] = NoSession
    /\ active' = [active EXCEPT ![m] = isActive]
    /\ UNCHANGED <<state, stock, ledger, lock, pc, request, seen, balance>>

\* deleteMaterial() up to its check that no movement refers to the material.
CheckReferences(p, m, role) ==
    /\ Can(role, "materials:write")
    /\ pc[p] = "idle"
    /\ state[m] = "present"
    /\ ledger[m] = <<>>
    /\ pc' = [pc EXCEPT ![p] = "deleting"]
    /\ request' = [request EXCEPT ![p].material = m]
    /\ UNCHANGED <<state, active, stock, ledger, lock, seen, balance>>

\* Mutant: without the NoAction foreign key of StockMovement.
DeletableByCheckAlone(m) == state[m] = "present"

\* The DELETE finds the row, and the foreign key has nothing against it.
Deletable(m) == state[m] = "present" /\ ledger[m] = <<>>

\* The DELETE and the commit; nothing can come between them, for the row is locked.
DeleteMaterial(p) ==
    LET m == Material(p)
    IN  /\ pc[p] = "deleting"
        /\ lock[m] = NoSession
        /\ state' = [state EXCEPT ![m] = IF Deletable(m) THEN "deleted" ELSE @]
        /\ Finish(p)
        /\ UNCHANGED <<active, stock, ledger>>

-----------------------------------------------------------------------------
\* applyStockMovement(), in the transaction of recordStockMovement().

\* The permission and the shape of the request: before the first statement.
RecordStockMovement(p, r, role) ==
    /\ pc[p] = "idle"
    /\ Can(role, PermissionForMovement(r.type))
    /\ r.type # "ADJUSTMENT" => r.amount > 0
    /\ state[r.material] # "new"
    /\ Len(ledger[r.material]) < MaxMovements
    /\ pc' = [pc EXCEPT ![p] = "requested"]
    /\ request' = [request EXCEPT ![p] = r]
    /\ UNCHANGED <<state, active, stock, ledger, lock, seen, balance>>

ReadMaterial(p) ==
    LET m == Material(p)
    IN  /\ pc[p] = "requested"
        /\ IF state[m] = "present" /\ active[m]
           THEN /\ pc' = [pc EXCEPT ![p] = "read"]
                /\ seen' = [seen EXCEPT ![p] = stock[m]]
                /\ UNCHANGED <<lock, request, balance>>
           ELSE Finish(p)
        /\ UNCHANGED <<state, active, stock, ledger>>

\* The one conditional UPDATE.  No row (gone, or not covered) or a balance beyond the
\* column's precision ends the transaction.
UpdateStock(p) ==
    LET m == Material(p)
    IN  /\ pc[p] = "read"
        /\ lock[m] = NoSession
        /\ IF state[m] = "present" /\ Covered(p) /\ NewBalance(p) <= MaxStock
           THEN /\ pc' = [pc EXCEPT ![p] = "updated"]
                /\ balance' = [balance EXCEPT ![p] = NewBalance(p)]
                /\ lock' = [lock EXCEPT ![m] = p]
                /\ UNCHANGED <<request, seen>>
           ELSE Finish(p)
        /\ UNCHANGED <<state, active, stock, ledger>>

\* The movement row, its audit row and the commit.
Commit(p) ==
    LET m == Material(p)
    IN  /\ pc[p] = "updated"
        /\ stock' = [stock EXCEPT ![m] = balance[p]]
        /\ ledger' = [ledger EXCEPT ![m] = Append(@, Movement(p))]
        /\ Finish(p)
        /\ UNCHANGED <<state, active>>

\* A lost connection, the transaction timeout or a crash of the server.
Rollback(p) ==
    /\ pc[p] # "idle"
    /\ Finish(p)
    /\ UNCHANGED <<state, active, stock, ledger>>

-----------------------------------------------------------------------------
Next ==
    \/ \E m \in Materials, isActive \in BOOLEAN, role \in Roles :
          CreateMaterial(m, isActive, role) \/ SetMaterialActive(m, isActive, role)
    \/ \E p \in Sessions, m \in Materials, role \in Roles : CheckReferences(p, m, role)
    \/ \E p \in Sessions, r \in Requests, role \in Roles : RecordStockMovement(p, r, role)
    \/ \E p \in Sessions :
          DeleteMaterial(p) \/ ReadMaterial(p) \/ UpdateStock(p) \/ Commit(p) \/ Rollback(p)

Spec == Init /\ [][Next]_vars

\* A session goes on with its transaction.  The waiters of a row lock queue up, so one
\* that can take the lock again and again does get it.
Fairness ==
    \A p \in Sessions :
        /\ WF_vars(ReadMaterial(p)) /\ WF_vars(Commit(p))
        /\ SF_vars(UpdateStock(p)) /\ SF_vars(DeleteMaterial(p))

FairSpec == Spec /\ Fairness

-----------------------------------------------------------------------------
(* Properties *)

TypeOK ==
    /\ state \in [Materials -> {"new", "present", "deleted"}]
    /\ active \in [Materials -> BOOLEAN]
    /\ stock \in [Materials -> Int]
    /\ ledger \in [Materials -> Seq(Book!Movements)]
    /\ \A m \in Materials : \A i \in DOMAIN ledger[m] :
          Book!SignFits(ledger[m][i].type, ledger[m][i].quantity)
    /\ lock \in [Materials -> Sessions \cup {NoSession}]
    /\ pc \in [Sessions -> {"idle", "requested", "read", "updated", "deleting"}]
    /\ request \in [Sessions -> [material : Materials \cup {"none"},
                                 type : Book!MovementTypes \cup {"none"}, amount : Nat]]
    /\ seen \in [Sessions -> Int]
    /\ balance \in [Sessions -> Int]

\* The transactions together behave like a ledger that is written one movement at a
\* time: the commit of a movement is a Post of StockBook, a DELETE is its Delete, and
\* every other statement changes nothing anybody can see.
ImplementsBook == Book!Spec

\* Two issues of the same stock never both succeed when it covers only one of them.
StockNeverNegative == \A m \in Materials : stock[m] >= 0

\* Each movement carries the balance it really left, whatever committed between its
\* read and its update, so the ledger adds up to the stock on hand.
LedgerExplainsStock == Book!LedgerExplainsStock

\* A movement that commits between the reference check of a delete and the DELETE
\* keeps the material.
HistoryKept == Book!HistoryKept

\* Every request comes to an end: no lock outlives its transaction.
MovementsFinish == \A p \in Sessions : pc[p] # "idle" ~> pc[p] = "idle"
===============================================================================
