------------------------------ MODULE StockBook ------------------------------
(***************************************************************************)
(* What the stock ledger promises (src/lib/stock.ts, file header): stock   *)
(* on hand changes only by movements, one at a time, each of them entered  *)
(* with the balance it leaves; no balance is negative; and a material that *)
(* has movements is never deleted.  StockLedger.tla implements this with   *)
(* concurrent database transactions.                                       *)
(***************************************************************************)
EXTENDS Integers, Sequences

CONSTANTS
    Materials, \* material rows
    Deltas     \* signed quantities a movement may have

MovementTypes == {"RECEIPT", "ISSUE", "RETURN", "ADJUSTMENT"}

\* A ledger entry: quantity is the signed delta.
Movements == [type : MovementTypes, quantity : Int, balanceAfter : Int]

SignFits(type, quantity) ==
    /\ type \in {"RECEIPT", "RETURN"} => quantity > 0
    /\ type = "ISSUE" => quantity < 0

VARIABLES
    stock,  \* Material.stockOnHand
    ledger, \* the StockMovement rows of a material, oldest first
    gone    \* materials that were deleted

bookVars == <<stock, ledger, gone>>

Init ==
    /\ stock = [m \in Materials |-> 0]
    /\ ledger = [m \in Materials |-> <<>>]
    /\ gone = {}

Post(m, type, quantity) ==
    LET left == stock[m] + quantity
    IN  /\ m \notin gone
        /\ SignFits(type, quantity)
        /\ left >= 0
        /\ stock' = [stock EXCEPT ![m] = left]
        /\ ledger' = [ledger EXCEPT ![m] = Append(@,
              [type |-> type, quantity |-> quantity, balanceAfter |-> left])]
        /\ UNCHANGED gone

Delete(m) ==
    /\ ledger[m] = <<>>
    /\ gone' = gone \cup {m}
    /\ UNCHANGED <<stock, ledger>>

Next ==
    \E m \in Materials :
        \/ \E type \in MovementTypes, quantity \in Deltas : Post(m, type, quantity)
        \/ Delete(m)

Spec == Init /\ [][Next]_bookVars

-----------------------------------------------------------------------------
\* The ledger explains the stock: every balance is the one before plus the quantity,
\* and the last one is the stock on hand.
LedgerExplainsStock ==
    \A m \in Materials :
        LET n == Len(ledger[m])
            Before(i) == IF i = 1 THEN 0 ELSE ledger[m][i - 1].balanceAfter
        IN  /\ \A i \in 1 .. n : ledger[m][i].balanceAfter = Before(i) + ledger[m][i].quantity
            /\ stock[m] = Before(n + 1)

\* A material with any movement is never deleted.
HistoryKept == \A m \in gone : ledger[m] = <<>>
===============================================================================
