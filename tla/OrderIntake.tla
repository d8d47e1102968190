----------------------------- MODULE OrderIntake -----------------------------
(***************************************************************************)
(* How orders get their numbers: the order form (createOrder of            *)
(* src/lib/orders/service.ts), the CSV import (src/lib/orders/import.ts)   *)
(* and the reservation of automatic numbers both use                       *)
(* (src/lib/orders/reserve.ts), statement by statement under READ          *)
(* COMMITTED, as in StockLedger.tla.                                       *)
(*                                                                         *)
(* A number is the natural number of its sequence: automatic numbers are   *)
(* SO-000001, SO-000002, ...; users may type any number that is not SO-    *)
(* with exactly six digits, so beyond SixDigits the automatic sequence     *)
(* enters what users may type.  The unique index on orderNumber makes an   *)
(* insert wait for the transaction that inserted the same number and has   *)
(* not committed, and fail if it is committed.  Left out: all columns but  *)
(* number and batch, customers (an order may fail for want of one, which   *)
(* is a Rollback), audit rows, changes of a number by updateOrder(), the   *)
(* age limit of a preview (it only refuses).                               *)
(***************************************************************************)
EXTENDS StatusRules, Integers, FiniteSets

CONSTANTS
    Sessions,      \* requests served at the same time
    NoSession,     \* nobody
    Batches,       \* import batches
    NoBatch,       \* of an order from the form
    SixDigits,     \* the last number of the form SO-dddddd: 999,999
    ManualNumbers, \* what users type
    Rows,          \* the rows of each batch's file
    SeededNumbers, \* numbers that may have been inserted beside the sequence
    MaxAttempts,   \* ORDER_NUMBER_MAX_ATTEMPTS
    MaxCalls       \* bound: the number of requests

\* `manual` is the set of typed numbers that occur once in the file (the rows of any other
\* are invalid), `auto` the number of rows without one.
FileRows == [auto : Nat, manual : SUBSET ManualNumbers]

ASSUME SessionsAssumption == NoSession \notin Sessions
ASSUME BatchesAssumption == NoBatch \notin Batches
ASSUME NumbersAssumption ==
    /\ SixDigits \in Nat
    /\ ManualNumbers \subseteq {n \in Nat : n > SixDigits}
    /\ SeededNumbers \subseteq 1 .. SixDigits
ASSUME RowsAssumption == Rows \in [Batches -> FileRows]
ASSUME AttemptsAssumption == MaxAttempts \in Nat \ {0}

VARIABLES
    orderSeq,   \* Tenant.orderSeq, committed
    orders,     \* Order rows, committed
    batch,      \* ImportBatch.status, "NONE" before the preview
    tenantLock, \* the session whose transaction has updated the tenant row
    bumped,     \* orderSeq as that transaction sees it
    batchLock,  \* the session whose transaction has updated the batch's row
    pc,         \* what a session does next
    source,     \* the batch it imports or discards, NoBatch for the form
    auto,       \* rows without a number of this attempt
    manual,     \* typed numbers of this attempt still to be inserted
    needed,     \* automatic numbers still to be reserved
    free,       \* reserved numbers not inserted yet
    inserted,   \* rows inserted and not committed
    attempt,    \* of withOrderNumberRetry()
    round,      \* of reserveOrderNumbers()
    calls

database == <<orderSeq, orders, batch>>
locks == <<tenantLock, bumped, batchLock>>
attemptVars == <<auto, manual, needed, free, inserted, round>>
vars == <<database, locks, pc, source, attemptVars, attempt, calls>>

Numbers(rows) == {o.number : o \in rows}

Order == [number : Nat, by : {"sequence", "user", "seed"}, batch : Batches \cup {NoBatch}]
BatchStatuses == {"NONE", "PENDING", "COMMITTED", "DISCARDED"}
Steps == {"idle", "validate", "reserve", "check", "insert", "mark", "commit", "discard"}

Init ==
    /\ orderSeq = 0
    /\ \E S \in SUBSET SeededNumbers :
          orders = {[number |-> n, by |-> "seed", batch |-> NoBatch] : n \in S}
    /\ batch = [b \in Batches |-> "NONE"]
    /\ tenantLock = NoSession
    /\ bumped = orderSeq
    /\ batchLock = [b \in Batches |-> NoSession]
    /\ pc = [p \in Sessions |-> "idle"]
    /\ source = [p \in Sessions |-> NoBatch]
    /\ auto = [p \in Sessions |-> 0]
    /\ manual = [p \in Sessions |-> {}]
    /\ needed = [p \in Sessions |-> 0]
    /\ free = [p \in Sessions |-> {}]
    /\ inserted = [p \in Sessions |-> {}]
    /\ attempt = [p \in Sessions |-> 0]
    /\ round = [p \in Sessions |-> 0]
    /\ calls = 0

-----------------------------------------------------------------------------
\* Helpers.

IsImport(p) == source[p] # NoBatch

\* Mutants: typed numbers are inserted before the others are reserved; an import does not
\* write COMMITTED in the transaction that inserts the orders.
InsertsFirst(p, n, rows) ==
    CASE rows # {}           -> "insert"
      [] rows = {} /\ n > 0  -> "reserve"
      [] rows = {} /\ n = 0  -> IF IsImport(p) THEN "mark" ELSE "commit"
NeverMarked(p, n, rows) ==
    CASE n > 0               -> "reserve"
      [] n = 0 /\ rows # {}  -> "insert"
      [] n = 0 /\ rows = {}  -> "commit"

\* The order of a transaction's statements: `n` numbers are to be reserved and `rows` to
\* be inserted.  reserveOrderNumbers() with n = 0 touches nothing.
NextStep(p, n, rows) ==
    CASE n > 0               -> "reserve"
      [] n = 0 /\ rows # {}  -> "insert"
      [] n = 0 /\ rows = {}  -> IF IsImport(p) THEN "mark" ELSE "commit"

\* The rows of an attempt are known: `n` without a number, and the typed ones.
Attempt(p, n, typed) ==
    /\ auto' = [auto EXCEPT ![p] = n]
    /\ manual' = [manual EXCEPT ![p] = typed]
    /\ needed' = [needed EXCEPT ![p] = n]
    /\ pc' = [pc EXCEPT ![p] = NextStep(p, n, typed)]

\* The transaction of p is gone; its request goes on at `next`, in attempt `k`.
Abandon(p, next, k) ==
    /\ pc' = [pc EXCEPT ![p] = next]
    /\ attempt' = [attempt EXCEPT ![p] = k]
    /\ source' = [source EXCEPT ![p] = IF next = "idle" THEN NoBatch ELSE source[p]]
    /\ auto' = [auto EXCEPT ![p] = IF next = "reserve" THEN auto[p] ELSE 0]
    /\ needed' = [needed EXCEPT ![p] = IF next = "reserve" THEN auto[p] ELSE 0]
    /\ manual' = [manual EXCEPT ![p] = {}]
    /\ free' = [free EXCEPT ![p] = {}]
    /\ inserted' = [inserted EXCEPT ![p] = {}]
    /\ round' = [round EXCEPT ![p] = 0]
    /\ batchLock' = [b \in Batches |-> IF batchLock[b] = p THEN NoSession ELSE batchLock[b]]
    /\ tenantLock' = IF tenantLock = p THEN NoSession ELSE tenantLock

\* The end of a transaction without a commit: the increment of orderSeq is gone, too.
RollBack(p, next, k) ==
    /\ Abandon(p, next, k)
    /\ bumped' = IF tenantLock = p THEN orderSeq ELSE bumped
    /\ UNCHANGED database

-----------------------------------------------------------------------------
\* Requests.

\* createOrder() with the number left to the sequence ...
CreateOrder(p, role) ==
    /\ Can(role, "orders:write")
    /\ pc[p] = "idle" /\ calls < MaxCalls
    /\ calls' = calls + 1
    /\ attempt' = [attempt EXCEPT ![p] = 1]
    /\ Attempt(p, 1, {})
    /\ UNCHANGED <<database, locks, source, free, inserted, round>>

\* ... or typed, which must not be taken.
CreateNumberedOrder(p, n, role) ==
    /\ Can(role, "orders:write")
    /\ pc[p] = "idle" /\ calls < MaxCalls
    /\ calls' = calls + 1
    /\ n \notin Numbers(orders)
    /\ attempt' = [attempt EXCEPT ![p] = 1]
    /\ Attempt(p, 0, {n})
    /\ UNCHANGED <<database, locks, source, free, inserted, round>>

\* previewImport() stores the rows.
PreviewImport(b, role) ==
    /\ Can(role, "orders:write")
    /\ batch[b] = "NONE"
    /\ batch' = [batch EXCEPT ![b] = "PENDING"]
    /\ UNCHANGED <<orderSeq, orders, locks, pc, source, attemptVars, attempt, calls>>

\* commitImport() up to assertCommittable(), before the transaction.
CommitImport(p, b, role) ==
    /\ Can(role, "orders:write")
    /\ pc[p] = "idle" /\ calls < MaxCalls
    /\ calls' = calls + 1
    /\ batch[b] = "PENDING"
    /\ source' = [source EXCEPT ![p] = b]
    /\ attempt' = [attempt EXCEPT ![p] = 1]
    /\ pc' = [pc EXCEPT ![p] = "validate"]
    /\ UNCHANGED <<database, locks, attemptVars>>

\* discardImport() reads the status ...
DiscardImport(p, b, role) ==
    /\ Can(role, "orders:write")
    /\ pc[p] = "idle" /\ calls < MaxCalls
    /\ calls' = calls + 1
    /\ batch[b] = "PENDING"
    /\ source' = [source EXCEPT ![p] = b]
    /\ pc' = [pc EXCEPT ![p] = "discard"]
    /\ UNCHANGED <<database, locks, attemptVars, attempt>>

\* ... and writes it.
UpdateDiscarded(p) ==
    /\ pc[p] = "discard"
    /\ batchLock[source[p]] = NoSession
    /\ batch' = [batch EXCEPT ![source[p]] = "DISCARDED"]
    /\ pc' = [pc EXCEPT ![p] = "idle"]
    /\ source' = [source EXCEPT ![p] = NoBatch]
    /\ UNCHANGED <<orderSeq, orders, locks, attemptVars, attempt, calls>>

-----------------------------------------------------------------------------
\* The statements of a transaction.

\* buildRowContext() and validateImportRows(): typed numbers not taken by now.
ValidRows(b) == Rows[b].manual \ Numbers(orders)

ValidateImport(p) ==
    /\ pc[p] = "validate"
    /\ Attempt(p, Rows[source[p]].auto, ValidRows(source[p]))
    /\ UNCHANGED <<database, locks, source, attempt, calls, free, inserted, round>>

\* tenant.update({orderSeq: {increment: needed}}), which waits for the tenant row.
Reserve(p) ==
    /\ pc[p] = "reserve"
    /\ tenantLock \in {NoSession, p}
    /\ tenantLock' = p
    /\ bumped' = bumped + needed[p]
    /\ round' = [round EXCEPT ![p] = round[p] + 1]
    /\ pc' = [pc EXCEPT ![p] = "check"]
    /\ UNCHANGED <<database, batchLock, source, attempt, calls, auto, manual, needed, free, inserted>>

Candidates(p) == bumped - needed[p] + 1 .. bumped

\* Mutant: without the findMany.
NoneTaken(p) == {}

\* The findMany: candidates that exist.
Taken(p) == Candidates(p) \cap Numbers(orders)

\* Candidates that exist are replaced in another round; after the last round the request
\* ends in order_number_exhausted.
CheckCandidates(p) ==
    /\ pc[p] = "check"
    /\ \/ /\ Taken(p) = {} \/ round[p] < MaxAttempts
          /\ free' = [free EXCEPT ![p] = free[p] \cup (Candidates(p) \ Taken(p))]
          /\ needed' = [needed EXCEPT ![p] = Cardinality(Taken(p))]
          /\ pc' = [pc EXCEPT ![p] = NextStep(p, Cardinality(Taken(p)), manual[p] \cup free'[p])]
          /\ UNCHANGED <<database, locks, source, auto, manual, inserted, round, attempt>>
       \/ /\ Taken(p) # {} /\ round[p] = MaxAttempts
          /\ RollBack(p, "idle", 0)
    /\ UNCHANGED calls

Typed(p) == [number : manual[p], by : {"user"}]
Reserved(p) == [number : free[p], by : {"sequence"}]
Pending(p) == Typed(p) \cup Reserved(p)

\* Sessions whose uncommitted rows hold the number.
Holders(p, n) == {q \in Sessions \ {p} : n \in Numbers(inserted[q])}

\* order.create(), and each row of order.createManyAndReturn(), in any order.
InsertOrder(p) ==
    /\ pc[p] = "insert"
    /\ \E row \in Pending(p) :
          /\ Holders(p, row.number) = {}
          /\ row.number \notin Numbers(orders \cup inserted[p])
          /\ inserted' = [inserted EXCEPT ![p] = @ \cup
                {[number |-> row.number, by |-> row.by, batch |-> source[p]]}]
          /\ manual' = [manual EXCEPT ![p] = IF row.by = "user" THEN @ \ {row.number} ELSE @]
          /\ free' = [free EXCEPT ![p] = IF row.by = "sequence" THEN @ \ {row.number} ELSE @]
          /\ pc' = [pc EXCEPT ![p] = NextStep(p, needed[p], Pending(p) \ {row})]
    /\ UNCHANGED <<database, locks, source, auto, needed, round, attempt, calls>>

\* The form with a typed number reports the conflict at once.
MayRetry(p) == (IsImport(p) \/ auto[p] > 0) /\ attempt[p] < MaxAttempts

\* P2002 on orderNumber, against a committed row or one of the same file: the transaction
\* is gone, withOrderNumberRetry() may run it again.
NumberConflict(p) ==
    /\ pc[p] = "insert"
    /\ \E row \in Pending(p) :
          /\ Holders(p, row.number) = {}
          /\ row.number \in Numbers(orders \cup inserted[p])
    /\ \/ /\ MayRetry(p)
          /\ RollBack(p, IF IsImport(p) THEN "validate" ELSE "reserve", attempt[p] + 1)
       \/ /\ ~MayRetry(p)
          /\ RollBack(p, "idle", 0)
    /\ UNCHANGED calls

\* importBatch.update(), whatever the status is by now.
MarkCommitted(p) ==
    /\ pc[p] = "mark"
    /\ batchLock[source[p]] = NoSession
    /\ batchLock' = [batchLock EXCEPT ![source[p]] = p]
    /\ pc' = [pc EXCEPT ![p] = "commit"]
    /\ UNCHANGED <<database, tenantLock, bumped, source, attemptVars, attempt, calls>>

\* Mutant: the sequence is not part of the transaction that uses it.
SequenceForgotten(p) == orderSeq

CommittedSequence(p) == IF tenantLock = p THEN bumped ELSE orderSeq

Commit(p) ==
    /\ pc[p] = "commit"
    /\ orderSeq' = CommittedSequence(p)
    /\ orders' = orders \cup inserted[p]
    /\ batch' = [b \in Batches |-> IF batchLock[b] = p THEN "COMMITTED" ELSE batch[b]]
    /\ Abandon(p, "idle", 0)
    /\ bumped' = IF tenantLock = p THEN CommittedSequence(p) ELSE bumped
    /\ UNCHANGED calls

\* Any other error, a timeout, a lost connection, a crash, or the database breaking a deadlock.
Rollback(p) ==
    /\ pc[p] # "idle"
    /\ RollBack(p, "idle", 0)
    /\ UNCHANGED calls

Next ==
    \/ \E p \in Sessions, role \in Roles :
          \/ CreateOrder(p, role)
          \/ \E n \in ManualNumbers : CreateNumberedOrder(p, n, role)
          \/ \E b \in Batches : CommitImport(p, b, role) \/ DiscardImport(p, b, role)
    \/ \E b \in Batches, role \in Roles : PreviewImport(b, role)
    \/ \E p \in Sessions :
          \/ UpdateDiscarded(p)
          \/ ValidateImport(p)
          \/ Reserve(p)
          \/ CheckCandidates(p)
          \/ InsertOrder(p)
          \/ NumberConflict(p)
          \/ MarkCommitted(p)
          \/ Commit(p)
          \/ Rollback(p)

Spec == Init /\ [][Next]_vars

-----------------------------------------------------------------------------
\* Properties.

TypeOK ==
    /\ orderSeq \in Nat /\ bumped \in Nat /\ calls \in Nat
    /\ orders \subseteq Order
    /\ batch \in [Batches -> BatchStatuses]
    /\ tenantLock \in Sessions \cup {NoSession}
    /\ batchLock \in [Batches -> Sessions \cup {NoSession}]
    /\ pc \in [Sessions -> Steps]
    /\ source \in [Sessions -> Batches \cup {NoBatch}]
    /\ auto \in [Sessions -> Nat] /\ needed \in [Sessions -> Nat]
    /\ manual \in [Sessions -> SUBSET ManualNumbers]
    /\ free \in [Sessions -> SUBSET Nat]
    /\ inserted \in [Sessions -> SUBSET Order]
    /\ attempt \in [Sessions -> 0 .. MaxAttempts]
    /\ round \in [Sessions -> 0 .. MaxAttempts]

\* Numbers taken from the sequence are behind it: whatever transactions were retried,
\* crashed or interleaved, Tenant.orderSeq never lags behind an order it numbered, so
\* reserveOrderNumbers() never hands a number out twice.
SequenceCoversOrders ==
    \A o \in orders : o.by = "sequence" => o.number <= orderSeq

\* Between the check for existing numbers and the insert nobody can take a reserved
\* number from its transaction, as long as it has six digits: the tenant row stays locked
\* until the commit and users cannot type such a number.  An order without a typed number
\* never meets the unique index before SO-1000000.
ReservedNumbersAreFree ==
    \A p \in Sessions : \A n \in free[p] :
        n <= SixDigits =>
            /\ n \notin Numbers(orders)
            /\ \A q \in Sessions \ {p} : n \notin free[q] \cup Numbers(inserted[q])

\* commitImport() is all or nothing: orders of a batch appear in the step that marks it,
\* and a batch still PENDING has left none behind, however often it was retried.
OrdersComeWithBatch ==
    \A b \in Batches : batch[b] \in {"NONE", "PENDING"} =>
        \A o \in orders : o.batch # b

\* What p could be waiting for: the tenant row, the row of a batch, or a number that
\* another transaction has inserted.
WaitsFor(p, q) ==
    \/ pc[p] = "reserve" /\ tenantLock = q
    \/ pc[p] \in {"mark", "discard"} /\ batchLock[source[p]] = q
    \/ pc[p] = "insert" /\ \E row \in Pending(p) : q \in Holders(p, row.number)

\* The tenant row is locked before the first insert, so requests can only wait for each
\* other in a circle if two of them are imports that insert numbers of both.
DeadlocksNeedTwoImports ==
    \A group \in SUBSET Sessions :
        /\ group # {}
        /\ \A p, q \in group : IsImport(p) /\ IsImport(q) => p = q
        => \E p \in group : \A q \in group \ {p} : ~WaitsFor(p, q)

-----------------------------------------------------------------------------
\* What the documents say and the code does not do.

\* import.ts: "This file has already been imported."  The status is read before the
\* transaction, and neither the transaction nor its retry reads it again: of two commits
\* of one preview both insert the rows without a number.
ImportedOnce ==
    [][\A b \in Batches : batch[b] = "COMMITTED" =>
         {o \in orders' : o.batch = b} = {o \in orders : o.batch = b}]_vars
===============================================================================
