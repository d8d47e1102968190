-------------------------- MODULE OrderIntakeProofs --------------------------
(***************************************************************************)
(* Proofs about OrderIntake, for any number of sessions, any files, any    *)
(* numbers beside the sequence and any limits.                             *)
(***************************************************************************)
EXTENDS OrderIntake, FiniteSetTheorems, TLAPS

\* A form request numbers one order.
FormOK(p) ==
    /\ auto[p] \in {0, 1}
    /\ pc[p] \in {"reserve", "check"} => needed[p] = 1 /\ free[p] = {} /\ manual[p] = {}
    /\ pc[p] = "insert" => inserted[p] = {} /\ \E row : Pending(p) = {row}

\* Reserved numbers not inserted yet, and rows not committed, of a session: those of the
\* sequence exist only while the session holds the tenant row.
FreeOK(p) ==
    /\ free[p] # {} => tenantLock = p
    /\ \A n \in free[p] : n <= bumped /\ (n <= SixDigits => n \notin Numbers(orders))

InsertedOK(p) ==
    /\ inserted[p] # {} => pc[p] \in {"insert", "mark", "commit"}
    /\ \A o \in inserted[p] :
          /\ \/ o.by = "sequence" /\ tenantLock = p /\ o.number <= bumped
             \/ o.by = "user" /\ o.number > SixDigits
          /\ o.batch = source[p]

StepOK(p) ==
    /\ pc[p] \in {"validate", "mark", "discard"} => IsImport(p)
    /\ pc[p] \in {"idle", "validate", "discard"} => free[p] = {} /\ round[p] = 0 /\ auto[p] = 0
    /\ pc[p] = "reserve" => round[p] < MaxAttempts
    /\ pc[p] = "check" => tenantLock = p /\ needed[p] <= bumped
    /\ pc[p] = "insert" => needed[p] = 0
    /\ pc[p] = "commit" /\ IsImport(p) => batchLock[source[p]] = p

SessionOK(p) ==
    /\ StepOK(p)
    /\ FreeOK(p)
    /\ InsertedOK(p)
    /\ ~IsImport(p) => FormOK(p)

LocksOK ==
    /\ orderSeq <= bumped
    /\ tenantLock = NoSession => bumped = orderSeq
    /\ \A b \in Batches : batchLock[b] \in Sessions => pc[batchLock[b]] = "commit"

IInv ==
    /\ TypeOK
    /\ \A p \in Sessions : SessionOK(p)
    /\ LocksOK
    /\ SequenceCoversOrders
    /\ OrdersComeWithBatch

-----------------------------------------------------------------------------
\* The variables of a session that a step of another one leaves alone.
SameSession(q) ==
    /\ pc'[q] = pc[q] /\ source'[q] = source[q]
    /\ auto'[q] = auto[q] /\ manual'[q] = manual[q] /\ needed'[q] = needed[q]
    /\ free'[q] = free[q] /\ inserted'[q] = inserted[q] /\ round'[q] = round[q]

\* A step of one session keeps what is known of another if it leaves its locks alone and,
\* while the other holds the tenant row, commits no number of six digits.
LEMMA OthersKept ==
  ASSUME IInv, NEW q \in Sessions, SameSession(q),
         tenantLock = q => /\ tenantLock' = q
                           /\ bumped <= bumped'
                           /\ \A n \in Numbers(orders') : n \in Numbers(orders) \/ n > SixDigits,
         \A b \in Batches : batchLock[b] = q => batchLock'[b] = q,
         bumped' \in Nat
  PROVE  SessionOK(q)'
  <1> USE DEF IInv, TypeOK, SameSession
  <1>1. SessionOK(q) /\ IsImport(q)' = IsImport(q)
    BY DEF IsImport
  <1>2. StepOK(q)'
    <2>1. pc[q] = "commit" /\ IsImport(q) => batchLock'[source[q]] = q
      BY <1>1 DEF SessionOK, StepOK, IsImport
    <2>2. pc[q] = "check" => tenantLock' = q /\ needed[q] <= bumped'
      BY <1>1 DEF SessionOK, StepOK
    <2>3. QED
      BY <1>1, <2>1, <2>2 DEF SessionOK, StepOK, IsImport
  <1>3. FreeOK(q)'
    <2>1. ASSUME NEW n \in free[q]
          PROVE  n <= bumped' /\ (n <= SixDigits => n \notin Numbers(orders'))
      <3>1. tenantLock = q /\ n <= bumped /\ (n <= SixDigits => n \notin Numbers(orders))
        BY <1>1, <2>1 DEF SessionOK, FreeOK
      <3>2. n \in Nat /\ SixDigits \in Nat
        BY <2>1, NumbersAssumption
      <3>3. QED
        BY <3>1, <3>2
    <2>2. free[q] # {} => tenantLock' = q
      BY <1>1 DEF SessionOK, FreeOK
    <2>3. QED
      BY <2>1, <2>2 DEF FreeOK, Numbers
  <1>4. InsertedOK(q)'
    <2>1. ASSUME NEW o \in inserted[q]
          PROVE  /\ \/ o.by = "sequence" /\ tenantLock' = q /\ o.number <= bumped'
                    \/ o.by = "user" /\ o.number > SixDigits
                 /\ o.batch = source[q]
      <3>1. o.number \in Nat
        BY <2>1 DEF Order
      <3>2. QED
        BY <1>1, <2>1, <3>1 DEF SessionOK, InsertedOK
    <2>2. QED
      BY <1>1, <2>1 DEF SessionOK, InsertedOK
  <1>5. ~IsImport(q)' => FormOK(q)'
    BY <1>1 DEF SessionOK, FormOK, Pending, Typed, Reserved
  <1>6. QED
    BY <1>2, <1>3, <1>4, <1>5 DEF SessionOK

\* The session itself after its transaction is gone.
LEMMA AbandonedSession ==
  ASSUME IInv, NEW p \in Sessions, NEW next \in {"idle", "validate", "reserve"},
         NEW k \in 0 .. MaxAttempts, Abandon(p, next, k),
         next = "validate" => IsImport(p),
         next = "reserve" => ~IsImport(p) /\ auto[p] > 0
  PROVE  SessionOK(p)'
  <1> USE DEF IInv, TypeOK, Abandon
  <1>1. /\ pc'[p] = next /\ free'[p] = {} /\ manual'[p] = {} /\ inserted'[p] = {} /\ round'[p] = 0
        /\ auto'[p] = IF next = "reserve" THEN auto[p] ELSE 0
        /\ needed'[p] = IF next = "reserve" THEN auto[p] ELSE 0
        /\ source'[p] = IF next = "idle" THEN NoBatch ELSE source[p]
    OBVIOUS
  <1>2. next = "reserve" => auto[p] = 1
    BY DEF SessionOK, FormOK
  <1>3. StepOK(p)'
    BY <1>1, AttemptsAssumption DEF StepOK, IsImport
  <1>4. FreeOK(p)' /\ InsertedOK(p)'
    BY <1>1 DEF FreeOK, InsertedOK
  <1>5. FormOK(p)'
    BY <1>1, <1>2 DEF FormOK
  <1>6. QED
    BY <1>3, <1>4, <1>5 DEF SessionOK

LEMMA AbandonTypes ==
  ASSUME IInv, NEW p \in Sessions, NEW next \in {"idle", "validate", "reserve"},
         NEW k \in 0 .. MaxAttempts, Abandon(p, next, k)
  PROVE  /\ tenantLock' \in Sessions \cup {NoSession}
         /\ tenantLock' = IF tenantLock = p THEN NoSession ELSE tenantLock
         /\ batchLock' \in [Batches -> Sessions \cup {NoSession}]
         /\ \A b \in Batches : batchLock'[b] = IF batchLock[b] = p THEN NoSession ELSE batchLock[b]
         /\ pc' \in [Sessions -> Steps]
         /\ source' \in [Sessions -> Batches \cup {NoBatch}]
         /\ auto' \in [Sessions -> Nat] /\ needed' \in [Sessions -> Nat]
         /\ manual' \in [Sessions -> SUBSET ManualNumbers]
         /\ free' \in [Sessions -> SUBSET Nat]
         /\ inserted' \in [Sessions -> SUBSET Order]
         /\ attempt' \in [Sessions -> 0 .. MaxAttempts]
         /\ round' \in [Sessions -> 0 .. MaxAttempts]
         /\ \A q \in Sessions : q # p => SameSession(q)
  <1>1. 0 \in 0 .. MaxAttempts
    BY AttemptsAssumption
  <1>2. next \in Steps
    BY DEF Steps
  <1>3. QED
    BY <1>1, <1>2 DEF IInv, TypeOK, Abandon, SameSession

LEMMA RollBackPreserves ==
  ASSUME IInv, NEW p \in Sessions, NEW next \in {"idle", "validate", "reserve"},
         NEW k \in 0 .. MaxAttempts, RollBack(p, next, k), UNCHANGED calls,
         next = "validate" => IsImport(p),
         next = "reserve" => ~IsImport(p) /\ auto[p] > 0
  PROVE  IInv'
  <1>1. Abandon(p, next, k) /\ UNCHANGED <<orderSeq, orders, batch>>
    BY DEF RollBack, database
  <1>2. bumped' = (IF tenantLock = p THEN orderSeq ELSE bumped) /\ bumped' \in Nat
    BY DEF RollBack, IInv, TypeOK
  <1>3. SessionOK(p)'
    BY <1>1, AbandonedSession
  <1>4. TypeOK'
    BY <1>1, <1>2, AbandonTypes DEF IInv, TypeOK
  <1>5. ASSUME NEW q \in Sessions, q # p
        PROVE  SessionOK(q)'
    <2>1. SameSession(q)
      BY <1>1, <1>5, AbandonTypes
    <2>2. tenantLock = q => tenantLock' = q /\ bumped' = bumped
      BY <1>1, <1>2, <1>5, AbandonTypes
    <2>3. \A b \in Batches : batchLock[b] = q => batchLock'[b] = q
      BY <1>1, <1>5, AbandonTypes
    <2>4. QED
      BY <1>1, <1>2, <2>1, <2>2, <2>3, OthersKept DEF IInv, TypeOK
  <1>6. LocksOK'
    <2>1. orderSeq' <= bumped' /\ (tenantLock' = NoSession => bumped' = orderSeq')
      BY <1>1, <1>2, AbandonTypes DEF IInv, LocksOK, TypeOK
    <2>2. ASSUME NEW b \in Batches, batchLock'[b] \in Sessions
          PROVE  pc'[batchLock'[b]] = "commit"
      <3>1. batchLock'[b] = batchLock[b] /\ batchLock[b] # p
        BY <1>1, <2>2, AbandonTypes, SessionsAssumption
      <3>2. pc'[batchLock[b]] = pc[batchLock[b]]
        BY <1>1, <2>2, <3>1, AbandonTypes DEF SameSession
      <3>3. QED
        BY <2>2, <3>1, <3>2 DEF IInv, LocksOK
    <2>3. QED
      BY <2>1, <2>2 DEF LocksOK
  <1>7. SequenceCoversOrders' /\ OrdersComeWithBatch'
    BY <1>1 DEF IInv, SequenceCoversOrders, OrdersComeWithBatch
  <1>8. QED
    BY <1>3, <1>4, <1>5, <1>6, <1>7 DEF IInv

-----------------------------------------------------------------------------
\* A step that touches neither rows nor locks preserves what is known of everything but
\* the session that takes it.
LEMMA LocalStep ==
  ASSUME IInv, NEW p \in Sessions, TypeOK', SessionOK(p)',
         UNCHANGED <<database, locks>>, pc[p] # "commit",
         \A q \in Sessions : q # p => SameSession(q)
  PROVE  IInv'
  <1>1. UNCHANGED <<orderSeq, orders, batch, tenantLock, bumped, batchLock>>
    BY DEF database, locks
  <1>2. \A q \in Sessions : q # p => SessionOK(q)'
    BY <1>1, OthersKept DEF IInv, TypeOK
  <1>3. LocksOK'
    <2>1. ASSUME NEW b \in Batches, batchLock[b] \in Sessions
          PROVE  pc'[batchLock[b]] = "commit"
      BY <2>1 DEF IInv, LocksOK, SameSession
    <2>2. QED
      BY <1>1, <2>1 DEF IInv, LocksOK
  <1>4. SequenceCoversOrders' /\ OrdersComeWithBatch'
    BY <1>1 DEF IInv, SequenceCoversOrders, OrdersComeWithBatch
  <1>5. QED
    BY <1>2, <1>3, <1>4 DEF IInv

LEMMA NextStepType ==
  ASSUME NEW p, NEW n \in Nat, NEW rows
  PROVE  /\ NextStep(p, n, rows) \in {"reserve", "insert", "mark", "commit"}
         /\ NextStep(p, n, rows) = "reserve" <=> n > 0
         /\ NextStep(p, n, rows) = "insert" <=> n = 0 /\ rows # {}
         /\ NextStep(p, n, rows) = "mark" => IsImport(p)
         /\ NextStep(p, n, rows) = "commit" => ~IsImport(p)
  BY DEF NextStep

\* An attempt starts: with the rows of a file, or with the one row of the form.
LEMMA AttemptStep ==
  ASSUME IInv, NEW p \in Sessions, pc[p] \in {"idle", "validate"},
         NEW n \in Nat, NEW typed \in SUBSET ManualNumbers, Attempt(p, n, typed),
         ~IsImport(p) => (n = 1 /\ typed = {}) \/ (n = 0 /\ \E m : typed = {m}),
         UNCHANGED <<database, locks, source, free, inserted, round>>,
         attempt' \in [Sessions -> 0 .. MaxAttempts], calls' \in Nat
  PROVE  IInv'
  <1>0. /\ NextStep(p, n, typed) \in {"reserve", "insert", "mark", "commit"}
        /\ NextStep(p, n, typed) = "reserve" <=> n > 0
        /\ NextStep(p, n, typed) = "insert" <=> n = 0 /\ typed # {}
        /\ NextStep(p, n, typed) = "mark" => IsImport(p)
        /\ NextStep(p, n, typed) = "commit" => ~IsImport(p)
    BY NextStepType, Zenon
  <1> USE DEF IInv, TypeOK, Attempt
  <1>1. UNCHANGED <<orderSeq, orders, batch, tenantLock, bumped, batchLock>>
    BY DEF database, locks
  <1>2. NextStep(p, n, typed) \in Steps
    BY <1>0 DEF Steps
  <1>3. TypeOK'
    BY <1>1, <1>2
  <1>4. /\ pc'[p] = NextStep(p, n, typed) /\ auto'[p] = n /\ manual'[p] = typed /\ needed'[p] = n
        /\ free'[p] = {} /\ round'[p] = 0 /\ inserted'[p] = {} /\ source'[p] = source[p]
    <2>1. free[p] = {} /\ round[p] = 0 /\ inserted[p] = {}
      BY DEF SessionOK, StepOK, InsertedOK
    <2>2. QED
      BY <2>1
  <1>5. SessionOK(p)'
    <2>1. StepOK(p)'
      BY <1>4, <1>0, AttemptsAssumption DEF StepOK, IsImport
    <2>2. FreeOK(p)' /\ InsertedOK(p)'
      BY <1>4 DEF FreeOK, InsertedOK
    <2>3. ASSUME ~IsImport(p)'
          PROVE  FormOK(p)'
      <3>1. (n = 1 /\ typed = {}) \/ (n = 0 /\ \E m : typed = {m})
        BY <1>4, <2>3 DEF IsImport
      <3>2. CASE n = 1 /\ typed = {}
        BY <1>4, <3>2, <1>0 DEF FormOK
      <3>3. CASE n = 0 /\ \E m : typed = {m}
        <4>1. PICK m : typed = {m}
          BY <3>3
        <4>2. Pending(p)' = {[number |-> m, by |-> "user"]}
          BY <1>4, <4>1 DEF Pending, Typed, Reserved
        <4>3. pc'[p] = "insert"
          BY <1>4, <3>3, <4>1, <1>0
        <4>4. QED
          BY <1>4, <3>3, <4>2, <4>3 DEF FormOK
      <3>4. QED
        BY <3>1, <3>2, <3>3
    <2>4. QED
      BY <2>1, <2>2, <2>3 DEF SessionOK
  <1>6. \A q \in Sessions : q # p => SameSession(q)
    BY DEF SameSession
  <1>7. QED
    BY <1>3, <1>5, <1>6, LocalStep

\* A request of an import begins: nothing but its source and its next step changes.
LEMMA ImportBegins ==
  ASSUME IInv, NEW p \in Sessions, NEW b \in Batches, pc[p] = "idle",
         NEW next \in {"validate", "discard"},
         source' = [source EXCEPT ![p] = b], pc' = [pc EXCEPT ![p] = next],
         attempt' \in [Sessions -> 0 .. MaxAttempts], calls' \in Nat,
         UNCHANGED <<database, locks, attemptVars>>
  PROVE  IInv'
  <1> USE DEF IInv, TypeOK
  <1>1. /\ UNCHANGED <<orderSeq, orders, batch, tenantLock, bumped, batchLock>>
        /\ UNCHANGED <<auto, manual, needed, free, inserted, round>>
    BY DEF database, locks, attemptVars
  <1>2. TypeOK'
    BY <1>1 DEF Steps
  <1>3. SessionOK(p)'
    <2>1. free[p] = {} /\ round[p] = 0 /\ inserted[p] = {} /\ auto[p] = 0
      BY DEF SessionOK, StepOK, InsertedOK
    <2>2. source'[p] # NoBatch /\ pc'[p] = next
      BY BatchesAssumption
    <2>3. QED
      BY <1>1, <2>1, <2>2 DEF SessionOK, StepOK, FreeOK, InsertedOK, FormOK, IsImport
  <1>4. \A q \in Sessions : q # p => SameSession(q)
    BY <1>1 DEF SameSession
  <1>5. QED
    BY <1>2, <1>3, <1>4, LocalStep

\* The steps before a transaction.
LEMMA RequestsPreserve ==
  ASSUME IInv, NEW p \in Sessions, NEW role \in Roles,
         \/ CreateOrder(p, role)
         \/ \E n \in ManualNumbers : CreateNumberedOrder(p, n, role)
         \/ \E b \in Batches : CommitImport(p, b, role) \/ DiscardImport(p, b, role)
  PROVE  IInv'
  <1> USE DEF IInv, TypeOK
  <1>1. 1 \in 0 .. MaxAttempts
    BY AttemptsAssumption
  <1>3. CASE CreateOrder(p, role)
    <2>1. /\ pc[p] = "idle" /\ Attempt(p, 1, {}) /\ calls' \in Nat
          /\ attempt' \in [Sessions -> 0 .. MaxAttempts]
          /\ UNCHANGED <<database, locks, source, free, inserted, round>>
      BY <1>1, <1>3 DEF CreateOrder
    <2>2. QED
      BY <2>1, AttemptStep
  <1>4. ASSUME NEW n \in ManualNumbers, CreateNumberedOrder(p, n, role)
        PROVE  IInv'
    <2>1. /\ pc[p] = "idle" /\ Attempt(p, 0, {n}) /\ calls' \in Nat
          /\ attempt' \in [Sessions -> 0 .. MaxAttempts]
          /\ UNCHANGED <<database, locks, source, free, inserted, round>>
      BY <1>1, <1>4 DEF CreateNumberedOrder
    <2>2. QED
      BY <2>1, AttemptStep
  <1>5. ASSUME NEW b \in Batches, CommitImport(p, b, role)
        PROVE  IInv'
    <2>1. /\ pc[p] = "idle" /\ calls' \in Nat
          /\ attempt' \in [Sessions -> 0 .. MaxAttempts]
          /\ source' = [source EXCEPT ![p] = b] /\ pc' = [pc EXCEPT ![p] = "validate"]
          /\ UNCHANGED <<database, locks, attemptVars>>
      BY <1>1, <1>5 DEF CommitImport
    <2>2. QED
      BY <2>1, ImportBegins
  <1>6. ASSUME NEW b \in Batches, DiscardImport(p, b, role)
        PROVE  IInv'
    <2>1. /\ pc[p] = "idle" /\ calls' \in Nat
          /\ attempt' \in [Sessions -> 0 .. MaxAttempts]
          /\ source' = [source EXCEPT ![p] = b] /\ pc' = [pc EXCEPT ![p] = "discard"]
          /\ UNCHANGED <<database, locks, attemptVars>>
      BY <1>6 DEF DiscardImport
    <2>2. QED
      BY <2>1, ImportBegins
  <1>7. QED
    BY <1>3, <1>4, <1>5, <1>6

LEMMA PreviewPreserves ==
  ASSUME IInv, NEW b \in Batches, NEW role \in Roles, PreviewImport(b, role)
  PROVE  IInv'
  <1> USE DEF IInv, TypeOK
  <1>1. /\ batch[b] = "NONE" /\ batch' = [batch EXCEPT ![b] = "PENDING"]
        /\ UNCHANGED <<orderSeq, orders, tenantLock, bumped, batchLock, pc, source, auto, manual,
                       needed, free, inserted, round, attempt, calls>>
    BY DEF PreviewImport, locks, attemptVars
  <1>2. TypeOK'
    BY <1>1 DEF BatchStatuses
  <1>3. \A q \in Sessions : SessionOK(q)'
    <2>1. \A q \in Sessions : SameSession(q)
      BY <1>1 DEF SameSession
    <2>2. QED
      BY <1>1, <2>1, OthersKept
  <1>4. LocksOK' /\ SequenceCoversOrders'
    BY <1>1 DEF LocksOK, SequenceCoversOrders
  <1>5. OrdersComeWithBatch'
    BY <1>1 DEF OrdersComeWithBatch
  <1>6. QED
    BY <1>2, <1>3, <1>4, <1>5

LEMMA DiscardPreserves ==
  ASSUME IInv, NEW p \in Sessions, UpdateDiscarded(p)
  PROVE  IInv'
  <1> USE DEF IInv, TypeOK
  <1>1. /\ pc[p] = "discard"
        /\ batch' = [batch EXCEPT ![source[p]] = "DISCARDED"]
        /\ pc' = [pc EXCEPT ![p] = "idle"] /\ source' = [source EXCEPT ![p] = NoBatch]
        /\ UNCHANGED <<orderSeq, orders, tenantLock, bumped, batchLock, auto, manual,
                       needed, free, inserted, round, attempt, calls>>
    BY DEF UpdateDiscarded, locks, attemptVars
  <1>2. TypeOK'
    BY <1>1 DEF BatchStatuses, Steps
  <1>3. SessionOK(p)'
    <2>1. free[p] = {} /\ round[p] = 0 /\ inserted[p] = {} /\ auto[p] = 0
      BY <1>1 DEF SessionOK, StepOK, InsertedOK
    <2>2. QED
      BY <1>1, <2>1 DEF SessionOK, StepOK, FreeOK, InsertedOK, FormOK, IsImport
  <1>4. ASSUME NEW q \in Sessions, q # p
        PROVE  SessionOK(q)'
    <2>1. SameSession(q)
      BY <1>1, <1>4 DEF SameSession
    <2>2. QED
      BY <1>1, <2>1, OthersKept
  <1>5. LocksOK'
    BY <1>1 DEF LocksOK
  <1>6. SequenceCoversOrders' /\ OrdersComeWithBatch'
    BY <1>1 DEF SequenceCoversOrders, OrdersComeWithBatch
  <1>7. QED
    BY <1>2, <1>3, <1>4, <1>5, <1>6

LEMMA ValidatePreserves ==
  ASSUME IInv, NEW p \in Sessions, ValidateImport(p)
  PROVE  IInv'
  <1>1. /\ pc[p] = "validate" /\ source[p] \in Batches /\ IsImport(p)
    BY DEF ValidateImport, IInv, TypeOK, SessionOK, StepOK, IsImport
  <1>2. /\ Rows[source[p]].auto \in Nat
        /\ ValidRows(source[p]) \in SUBSET ManualNumbers
    BY <1>1, RowsAssumption DEF ValidRows, FileRows
  <1>3. /\ Attempt(p, Rows[source[p]].auto, ValidRows(source[p]))
        /\ UNCHANGED <<database, locks, source, free, inserted, round>>
        /\ attempt' \in [Sessions -> 0 .. MaxAttempts] /\ calls' \in Nat
    BY DEF ValidateImport, IInv, TypeOK
  <1>4. QED
    BY <1>1, <1>2, <1>3, AttemptStep

LEMMA ReservePreserves ==
  ASSUME IInv, NEW p \in Sessions, Reserve(p)
  PROVE  IInv'
  <1> USE DEF IInv, TypeOK
  <1>1. /\ pc[p] = "reserve" /\ tenantLock \in {NoSession, p} /\ tenantLock' = p
        /\ bumped' = bumped + needed[p]
        /\ round' = [round EXCEPT ![p] = round[p] + 1]
        /\ pc' = [pc EXCEPT ![p] = "check"]
        /\ UNCHANGED <<orderSeq, orders, batch, batchLock, source, attempt, calls, auto, manual,
                       needed, free, inserted>>
    BY DEF Reserve, database
  <1>2. needed[p] \in Nat /\ bumped' \in Nat /\ bumped <= bumped' /\ needed[p] <= bumped'
    BY <1>1
  <1>3. round[p] < MaxAttempts /\ inserted[p] = {}
    BY <1>1 DEF SessionOK, StepOK, InsertedOK
  <1>4. TypeOK'
    <2>1. round[p] + 1 \in 0 .. MaxAttempts
      BY <1>3, AttemptsAssumption
    <2>2. QED
      BY <1>1, <1>2, <2>1 DEF Steps
  <1>5. SessionOK(p)'
    <2>1. StepOK(p)'
      BY <1>1, <1>2 DEF StepOK, IsImport
    <2>2. FreeOK(p)'
      <3>1. ASSUME NEW n \in free[p]
            PROVE  n <= bumped' /\ (n <= SixDigits => n \notin Numbers(orders))
        <4>1. n \in Nat /\ n <= bumped /\ (n <= SixDigits => n \notin Numbers(orders))
          BY <3>1 DEF SessionOK, FreeOK
        <4>2. QED
          BY <1>2, <4>1
      <3>2. QED
        BY <1>1, <3>1 DEF FreeOK, Numbers
    <2>3. InsertedOK(p)'
      BY <1>1, <1>3 DEF InsertedOK
    <2>4. ~IsImport(p)' => FormOK(p)'
      BY <1>1 DEF SessionOK, FormOK, IsImport
    <2>5. QED
      BY <2>1, <2>2, <2>3, <2>4 DEF SessionOK
  <1>6. ASSUME NEW q \in Sessions, q # p
        PROVE  SessionOK(q)'
    <2>1. SameSession(q)
      BY <1>1, <1>6 DEF SameSession
    <2>2. tenantLock # q
      BY <1>1, <1>6, SessionsAssumption
    <2>3. QED
      BY <1>1, <1>2, <2>1, <2>2, OthersKept
  <1>7. LocksOK'
    BY <1>1, <1>2, SessionsAssumption DEF LocksOK
  <1>8. SequenceCoversOrders' /\ OrdersComeWithBatch'
    BY <1>1 DEF SequenceCoversOrders, OrdersComeWithBatch
  <1>9. QED
    BY <1>4, <1>5, <1>6, <1>7, <1>8

\* Candidates are numbers of the increment the transaction has made.
LEMMA CandidatesReserved ==
  ASSUME IInv, NEW p \in Sessions, pc[p] = "check"
  PROVE  /\ Candidates(p) \subseteq Nat
         /\ \A n \in Candidates(p) : n <= bumped
         /\ Cardinality(Taken(p)) \in Nat
         /\ Cardinality(Taken(p)) = 0 <=> Taken(p) = {}
         /\ needed[p] = 1 => /\ Candidates(p) = {bumped}
                             /\ Taken(p) # {} => Cardinality(Taken(p)) = 1
  <1>1. bumped \in Nat /\ needed[p] \in Nat /\ needed[p] <= bumped
    BY DEF IInv, TypeOK, SessionOK, StepOK
  <1>2. IsFiniteSet(Candidates(p))
    BY <1>1, FS_Interval DEF Candidates
  <1>3. Taken(p) \in SUBSET Candidates(p)
    BY DEF Taken
  <1>4. IsFiniteSet(Taken(p)) /\ Cardinality(Taken(p)) <= Cardinality(Candidates(p))
    BY <1>2, <1>3, FS_Subset
  <1>5. Cardinality(Taken(p)) \in Nat /\ (Cardinality(Taken(p)) = 0 <=> Taken(p) = {})
    BY <1>4, FS_CardinalityType, FS_EmptySet
  <1>6. needed[p] = 1 => Candidates(p) = {bumped} /\ Cardinality(Candidates(p)) = 1
    <2>1. SUFFICES ASSUME needed[p] = 1
                   PROVE  Candidates(p) = {bumped} /\ Cardinality(Candidates(p)) = 1
      OBVIOUS
    <2>2. Candidates(p) = bumped .. bumped
      <3>1. bumped - needed[p] + 1 = bumped
        BY <1>1, <2>1
      <3>2. QED
        BY <3>1 DEF Candidates
    <2>3. Cardinality({bumped}) = 1
      BY FS_Singleton
    <2>4. bumped .. bumped = {bumped}
      BY <1>1
    <2>5. QED
      BY <2>2, <2>3, <2>4
  <1>7. Candidates(p) \subseteq Nat /\ \A n \in Candidates(p) : n <= bumped
    BY <1>1 DEF Candidates
  <1>8. QED
    BY <1>4, <1>5, <1>6, <1>7

LEMMA CheckPreserves ==
  ASSUME IInv, NEW p \in Sessions, CheckCandidates(p)
  PROVE  IInv'
  <1> USE DEF IInv, TypeOK
  <1>1. pc[p] = "check" /\ UNCHANGED calls
    BY DEF CheckCandidates
  <1>2. CASE RollBack(p, "idle", 0)
    <2>1. 0 \in 0 .. MaxAttempts
      BY AttemptsAssumption
    <2>2. QED
      BY <1>1, <1>2, <2>1, RollBackPreserves
  <1>3. CASE ~RollBack(p, "idle", 0)
    <2> DEFINE T == Taken(p)
               C == Candidates(p)
               k == Cardinality(T)
               rows == manual[p] \cup free'[p]
    <2>1. /\ T = {} \/ round[p] < MaxAttempts
          /\ free' = [free EXCEPT ![p] = free[p] \cup (C \ T)]
          /\ needed' = [needed EXCEPT ![p] = k]
          /\ pc' = [pc EXCEPT ![p] = NextStep(p, k, rows)]
          /\ UNCHANGED <<database, locks, source, auto, manual, inserted, round, attempt>>
      BY <1>3 DEF CheckCandidates
    <2>2. /\ C \subseteq Nat /\ \A n \in C : n <= bumped
          /\ k \in Nat /\ (k = 0 <=> T = {})
          /\ needed[p] = 1 => C = {bumped} /\ (T # {} => k = 1)
      BY <1>1, CandidatesReserved
    <2>3. T = C \cap Numbers(orders)
      BY DEF Taken
    <2>4. /\ NextStep(p, k, rows) \in {"reserve", "insert", "mark", "commit"}
          /\ NextStep(p, k, rows) = "reserve" <=> k > 0
          /\ NextStep(p, k, rows) = "insert" <=> k = 0 /\ rows # {}
          /\ NextStep(p, k, rows) = "mark" => IsImport(p)
          /\ NextStep(p, k, rows) = "commit" => ~IsImport(p)
      <3>1. k \in Nat
        BY <2>2
      <3> HIDE DEF k, rows
      <3>2. QED
        BY <3>1, NextStepType, Zenon
    <2> DEFINE next == NextStep(p, k, rows)
    <2> HIDE DEF T, C, k, next, rows
    <2>5. UNCHANGED <<orderSeq, orders, batch, tenantLock, bumped, batchLock>>
      BY <2>1 DEF database, locks
    <2>6. TypeOK'
      BY <1>1, <2>1, <2>2, <2>4, <2>5 DEF Steps, next
    <2>7. tenantLock = p /\ inserted[p] = {}
      BY <1>1 DEF SessionOK, StepOK, InsertedOK
    <2>8. /\ pc'[p] = next /\ needed'[p] = k /\ free'[p] = free[p] \cup (C \ T)
          /\ source'[p] = source[p] /\ manual'[p] = manual[p] /\ auto'[p] = auto[p]
          /\ inserted'[p] = {} /\ round'[p] = round[p] /\ tenantLock' = p
      BY <2>1, <2>5, <2>7 DEF next
    <2>9. FreeOK(p)'
      <3>1. ASSUME NEW n \in free'[p]
            PROVE  n <= bumped /\ (n <= SixDigits => n \notin Numbers(orders))
        <4>1. CASE n \in free[p]
          BY <4>1 DEF SessionOK, FreeOK
        <4>2. CASE n \in C \ T
          BY <2>2, <2>3, <4>2
        <4>3. QED
          BY <2>8, <3>1, <4>1, <4>2
      <3>2. QED
        BY <2>5, <2>8, <3>1 DEF FreeOK, Numbers
    <2>10. ASSUME ~IsImport(p)
           PROVE  FormOK(p)'
      <3>1. auto[p] \in {0, 1} /\ needed[p] = 1 /\ free[p] = {} /\ manual[p] = {}
        BY <1>1, <2>10 DEF SessionOK, FormOK
      <3>2. CASE T = {}
        <4>1. free'[p] = {bumped} /\ next # "reserve" /\ next # "check"
          BY <2>2, <2>4, <2>8, <3>1, <3>2 DEF next
        <4>2. Pending(p)' = {[number |-> bumped, by |-> "sequence"]}
          BY <2>8, <3>1, <4>1 DEF Pending, Typed, Reserved
        <4>3. QED
          BY <2>8, <3>1, <4>1, <4>2 DEF FormOK
      <3>3. CASE T # {}
        <4>1. T = C
          BY <2>2, <2>3, <3>1, <3>3
        <4>2. k = 1 /\ free'[p] = {} /\ next = "reserve"
          BY <2>2, <2>4, <2>8, <3>1, <3>3, <4>1 DEF next
        <4>3. QED
          BY <2>8, <3>1, <4>2 DEF FormOK
      <3>4. QED
        BY <3>2, <3>3
    <2>11. StepOK(p)'
      <3>1. next \in {"reserve", "insert", "mark", "commit"}
        BY <2>4 DEF next
      <3>2. next = "mark" => IsImport(p)
        BY <2>4 DEF next
      <3>3. next = "commit" => ~IsImport(p)
        BY <2>4 DEF next
      <3>4. next = "reserve" => round'[p] < MaxAttempts
        BY <2>1, <2>2, <2>4, <2>8 DEF next
      <3>5. next = "insert" => needed'[p] = 0
        BY <2>4, <2>8 DEF next
      <3>6. IsImport(p)' = IsImport(p)
        BY <2>8 DEF IsImport
      <3>7. QED
        BY <2>8, <3>1, <3>2, <3>3, <3>4, <3>5, <3>6 DEF StepOK
    <2>12. SessionOK(p)'
      BY <2>8, <2>9, <2>10, <2>11 DEF SessionOK, InsertedOK, IsImport
    <2>13. \A q \in Sessions : q # p => SameSession(q)
      BY <2>1 DEF SameSession
    <2>14. QED
      BY <1>1, <2>1, <2>6, <2>12, <2>13, LocalStep
  <1>4. QED
    BY <1>2, <1>3

LEMMA InsertPreserves ==
  ASSUME IInv, NEW p \in Sessions, InsertOrder(p)
  PROVE  IInv'
  <1> USE DEF IInv, TypeOK
  <1>1. PICK row \in Pending(p) :
          /\ pc[p] = "insert"
          /\ inserted' = [inserted EXCEPT ![p] = @ \cup
                {[number |-> row.number, by |-> row.by, batch |-> source[p]]}]
          /\ manual' = [manual EXCEPT ![p] = IF row.by = "user" THEN @ \ {row.number} ELSE @]
          /\ free' = [free EXCEPT ![p] = IF row.by = "sequence" THEN @ \ {row.number} ELSE @]
          /\ pc' = [pc EXCEPT ![p] = NextStep(p, needed[p], Pending(p) \ {row})]
          /\ UNCHANGED <<database, locks, source, auto, needed, round, attempt, calls>>
    BY DEF InsertOrder
  <1> DEFINE new == [number |-> row.number, by |-> row.by, batch |-> source[p]]
             rest == Pending(p) \ {row}
             next == NextStep(p, needed[p], rest)
  <1>2. \/ row.by = "user" /\ row.number \in ManualNumbers
        \/ row.by = "sequence" /\ row.number \in free[p]
    <2>1. CASE row \in Typed(p)
      <3>1. row.by = "user" /\ row.number \in manual[p]
        BY <2>1 DEF Typed
      <3>2. manual[p] \subseteq ManualNumbers
        OBVIOUS
      <3>3. QED
        BY <3>1, <3>2
    <2>2. CASE row \in Reserved(p)
      BY <2>2 DEF Reserved
    <2>3. QED
      BY <2>1, <2>2 DEF Pending
  <1>3. row.number \in Nat /\ new \in Order
    BY <1>2, NumbersAssumption DEF Order
  <1>4. needed[p] = 0 /\ 0 \in Nat
    BY <1>1 DEF SessionOK, StepOK
  <1>5. /\ next \in {"insert", "mark", "commit"}
        /\ next = "insert" <=> rest # {}
        /\ next = "mark" => IsImport(p)
        /\ next = "commit" => ~IsImport(p)
    <2> HIDE DEF rest
    <2>0. 0 \in Nat
      OBVIOUS
    <2>1. /\ NextStep(p, 0, rest) \in {"reserve", "insert", "mark", "commit"}
          /\ NextStep(p, 0, rest) = "reserve" <=> 0 > 0
          /\ NextStep(p, 0, rest) = "insert" <=> 0 = 0 /\ rest # {}
          /\ NextStep(p, 0, rest) = "mark" => IsImport(p)
          /\ NextStep(p, 0, rest) = "commit" => ~IsImport(p)
      BY <2>0, NextStepType, Zenon
    <2>2. QED
      BY <1>4, <2>1
  <1> HIDE DEF next, rest, new
  <1>6. UNCHANGED <<orderSeq, orders, batch, tenantLock, bumped, batchLock>>
    BY <1>1 DEF database, locks
  <1>7. /\ pc'[p] = next /\ inserted'[p] = inserted[p] \cup {new}
        /\ free'[p] \subseteq free[p] /\ source'[p] = source[p]
        /\ needed'[p] = 0 /\ round'[p] = round[p] /\ auto'[p] = auto[p]
    BY <1>1, <1>4 DEF next, rest, new
  <1>8. TypeOK'
    <2>1. next \in Steps
      BY <1>5 DEF Steps
    <2>2. pc' = [pc EXCEPT ![p] = next] /\ inserted' = [inserted EXCEPT ![p] = @ \cup {new}]
      BY <1>1 DEF next, rest, new
    <2>3. QED
      BY <1>1, <1>3, <1>6, <2>1, <2>2
  <1>9. StepOK(p)'
    BY <1>5, <1>7 DEF StepOK, IsImport
  <1>10. FreeOK(p)'
    BY <1>6, <1>7 DEF SessionOK, FreeOK, Numbers
  <1>11. InsertedOK(p)'
    <2>1. \/ new.by = "sequence" /\ tenantLock = p /\ new.number <= bumped
          \/ new.by = "user" /\ new.number > SixDigits
      <3>1. new.by = row.by /\ new.number = row.number
        BY DEF new
      <3>2. CASE row.by = "user" /\ row.number \in ManualNumbers
        BY <3>1, <3>2, NumbersAssumption
      <3>3. CASE row.by = "sequence" /\ row.number \in free[p]
        <4>1. FreeOK(p)
          BY DEF SessionOK
        <4>2. free[p] # {} /\ \A n \in free[p] : n <= bumped
          BY <3>3, <4>1 DEF FreeOK
        <4>3. tenantLock = p /\ row.number <= bumped
          BY <3>3, <4>1, <4>2 DEF FreeOK
        <4>4. QED
          BY <3>1, <3>3, <4>3
      <3>4. QED
        BY <1>2, <3>2, <3>3
    <2>2. new.batch = source[p]
      BY DEF new
    <2>3. QED
      BY <1>5, <1>6, <1>7, <2>1, <2>2 DEF SessionOK, InsertedOK
  <1>12. ASSUME ~IsImport(p)
         PROVE  FormOK(p)'
    <2>1. rest = {}
      BY <1>1, <1>12 DEF SessionOK, FormOK, rest
    <2>2. next = "commit"
      BY <1>5, <1>12, <2>1
    <2>3. QED
      BY <1>7, <1>12, <2>2 DEF SessionOK, FormOK
  <1>13. SessionOK(p)'
    BY <1>7, <1>9, <1>10, <1>11, <1>12 DEF SessionOK, IsImport
  <1>14. \A q \in Sessions : q # p => SameSession(q)
    BY <1>1 DEF SameSession
  <1>15. UNCHANGED <<database, locks>> /\ pc[p] # "commit"
    BY <1>1
  <1>16. QED
    BY <1>8, <1>13, <1>14, <1>15, LocalStep

LEMMA ConflictPreserves ==
  ASSUME IInv, NEW p \in Sessions, NumberConflict(p)
  PROVE  IInv'
  <1>1. CASE ~MayRetry(p)
    <2>1. RollBack(p, "idle", 0) /\ UNCHANGED calls /\ 0 \in 0 .. MaxAttempts
      BY <1>1, AttemptsAssumption DEF NumberConflict
    <2>2. QED
      BY <2>1, RollBackPreserves
  <1>2. CASE MayRetry(p)
    <2> DEFINE next == IF IsImport(p) THEN "validate" ELSE "reserve"
    <2>1. RollBack(p, next, attempt[p] + 1) /\ UNCHANGED calls
      BY <1>2 DEF NumberConflict
    <2>2. attempt[p] + 1 \in 0 .. MaxAttempts
      BY <1>2, AttemptsAssumption DEF MayRetry, IInv, TypeOK
    <2>3. /\ next \in {"idle", "validate", "reserve"}
          /\ next = "validate" => IsImport(p)
          /\ next = "reserve" => ~IsImport(p) /\ auto[p] > 0
      BY <1>2 DEF MayRetry
    <2> HIDE DEF next
    <2>4. QED
      BY <2>1, <2>2, <2>3, RollBackPreserves
  <1>3. QED
    BY <1>1, <1>2

LEMMA MarkPreserves ==
  ASSUME IInv, NEW p \in Sessions, MarkCommitted(p)
  PROVE  IInv'
  <1> USE DEF IInv, TypeOK
  <1>1. /\ pc[p] = "mark" /\ batchLock[source[p]] = NoSession
        /\ batchLock' = [batchLock EXCEPT ![source[p]] = p]
        /\ pc' = [pc EXCEPT ![p] = "commit"]
        /\ UNCHANGED <<orderSeq, orders, batch, tenantLock, bumped, source, auto, manual,
                       needed, free, inserted, round, attempt, calls>>
    BY DEF MarkCommitted, database, attemptVars
  <1>2. IsImport(p) /\ source[p] \in Batches
    BY <1>1 DEF SessionOK, StepOK, IsImport
  <1>3. TypeOK'
    BY <1>1, <1>2 DEF Steps
  <1>4. SessionOK(p)'
    <2>1. StepOK(p)'
      BY <1>1, <1>2 DEF StepOK, IsImport
    <2>2. FreeOK(p)' /\ InsertedOK(p)'
      BY <1>1 DEF SessionOK, FreeOK, InsertedOK, Numbers
    <2>3. QED
      BY <1>1, <1>2, <2>1, <2>2 DEF SessionOK, IsImport
  <1>5. ASSUME NEW q \in Sessions, q # p
        PROVE  SessionOK(q)'
    <2>1. SameSession(q)
      BY <1>1, <1>5 DEF SameSession
    <2>2. \A b \in Batches : batchLock[b] = q => batchLock'[b] = q
      BY <1>1, <1>2, SessionsAssumption
    <2>3. QED
      BY <1>1, <2>1, <2>2, OthersKept
  <1>6. LocksOK'
    <2>1. ASSUME NEW b \in Batches, batchLock'[b] \in Sessions
          PROVE  pc'[batchLock'[b]] = "commit"
      <3>1. CASE b = source[p]
        BY <1>1, <1>2, <3>1
      <3>2. CASE b # source[p]
        BY <1>1, <2>1, <3>2 DEF LocksOK
      <3>3. QED
        BY <3>1, <3>2
    <2>2. QED
      BY <1>1, <2>1 DEF LocksOK
  <1>7. SequenceCoversOrders' /\ OrdersComeWithBatch'
    BY <1>1 DEF SequenceCoversOrders, OrdersComeWithBatch
  <1>8. QED
    BY <1>3, <1>4, <1>5, <1>6, <1>7

\* What a transaction commits: numbers of the sequence while it holds the tenant row, and
\* typed ones.
LEMMA CommitPreserves ==
  ASSUME IInv, NEW p \in Sessions, Commit(p)
  PROVE  IInv'
  <1> USE DEF IInv, TypeOK
  <1>1. /\ pc[p] = "commit" /\ Abandon(p, "idle", 0) /\ UNCHANGED calls
        /\ orderSeq' = (IF tenantLock = p THEN bumped ELSE orderSeq)
        /\ bumped' = bumped
        /\ orders' = orders \cup inserted[p]
        /\ batch' = [b \in Batches |-> IF batchLock[b] = p THEN "COMMITTED" ELSE batch[b]]
    BY DEF Commit, CommittedSequence
  <1>2. SessionOK(p)'
    BY <1>1, AbandonedSession, AttemptsAssumption
  <1>3. orderSeq' \in Nat /\ orderSeq <= orderSeq'
    BY <1>1 DEF LocksOK
  <1>4. \A o \in inserted[p] :
          /\ o.by = "sequence" => tenantLock = p /\ o.number <= bumped
          /\ o.by # "sequence" => o.number > SixDigits
          /\ o.batch = source[p]
    BY DEF SessionOK, InsertedOK
  <1>5. TypeOK'
    <2>1. 0 \in 0 .. MaxAttempts
      BY AttemptsAssumption
    <2>2. orders' \subseteq Order /\ batch' \in [Batches -> BatchStatuses]
      BY <1>1 DEF BatchStatuses
    <2>3. QED
      BY <1>1, <1>3, <2>1, <2>2, AbandonTypes
  <1>6. ASSUME NEW q \in Sessions, q # p
        PROVE  SessionOK(q)'
    <2>1. SameSession(q)
      BY <1>1, <1>6, AbandonTypes, AttemptsAssumption
    <2>2. \A b \in Batches : batchLock[b] = q => batchLock'[b] = q
      BY <1>1, <1>6, AbandonTypes, AttemptsAssumption
    <2>3. ASSUME tenantLock = q
          PROVE  /\ tenantLock' = q /\ bumped <= bumped'
                 /\ \A n \in Numbers(orders') : n \in Numbers(orders) \/ n > SixDigits
      <3>1. tenantLock' = q /\ bumped <= bumped'
        BY <1>1, <1>6, <2>3 DEF Abandon
      <3>2. \A o \in inserted[p] : o.number > SixDigits
        BY <1>4, <1>6, <2>3
      <3>3. QED
        BY <1>1, <3>1, <3>2 DEF Numbers
    <2>4. QED
      BY <1>1, <2>1, <2>2, <2>3, OthersKept
  <1>7. LocksOK'
    <2>1. tenantLock' = IF tenantLock = p THEN NoSession ELSE tenantLock
      BY <1>1 DEF Abandon
    <2>2. orderSeq' <= bumped' /\ (tenantLock' = NoSession => bumped' = orderSeq')
      BY <1>1, <2>1 DEF LocksOK
    <2>3. ASSUME NEW b \in Batches, batchLock'[b] \in Sessions
          PROVE  pc'[batchLock'[b]] = "commit"
      <3>1. batchLock'[b] = batchLock[b] /\ batchLock[b] # p
        BY <1>1, <2>3, SessionsAssumption DEF Abandon
      <3>2. pc'[batchLock[b]] = pc[batchLock[b]]
        BY <1>1, <3>1 DEF Abandon
      <3>3. QED
        BY <2>3, <3>1, <3>2 DEF LocksOK
    <2>4. QED
      BY <2>2, <2>3 DEF LocksOK
  <1>8. SequenceCoversOrders'
    <2>1. ASSUME NEW o \in orders', o.by = "sequence"
          PROVE  o.number <= orderSeq'
      <3>1. CASE o \in orders
        <4>1. o.number <= orderSeq /\ o.number \in Nat
          BY <2>1, <3>1 DEF SequenceCoversOrders, Order
        <4>2. QED
          BY <1>3, <4>1
      <3>2. CASE o \in inserted[p]
        BY <1>1, <1>4, <2>1, <3>2
      <3>3. QED
        BY <1>1, <2>1, <3>1, <3>2
    <2>2. QED
      BY <2>1 DEF SequenceCoversOrders
  <1>9. OrdersComeWithBatch'
    <2>1. ASSUME NEW b \in Batches, batch'[b] \in {"NONE", "PENDING"}, NEW o \in orders'
          PROVE  o.batch # b
      <3>1. batchLock[b] # p /\ batch[b] \in {"NONE", "PENDING"}
        BY <1>1, <2>1
      <3>2. CASE o \in orders
        BY <3>1, <3>2 DEF OrdersComeWithBatch
      <3>3. CASE o \in inserted[p]
        <4>1. IsImport(p) => batchLock[source[p]] = p
          BY <1>1 DEF SessionOK, StepOK
        <4>2. ~IsImport(p) => source[p] # b
          BY BatchesAssumption DEF IsImport
        <4>3. QED
          BY <1>4, <3>1, <3>3, <4>1, <4>2
      <3>4. QED
        BY <1>1, <2>1, <3>2, <3>3
    <2>2. QED
      BY <2>1 DEF OrdersComeWithBatch
  <1>10. QED
    BY <1>2, <1>5, <1>6, <1>7, <1>8, <1>9

LEMMA Start == Init => IInv
  <1> SUFFICES ASSUME Init
               PROVE  IInv
    OBVIOUS
  <1> USE DEF Init
  <1>1. \A o \in orders : o \in Order /\ o.by = "seed" /\ o.batch = NoBatch
    <2>1. SeededNumbers \subseteq Nat
      BY NumbersAssumption
    <2>2. QED
      BY <2>1 DEF Order
  <1>2. TypeOK
    BY <1>1, AttemptsAssumption DEF TypeOK, BatchStatuses, Steps
  <1>3. \A q \in Sessions : SessionOK(q)
    BY DEF SessionOK, StepOK, FreeOK, InsertedOK, FormOK, IsImport
  <1>4. LocksOK
    BY SessionsAssumption DEF LocksOK
  <1>5. SequenceCoversOrders /\ OrdersComeWithBatch
    BY <1>1, BatchesAssumption DEF SequenceCoversOrders, OrdersComeWithBatch
  <1>6. QED
    BY <1>2, <1>3, <1>4, <1>5 DEF IInv

LEMMA Inductive == IInv /\ [Next]_vars => IInv'
  <1> SUFFICES ASSUME IInv, [Next]_vars
               PROVE  IInv'
    OBVIOUS
  <1>1. ASSUME NEW p \in Sessions, NEW role \in Roles,
               \/ CreateOrder(p, role)
               \/ \E n \in ManualNumbers : CreateNumberedOrder(p, n, role)
               \/ \E b \in Batches : CommitImport(p, b, role) \/ DiscardImport(p, b, role)
        PROVE  IInv'
    BY <1>1, RequestsPreserve
  <1>2. ASSUME NEW b \in Batches, NEW role \in Roles, PreviewImport(b, role)
        PROVE  IInv'
    BY <1>2, PreviewPreserves
  <1>3. ASSUME NEW p \in Sessions, UpdateDiscarded(p)
        PROVE  IInv'
    BY <1>3, DiscardPreserves
  <1>4. ASSUME NEW p \in Sessions, ValidateImport(p)
        PROVE  IInv'
    BY <1>4, ValidatePreserves
  <1>5. ASSUME NEW p \in Sessions, Reserve(p)
        PROVE  IInv'
    BY <1>5, ReservePreserves
  <1>6. ASSUME NEW p \in Sessions, CheckCandidates(p)
        PROVE  IInv'
    BY <1>6, CheckPreserves
  <1>7. ASSUME NEW p \in Sessions, InsertOrder(p)
        PROVE  IInv'
    BY <1>7, InsertPreserves
  <1>8. ASSUME NEW p \in Sessions, NumberConflict(p)
        PROVE  IInv'
    BY <1>8, ConflictPreserves
  <1>9. ASSUME NEW p \in Sessions, MarkCommitted(p)
        PROVE  IInv'
    BY <1>9, MarkPreserves
  <1>10. ASSUME NEW p \in Sessions, Commit(p)
         PROVE  IInv'
    BY <1>10, CommitPreserves
  <1>11. ASSUME NEW p \in Sessions, Rollback(p)
         PROVE  IInv'
    <2>1. RollBack(p, "idle", 0) /\ UNCHANGED calls /\ 0 \in 0 .. MaxAttempts
      BY <1>11, AttemptsAssumption DEF Rollback
    <2>2. QED
      BY <2>1, RollBackPreserves
  <1>12. CASE UNCHANGED vars
    <2>1. UNCHANGED <<orderSeq, orders, batch, tenantLock, bumped, batchLock, pc, source, auto,
                      manual, needed, free, inserted, round, attempt, calls>>
      BY <1>12 DEF vars, database, locks, attemptVars
    <2>2. TypeOK' /\ LocksOK' /\ SequenceCoversOrders' /\ OrdersComeWithBatch'
      BY <2>1 DEF IInv, TypeOK, LocksOK, SequenceCoversOrders, OrdersComeWithBatch
    <2>3. \A q \in Sessions : SessionOK(q)'
      BY <2>1, OthersKept DEF SameSession, IInv, TypeOK
    <2>4. QED
      BY <2>2, <2>3 DEF IInv
  <1>13. QED
    BY <1>1, <1>2, <1>3, <1>4, <1>5, <1>6, <1>7, <1>8, <1>9, <1>10, <1>11, <1>12 DEF Next

-----------------------------------------------------------------------------
\* The invariant of the proofs holds in every reachable state.
THEOREM Invariance == Spec => []IInv
  BY Start, Inductive, PTL DEF Spec

\* Whatever requests are served at the same time, the database and what they remember stay
\* of their types; in particular no request makes more than ORDER_NUMBER_MAX_ATTEMPTS
\* attempts of withOrderNumberRetry() or rounds of reserveOrderNumbers().
THEOREM TypeCorrect == Spec => []TypeOK
  <1>1. IInv => TypeOK
    BY DEF IInv
  <1>2. QED
    BY <1>1, Invariance, PTL

\* Tenant.orderSeq is never behind an order that reserveOrderNumbers() numbered.
THEOREM SequenceNeverBehind == Spec => []SequenceCoversOrders
  <1>1. IInv => SequenceCoversOrders
    BY DEF IInv
  <1>2. QED
    BY <1>1, Invariance, PTL

\* commitImport() is all or nothing: a batch that is still PENDING has no orders.
THEOREM ImportsAreAtomic == Spec => []OrdersComeWithBatch
  <1>1. IInv => OrdersComeWithBatch
    BY DEF IInv
  <1>2. QED
    BY <1>1, Invariance, PTL

\* Nobody takes a number of six digits between reserveOrderNumbers() and the insert.
THEOREM ReservationsHold == Spec => []ReservedNumbersAreFree
  <1>1. ASSUME IInv, NEW p \in Sessions, NEW n \in free[p], n <= SixDigits
        PROVE  /\ n \notin Numbers(orders)
               /\ \A q \in Sessions \ {p} : n \notin free[q] \cup Numbers(inserted[q])
    <2>1. tenantLock = p /\ n \notin Numbers(orders)
      BY <1>1 DEF IInv, SessionOK, FreeOK
    <2>2. ASSUME NEW q \in Sessions \ {p}
          PROVE  n \notin free[q] \cup Numbers(inserted[q])
      <3>1. free[q] = {}
        BY <2>1, <1>1 DEF IInv, SessionOK, FreeOK
      <3>2. \A o \in inserted[q] : o.number > SixDigits
        BY <2>1, <1>1 DEF IInv, SessionOK, InsertedOK
      <3>3. n \in Nat /\ SixDigits \in Nat
        BY <1>1, NumbersAssumption DEF IInv, TypeOK
      <3>4. n \notin Numbers(inserted[q])
        BY <1>1, <3>2, <3>3 DEF Numbers
      <3>5. QED
        BY <3>1, <3>4
    <2>3. QED
      BY <2>1, <2>2
  <1>2. IInv => ReservedNumbersAreFree
    BY <1>1 DEF ReservedNumbersAreFree
  <1>3. QED
    BY <1>2, Invariance, PTL

-----------------------------------------------------------------------------
\* A session that waits and is waited for.  The holder of a batch's row is about to commit
\* and waits for nothing, and a form that has inserted its row does not wait either.
LEMMA WaitingForTheWaiting ==
  ASSUME IInv, NEW p \in Sessions, NEW q \in Sessions, p # q, WaitsFor(p, q),
         pc[q] \in {"reserve", "insert", "mark", "discard"}
  PROVE  \/ pc[p] = "reserve" /\ tenantLock = q
         \/ pc[p] = "insert" /\ pc[q] \in {"insert", "mark"} /\ IsImport(q)
  <1>1. CASE pc[p] = "reserve" /\ tenantLock = q
    BY <1>1
  <1>2. CASE pc[p] \in {"mark", "discard"} /\ batchLock[source[p]] = q
    <2>1. source[p] \in Batches
      BY <1>2 DEF IInv, TypeOK, SessionOK, StepOK, IsImport
    <2>2. pc[q] = "commit"
      BY <1>2, <2>1 DEF IInv, LocksOK
    <2>3. QED
      BY <2>2
  <1>3. CASE pc[p] = "insert" /\ \E row \in Pending(p) : q \in Holders(p, row.number)
    <2>1. inserted[q] # {}
      BY <1>3 DEF Holders, Numbers
    <2>2. pc[q] \in {"insert", "mark"}
      BY <2>1 DEF IInv, SessionOK, InsertedOK
    <2>3. IsImport(q)
      BY <2>1, <2>2 DEF IInv, SessionOK, StepOK, FormOK
    <2>4. QED
      BY <1>3, <2>2, <2>3
  <1>4. QED
    BY <1>1, <1>2, <1>3 DEF WaitsFor

\* Requests of which at most one is an import never all wait for each other: reservations
\* wait for one tenant row, and its holder does not wait for it.
THEOREM FormsDoNotDeadlock == Spec => []DeadlocksNeedTwoImports
  <1>1. ASSUME IInv, NEW group \in SUBSET Sessions, group # {},
               \A p, q \in group : IsImport(p) /\ IsImport(q) => p = q,
               \A p \in group : \E q \in group \ {p} : WaitsFor(p, q)
        PROVE  FALSE
    <2>1. ASSUME NEW p \in group
          PROVE  pc[p] \in {"reserve", "insert", "mark", "discard"}
      BY <1>1, <2>1 DEF WaitsFor
    <2>2. ASSUME NEW p \in group
          PROVE  \E q \in group \ {p} :
                    \/ pc[p] = "reserve" /\ tenantLock = q
                    \/ pc[p] = "insert" /\ pc[q] \in {"insert", "mark"} /\ IsImport(q)
      <3>1. PICK q \in group \ {p} : WaitsFor(p, q)
        BY <1>1, <2>2
      <3>2. QED
        BY <1>1, <2>1, <3>1, WaitingForTheWaiting
    <2>3. ASSUME NEW p \in group, pc[p] = "insert"
          PROVE  FALSE
      <3>1. PICK q \in group \ {p} : pc[q] \in {"insert", "mark"} /\ IsImport(q)
        BY <2>2, <2>3
      <3>2. PICK r \in group \ {q} : IsImport(r)
        BY <2>2, <3>1
      <3>3. QED
        BY <1>1, <3>1, <3>2
    <2>4. PICK p \in group : TRUE
      BY <1>1
    <2>5. PICK q \in group \ {p} : tenantLock = q
      BY <2>2, <2>3
    <2>6. PICK r \in group \ {q} : tenantLock = r
      BY <2>2, <2>3, <2>5
    <2>7. QED
      BY <2>5, <2>6
  <1>2. IInv => DeadlocksNeedTwoImports
    <2>1. SUFFICES ASSUME IInv, NEW group \in SUBSET Sessions, group # {},
                          \A p, q \in group : IsImport(p) /\ IsImport(q) => p = q
                   PROVE  \E p \in group : \A q \in group \ {p} : ~WaitsFor(p, q)
      BY DEF DeadlocksNeedTwoImports
    <2>2. QED
      BY <1>1, <2>1
  <1>3. QED
    BY <1>2, Invariance, PTL
===============================================================================
