------------------------- MODULE ProductionFlowProofs -------------------------
(***************************************************************************)
(* Proofs about ProductionFlow, for every set of orders, products, routing *)
(* sequences and every routing.  The assumption is FloorActionsOnly: the   *)
(* callers of applyOperationTransition() ask for what the floor page's     *)
(* server actions ask for, so no step is ever skipped or put back in the   *)
(* queue from the floor.                                                   *)
(***************************************************************************)
EXTENDS ProductionFlow, TLAPS

FloorActionsOnly == FloorTargets \subseteq {"IN_PROGRESS", "ON_HOLD", "COMPLETED"}

\* One row, whatever happened to it: the part of the inductive invariant that
\* concerns rows.
RowOK(e) ==
    /\ e \in Entry \cup {NoEntry}
    /\ e.status # "SKIPPED"
    /\ e.ended <=> e.status = "COMPLETED"
    /\ e.started => Underlying(e) \in {"IN_PROGRESS", "ON_HOLD", "COMPLETED"}

Rows == \A o \in Orders, s \in Seqs : RowOK(entry[o][s])

OrderStamps == \A o \in Orders : completedAt[o] <=> status[o] = "COMPLETED"

IInv ==
    /\ TypeOK
    /\ Rows
    /\ OrderStamps
    /\ HoldFreezesWork
    /\ NoSilentGap
    /\ RunsNeverCollide

USE DEF Exists

-----------------------------------------------------------------------------
\* What each handler makes of a row.

LEMMA NoEntryRow == RowOK(NoEntry) /\ RowOK(FreshEntry) /\ FreshEntry \in Entry
  BY DEF RowOK, NoEntry, FreshEntry, Entry, Underlying, OperationStatuses, HoldReasons

\* A hold keeps a row sound, takes it out of work and keeps what it underlies.
LEMMA HeldRow ==
  ASSUME NEW e, RowOK(e)
  PROVE  /\ RowOK(Held(e))
         /\ Held(e).status \notin {"QUEUED", "IN_PROGRESS"}
         /\ Underlying(Held(e)) = Underlying(e)
         /\ Held(e).started = e.started
         /\ Held(e).locked = e.locked
         /\ Exists(Held(e)) <=> Exists(e)
  <1>1. CASE e = NoEntry
    BY <1>1 DEF RowOK, NoEntry, Held, Underlying
  <1>2. CASE e \in Entry
    BY <1>2 DEF RowOK, Entry, Held, Underlying, OperationStatuses, HoldReasons
  <1>3. QED
    BY <1>1, <1>2 DEF RowOK

LEMMA ReleasedRow ==
  ASSUME NEW e, RowOK(e)
  PROVE  /\ RowOK(Released(e))
         /\ Underlying(Released(e)) = Underlying(e)
         /\ Released(e).started = e.started
         /\ Released(e).locked = e.locked
         /\ Exists(Released(e)) <=> Exists(e)
  <1>1. CASE e = NoEntry
    BY <1>1 DEF RowOK, NoEntry, Released, Underlying
  <1>2. CASE e \in Entry
    BY <1>2 DEF RowOK, Entry, Released, Underlying, OperationStatuses, HoldReasons
  <1>3. QED
    BY <1>1, <1>2 DEF RowOK

LEMMA MovedRow ==
  ASSUME NEW e, RowOK(e), NEW to \in {"IN_PROGRESS", "ON_HOLD", "COMPLETED"},
         NEW role, CanTransitionOperation(e.status, to, role)
  PROVE  /\ RowOK(Moved(e, to))
         /\ Moved(e, to).status = to
         /\ e.status \in {"QUEUED", "IN_PROGRESS", "ON_HOLD", "COMPLETED"}
         /\ to = "ON_HOLD" => e.status \in {"QUEUED", "IN_PROGRESS"}
         /\ e.started => Moved(e, to).started
         /\ Moved(e, to).locked = e.locked
  <1>1. <<e.status, to>> \in OperationTransitions
    BY DEF CanTransitionOperation
  <1>2. /\ e.status \in {"QUEUED", "IN_PROGRESS", "ON_HOLD", "COMPLETED"}
        /\ to = "ON_HOLD" => e.status \in {"QUEUED", "IN_PROGRESS"}
        /\ to = "COMPLETED" => e.status = "IN_PROGRESS"
    BY <1>1 DEF OperationTransitions
  <1>3. e \in Entry
    BY <1>2 DEF RowOK, NoEntry
  <1>4. QED
    BY <1>2, <1>3 DEF RowOK, Entry, Moved, Underlying, OperationStatuses, HoldReasons

LEMMA LockedRow ==
  ASSUME NEW e, RowOK(e), Exists(e), NEW b \in BOOLEAN
  PROVE  /\ RowOK([e EXCEPT !.locked = b])
         /\ [e EXCEPT !.locked = b].status = e.status
         /\ [e EXCEPT !.locked = b].started = e.started
         /\ [e EXCEPT !.locked = b].locked = b
         /\ Underlying([e EXCEPT !.locked = b]) = Underlying(e)
  <1>1. e \in Entry
    BY DEF RowOK, NoEntry
  <1>2. QED
    BY <1>1 DEF RowOK, Entry, Underlying

-----------------------------------------------------------------------------
\* The rolled-up status of an open order is new only on an order at work, which it
\* starts or completes.
LEMMA RollUp ==
  ASSUME NEW st \in OrderStatuses \cup {"NONE"}, st \notin TerminalStatuses, NEW steps
  PROVE  /\ RolledUp(st, steps) \in OrderStatuses \cup {"NONE"}
         /\ RolledUp(st, steps) # st =>
              /\ st \in {"QUEUED", "IN_PROGRESS"}
              /\ RolledUp(st, steps) \in {"IN_PROGRESS", "COMPLETED"}
              /\ <<st, RolledUp(st, steps)>> \notin Reopens
  BY DEF RolledUp, RollupTarget, CanTransition, Reopens, OrderTransitions,
         OrderStatuses, OpenStatuses, TerminalStatuses

LEMMA InitInductive == Init => IInv
  <1> SUFFICES ASSUME Init PROVE IInv
    OBVIOUS
  <1>1. TypeOK
    BY DEF Init, TypeOK, OrderStatuses
  <1>2. Rows
    BY NoEntryRow DEF Init, Rows
  <1>3. OrderStamps /\ HoldFreezesWork /\ NoSilentGap /\ RunsNeverCollide
    BY DEF Init, OrderStamps, HoldFreezesWork, NoSilentGap, RunsNeverCollide, Considered
  <1>4. QED
    BY <1>1, <1>2, <1>3 DEF IInv

-----------------------------------------------------------------------------
\* Orders.

LEMMA CreateOrderInductive ==
  ASSUME IInv, NEW o \in Orders, NEW p \in Products, NEW role \in Roles,
         CreateOrder(o, p, role)
  PROVE  IInv'
  <1>1. TypeOK'
    BY DEF IInv, TypeOK, CreateOrder, OrderStatuses, OpenStatuses
  <1>2. Rows' /\ OrderStamps' /\ HoldFreezesWork' /\ RunsNeverCollide'
    BY DEF IInv, TypeOK, Rows, OrderStamps, HoldFreezesWork, RunsNeverCollide, CreateOrder
  <1>3. NoSilentGap'
    BY DEF IInv, TypeOK, NoSilentGap, Considered, CreateOrder
  <1>4. QED
    BY <1>1, <1>2, <1>3 DEF IInv

LEMMA UpdateOrderInductive ==
  ASSUME IInv, NEW o \in Orders, NEW p \in Products, NEW role \in Roles,
         UpdateOrder(o, p, role)
  PROVE  IInv'
  <1>1. TypeOK'
    BY DEF IInv, TypeOK, UpdateOrder
  <1>2. Rows' /\ OrderStamps' /\ HoldFreezesWork' /\ RunsNeverCollide'
    BY DEF IInv, TypeOK, Rows, OrderStamps, HoldFreezesWork, RunsNeverCollide, UpdateOrder
  <1>3. NoSilentGap'
    BY DEF IInv, TypeOK, NoSilentGap, Considered, UpdateOrder
  <1>4. QED
    BY <1>1, <1>2, <1>3 DEF IInv

LEMMA PlantChangedInductive == IInv /\ PlantChanged => IInv'
  BY DEF IInv, TypeOK, Rows, OrderStamps, HoldFreezesWork, NoSilentGap, RunsNeverCollide,
         Considered, PlantChanged, IsOpen

\* The rows of an order after its status changed.
LEMMA ChangedRows ==
  ASSUME IInv, NEW o \in Orders, NEW to \in OrderStatuses, NEW role \in Roles,
         ChangeOrderStatus(o, to, role)
  PROVE  \A q \in Orders, s \in Seqs :
           /\ RowOK(entry'[q][s])
           /\ Underlying(entry'[q][s]) = Underlying(entry[q][s])
           /\ entry'[q][s].started = entry[q][s].started
           /\ entry'[q][s].locked = entry[q][s].locked
           /\ Exists(entry'[q][s]) <=> Exists(entry[q][s])
           /\ q # o => entry'[q][s] = entry[q][s]
           /\ q = o /\ to = "ON_HOLD" => entry'[q][s].status \notin {"QUEUED", "IN_PROGRESS"}
  <1> TAKE q \in Orders, s \in Seqs
  <1>1. RowOK(entry[q][s])
    BY DEF IInv, Rows
  <1>2. CASE q # o
    BY <1>1, <1>2 DEF IInv, TypeOK, ChangeOrderStatus
  <1>3. CASE q = o /\ to = "ON_HOLD"
    <2>1. entry'[q][s] = Held(entry[q][s])
      BY <1>3 DEF IInv, TypeOK, ChangeOrderStatus
    <2>2. QED
      BY <1>1, <1>3, <2>1, HeldRow
  <1>4. CASE q = o /\ to # "ON_HOLD" /\ status[o] = "ON_HOLD"
    <2>1. entry'[q][s] = Released(entry[q][s])
      BY <1>4 DEF IInv, TypeOK, ChangeOrderStatus
    <2>2. QED
      BY <1>1, <1>4, <2>1, ReleasedRow
  <1>5. CASE q = o /\ to # "ON_HOLD" /\ status[o] # "ON_HOLD"
    BY <1>1, <1>5 DEF IInv, TypeOK, ChangeOrderStatus
  <1>6. QED
    BY <1>2, <1>3, <1>4, <1>5

LEMMA ChangeOrderStatusInductive ==
  ASSUME IInv, NEW o \in Orders, NEW to \in OrderStatuses, NEW role \in Roles,
         ChangeOrderStatus(o, to, role)
  PROVE  IInv'
  <1>1. Rows'
    BY ChangedRows DEF Rows
  <1>2. entry' \in [Orders -> [Seqs -> Entry \cup {NoEntry}]]
    <2> DEFINE row == [s \in Seqs |-> IF to = "ON_HOLD" THEN Held(entry[o][s])
                                     ELSE IF status[o] = "ON_HOLD" THEN Released(entry[o][s])
                                     ELSE entry[o][s]]
    <2>1. entry' = [entry EXCEPT ![o] = row]
      BY DEF ChangeOrderStatus
    <2>2. \A s \in Seqs : row[s] \in Entry \cup {NoEntry}
      BY <2>1, ChangedRows DEF IInv, TypeOK, RowOK
    <2>3. row \in [Seqs -> Entry \cup {NoEntry}]
      BY <2>2
    <2>4. QED
      BY <2>1, <2>3 DEF IInv, TypeOK
  <1>3. TypeOK'
    BY <1>2 DEF IInv, TypeOK, ChangeOrderStatus, CompletedAtFor
  <1>4. OrderStamps'
    BY DEF IInv, TypeOK, OrderStamps, ChangeOrderStatus, CompletedAtFor, CanTransition,
           Reopens, OrderTransitions
  <1>5. HoldFreezesWork'
    <2> SUFFICES ASSUME NEW q \in Orders, NEW s \in Seqs, status'[q] = "ON_HOLD"
                 PROVE  entry'[q][s].status \notin {"QUEUED", "IN_PROGRESS"}
      BY DEF HoldFreezesWork
    <2>1. CASE q = o
      <3>1. to = "ON_HOLD"
        BY <2>1 DEF IInv, TypeOK, ChangeOrderStatus
      <3>2. QED
        BY <2>1, <3>1, ChangedRows
    <2>2. CASE q # o
      <3>1. status[q] = "ON_HOLD" /\ entry'[q][s] = entry[q][s]
        BY <2>2, ChangedRows DEF IInv, TypeOK, ChangeOrderStatus
      <3>2. QED
        BY <3>1 DEF IInv, HoldFreezesWork
    <2>3. QED
      BY <2>1, <2>2
  <1>6. NoSilentGap'
    <2> SUFFICES ASSUME NEW q \in Orders, status'[q] \in {"QUEUED", "IN_PROGRESS"},
                        ~dirty'[q], ~conflict'[q], NEW s \in Routing[product'[q]]
                 PROVE  Exists(entry'[q][s])
      BY DEF NoSilentGap, Considered
    <2>1. q # o
      BY DEF IInv, TypeOK, ChangeOrderStatus, OpenStatuses
    <2>2. /\ status'[q] = status[q] /\ dirty'[q] = dirty[q]
          /\ conflict'[q] = conflict[q] /\ product'[q] = product[q] /\ entry'[q] = entry[q]
      BY <2>1 DEF IInv, TypeOK, ChangeOrderStatus
    <2>3. QED
      BY <2>2 DEF IInv, NoSilentGap, Considered
  <1>7. RunsNeverCollide'
    BY DEF IInv, RunsNeverCollide, ChangeOrderStatus
  <1>8. QED
    BY <1>1, <1>3, <1>4, <1>5, <1>6, <1>7 DEF IInv

-----------------------------------------------------------------------------
\* The shop floor.

\* A floor step touches one row, which stays sound and keeps what has begun.
LEMMA FloorRows ==
  ASSUME FloorActionsOnly, IInv, NEW o \in Orders, NEW s \in Seqs, NEW to \in FloorTargets,
         NEW role \in Roles, NEW override \in Overrides, NEW late \in BOOLEAN,
         ApplyOperationTransition(o, s, to, role, override, late)
  PROVE  /\ entry' = [entry EXCEPT ![o] = [entry[o] EXCEPT ![s] = Moved(entry[o][s], to)]]
         /\ to \in {"IN_PROGRESS", "ON_HOLD", "COMPLETED"}
         /\ Exists(entry[o][s])
         /\ status[o] # "ON_HOLD"
         /\ \A q \in Orders, r \in Seqs :
              /\ RowOK(entry'[q][r])
              /\ entry[q][r].started => entry'[q][r].started
              /\ entry'[q][r].locked = entry[q][r].locked
              /\ Exists(entry'[q][r]) <=> Exists(entry[q][r])
              /\ q # o => entry'[q][r] = entry[q][r]
  <1> DEFINE e == entry[o][s]
  <1>1. to \in {"IN_PROGRESS", "ON_HOLD", "COMPLETED"}
    BY DEF FloorActionsOnly
  <1>2. RowOK(e) /\ CanTransitionOperation(e.status, to, role)
    BY DEF IInv, Rows, ApplyOperationTransition
  <1>3. /\ RowOK(Moved(e, to))
        /\ Moved(e, to).status = to
        /\ e.status \in {"QUEUED", "IN_PROGRESS", "ON_HOLD", "COMPLETED"}
        /\ to = "ON_HOLD" => e.status \in {"QUEUED", "IN_PROGRESS"}
        /\ e.started => Moved(e, to).started
        /\ Moved(e, to).locked = e.locked
    BY <1>1, <1>2, MovedRow
  <1>4. entry' = [entry EXCEPT ![o] = [entry[o] EXCEPT ![s] = Moved(e, to)]]
    BY DEF ApplyOperationTransition
  <1>5. status[o] # "ON_HOLD"
    <2>1. status[o] = "ON_HOLD" => to = "ON_HOLD"
      BY DEF ApplyOperationTransition
    <2>2. QED
      BY <1>3, <2>1 DEF IInv, HoldFreezesWork
  <1>6. ASSUME NEW q \in Orders, NEW r \in Seqs
        PROVE  /\ RowOK(entry'[q][r])
               /\ entry[q][r].started => entry'[q][r].started
               /\ entry'[q][r].locked = entry[q][r].locked
               /\ Exists(entry'[q][r]) <=> Exists(entry[q][r])
               /\ q # o => entry'[q][r] = entry[q][r]
    <2>1. CASE q = o /\ r = s
      <3>1. entry'[q][r] = Moved(e, to)
        BY <1>4, <2>1 DEF IInv, TypeOK
      <3>2. QED
        BY <1>1, <1>3, <2>1, <3>1
    <2>2. CASE q # o \/ r # s
      <3>1. entry'[q][r] = entry[q][r]
        BY <1>4, <2>2 DEF IInv, TypeOK
      <3>2. QED
        BY <3>1 DEF IInv, Rows
    <2>3. QED
      BY <2>1, <2>2
  <1>7. QED
    BY <1>1, <1>3, <1>4, <1>5, <1>6

LEMMA FloorInductive ==
  ASSUME FloorActionsOnly, IInv, NEW o \in Orders, NEW s \in Seqs, NEW to \in FloorTargets,
         NEW role \in Roles, NEW override \in Overrides, NEW late \in BOOLEAN,
         ApplyOperationTransition(o, s, to, role, override, late)
  PROVE  IInv'
  <1> DEFINE row    == [entry[o] EXCEPT ![s] = Moved(entry[o][s], to)]
             rolled == RolledUp(status[o], StatusesOf(row))
             closes == rolled = "COMPLETED" /\ status[o] # "COMPLETED"
  <1>1. PICK flags \in BOOLEAN :
          /\ status' = [status EXCEPT ![o] = rolled]
          /\ completedAt' = [completedAt EXCEPT ![o] =
                IF rolled = status[o] THEN @ ELSE CompletedAtFor(status[o], rolled, @)]
          /\ dirty' = [dirty EXCEPT ![o] = (@ \/ flags) /\ ~closes]
          /\ conflict' = [conflict EXCEPT ![o] = @ /\ ~closes]
          /\ product' = product /\ lastRun' = lastRun
    BY Zenon DEF ApplyOperationTransition
  <1> HIDE DEF row
  <1> DEFINE was == status[o]
  <1>2. /\ was \in OrderStatuses \cup {"NONE"}
        /\ was \notin TerminalStatuses /\ was # "ON_HOLD"
    BY FloorRows DEF IInv, TypeOK, ApplyOperationTransition
  <1>3. /\ rolled \in OrderStatuses \cup {"NONE"}
        /\ rolled # was => /\ was \in {"QUEUED", "IN_PROGRESS"}
                           /\ rolled \in {"IN_PROGRESS", "COMPLETED"}
                           /\ <<was, rolled>> \notin Reopens
    BY <1>2, RollUp
  <1> HIDE DEF rolled
  <1>4. entry' \in [Orders -> [Seqs -> Entry \cup {NoEntry}]]
    <2>1. entry' = [entry EXCEPT ![o] = [entry[o] EXCEPT ![s] = Moved(entry[o][s], to)]]
      BY FloorRows
    <2>2. entry'[o][s] = Moved(entry[o][s], to)
      BY <2>1 DEF IInv, TypeOK
    <2>3. RowOK(entry'[o][s])
      BY FloorRows
    <2>4. Moved(entry[o][s], to) \in Entry \cup {NoEntry}
      BY <2>2, <2>3 DEF RowOK
    <2>5. QED
      BY <2>1, <2>4 DEF IInv, TypeOK
  <1>5. TypeOK'
    BY <1>1, <1>3, <1>4 DEF IInv, TypeOK, CompletedAtFor
  <1>6. Rows'
    BY FloorRows DEF Rows
  <1>7. OrderStamps'
    BY <1>1, <1>2, <1>3 DEF IInv, TypeOK, OrderStamps, CompletedAtFor, TerminalStatuses
  <1>8. HoldFreezesWork'
    <2> SUFFICES ASSUME NEW q \in Orders, NEW r \in Seqs, status'[q] = "ON_HOLD"
                 PROVE  entry'[q][r].status \notin {"QUEUED", "IN_PROGRESS"}
      BY DEF HoldFreezesWork
    <2>1. q # o
      BY <1>1, <1>2, <1>3 DEF IInv, TypeOK
    <2>2. status[q] = "ON_HOLD" /\ entry'[q][r] = entry[q][r]
      BY <1>1, <2>1, FloorRows DEF IInv, TypeOK
    <2>3. QED
      BY <2>2 DEF IInv, HoldFreezesWork
  <1>9. NoSilentGap'
    <2> SUFFICES ASSUME NEW q \in Orders, status'[q] \in {"QUEUED", "IN_PROGRESS"},
                        ~dirty'[q], ~conflict'[q], NEW r \in Routing[product'[q]]
                 PROVE  Exists(entry'[q][r])
      BY DEF NoSilentGap, Considered
    <2>1. r \in Seqs
      BY <1>5, RoutingAssumption DEF TypeOK
    <2>2. /\ status[q] \in {"QUEUED", "IN_PROGRESS"}
          /\ ~dirty[q] /\ ~conflict[q] /\ product'[q] = product[q]
      BY <1>1, <1>2, <1>3 DEF IInv, TypeOK
    <2>3. Exists(entry[q][r])
      BY <2>2 DEF IInv, NoSilentGap, Considered
    <2>4. QED
      BY <2>1, <2>3, FloorRows
  <1>10. RunsNeverCollide'
    BY <1>1 DEF IInv, RunsNeverCollide
  <1>11. QED
    BY <1>5, <1>6, <1>7, <1>8, <1>9, <1>10 DEF IInv

-----------------------------------------------------------------------------
\* Schedule runs.

\* A run starts from the current table of entries, or from one that differs from it in
\* the lock of a row.
SameButLocks(E) ==
    /\ E \in [Orders -> [Seqs -> Entry \cup {NoEntry}]]
    /\ \A q \in Orders, r \in Seqs :
          /\ RowOK(E[q][r])
          /\ E[q][r].status = entry[q][r].status
          /\ E[q][r].started = entry[q][r].started
          /\ Underlying(E[q][r]) = Underlying(entry[q][r])

\* The two tests a run makes of a row, isFixedEntry() and the WHERE of its deleteMany,
\* leave nothing out as long as the rows are sound.
LEMMA FixedOrReplaced ==
  ASSUME NEW e, RowOK(e), Exists(e)
  PROVE  IsFixedEntry(e) \/ IsReplaced(e)
  <1>1. e \in Entry
    BY DEF RowOK, NoEntry
  <1>2. QED
    BY <1>1 DEF RowOK, Entry, Underlying, OperationStatuses, HoldReasons, IsFixedEntry, IsReplaced

LEMMA NoCollision ==
  ASSUME IInv, NEW E, SameButLocks(E), NEW failed
  PROVE  ~Collides(E, failed)
  <1> SUFFICES ASSUME NEW q \in Orders, NEW r \in Planned(E, failed, q),
                      Exists(AfterDelete(E)[q][r])
               PROVE  FALSE
    BY DEF Collides
  <1>1. /\ q \in Considered
        /\ r \in Routing[product[q]]
        /\ r \notin FixedSeqs(E, q)
    BY DEF Planned, Remaining
  <1>2. r \in Seqs
    BY <1>1, RoutingAssumption DEF IInv, TypeOK
  <1>3. ~IsReplaced(E[q][r]) /\ Exists(E[q][r])
    BY <1>1, <1>2 DEF AfterDelete, NoEntry
  <1>4. ~IsFixedEntry(E[q][r])
    BY <1>1, <1>2, <1>3 DEF FixedSeqs
  <1>5. QED
    BY <1>2, <1>3, <1>4, FixedOrReplaced DEF SameButLocks

\* What a run that completes does to the rows: one it deleted had not been started and
\* belongs to an order at work, and is gone or is queued anew.
LEMMA RunRows ==
  ASSUME IInv, NEW E, SameButLocks(E), RunOn(E)
  PROVE  /\ \E failed \in SUBSET MayFail(E), reported \in SUBSET Orders :
              failed \subseteq reported /\ RunCompletes(E, failed, reported)
         /\ \A q \in Orders, r \in Seqs :
              \/ entry'[q][r] = E[q][r]
              \/ /\ q \in Considered
                 /\ ~E[q][r].started /\ ~E[q][r].locked
                 /\ entry'[q][r] \in {NoEntry, FreshEntry}
  <1>1. PICK failed \in SUBSET MayFail(E), more \in SUBSET MayConflict(E) :
          RunCompletes(E, failed, failed \cup more)
    BY NoCollision DEF RunOn, RunFails
  <1>2. failed \cup more \subseteq Orders
    BY DEF MayFail, MayConflict, Considered
  <1>3. ASSUME NEW q \in Orders, NEW r \in Seqs
        PROVE  \/ entry'[q][r] = E[q][r]
               \/ /\ q \in Considered
                  /\ ~E[q][r].started /\ ~E[q][r].locked
                  /\ entry'[q][r] \in {NoEntry, FreshEntry}
    <2>1. CASE r \in Planned(E, failed, q)
      <3>1. entry'[q][r] = FreshEntry /\ q \in Considered
        BY <1>1, <2>1 DEF RunCompletes, Planned
      <3>2. ~Exists(AfterDelete(E)[q][r])
        BY <1>1, <2>1 DEF RunCompletes, Collides
      <3>3. ~Exists(E[q][r]) \/ IsReplaced(E[q][r])
        BY <3>2 DEF AfterDelete
      <3>4. ~E[q][r].started /\ ~E[q][r].locked
        BY <3>3 DEF SameButLocks, RowOK, Entry, NoEntry, OperationStatuses, IsReplaced
      <3>5. QED
        BY <3>1, <3>4
    <2>2. CASE r \notin Planned(E, failed, q)
      BY <1>1, <2>2 DEF RunCompletes, AfterDelete, IsReplaced
    <2>3. QED
      BY <2>1, <2>2
  <1>4. QED
    BY <1>1, <1>2, <1>3

LEMMA RunInductive ==
  ASSUME IInv, NEW E, SameButLocks(E), RunOn(E)
  PROVE  IInv'
  <1>1. PICK failed \in SUBSET MayFail(E), reported \in SUBSET Orders :
          failed \subseteq reported /\ RunCompletes(E, failed, reported)
    BY RunRows
  <1>2. ASSUME NEW q \in Orders, NEW r \in Seqs
        PROVE  /\ RowOK(entry'[q][r])
               /\ status[q] = "ON_HOLD" => entry'[q][r] = E[q][r]
    <2>1. \/ entry'[q][r] = E[q][r]
          \/ q \in Considered /\ entry'[q][r] \in {NoEntry, FreshEntry}
      BY RunRows
    <2>2. RowOK(E[q][r])
      BY DEF SameButLocks
    <2>3. q \in Considered => status[q] # "ON_HOLD"
      BY DEF Considered
    <2>4. QED
      BY <2>1, <2>2, <2>3, NoEntryRow
  <1>3. entry' \in [Orders -> [Seqs -> Entry \cup {NoEntry}]]
    BY <1>1, NoEntryRow DEF RunCompletes, AfterDelete, SameButLocks
  <1>4. TypeOK'
    BY <1>1, <1>3 DEF IInv, TypeOK, RunCompletes, IsOpen
  <1>5. Rows' /\ OrderStamps' /\ RunsNeverCollide'
    BY <1>1, <1>2 DEF IInv, Rows, OrderStamps, RunsNeverCollide, RunCompletes
  <1>6. HoldFreezesWork'
    <2> SUFFICES ASSUME NEW q \in Orders, NEW r \in Seqs, status'[q] = "ON_HOLD"
                 PROVE  entry'[q][r].status \notin {"QUEUED", "IN_PROGRESS"}
      BY DEF HoldFreezesWork
    <2>1. status[q] = "ON_HOLD"
      BY <1>1 DEF RunCompletes
    <2>2. entry'[q][r].status = E[q][r].status
      BY <1>2, <2>1
    <2>3. E[q][r].status = entry[q][r].status
      BY DEF SameButLocks
    <2>4. QED
      BY <2>1, <2>2, <2>3 DEF IInv, HoldFreezesWork
  <1>7. NoSilentGap'
    <2> SUFFICES ASSUME NEW q \in Considered, ~conflict'[q], NEW r \in Routing[product[q]]
                 PROVE  Exists(entry'[q][r])
      BY <1>1 DEF NoSilentGap, Considered, RunCompletes
    <2>1. q \in Orders /\ r \in Seqs
      BY RoutingAssumption DEF IInv, TypeOK, Considered
    <2>2. q \notin failed
      BY <1>1, <2>1 DEF RunCompletes
    <2>3. CASE r \in Planned(E, failed, q)
      BY <1>1, <2>1, <2>3 DEF RunCompletes, FreshEntry
    <2>4. CASE r \notin Planned(E, failed, q)
      <3>1. r \in FixedSeqs(E, q)
        BY <2>2, <2>4 DEF Planned, Remaining, CompletedSeqs
      <3>2. Exists(E[q][r]) /\ ~IsReplaced(E[q][r])
        BY <2>1, <3>1 DEF FixedSeqs, IsFixedEntry, IsReplaced
      <3>3. entry'[q][r] = E[q][r]
        BY <1>1, <2>1, <2>4, <3>2 DEF RunCompletes, AfterDelete
      <3>4. QED
        BY <3>2, <3>3
    <2>5. QED
      BY <2>3, <2>4
  <1>8. QED
    BY <1>4, <1>5, <1>6, <1>7 DEF IInv

\* The table after moveEntry() locked a row or unlockEntry() unlocked it.
WithLock(o, s, b) == [entry EXCEPT ![o][s].locked = b]

LEMMA LockKeepsRows ==
  ASSUME IInv, NEW o \in Orders, NEW s \in Seqs, Exists(entry[o][s]), NEW b \in BOOLEAN
  PROVE  /\ SameButLocks(WithLock(o, s, b))
         /\ \A q \in Orders, r \in Seqs : q # o \/ r # s => WithLock(o, s, b)[q][r] = entry[q][r]
         /\ WithLock(o, s, b)[o][s].locked = b
  <1> DEFINE row == [entry[o][s] EXCEPT !.locked = b]
             E == WithLock(o, s, b)
  <1>1. /\ RowOK(row) /\ row.status = entry[o][s].status
        /\ row.started = entry[o][s].started /\ row.locked = b
        /\ Underlying(row) = Underlying(entry[o][s])
    BY LockedRow DEF IInv, Rows
  <1>2. E[o][s] = row
    BY DEF IInv, TypeOK, WithLock
  <1>3. \A q \in Orders, r \in Seqs : q # o \/ r # s => E[q][r] = entry[q][r]
    BY DEF IInv, TypeOK, WithLock
  <1>4. E \in [Orders -> [Seqs -> Entry \cup {NoEntry}]]
    <2>1. row \in Entry \cup {NoEntry}
      BY <1>1 DEF RowOK
    <2>2. QED
      BY <2>1 DEF IInv, TypeOK, WithLock
  <1>5. SameButLocks(E)
    <2> SUFFICES ASSUME NEW q \in Orders, NEW r \in Seqs
                 PROVE  /\ RowOK(E[q][r]) /\ E[q][r].status = entry[q][r].status
                        /\ E[q][r].started = entry[q][r].started
                        /\ Underlying(E[q][r]) = Underlying(entry[q][r])
      BY <1>4 DEF SameButLocks
    <2> HIDE DEF E, row
    <2>1. CASE q = o /\ r = s
      BY <1>1, <1>2, <2>1
    <2>2. CASE q # o \/ r # s
      BY <1>3, <2>2 DEF IInv, Rows
    <2>3. QED
      BY <2>1, <2>2
  <1>6. QED
    BY <1>1, <1>2, <1>3, <1>5

LEMMA SameTable == IInv => SameButLocks(entry)
  BY DEF IInv, TypeOK, Rows, SameButLocks

-----------------------------------------------------------------------------
LEMMA Inductive == FloorActionsOnly /\ IInv /\ [Next]_vars => IInv'
  <1> SUFFICES ASSUME FloorActionsOnly, IInv, [Next]_vars PROVE IInv'
    OBVIOUS
  <1>1. CASE UNCHANGED vars
    BY <1>1 DEF IInv, TypeOK, Rows, OrderStamps, HoldFreezesWork, NoSilentGap,
                RunsNeverCollide, Considered, vars
  <1>2. ASSUME NEW o \in Orders, NEW p \in Products, NEW role \in Roles,
               CreateOrder(o, p, role) \/ UpdateOrder(o, p, role)
        PROVE  IInv'
    BY <1>2, CreateOrderInductive, UpdateOrderInductive
  <1>3. ASSUME NEW o \in Orders, NEW to \in OrderStatuses, NEW role \in Roles,
               ChangeOrderStatus(o, to, role)
        PROVE  IInv'
    BY <1>3, ChangeOrderStatusInductive
  <1>4. CASE PlantChanged
    BY <1>4, PlantChangedInductive
  <1>5. ASSUME NEW o \in Orders, NEW s \in Seqs, NEW to \in FloorTargets, NEW role \in Roles,
               NEW override \in Overrides, NEW late \in BOOLEAN,
               ApplyOperationTransition(o, s, to, role, override, late)
        PROVE  IInv'
    BY <1>5, FloorInductive
  <1>6. ASSUME NEW role \in Roles, RunSchedule(role)
        PROVE  IInv'
    BY <1>6, SameTable, RunInductive DEF RunSchedule
  <1>7. ASSUME NEW o \in Orders, NEW s \in Seqs, NEW role \in Roles, MoveEntry(o, s, role)
        PROVE  IInv'
    <2>1. Exists(entry[o][s]) /\ RunOn(WithLock(o, s, TRUE))
      BY <1>7 DEF MoveEntry, WithLock
    <2>2. SameButLocks(WithLock(o, s, TRUE))
      BY <2>1, LockKeepsRows
    <2>3. QED
      BY <2>1, <2>2, RunInductive
  <1>8. ASSUME NEW o \in Orders, NEW s \in Seqs, NEW role \in Roles, UnlockEntry(o, s, role)
        PROVE  IInv'
    <2>1. Exists(entry[o][s]) /\ RunOn(WithLock(o, s, FALSE))
      BY <1>8 DEF UnlockEntry, WithLock
    <2>2. SameButLocks(WithLock(o, s, FALSE))
      BY <2>1, LockKeepsRows
    <2>3. QED
      BY <2>1, <2>2, RunInductive
  <1>9. QED
    BY <1>1, <1>2, <1>3, <1>4, <1>5, <1>6, <1>7, <1>8 DEF Next

LEMMA Invariance == ASSUME FloorActionsOnly PROVE Spec => []IInv
  <1>1. Init => IInv
    BY InitInductive
  <1>2. IInv /\ [Next]_vars => IInv'
    BY Inductive
  <1>3. QED
    BY <1>1, <1>2, PTL DEF Spec

-----------------------------------------------------------------------------
(* The theorems. *)

\* Every variable has its type in every reachable state of every plant.
THEOREM TypeCorrect == ASSUME FloorActionsOnly PROVE Spec => []TypeOK
  <1>1. IInv => TypeOK
    BY DEF IInv
  <1>2. QED
    BY <1>1, Invariance, PTL

\* No handler puts a step of an order on hold back to work.
THEOREM HoldFreezes == ASSUME FloorActionsOnly PROVE Spec => []HoldFreezesWork
  <1>1. IInv => HoldFreezesWork
    BY DEF IInv
  <1>2. QED
    BY <1>1, Invariance, PTL

\* isFixedEntry() and the deleteMany of a run never disagree about a row, so no run fails
\* on the unique index of the entries, whatever the floor and the planner did before.
THEOREM RunsComplete == ASSUME FloorActionsOnly PROVE Spec => []RunsNeverCollide
  <1>1. IInv => RunsNeverCollide
    BY DEF IInv
  <1>2. QED
    BY <1>1, Invariance, PTL

\* Work that has begun is never queued or skipped.
THEOREM StartedStays == ASSUME FloorActionsOnly PROVE Spec => []StartedNeverQueued
  <1>1. IInv => StartedNeverQueued
    BY DEF IInv, Rows, RowOK, StartedNeverQueued
  <1>2. QED
    BY <1>1, Invariance, PTL

\* completedAt and actualEndAt are set exactly while the order or operation is completed.
THEOREM StampsMatch == ASSUME FloorActionsOnly PROVE Spec => []CompletionStamps
  <1>1. IInv => CompletionStamps
    BY DEF IInv, Rows, RowOK, OrderStamps, CompletionStamps
  <1>2. QED
    BY <1>1, Invariance, PTL

\* A step without a place on the board is always announced, by the banner or a conflict.
THEOREM GapsAnnounced == ASSUME FloorActionsOnly PROVE Spec => []NoSilentGap
  <1>1. IInv => NoSilentGap
    BY DEF IInv
  <1>2. QED
    BY <1>1, Invariance, PTL

-----------------------------------------------------------------------------
(* The action properties. *)

\* A floor step never reaches an order on hold, nor puts one there.
LEMMA FloorAvoidsHold ==
  ASSUME FloorActionsOnly, IInv, NEW o \in Orders, NEW s \in Seqs, NEW to \in FloorTargets,
         NEW role \in Roles, NEW override \in Overrides, NEW late \in BOOLEAN,
         ApplyOperationTransition(o, s, to, role, override, late), NEW q \in Orders
  PROVE  "ON_HOLD" \in {status[q], status'[q]} => q # o
  <1>1. PICK steps : status' = [status EXCEPT ![o] = RolledUp(status[o], steps)]
    BY Zenon DEF ApplyOperationTransition
  <1>2. /\ status[o] \in OrderStatuses \cup {"NONE"}
        /\ status[o] \notin TerminalStatuses /\ status[o] # "ON_HOLD"
    BY FloorRows DEF IInv, TypeOK, ApplyOperationTransition
  <1>3. status'[o] # "ON_HOLD"
    BY <1>1, <1>2, RollUp DEF IInv, TypeOK
  <1>4. QED
    BY <1>2, <1>3

\* What one step may do to what a hold preserves.
LEMMA RunPreserves ==
  ASSUME IInv, NEW E, SameButLocks(E), RunOn(E), NEW q \in Orders, NEW r \in Seqs
  PROVE  /\ status' = status
         /\ status[q] = "ON_HOLD" => Underlying(entry'[q][r]) = Underlying(entry[q][r])
         /\ entry[q][r].started => entry'[q][r].started
         /\ E[q][r].locked => entry'[q][r] = E[q][r]
  <1>1. status' = status
    BY RunRows DEF RunCompletes
  <1>2. CASE entry'[q][r] = E[q][r]
    BY <1>1, <1>2 DEF SameButLocks
  <1>3. CASE entry'[q][r] # E[q][r]
    <2>1. /\ q \in Considered
          /\ ~E[q][r].started /\ ~E[q][r].locked
      BY <1>3, RunRows
    <2>2. QED
      BY <1>1, <2>1 DEF Considered, SameButLocks
  <1>4. QED
    BY <1>2, <1>3

\* A hold and its release are inverse, and nothing in between changes the work the hold
\* froze.
THEOREM HoldPreserves == ASSUME FloorActionsOnly PROVE Spec => HoldPreservesWork
  <1> DEFINE Kept(q, r) == "ON_HOLD" \in {status[q], status'[q]} =>
                             Underlying(entry'[q][r]) = Underlying(entry[q][r])
  <1>1. ASSUME IInv, Next, NEW q \in Orders, NEW r \in Seqs
        PROVE  Kept(q, r)
    <2>1. ASSUME NEW o \in Orders, NEW p \in Products, NEW role \in Roles,
                 CreateOrder(o, p, role) \/ UpdateOrder(o, p, role)
          PROVE  Kept(q, r)
      BY <2>1 DEF CreateOrder, UpdateOrder
    <2>2. ASSUME NEW o \in Orders, NEW to \in OrderStatuses, NEW role \in Roles,
                 ChangeOrderStatus(o, to, role)
          PROVE  Kept(q, r)
      BY <1>1, <2>2, ChangedRows
    <2>3. CASE PlantChanged
      BY <2>3 DEF PlantChanged
    <2>4. ASSUME NEW o \in Orders, NEW s \in Seqs, NEW to \in FloorTargets, NEW role \in Roles,
                 NEW override \in Overrides, NEW late \in BOOLEAN,
                 ApplyOperationTransition(o, s, to, role, override, late)
          PROVE  Kept(q, r)
      <3>1. q # o => entry'[q][r] = entry[q][r]
        BY <1>1, <2>4, FloorRows
      <3>2. "ON_HOLD" \in {status[q], status'[q]} => q # o
        BY <1>1, <2>4, FloorAvoidsHold
      <3>3. QED
        BY <3>1, <3>2
    <2>5. ASSUME NEW role \in Roles, RunSchedule(role)
          PROVE  Kept(q, r)
      BY <1>1, <2>5, SameTable, RunPreserves DEF RunSchedule
    <2>6. ASSUME NEW o \in Orders, NEW s \in Seqs, NEW role \in Roles,
                 MoveEntry(o, s, role) \/ UnlockEntry(o, s, role)
          PROVE  Kept(q, r)
      <3>1. PICK b \in BOOLEAN : Exists(entry[o][s]) /\ RunOn(WithLock(o, s, b))
        BY <2>6 DEF MoveEntry, UnlockEntry, WithLock
      <3>2. SameButLocks(WithLock(o, s, b))
        BY <1>1, <3>1, LockKeepsRows
      <3>3. QED
        BY <1>1, <3>1, <3>2, RunPreserves
    <2>7. QED
      BY <1>1, <2>1, <2>2, <2>3, <2>4, <2>5, <2>6 DEF Next
  <1>2. IInv /\ [Next]_vars =>
          [\A o \in Orders, s \in Seqs :
             "ON_HOLD" \in {status[o], status'[o]} =>
                 Underlying(entry'[o][s]) = Underlying(entry[o][s])]_vars
    BY <1>1
  <1>3. QED
    BY <1>2, Invariance, PTL DEF Spec, HoldPreservesWork

\* Re-planning never deletes or resets a row whose work has begun, and deletes a row
\* placed by hand only in the step that unlocks it.
THEOREM FixedSurvives == ASSUME FloorActionsOnly PROVE Spec => FixedWorkSurvives
  <1> DEFINE Kept(q, r) ==
               /\ entry[q][r].started => entry'[q][r].started
               /\ entry[q][r].locked => Exists(entry'[q][r])
                                        \/ \E role \in Roles : UnlockEntry(q, r, role)
  <1>1. ASSUME IInv, Next, NEW q \in Orders, NEW r \in Seqs
        PROVE  Kept(q, r)
    <2>1. RowOK(entry[q][r]) /\ (entry[q][r].locked => Exists(entry[q][r]))
      BY <1>1 DEF IInv, Rows, RowOK, Entry, NoEntry, OperationStatuses
    <2>2. ASSUME NEW o \in Orders, NEW p \in Products, NEW role \in Roles,
                 CreateOrder(o, p, role) \/ UpdateOrder(o, p, role)
          PROVE  Kept(q, r)
      BY <2>1, <2>2 DEF CreateOrder, UpdateOrder
    <2>3. ASSUME NEW o \in Orders, NEW to \in OrderStatuses, NEW role \in Roles,
                 ChangeOrderStatus(o, to, role)
          PROVE  Kept(q, r)
      BY <1>1, <2>1, <2>3, ChangedRows
    <2>4. CASE PlantChanged
      BY <2>1, <2>4 DEF PlantChanged
    <2>5. ASSUME NEW o \in Orders, NEW s \in Seqs, NEW to \in FloorTargets, NEW role \in Roles,
                 NEW override \in Overrides, NEW late \in BOOLEAN,
                 ApplyOperationTransition(o, s, to, role, override, late)
          PROVE  Kept(q, r)
      BY <1>1, <2>1, <2>5, FloorRows
    <2>6. ASSUME NEW role \in Roles, RunSchedule(role)
          PROVE  Kept(q, r)
      BY <1>1, <2>1, <2>6, SameTable, RunPreserves DEF RunSchedule
    <2>7. ASSUME NEW o \in Orders, NEW s \in Seqs, NEW role \in Roles, MoveEntry(o, s, role)
          PROVE  Kept(q, r)
      <3>1. PICK b \in BOOLEAN : b /\ Exists(entry[o][s]) /\ RunOn(WithLock(o, s, b))
        BY <2>7 DEF MoveEntry, WithLock
      <3> DEFINE E == WithLock(o, s, b)
      <3>2. /\ SameButLocks(E)
            /\ q # o \/ r # s => E[q][r] = entry[q][r]
            /\ E[o][s].locked = b
        <4>1. Exists(entry[o][s])
          BY <3>1
        <4>2. QED
          BY <1>1, <4>1, LockKeepsRows
      <3>3. RunOn(E)
        BY <3>1
      <3> HIDE DEF E
      <3>4. /\ entry[q][r].started => entry'[q][r].started
            /\ E[q][r].locked => entry'[q][r] = E[q][r]
        BY <1>1, <3>2, <3>3, RunPreserves
      <3>5. entry[q][r].locked => E[q][r].locked
        BY <3>1, <3>2
      <3>6. QED
        BY <2>1, <3>2, <3>4, <3>5 DEF SameButLocks
    <2>8. ASSUME NEW o \in Orders, NEW s \in Seqs, NEW role \in Roles, UnlockEntry(o, s, role)
          PROVE  Kept(q, r)
      <3>1. PICK b \in BOOLEAN : Exists(entry[o][s]) /\ RunOn(WithLock(o, s, b))
        BY <2>8 DEF UnlockEntry, WithLock
      <3> DEFINE E == WithLock(o, s, b)
      <3>2. SameButLocks(E)
        BY <1>1, <3>1, LockKeepsRows
      <3>3. q # o \/ r # s => E[q][r] = entry[q][r]
        BY <1>1, <3>1, LockKeepsRows
      <3>4. RunOn(E)
        BY <3>1
      <3> HIDE DEF E
      <3>5. /\ entry[q][r].started => entry'[q][r].started
            /\ E[q][r].locked => entry'[q][r] = E[q][r]
        BY <1>1, <3>2, <3>4, RunPreserves
      <3>6. QED
        BY <2>1, <2>8, <3>3, <3>5
    <2>9. QED
      BY <1>1, <2>2, <2>3, <2>4, <2>5, <2>6, <2>7, <2>8 DEF Next
  <1>2. IInv /\ [Next]_vars =>
          [\A o \in Orders, s \in Seqs :
             /\ entry[o][s].started => entry'[o][s].started
             /\ entry[o][s].locked => Exists(entry'[o][s])
                                      \/ \E role \in Roles : UnlockEntry(o, s, role)]_vars
    BY <1>1
  <1>3. QED
    BY <1>2, Invariance, PTL DEF Spec, FixedWorkSurvives
===============================================================================
