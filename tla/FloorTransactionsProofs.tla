------------------------ MODULE FloorTransactionsProofs ------------------------
(***************************************************************************)
(* What holds of FloorTransactions for any routing, any number of sessions *)
(* and any requests, from committed rows as ProductionFlow leaves them.    *)
(*                                                                         *)
(* The proof is in the rely / guarantee style.  SessionOK(p) says what a   *)
(* session knows at each statement; Rely(q) says what the step of another  *)
(* session may do to the rows that q knows something about.  A step of p   *)
(* establishes SessionOK(p) and grants Rely(q) to every other q; Rely(q)   *)
(* keeps SessionOK(q).                                                     *)
(***************************************************************************)
EXTENDS FloorTransactions, TLAPS

Written(p, s) == wEntry[p][s] # Unwritten
OrderWritten(p) == wOrder[p] # Unwritten

FloorStatements == {"read", "gate", "operation", "late", "updated", "rolledUp", "resolving", "risk", "commit"}
StatusStatements == {"from", "order", "steps", "step", "commit", "marking"}
RunStatements ==
    {"orders", "entries", "delete", "deleting", "inserting", "reporting", "considered", "held", "commit"}

\* The statements of each kind of call; a run is the planner from its lock to its end.
CallFits(p) ==
    /\ \/ call[p] = NoCall /\ pc[p] = "idle"
       \/ call[p].kind = "floor" /\ pc[p] \in FloorStatements
       \/ call[p].kind = "status" /\ pc[p] \in StatusStatements
       \/ call[p].kind = "edit" /\ pc[p] \in {"edit", "marking"}
       \/ call[p].kind = "run" /\ pc[p] \in RunStatements \cup {"tenant"}
    /\ planner = p <=> call[p].kind = "run" /\ pc[p] \in RunStatements

\* Where a session may have written rows, and where it has some left to write.
WritesFit(p) ==
    /\ OrderWritten(p) =>
          pc[p] \in {"updated", "rolledUp", "resolving", "risk", "steps", "step", "held", "commit"}
    /\ \A s \in Seqs : Written(p, s) =>
          pc[p] \in {"late", "updated", "rolledUp", "resolving", "risk", "step",
                    "deleting", "inserting", "reporting", "considered", "held", "commit"}
    /\ todo[p] # {} => pc[p] \in {"step", "deleting"}
    /\ wConflict[p] # NoConflict =>
          pc[p] \in {"inserting", "reporting", "considered", "held", "risk", "commit"}

\* Starts and locks of committed rows are in every row written over them.
StartsKept(p) ==
    \A s \in Seqs : Written(p, s) =>
        /\ entry[s].started => wEntry[p][s].started
        /\ entry[s].locked => wEntry[p][s].locked
        /\ StampsFit(wEntry[p][s])

\* Only a run removes rows and makes new ones.
SameRow(p, s) == Exists(entry[s]) /\ Exists(wEntry[p][s]) /\ wEntry[p][s].run = entry[s].run

\* What a floor transition knows.  The roll-up has asked for the status it is to write, and
\* without an overlap the order is what it was when the request read it.
FloorOK(p) ==
    call[p].kind = "floor" =>
        /\ pc[p] \in {"gate", "operation"} =>
              /\ Exists(seen[p].rows[call[p].seq]) /\ seen[p].rows[call[p].seq] # Unwritten
              /\ seen[p].rows[call[p].seq].started => entry[call[p].seq].started
              /\ StampsFit(seen[p].rows[call[p].seq])
        /\ \A s \in Seqs : Written(p, s) =>
              s = call[p].seq /\ wEntry[p][s].status = call[p].to /\ SameRow(p, s)
        /\ pc[p] \in {"rolledUp", "resolving", "risk", "commit"} =>
              RolledUp(seen[p].status, StatusesOf(seen[p].rows)) = seen[p].status
        /\ pc[p] = "rolledUp" => seen[p].status \in {"IN_PROGRESS", "COMPLETED"}
        /\ pc[p] = "resolving" => OrderWritten(p) /\ wOrder[p].status = "COMPLETED"
        /\ OrderWritten(p) /\ pc[p] \in {"updated", "rolledUp"} =>
              wOrder[p].status = order.status /\ wOrder[p].dirty
        /\ OrderWritten(p) =>
              /\ wOrder[p].status \in {order.status, "IN_PROGRESS", "COMPLETED"}
              /\ order.dirty => wOrder[p].dirty \/ wOrder[p].status = "COMPLETED"
        /\ wConflict[p].reports = {}
        /\ wConflict[p].resolves # {} => OrderWritten(p) /\ wOrder[p].status = "COMPLETED"
        /\ p \notin overlapped /\ pc[p] # "read" =>
              /\ order.status \notin TerminalStatuses
              /\ order.status = "ON_HOLD" =>
                    /\ call[p].to = "ON_HOLD" /\ pc[p] # "rolledUp"
                    /\ OrderWritten(p) => wOrder[p].status = "ON_HOLD"

\* What a status change knows.  Without an overlap a hold leaves no step queued or running
\* but those it has still to write.
StatusOK(p) ==
    call[p].kind = "status" =>
        /\ pc[p] \in {"steps", "step", "commit"} => OrderWritten(p) /\ wOrder[p].status = call[p].to
        /\ pc[p] = "step" => \A s \in todo[p] :
              /\ Exists(seen[p].rows[s]) /\ seen[p].rows[s] # Unwritten
              /\ Resettled(p, seen[p].rows[s]) # seen[p].rows[s]
              /\ seen[p].rows[s].started => entry[s].started
              /\ StampsFit(seen[p].rows[s])
        /\ \A s \in Seqs : Written(p, s) => SameRow(p, s)
        /\ wConflict[p] = NoConflict
        /\ p \notin overlapped /\ call[p].to = "ON_HOLD" /\ pc[p] \in {"step", "commit"} =>
              \A s \in Seqs : EntriesSeen(p)[s].status \in {"QUEUED", "IN_PROGRESS"} => s \in todo[p]

\* What a run knows.  The steps it must not move stay on the board, because what is fixed
\* never turns into what a run replaces; the others get a row or a conflict.
RunOK(p) ==
    call[p].kind = "run" =>
        /\ pc[p] \in RunStatements \ {"orders"} =>
              /\ \A s \in Seqs : Exists(entry[s]) => basis[entry[s].run] <= basis[call[p].run]
              /\ p \notin overlapped => seen[p].status = order.status
        /\ pc[p] \in RunStatements \ {"orders", "entries"} /\ ~IsConsidered(seen[p].status) =>
              /\ pc[p] # "considered"
              /\ todo[p] = {} /\ wConflict[p] = NoConflict
              /\ \A s \in Seqs : ~Written(p, s)
              /\ OrderWritten(p) => wOrder[p].status = "ON_HOLD"
        /\ OrderWritten(p) => wOrder[p].status = order.status
        /\ pc[p] \in {"delete", "deleting", "inserting", "reporting"} =>
              /\ \A s \in Seqs : seen[p].rows[s] # Unwritten
              /\ \A s \in Fixed(p) : Exists(entry[s]) /\ (entry[s].started \/ entry[s].locked)
        /\ \A s \in Seqs : Written(p, s) =>
              /\ ~entry[s].started /\ ~entry[s].locked
              /\ \/ wEntry[p][s] = NoEntry
                 \/ wEntry[p][s] = FreshRow(call[p].run) /\ pc[p] \in {"reporting", "considered", "held", "commit"}
        /\ pc[p] \in {"considered", "held", "commit"} /\ IsConsidered(seen[p].status) =>
              wConflict[p].reports # {} \/ \A s \in Seqs : Exists(EntriesSeen(p)[s])

SessionOK(p) == CallFits(p) /\ WritesFit(p) /\ StartsKept(p) /\ FloorOK(p) /\ StatusOK(p) /\ RunOK(p)

\* No row is written by two open transactions.
OneWriter ==
    \A p, q \in Sessions :
        \/ p = q
        \/ /\ ~(OrderWritten(p) /\ OrderWritten(q))
           /\ \A s \in Seqs : ~(Written(p, s) /\ Written(q, s))

RowsFit ==
    /\ \A s \in Seqs : StampsFit(entry[s])
    /\ \A r \in 0 .. MaxRuns : basis[r] <= plant

IInv ==
    /\ TypeOK
    /\ \A p \in Sessions : SessionOK(p)
    /\ OneWriter
    /\ RowsFit
    /\ GapsAnnounced

-----------------------------------------------------------------------------
\* What the step of another session may do to what q knows: rows that q has written stay as
\* they are, starts and locks stay, a planner's board keeps its rows, and what changes the
\* status of the order, or anything beside a status change, is remembered as an overlap.
Kept(q) ==
    /\ pc'[q] = pc[q] /\ call'[q] = call[q] /\ seen'[q] = seen[q] /\ todo'[q] = todo[q]
    /\ wOrder'[q] = wOrder[q] /\ wEntry'[q] = wEntry[q] /\ wConflict'[q] = wConflict[q]
    /\ planner' = q <=> planner = q

Rely(q) ==
    /\ Kept(q)
    /\ OrderWritten(q) => order' = order
    /\ \A s \in Seqs :
          /\ Written(q, s) => entry'[s] = entry[s]
          /\ entry[s].started => entry'[s].started
          /\ entry[s].locked => entry'[s].locked
          /\ planner = q =>
                /\ Exists(entry'[s]) <=> Exists(entry[s])
                /\ Exists(entry[s]) => entry'[s].run = entry[s].run
    /\ planner = q => basis' = basis
    /\ q \in overlapped => q \in overlapped'
    /\ q \notin overlapped' /\ call[q] # NoCall =>
          order'.status = order.status /\ (call[q].kind = "status" => entry' = entry)

USE SessionsAssumption, RunsAssumption, UnwrittenAssumption, CallsAssumption, ScenesAssumption

-----------------------------------------------------------------------------
(***************************************************************************)
(* The operators of the model.                                             *)
(***************************************************************************)
\* Rows, absent rows and the overlay's marker are three different things.
LEMMA RowKinds ==
    /\ \A e \in Row \cup {NoEntry} : e # Unwritten /\ (Exists(e) <=> e \in Row)
    /\ \A o \in OrderRow : o # Unwritten
    /\ ~Exists(NoEntry) /\ ~NoEntry.started /\ ~NoEntry.locked /\ StampsFit(NoEntry)
  BY DEF Row, NoEntry, Exists, StampsFit, OperationStatuses

LEMMA FreshRowFits ==
    ASSUME NEW r \in 1 .. MaxRuns
    PROVE  /\ FreshRow(r) \in Row /\ FreshRow(r).run = r
           /\ FreshRow(r).status = "QUEUED"
           /\ ~FreshRow(r).started /\ ~FreshRow(r).locked /\ StampsFit(FreshRow(r))
  BY DEF FreshRow, Row, OperationStatuses, HoldReasons, StampsFit

\* A transition written over a row whose status was read before.
LEMMA MovedFits ==
    ASSUME NEW e \in Row, NEW from \in OperationStatuses, NEW to \in OperationStatuses,
           StampsFit(e), from \in {"IN_PROGRESS", "COMPLETED"} => e.started
    PROVE  LET m == Moved([e EXCEPT !.status = from], to)
           IN  /\ m \in Row /\ m.run = e.run /\ m.status = to
               /\ e.started => m.started
               /\ e.locked => m.locked
               /\ StampsFit(m)
  BY DEF Moved, Row, StampsFit, OperationStatuses, HoldReasons

\* A hold or release written over a row whose status and reason were read before.
LEMMA ResettledFits ==
    ASSUME TypeOK, NEW p \in Sessions, NEW e \in Row, NEW read \in Row,
           StampsFit(e), StampsFit(read), read.started => e.started
    PROVE  LET m == [e EXCEPT !.status = Resettled(p, read).status, !.hold = Resettled(p, read).hold]
           IN  /\ m \in Row /\ m.run = e.run
               /\ m.started <=> e.started
               /\ m.locked <=> e.locked
               /\ StampsFit(m)
               /\ call[p].to = "ON_HOLD" /\ Resettled(p, read) # read => m.status = "ON_HOLD"
  BY DEF Resettled, Held, Released, Row, StampsFit, OperationStatuses, HoldReasons

\* The roll-up is idempotent, and it writes two statuses only.
LEMMA RolledUpFits ==
    ASSUME NEW st \in OrderStatuses, NEW X
    PROVE  LET target == RolledUp(st, X)
           IN  /\ target \in OrderStatuses
               /\ RolledUp(target, X) = target
               /\ target # st =>
                     target \in {"IN_PROGRESS", "COMPLETED"} /\ st \notin {"ON_HOLD", "CANCELLED"}
  BY DEF RolledUp, RollupTarget, CanTransition, Reopens, OrderTransitions, OrderStatuses,
         OpenStatuses, TerminalStatuses

\* A statement that waits for rows gets them when nobody else has written them.
LEMMA Granted ==
    ASSUME TypeOK, NEW p \in Sessions, pc[p] # "deleting", ~Waits(p), NEW q \in Sessions \ {p}
    PROVE  /\ NeedsOrder(p) => ~OrderWritten(q)
           /\ \A s \in NeedsEntries(p) : ~Written(q, s)
           /\ pc[p] = "tenant" => planner # q
  BY DEF Waits, WaitsFor, OrderWritten, Written, TenantFree, TypeOK

\* What a transaction sees has the types of the rows.
LEMMA SeenTypes ==
    ASSUME TypeOK, NEW p \in Sessions
    PROVE  /\ OrderSeen(p) \in OrderRow
           /\ EntriesSeen(p) \in [Seqs -> Row \cup {NoEntry}]
  BY DEF TypeOK, OrderSeen, EntriesSeen, Overlays

LEMMA RelySuffices ==
    ASSUME TypeOK, TypeOK', NEW q \in Sessions, SessionOK(q), Rely(q)
    PROVE  SessionOK(q)'
<1>. USE DEF Rely, Kept
<1>1. CallFits(q)' /\ WritesFit(q)' /\ StartsKept(q)'
  BY DEF SessionOK, CallFits, WritesFit, StartsKept, OrderWritten, Written
<1>2. FloorOK(q)'
  <2>. SUFFICES ASSUME call[q].kind = "floor"  PROVE FloorOK(q)'
    BY DEF FloorOK
  <2>1. call[q] \in CallsUnderWay /\ call[q].seq \in Seqs /\ call[q] # NoCall
    BY DEF TypeOK, CallsUnderWay, NoCall
  <2>2. \A s \in Seqs : Written(q, s) => SameRow(q, s)' \/ ~SameRow(q, s)
    BY DEF Written, SameRow
  <2>3. FloorOK(q)
    BY DEF SessionOK
  <2>4. q \notin overlapped' => q \notin overlapped /\ order'.status = order.status
    BY <2>1
  <2>5. OrderWritten(q) => order' = order
    OBVIOUS
  <2>. QED  BY <2>1, <2>2, <2>3, <2>4, <2>5 DEF FloorOK, OrderWritten, Written
<1>3. StatusOK(q)'
  <2>. SUFFICES ASSUME call[q].kind = "status"  PROVE StatusOK(q)'
    BY DEF StatusOK
  <2>1. call[q] # NoCall
    BY DEF NoCall
  <2>2. \A s \in Seqs : Written(q, s) => SameRow(q, s)' \/ ~SameRow(q, s)
    BY DEF Written, SameRow
  <2>3. StatusOK(q)
    BY DEF SessionOK
  <2>4. q \notin overlapped' => q \notin overlapped /\ entry' = entry
    BY <2>1
  <2>5. entry' = entry => EntriesSeen(q)' = EntriesSeen(q)
    BY DEF EntriesSeen
  <2>6. \A e : Resettled(q, e)' = Resettled(q, e)
    BY DEF Resettled
  <2>7. todo[q] \subseteq Seqs
    BY DEF TypeOK
  <2>. QED  BY <2>2, <2>3, <2>4, <2>5, <2>6, <2>7 DEF StatusOK, OrderWritten, Written
<1>4. RunOK(q)'
  BY DEF SessionOK, CallFits, RunOK, OrderWritten, Written, NoCall, Fixed, EntriesSeen, RunStatements
<1>. QED  BY <1>1, <1>2, <1>3, <1>4 DEF SessionOK

-----------------------------------------------------------------------------
(***************************************************************************)
(* Types.                                                                  *)
(***************************************************************************)
LEMMA InitTypes == Init => TypeOK
<1>. SUFFICES ASSUME Init  PROVE TypeOK
  OBVIOUS
<1>. USE DEF Init
<1>1. order \in OrderRow /\ entry \in [Seqs -> Row \cup {NoEntry}]
  BY DEF IsScene
<1>2. NoRows \in Overlays
  BY DEF NoRows, Overlays
<1>3. NothingSeen \in Readings /\ NoConflict \in ConflictWrites
  BY <1>2 DEF NothingSeen, Readings, NoConflict, ConflictWrites
<1>4. pc \in [Sessions -> Statements]
  BY DEF Statements
<1>5. wOrder \in [Sessions -> OrderRow \cup {Unwritten}] /\ wEntry \in [Sessions -> Overlays]
  BY <1>2
<1>6. seen \in [Sessions -> Readings] /\ wConflict \in [Sessions -> ConflictWrites]
  BY <1>3
<1>7. runs \in 0 .. MaxRuns /\ basis \in [0 .. MaxRuns -> Nat] /\ plant \in Nat /\ calls \in Nat
  OBVIOUS
<1>8. conflicts \in SUBSET (1 .. MaxRuns) /\ overlapped \in SUBSET Sessions
  OBVIOUS
<1>9. call \in [Sessions -> CallsUnderWay \cup {NoCall}] /\ todo \in [Sessions -> SUBSET Seqs]
  OBVIOUS
<1>10. lost \in BOOLEAN /\ raced \in BOOLEAN /\ planner \in Sessions \cup {NoSession}
  OBVIOUS
<1>. HIDE DEF Init
<1>. QED  BY <1>1, <1>4, <1>5, <1>6, <1>7, <1>8, <1>9, <1>10 DEF TypeOK

LEMMA EndTypes ==
    ASSUME TypeOK, NEW p \in Sessions, End(p)
    PROVE  /\ planner' \in Sessions \cup {NoSession}
           /\ pc' \in [Sessions -> Statements]
           /\ call' \in [Sessions -> CallsUnderWay \cup {NoCall}]
           /\ seen' \in [Sessions -> Readings]
           /\ todo' \in [Sessions -> SUBSET Seqs]
           /\ wOrder' \in [Sessions -> OrderRow \cup {Unwritten}]
           /\ wEntry' \in [Sessions -> Overlays]
           /\ wConflict' \in [Sessions -> ConflictWrites]
<1>1. NoRows \in Overlays
  BY DEF NoRows, Overlays
<1>2. NothingSeen \in Readings
  BY <1>1 DEF NothingSeen, Readings
<1>3. NoConflict \in ConflictWrites
  BY DEF NoConflict, ConflictWrites
<1>. QED  BY <1>1, <1>2, <1>3 DEF TypeOK, End, Goto, Statements

\* One write, one reading: what each does to the table of the sessions.
LEMMA WriteTypes ==
    ASSUME TypeOK, NEW p \in Sessions
    PROVE  /\ \A row \in OrderRow : WriteOrder(p, row) => wOrder' \in [Sessions -> OrderRow \cup {Unwritten}]
           /\ \A s \in Seqs : \A row \in Row \cup {NoEntry} :
                 WriteEntry(p, s, row) => wEntry' \in [Sessions -> Overlays]
<1>1. ASSUME NEW s \in Seqs, NEW row \in Row \cup {NoEntry}, WriteEntry(p, s, row)
      PROVE  wEntry' \in [Sessions -> Overlays]
  <2>1. [wEntry[p] EXCEPT ![s] = row] \in Overlays
    BY DEF TypeOK, Overlays
  <2>2. wEntry' = [wEntry EXCEPT ![p] = [wEntry[p] EXCEPT ![s] = row]]
    BY <1>1 DEF WriteEntry
  <2>. QED  BY <2>1, <2>2 DEF TypeOK
<1>. QED  BY <1>1 DEF TypeOK, WriteOrder

LEMMA ReadTypes ==
    ASSUME TypeOK, NEW p \in Sessions
    PROVE  /\ \A st \in OrderStatuses : [seen[p] EXCEPT !.status = st] \in Readings
           /\ \A st \in OrderStatuses, d \in BOOLEAN : [seen[p] EXCEPT !.status = st, !.dirty = d] \in Readings
           /\ \A st \in OrderStatuses, e \in Overlays : [seen[p] EXCEPT !.status = st, !.rows = e] \in Readings
           /\ \A e \in Overlays : [seen[p] EXCEPT !.rows = e] \in Readings
           /\ \A s \in Seqs, row \in Row \cup {NoEntry} : [seen[p] EXCEPT !.rows[s] = row] \in Readings
<1>1. seen[p] \in Readings
  BY DEF TypeOK
<1>2. ASSUME NEW s \in Seqs, NEW row \in Row \cup {NoEntry}
      PROVE  [seen[p] EXCEPT !.rows[s] = row] \in Readings
  <2>1. [seen[p].rows EXCEPT ![s] = row] \in Overlays
    BY <1>1 DEF Readings, Overlays
  <2>. QED  BY <1>1, <2>1 DEF Readings
<1>. QED  BY <1>1, <1>2 DEF Readings

LEMMA BeginTypes ==
    ASSUME TypeOK, NEW p \in Sessions, NEW c \in Calls, Begin(p, c)
    PROVE  TypeOK'
<1>1. c \in Requests
  OBVIOUS
<1>2. runs' \in 0 .. MaxRuns /\ (c.kind = "run" => runs' \in 1 .. MaxRuns)
  BY DEF Begin, TypeOK
<1>3. call'[p] \in CallsUnderWay
  BY <1>1, <1>2 DEF Begin, TypeOK, Requests, CallsUnderWay
<1>4. pc' \in [Sessions -> Statements]
  BY <1>1 DEF Begin, Goto, TypeOK, Statements, Requests
<1>5. call' \in [Sessions -> CallsUnderWay \cup {NoCall}]
  BY <1>3 DEF Begin, TypeOK
<1>6. calls' \in Nat /\ overlapped' \in SUBSET Sessions
  BY DEF Begin, TypeOK
<1>. QED  BY <1>2, <1>4, <1>5, <1>6 DEF Begin, TypeOK, rows, writes

LEMMA FloorTypes ==
    ASSUME TypeOK, NEW p \in Sessions, SessionOK(p), RowsFit, FloorStep(p), call[p].kind = "floor"
    PROVE  TypeOK'
<1>. USE DEF rows, counters, locals, writes, Goto, Statements
<1>0. call[p] \in CallsUnderWay /\ call[p].seq \in Seqs /\ call[p].to \in OperationStatuses
  BY DEF TypeOK, CallsUnderWay, NoCall
<1>1. CASE ReadOperation(p)
  <2>1. CASE End(p)
    BY <1>1, <2>1, EndTypes DEF ReadOperation, TypeOK
  <2>2. CASE ~End(p)
    <3>1. seen' = [seen EXCEPT ![p] = [seen[p] EXCEPT !.rows[call[p].seq] = entry[call[p].seq]]]
      BY <1>1, <2>2 DEF ReadOperation
    <3>2. entry[call[p].seq] \in Row \cup {NoEntry}
      BY <1>0 DEF TypeOK
    <3>3. seen' \in [Sessions -> Readings]
      BY <1>0, <3>1, <3>2, ReadTypes DEF TypeOK
    <3>. QED  BY <1>1, <2>2, <3>3 DEF ReadOperation, TypeOK
  <2>. QED  BY <2>1, <2>2
<1>2. CASE CheckGate(p)
  BY <1>2, EndTypes DEF CheckGate, TypeOK
<1>3. CASE UpdateOperation(p)
  <2>. DEFINE s == call[p].seq
              from == seen[p].rows[s].status
  <2>1. CASE ~StillThere(p, s)
    BY <1>3, <2>1, EndTypes DEF UpdateOperation, TypeOK
  <2>2. CASE StillThere(p, s)
    <3>1. entry[s] \in Row /\ StampsFit(entry[s])
      BY <1>0, <2>2, RowKinds DEF StillThere, TypeOK, RowsFit
    <3>2. seen[p].rows[s] \in Row /\ (from \in {"IN_PROGRESS", "COMPLETED"} => entry[s].started)
      <4>1. seen[p].rows[s] \in Row \cup {NoEntry, Unwritten}
        BY <1>0 DEF TypeOK, Readings, Overlays
      <4>2. Exists(seen[p].rows[s]) /\ seen[p].rows[s] # Unwritten /\ StampsFit(seen[p].rows[s])
            /\ (seen[p].rows[s].started => entry[s].started)
        BY <1>3 DEF UpdateOperation, SessionOK, FloorOK
      <4>. QED  BY <4>1, <4>2, RowKinds DEF StampsFit
    <3>3. Moved([entry[s] EXCEPT !.status = from], call[p].to) \in Row
      BY <1>0, <3>1, <3>2, MovedFits DEF Row
    <3>4. wEntry' \in [Sessions -> Overlays]
      BY <1>0, <1>3, <2>2, <3>3, WriteTypes DEF UpdateOperation
    <3>. QED  BY <1>3, <2>2, <3>4 DEF UpdateOperation, TypeOK
  <2>. QED  BY <2>1, <2>2
<1>4. CASE MarkLate(p)
  <2>1. [OrderSeen(p) EXCEPT !.dirty = TRUE] \in OrderRow
    BY SeenTypes DEF OrderRow
  <2>2. wOrder' \in [Sessions -> OrderRow \cup {Unwritten}]
    BY <1>4, <2>1, WriteTypes DEF MarkLate, TypeOK
  <2>. QED  BY <1>4, <2>2 DEF MarkLate, TypeOK
<1>5. CASE RollUp(p)
  <2>1. RolledUp(OrderSeen(p).status, StatusesOf(EntriesSeen(p))) \in OrderStatuses
    BY SeenTypes, RolledUpFits DEF OrderRow
  <2>2. EntriesSeen(p) \in Overlays
    BY SeenTypes DEF Overlays
  <2>3. seen' \in [Sessions -> Readings]
    BY <1>5, <2>1, <2>2, ReadTypes DEF RollUp, TypeOK
  <2>. QED  BY <1>5, <2>3 DEF RollUp, TypeOK
<1>6. CASE UpdateRolledUp(p)
  <2>1. OrderSeen(p).dirty \in BOOLEAN
    BY SeenTypes DEF OrderRow
  <2>2. seen[p].status \in OrderStatuses
    BY <1>6 DEF UpdateRolledUp, SessionOK, FloorOK, OrderStatuses, OpenStatuses, TerminalStatuses
  <2>3. wOrder' \in [Sessions -> OrderRow \cup {Unwritten}]
    BY <1>6, <2>1, <2>2 DEF UpdateRolledUp, WriteOrder, TypeOK, OrderRow
  <2>. QED  BY <1>6, <2>3 DEF UpdateRolledUp, TypeOK
<1>7. CASE ResolveConflicts(p)
  <2>1. wConflict' \in [Sessions -> ConflictWrites]
    BY <1>7 DEF ResolveConflicts, TypeOK, ConflictWrites
  <2>. QED  BY <1>7, <2>1 DEF ResolveConflicts, TypeOK
<1>8. ASSUME NEW changed \in BOOLEAN, ReassessRisk(p, changed)  PROVE TypeOK'
  <2>1. wOrder' \in [Sessions -> OrderRow \cup {Unwritten}]
    BY <1>8, SeenTypes, WriteTypes DEF ReassessRisk, TypeOK
  <2>. QED  BY <1>8, <2>1 DEF ReassessRisk, TypeOK
<1>. QED  BY <1>1, <1>2, <1>3, <1>4, <1>5, <1>6, <1>7, <1>8 DEF FloorStep

LEMMA StatusTypes ==
    ASSUME TypeOK, NEW p \in Sessions, SessionOK(p), RowsFit, StatusStep(p), call[p].kind = "status"
    PROVE  TypeOK'
<1>. USE DEF rows, counters, locals, writes, Goto, Statements
<1>0. call[p].to \in OrderStatuses
  BY DEF TypeOK, CallsUnderWay, NoCall
<1>1. CASE ReadOrder(p)
  <2>1. CASE End(p)
    BY <1>1, <2>1, EndTypes DEF ReadOrder, TypeOK
  <2>2. CASE ~End(p)
    <3>1. order.status \in OrderStatuses
      BY DEF TypeOK, OrderRow
    <3>2. seen' \in [Sessions -> Readings]
      <4>1. seen' = [seen EXCEPT ![p] = [seen[p] EXCEPT !.status = order.status]]
        BY <1>1, <2>2 DEF ReadOrder
      <4>. QED  BY <3>1, <4>1, ReadTypes DEF TypeOK
    <3>. QED  BY <1>1, <2>2, <3>2 DEF ReadOrder, TypeOK
  <2>. QED  BY <2>1, <2>2
<1>2. CASE UpdateOrder(p)
  BY <1>0, <1>2 DEF UpdateOrder, WriteOrder, TypeOK, OrderRow
<1>3. CASE ReadSteps(p)
  <2>1. entry \in Overlays
    BY DEF TypeOK, Overlays
  <2>2. seen' \in [Sessions -> Readings]
    BY <1>3, <2>1, ReadTypes DEF ReadSteps, TypeOK
  <2>. QED  BY <1>3, <2>2 DEF ReadSteps, TypeOK
<1>4. ASSUME NEW s \in Seqs, UpdateStep(p, s)  PROVE TypeOK'
  <2>1. CASE ~StillThere(p, s)
    BY <1>4, <2>1, EndTypes DEF UpdateStep, TypeOK
  <2>2. CASE StillThere(p, s)
    <3>. DEFINE w == Resettled(p, seen[p].rows[s])
    <3>1. entry[s] \in Row /\ StampsFit(entry[s])
      BY <2>2, RowKinds DEF StillThere, TypeOK, RowsFit
    <3>2. seen[p].rows[s] \in Row /\ (seen[p].rows[s].started => entry[s].started) /\ StampsFit(seen[p].rows[s])
      <4>1. seen[p].rows[s] \in Row \cup {NoEntry, Unwritten}
        BY DEF TypeOK, Readings, Overlays
      <4>2. Exists(seen[p].rows[s]) /\ seen[p].rows[s] # Unwritten /\ StampsFit(seen[p].rows[s])
            /\ (seen[p].rows[s].started => entry[s].started)
        BY <1>4 DEF UpdateStep, IsNext, SessionOK, StatusOK
      <4>. QED  BY <4>1, <4>2, RowKinds
    <3>3. [entry[s] EXCEPT !.status = w.status, !.hold = w.hold] \in Row
      BY <3>1, <3>2, ResettledFits
    <3>4. wEntry' \in [Sessions -> Overlays]
      BY <1>4, <2>2, <3>3, WriteTypes DEF UpdateStep
    <3>5. todo' \in [Sessions -> SUBSET Seqs] /\ pc' \in [Sessions -> Statements]
      BY <1>4, <2>2 DEF UpdateStep, TypeOK
    <3>. QED  BY <1>4, <2>2, <3>4, <3>5 DEF UpdateStep, TypeOK
  <2>. QED  BY <2>1, <2>2
<1>. QED  BY <1>1, <1>2, <1>3, <1>4 DEF StatusStep

LEMMA RunTypes ==
    ASSUME TypeOK, NEW p \in Sessions, SessionOK(p), RunStep(p), call[p].kind = "run"
    PROVE  TypeOK'
<1>. USE DEF rows, counters, locals, writes, Goto, Statements
<1>0. call[p].run \in 1 .. MaxRuns
  BY DEF TypeOK, CallsUnderWay, NoCall
<1>1. CASE LockTenant(p)
  BY <1>1 DEF LockTenant, TypeOK
<1>2. CASE LoadOrders(p)
  <2>1. order.status \in OrderStatuses /\ order.dirty \in BOOLEAN
    BY DEF TypeOK, OrderRow
  <2>2. seen' \in [Sessions -> Readings]
    BY <1>2, <2>1, ReadTypes DEF LoadOrders, TypeOK
  <2>3. basis' \in [0 .. MaxRuns -> Nat]
    BY <1>0, <1>2 DEF LoadOrders, TypeOK
  <2>. QED  BY <1>2, <2>2, <2>3 DEF LoadOrders, TypeOK
<1>3. CASE LoadEntries(p)
  <2>1. entry \in Overlays
    BY DEF TypeOK, Overlays
  <2>2. seen' \in [Sessions -> Readings]
    BY <1>3, <2>1, ReadTypes DEF LoadEntries, TypeOK
  <2>. QED  BY <1>3, <2>2 DEF LoadEntries, TypeOK
<1>4. CASE FindReplaced(p)
  BY <1>4 DEF FindReplaced, TypeOK
<1>5. ASSUME NEW s \in Seqs, DeleteRow(p, s)  PROVE TypeOK'
  <2>1. wEntry' \in [Sessions -> Overlays]
    BY <1>5, WriteTypes DEF DeleteRow, TypeOK
  <2>. QED  BY <1>5, <2>1 DEF DeleteRow, TypeOK
<1>6. ASSUME NEW placed \in BOOLEAN, InsertRows(p, placed)  PROVE TypeOK'
  <2>. DEFINE plan == IF placed THEN Remaining(p) ELSE {}
  <2>1. CASE \E s \in plan : Exists(EntriesSeen(p)[s])
    BY <1>6, <2>1, EndTypes DEF InsertRows, TypeOK
  <2>2. CASE ~\E s \in plan : Exists(EntriesSeen(p)[s])
    <3>1. FreshRow(call[p].run) \in Row
      BY <1>0, FreshRowFits
    <3>2. wEntry' \in [Sessions -> Overlays]
      <4>. DEFINE overlay == [s \in Seqs |-> IF s \in plan THEN FreshRow(call[p].run) ELSE wEntry[p][s]]
      <4>1. overlay \in Overlays
        BY <3>1 DEF TypeOK, Overlays
      <4>2. wEntry' = [wEntry EXCEPT ![p] = overlay]
        BY <1>6, <2>2 DEF InsertRows
      <4>. HIDE DEF overlay
      <4>. QED  BY <4>1, <4>2 DEF TypeOK
    <3>. QED  BY <1>6, <2>2, <3>2 DEF InsertRows, TypeOK
  <2>. QED  BY <2>1, <2>2
<1>9. ASSUME NEW cascaded \in SUBSET conflicts, RowsDeleted(p, cascaded)  PROVE TypeOK'
  <2>1. wConflict' \in [Sessions -> ConflictWrites]
    BY <1>9 DEF RowsDeleted, TypeOK, ConflictWrites
  <2>. QED  BY <1>9, <2>1 DEF RowsDeleted, TypeOK
<1>10. ASSUME NEW reported \in BOOLEAN, ReplaceConflicts(p, reported)  PROVE TypeOK'
  <2>. DEFINE new == [resolves |-> IF IsConsidered(seen[p].status) THEN conflicts ELSE {},
                      reports  |-> IF IsConsidered(seen[p].status) /\ reported
                                   THEN {call[p].run} ELSE {}]
  <2>1. wConflict' \in [Sessions -> ConflictWrites]
    <3>1. new \in ConflictWrites
      BY <1>0 DEF TypeOK, ConflictWrites
    <3>2. wConflict' = [wConflict EXCEPT ![p] = new]
      BY <1>10 DEF ReplaceConflicts
    <3>. HIDE DEF new
    <3>. QED  BY <3>1, <3>2 DEF TypeOK
  <2>. QED  BY <1>10, <2>1 DEF ReplaceConflicts, TypeOK
<1>7. ASSUME NEW changed \in BOOLEAN, ClearConsidered(p, changed)  PROVE TypeOK'
  <2>1. [order EXCEPT !.dirty = FALSE] \in OrderRow
    BY DEF TypeOK, OrderRow
  <2>2. wOrder' \in [Sessions -> OrderRow \cup {Unwritten}]
    BY <1>7, <2>1, WriteTypes DEF ClearConsidered, TypeOK
  <2>. QED  BY <1>7, <2>2 DEF ClearConsidered, TypeOK
<1>8. CASE ClearHeld(p)
  <2>1. [OrderSeen(p) EXCEPT !.dirty = FALSE] \in OrderRow
    BY SeenTypes DEF OrderRow
  <2>2. wOrder' \in [Sessions -> OrderRow \cup {Unwritten}]
    BY <1>8, <2>1, WriteTypes DEF ClearHeld, TypeOK
  <2>. QED  BY <1>8, <2>2 DEF ClearHeld, TypeOK
<1>. QED  BY <1>1, <1>2, <1>3, <1>4, <1>5, <1>6, <1>7, <1>8, <1>9, <1>10 DEF RunStep

LEMMA EndingTypes ==
    ASSUME TypeOK, NEW p \in Sessions,
           EditPlant(p) \/ MarkScheduleDirty(p) \/ Commit(p) \/ Rollback(p)
    PROVE  TypeOK'
<1>. USE DEF rows, counters, locals, writes, Goto, Statements
<1>1. CASE EditPlant(p)
  BY <1>1 DEF EditPlant, TypeOK
<1>2. CASE MarkScheduleDirty(p)
  <2>1. order' \in OrderRow
    BY <1>2 DEF MarkScheduleDirty, TypeOK, OrderRow, Markable
  <2>. QED  BY <1>2, <2>1, EndTypes DEF MarkScheduleDirty, TypeOK
<1>3. CASE Commit(p)
  <2>1. order' \in OrderRow /\ entry' \in [Seqs -> Row \cup {NoEntry}]
    BY <1>3, SeenTypes DEF Commit
  <2>2. conflicts' \in SUBSET (1 .. MaxRuns)
    BY <1>3 DEF Commit, TypeOK, ConflictWrites
  <2>3. overlapped' \in SUBSET Sessions /\ raced' \in BOOLEAN
    BY <1>3 DEF Commit, TypeOK
  <2>4. NoRows \in Overlays
    BY DEF NoRows, Overlays
  <2>5. CASE call[p].kind = "status"
    <3>1. wOrder' \in [Sessions -> OrderRow \cup {Unwritten}] /\ wEntry' \in [Sessions -> Overlays]
      BY <1>3, <2>4, <2>5 DEF Commit, TypeOK
    <3>. QED  BY <1>3, <2>1, <2>2, <2>3, <2>5, <3>1 DEF Commit, TypeOK
  <2>6. CASE call[p].kind # "status"
    BY <1>3, <2>1, <2>2, <2>3, <2>6, EndTypes DEF Commit, TypeOK
  <2>. QED  BY <2>5, <2>6
<1>4. CASE Rollback(p)
  BY <1>4, EndTypes DEF Rollback, TypeOK
<1>. QED  BY <1>1, <1>2, <1>3, <1>4

-----------------------------------------------------------------------------
(***************************************************************************)
(* What the step of a session leaves to the others.                        *)
(***************************************************************************)
LEMMA EndKeeps ==
    ASSUME TypeOK, NEW p \in Sessions, NEW q \in Sessions \ {p}, End(p)
    PROVE  Kept(q)
  BY DEF End, Goto, Kept, TypeOK

\* The kind of the call under way, by the statement that is executed.
LEMMA KindOfStep ==
    ASSUME TypeOK, NEW p \in Sessions, SessionOK(p)
    PROVE  /\ FloorStep(p) => call[p].kind = "floor"
           /\ StatusStep(p) => call[p].kind = "status"
           /\ RunStep(p) => call[p].kind = "run"
           /\ Commit(p) => call[p].kind \in {"floor", "status", "run"}
           /\ MarkScheduleDirty(p) => call[p].kind \in {"edit", "status"}
           /\ EditPlant(p) => call[p].kind = "edit"
<1>. USE DEF SessionOK, CallFits, FloorStatements, StatusStatements, RunStatements
<1>1. FloorStep(p) => call[p].kind = "floor"
  BY DEF FloorStep, ReadOperation, CheckGate, UpdateOperation, MarkLate, RollUp, UpdateRolledUp,
         ResolveConflicts, ReassessRisk
<1>2. StatusStep(p) => call[p].kind = "status"
  BY DEF StatusStep, ReadOrder, UpdateOrder, ReadSteps, UpdateStep
<1>3. RunStep(p) => call[p].kind = "run"
  BY DEF RunStep, LockTenant, LoadOrders, LoadEntries, FindReplaced, DeleteRow, RowsDeleted,
         InsertRows, ReplaceConflicts, ClearConsidered, ClearHeld
<1>4. Commit(p) => call[p].kind \in {"floor", "status", "run"}
  BY DEF Commit
<1>. QED  BY <1>1, <1>2, <1>3, <1>4 DEF MarkScheduleDirty, EditPlant

\* Steps that leave the committed rows and what runs were made from alone.
LEMMA QuietStep ==
    ASSUME TypeOK, NEW p \in Sessions, NEW q \in Sessions \ {p}, SessionOK(p),
           \/ \E c \in Calls : Begin(p, c)
           \/ FloorStep(p) \/ StatusStep(p) \/ (RunStep(p) /\ ~LoadOrders(p))
           \/ EditPlant(p) \/ Rollback(p)
    PROVE  /\ Kept(q)
           /\ order' = order /\ entry' = entry /\ basis' = basis
           /\ q \in overlapped' <=> q \in overlapped
<1>. USE EndKeeps DEF rows, counters, locals, writes, WriteOrder, WriteEntry
<1>1. ASSUME NEW c \in Calls, Begin(p, c)
      PROVE  Kept(q) /\ order' = order /\ entry' = entry /\ basis' = basis /\ (q \in overlapped' <=> q \in overlapped)
  BY <1>1 DEF Begin, Goto, Kept, TypeOK
<1>2. CASE FloorStep(p)
  <2>1. CASE ReadOperation(p)
    BY <2>1 DEF ReadOperation, Goto, Kept, TypeOK
  <2>2. CASE CheckGate(p)
    BY <2>2 DEF CheckGate, Goto, Kept, TypeOK
  <2>3. CASE UpdateOperation(p)
    BY <2>3 DEF UpdateOperation, Goto, Kept, TypeOK
  <2>4. CASE MarkLate(p)
    BY <2>4 DEF MarkLate, Goto, Kept, TypeOK
  <2>5. CASE RollUp(p)
    BY <2>5 DEF RollUp, Goto, Kept, TypeOK
  <2>6. CASE UpdateRolledUp(p)
    BY <2>6 DEF UpdateRolledUp, Goto, Kept, TypeOK
  <2>7. CASE ResolveConflicts(p)
    BY <2>7 DEF ResolveConflicts, Goto, Kept, TypeOK
  <2>8. ASSUME NEW changed \in BOOLEAN, ReassessRisk(p, changed)
        PROVE  Kept(q) /\ order' = order /\ entry' = entry /\ basis' = basis /\ (q \in overlapped' <=> q \in overlapped)
    BY <2>8 DEF ReassessRisk, Goto, Kept, TypeOK
  <2>. QED  BY <1>2, <2>1, <2>2, <2>3, <2>4, <2>5, <2>6, <2>7, <2>8 DEF FloorStep
<1>3. CASE StatusStep(p)
  <2>1. CASE ReadOrder(p)
    BY <2>1 DEF ReadOrder, Goto, Kept, TypeOK
  <2>2. CASE UpdateOrder(p)
    BY <2>2 DEF UpdateOrder, Goto, Kept, TypeOK
  <2>3. CASE ReadSteps(p)
    BY <2>3 DEF ReadSteps, Goto, Kept, TypeOK
  <2>4. ASSUME NEW s \in Seqs, UpdateStep(p, s)
        PROVE  Kept(q) /\ order' = order /\ entry' = entry /\ basis' = basis /\ (q \in overlapped' <=> q \in overlapped)
    BY <2>4 DEF UpdateStep, Goto, Kept, TypeOK
  <2>. QED  BY <1>3, <2>1, <2>2, <2>3, <2>4 DEF StatusStep
<1>4. CASE RunStep(p) /\ ~LoadOrders(p)
  <2>1. CASE LockTenant(p)
    <3>1. planner # q
      BY <2>1, Granted DEF LockTenant
    <3>. QED  BY <2>1, <3>1 DEF LockTenant, Goto, Kept, TypeOK
  <2>2. CASE LoadEntries(p)
    BY <2>2 DEF LoadEntries, Goto, Kept, TypeOK
  <2>3. CASE FindReplaced(p)
    BY <2>3 DEF FindReplaced, Goto, Kept, TypeOK
  <2>4. ASSUME NEW s \in Seqs, DeleteRow(p, s)
        PROVE  Kept(q) /\ order' = order /\ entry' = entry /\ basis' = basis /\ (q \in overlapped' <=> q \in overlapped)
    BY <2>4 DEF DeleteRow, Goto, Kept, TypeOK
  <2>5. ASSUME NEW cascaded \in SUBSET conflicts, RowsDeleted(p, cascaded)
        PROVE  Kept(q) /\ order' = order /\ entry' = entry /\ basis' = basis /\ (q \in overlapped' <=> q \in overlapped)
    BY <2>5 DEF RowsDeleted, Goto, Kept, TypeOK
  <2>9. ASSUME NEW reported \in BOOLEAN, ReplaceConflicts(p, reported)
        PROVE  Kept(q) /\ order' = order /\ entry' = entry /\ basis' = basis /\ (q \in overlapped' <=> q \in overlapped)
    BY <2>9 DEF ReplaceConflicts, Goto, Kept, TypeOK
  <2>6. ASSUME NEW placed \in BOOLEAN, InsertRows(p, placed)
        PROVE  Kept(q) /\ order' = order /\ entry' = entry /\ basis' = basis /\ (q \in overlapped' <=> q \in overlapped)
    BY <2>6 DEF InsertRows, Goto, Kept, TypeOK
  <2>7. ASSUME NEW changed \in BOOLEAN, ClearConsidered(p, changed)
        PROVE  Kept(q) /\ order' = order /\ entry' = entry /\ basis' = basis /\ (q \in overlapped' <=> q \in overlapped)
    BY <2>7 DEF ClearConsidered, Goto, Kept, TypeOK
  <2>8. CASE ClearHeld(p)
    BY <2>8 DEF ClearHeld, Goto, Kept, TypeOK
  <2>. QED  BY <1>4, <2>1, <2>2, <2>3, <2>4, <2>5, <2>6, <2>7, <2>8, <2>9 DEF RunStep
<1>5. CASE EditPlant(p)
  BY <1>5 DEF EditPlant, Goto, Kept, TypeOK
<1>6. CASE Rollback(p)
  BY <1>6 DEF Rollback, Goto, Kept, TypeOK
<1>. QED  BY <1>1, <1>2, <1>3, <1>4, <1>5, <1>6

\* A commit replaces the rows the session has written, and nobody else has written them.
LEMMA CommitKeeps ==
    ASSUME TypeOK, NEW p \in Sessions, NEW q \in Sessions \ {p},
           SessionOK(p), SessionOK(q), OneWriter, Commit(p)
    PROVE  Rely(q)
<1>1. Kept(q)
  BY EndKeeps DEF Commit, Goto, Kept, TypeOK, locals
<1>2. OrderWritten(q) => order' = order
  BY DEF Commit, OrderSeen, OneWriter, OrderWritten
<1>3. ASSUME NEW s \in Seqs
      PROVE  /\ Written(q, s) => entry'[s] = entry[s]
             /\ entry[s].started => entry'[s].started
             /\ entry[s].locked => entry'[s].locked
  BY DEF Commit, EntriesSeen, OneWriter, Written, SessionOK, StartsKept
<1>4. ASSUME NEW s \in Seqs, planner = q
      PROVE  /\ Exists(entry'[s]) <=> Exists(entry[s])
             /\ Exists(entry[s]) => entry'[s].run = entry[s].run
  <2>1. call[p].kind \in {"floor", "status"}
    BY <1>4, KindOfStep DEF SessionOK, CallFits, Commit, RunStatements
  <2>2. Written(p, s) => SameRow(p, s)
    BY <2>1 DEF SessionOK, FloorOK, StatusOK
  <2>. QED  BY <2>2 DEF Commit, EntriesSeen, Written, SameRow
<1>5. q \in overlapped => q \in overlapped'
  BY DEF Commit
<1>6. q \notin overlapped' /\ call[q] # NoCall => order'.status = order.status /\ call[q].kind # "status"
  BY DEF Commit
<1>. QED  BY <1>1, <1>2, <1>3, <1>4, <1>5, <1>6 DEF Rely, Commit

LEMMA MarkKeeps ==
    ASSUME TypeOK, NEW p \in Sessions, NEW q \in Sessions \ {p}, SessionOK(p), MarkScheduleDirty(p)
    PROVE  Rely(q)
<1>1. Kept(q)
  BY EndKeeps DEF MarkScheduleDirty
<1>2. order'.status = order.status
  BY DEF MarkScheduleDirty, TypeOK, OrderRow
<1>3. OrderWritten(q) => order' = order
  <2>1. OrderSeen(p) = order
    BY DEF SessionOK, WritesFit, MarkScheduleDirty, OrderSeen, OrderWritten
  <2>2. OrderWritten(q) => ~Markable(order)
    BY <2>1, Granted DEF MarkScheduleDirty, NeedsOrder
  <2>. QED  BY <2>2 DEF MarkScheduleDirty, TypeOK, OrderRow
<1>. QED  BY <1>1, <1>2, <1>3 DEF Rely, MarkScheduleDirty, counters

LEMMA Guarantee ==
    ASSUME TypeOK, NEW p \in Sessions, NEW q \in Sessions \ {p},
           SessionOK(p), SessionOK(q), OneWriter,
           (\E c \in Calls : Begin(p, c)) \/ Step(p) \/ Rollback(p)
    PROVE  Rely(q)
<1>1. CASE LoadOrders(p)
  <2>1. planner = p
    BY <1>1 DEF LoadOrders, SessionOK, CallFits, FloorStatements, StatusStatements, RunStatements
  <2>. QED  BY <1>1, <2>1 DEF LoadOrders, Rely, Kept, TypeOK, rows, writes, Goto
<1>2. CASE Commit(p)
  BY <1>2, CommitKeeps
<1>3. CASE MarkScheduleDirty(p)
  BY <1>3, MarkKeeps
<1>4. CASE ~LoadOrders(p) /\ ~Commit(p) /\ ~MarkScheduleDirty(p)
  BY <1>4, QuietStep DEF Step, Rely
<1>. QED  BY <1>1, <1>2, <1>3, <1>4

-----------------------------------------------------------------------------
(***************************************************************************)
(* What a session knows after a step of its own.                           *)
(***************************************************************************)
LEMMA EndOK ==
    ASSUME TypeOK, NEW p \in Sessions, End(p)
    PROVE  SessionOK(p)' /\ ~OrderWritten(p)' /\ \A s \in Seqs : ~Written(p, s)'
<1>1. /\ pc'[p] = "idle" /\ call'[p] = NoCall /\ todo'[p] = {} /\ wOrder'[p] = Unwritten
      /\ wEntry'[p] = NoRows /\ wConflict'[p] = NoConflict /\ planner' # p
  BY DEF End, Goto, TypeOK
<1>2. ~OrderWritten(p)' /\ \A s \in Seqs : ~Written(p, s)'
  BY <1>1 DEF OrderWritten, Written, NoRows
<1>3. NoCall.kind = "none"
  BY DEF NoCall
<1>. QED  BY <1>1, <1>2, <1>3 DEF SessionOK, CallFits, WritesFit, StartsKept, FloorOK, StatusOK, RunOK

LEMMA BeginOK ==
    ASSUME TypeOK, NEW p \in Sessions, NEW c \in Calls, SessionOK(p), Begin(p, c)
    PROVE  SessionOK(p)' /\ ~OrderWritten(p)' /\ \A s \in Seqs : ~Written(p, s)'
<1>1. ~OrderWritten(p) /\ todo[p] = {} /\ wConflict[p] = NoConflict /\ (\A s \in Seqs : ~Written(p, s)) /\ planner # p
  BY DEF Begin, SessionOK, WritesFit, CallFits, RunStatements
<1>2. c.kind \in {"floor", "status", "edit", "run"}
  BY DEF Requests
<1>3. /\ call'[p].kind = c.kind
      /\ pc'[p] = CASE c.kind = "floor"  -> "read"
                    [] c.kind = "status" -> "from"
                    [] c.kind = "edit"   -> "edit"
                    [] c.kind = "run"    -> "tenant"
  BY DEF Begin, Goto, TypeOK
<1>4. ~OrderWritten(p)' /\ todo'[p] = {} /\ wConflict'[p] = NoConflict /\ planner' # p
  BY <1>1 DEF Begin, writes, OrderWritten
<1>5. \A s \in Seqs : ~Written(p, s)'
  BY <1>1 DEF Begin, writes, Written
<1>6. CallFits(p)'
  BY <1>2, <1>3, <1>4 DEF CallFits, FloorStatements, StatusStatements, RunStatements
<1>7. WritesFit(p)' /\ StartsKept(p)'
  BY <1>4, <1>5 DEF WritesFit, StartsKept
<1>8. FloorOK(p)'
  BY <1>2, <1>3, <1>4, <1>5 DEF FloorOK, NoConflict
<1>9. StatusOK(p)' /\ RunOK(p)'
  BY <1>2, <1>3, <1>4, <1>5 DEF StatusOK, RunOK, RunStatements
<1>. QED  BY <1>4, <1>5, <1>6, <1>7, <1>8, <1>9 DEF SessionOK

\* A step within a floor transition.
LEMMA FloorStepOK ==
    ASSUME TypeOK, TypeOK', NEW p \in Sessions, SessionOK(p), RowsFit, FloorStep(p)
    PROVE  SessionOK(p)'
<1>. USE DEF rows, counters, locals, writes, Goto
<1>0. /\ call[p].kind = "floor" /\ call[p].seq \in Seqs /\ call[p].to \in OperationStatuses /\ call[p] # NoCall
      /\ planner # p
  <2>1. call[p].kind = "floor" /\ call[p] \in CallsUnderWay \cup {NoCall}
    BY KindOfStep DEF TypeOK
  <2>. QED  BY <2>1 DEF CallsUnderWay, NoCall, SessionOK, CallFits
<1>a. ASSUME call'[p] = call[p], planner' = planner, pc'[p] \in FloorStatements,
             WritesFit(p)', StartsKept(p)', FloorOK(p)'
      PROVE  SessionOK(p)'
  BY <1>0, <1>a DEF SessionOK, CallFits, StatusOK, RunOK
<1>1. CASE ReadOperation(p)
  <2>. SUFFICES ASSUME ~End(p)  PROVE SessionOK(p)'
    BY EndOK
  <2>. DEFINE s == call[p].seq
  <2>1. /\ pc[p] = "read" /\ Exists(entry[s]) /\ order.status \notin TerminalStatuses
        /\ order.status = "ON_HOLD" => call[p].to = "ON_HOLD"
        /\ seen' = [seen EXCEPT ![p].rows[s] = entry[s]]
        /\ pc' = [pc EXCEPT ![p] = IF call[p].to = "IN_PROGRESS" /\ entry[s].status # "COMPLETED"
                                   THEN "gate" ELSE "operation"]
        /\ UNCHANGED <<planner, call, todo, writes, rows, counters>>
    BY <1>1 DEF ReadOperation
  <2>2. seen'[p].rows[s] = entry[s]
    BY <1>0, <2>1 DEF TypeOK, Readings, Overlays
  <2>3. entry[s] # Unwritten /\ StampsFit(entry[s])
    BY <1>0, RowKinds DEF TypeOK, RowsFit
  <2>4. pc'[p] \in {"gate", "operation"}
    BY <2>1 DEF TypeOK
  <2>5. ~OrderWritten(p) /\ todo[p] = {} /\ wConflict[p] = NoConflict /\ \A r \in Seqs : ~Written(p, r)
    BY <2>1 DEF SessionOK, WritesFit
  <2>6. ~OrderWritten(p)' /\ todo'[p] = {} /\ wConflict'[p] = NoConflict /\ \A r \in Seqs : ~Written(p, r)'
    BY <2>1, <2>5 DEF OrderWritten, Written
  <2>7. WritesFit(p)' /\ StartsKept(p)'
    BY <2>6 DEF WritesFit, StartsKept
  <2>8. FloorOK(p)'
    BY <2>1, <2>2, <2>3, <2>4, <2>6 DEF FloorOK, NoConflict
  <2>. QED  BY <1>a, <2>1, <2>4, <2>7, <2>8 DEF FloorStatements
<1>2. CASE CheckGate(p)
  <2>. SUFFICES ASSUME ~End(p)  PROVE SessionOK(p)'
    BY EndOK
  <2>1. pc[p] = "gate" /\ pc' = [pc EXCEPT ![p] = "operation"]
        /\ UNCHANGED <<planner, locals, writes, rows, counters>>
    BY <1>2 DEF CheckGate
  <2>2. pc'[p] = "operation"
    BY <2>1 DEF TypeOK
  <2>3. WritesFit(p)' /\ StartsKept(p)'
    BY <2>1, <2>2 DEF SessionOK, WritesFit, StartsKept, OrderWritten, Written
  <2>4. FloorOK(p)'
    BY <1>0, <2>1, <2>2 DEF SessionOK, FloorOK, OrderWritten, Written, SameRow
  <2>. QED  BY <1>a, <2>1, <2>2, <2>3, <2>4 DEF FloorStatements
<1>3. CASE UpdateOperation(p)
  <2>. SUFFICES ASSUME ~End(p)  PROVE SessionOK(p)'
    BY EndOK
  <2>. DEFINE s == call[p].seq
              from == seen[p].rows[s].status
              new == Moved([entry[s] EXCEPT !.status = from], call[p].to)
  <2>1. /\ pc[p] = "operation" /\ StillThere(p, s)
        /\ wEntry' = [wEntry EXCEPT ![p][s] = new]
        /\ \E next \in {"late", "updated"} : pc' = [pc EXCEPT ![p] = next]
        /\ UNCHANGED <<planner, locals, wOrder, wConflict, rows, counters>>
    BY <1>3 DEF UpdateOperation, WriteEntry
  <2>2. entry[s] \in Row /\ StampsFit(entry[s])
    BY <1>0, <2>1, RowKinds DEF StillThere, TypeOK, RowsFit
  <2>3. seen[p].rows[s] \in Row /\ (from \in {"IN_PROGRESS", "COMPLETED"} => entry[s].started)
    <3>1. seen[p].rows[s] \in Row \cup {NoEntry, Unwritten}
      BY <1>0 DEF TypeOK, Readings, Overlays
    <3>2. Exists(seen[p].rows[s]) /\ seen[p].rows[s] # Unwritten /\ StampsFit(seen[p].rows[s])
          /\ (seen[p].rows[s].started => entry[s].started)
      BY <1>0, <2>1 DEF SessionOK, FloorOK
    <3>. QED  BY <3>1, <3>2, RowKinds DEF StampsFit
  <2>4. /\ new \in Row /\ new.run = entry[s].run /\ new.status = call[p].to
        /\ entry[s].started => new.started
        /\ entry[s].locked => new.locked
        /\ StampsFit(new)
    <3>1. from \in OperationStatuses
      BY <2>3 DEF Row
    <3>. QED  BY <1>0, <2>2, <2>3, <3>1, MovedFits
  <2>5. ~OrderWritten(p) /\ todo[p] = {} /\ wConflict[p] = NoConflict /\ \A r \in Seqs : ~Written(p, r)
    BY <2>1 DEF SessionOK, WritesFit
  <2>6. pc'[p] \in {"late", "updated"}
    BY <2>1 DEF TypeOK
  <2>7. wEntry'[p] = [wEntry[p] EXCEPT ![s] = new]
    BY <2>1 DEF TypeOK
  <2>8. wEntry'[p][s] = new /\ \A r \in Seqs \ {s} : wEntry'[p][r] = wEntry[p][r]
    BY <1>0, <2>7 DEF TypeOK, Overlays
  <2>9. \A r \in Seqs : Written(p, r)' => r = s
    BY <2>5, <2>8 DEF Written
  <2>10. ~OrderWritten(p)' /\ todo'[p] = {} /\ wConflict'[p] = NoConflict
    BY <2>1, <2>5 DEF OrderWritten
  <2>11. WritesFit(p)' /\ StartsKept(p)'
    BY <2>1, <2>4, <2>6, <2>8, <2>9, <2>10 DEF WritesFit, StartsKept
  <2>12. Exists(new) /\ Exists(entry[s])
    BY <2>2, <2>4, RowKinds
  <2>13. FloorOK(p)'
    <3>1. FloorOK(p)
      BY DEF SessionOK
    <3>2. SameRow(p, s)'
      BY <2>1, <2>4, <2>8, <2>12 DEF SameRow
    <3>3. \A r \in Seqs : Written(p, r)' => r = call[p].seq /\ wEntry'[p][r].status = call[p].to /\ SameRow(p, r)'
      BY <2>1, <2>4, <2>8, <2>9, <3>2
    <3>4. call'[p] = call[p] /\ overlapped' = overlapped /\ order' = order /\ pc[p] = "operation"
      BY <2>1
    <3>. HIDE DEF s, from, new
    <3>. QED  BY <1>0, <2>6, <2>10, <3>1, <3>3, <3>4 DEF FloorOK, NoConflict
  <2>. QED  BY <1>a, <2>1, <2>6, <2>11, <2>13 DEF FloorStatements
<1>4. CASE MarkLate(p)
  <2>1. /\ pc[p] = "late" /\ pc' = [pc EXCEPT ![p] = "updated"]
        /\ \/ wOrder' = wOrder
           \/ wOrder' = [wOrder EXCEPT ![p] = [OrderSeen(p) EXCEPT !.dirty = TRUE]]
        /\ UNCHANGED <<planner, locals, wEntry, wConflict, rows, counters>>
    BY <1>4 DEF MarkLate, WriteOrder
  <2>2. pc'[p] = "updated" /\ ~OrderWritten(p) /\ OrderSeen(p) = order
    BY <2>1 DEF TypeOK, SessionOK, WritesFit, OrderWritten, OrderSeen
  <2>3. OrderWritten(p)' => wOrder'[p].status = order.status /\ wOrder'[p].dirty
    BY <2>1, <2>2 DEF TypeOK, OrderWritten, OrderRow
  <2>4. WritesFit(p)' /\ StartsKept(p)'
    BY <2>1, <2>2 DEF SessionOK, WritesFit, StartsKept, OrderWritten, Written
  <2>5. FloorOK(p)'
    BY <1>0, <2>1, <2>2, <2>3 DEF SessionOK, FloorOK, Written, SameRow, OrderWritten
  <2>. QED  BY <1>a, <2>1, <2>2, <2>4, <2>5 DEF FloorStatements
<1>5. CASE RollUp(p)
  <2>. DEFINE st == OrderSeen(p).status
              target == RolledUp(st, StatusesOf(EntriesSeen(p)))
  <2>1. /\ pc[p] = "updated" /\ pc' = [pc EXCEPT ![p] = IF target = st THEN "risk" ELSE "rolledUp"]
        /\ seen' = [seen EXCEPT ![p].status = target, ![p].rows = EntriesSeen(p)]
        /\ UNCHANGED <<planner, call, todo, writes, rows, counters>>
    BY <1>5 DEF RollUp
  <2>2. seen'[p].status = target /\ seen'[p].rows = EntriesSeen(p)
    BY <2>1 DEF TypeOK, Readings
  <2>3. pc'[p] = IF target = st THEN "risk" ELSE "rolledUp"
    BY <2>1 DEF TypeOK
  <2>4. st \in OrderStatuses
    BY SeenTypes DEF OrderRow
  <2>5. st = order.status
    BY <1>0, <2>1 DEF SessionOK, FloorOK, OrderSeen, OrderWritten
  <2>6. /\ RolledUp(target, StatusesOf(EntriesSeen(p))) = target
        /\ target # st => target \in {"IN_PROGRESS", "COMPLETED"} /\ st \notin {"ON_HOLD", "CANCELLED"}
    BY <2>4, RolledUpFits
  <2>7. WritesFit(p)' /\ StartsKept(p)'
    BY <2>1, <2>3 DEF SessionOK, WritesFit, StartsKept, OrderWritten, Written
  <2>8. FloorOK(p)'
    BY <1>0, <2>1, <2>2, <2>3, <2>5, <2>6 DEF SessionOK, FloorOK, OrderWritten, Written, SameRow
  <2>. QED  BY <1>a, <2>1, <2>3, <2>7, <2>8 DEF FloorStatements
<1>6. CASE UpdateRolledUp(p)
  <2>. DEFINE closes == seen[p].status = "COMPLETED"
              new == [status |-> seen[p].status, dirty |-> OrderSeen(p).dirty /\ ~closes]
  <2>1. /\ pc[p] = "rolledUp" /\ pc' = [pc EXCEPT ![p] = IF closes THEN "resolving" ELSE "risk"]
        /\ wOrder' = [wOrder EXCEPT ![p] = new]
        /\ UNCHANGED <<planner, locals, wEntry, wConflict, rows, counters>>
    BY <1>6 DEF UpdateRolledUp, WriteOrder
  <2>2. pc'[p] = (IF closes THEN "resolving" ELSE "risk") /\ wOrder'[p] = new
    BY <2>1 DEF TypeOK
  <2>3. OrderWritten(p)'
    <3>1. seen[p].status \in OrderStatuses /\ OrderSeen(p).dirty \in BOOLEAN
      BY <1>0, <2>1, SeenTypes DEF SessionOK, FloorOK, OrderStatuses, OpenStatuses, TerminalStatuses, OrderRow
    <3>2. new \in OrderRow
      BY <3>1 DEF OrderRow
    <3>. QED  BY <2>2, <3>2, RowKinds DEF OrderWritten
  <2>5. seen[p].status \in {"IN_PROGRESS", "COMPLETED"} /\ (order.dirty => OrderSeen(p).dirty)
    <3>1. OrderWritten(p) => wOrder[p].dirty
      BY <1>0, <2>1 DEF SessionOK, FloorOK
    <3>. QED  BY <1>0, <2>1, <3>1 DEF SessionOK, FloorOK, OrderSeen, OrderWritten
  <2>6. WritesFit(p)' /\ StartsKept(p)'
    BY <2>1, <2>2 DEF SessionOK, WritesFit, StartsKept, Written
  <2>7. FloorOK(p)'
    <3>1. FloorOK(p) /\ wConflict[p] = NoConflict
      BY <2>1 DEF SessionOK, WritesFit
    <3>2. p \notin overlapped => order.status # "ON_HOLD"
      BY <1>0, <2>1, <3>1 DEF FloorOK
    <3>3. \A s \in Seqs : (Written(p, s)' <=> Written(p, s)) /\ (SameRow(p, s)' <=> SameRow(p, s))
      BY <2>1 DEF Written, SameRow
    <3>4. \A s \in Seqs : Written(p, s)' => s = call[p].seq /\ wEntry'[p][s].status = call[p].to /\ SameRow(p, s)'
      BY <1>0, <2>1, <3>1, <3>3 DEF FloorOK
    <3>5. RolledUp(seen'[p].status, StatusesOf(seen'[p].rows)) = seen'[p].status
      BY <1>0, <2>1, <3>1 DEF FloorOK
    <3>6. wConflict'[p].reports = {} /\ wConflict'[p].resolves = {}
      BY <2>1, <3>1 DEF NoConflict
    <3>7. /\ call'[p] = call[p] /\ seen'[p] = seen[p] /\ overlapped' = overlapped /\ order' = order
          /\ p \notin overlapped => order.status \notin TerminalStatuses
      BY <1>0, <2>1, <3>1 DEF FloorOK
    <3>8. wOrder'[p].status = seen[p].status /\ (order.dirty /\ ~closes => wOrder'[p].dirty)
      <4>1. wOrder'[p].status = seen[p].status /\ wOrder'[p].dirty = (OrderSeen(p).dirty /\ ~closes)
        BY <2>2
      <4>. QED  BY <2>5, <4>1
    <3>. HIDE DEF new
    <3>. QED  BY <1>0, <2>2, <2>3, <2>5, <3>2, <3>4, <3>5, <3>6, <3>7, <3>8 DEF FloorOK
  <2>. QED  BY <1>a, <2>1, <2>2, <2>6, <2>7 DEF FloorStatements
<1>7. CASE ResolveConflicts(p)
  <2>1. /\ pc[p] = "resolving" /\ pc'[p] = "risk"
        /\ wConflict' = [wConflict EXCEPT ![p].resolves = conflicts]
        /\ UNCHANGED <<planner, locals, wOrder, wEntry, rows, counters>>
    BY <1>7 DEF ResolveConflicts, TypeOK
  <2>2. wConflict'[p].reports = wConflict[p].reports
    BY <2>1 DEF TypeOK, ConflictWrites
  <2>3. WritesFit(p)' /\ StartsKept(p)'
    BY <2>1 DEF SessionOK, WritesFit, StartsKept, OrderWritten, Written
  <2>4. FloorOK(p)'
    BY <1>0, <2>1, <2>2 DEF SessionOK, FloorOK, OrderWritten, Written, SameRow
  <2>. QED  BY <1>a, <2>1, <2>3, <2>4 DEF FloorStatements
<1>8. ASSUME NEW changed \in BOOLEAN, ReassessRisk(p, changed)  PROVE SessionOK(p)'
  <2>1. /\ pc[p] = "risk" /\ pc'[p] = "commit"
        /\ wOrder'[p] \in {wOrder[p], OrderSeen(p)}
        /\ UNCHANGED <<planner, locals, wEntry, wConflict, rows, counters>>
    BY <1>8 DEF ReassessRisk, WriteOrder, TypeOK
  <2>2. \/ wOrder'[p] = wOrder[p]
        \/ ~OrderWritten(p) /\ wOrder'[p] = order
    BY <2>1 DEF OrderSeen, OrderWritten
  <2>3. WritesFit(p)' /\ StartsKept(p)'
    BY <2>1 DEF SessionOK, WritesFit, StartsKept, Written
  <2>4. FloorOK(p)'
    <3>1. FloorOK(p)
      BY DEF SessionOK
    <3>2. \A s \in Seqs : (Written(p, s)' <=> Written(p, s)) /\ (SameRow(p, s)' <=> SameRow(p, s))
      BY <2>1 DEF Written, SameRow
    <3>3. OrderWritten(p)' =>
            /\ wOrder'[p].status \in {order.status, "IN_PROGRESS", "COMPLETED"}
            /\ order.dirty => wOrder'[p].dirty \/ wOrder'[p].status = "COMPLETED"
            /\ p \notin overlapped /\ order.status = "ON_HOLD" => wOrder'[p].status = "ON_HOLD"
      BY <1>0, <2>1, <2>2, <3>1 DEF FloorOK, OrderWritten
    <3>4. wConflict[p].resolves # {} => OrderWritten(p)' /\ wOrder'[p].status = "COMPLETED"
      BY <1>0, <2>2, <3>1 DEF FloorOK, OrderWritten
    <3>. QED  BY <1>0, <2>1, <3>1, <3>2, <3>3, <3>4 DEF FloorOK
  <2>. QED  BY <1>a, <2>1, <2>3, <2>4 DEF FloorStatements
<1>. QED  BY <1>1, <1>2, <1>3, <1>4, <1>5, <1>6, <1>7, <1>8 DEF FloorStep

\* A step within a status change.
LEMMA StatusStepOK ==
    ASSUME TypeOK, TypeOK', NEW p \in Sessions, SessionOK(p), RowsFit, StatusStep(p)
    PROVE  SessionOK(p)'
<1>. USE DEF rows, counters, locals, writes, Goto
<1>0. call[p].kind = "status" /\ call[p].to \in OrderStatuses /\ planner # p
  <2>1. call[p].kind = "status" /\ call[p] \in CallsUnderWay \cup {NoCall}
    BY KindOfStep DEF TypeOK
  <2>. QED  BY <2>1 DEF CallsUnderWay, NoCall, SessionOK, CallFits
<1>a. ASSUME call'[p] = call[p], planner' = planner, pc'[p] \in StatusStatements,
             WritesFit(p)', StartsKept(p)', StatusOK(p)'
      PROVE  SessionOK(p)'
  BY <1>0, <1>a DEF SessionOK, CallFits, FloorOK, RunOK
<1>b. StatusOK(p) /\ WritesFit(p) /\ StartsKept(p)
  BY DEF SessionOK
<1>1. CASE ReadOrder(p)
  <2>. SUFFICES ASSUME ~End(p)  PROVE SessionOK(p)'
    BY EndOK
  <2>1. pc[p] = "from" /\ pc' = [pc EXCEPT ![p] = "order"]
        /\ UNCHANGED <<planner, call, todo, writes, rows, counters>>
    BY <1>1 DEF ReadOrder
  <2>2. pc'[p] = "order"
    BY <2>1 DEF TypeOK
  <2>3. WritesFit(p)' /\ StartsKept(p)'
    BY <1>b, <2>1, <2>2 DEF WritesFit, StartsKept, OrderWritten, Written
  <2>4. StatusOK(p)'
    BY <1>0, <1>b, <2>1, <2>2 DEF StatusOK, WritesFit, Written, SameRow
  <2>. QED  BY <1>a, <2>1, <2>2, <2>3, <2>4 DEF StatusStatements
<1>2. CASE UpdateOrder(p)
  <2>. DEFINE new == [order EXCEPT !.status = call[p].to]
  <2>1. /\ pc[p] = "order" /\ wOrder' = [wOrder EXCEPT ![p] = new]
        /\ pc' = [pc EXCEPT ![p] = IF "ON_HOLD" \in {seen[p].status, call[p].to} THEN "steps" ELSE "commit"]
        /\ UNCHANGED <<planner, locals, wEntry, wConflict, rows, counters>>
    BY <1>2 DEF UpdateOrder, WriteOrder
  <2>2. /\ pc'[p] = IF "ON_HOLD" \in {seen[p].status, call[p].to} THEN "steps" ELSE "commit"
        /\ wOrder'[p] = new
    BY <2>1 DEF TypeOK
  <2>3. OrderWritten(p)' /\ wOrder'[p].status = call[p].to
    <3>1. new \in OrderRow /\ new.status = call[p].to
      BY <1>0 DEF TypeOK, OrderRow
    <3>. QED  BY <2>2, <3>1, RowKinds DEF OrderWritten
  <2>4. WritesFit(p)' /\ StartsKept(p)'
    BY <1>b, <2>1, <2>2 DEF WritesFit, StartsKept, Written
  <2>5. StatusOK(p)'
    BY <1>0, <1>b, <2>1, <2>2, <2>3 DEF StatusOK, WritesFit, Written, SameRow
  <2>. QED  BY <1>a, <2>1, <2>2, <2>4, <2>5 DEF StatusStatements
<1>3. CASE ReadSteps(p)
  <2>1. /\ pc[p] = "steps" /\ seen' = [seen EXCEPT ![p].rows = entry]
        /\ todo' = [todo EXCEPT ![p] = {s \in Seqs : Resettled(p, entry[s]) # entry[s]}]
        /\ pc' = [pc EXCEPT ![p] = IF todo'[p] = {} THEN "commit" ELSE "step"]
        /\ UNCHANGED <<planner, call, writes, rows, counters>>
    BY <1>3 DEF ReadSteps
  <2>2. /\ seen'[p].rows = entry
        /\ todo'[p] = {s \in Seqs : Resettled(p, entry[s]) # entry[s]}
        /\ pc'[p] = IF todo'[p] = {} THEN "commit" ELSE "step"
    BY <2>1 DEF TypeOK, Readings
  <2>3. \A s \in Seqs : ~Written(p, s)
    BY <1>b, <2>1 DEF WritesFit
  <2>4. WritesFit(p)' /\ StartsKept(p)'
    BY <1>b, <2>1, <2>2, <2>3 DEF WritesFit, StartsKept, Written, OrderWritten
  <2>5. \A s \in todo'[p] :
          /\ Exists(entry[s]) /\ entry[s] # Unwritten /\ StampsFit(entry[s])
          /\ Resettled(p, entry[s]) # entry[s]
    <3>1. \A e : Resettled(p, e) # e => Exists(e)
      BY DEF Resettled, Held, Released, Exists
    <3>. QED  BY <2>2, <3>1, RowKinds DEF TypeOK, RowsFit
  <2>6. call[p].to = "ON_HOLD" =>
          \A s \in Seqs : EntriesSeen(p)'[s].status \in {"QUEUED", "IN_PROGRESS"} => s \in todo'[p]
    <3>. SUFFICES ASSUME call[p].to = "ON_HOLD", NEW s \in Seqs, EntriesSeen(p)'[s].status \in {"QUEUED", "IN_PROGRESS"}
                  PROVE  s \in todo'[p]
      OBVIOUS
    <3>1. EntriesSeen(p)'[s] = entry[s]
      BY <2>1, <2>3 DEF EntriesSeen, Written
    <3>2. Held(entry[s]).status = "ON_HOLD"
      <4>1. entry[s] \in Row
        BY <3>1, RowKinds DEF TypeOK, Exists
      <4>. QED  BY <3>1, <4>1 DEF Held, Row
    <3>. QED  BY <2>2, <3>1, <3>2 DEF Resettled
  <2>7. \A e : Resettled(p, e)' = Resettled(p, e)
    BY <2>1 DEF Resettled
  <2>8. call'[p] = call[p] /\ wOrder'[p] = wOrder[p] /\ wConflict'[p] = wConflict[p] /\ overlapped' = overlapped
        /\ entry' = entry /\ (\A s \in Seqs : ~Written(p, s)')
    BY <2>1, <2>3 DEF Written
  <2>9. OrderWritten(p)' /\ wOrder'[p].status = call[p].to /\ wConflict'[p] = NoConflict
    BY <1>0, <1>b, <2>1 DEF StatusOK, OrderWritten
  <2>10. StatusOK(p)'
    BY <1>0, <2>2, <2>5, <2>6, <2>7, <2>8, <2>9 DEF StatusOK
  <2>. QED  BY <1>a, <2>1, <2>2, <2>4, <2>10 DEF StatusStatements
<1>4. ASSUME NEW s \in Seqs, UpdateStep(p, s)  PROVE SessionOK(p)'
  <2>. SUFFICES ASSUME ~End(p)  PROVE SessionOK(p)'
    BY EndOK
  <2>. DEFINE w == Resettled(p, seen[p].rows[s])
              new == [entry[s] EXCEPT !.status = w.status, !.hold = w.hold]
  <2>1. /\ pc[p] = "step" /\ s \in todo[p] /\ StillThere(p, s)
        /\ wEntry' = [wEntry EXCEPT ![p][s] = new]
        /\ todo' = [todo EXCEPT ![p] = todo[p] \ {s}]
        /\ pc' = [pc EXCEPT ![p] = IF todo'[p] = {} THEN "commit" ELSE "step"]
        /\ UNCHANGED <<planner, call, seen, wOrder, wConflict, rows, counters>>
    BY <1>4 DEF UpdateStep, WriteEntry, IsNext
  <2>2. entry[s] \in Row /\ StampsFit(entry[s])
    BY <2>1, RowKinds DEF StillThere, TypeOK, RowsFit
  <2>3. seen[p].rows[s] \in Row /\ (seen[p].rows[s].started => entry[s].started) /\ StampsFit(seen[p].rows[s])
        /\ w # seen[p].rows[s]
    <3>1. seen[p].rows[s] \in Row \cup {NoEntry, Unwritten}
      BY DEF TypeOK, Readings, Overlays
    <3>2. Exists(seen[p].rows[s]) /\ seen[p].rows[s] # Unwritten /\ StampsFit(seen[p].rows[s])
          /\ (seen[p].rows[s].started => entry[s].started) /\ w # seen[p].rows[s]
      BY <1>0, <1>b, <2>1 DEF StatusOK
    <3>. QED  BY <3>1, <3>2, RowKinds
  <2>4. /\ new \in Row /\ new.run = entry[s].run
        /\ (new.started <=> entry[s].started) /\ (new.locked <=> entry[s].locked)
        /\ StampsFit(new)
        /\ call[p].to = "ON_HOLD" => new.status = "ON_HOLD"
    <3>. DEFINE read == seen[p].rows[s]
                e == entry[s]
    <3>1. /\ e \in Row /\ StampsFit(e)
          /\ read \in Row /\ (read.started => e.started) /\ StampsFit(read) /\ Resettled(p, read) # read
      BY <2>2, <2>3
    <3>. HIDE DEF read, e
    <3>2. LET m == [e EXCEPT !.status = Resettled(p, read).status, !.hold = Resettled(p, read).hold]
          IN  /\ m \in Row /\ m.run = e.run
              /\ m.started <=> e.started
              /\ m.locked <=> e.locked
              /\ StampsFit(m)
              /\ call[p].to = "ON_HOLD" /\ Resettled(p, read) # read => m.status = "ON_HOLD"
      BY <3>1, ResettledFits, Zenon
    <3>. QED  BY <3>1, <3>2 DEF read, e
  <2>5. wEntry'[p][s] = new /\ \A r \in Seqs \ {s} : wEntry'[p][r] = wEntry[p][r]
    <3>1. wEntry'[p] = [wEntry[p] EXCEPT ![s] = new]
      BY <2>1 DEF TypeOK
    <3>. HIDE DEF new
    <3>. QED  BY <3>1 DEF TypeOK, Overlays
  <2>6. todo'[p] = todo[p] \ {s} /\ pc'[p] = IF todo'[p] = {} THEN "commit" ELSE "step"
    BY <2>1 DEF TypeOK
  <2>7. Exists(new) /\ Exists(entry[s]) /\ new # Unwritten
    BY <2>2, <2>4, RowKinds
  <2>. HIDE DEF new
  <2>8. WritesFit(p)'
    BY <1>b, <2>1, <2>6 DEF WritesFit, OrderWritten
  <2>9. StartsKept(p)'
    BY <1>b, <2>1, <2>4, <2>5 DEF StartsKept, Written
  <2>10. \A r \in Seqs : Written(p, r)' => SameRow(p, r)'
    <3>. SUFFICES ASSUME NEW r \in Seqs, Written(p, r)'  PROVE SameRow(p, r)'
      OBVIOUS
    <3>1. CASE r = s
      BY <2>1, <2>4, <2>5, <2>7, <3>1 DEF SameRow
    <3>2. CASE r # s
      BY <1>0, <1>b, <2>1, <2>5, <3>2 DEF StatusOK, SameRow, Written
    <3>. QED  BY <3>1, <3>2
  <2>11. p \notin overlapped /\ call[p].to = "ON_HOLD" =>
           \A r \in Seqs : EntriesSeen(p)'[r].status \in {"QUEUED", "IN_PROGRESS"} => r \in todo'[p]
    <3>. SUFFICES ASSUME p \notin overlapped, call[p].to = "ON_HOLD", NEW r \in Seqs,
                         EntriesSeen(p)'[r].status \in {"QUEUED", "IN_PROGRESS"}
                  PROVE  r \in todo'[p]
      OBVIOUS
    <3>1. r # s
      <4>. SUFFICES ASSUME r = s  PROVE FALSE
        OBVIOUS
      <4>1. EntriesSeen(p)'[s] = new
        BY <2>5, <2>7 DEF EntriesSeen
      <4>. QED  BY <2>4, <4>1
    <3>2. EntriesSeen(p)'[r] = EntriesSeen(p)[r]
      BY <2>1, <2>5, <3>1 DEF EntriesSeen
    <3>. QED  BY <1>0, <1>b, <2>1, <2>6, <3>1, <3>2 DEF StatusOK
  <2>12. \A e : Resettled(p, e)' = Resettled(p, e)
    BY <2>1 DEF Resettled
  <2>13. /\ call'[p] = call[p] /\ seen'[p] = seen[p] /\ wOrder'[p] = wOrder[p] /\ wConflict'[p] = wConflict[p]
         /\ overlapped' = overlapped /\ entry' = entry
    BY <2>1
  <2>14. StatusOK(p)'
    BY <1>0, <1>b, <2>1, <2>6, <2>10, <2>11, <2>12, <2>13 DEF StatusOK, OrderWritten
  <2>. QED  BY <1>a, <2>1, <2>6, <2>8, <2>9, <2>14 DEF StatusStatements
<1>. QED  BY <1>1, <1>2, <1>3, <1>4 DEF StatusStep

\* A step within a run.
LEMMA RunStepOK ==
    ASSUME TypeOK, TypeOK', NEW p \in Sessions, SessionOK(p), RowsFit, RunStep(p)
    PROVE  SessionOK(p)'
<1>. USE DEF rows, counters, locals, writes, Goto
<1>0. call[p].kind = "run" /\ call[p].run \in 1 .. MaxRuns
  <2>1. call[p].kind = "run" /\ call[p] \in CallsUnderWay \cup {NoCall}
    BY KindOfStep DEF TypeOK
  <2>. QED  BY <2>1 DEF CallsUnderWay, NoCall
<1>a. ASSUME call'[p] = call[p], planner' = p, pc'[p] \in RunStatements, WritesFit(p)', StartsKept(p)', RunOK(p)'
      PROVE  SessionOK(p)'
  BY <1>0, <1>a DEF SessionOK, CallFits, FloorOK, StatusOK
<1>b. RunOK(p) /\ WritesFit(p) /\ StartsKept(p)
  BY DEF SessionOK
<1>c. pc[p] # "tenant" => planner = p
  BY <1>0 DEF SessionOK, CallFits, NoCall
<1>1. CASE LockTenant(p)
  <2>1. pc[p] = "tenant" /\ pc'[p] = "orders" /\ planner' = p /\ UNCHANGED <<rows, counters, locals, writes>>
    BY <1>1 DEF LockTenant, TypeOK
  <2>2. WritesFit(p)' /\ StartsKept(p)'
    BY <1>b, <2>1 DEF WritesFit, StartsKept, OrderWritten, Written
  <2>3. RunOK(p)'
    BY <1>b, <2>1 DEF RunOK, WritesFit, OrderWritten, Written
  <2>. QED  BY <1>a, <2>1, <2>2, <2>3 DEF RunStatements
<1>2. CASE LoadOrders(p)
  <2>1. /\ pc[p] = "orders"
        /\ seen' = [seen EXCEPT ![p].status = order.status, ![p].dirty = order.dirty]
        /\ basis' = [basis EXCEPT ![call[p].run] = plant]
        /\ pc' = [pc EXCEPT ![p] = "entries"]
        /\ UNCHANGED <<rows, planner, plant, calls, runs, lost, overlapped, raced, call, todo, writes>>
    BY <1>2 DEF LoadOrders
  <2>2. pc'[p] = "entries" /\ seen'[p].status = order.status /\ basis'[call[p].run] = plant
    BY <1>0, <2>1 DEF TypeOK, Readings
  <2>3. \A r \in 0 .. MaxRuns : basis'[r] <= plant
    BY <1>0, <2>1 DEF RowsFit, TypeOK
  <2>4. \A s \in Seqs : Exists(entry[s]) => basis'[entry[s].run] <= basis'[call[p].run]
    <3>. SUFFICES ASSUME NEW s \in Seqs, Exists(entry[s])  PROVE basis'[entry[s].run] <= plant
      BY <2>2
    <3>1. entry[s].run \in 0 .. MaxRuns
      BY RowKinds DEF TypeOK, Row
    <3>. QED  BY <2>3, <3>1
  <2>5. WritesFit(p)' /\ StartsKept(p)'
    BY <1>b, <2>1, <2>2 DEF WritesFit, StartsKept, OrderWritten, Written
  <2>6. RunOK(p)'
    BY <1>b, <2>1, <2>2, <2>4 DEF RunOK, WritesFit, OrderWritten, Written
  <2>. QED  BY <1>a, <1>c, <2>1, <2>2, <2>5, <2>6 DEF RunStatements
<1>3. CASE LoadEntries(p)
  <2>1. /\ pc[p] = "entries" /\ seen' = [seen EXCEPT ![p].rows = entry] /\ pc' = [pc EXCEPT ![p] = "delete"]
        /\ UNCHANGED <<rows, planner, counters, call, todo, writes>>
    BY <1>3 DEF LoadEntries
  <2>2. pc'[p] = "delete" /\ seen'[p].rows = entry /\ seen'[p].status = seen[p].status
    BY <2>1 DEF TypeOK, Readings
  <2>3. \A s \in Seqs : entry[s] # Unwritten
    BY RowKinds DEF TypeOK
  <2>4. \A s \in Fixed(p)' : Exists(entry[s]) /\ (entry[s].started \/ entry[s].locked)
    BY <2>2 DEF Fixed, IsFixedEntry, RowsFit, StampsFit
  <2>5. WritesFit(p)' /\ StartsKept(p)'
    BY <1>b, <2>1, <2>2 DEF WritesFit, StartsKept, OrderWritten, Written
  <2>6. RunOK(p)'
    BY <1>0, <1>b, <2>1, <2>2, <2>3, <2>4 DEF RunOK, WritesFit, OrderWritten, Written, RunStatements
  <2>. QED  BY <1>a, <1>c, <2>1, <2>2, <2>5, <2>6 DEF RunStatements
<1>4. CASE FindReplaced(p)
  <2>1. /\ pc[p] = "delete" /\ pc' = [pc EXCEPT ![p] = "deleting"]
        /\ todo' = [todo EXCEPT ![p] = {s \in Seqs : IsConsidered(seen[p].status) /\ IsReplaced(entry[s])}]
        /\ UNCHANGED <<rows, planner, counters, call, seen, writes>>
    BY <1>4 DEF FindReplaced
  <2>2. pc'[p] = "deleting" /\ (~IsConsidered(seen[p].status) => todo'[p] = {})
    BY <2>1 DEF TypeOK
  <2>3. WritesFit(p)' /\ StartsKept(p)'
    BY <1>b, <2>1, <2>2 DEF WritesFit, StartsKept, OrderWritten, Written
  <2>4. RunOK(p)'
    BY <1>0, <1>b, <2>1, <2>2 DEF RunOK, WritesFit, OrderWritten, Written, RunStatements, Fixed
  <2>. QED  BY <1>a, <1>c, <2>1, <2>2, <2>3, <2>4 DEF RunStatements
<1>5. ASSUME NEW s \in Seqs, DeleteRow(p, s)  PROVE SessionOK(p)'
  <2>1. /\ pc[p] = "deleting" /\ s \in todo[p]
        /\ \/ IsReplaced(entry[s]) /\ wEntry' = [wEntry EXCEPT ![p][s] = NoEntry]
           \/ wEntry' = wEntry
        /\ todo' = [todo EXCEPT ![p] = todo[p] \ {s}]
        /\ UNCHANGED <<rows, planner, counters, pc, call, seen, wOrder, wConflict>>
    BY <1>5 DEF DeleteRow, WriteEntry, StillMatches
  <2>2. IsConsidered(seen[p].status)
    BY <1>0, <1>b, <2>1 DEF RunOK, RunStatements
  <2>3. \A r \in Seqs : \/ wEntry'[p][r] = wEntry[p][r]
                        \/ wEntry'[p][r] = NoEntry /\ ~entry[r].started /\ ~entry[r].locked
    BY <2>1 DEF TypeOK, Overlays, IsReplaced
  <2>4. WritesFit(p)'
    BY <1>b, <2>1 DEF WritesFit, OrderWritten
  <2>5. StartsKept(p)'
    BY <1>b, <2>1, <2>3, RowKinds DEF StartsKept, Written
  <2>6. Fixed(p)' = Fixed(p) /\ pc'[p] = "deleting"
    BY <2>1 DEF Fixed
  <2>7. \A r \in Seqs : Written(p, r)' =>
          ~entry[r].started /\ ~entry[r].locked /\ wEntry'[p][r] = NoEntry
    BY <1>0, <1>b, <2>1, <2>3 DEF RunOK, Written
  <2>8. RunOK(p)'
    BY <1>0, <1>b, <2>1, <2>2, <2>6, <2>7 DEF RunOK, OrderWritten, RunStatements
  <2>. QED  BY <1>a, <1>c, <2>1, <2>4, <2>5, <2>6, <2>8 DEF RunStatements
<1>6. ASSUME NEW cascaded \in SUBSET conflicts, RowsDeleted(p, cascaded)  PROVE SessionOK(p)'
  <2>1. /\ pc[p] = "deleting" /\ todo[p] = {} /\ pc'[p] = "inserting"
        /\ cascaded # {} => \E s \in Seqs : wEntry[p][s] = NoEntry
        /\ wConflict' = [wConflict EXCEPT ![p].resolves = cascaded]
        /\ UNCHANGED <<rows, planner, counters, locals, wOrder, wEntry>>
    BY <1>6 DEF RowsDeleted, DeletesRows, TypeOK
  <2>2. WritesFit(p)' /\ StartsKept(p)'
    BY <1>b, <2>1 DEF WritesFit, StartsKept, OrderWritten, Written
  <2>3. ~IsConsidered(seen[p].status) => wConflict'[p] = NoConflict
    <3>. SUFFICES ASSUME ~IsConsidered(seen[p].status)  PROVE wConflict'[p] = NoConflict
      OBVIOUS
    <3>1. wConflict[p] = NoConflict /\ \A s \in Seqs : ~Written(p, s)
      BY <1>0, <1>b, <2>1 DEF RunOK, RunStatements
    <3>2. cascaded = {}
      BY <2>1, <3>1, RowKinds DEF Written
    <3>3. wConflict'[p] = [wConflict[p] EXCEPT !.resolves = {}]
      BY <2>1, <3>2 DEF TypeOK
    <3>. QED  BY <3>1, <3>3 DEF NoConflict
  <2>4. RunOK(p)'
    BY <1>0, <1>b, <2>1, <2>3 DEF RunOK, WritesFit, OrderWritten, Written, RunStatements, Fixed
  <2>. QED  BY <1>a, <1>c, <2>1, <2>2, <2>4 DEF RunStatements
<1>7. ASSUME NEW placed \in BOOLEAN, InsertRows(p, placed)  PROVE SessionOK(p)'
  <2>. DEFINE plan == IF placed THEN Remaining(p) ELSE {}
              fresh == FreshRow(call[p].run)
              considered == IsConsidered(seen[p].status)
  <2>. SUFFICES ASSUME ~End(p)  PROVE SessionOK(p)'
    BY EndOK
  <2>1. /\ pc[p] = "inserting" /\ pc'[p] = "reporting"
        /\ \A s \in plan : ~Exists(EntriesSeen(p)[s])
        /\ \A s \in Seqs : wEntry'[p][s] = IF s \in plan THEN fresh ELSE wEntry[p][s]
        /\ UNCHANGED <<planner, locals, wOrder, wConflict, rows, counters>>
    BY <1>7 DEF InsertRows, TypeOK
  <2>2. fresh # Unwritten /\ StampsFit(fresh)
    BY <1>0, FreshRowFits, RowKinds
  <2>3. todo[p] = {} /\ ~OrderWritten(p)
    BY <1>b, <2>1 DEF WritesFit
  <2>4. \A s \in Seqs : Written(p, s) => ~entry[s].started /\ ~entry[s].locked /\ wEntry[p][s] = NoEntry
    BY <1>0, <1>b, <2>1 DEF RunOK
  <2>5. \A s \in plan : s \in Seqs /\ ~entry[s].started /\ ~entry[s].locked
    <3>. SUFFICES ASSUME NEW s \in plan  PROVE s \in Seqs /\ ~entry[s].started /\ ~entry[s].locked
      OBVIOUS
    <3>1. s \in Seqs
      BY DEF Remaining
    <3>2. CASE Written(p, s)
      BY <2>4, <3>1, <3>2
    <3>3. CASE ~Written(p, s)
      <4>1. entry[s] = NoEntry
        BY <2>1, <3>1, <3>3, RowKinds DEF EntriesSeen, Written, TypeOK
      <4>. QED  BY <3>1, <4>1, RowKinds
    <3>. QED  BY <3>2, <3>3
  <2>6. ~considered => plan = {}
    BY DEF Remaining
  <2>7. \A s \in Seqs : Written(p, s)' =>
          /\ ~entry[s].started /\ ~entry[s].locked
          /\ wEntry'[p][s] = NoEntry \/ (s \in plan /\ wEntry'[p][s] = fresh)
    <3>. SUFFICES ASSUME NEW s \in Seqs, Written(p, s)'
                  PROVE  /\ ~entry[s].started /\ ~entry[s].locked
                         /\ wEntry'[p][s] = NoEntry \/ (s \in plan /\ wEntry'[p][s] = fresh)
      OBVIOUS
    <3>1. CASE s \in plan
      BY <2>1, <2>5, <3>1
    <3>2. CASE s \notin plan
      <4>1. wEntry'[p][s] = wEntry[p][s]
        BY <2>1, <3>2
      <4>2. Written(p, s)
        BY <4>1 DEF Written
      <4>3. ~entry[s].started /\ ~entry[s].locked /\ wEntry'[p][s] = NoEntry
        BY <2>4, <4>1, <4>2
      <4>. QED  BY <4>3
    <3>. QED  BY <3>1, <3>2
  <2>8. WritesFit(p)'
    BY <1>b, <2>1, <2>3 DEF WritesFit, OrderWritten
  <2>9. StartsKept(p)'
    BY <2>1, <2>2, <2>7, RowKinds DEF StartsKept, Written
  <2>10. ~considered => wConflict'[p] = NoConflict /\ \A s \in Seqs : ~Written(p, s)'
    <3>. SUFFICES ASSUME ~considered  PROVE wConflict'[p] = NoConflict /\ \A s \in Seqs : ~Written(p, s)'
      OBVIOUS
    <3>1. wConflict[p] = NoConflict /\ \A s \in Seqs : ~Written(p, s)
      BY <1>0, <1>b, <2>1 DEF RunOK, RunStatements
    <3>. QED  BY <2>1, <2>6, <3>1 DEF Written
  <2>11. /\ call'[p] = call[p] /\ seen'[p] = seen[p] /\ todo'[p] = {} /\ ~OrderWritten(p)'
         /\ overlapped' = overlapped /\ entry' = entry /\ order' = order /\ basis' = basis
         /\ Fixed(p)' = Fixed(p)
    BY <2>1, <2>3 DEF OrderWritten, Fixed
  <2>12. /\ \A s \in Seqs : Exists(entry[s]) => basis[entry[s].run] <= basis[call[p].run]
         /\ p \notin overlapped => seen[p].status = order.status
         /\ \A s \in Seqs : seen[p].rows[s] # Unwritten
         /\ \A s \in Fixed(p) : Exists(entry[s]) /\ (entry[s].started \/ entry[s].locked)
    BY <1>0, <1>b, <2>1 DEF RunOK, RunStatements
  <2>13. \A s \in Seqs : Written(p, s)' =>
           /\ ~entry[s].started /\ ~entry[s].locked
           /\ wEntry'[p][s] = NoEntry \/ wEntry'[p][s] = FreshRow(call[p].run)
    BY <2>7
  <2>. HIDE DEF plan, fresh
  <2>14. RunOK(p)'
    BY <1>0, <2>1, <2>10, <2>11, <2>12, <2>13 DEF RunOK
  <2>. QED  BY <1>a, <1>c, <2>1, <2>8, <2>9, <2>14 DEF RunStatements
<1>10. ASSUME NEW reported \in BOOLEAN, ReplaceConflicts(p, reported)  PROVE SessionOK(p)'
  <2>. DEFINE considered == IsConsidered(seen[p].status)
              new == [resolves |-> IF considered THEN conflicts ELSE {},
                      reports  |-> IF considered /\ reported THEN {call[p].run} ELSE {}]
  <2>1. /\ pc[p] = "reporting" /\ pc'[p] = IF considered THEN "considered" ELSE "held"
        /\ Placed(p) \/ reported
        /\ wConflict'[p] = new
        /\ UNCHANGED <<rows, planner, counters, locals, wOrder, wEntry>>
    BY <1>10 DEF ReplaceConflicts, TypeOK
  <2>2. todo[p] = {} /\ ~OrderWritten(p)
    BY <1>b, <2>1 DEF WritesFit
  <2>3. \A s \in Seqs : Written(p, s) =>
          /\ ~entry[s].started /\ ~entry[s].locked
          /\ wEntry[p][s] = NoEntry \/ wEntry[p][s] = FreshRow(call[p].run)
    BY <1>0, <1>b, <2>1 DEF RunOK
  <2>4. considered => new.reports # {} \/ \A s \in Seqs : Exists(EntriesSeen(p)[s])
    <3>. SUFFICES ASSUME considered, ~reported, NEW s \in Seqs  PROVE Exists(EntriesSeen(p)[s])
      OBVIOUS
    <3>1. CASE s \in Remaining(p)
      <4>1. wEntry[p][s] = FreshRow(call[p].run)
        BY <2>1, <3>1 DEF Placed
      <4>. QED  BY <1>0, <4>1, FreshRowFits, RowKinds DEF EntriesSeen
    <3>2. CASE s \notin Remaining(p)
      <4>1. s \in Fixed(p)
        BY <3>2 DEF Remaining
      <4>2. Exists(entry[s]) /\ (entry[s].started \/ entry[s].locked)
        BY <1>0, <1>b, <2>1, <4>1 DEF RunOK
      <4>. QED  BY <2>3, <4>2 DEF EntriesSeen, Written
    <3>. QED  BY <3>1, <3>2
  <2>5. WritesFit(p)' /\ StartsKept(p)'
    BY <1>b, <2>1, <2>2 DEF WritesFit, StartsKept, OrderWritten, Written
  <2>6. ~considered => wConflict'[p] = NoConflict /\ \A s \in Seqs : ~Written(p, s)
    <3>. SUFFICES ASSUME ~considered  PROVE wConflict'[p] = NoConflict /\ \A s \in Seqs : ~Written(p, s)
      OBVIOUS
    <3>1. \A s \in Seqs : ~Written(p, s)
      BY <1>0, <1>b, <2>1 DEF RunOK, RunStatements
    <3>. QED  BY <2>1, <3>1 DEF NoConflict
  <2>7. /\ call'[p] = call[p] /\ seen'[p] = seen[p] /\ todo'[p] = {} /\ ~OrderWritten(p)'
        /\ overlapped' = overlapped /\ entry' = entry /\ order' = order /\ basis' = basis
        /\ EntriesSeen(p)' = EntriesSeen(p)
        /\ wEntry' = wEntry /\ \A s \in Seqs : Written(p, s)' <=> Written(p, s)
    BY <2>1, <2>2 DEF OrderWritten, Written, EntriesSeen
  <2>8. /\ \A s \in Seqs : Exists(entry[s]) => basis[entry[s].run] <= basis[call[p].run]
        /\ p \notin overlapped => seen[p].status = order.status
    BY <1>0, <1>b, <2>1 DEF RunOK, RunStatements
  <2>9. pc'[p] \in {"considered", "held"} /\ (~considered => pc'[p] = "held")
    BY <2>1
  <2>10. considered => wConflict'[p].reports # {} \/ \A s \in Seqs : Exists(EntriesSeen(p)[s])
    BY <2>1, <2>4
  <2>. HIDE DEF new
  <2>11. RunOK(p)'
    BY <1>0, <2>3, <2>6, <2>7, <2>8, <2>9, <2>10 DEF RunOK
  <2>. QED  BY <1>a, <1>c, <2>1, <2>5, <2>9, <2>11 DEF RunStatements
<1>8. ASSUME NEW changed \in BOOLEAN, ClearConsidered(p, changed)  PROVE SessionOK(p)'
  <2>1. /\ pc[p] = "considered" /\ pc' = [pc EXCEPT ![p] = "held"]
        /\ wOrder' = wOrder \/ wOrder' = [wOrder EXCEPT ![p] = [order EXCEPT !.dirty = FALSE]]
        /\ UNCHANGED <<rows, planner, counters, locals, wEntry, wConflict>>
    BY <1>8 DEF ClearConsidered, WriteOrder
  <2>2. pc'[p] = "held" /\ IsConsidered(seen[p].status)
    BY <1>0, <1>b, <2>1 DEF TypeOK, RunOK, RunStatements
  <2>3. OrderWritten(p)' => wOrder'[p].status = order.status
    BY <1>b, <2>1 DEF WritesFit, OrderWritten, TypeOK, OrderRow
  <2>4. WritesFit(p)' /\ StartsKept(p)'
    BY <1>b, <2>1, <2>2 DEF WritesFit, StartsKept, Written
  <2>5. EntriesSeen(p)' = EntriesSeen(p)
    BY <2>1 DEF EntriesSeen
  <2>6. RunOK(p)'
    BY <1>0, <1>b, <2>1, <2>2, <2>3, <2>5 DEF RunOK, Written, RunStatements
  <2>. QED  BY <1>a, <1>c, <2>1, <2>2, <2>4, <2>6 DEF RunStatements
<1>9. CASE ClearHeld(p)
  <2>1. /\ pc[p] = "held" /\ pc' = [pc EXCEPT ![p] = "commit"]
        /\ \/ wOrder' = wOrder
           \/ Clearable(OrderSeen(p)) /\ wOrder' = [wOrder EXCEPT ![p] = [OrderSeen(p) EXCEPT !.dirty = FALSE]]
        /\ UNCHANGED <<rows, planner, counters, locals, wEntry, wConflict>>
    BY <1>9 DEF ClearHeld, WriteOrder
  <2>2. pc'[p] = "commit"
    BY <2>1 DEF TypeOK
  <2>3. OrderSeen(p).status = order.status
    BY <1>0, <1>b DEF RunOK, OrderSeen, OrderWritten
  <2>4. OrderWritten(p)' => /\ wOrder'[p].status = order.status
                            /\ OrderWritten(p) \/ wOrder'[p].status = "ON_HOLD"
    <3>1. OrderSeen(p) \in OrderRow
      BY SeenTypes
    <3>. QED  BY <1>0, <1>b, <2>1, <2>3, <3>1 DEF RunOK, OrderWritten, TypeOK, OrderRow, Clearable
  <2>5. WritesFit(p)' /\ StartsKept(p)'
    BY <1>b, <2>1, <2>2 DEF WritesFit, StartsKept, Written
  <2>6. EntriesSeen(p)' = EntriesSeen(p)
    BY <2>1 DEF EntriesSeen
  <2>7. ~IsConsidered(seen[p].status) =>
          /\ todo[p] = {} /\ wConflict[p] = NoConflict
          /\ \A s \in Seqs : ~Written(p, s)
          /\ OrderWritten(p) => wOrder[p].status = "ON_HOLD"
    BY <1>0, <1>b, <2>1 DEF RunOK, RunStatements
  <2>8. ~IsConsidered(seen[p].status) /\ OrderWritten(p)' => wOrder'[p].status = "ON_HOLD"
    BY <1>0, <1>b, <2>3, <2>4, <2>7 DEF RunOK
  <2>9. RunOK(p)'
    BY <1>0, <1>b, <2>1, <2>2, <2>4, <2>6, <2>7, <2>8 DEF RunOK, Written, RunStatements
  <2>. QED  BY <1>a, <1>c, <2>1, <2>2, <2>5, <2>9 DEF RunStatements
<1>. QED  BY <1>1, <1>2, <1>3, <1>4, <1>5, <1>6, <1>7, <1>8, <1>9, <1>10 DEF RunStep

\* A commit, an edit, the marking that follows them, and the end without a commit.
LEMMA EndingOK ==
    ASSUME TypeOK, TypeOK', NEW p \in Sessions, SessionOK(p),
           EditPlant(p) \/ MarkScheduleDirty(p) \/ Commit(p) \/ Rollback(p)
    PROVE  SessionOK(p)'
<1>. USE DEF rows, counters, locals, writes, Goto
<1>1. CASE EditPlant(p)
  <2>1. call[p].kind = "edit" /\ planner # p
    BY <1>1, KindOfStep DEF SessionOK, CallFits
  <2>2. pc[p] = "edit" /\ pc'[p] = "marking" /\ UNCHANGED <<planner, call, seen, todo, writes, entry, order>>
    BY <1>1 DEF EditPlant, TypeOK
  <2>3. WritesFit(p)' /\ StartsKept(p)'
    BY <2>2 DEF SessionOK, WritesFit, StartsKept, OrderWritten, Written
  <2>. QED  BY <2>1, <2>2, <2>3 DEF SessionOK, CallFits, FloorOK, StatusOK, RunOK
<1>2. CASE Commit(p) /\ call[p].kind = "status"
  <2>1. /\ pc[p] = "commit" /\ pc'[p] = "marking" /\ wOrder'[p] = Unwritten /\ wEntry'[p] = NoRows
        /\ UNCHANGED <<planner, call, seen, todo, wConflict>>
    BY <1>2 DEF Commit, TypeOK
  <2>2. ~OrderWritten(p)' /\ (\A s \in Seqs : ~Written(p, s)') /\ todo'[p] = {} /\ wConflict'[p] = NoConflict
    BY <1>2, <2>1 DEF OrderWritten, Written, NoRows, SessionOK, WritesFit, StatusOK
  <2>3. CallFits(p)'
    BY <1>2, <2>1 DEF SessionOK, CallFits, StatusStatements
  <2>4. WritesFit(p)' /\ StartsKept(p)'
    BY <2>2 DEF WritesFit, StartsKept
  <2>5. FloorOK(p)' /\ StatusOK(p)' /\ RunOK(p)'
    BY <1>2, <2>1, <2>2 DEF FloorOK, StatusOK, RunOK
  <2>. QED  BY <2>3, <2>4, <2>5 DEF SessionOK
<1>3. CASE MarkScheduleDirty(p) \/ Rollback(p) \/ (Commit(p) /\ call[p].kind # "status")
  <2>1. End(p)
    BY <1>3 DEF MarkScheduleDirty, Rollback, Commit
  <2>. QED  BY <2>1, EndOK
<1>. QED  BY <1>1, <1>2, <1>3

-----------------------------------------------------------------------------
(***************************************************************************)
(* Who has written what.                                                   *)
(***************************************************************************)
\* A step of p writes no row that another open transaction has written.
LEMMA WritesGranted ==
    ASSUME TypeOK, NEW p \in Sessions, SessionOK(p), Step(p)
    PROVE  /\ OrderWritten(p)' => OrderWritten(p) \/ \A q \in Sessions \ {p} : ~OrderWritten(q)
           /\ \A s \in Seqs : Written(p, s)' => Written(p, s) \/ \A q \in Sessions \ {p} : ~Written(q, s)
<1>. DEFINE OrderGranted == OrderWritten(p)' => OrderWritten(p) \/ \A q \in Sessions \ {p} : ~OrderWritten(q)
            EntryGranted == \A s \in Seqs : Written(p, s)' => Written(p, s) \/ \A q \in Sessions \ {p} : ~Written(q, s)
<1>. USE DEF rows, counters, locals, writes
<1>1. ASSUME End(p)  PROVE OrderGranted /\ EntryGranted
  BY <1>1, EndOK
<1>2. CASE UNCHANGED wOrder
  <2>1. OrderGranted
    BY <1>2 DEF OrderWritten
  <2>2. CASE UNCHANGED wEntry
    BY <2>1, <2>2 DEF Written
  <2>3. CASE UpdateOperation(p) /\ ~End(p)
    <3>1. wEntry' = [wEntry EXCEPT ![p][call[p].seq] = wEntry'[p][call[p].seq]]
      BY <2>3 DEF UpdateOperation, WriteEntry, TypeOK, Overlays
    <3>2. \A s \in Seqs \ {call[p].seq} : wEntry'[p][s] = wEntry[p][s]
      BY <3>1 DEF TypeOK, Overlays
    <3>3. \A q \in Sessions \ {p} : call[p].seq \in Seqs => ~Written(q, call[p].seq)
      BY <2>3, Granted DEF UpdateOperation, NeedsEntries
    <3>. QED  BY <2>1, <3>2, <3>3 DEF Written
  <2>4. ASSUME NEW s \in Seqs, UpdateStep(p, s), ~End(p)  PROVE OrderGranted /\ EntryGranted
    <3>1. \A r \in Seqs \ {s} : wEntry'[p][r] = wEntry[p][r]
      BY <2>4 DEF UpdateStep, WriteEntry, TypeOK, Overlays
    <3>2. s \in NeedsEntries(p)
      BY <2>4 DEF UpdateStep, NeedsEntries
    <3>3. \A q \in Sessions \ {p} : ~Written(q, s)
      BY <2>4, <3>2, Granted DEF UpdateStep
    <3>. QED  BY <2>1, <3>1, <3>3 DEF Written
  <2>5. ASSUME NEW s \in Seqs, DeleteRow(p, s)  PROVE OrderGranted /\ EntryGranted
    <3>1. \A r \in Seqs \ {s} : wEntry'[p][r] = wEntry[p][r]
      BY <2>5 DEF DeleteRow, WriteEntry, TypeOK, Overlays
    <3>2. \A q \in Sessions \ {p} : ~Written(q, s)
      BY <2>5 DEF DeleteRow, EntryHeldByOther, Written
    <3>. QED  BY <2>1, <3>1, <3>2 DEF Written
  <2>6. ASSUME NEW placed \in BOOLEAN, InsertRows(p, placed), ~End(p)
        PROVE  OrderGranted /\ EntryGranted
    <3>1. \A s \in Seqs \ Remaining(p) : wEntry'[p][s] = wEntry[p][s]
      BY <2>6 DEF InsertRows, TypeOK
    <3>2. \A q \in Sessions \ {p} : \A s \in Remaining(p) : ~Written(q, s)
      BY <2>6, Granted DEF InsertRows, NeedsEntries
    <3>. QED  BY <2>1, <3>1, <3>2 DEF Written
  <2>7. CASE FloorStep(p)
    BY <1>1, <2>2, <2>3, <2>7 DEF FloorStep, ReadOperation, CheckGate, MarkLate, RollUp, UpdateRolledUp,
         ResolveConflicts, ReassessRisk
  <2>8. CASE StatusStep(p)
    BY <1>1, <2>2, <2>4, <2>8 DEF StatusStep, ReadOrder, UpdateOrder, ReadSteps
  <2>9. CASE RunStep(p)
    <3>1. CASE LockTenant(p) \/ LoadOrders(p) \/ LoadEntries(p) \/ FindReplaced(p) \/ ClearHeld(p)
      BY <2>2, <3>1 DEF LockTenant, LoadOrders, LoadEntries, FindReplaced, ClearHeld
    <3>2. ASSUME NEW changed \in BOOLEAN, ClearConsidered(p, changed)  PROVE OrderGranted /\ EntryGranted
      BY <2>2, <3>2 DEF ClearConsidered
    <3>3. ASSUME NEW cascaded \in SUBSET conflicts, RowsDeleted(p, cascaded)  PROVE OrderGranted /\ EntryGranted
      BY <2>2, <3>3 DEF RowsDeleted
    <3>4. ASSUME NEW reported \in BOOLEAN, ReplaceConflicts(p, reported)  PROVE OrderGranted /\ EntryGranted
      BY <2>2, <3>4 DEF ReplaceConflicts
    <3>. QED  BY <1>1, <2>5, <2>6, <2>9, <3>1, <3>2, <3>3, <3>4 DEF RunStep
  <2>10. CASE EditPlant(p) \/ MarkScheduleDirty(p)
    BY <1>1, <2>2, <2>10 DEF EditPlant, MarkScheduleDirty
  <2>11. CASE Commit(p)
    <3>1. CASE call[p].kind = "status"
      BY <2>1, <2>11, <3>1 DEF Commit, TypeOK, Written, NoRows
    <3>. QED  BY <1>1, <2>11, <3>1 DEF Commit
  <2>. QED  BY <2>7, <2>8, <2>9, <2>10, <2>11 DEF Step
<1>3. CASE ~UNCHANGED wOrder /\ ~End(p)
  <2>1. CASE Commit(p)
    <3>1. wOrder' = [wOrder EXCEPT ![p] = Unwritten] /\ wEntry' = [wEntry EXCEPT ![p] = NoRows]
      BY <1>3, <2>1 DEF Commit
    <3>2. ~OrderWritten(p)' /\ \A s \in Seqs : ~Written(p, s)'
      BY <3>1 DEF TypeOK, OrderWritten, Written, NoRows
    <3>. QED  BY <3>2
  <2>2. CASE ~Commit(p)
    <3>1. UNCHANGED wEntry /\ NeedsOrder(p) /\ ~Waits(p) /\ pc[p] # "deleting"
      BY <1>3, <2>2
         DEF Step, FloorStep, StatusStep, RunStep, ReadOperation, CheckGate, UpdateOperation, MarkLate, RollUp,
             UpdateRolledUp, ResolveConflicts, ReassessRisk, ReadOrder, UpdateOrder, ReadSteps, UpdateStep, LockTenant, LoadOrders, LoadEntries,
             FindReplaced, DeleteRow, RowsDeleted, InsertRows, ReplaceConflicts, ClearConsidered, ClearHeld, EditPlant,
             MarkScheduleDirty, NeedsOrder
    <3>2. \A q \in Sessions \ {p} : ~OrderWritten(q)
      BY <3>1, Granted
    <3>. QED  BY <3>1, <3>2 DEF Written
  <2>. QED  BY <2>1, <2>2
<1>. QED  BY <1>1, <1>2, <1>3

LEMMA OneWriterKept ==
    ASSUME TypeOK, NEW p \in Sessions, SessionOK(p), OneWriter,
           \A q \in Sessions \ {p} : Kept(q),
           (\E c \in Calls : Begin(p, c)) \/ Step(p) \/ Rollback(p)
    PROVE  OneWriter'
<1>1. /\ OrderWritten(p)' => OrderWritten(p) \/ \A q \in Sessions \ {p} : ~OrderWritten(q)
      /\ \A s \in Seqs : Written(p, s)' => Written(p, s) \/ \A q \in Sessions \ {p} : ~Written(q, s)
  BY WritesGranted, BeginOK, EndOK DEF Rollback
<1>2. \A q \in Sessions \ {p} : /\ OrderWritten(q)' <=> OrderWritten(q)
                               /\ \A s \in Seqs : Written(q, s)' <=> Written(q, s)
  BY DEF Kept, OrderWritten, Written
<1>. QED  BY <1>1, <1>2 DEF OneWriter

-----------------------------------------------------------------------------
(***************************************************************************)
(* What becomes of the committed rows.                                     *)
(***************************************************************************)
\* Steps within a transaction.
LEMMA InsideStep ==
    ASSUME NEW p \in Sessions, (\E c \in Calls : Begin(p, c)) \/ FloorStep(p) \/ StatusStep(p) \/ RunStep(p)
    PROVE  /\ pc[p] # "marking" /\ UNCHANGED <<order, entry, conflicts, plant, lost, raced>>
           /\ ~LoadOrders(p) => UNCHANGED basis
<1>. USE DEF rows, counters
<1>1. ASSUME NEW c \in Calls, Begin(p, c)
      PROVE  pc[p] # "marking" /\ UNCHANGED <<order, entry, conflicts, plant, lost, raced, basis>>
  BY <1>1 DEF Begin
<1>2. FloorStep(p) => pc[p] # "marking" /\ UNCHANGED <<order, entry, conflicts, plant, lost, raced, basis>>
  BY DEF FloorStep, ReadOperation, CheckGate, UpdateOperation, MarkLate, RollUp, UpdateRolledUp,
         ResolveConflicts, ReassessRisk
<1>3. StatusStep(p) => pc[p] # "marking" /\ UNCHANGED <<order, entry, conflicts, plant, lost, raced, basis>>
  BY DEF StatusStep, ReadOrder, UpdateOrder, ReadSteps, UpdateStep
<1>4. RunStep(p) => /\ pc[p] # "marking" /\ UNCHANGED <<order, entry, conflicts, plant, lost, raced>>
                    /\ ~LoadOrders(p) => UNCHANGED basis
  BY DEF RunStep, LockTenant, LoadOrders, LoadEntries, FindReplaced, DeleteRow, RowsDeleted,
         InsertRows, ReplaceConflicts, ClearConsidered, ClearHeld
<1>. QED  BY <1>1, <1>2, <1>3, <1>4

LEMMA RowsFitKept ==
    ASSUME TypeOK, NEW p \in Sessions, SessionOK(p), RowsFit,
           (\E c \in Calls : Begin(p, c)) \/ Step(p) \/ Rollback(p)
    PROVE  RowsFit'
<1>1. CASE LoadOrders(p)
  <2>1. call[p].run \in 0 .. MaxRuns
    <3>1. call[p].kind = "run"
      BY <1>1, KindOfStep DEF RunStep
    <3>. QED  BY <3>1 DEF TypeOK, CallsUnderWay, NoCall
  <2>. QED  BY <1>1, <2>1 DEF LoadOrders, RowsFit, TypeOK, rows
<1>2. CASE ~LoadOrders(p) /\ ((\E c \in Calls : Begin(p, c)) \/ FloorStep(p) \/ StatusStep(p) \/ RunStep(p))
  BY <1>2, InsideStep DEF RowsFit
<1>3. CASE EditPlant(p)
  BY <1>3 DEF EditPlant, RowsFit, TypeOK, rows
<1>4. CASE MarkScheduleDirty(p) \/ Rollback(p)
  BY <1>4 DEF MarkScheduleDirty, Rollback, RowsFit, rows, counters
<1>5. CASE Commit(p)
  BY <1>5 DEF Commit, EntriesSeen, SessionOK, StartsKept, Written, RowsFit
<1>. QED  BY <1>1, <1>2, <1>3, <1>4, <1>5 DEF Step

\* The commit of a floor transition takes no step off the board, and it neither resolves a
\* conflict nor takes an order off the banner unless it completes the order.
LEMMA FloorCommitKeepsGaps ==
    ASSUME TypeOK, NEW p \in Sessions, SessionOK(p), GapsAnnounced, Commit(p), call[p].kind = "floor",
           \A q \in Sessions \ {p} : Kept(q)
    PROVE  GapsAnnounced'
<1>. SUFFICES ASSUME IsConsidered(order'.status), ~order'.dirty, conflicts' = {},
                     \A q \in Sessions : pc'[q] # "marking", ~lost', ~raced', NEW s \in Seqs
              PROVE  Exists(entry'[s])
  BY DEF GapsAnnounced, IsConsidered
<1>1. FloorOK(p)
  BY DEF SessionOK
<1>2. order' = OrderSeen(p) /\ entry' = EntriesSeen(p) /\ pc[p] = "commit"
      /\ conflicts' = (conflicts \ wConflict[p].resolves) \cup wConflict[p].reports
      /\ ~lost /\ ~raced /\ (p \in overlapped => order'.status = order.status)
  BY DEF Commit
<1>3. conflicts = {}
  <2>1. OrderWritten(p) => order' = wOrder[p]
    BY <1>2 DEF OrderSeen, OrderWritten
  <2>2. wConflict[p].resolves = {}
    BY <1>1, <2>1 DEF FloorOK, IsConsidered
  <2>3. wConflict[p].reports = {}
    BY <1>1 DEF FloorOK
  <2>. QED  BY <1>2, <2>2, <2>3
<1>4. ~order.dirty
  <2>1. CASE OrderWritten(p)
    BY <1>1, <1>2, <2>1 DEF FloorOK, OrderSeen, OrderWritten, IsConsidered
  <2>2. CASE ~OrderWritten(p)
    BY <1>2, <2>2 DEF OrderSeen, OrderWritten
  <2>. QED  BY <2>1, <2>2
<1>5. IsConsidered(order.status)
  <2>1. CASE OrderWritten(p) /\ p \notin overlapped
    <3>1. /\ order.status \notin TerminalStatuses /\ order.status \in OrderStatuses
          /\ order.status = "ON_HOLD" => order'.status = "ON_HOLD"
      BY <1>1, <1>2, <2>1 DEF FloorOK, OrderSeen, OrderWritten, TypeOK, OrderRow
    <3>. QED  BY <3>1 DEF IsConsidered, OrderStatuses, OpenStatuses
  <2>2. CASE ~OrderWritten(p) \/ p \in overlapped
    BY <1>2, <2>2 DEF OrderSeen, OrderWritten
  <2>. QED  BY <2>1, <2>2
<1>6. \A q \in Sessions : pc[q] # "marking"
  BY <1>2 DEF Kept
<1>7. Exists(entry[s])
  BY <1>2, <1>3, <1>4, <1>5, <1>6 DEF GapsAnnounced
<1>. QED  BY <1>1, <1>2, <1>7 DEF FloorOK, EntriesSeen, Written, SameRow

\* The commit of a run gives each step of the order a row or reports the order, unless the
\* order was on hold or closed when it was loaded: then it writes nothing of an open order.
LEMMA RunCommitKeepsGaps ==
    ASSUME TypeOK, NEW p \in Sessions, SessionOK(p), GapsAnnounced, Commit(p), call[p].kind = "run",
           \A q \in Sessions \ {p} : Kept(q)
    PROVE  GapsAnnounced'
<1>. SUFFICES ASSUME IsConsidered(order'.status), ~order'.dirty, conflicts' = {},
                     \A q \in Sessions : pc'[q] # "marking", ~lost', ~raced', NEW s \in Seqs
              PROVE  Exists(entry'[s])
  BY DEF GapsAnnounced, IsConsidered
<1>1. RunOK(p) /\ pc[p] \in RunStatements \ {"orders", "entries"}
  BY DEF SessionOK, Commit, RunStatements
<1>2. order' = OrderSeen(p) /\ entry' = EntriesSeen(p) /\ pc[p] = "commit"
      /\ conflicts' = (conflicts \ wConflict[p].resolves) \cup wConflict[p].reports
      /\ ~lost /\ ~raced
  BY DEF Commit
<1>3. CASE IsConsidered(seen[p].status)
  BY <1>1, <1>2, <1>3 DEF RunOK
<1>4. CASE ~IsConsidered(seen[p].status)
  <2>1. /\ wConflict[p] = NoConflict /\ \A r \in Seqs : ~Written(p, r)
        /\ OrderWritten(p) => wOrder[p].status = "ON_HOLD"
    BY <1>1, <1>4 DEF RunOK
  <2>2. order' = order
    BY <1>2, <2>1 DEF OrderSeen, OrderWritten, IsConsidered
  <2>3. conflicts = {}
    BY <1>2, <2>1 DEF NoConflict
  <2>4. \A q \in Sessions : pc[q] # "marking"
    BY <1>2 DEF Kept
  <2>5. Exists(entry[s])
    BY <1>2, <2>2, <2>3, <2>4 DEF GapsAnnounced
  <2>. QED  BY <1>2, <2>1, <2>5 DEF EntriesSeen, Written
<1>. QED  BY <1>3, <1>4

LEMMA GapsAnnouncedKept ==
    ASSUME TypeOK, NEW p \in Sessions, SessionOK(p), GapsAnnounced,
           \A q \in Sessions \ {p} : Kept(q),
           (\E c \in Calls : Begin(p, c)) \/ Step(p) \/ Rollback(p)
    PROVE  GapsAnnounced'
<1>1. ASSUME UNCHANGED <<order, entry, conflicts, raced>>, pc[p] # "marking" \/ lost', lost => lost'
      PROVE  GapsAnnounced'
  BY <1>1 DEF GapsAnnounced, IsConsidered, Kept
<1>2. CASE (\E c \in Calls : Begin(p, c)) \/ FloorStep(p) \/ StatusStep(p) \/ RunStep(p)
  BY <1>1, <1>2, InsideStep
<1>3. CASE Rollback(p)
  BY <1>1, <1>3 DEF Rollback, rows
<1>4. CASE EditPlant(p)
  <2>1. pc'[p] = "marking"
    BY <1>4 DEF EditPlant, Goto, TypeOK
  <2>. QED  BY <2>1 DEF GapsAnnounced
<1>5. CASE MarkScheduleDirty(p)
  <2>1. IsConsidered(order'.status) => order'.dirty
    BY <1>5 DEF MarkScheduleDirty, Markable, IsConsidered, OpenStatuses, TypeOK, OrderRow
  <2>. QED  BY <2>1 DEF GapsAnnounced, IsConsidered
<1>6. CASE Commit(p)
  <2>1. call[p].kind \in {"floor", "status", "run"}
    BY <1>6, KindOfStep
  <2>2. CASE call[p].kind = "status"
    <3>1. pc'[p] = "marking"
      BY <1>6, <2>2 DEF Commit, Goto, TypeOK
    <3>. QED  BY <3>1 DEF GapsAnnounced
  <2>. QED  BY <1>6, <2>1, <2>2, FloorCommitKeepsGaps, RunCommitKeepsGaps
<1>. QED  BY <1>2, <1>3, <1>4, <1>5, <1>6 DEF Step

-----------------------------------------------------------------------------
(***************************************************************************)
(* The invariant.                                                          *)
(***************************************************************************)
LEMMA InitOK == Init => IInv
<1>. SUFFICES ASSUME Init  PROVE IInv
  OBVIOUS
<1>1. TypeOK
  BY InitTypes
<1>2. ASSUME NEW p \in Sessions  PROVE SessionOK(p) /\ ~OrderWritten(p) /\ \A s \in Seqs : ~Written(p, s)
  <2>1. /\ pc[p] = "idle" /\ call[p] = NoCall /\ todo[p] = {} /\ wOrder[p] = Unwritten
        /\ wEntry[p] = NoRows /\ wConflict[p] = NoConflict /\ planner # p
    BY DEF Init
  <2>2. ~OrderWritten(p) /\ \A s \in Seqs : ~Written(p, s)
    BY <2>1 DEF OrderWritten, Written, NoRows
  <2>3. NoCall.kind = "none"
    BY DEF NoCall
  <2>. QED  BY <2>1, <2>2, <2>3 DEF SessionOK, CallFits, WritesFit, StartsKept, FloorOK, StatusOK, RunOK
<1>3. OneWriter
  BY <1>2 DEF OneWriter
<1>4. RowsFit
  <2>1. \A s \in Seqs : StampsFit(entry[s])
    <3>1. \A s \in Seqs : Exists(entry[s]) => StampsFit(entry[s])
      BY DEF Init, IsScene
    <3>2. \A s \in Seqs : Exists(entry[s]) \/ entry[s] = NoEntry
      BY <1>1, RowKinds DEF TypeOK
    <3>. QED  BY <3>1, <3>2, RowKinds
  <2>2. \A r \in 0 .. MaxRuns : basis[r] <= plant
    BY DEF Init
  <2>. QED  BY <2>1, <2>2 DEF RowsFit
<1>5. GapsAnnounced
  BY DEF Init, IsScene, GapsAnnounced, IsConsidered
<1>. QED  BY <1>1, <1>2, <1>3, <1>4, <1>5 DEF IInv

LEMMA StepOK ==
    ASSUME IInv, NEW p \in Sessions, (\E c \in Calls : Begin(p, c)) \/ Step(p) \/ Rollback(p)
    PROVE  IInv'
<1>1. TypeOK /\ OneWriter /\ RowsFit /\ GapsAnnounced /\ SessionOK(p)
  BY DEF IInv
<1>2. TypeOK'
  BY <1>1, KindOfStep, BeginTypes, FloorTypes, StatusTypes, RunTypes, EndingTypes DEF Step
<1>3. \A q \in Sessions \ {p} : Rely(q)
  BY <1>1, Guarantee DEF IInv
<1>4. \A q \in Sessions \ {p} : SessionOK(q)'
  BY <1>1, <1>2, <1>3, RelySuffices DEF IInv
<1>5. SessionOK(p)'
  BY <1>1, <1>2, BeginOK, FloorStepOK, StatusStepOK, RunStepOK, EndingOK DEF Step
<1>6. \A q \in Sessions \ {p} : Kept(q)
  BY <1>3 DEF Rely
<1>7. OneWriter' /\ RowsFit' /\ GapsAnnounced'
  BY <1>1, <1>6, OneWriterKept, RowsFitKept, GapsAnnouncedKept
<1>. QED  BY <1>2, <1>4, <1>5, <1>7 DEF IInv

LEMMA Stuttering == ASSUME IInv, UNCHANGED vars  PROVE IInv'
<1>. USE DEF vars, rows, counters, locals, writes
<1>1. TypeOK' /\ RowsFit' /\ OneWriter' /\ GapsAnnounced'
  BY DEF IInv, TypeOK, RowsFit, OneWriter, OrderWritten, Written, GapsAnnounced, IsConsidered
<1>2. \A q \in Sessions : Rely(q)
  BY DEF Rely, Kept
<1>. QED  BY <1>1, <1>2, RelySuffices DEF IInv

LEMMA Invariance == Spec => []IInv
<1>1. ASSUME IInv, [Next]_vars  PROVE IInv'
  BY <1>1, StepOK, Stuttering DEF Next
<1>. QED  BY InitOK, <1>1, PTL DEF Spec

-----------------------------------------------------------------------------
(***************************************************************************)
(* What follows from it.                                                   *)
(***************************************************************************)
\* Rows are written by floor transitions, status changes and the planner.
LEMMA WriterKinds ==
    ASSUME IInv, NEW q \in Sessions, NEW s \in Seqs, Written(q, s)
    PROVE  call[q].kind \in {"floor", "status"} \/ planner = q
<1>1. CallFits(q) /\ pc[q] \in {"late", "updated", "rolledUp", "resolving", "risk", "step", "deleting",
                                 "inserting", "reporting", "considered", "held", "commit"}
  BY DEF IInv, SessionOK, WritesFit
<1>. QED  BY <1>1 DEF CallFits, RunStatements

\* Conflicts are resolved by the planner, and by floor transitions that hold the order.
LEMMA ResolverKinds ==
    ASSUME IInv, NEW q \in Sessions, wConflict[q].resolves # {}
    PROVE  \/ call[q].kind = "run" /\ planner = q
           \/ call[q].kind = "floor" /\ OrderWritten(q)
<1>1. CallFits(q) /\ WritesFit(q) /\ FloorOK(q) /\ StatusOK(q) /\ wConflict[q] # NoConflict
  BY DEF IInv, SessionOK, NoConflict
<1>2. pc[q] \in {"inserting", "reporting", "considered", "held", "risk", "commit"}
  BY <1>1 DEF WritesFit
<1>3. call[q].kind \in {"floor", "run"}
  BY <1>1, <1>2 DEF CallFits, StatusOK
<1>4. call[q].kind = "run" => planner = q
  BY <1>1, <1>2 DEF CallFits, RunStatements
<1>. QED  BY <1>1, <1>3, <1>4 DEF FloorOK

\* Sessions that all wait for each other, none of them a status change.  If one holds the order
\* it has conflicts to resolve, and a run has them.  If none does, a floor transition that holds
\* an operation waits for nobody, and without one neither does the planner or, if that is not
\* among them, anybody else.
LEMMA NoDeadlock == ASSUME IInv  PROVE DeadlocksNeedOrderFirst
<1>. SUFFICES ASSUME NEW group \in SUBSET Sessions, group # {},
                     \A p \in group : \E q \in group \ {p} : WaitsFor(p, q),
                     \A p \in group : call[p].kind # "status"
              PROVE  \E p, q \in group : pc[p] = "resolving" /\ call[q].kind = "run"
  BY DEF DeadlocksNeedOrderFirst
<1>1. \A p \in group : p \in Sessions /\ call[p].kind # "status" /\ CallFits(p) /\ WritesFit(p) /\ FloorOK(p)
  BY DEF IInv, SessionOK
<1>r. \A p \in group : pc[p] = "resolving" => OrderWritten(p)
  BY <1>1 DEF CallFits, FloorOK, StatusStatements, RunStatements
<1>2. ASSUME NEW p \in group, OrderWritten(p), NEW q \in group \ {p}, WaitsFor(p, q)
      PROVE  pc[p] = "resolving" /\ call[q].kind = "run"
  <2>1. pc[p] \in {"updated", "rolledUp", "resolving", "risk", "held", "commit"}
    BY <1>1, <1>2 DEF WritesFit, CallFits, FloorStatements, RunStatements, NoCall
  <2>2. ~OrderWritten(q)
    BY <1>1, <1>2 DEF IInv, OneWriter
  <2>3. NeedsConflicts(p) /\ wConflict[q].resolves # {}
    BY <1>2, <2>1, <2>2 DEF WaitsFor, NeedsEntries, OrderWritten
  <2>. QED  BY <1>1, <2>1, <2>2, <2>3, ResolverKinds DEF NeedsConflicts
<1>3. ASSUME \A r \in group : ~OrderWritten(r),
             NEW p \in group, call[p].kind = "floor", NEW s \in Seqs, Written(p, s), NEW q \in group \ {p}
      PROVE  ~WaitsFor(p, q)
  <2>1. pc[p] \in {"late", "updated", "rolledUp", "risk", "commit"}
    BY <1>1, <1>r, <1>3 DEF WritesFit, CallFits, FloorStatements, NoCall
  <2>. QED  BY <1>3, <2>1 DEF WaitsFor, NeedsEntries, NeedsConflicts, OrderWritten
<1>4. ASSUME \A r \in group : ~OrderWritten(r),
             \A r \in group : call[r].kind = "floor" => \A s \in Seqs : ~Written(r, s),
             NEW p \in group, planner = p \/ planner \notin group, NEW q \in group \ {p}
      PROVE  ~WaitsFor(p, q)
  <2>1. planner # q
    BY <1>4
  <2>2. \A s \in Seqs : ~Written(q, s)
    BY <1>1, <1>4, <2>1, WriterKinds
  <2>3. NeedsEntries(p) \subseteq Seqs /\ todo[p] \subseteq Seqs
    <3>1. pc[p] = "operation" => call[p].seq \in Seqs
      <4>1. pc[p] = "operation" => call[p].kind = "floor"
        BY <1>1 DEF CallFits, RunStatements, StatusStatements
      <4>2. call[p] \in CallsUnderWay \cup {NoCall}
        BY <1>1 DEF IInv, TypeOK
      <4>. QED  BY <4>1, <4>2 DEF CallsUnderWay, NoCall
    <3>. QED  BY <1>1, <3>1 DEF NeedsEntries, Remaining, IInv, TypeOK
  <2>4. wConflict[q].resolves = {}
    BY <1>1, <1>4, <2>1, ResolverKinds
  <2>. QED  BY <1>4, <2>1, <2>2, <2>3, <2>4 DEF WaitsFor, OrderWritten, Written
<1>5. CASE \E p \in group : OrderWritten(p)
  BY <1>2, <1>5
<1>6. CASE /\ \A r \in group : ~OrderWritten(r)
           /\ \E p \in group : call[p].kind = "floor" /\ \E s \in Seqs : Written(p, s)
  BY <1>3, <1>6
<1>7. CASE /\ \A r \in group : ~OrderWritten(r)
           /\ \A r \in group : call[r].kind = "floor" => \A s \in Seqs : ~Written(r, s)
  BY <1>4, <1>7
<1>. QED  BY <1>5, <1>6, <1>7

\* Only a commit changes rows of operations.
LEMMA EntriesChange ==
    ASSUME [Next]_vars, entry' # entry
    PROVE  \E p \in Sessions : Commit(p)
<1>1. ASSUME NEW p \in Sessions, (\E c \in Calls : Begin(p, c)) \/ Step(p) \/ Rollback(p), ~Commit(p)
      PROVE  entry' = entry
  BY <1>1, InsideStep DEF Step, EditPlant, MarkScheduleDirty, Rollback, rows
<1>. QED  BY <1>1 DEF Next, vars, rows

LEMMA StartKept == ASSUME IInv, [Next]_vars, NEW s \in Seqs, entry[s].started  PROVE entry'[s].started
<1>1. ASSUME NEW p \in Sessions, Commit(p)  PROVE entry'[s].started
  BY <1>1 DEF IInv, SessionOK, StartsKept, Commit, EntriesSeen, Written
<1>. QED  BY <1>1, EntriesChange

LEMMA NoRegress ==
    ASSUME IInv, [Next]_vars, NEW s \in Seqs, Exists(entry[s]), Exists(entry'[s]), entry'[s].run # entry[s].run
    PROVE  basis[entry'[s].run] >= basis[entry[s].run]
<1>1. PICK p \in Sessions : Commit(p)
  BY EntriesChange
<1>2. TypeOK /\ SessionOK(p)
  BY DEF IInv
<1>3. Written(p, s) /\ entry'[s] = wEntry[p][s] /\ ~SameRow(p, s)
  BY <1>1 DEF Commit, EntriesSeen, Written, SameRow
<1>4. call[p].kind = "run" /\ pc[p] = "commit"
  BY <1>1, <1>2, <1>3, KindOfStep DEF SessionOK, FloorOK, StatusOK, Commit
<1>5. call[p].run \in 1 .. MaxRuns
  BY <1>2, <1>4 DEF TypeOK, CallsUnderWay, NoCall
<1>6. entry'[s].run = call[p].run
  <2>1. wEntry[p][s] = NoEntry \/ wEntry[p][s] = FreshRow(call[p].run)
    BY <1>2, <1>3, <1>4 DEF SessionOK, RunOK
  <2>. QED  BY <1>3, <1>5, <2>1, RowKinds, FreshRowFits
<1>7. basis[entry[s].run] <= basis[call[p].run]
  BY <1>2, <1>4 DEF SessionOK, RunOK, RunStatements
<1>8. basis[entry[s].run] \in Nat /\ basis[call[p].run] \in Nat
  <2>1. entry[s].run \in 0 .. MaxRuns
    BY <1>2, RowKinds DEF TypeOK, Row
  <2>. QED  BY <1>2, <1>5, <2>1 DEF TypeOK
<1>. QED  BY <1>6, <1>7, <1>8

LEMMA HoldKept ==
    ASSUME IInv, NEW p \in Sessions, Commit(p), p \notin overlapped, Unfrozen(order', entry')
    PROVE  Unfrozen(order, entry)
<1>1. TypeOK /\ SessionOK(p) /\ pc[p] = "commit" /\ order' = OrderSeen(p) /\ entry' = EntriesSeen(p)
  BY DEF IInv, Commit
<1>2. PICK s \in Seqs : entry'[s].status \in {"QUEUED", "IN_PROGRESS"}
  BY DEF Unfrozen
<1>3. OrderSeen(p).status = "ON_HOLD"
  BY <1>1 DEF Unfrozen
<1>4. CASE call[p].kind = "floor"
  <2>1. order.status = "ON_HOLD" /\ call[p].to = "ON_HOLD"
    BY <1>1, <1>3, <1>4 DEF SessionOK, FloorOK, OrderSeen, OrderWritten
  <2>2. ~Written(p, s)
    BY <1>1, <1>2, <1>4, <2>1 DEF SessionOK, FloorOK, EntriesSeen, Written
  <2>. QED  BY <1>1, <1>2, <2>1, <2>2 DEF Unfrozen, EntriesSeen, Written
<1>5. CASE call[p].kind = "status"
  <2>1. call[p].to = "ON_HOLD"
    BY <1>1, <1>3, <1>5 DEF SessionOK, StatusOK, OrderSeen, OrderWritten
  <2>2. s \in todo[p]
    BY <1>1, <1>2, <1>5, <2>1 DEF SessionOK, StatusOK
  <2>. QED  BY <1>1, <2>2 DEF SessionOK, WritesFit
<1>6. CASE call[p].kind = "run"
  <2>1. order.status = "ON_HOLD" /\ seen[p].status = "ON_HOLD"
    BY <1>1, <1>3, <1>6 DEF SessionOK, RunOK, RunStatements, OrderSeen, OrderWritten
  <2>2. ~Written(p, s)
    BY <1>1, <1>6, <2>1 DEF SessionOK, RunOK, RunStatements, IsConsidered
  <2>. QED  BY <1>1, <1>2, <2>1, <2>2 DEF Unfrozen, EntriesSeen, Written
<1>. QED  BY <1>1, <1>4, <1>5, <1>6, KindOfStep

-----------------------------------------------------------------------------
\* The rows, the sessions' statements and what their transactions have read and written are
\* what the handlers make of them.
THEOREM TypeCorrect == Spec => []TypeOK
<1>1. IInv => TypeOK
  BY DEF IInv
<1>. QED  BY <1>1, Invariance, PTL

\* However many operators, planners and runs interleave, a step without a place on the board
\* is announced by the banner or by a conflict, but for the exceptions the property names.
THEOREM EveryGapAnnounced == Spec => []GapsAnnounced
<1>1. IInv => GapsAnnounced
  BY DEF IInv
<1>. QED  BY <1>1, Invariance, PTL

\* The row locks of one order, on any routing and with any number of sessions, close a circle
\* only with a status change in it, or with a run and the floor transition that completes the
\* order: all others take operations, conflicts and the order in this sequence, and runs take
\* turns at the tenant's row.
THEOREM NoOtherDeadlock == Spec => []DeadlocksNeedOrderFirst
<1>1. IInv => DeadlocksNeedOrderFirst
  BY NoDeadlock
<1>. QED  BY <1>1, Invariance, PTL

\* The deleteMany of a run finds its rows before it locks them, and looks again: work an
\* operator starts in between stays on the board, started.
THEOREM StartsSurvive == Spec => StartedWorkSurvives
<1>1. ASSUME IInv, [Next]_vars  PROVE [\A s \in Seqs : entry[s].started => entry'[s].started]_vars
  BY <1>1, StartKept
<1>. QED  BY <1>1, Invariance, PTL DEF Spec, StartedWorkSurvives

\* runSchedule() loads the plant after it has the lock of the tenant's row: of two runs the
\* one that commits last has loaded the newer data.
THEOREM PlansAdvance == Spec => PlanNeverRegresses
<1>. DEFINE Advances ==
              \A s \in Seqs :
                 /\ Exists(entry[s]) /\ Exists(entry'[s])
                 /\ entry'[s].run # entry[s].run
                 => basis[entry'[s].run] >= basis[entry[s].run]
<1>1. ASSUME IInv, [Next]_vars  PROVE [Advances]_vars
  BY <1>1, NoRegress
<1>2. PlanNeverRegresses <=> [][Advances]_vars
  BY PTL DEF PlanNeverRegresses
<1>. QED  BY <1>1, <1>2, Invariance, PTL DEF Spec

\* rollupOrderStatus() writes the status that the steps it has read ask for, and asking again
\* changes nothing: a transition beside which nothing was written leaves an order in agreement
\* with its steps.
THEOREM RollUpsAgree == Spec => RollUpAgrees
<1>. DEFINE Agrees ==
              \A p \in Sessions :
                 /\ Commit(p) /\ call[p].kind = "floor"
                 /\ EntriesSeen(p) = seen[p].rows /\ OrderSeen(p).status = seen[p].status
                 => RolledUp(order'.status, StatusesOf(entry')) = order'.status
<1>1. ASSUME IInv  PROVE Agrees
  <2>. SUFFICES ASSUME NEW p \in Sessions, Commit(p), call[p].kind = "floor",
                       EntriesSeen(p) = seen[p].rows, OrderSeen(p).status = seen[p].status
                PROVE  RolledUp(order'.status, StatusesOf(entry')) = order'.status
    OBVIOUS
  <2>1. order' = OrderSeen(p) /\ entry' = EntriesSeen(p) /\ pc[p] = "commit"
    BY DEF Commit
  <2>2. RolledUp(seen[p].status, StatusesOf(seen[p].rows)) = seen[p].status
    BY <1>1, <2>1 DEF IInv, SessionOK, FloorOK
  <2>. QED  BY <2>1, <2>2
<1>2. RollUpAgrees <=> [][Agrees]_vars
  BY PTL DEF RollUpAgrees
<1>. QED  BY <1>1, <1>2, Invariance, PTL DEF Spec

\* A hold by changeOrderStatus() stops every step, and a transition or a run that no commit has
\* overlapped brings nothing back into the queue of an order on hold.
THEOREM HoldsLeakOnlyBesideOthers == Spec => HoldsLeakOnlyOverlapped
<1>. DEFINE KeepsHold ==
              \A p \in Sessions :
                 Commit(p) /\ p \notin overlapped /\ Unfrozen(order', entry') => Unfrozen(order, entry)
<1>1. ASSUME IInv  PROVE KeepsHold
  BY <1>1, HoldKept
<1>2. HoldsLeakOnlyOverlapped <=> [][KeepsHold]_vars
  BY PTL DEF HoldsLeakOnlyOverlapped
<1>. QED  BY <1>1, <1>2, Invariance, PTL DEF Spec
==============================================================================
