------------------------------- MODULE PlantData -------------------------------
(***************************************************************************)
(* What planners edit: routings (src/lib/products/mutations.ts), work      *)
(* centers and machines (src/lib/machines/), calendars and their shifts    *)
(* (src/lib/calendars/) and the plant's default calendar                   *)
(* (src/lib/tenant/settings.ts), statement by statement under READ         *)
(* COMMITTED, as in StockLedger.tla.                                       *)
(*                                                                         *)
(* Every handler is one transaction that reads, refuses or decides on      *)
(* statements, and executes them.  The reads before the first statement    *)
(* are one step; renumberOperations() reads again.  A statement waits for  *)
(* the rows, references and numbers that another open transaction has      *)
(* written, and an error of the database rolls back.                       *)
(*                                                                         *)
(* Left out: names, codes, SKUs and quantities, bills of material,         *)
(* calendar exceptions, downtime and audit rows; markScheduleDirty() after *)
(* the commit is in FloorTransactions.tla.                                 *)
(***************************************************************************)
EXTENDS PlantTables

CONSTANTS
    Sessions,    \* requests served at the same time
    Unwritten,   \* of a row the transaction has not written
    InitialRows, \* the tables at the beginning
    Scenes,      \* the sets of operations a behaviour may consist of
    MaxRequests  \* bound: the number of requests

ASSUME PlantDataAssumption ==
    /\ InitialRows \in [Ids -> AnyRow \cup {NoRow}]
    /\ \A i \in Ids : InitialRows[i] \in Rows[Table[i]] \cup {NoRow}
    /\ Unwritten # NoRow
    /\ \A t \in Tables : Unwritten \notin Rows[t]

ASSUME InitialRoutingsAssumption ==
    \A s \in Steps : InitialRows[s] # NoRow =>
        IsFinal(InitialRows[s].seq) /\ ~Taken(InitialRows, s, InitialRows[s].seq)

\* A calendar that can be scheduled with: it has a shift, its shifts do not
\* overlap, and it is active if it is the default.
Usable(view, ca) ==
    /\ ShiftsOf(view, ca) # {}
    /\ \A s \in ShiftsOf(view, ca) : Fits(view, ShiftsOf(view, ca) \ {s}, view[s].hours)
    /\ view[Plant].calendar = ca => view[ca].active

\* Calendars are created with a shift; shifts are deleted with their calendar.
Sound(view, ca) == IF view[ca] = NoRow THEN ShiftsOf(view, ca) = {} ELSE Usable(view, ca)

ASSUME InitialCalendarsAssumption ==
    InitialRows[Plant] # NoRow /\ \A ca \in Calendars : Sound(InitialRows, ca)

\* The foreign keys: what a row refers to is there.
Whole(view) == \A i \in Ids : view[i] # NoRow => \A x \in References(view[i]) : view[x] # NoRow

ASSUME InitialReferencesAssumption == Whole(InitialRows)

Ops == {"addStep", "updateStep", "removeStep", "moveStep", "createProduct", "setProductActive", "deleteProduct",
        "createCenter", "setCenterActive", "deleteCenter",
        "createMachine", "updateMachine", "setMachineStatus", "deleteMachine",
        "createCalendar", "setCalendarActive", "setDefaultCalendar", "saveSettings", "deleteCalendar",
        "addShift", "updateShift", "deleteShift", "placeOrder", "plan"}

NoCall == [op |-> "none", id |-> None, about |-> {}]
Calls  == [op : Ops, id : Ids, about : SUBSET Calendars]

VARIABLES
    scene,      \* the operations of this behaviour
    db,         \* rows, committed
    own,        \* the rows a transaction has written
    call,       \* what a session does: operation, row, and the calendars it reads or writes
    todo,       \* its statements
    overlapped, \* history: what others have committed since it began (None and calendars)
    raced,      \* history: calendars that two overlapping transactions were about
    requests    \* how many there have been

local == <<own, call, todo, overlapped>>
vars  == <<scene, db, local, raced, requests>>

NothingWritten == [i \in Ids |-> Unwritten]

Init ==
    /\ scene \in Scenes
    /\ db = InitialRows
    /\ own = [p \in Sessions |-> NothingWritten]
    /\ call = [p \in Sessions |-> NoCall]
    /\ todo = [p \in Sessions |-> <<>>]
    /\ overlapped = [p \in Sessions |-> {}]
    /\ raced = {}
    /\ requests = 0

Open(p) == call[p] # NoCall

\* What the transaction of p sees.
View(p) == [i \in Ids |-> IF own[p][i] = Unwritten THEN db[i] ELSE own[p][i]]

-----------------------------------------------------------------------------
\* Statements.

Insert(i, row) == [do |-> "insert", id |-> i, set |-> row]
Update(i, set) == [do |-> "update", id |-> i, set |-> set]
Delete(i)      == [do |-> "delete", id |-> i]
RenumberOperations(pr, s, direction) == [do |-> "renumber", product |-> pr, id |-> s, direction |-> direction]

\* No row has the id and nobody remembers it: ids are never used again.
Fresh(i) ==
    /\ db[i] = NoRow
    /\ \A p \in Sessions :
          /\ own[p][i] = Unwritten
          /\ call[p].id # i
          /\ \A k \in DOMAIN todo[p] : todo[p][k].id # i

\* A request is let in by its handler's checks and goes on with the statements.
Begin(p, op, i, about, statements) ==
    /\ ~Open(p)
    /\ op \in scene
    /\ requests < MaxRequests
    /\ requests' = requests + 1
    /\ call' = [call EXCEPT ![p] = [op |-> op, id |-> i, about |-> about]]
    /\ todo' = [todo EXCEPT ![p] = statements]
    /\ UNCHANGED <<scene, db, own, overlapped, raced>>

-----------------------------------------------------------------------------
\* Routings.

\* resolveRoutingTarget()
IsTarget(ce, m) ==
    /\ db[ce] # NoRow /\ db[ce].active
    /\ m # None => db[m] # NoRow /\ db[m].center = ce /\ db[m].active

AddOperation(p, s, pr, ce, m, last) ==
    /\ Fresh(s)
    /\ db[pr] # NoRow
    /\ IsTarget(ce, m)
    /\ IsLast(last, db, pr)
    /\ Begin(p, "addStep", s, {},
             <<Insert(s, [product |-> pr, center |-> ce, machine |-> m, seq |-> NextSequence(last)]),
               RenumberOperations(pr, None, "none")>>)

UpdateOperation(p, s, ce, m) ==
    /\ db[s] # NoRow
    /\ IsTarget(ce, m)
    /\ Begin(p, "updateStep", s, {}, <<Update(s, [center |-> ce, machine |-> m])>>)

\* Mutant: the gap stays.
RemoveOnly(p, s) ==
    db[s] # NoRow /\ Begin(p, "removeStep", s, {}, <<Delete(s)>>)

RemoveOperation(p, s) ==
    /\ db[s] # NoRow
    /\ Begin(p, "removeStep", s, {}, <<Delete(s), RenumberOperations(db[s].product, None, "none")>>)

MoveOperation(p, s, direction) ==
    /\ db[s] # NoRow
    /\ CanMove(db, s, direction)
    /\ Begin(p, "moveStep", s, {}, <<RenumberOperations(db[s].product, s, direction)>>)

CreateProduct(p, pr) ==
    Fresh(pr) /\ \E active \in BOOLEAN : Begin(p, "createProduct", pr, {}, <<Insert(pr, [active |-> active])>>)

\* Also updateProduct(), which may write isActive and may leave it as it is.
SetProductActive(p, pr, active) ==
    db[pr] # NoRow /\ Begin(p, "setProductActive", pr, {}, <<Update(pr, [active |-> active])>>)

DeleteProduct(p, pr) ==
    /\ db[pr] # NoRow
    /\ Referrers(db, pr) \cap Orders = {}
    /\ Begin(p, "deleteProduct", pr, {}, <<Delete(pr)>>)

EditRouting(p) ==
    \/ \E s \in Steps, pr \in Products, ce \in Centers, m \in Machines \cup {None} :
          \E last \in {db[t].seq : t \in StepsOf(db, pr)} \cup {0} : AddOperation(p, s, pr, ce, m, last)
    \/ \E s \in Steps, ce \in Centers, m \in Machines \cup {None} : UpdateOperation(p, s, ce, m)
    \/ \E s \in Steps : RemoveOperation(p, s)
    \/ \E s \in Steps, direction \in {"up", "down"} : MoveOperation(p, s, direction)
    \/ \E pr \in Products :
          \/ CreateProduct(p, pr) \/ DeleteProduct(p, pr)
          \/ \E active \in BOOLEAN : SetProductActive(p, pr, active)

-----------------------------------------------------------------------------
\* Work centers and machines.

CreateWorkCenter(p, ce) ==
    Fresh(ce) /\ \E active \in BOOLEAN : Begin(p, "createCenter", ce, {}, <<Insert(ce, [active |-> active])>>)

\* Also updateWorkCenter(), which may write isActive.
SetWorkCenterActive(p, ce, active) ==
    db[ce] # NoRow /\ Begin(p, "setCenterActive", ce, {}, <<Update(ce, [active |-> active])>>)

\* Refused while a machine or a step uses it; planned work is not asked for.
DeleteWorkCenter(p, ce) ==
    /\ db[ce] # NoRow
    /\ Referrers(db, ce) \cap (Machines \cup Steps) = {}
    /\ Begin(p, "deleteCenter", ce, {}, <<Delete(ce)>>)

\* assertReferences(): what is inactive may stay, not come.
Allowed(i, current) == db[i] # NoRow /\ (db[i].active \/ i = current)

CreateMachine(p, m, ce, ca) ==
    /\ Fresh(m)
    /\ Allowed(ce, None) /\ Allowed(ca, None)
    /\ \E active \in BOOLEAN :
          Begin(p, "createMachine", m, {ca}, <<Insert(m, [center |-> ce, calendar |-> ca, active |-> active])>>)

UpdateMachine(p, m, ce, ca) ==
    /\ db[m] # NoRow
    /\ Allowed(ce, db[m].center) /\ Allowed(ca, db[m].calendar)
    /\ \E active \in BOOLEAN :
          Begin(p, "updateMachine", m, {ca}, <<Update(m, [center |-> ce, calendar |-> ca, active |-> active])>>)

SetMachineStatus(p, m, active) ==
    db[m] # NoRow /\ Begin(p, "setMachineStatus", m, {}, <<Update(m, [active |-> active])>>)

\* Refused while a step has it fixed.
DeleteMachine(p, m) ==
    /\ db[m] # NoRow
    /\ Referrers(db, m) \cap Steps = {}
    /\ Begin(p, "deleteMachine", m, {}, <<Delete(m)>>)

EditMachines(p) ==
    \/ \E ce \in Centers :
          \/ CreateWorkCenter(p, ce) \/ DeleteWorkCenter(p, ce)
          \/ \E active \in BOOLEAN : SetWorkCenterActive(p, ce, active)
    \/ \E m \in Machines :
          \/ \E ce \in Centers, ca \in Calendars : CreateMachine(p, m, ce, ca) \/ UpdateMachine(p, m, ce, ca)
          \/ \E active \in BOOLEAN : SetMachineStatus(p, m, active)
          \/ DeleteMachine(p, m)

-----------------------------------------------------------------------------
\* Calendars.

CreateCalendar(p, ca, s, h) ==
    /\ Fresh(ca) /\ Fresh(s)
    /\ Begin(p, "createCalendar", ca, {ca},
             <<Insert(ca, [active |-> TRUE]), Insert(s, [calendar |-> ca, hours |-> h])>>)

\* The default calendar is not deactivated.
SetCalendarActive(p, ca, active) ==
    /\ db[ca] # NoRow
    /\ ~active => db[Plant].calendar # ca
    /\ Begin(p, "setCalendarActive", ca, {ca}, <<Update(ca, [active |-> active])>>)

\* Mutant: an inactive calendar may become the default.
DefaultAnyway(ca) == db[ca] # NoRow

CanBeDefault(ca) == db[ca] # NoRow /\ db[ca].active

SetDefaultCalendar(p, ca) ==
    /\ CanBeDefault(ca)
    /\ db[Plant].calendar # ca
    /\ Begin(p, "setDefaultCalendar", Plant, {ca}, <<Update(Plant, [calendar |-> ca])>>)

\* updateTenantSettings() of another name or time zone: it writes the default calendar, too,
\* the one it has read or the chosen one.
UpdateTenantSettings(p, ca) ==
    /\ ca = db[Plant].calendar \/ (ca \in Calendars /\ CanBeDefault(ca))
    /\ Begin(p, "saveSettings", Plant, {ca} \ {None}, <<Update(Plant, [calendar |-> ca])>>)

DeleteCalendar(p, ca) ==
    /\ db[ca] # NoRow
    /\ db[Plant].calendar # ca
    /\ Referrers(db, ca) \cap Machines = {}
    /\ Begin(p, "deleteCalendar", ca, {ca}, <<Delete(ca)>>)

AddShift(p, ca, s, h) ==
    /\ db[ca] # NoRow /\ Fresh(s)
    /\ Fits(db, ShiftsOf(db, ca), h)
    /\ Begin(p, "addShift", s, {ca}, <<Insert(s, [calendar |-> ca, hours |-> h])>>)

UpdateShift(p, s, h) ==
    /\ db[s] # NoRow
    /\ Fits(db, ShiftsOf(db, db[s].calendar) \ {s}, h)
    /\ Begin(p, "updateShift", s, {db[s].calendar}, <<Update(s, [hours |-> h])>>)

\* LastShiftError refuses.
DeleteShift(p, s) ==
    /\ db[s] # NoRow
    /\ ShiftsOf(db, db[s].calendar) # {s}
    /\ Begin(p, "deleteShift", s, {db[s].calendar}, <<Delete(s)>>)

EditCalendars(p) ==
    \/ \E ca \in Calendars :
          \/ \E s \in Shifts, h \in Hours : CreateCalendar(p, ca, s, h) \/ AddShift(p, ca, s, h)
          \/ \E active \in BOOLEAN : SetCalendarActive(p, ca, active)
          \/ SetDefaultCalendar(p, ca) \/ DeleteCalendar(p, ca)
    \/ \E ca \in Calendars \cup {None} : UpdateTenantSettings(p, ca)
    \/ \E s \in Shifts : DeleteShift(p, s) \/ \E h \in Hours : UpdateShift(p, s, h)

-----------------------------------------------------------------------------
\* The statements of a transaction.

Statement(p) == Head(todo[p])

\* The rows of p's next statement: the one it is about and those a delete takes along.
Written(p) ==
    LET st == Statement(p)
    IN  IF st.do = "delete"
        THEN {st.id} \cup Cascaded(View(p), st.id) \cup (Referrers(View(p), st.id) \cap {Plant})
        ELSE {st.id}

\* The product whose numbers the statement of p is about.
ProductOf(p) ==
    LET st == Statement(p)
    IN  CASE st.do = "insert"                                  -> st.set.product
          [] st.do # "insert" /\ View(p)[st.id] = NoRow        -> None
          [] st.do # "insert" /\ View(p)[st.id] # NoRow        -> View(p)[st.id].product

\* q has written a row of the statement, has deleted what it refers to, has referred to what
\* it deletes, or has taken or given up the number it writes.
WaitsFor(p, q) ==
    LET st == Statement(p)
    IN  /\ st.do # "renumber"
        /\ \/ \E i \in Written(p) : own[q][i] # Unwritten
           \/ st.do # "delete" /\ \E i \in References(st.set) : own[q][i] = NoRow
           \/ /\ st.do = "delete"
              /\ \E i \in Ids : own[q][i] \notin {Unwritten, NoRow} /\ st.id \in References(own[q][i])
           \/ /\ st.do # "delete" /\ "seq" \in DOMAIN st.set
              /\ \E s \in Steps : /\ own[q][s] # Unwritten
                                  /\ \E row \in {own[q][s], db[s]} \ {NoRow} :
                                        row.product = ProductOf(p) /\ row.seq = st.set.seq

Ready(p) == Open(p) /\ todo[p] # <<>> /\ \A q \in Sessions \ {p} : ~WaitsFor(p, q)

After(view, st) ==
    CASE st.do = "insert" -> [view EXCEPT ![st.id] = st.set]
      [] st.do = "update" -> [view EXCEPT ![st.id] = Patched(@, st.set)]
      [] st.do = "delete" -> Deleted(view, st.id)

\* The statement ends in an error: the row is gone (P2025), a reference has no row or the row
\* is still referred to (P2003), the number is taken (P2002), or planRenumber() throws.
Fails(p) ==
    LET st   == Statement(p)
        view == View(p)
    IN  \/ st.do # "insert" /\ st.id # None /\ view[st.id] = NoRow
        \/ st.do = "delete" /\ Blocking(view, st.id) # {}
        \/ /\ st.do \in {"insert", "update"}
           /\ st.do = "update" => view[st.id] # NoRow
           /\ \/ \E i \in References(st.set) : view[i] = NoRow
              \/ "seq" \in DOMAIN st.set /\ Taken(After(view, st), st.id, st.set.seq)

ExecuteStatement(p) ==
    /\ Ready(p)
    /\ Statement(p).do # "renumber"
    /\ ~Fails(p)
    /\ LET after == After(View(p), Statement(p))
       IN  own' = [own EXCEPT ![p] = [i \in Ids |-> IF i \in Written(p) THEN after[i] ELSE own[p][i]]]
    /\ todo' = [todo EXCEPT ![p] = Tail(@)]
    /\ UNCHANGED <<scene, db, call, overlapped, raced, requests>>

ReadRouting(p) ==
    /\ Ready(p)
    /\ Statement(p).do = "renumber"
    /\ ~Fails(p)
    /\ \E sorted \in Routings(View(p), Statement(p).product) :
          LET st    == Statement(p)
              route == IF st.id = None THEN sorted ELSE Moved(sorted, st.id, st.direction)
          IN  \E places \in Changes(View(p), route) :
                 todo' = [todo EXCEPT ![p] = Planned(route, places) \o Tail(@)]
    /\ UNCHANGED <<scene, db, own, call, overlapped, raced, requests>>

Closed(p) ==
    /\ own' = [own EXCEPT ![p] = NothingWritten]
    /\ call' = [call EXCEPT ![p] = NoCall]
    /\ todo' = [todo EXCEPT ![p] = <<>>]

\* Everybody whose transaction is open has been overlapped by a commit about these calendars.
Overlapping(p, about) ==
    overlapped' = [q \in Sessions |-> IF q = p THEN {}
                                      ELSE IF Open(q) THEN overlapped[q] \cup about \cup {None}
                                      ELSE overlapped[q]]

Commit(p) ==
    /\ Open(p) /\ todo[p] = <<>>
    /\ db' = View(p)
    /\ raced' = raced \cup (call[p].about \cap overlapped[p])
    /\ Overlapping(p, call[p].about)
    /\ Closed(p)
    /\ UNCHANGED <<scene, requests>>

\* An error, a deadlock, a timeout or a crash.
Rollback(p) ==
    /\ Open(p)
    /\ overlapped' = [overlapped EXCEPT ![p] = {}]
    /\ Closed(p)
    /\ UNCHANGED <<scene, db, raced, requests>>

\* Somebody else's transaction that inserts row `i`; references to rows that others are deleting wait.
Elsewhere(op, i, row) ==
    /\ op \in scene
    /\ requests < MaxRequests
    /\ requests' = requests + 1
    /\ Fresh(i)
    /\ \A x \in References(row) : db[x] # NoRow /\ \A p \in Sessions : own[p][x] # NoRow
    /\ db' = [db EXCEPT ![i] = row]
    /\ overlapped' = [p \in Sessions |-> IF Open(p) THEN overlapped[p] \cup {None} ELSE overlapped[p]]
    /\ UNCHANGED <<scene, own, call, todo, raced>>

\* createOrder() and a schedule run.
PlaceOrder(o, pr) ==
    /\ db[pr] # NoRow /\ db[pr].active
    /\ Elsewhere("placeOrder", o, [product |-> pr])
PlanWork(e, m) ==
    /\ db[m] # NoRow /\ db[m].active
    /\ Elsewhere("plan", e, [center |-> db[m].center, machine |-> m])

Next ==
    \/ \E p \in Sessions :
          \/ EditRouting(p) \/ EditMachines(p) \/ EditCalendars(p)
          \/ ExecuteStatement(p) \/ ReadRouting(p) \/ Commit(p) \/ Rollback(p)
    \/ \E o \in Orders, pr \in Products : PlaceOrder(o, pr)
    \/ \E e \in Entries, m \in Machines : PlanWork(e, m)

Spec == Init /\ [][Next]_vars

-----------------------------------------------------------------------------
(***************************************************************************)
(* Properties.                                                             *)
(***************************************************************************)
\* Whatever transactions overlap, no temporary number of a renumbering is
\* committed: the steps of a product have different positive multiples of ten
\* (renumberOperations() inside the handlers' transactions).
RoutingsNumbered ==
    \A s \in Steps : db[s] # NoRow =>
        IsFinal(db[s].seq) /\ ~Taken(db, s, db[s].seq)

\* A transaction that nobody has overlapped leaves the routing as it was asked
\* for, numbered 10, 20, 30 ... without gaps, also where an earlier overlap
\* had left one, and the routings of other products as they were.
Wanted(c, before, after) ==
    CASE c.op = "addStep"    -> after = Append(before, c.id)
      [] c.op = "removeStep" -> \E i \in 1 .. Len(before) :
                                   /\ c.id = before[i]
                                   /\ after = SubSeq(before, 1, i - 1) \o SubSeq(before, i + 1, Len(before))
      [] c.op = "moveStep"   -> \E i \in 1 .. Len(before) - 1 :
                                   /\ c.id \in {before[i], before[i + 1]}
                                   /\ after = [before EXCEPT ![i] = before[i + 1], ![i + 1] = before[i]]
RenumberRight ==
    [][\A p \in Sessions :
         Commit(p) /\ overlapped[p] = {} /\ call[p].op \in {"addStep", "removeStep", "moveStep"} =>
            \A pr \in Products :
               LET before == Routing(db, pr)
                   after  == Routing(db', pr)
               IN  IF call[p].id \in StepsOf(db, pr) \cup StepsOf(db', pr)
                   THEN /\ Wanted(call[p], before, after)
                        /\ \A i \in DOMAIN after : db'[after[i]].seq = i * SequenceStep
                   ELSE after = before]_vars

\* The handlers' checks foresee every error of the database: a statement of a
\* transaction that nobody has overlapped fails only where it deletes a machine
\* or a work center that planned work refers to, which no check asks for.
ErrorsNeedOverlap ==
    \A p \in Sessions : Ready(p) /\ Fails(p) /\ overlapped[p] = {} =>
        call[p].op \in {"deleteMachine", "deleteCenter"} /\ Referrers(db, call[p].id) \cap Entries # {}

\* docs/M1_SPEC.md:263: a calendar keeps at least one shift, its shifts do not
\* overlap, and the default calendar is an active one, except for calendars
\* that two overlapping transactions were about.
CalendarsUsable ==
    \A ca \in Calendars : db[ca] # NoRow /\ ca \notin raced => Usable(db, ca)

Inserts == [do : {"insert"}, id : Ids, set : AnyRow]
Updates ==
    [do : {"update"}, id : Steps, set : [center : Centers, machine : Machines \cup {None}]] \cup
    [do : {"update"}, id : Steps, set : [seq : Int]] \cup
    [do : {"update"}, id : Products \cup Centers \cup Calendars \cup Machines, set : [active : BOOLEAN]] \cup
    [do : {"update"}, id : Machines, set : Rows.Machine] \cup
    [do : {"update"}, id : Shifts, set : [hours : Hours]] \cup
    [do : {"update"}, id : {Plant}, set : Rows.Tenant]
Deletes == [do : {"delete"}, id : Ids \ {Plant}]
Renumberings ==
    [do : {"renumber"}, product : Products, id : Steps \cup {None}, direction : {"up", "down", "none"}]
Statements == Inserts \cup Updates \cup Deletes \cup Renumberings

\* Every table holds its own rows, and statements write what fits their table.
TypeOK ==
    /\ scene \in Scenes
    /\ db \in [Ids -> AnyRow \cup {NoRow}]
    /\ \A i \in Ids : db[i] \in Rows[Table[i]] \cup {NoRow}
    /\ own \in [Sessions -> [Ids -> AnyRow \cup {NoRow, Unwritten}]]
    /\ \A p \in Sessions, i \in Ids : own[p][i] \in Rows[Table[i]] \cup {NoRow, Unwritten}
    /\ call \in [Sessions -> Calls \cup {NoCall}]
    /\ todo \in [Sessions -> Seq(Statements)]
    /\ \A p \in Sessions : \A k \in DOMAIN todo[p] :
          LET st == todo[p][k] IN st.do = "insert" => st.set \in Rows[Table[st.id]]
    /\ overlapped \in [Sessions -> SUBSET (Calendars \cup {None})]
    /\ raced \subseteq Calendars
    /\ requests \in Nat
================================================================================
