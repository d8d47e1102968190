---------------------------- MODULE PlantDataProofs ----------------------------
(***************************************************************************)
(* For any tables, sessions and requests, no temporary number of a         *)
(* renumbering is ever committed (NumbersRight).                           *)
(*                                                                         *)
(* The invariant follows the numbers through the open transactions.  No    *)
(* row is written by two of them (Locks); the steps of a product have      *)
(* different numbers in every transaction's view (UniqueIn) and across     *)
(* what two of them have written (Cross), so that a commit keeps them      *)
(* different for everybody else; and a number that is not final, written   *)
(* or still to be written, has a statement behind it that settles it       *)
(* (Settled), so that there is none left when a transaction commits.       *)
(*                                                                         *)
(* And a calendar can be scheduled with for as long as no two overlapping  *)
(* transactions are about it (CalendarsStayUsable).  That invariant,       *)
(* CalInv, follows the rows of calendars: what an open transaction leaves  *)
(* behind is sound where nobody has overlapped it (Leaves), it writes rows *)
(* of the calendars it is about only (Confined), and nobody else knows of  *)
(* a shift that is being created (NewShifts).                              *)
(*                                                                         *)
(* And a statement fails for planned work or because somebody overlapped   *)
(* its transaction, never otherwise (ErrorsForeseen).  RefInv says that a  *)
(* session sees no row without the rows it refers to, whatever it has      *)
(* written and will write back (Kept); ErrInv says of a transaction that   *)
(* nobody has overlapped that the statements left to it go through one     *)
(* after the other (Smooth), a renumbering because the step in whose way a *)
(* number is has moved away before (Renumbers), or that it is about to     *)
(* delete what only planned work can keep (Wants).                         *)
(*                                                                         *)
(* And a transaction that nobody has overlapped commits the routing it was *)
(* asked for (RoutingsRenumbered).  RenInv follows such a transaction from *)
(* its request (Opens) over the step it has added or removed (Added,       *)
(* Removed) to the plan for the wanted order (Arranges), which settles the *)
(* number of every step by its last statement about it (Ends); a routing   *)
(* has one order (RisingUnique), so numbers 10, 20, 30 ... determine it.   *)
(***************************************************************************)
EXTENDS PlantData, FiniteSetTheorems, SequenceTheorems, WellFoundedInduction, TLAPS

Numbers(st, s) == st.do \in {"insert", "update"} /\ st.id = s /\ "seq" \in DOMAIN st.set
Parks(st, s)   == Numbers(st, s) /\ ~IsFinal(st.set.seq)
Settles(st, s) == st.do = "update" /\ Numbers(st, s) /\ IsFinal(st.set.seq)

Apart(a, b)    == a \in StepRows /\ b \in StepRows /\ a.product = b.product => a.seq # b.seq
UniqueIn(view) == \A s, t \in Steps : s # t => Apart(view[s], view[t])
FinalIn(view)  == \A s \in Steps : view[s] \in StepRows => IsFinal(view[s].seq)

Locks == \A p, q \in Sessions, i \in Ids : p # q => own[p][i] = Unwritten \/ own[q][i] = Unwritten
Cross == \A p, q \in Sessions, s, t \in Steps : p # q /\ s # t => Apart(own[p][s], own[q][t])

ClosedOK(p) == ~Open(p) => own[p] = NothingWritten /\ todo[p] = <<>>

RenumbersLast(p) == \A k \in DOMAIN todo[p] : todo[p][k].do = "renumber" => k = Len(todo[p])

Pending(p, s) ==
    \/ own[p][s] \in StepRows /\ ~IsFinal(own[p][s].seq)
    \/ \E k \in DOMAIN todo[p] : Parks(todo[p][k], s)
SettledAt(p, s, j) ==
    Settles(todo[p][j], s) /\ \A k \in DOMAIN todo[p] : Parks(todo[p][k], s) => k < j
Settled(p) == \A s \in Steps : Pending(p, s) => \E j \in DOMAIN todo[p] : SettledAt(p, s, j)

SessionOK(p) == ClosedOK(p) /\ RenumbersLast(p) /\ UniqueIn(View(p)) /\ Settled(p)

IInv == TypeOK /\ Locks /\ Cross /\ UniqueIn(db) /\ FinalIn(db) /\ \A p \in Sessions : SessionOK(p)

USE TablesAssumption, PlantDataAssumption

-----------------------------------------------------------------------------
(***************************************************************************)
(* Rows and statements.                                                    *)
(***************************************************************************)
\* The rows of each table.
LEMMA RowTypes ==
    /\ \A i \in Ids : Table[i] \in Tables
    /\ \A i \in Ids : Rows[Table[i]] \subseteq AnyRow
    /\ \A i \in Ids : NoRow \notin Rows[Table[i]] /\ Unwritten \notin Rows[Table[i]]
    /\ \A s \in Steps : s \in Ids /\ Rows[Table[s]] = StepRows
    /\ Plant \in Ids /\ Plant \notin Steps /\ Rows[Table[Plant]] = Rows.Tenant
    /\ None \notin Ids
  <1>1. \A i \in Ids : Table[i] \in Tables
    OBVIOUS
  <1>2. \A t \in Tables : Rows[t] \subseteq AnyRow
    BY DEF Tables, Rows, AnyRow
  <1>3. \A s \in Steps : s \in Ids /\ Rows[Table[s]] = StepRows
    BY DEF Steps, IdsOf, Rows
  <1>4. Plant \in Ids /\ Table[Plant] = "Tenant"
    BY DEF IdsOf
  <1>5. Plant \notin Steps
    BY <1>4 DEF Steps, IdsOf
  <1> QED
    BY <1>1, <1>2, <1>3, <1>4, <1>5

\* What a transaction sees is typed.
LEMMA ViewTypes ==
    ASSUME TypeOK, NEW p \in Sessions
    PROVE  /\ View(p) \in [Ids -> AnyRow \cup {NoRow}]
           /\ \A i \in Ids : View(p)[i] \in Rows[Table[i]] \cup {NoRow}
  <1>1. \A i \in Ids : View(p)[i] \in Rows[Table[i]] \cup {NoRow}
    BY DEF TypeOK, View
  <1> QED
    BY <1>1, RowTypes DEF View

\* The four kinds of statements.
LEMMA StatementKinds ==
    ASSUME NEW st \in Statements
    PROVE  /\ st.do \in {"insert", "update", "delete", "renumber"}
           /\ st.do = "insert" => st \in Inserts
           /\ st.do = "update" => st \in Updates
           /\ st.do = "delete" => st \in Deletes
           /\ st.do = "renumber" => st \in Renumberings
  BY DEF Statements, Inserts, Updates, Deletes, Renumberings

\* Which table a row belongs to.
LEMMA TableRows ==
    /\ \A i \in Products : i \in Ids /\ Rows[Table[i]] = [active : BOOLEAN]
    /\ \A i \in Centers : i \in Ids /\ Rows[Table[i]] = [active : BOOLEAN]
    /\ \A i \in Calendars : i \in Ids /\ Rows[Table[i]] = [active : BOOLEAN]
    /\ \A i \in Machines : i \in Ids /\ Rows[Table[i]] = [center : Centers, calendar : Calendars, active : BOOLEAN]
    /\ \A i \in Shifts : i \in Ids /\ Rows[Table[i]] = [calendar : Calendars, hours : Hours]
    /\ Rows.Machine = [center : Centers, calendar : Calendars, active : BOOLEAN]
    /\ Rows.Tenant = [calendar : Calendars \cup {None}]
  <1>1. /\ Rows.Product = [active : BOOLEAN] /\ Rows.WorkCenter = [active : BOOLEAN]
        /\ Rows.ShiftCalendar = [active : BOOLEAN]
        /\ Rows.Machine = [center : Centers, calendar : Calendars, active : BOOLEAN]
        /\ Rows.Shift = [calendar : Calendars, hours : Hours]
        /\ Rows.Tenant = [calendar : Calendars \cup {None}]
    BY DEF Rows
  <1> QED
    BY <1>1 DEF Products, Centers, Calendars, Machines, Shifts, IdsOf

\* What an update leaves of a row.
LEMMA PatchedRows ==
    /\ \A row \in StepRows, n \in Int : Patched(row, [seq |-> n]) \in StepRows
    /\ \A row \in StepRows, ce \in Centers, m \in Machines \cup {None} :
          Patched(row, [center |-> ce, machine |-> m]) \in StepRows
    /\ \A row \in [active : BOOLEAN], b \in BOOLEAN : Patched(row, [active |-> b]) \in [active : BOOLEAN]
    /\ \A row \in [center : Centers, calendar : Calendars, active : BOOLEAN], b \in BOOLEAN :
          Patched(row, [active |-> b]) \in [center : Centers, calendar : Calendars, active : BOOLEAN]
    /\ \A row, set \in [center : Centers, calendar : Calendars, active : BOOLEAN] :
          Patched(row, set) \in [center : Centers, calendar : Calendars, active : BOOLEAN]
    /\ \A row \in [calendar : Calendars, hours : Hours], h \in Hours :
          Patched(row, [hours |-> h]) \in [calendar : Calendars, hours : Hours]
    /\ \A row, set \in [calendar : Calendars \cup {None}] : Patched(row, set) \in [calendar : Calendars \cup {None}]
  <1>1. \A row \in StepRows, n \in Int : Patched(row, [seq |-> n]) \in StepRows
    BY DEF Patched, StepRows
  <1>2. \A row \in StepRows, ce \in Centers, m \in Machines \cup {None} :
          Patched(row, [center |-> ce, machine |-> m]) \in StepRows
    BY DEF Patched, StepRows
  <1>3. \A row \in [active : BOOLEAN], b \in BOOLEAN : Patched(row, [active |-> b]) \in [active : BOOLEAN]
    BY DEF Patched
  <1>4. \A row \in [center : Centers, calendar : Calendars, active : BOOLEAN], b \in BOOLEAN :
          Patched(row, [active |-> b]) \in [center : Centers, calendar : Calendars, active : BOOLEAN]
    BY DEF Patched
  <1>5. \A row, set \in [center : Centers, calendar : Calendars, active : BOOLEAN] :
          Patched(row, set) \in [center : Centers, calendar : Calendars, active : BOOLEAN]
    BY DEF Patched
  <1>6. \A row \in [calendar : Calendars, hours : Hours], h \in Hours :
          Patched(row, [hours |-> h]) \in [calendar : Calendars, hours : Hours]
    BY DEF Patched
  <1>7. \A row, set \in [calendar : Calendars \cup {None}] : Patched(row, set) \in [calendar : Calendars \cup {None}]
    BY DEF Patched
  <1> QED
    BY <1>1, <1>2, <1>3, <1>4, <1>5, <1>6, <1>7

\* What an update may write.
LEMMA UpdateTypes ==
    ASSUME NEW st \in Updates, NEW row \in Rows[Table[st.id]]
    PROVE  Patched(row, st.set) \in Rows[Table[st.id]]
  <1>1. CASE st \in [do : {"update"}, id : Steps, set : [center : Centers, machine : Machines \cup {None}]]
    <2>1. PICK ce \in Centers, m \in Machines \cup {None} : st.set = [center |-> ce, machine |-> m]
      BY <1>1
    <2> QED
      BY <1>1, <2>1, RowTypes, PatchedRows
  <1>2. CASE st \in [do : {"update"}, id : Steps, set : [seq : Int]]
    <2>1. PICK n \in Int : st.set = [seq |-> n]
      BY <1>2
    <2> QED
      BY <1>2, <2>1, RowTypes, PatchedRows
  <1>3. CASE st \in [do : {"update"}, id : Products \cup Centers \cup Calendars \cup Machines, set : [active : BOOLEAN]]
    <2>1. PICK b \in BOOLEAN : st.set = [active |-> b]
      BY <1>3
    <2>2. CASE st.id \in Products \cup Centers \cup Calendars
      <3>1. Rows[Table[st.id]] = [active : BOOLEAN]
        BY <2>2, TableRows
      <3> QED
        BY <2>1, <3>1, PatchedRows
    <2>3. CASE st.id \in Machines
      <3>1. Rows[Table[st.id]] = [center : Centers, calendar : Calendars, active : BOOLEAN]
        BY <2>3, TableRows
      <3> QED
        BY <2>1, <3>1, PatchedRows
    <2> QED
      BY <1>3, <2>2, <2>3
  <1>4. CASE st \in [do : {"update"}, id : Machines, set : Rows.Machine]
    BY <1>4, TableRows, PatchedRows
  <1>5. CASE st \in [do : {"update"}, id : Shifts, set : [hours : Hours]]
    <2>1. PICK h \in Hours : st.set = [hours |-> h]
      BY <1>5
    <2>2. Rows[Table[st.id]] = [calendar : Calendars, hours : Hours]
      BY <1>5, TableRows
    <2> QED
      BY <2>1, <2>2, PatchedRows
  <1>6. CASE st \in [do : {"update"}, id : {Plant}, set : Rows.Tenant]
    BY <1>6, RowTypes, TableRows, PatchedRows
  <1> QED
    BY <1>1, <1>2, <1>3, <1>4, <1>5, <1>6 DEF Updates

\* An update of a step writes its number, or its target.
LEMMA StepUpdates ==
    ASSUME NEW st \in Updates, st.id \in Steps
    PROVE  \/ st.set \in [seq : Int]
           \/ st.set \in [center : Centers, machine : Machines \cup {None}]
  BY DEF Updates, Steps, Products, Centers, Calendars, Machines, Shifts, IdsOf

\* A statement leaves the tables typed.
LEMMA AfterTypes ==
    ASSUME NEW view \in [Ids -> AnyRow \cup {NoRow}],
           \A i \in Ids : view[i] \in Rows[Table[i]] \cup {NoRow},
           NEW st \in Statements, st.do # "renumber",
           st.do = "insert" => st.set \in Rows[Table[st.id]],
           st.do = "update" => view[st.id] # NoRow
    PROVE  /\ st.id \in Ids
           /\ After(view, st) \in [Ids -> AnyRow \cup {NoRow}]
           /\ \A i \in Ids : After(view, st)[i] \in Rows[Table[i]] \cup {NoRow}
           /\ \A i \in Ids : i # st.id /\ st.do # "delete" => After(view, st)[i] = view[i]
  <1>1. CASE st.do = "insert"
    <2>1. st.id \in Ids /\ After(view, st) = [view EXCEPT ![st.id] = st.set]
      BY <1>1, StatementKinds DEF After, Inserts
    <2> QED
      BY <1>1, <2>1, RowTypes
  <1>2. CASE st.do = "update"
    <2>1. st \in Updates /\ After(view, st) = [view EXCEPT ![st.id] = Patched(@, st.set)]
      BY <1>2, StatementKinds DEF After
    <2>2. st.id \in Ids
      BY <2>1, RowTypes DEF Updates, Products, Centers, Calendars, Machines, Shifts, IdsOf
    <2>3. view[st.id] \in Rows[Table[st.id]]
      BY <1>2, <2>2
    <2>4. Patched(view[st.id], st.set) \in Rows[Table[st.id]]
      BY <2>1, <2>3, UpdateTypes
    <2> QED
      BY <1>2, <2>1, <2>2, <2>4, RowTypes
  <1>3. CASE st.do = "delete"
    <2>1. st.id \in Ids /\ After(view, st) = Deleted(view, st.id)
      BY <1>3, StatementKinds DEF After, Deletes
    <2>2. ASSUME Plant \in Referrers(view, st.id) PROVE [view[Plant] EXCEPT !.calendar = None] \in Rows.Tenant
      <3>1. view[Plant] \in Rows.Tenant
        BY <2>2, RowTypes DEF Referrers
      <3> QED
        BY <3>1 DEF Rows
    <2>3. \A i \in Ids : Deleted(view, st.id)[i] \in Rows[Table[i]] \cup {NoRow}
      BY <2>2, RowTypes DEF Deleted
    <2>4. Deleted(view, st.id) = [i \in Ids |-> Deleted(view, st.id)[i]]
      BY DEF Deleted
    <2> QED
      BY <1>3, <2>1, <2>3, <2>4, RowTypes
  <1> QED
    BY <1>1, <1>2, <1>3, StatementKinds

-----------------------------------------------------------------------------
(***************************************************************************)
(* A statement is executed.                                                *)
(***************************************************************************)
\* What is known of the statement.
LEMMA StatementTypes ==
    ASSUME TypeOK, NEW p \in Sessions, ExecuteStatement(p)
    PROVE  LET st == Statement(p) IN
           /\ st = todo[p][1] /\ 1 \in DOMAIN todo[p]
           /\ st \in Statements /\ st.do # "renumber" /\ st.id \in Ids
           /\ st.do = "insert" => st.set \in Rows[Table[st.id]]
           /\ st.do = "update" => View(p)[st.id] # NoRow
  <1> DEFINE st == Statement(p)
  <1>1. todo[p] \in Seq(Statements) /\ todo[p] # <<>>
    BY DEF TypeOK, ExecuteStatement, Ready
  <1>2. st = todo[p][1] /\ 1 \in DOMAIN todo[p] /\ st \in Statements
    BY <1>1 DEF Statement
  <1>3. st.do = "insert" => st.set \in Rows[Table[st.id]]
    BY <1>2 DEF TypeOK
  <1>4. st.do # "renumber"
    BY DEF ExecuteStatement
  <1>5. st.id \in Ids
    <2> HIDE DEF st
    <2>1. st \in Inserts \/ st \in Updates \/ st \in Deletes
      BY <1>2, <1>4, StatementKinds
    <2>2. st \in Inserts => st.id \in Ids
      BY DEF Inserts
    <2>3. st \in Deletes => st.id \in Ids
      BY DEF Deletes
    <2>4. st \in Updates => st.id \in Ids
      BY RowTypes DEF Updates, Products, Centers, Calendars, Machines, Shifts, Steps, IdsOf
    <2> QED
      BY <2>1, <2>2, <2>3, <2>4
  <1>6. st.do = "update" => View(p)[st.id] # NoRow
    BY <1>5, RowTypes DEF ExecuteStatement, Fails
  <1> QED
    BY <1>2, <1>3, <1>4, <1>5, <1>6

\* The transaction sees what the statement has made of the tables.
LEMMA ViewAfter ==
    ASSUME TypeOK, NEW p \in Sessions, ExecuteStatement(p)
    PROVE  LET after == After(View(p), Statement(p)) IN
           /\ after \in [Ids -> AnyRow \cup {NoRow}]
           /\ \A i \in Ids : after[i] \in Rows[Table[i]] \cup {NoRow}
           /\ own' = [own EXCEPT ![p] = [i \in Ids |-> IF i \in Written(p) THEN after[i] ELSE own[p][i]]]
           /\ \A i \in Ids : i \notin Written(p) => after[i] = View(p)[i]
           /\ View(p)' = after
  <1> DEFINE st    == Statement(p)
             after == After(View(p), st)
  <1>1. /\ st \in Statements /\ st.do # "renumber" /\ st.id \in Ids
        /\ st.do = "insert" => st.set \in Rows[Table[st.id]]
        /\ st.do = "update" => View(p)[st.id] # NoRow
    BY StatementTypes
  <1>2. /\ after \in [Ids -> AnyRow \cup {NoRow}]
        /\ \A i \in Ids : after[i] \in Rows[Table[i]] \cup {NoRow}
        /\ \A i \in Ids : i # st.id /\ st.do # "delete" => after[i] = View(p)[i]
    <2> HIDE DEF st
    <2> QED
      BY <1>1, ViewTypes, AfterTypes
  <1>3. own' = [own EXCEPT ![p] = [i \in Ids |-> IF i \in Written(p) THEN after[i] ELSE own[p][i]]]
    BY DEF ExecuteStatement
  <1>4. ASSUME NEW i \in Ids, i \notin Written(p) PROVE after[i] = View(p)[i]
    <2>1. CASE st.do # "delete"
      BY <2>1, <1>2, <1>4 DEF Written
    <2>2. CASE st.do = "delete"
      <3>1. after = Deleted(View(p), st.id)
        BY <2>2 DEF After
      <3>2. i # st.id /\ i \notin Cascaded(View(p), st.id) /\ ~(i = Plant /\ i \in Referrers(View(p), st.id))
        BY <2>2, <1>4 DEF Written
      <3> QED
        BY <3>1, <3>2 DEF Deleted
    <2> QED
      BY <2>1, <2>2
  <1>5. View(p)' = after
    <2>1. db' = db
      BY DEF ExecuteStatement
    <2>2. own'[p] = [i \in Ids |-> IF i \in Written(p) THEN after[i] ELSE own[p][i]]
      BY <1>3 DEF TypeOK
    <2>3. \A i \in Ids : after[i] # Unwritten
      BY <1>2, RowTypes, PlantDataAssumption
    <2>4. \A i \in Ids : (IF own'[p][i] = Unwritten THEN db'[i] ELSE own'[p][i]) = after[i]
      <3> HIDE DEF after
      <3> QED
        BY <1>4, <2>1, <2>2, <2>3 DEF View
    <2>5. View(p)' = [i \in Ids |-> IF own'[p][i] = Unwritten THEN db'[i] ELSE own'[p][i]]
      BY DEF View
    <2> HIDE DEF after
    <2> QED
      BY <1>2, <2>4, <2>5
  <1> QED
    BY <1>2, <1>3, <1>4, <1>5

\* What it makes of a step.
LEMMA StepAfter ==
    ASSUME TypeOK, NEW p \in Sessions, ExecuteStatement(p), NEW s \in Steps, s \in Written(p)
    PROVE  LET st    == Statement(p)
               after == After(View(p), st)
           IN  \/ after[s] = NoRow
               \/ /\ Numbers(st, s)
                  /\ after[s] \in StepRows
                  /\ after[s].seq = st.set.seq
                  /\ after[s].product = ProductOf(p)
                  /\ ~Taken(after, s, st.set.seq)
               \/ /\ st.do = "update" /\ st.id = s /\ "seq" \notin DOMAIN st.set
                  /\ after[s] \in StepRows
                  /\ View(p)[s] \in StepRows
                  /\ after[s].seq = View(p)[s].seq
                  /\ after[s].product = View(p)[s].product
  <1> DEFINE st    == Statement(p)
             after == After(View(p), st)
  <1>1. /\ st \in Statements /\ st.do # "renumber" /\ st.id \in Ids
        /\ st.do = "insert" => st.set \in Rows[Table[st.id]]
        /\ st.do = "update" => View(p)[st.id] # NoRow
    BY StatementTypes
  <1>2. View(p) \in [Ids -> AnyRow \cup {NoRow}] /\ \A i \in Ids : View(p)[i] \in Rows[Table[i]] \cup {NoRow}
    BY ViewTypes
  <1>3. s \in Ids /\ s # Plant /\ Rows[Table[s]] = StepRows
    BY RowTypes
  <1>4. ~Fails(p)
    BY DEF ExecuteStatement
  <1>5. CASE st.do = "delete"
    <2>1. s = st.id \/ s \in Cascaded(View(p), st.id)
      BY <1>3, <1>5 DEF Written
    <2>2. after = Deleted(View(p), st.id)
      BY <1>5 DEF After
    <2> QED
      BY <1>3, <2>1, <2>2 DEF Deleted
  <1>6. CASE st.do = "insert"
    <2>1. s = st.id
      BY <1>6 DEF Written
    <2>2. after[s] = st.set
      BY <1>2, <1>3, <1>6, <2>1 DEF After
    <2>3. st.set \in StepRows
      BY <1>1, <1>3, <1>6, <2>1
    <2>4. "seq" \in DOMAIN st.set
      BY <2>3 DEF StepRows
    <2>5. ~Taken(after, s, st.set.seq)
      BY <1>4, <1>6, <2>1, <2>4 DEF Fails
    <2>6. ProductOf(p) = st.set.product
      BY <1>6 DEF ProductOf
    <2> QED
      BY <1>6, <2>1, <2>2, <2>3, <2>4, <2>5, <2>6 DEF Numbers
  <1>7. CASE st.do = "update"
    <2>1. s = st.id
      BY <1>7 DEF Written
    <2>2. View(p)[s] \in StepRows
      BY <1>1, <1>2, <1>3, <1>7, <2>1
    <2>3. after[s] = Patched(View(p)[s], st.set)
      BY <1>2, <1>3, <1>7, <2>1 DEF After
    <2>4. ProductOf(p) = View(p)[s].product
      BY <1>1, <1>7, <2>1 DEF ProductOf
    <2>5. st \in Updates
      BY <1>1, <1>7, StatementKinds
    <2>6. CASE st.set \in [seq : Int]
      <3>1. PICK n \in Int : st.set = [seq |-> n]
        BY <2>6
      <3>2. "seq" \in DOMAIN st.set /\ st.set.seq = n
        BY <3>1
      <3>3. after[s] \in StepRows /\ after[s].seq = n /\ after[s].product = View(p)[s].product
        BY <2>2, <2>3, <3>1, PatchedRows DEF Patched, StepRows
      <3>4. ~Taken(after, s, st.set.seq)
        BY <1>1, <1>4, <1>7, <2>1, <3>2 DEF Fails
      <3> QED
        BY <1>7, <2>1, <2>4, <3>2, <3>3, <3>4 DEF Numbers
    <2>7. CASE st.set \in [center : Centers, machine : Machines \cup {None}]
      <3>1. PICK ce \in Centers, m \in Machines \cup {None} : st.set = [center |-> ce, machine |-> m]
        BY <2>7
      <3>2. "seq" \notin DOMAIN st.set
        BY <3>1
      <3>3. /\ after[s] \in StepRows
            /\ after[s].seq = View(p)[s].seq /\ after[s].product = View(p)[s].product
        BY <2>2, <2>3, <3>1, PatchedRows DEF Patched, StepRows
      <3> QED
        BY <1>7, <2>1, <2>2, <3>2, <3>3
    <2> QED
      BY <2>1, <2>5, <2>6, <2>7, StepUpdates
  <1> QED
    BY <1>1, <1>5, <1>6, <1>7, StatementKinds

\* Nobody else has written what the statement writes, or the number it writes.
LEMMA OthersApart ==
    ASSUME IInv, NEW p \in Sessions, ExecuteStatement(p), NEW q \in Sessions, q # p
    PROVE  LET after == After(View(p), Statement(p)) IN
           /\ \A i \in Written(p) : own[q][i] = Unwritten
           /\ \A s, t \in Steps : s # t /\ s \in Written(p) =>
                 Apart(after[s], own[q][t]) /\ Apart(own[q][t], after[s])
  <1> DEFINE st    == Statement(p)
             after == After(View(p), st)
  <1>1. ~WaitsFor(p, q) /\ st.do # "renumber"
    BY DEF ExecuteStatement, Ready
  <1>2. \A i \in Written(p) : own[q][i] = Unwritten
    BY <1>1 DEF WaitsFor
  <1>3. ASSUME NEW s \in Steps, NEW t \in Steps, s # t, s \in Written(p),
               after[s] \in StepRows, own[q][t] \in StepRows, after[s].product = own[q][t].product
        PROVE  after[s].seq # own[q][t].seq
    <2>1. s \in Ids /\ t \in Ids /\ Rows[Table[s]] = StepRows /\ NoRow \notin StepRows /\ Unwritten \notin StepRows
      BY RowTypes
    <2>2. CASE Numbers(st, s) /\ after[s].seq = st.set.seq /\ after[s].product = ProductOf(p)
      <3>1. st.do # "delete" /\ "seq" \in DOMAIN st.set
        BY <2>2 DEF Numbers
      <3>2. ~ \E row \in {own[q][t], db[t]} \ {NoRow} : row.product = ProductOf(p) /\ row.seq = st.set.seq
        BY <1>1, <1>3, <2>1, <3>1 DEF WaitsFor
      <3> QED
        BY <1>3, <2>1, <2>2, <3>2
    <2>3. CASE /\ View(p)[s] \in StepRows
               /\ after[s].seq = View(p)[s].seq /\ after[s].product = View(p)[s].product
      <3>1. CASE own[p][s] # Unwritten
        <4>1. View(p)[s] = own[p][s]
          BY <2>1, <3>1 DEF View
        <4>2. Apart(own[p][s], own[q][t])
          BY <1>3 DEF IInv, Cross
        <4> QED
          BY <1>3, <2>3, <4>1, <4>2 DEF Apart
      <3>2. CASE own[p][s] = Unwritten
        <4>1. View(p)[s] = db[s]
          BY <2>1, <3>2 DEF View
        <4>2. View(q)[s] = db[s] /\ View(q)[t] = own[q][t]
          BY <1>2, <1>3, <2>1 DEF View
        <4>3. Apart(View(q)[s], View(q)[t])
          BY <1>3 DEF IInv, SessionOK, UniqueIn
        <4> QED
          BY <1>3, <2>3, <4>1, <4>2, <4>3 DEF Apart
      <3> QED
        BY <3>1, <3>2
    <2> QED
      BY <1>3, <2>1, <2>2, <2>3, StepAfter DEF IInv
  <1>4. \A s, t \in Steps : s # t /\ s \in Written(p) => Apart(after[s], own[q][t]) /\ Apart(own[q][t], after[s])
    <2> HIDE DEF after
    <2> QED
      BY <1>3 DEF Apart
  <1> QED
    BY <1>2, <1>4

\* The steps of a product still have different numbers.
LEMMA UniqueAfter ==
    ASSUME IInv, NEW p \in Sessions, ExecuteStatement(p)
    PROVE  UniqueIn(After(View(p), Statement(p)))
  <1> DEFINE st    == Statement(p)
             after == After(View(p), st)
  <1>1. \A s \in Steps : s \notin Written(p) => after[s] = View(p)[s]
    BY ViewAfter, RowTypes DEF IInv
  <1>2. UniqueIn(View(p))
    BY DEF IInv, SessionOK
  <1>3. ASSUME NEW s \in Steps, NEW t \in Steps, s # t, s \in Written(p), after[s] \in StepRows, after[t] \in StepRows,
               after[s].product = after[t].product
        PROVE  after[s].seq # after[t].seq
    <2>1. s \in Ids /\ t \in Ids /\ NoRow \notin StepRows
      BY RowTypes
    <2>2. CASE after[s].seq = st.set.seq /\ ~Taken(after, s, st.set.seq)
      <3>1. t \in StepsOf(after, after[s].product) \ {s}
        <4> HIDE DEF after
        <4> QED
          BY <1>3, <2>1 DEF StepsOf
      <3> QED
        BY <2>2, <3>1 DEF Taken
    <2>3. CASE /\ st.id = s /\ st.do = "update" /\ View(p)[s] \in StepRows
               /\ after[s].seq = View(p)[s].seq /\ after[s].product = View(p)[s].product
      <3>1. t \notin Written(p)
        BY <1>3, <2>3 DEF Written
      <3>2. after[t] = View(p)[t]
        BY <1>1, <3>1
      <3>3. Apart(View(p)[s], View(p)[t])
        BY <1>2, <1>3 DEF UniqueIn
      <3> QED
        BY <1>3, <2>3, <3>2, <3>3 DEF Apart
    <2> QED
      BY <1>3, <2>1, <2>2, <2>3, StepAfter DEF IInv
  <1>4. ASSUME NEW s \in Steps, NEW t \in Steps, s # t PROVE Apart(after[s], after[t])
    <2>1. CASE s \in Written(p)
      BY <1>3, <1>4, <2>1 DEF Apart
    <2>2. CASE t \in Written(p)
      BY <1>3, <1>4, <2>2 DEF Apart
    <2>3. CASE s \notin Written(p) /\ t \notin Written(p)
      <3>1. Apart(View(p)[s], View(p)[t])
        BY <1>2, <1>4 DEF UniqueIn
      <3> QED
        BY <1>1, <2>3, <3>1
    <2> QED
      BY <2>1, <2>2, <2>3
  <1> QED
    BY <1>4 DEF UniqueIn

\* What is not final has its statement still to come.
LEMMA SettledAfter ==
    ASSUME IInv, NEW p \in Sessions, ExecuteStatement(p)
    PROVE  Settled(p)' /\ RenumbersLast(p)'
  <1> DEFINE st    == Statement(p)
             after == After(View(p), st)
  <1>1. /\ todo' = [todo EXCEPT ![p] = Tail(@)]
        /\ todo[p] \in Seq(Statements) /\ todo[p] # <<>>
    BY DEF IInv, TypeOK, ExecuteStatement, Ready
  <1>2. /\ todo'[p] = Tail(todo[p])
        /\ Len(todo'[p]) = Len(todo[p]) - 1
        /\ DOMAIN todo'[p] = 1 .. Len(todo[p]) - 1
        /\ DOMAIN todo[p] = 1 .. Len(todo[p]) /\ Len(todo[p]) \in Nat
        /\ \A k \in DOMAIN todo'[p] : todo'[p][k] = todo[p][k + 1] /\ k + 1 \in DOMAIN todo[p]
    BY <1>1 DEF IInv, TypeOK
  <1>3. own'[p] = [i \in Ids |-> IF i \in Written(p) THEN after[i] ELSE own[p][i]]
    BY ViewAfter DEF IInv, TypeOK
  <1>4. st = todo[p][1]
    BY StatementTypes DEF IInv
  <1>5. ASSUME NEW s \in Steps, Pending(p, s)'
        PROVE  \E j \in DOMAIN todo'[p] : SettledAt(p, s, j)'
    <2>1. s \in Ids /\ NoRow \notin StepRows /\ Unwritten \notin StepRows
      BY RowTypes
    <2>2. CASE \E k \in DOMAIN todo'[p] : Parks(todo'[p][k], s)
      <3>1. PICK k \in DOMAIN todo'[p] : Parks(todo'[p][k], s)
        BY <2>2
      <3>2. Parks(todo[p][k + 1], s) /\ k + 1 \in DOMAIN todo[p]
        BY <1>2, <3>1
      <3>3. PICK j \in DOMAIN todo[p] : SettledAt(p, s, j)
        BY <3>2 DEF IInv, SessionOK, Settled, Pending
      <3>4. k + 1 < j
        BY <3>2, <3>3 DEF SettledAt
      <3>5. j - 1 \in DOMAIN todo'[p] /\ todo'[p][j - 1] = todo[p][j]
        BY <1>2, <3>1, <3>4
      <3>6. \A l \in DOMAIN todo'[p] : Parks(todo'[p][l], s) => l < j - 1
        BY <1>2, <3>3 DEF SettledAt
      <3> QED
        BY <3>3, <3>5, <3>6 DEF SettledAt
    <2>3. CASE own'[p][s] \in StepRows /\ ~IsFinal(own'[p][s].seq)
      <3>1. Pending(p, s) /\ ~Settles(st, s)
        <4>1. CASE s \notin Written(p)
          <5>1. own'[p][s] = own[p][s]
            BY <1>3, <2>1, <4>1
          <5>2. s # st.id
            BY <4>1 DEF Written
          <5> QED
            BY <2>3, <5>1, <5>2 DEF Pending, Settles, Numbers
        <4>2. CASE s \in Written(p)
          <5>1. own'[p][s] = after[s]
            BY <1>3, <2>1, <4>2
          <5>2. CASE Numbers(st, s) /\ after[s].seq = st.set.seq
            <6>1. Parks(st, s) /\ ~IsFinal(st.set.seq)
              BY <2>3, <5>1, <5>2 DEF Parks
            <6> QED
              BY <1>2, <1>4, <1>1, <6>1 DEF Pending, Settles
          <5>3. CASE /\ "seq" \notin DOMAIN st.set /\ View(p)[s] \in StepRows
                     /\ after[s].seq = View(p)[s].seq
            <6>1. ~IsFinal(View(p)[s].seq)
              BY <2>3, <5>1, <5>3
            <6>2. own[p][s] # Unwritten
              BY <2>1, <5>3, <6>1 DEF View, IInv, FinalIn
            <6>3. View(p)[s] = own[p][s]
              BY <2>1, <6>2 DEF View
            <6> QED
              BY <5>3, <6>1, <6>3 DEF Pending, Settles, Numbers
          <5> QED
            BY <2>1, <2>3, <4>2, <5>1, <5>2, <5>3, StepAfter DEF IInv
        <4> QED
          BY <4>1, <4>2
      <3>2. PICK j \in DOMAIN todo[p] : SettledAt(p, s, j)
        BY <3>1 DEF IInv, SessionOK, Settled
      <3>3. j # 1
        BY <1>4, <3>1, <3>2 DEF SettledAt
      <3>4. j - 1 \in DOMAIN todo'[p] /\ todo'[p][j - 1] = todo[p][j]
        BY <1>2, <3>2, <3>3
      <3>5. \A l \in DOMAIN todo'[p] : Parks(todo'[p][l], s) => l < j - 1
        BY <1>2, <3>2 DEF SettledAt
      <3> QED
        BY <3>2, <3>4, <3>5 DEF SettledAt
    <2> QED
      BY <1>5, <2>2, <2>3 DEF Pending
  <1>6. RenumbersLast(p)'
    BY <1>2 DEF IInv, SessionOK, RenumbersLast
  <1> QED
    BY <1>5, <1>6 DEF Settled

\* A session whose own variables stay and who sees the same tables stays as it is.
LEMMA SessionKept ==
    ASSUME NEW q \in Sessions, SessionOK(q), UNCHANGED <<db, own[q], call[q], todo[q]>>
    PROVE  SessionOK(q)'
  BY DEF SessionOK, ClosedOK, Open, RenumbersLast, View, Settled, Pending, SettledAt

\* A statement of a transaction keeps the invariant.
LEMMA ExecuteKeeps ==
    ASSUME IInv, NEW p \in Sessions, ExecuteStatement(p)
    PROVE  IInv'
  <1> DEFINE st    == Statement(p)
             after == After(View(p), st)
  <1>1. /\ after \in [Ids -> AnyRow \cup {NoRow}]
        /\ \A i \in Ids : after[i] \in Rows[Table[i]] \cup {NoRow}
        /\ own' = [own EXCEPT ![p] = [i \in Ids |-> IF i \in Written(p) THEN after[i] ELSE own[p][i]]]
        /\ View(p)' = after
    BY ViewAfter DEF IInv
  <1>2. /\ todo' = [todo EXCEPT ![p] = Tail(@)]
        /\ todo[p] \in Seq(Statements) /\ todo[p] # <<>>
        /\ UNCHANGED <<scene, db, call, overlapped, raced, requests>>
    BY DEF IInv, TypeOK, ExecuteStatement, Ready
  <1> HIDE DEF after
  <1>3. /\ own'[p] = [i \in Ids |-> IF i \in Written(p) THEN after[i] ELSE own[p][i]]
        /\ \A q \in Sessions \ {p} : own'[q] = own[q]
        /\ todo'[p] = Tail(todo[p])
        /\ \A q \in Sessions \ {p} : todo'[q] = todo[q]
    BY <1>1, <1>2 DEF IInv, TypeOK
  <1>4. TypeOK'
    <2>1. own' \in [Sessions -> [Ids -> AnyRow \cup {NoRow, Unwritten}]]
      BY <1>1 DEF IInv, TypeOK
    <2>2. \A q \in Sessions, i \in Ids : own'[q][i] \in Rows[Table[i]] \cup {NoRow, Unwritten}
      BY <1>1, <1>3 DEF IInv, TypeOK
    <2>3. todo' \in [Sessions -> Seq(Statements)]
      <3>1. Tail(todo[p]) \in Seq(Statements)
        BY <1>2
      <3> QED
        BY <1>2, <3>1 DEF IInv, TypeOK
    <2>4. ASSUME NEW q \in Sessions, NEW k \in DOMAIN todo'[q], todo'[q][k].do = "insert"
          PROVE  todo'[q][k].set \in Rows[Table[todo'[q][k].id]]
      <3>1. CASE q # p
        BY <1>3, <2>4, <3>1 DEF IInv, TypeOK
      <3>2. CASE q = p
        <4>1. k + 1 \in DOMAIN todo[p] /\ todo'[p][k] = todo[p][k + 1]
          <5> DEFINE sts == todo[p]
          <5>1. sts \in Seq(Statements) /\ sts # <<>> /\ k \in DOMAIN Tail(sts)
            BY <1>2, <1>3, <2>4, <3>2
          <5> HIDE DEF sts
          <5>2. k + 1 \in DOMAIN sts /\ Tail(sts)[k] = sts[k + 1]
            BY <5>1
          <5> QED
            BY <1>3, <5>2 DEF sts
        <4> QED
          BY <2>4, <3>2, <4>1 DEF IInv, TypeOK
      <3> QED
        BY <3>1, <3>2
    <2> QED
      BY <1>2, <2>1, <2>2, <2>3, <2>4 DEF IInv, TypeOK
  <1>5. Locks'
    <2>1. ASSUME NEW q \in Sessions, q # p, NEW i \in Ids
          PROVE  own'[p][i] = Unwritten \/ own'[q][i] = Unwritten
      BY <1>3, <2>1, OthersApart DEF IInv, Locks
    <2>2. \A q, r \in Sessions, i \in Ids : q # p /\ r # p /\ q # r => own'[q][i] = Unwritten \/ own'[r][i] = Unwritten
      BY <1>3 DEF IInv, Locks
    <2> QED
      BY <2>1, <2>2 DEF Locks
  <1>6. Cross'
    <2>1. ASSUME NEW q \in Sessions, q # p, NEW s \in Steps, NEW t \in Steps, s # t
          PROVE  Apart(own'[p][s], own'[q][t]) /\ Apart(own'[q][t], own'[p][s])
      <3>1. s \in Ids
        BY RowTypes
      <3>2. CASE s \in Written(p)
        BY <1>3, <2>1, <3>1, <3>2, OthersApart DEF after
      <3>3. CASE s \notin Written(p)
        BY <1>3, <2>1, <3>1, <3>3 DEF IInv, Cross
      <3> QED
        BY <3>2, <3>3
    <2>2. ASSUME NEW q \in Sessions, NEW r \in Sessions, q # p, r # p, q # r, NEW s \in Steps, NEW t \in Steps, s # t
          PROVE  Apart(own'[q][s], own'[r][t])
      BY <1>3, <2>2 DEF IInv, Cross
    <2>3. ASSUME NEW q \in Sessions, NEW r \in Sessions, q # r, NEW s \in Steps, NEW t \in Steps, s # t
          PROVE  Apart(own'[q][s], own'[r][t])
      BY <2>1, <2>2, <2>3
    <2> QED
      BY <2>3 DEF Cross, Apart
  <1>7. UniqueIn(db)' /\ FinalIn(db)'
    BY <1>2 DEF IInv, UniqueIn, FinalIn
  <1>8. SessionOK(p)'
    <2>1. ClosedOK(p)'
      BY <1>2 DEF ClosedOK, Open, ExecuteStatement, Ready
    <2>2. UniqueIn(View(p))'
      <3>1. UniqueIn(after)
        BY UniqueAfter DEF after
      <3> QED
        BY <1>1, <3>1 DEF UniqueIn
    <2> QED
      BY <2>1, <2>2, SettledAfter DEF SessionOK
  <1>9. \A q \in Sessions \ {p} : SessionOK(q)'
    BY <1>2, <1>3, SessionKept DEF IInv
  <1> QED
    BY <1>4, <1>5, <1>6, <1>7, <1>8, <1>9 DEF IInv

-----------------------------------------------------------------------------
(***************************************************************************)
(* The end of a transaction, and others' transactions.                     *)
(***************************************************************************)
\* A closed transaction has written nothing.
LEMMA ClosedTypes ==
    ASSUME TypeOK, NEW p \in Sessions, Closed(p)
    PROVE  /\ own' \in [Sessions -> [Ids -> AnyRow \cup {NoRow, Unwritten}]]
           /\ \A q \in Sessions, i \in Ids : own'[q][i] \in Rows[Table[i]] \cup {NoRow, Unwritten}
           /\ call' \in [Sessions -> Calls \cup {NoCall}]
           /\ todo' \in [Sessions -> Seq(Statements)]
           /\ \A q \in Sessions : \A k \in DOMAIN todo'[q] :
                 todo'[q][k].do = "insert" => todo'[q][k].set \in Rows[Table[todo'[q][k].id]]
           /\ own'[p] = NothingWritten /\ todo'[p] = <<>> /\ call'[p] = NoCall
           /\ \A q \in Sessions \ {p} : own'[q] = own[q] /\ todo'[q] = todo[q] /\ call'[q] = call[q]
  <1>1. own' = [own EXCEPT ![p] = NothingWritten] /\ NothingWritten \in [Ids -> AnyRow \cup {NoRow, Unwritten}]
    BY DEF Closed, NothingWritten
  <1>2. todo' = [todo EXCEPT ![p] = <<>>] /\ call' = [call EXCEPT ![p] = NoCall]
    BY DEF Closed
  <1>3. own' \in [Sessions -> [Ids -> AnyRow \cup {NoRow, Unwritten}]]
    BY <1>1 DEF TypeOK
  <1>4. \A q \in Sessions, i \in Ids : own'[q][i] \in Rows[Table[i]] \cup {NoRow, Unwritten}
    BY <1>1 DEF TypeOK, NothingWritten
  <1>5. call' \in [Sessions -> Calls \cup {NoCall}] /\ todo' \in [Sessions -> Seq(Statements)]
    <2>1. <<>> \in Seq(Statements)
      OBVIOUS
    <2> QED
      BY <1>2, <2>1 DEF TypeOK
  <1>6. /\ own'[p] = NothingWritten /\ todo'[p] = <<>> /\ call'[p] = NoCall
        /\ \A q \in Sessions \ {p} : own'[q] = own[q] /\ todo'[q] = todo[q] /\ call'[q] = call[q]
    BY <1>1, <1>2 DEF TypeOK
  <1>7. ASSUME NEW q \in Sessions, NEW k \in DOMAIN todo'[q], todo'[q][k].do = "insert"
        PROVE  todo'[q][k].set \in Rows[Table[todo'[q][k].id]]
    <2>1. q # p
      BY <1>6, <1>7
    <2> QED
      BY <1>6, <1>7, <2>1 DEF TypeOK
  <1> QED
    BY <1>3, <1>4, <1>5, <1>6, <1>7

\* Nobody's locks and numbers meet those of a closed transaction.
LEMMA ClosedApart ==
    ASSUME IInv, NEW p \in Sessions, Closed(p)
    PROVE  Locks' /\ Cross'
  <1>1. own'[p] = NothingWritten /\ \A q \in Sessions \ {p} : own'[q] = own[q]
    BY ClosedTypes DEF IInv
  <1>2. \A i \in Ids : own'[p][i] = Unwritten
    BY <1>1 DEF NothingWritten
  <1>3. Locks'
    <2>1. \A q, r \in Sessions, i \in Ids : q # r => own'[q][i] = Unwritten \/ own'[r][i] = Unwritten
      BY <1>1, <1>2 DEF IInv, Locks
    <2> QED
      BY <2>1 DEF Locks
  <1>4. ASSUME NEW q \in Sessions, NEW r \in Sessions, q # r, NEW s \in Steps, NEW t \in Steps, s # t
        PROVE  Apart(own'[q][s], own'[r][t])
    <2>1. s \in Ids /\ t \in Ids /\ Unwritten \notin StepRows
      BY RowTypes
    <2>2. CASE q = p \/ r = p
      BY <1>2, <2>1, <2>2 DEF Apart
    <2>3. CASE q # p /\ r # p
      BY <1>1, <1>4, <2>3 DEF IInv, Cross
    <2> QED
      BY <2>2, <2>3
  <1> QED
    BY <1>3, <1>4 DEF Cross, Apart

\* A closed session is fine where the tables are.
LEMMA ClosedSession ==
    ASSUME TypeOK, NEW p \in Sessions, Closed(p), NEW view, view = db', DOMAIN view = Ids, UniqueIn(view)
    PROVE  SessionOK(p)'
  <1>1. own'[p] = NothingWritten /\ todo'[p] = <<>> /\ call'[p] = NoCall
    BY ClosedTypes
  <1>2. ClosedOK(p)' /\ RenumbersLast(p)'
    BY <1>1 DEF ClosedOK, Open, RenumbersLast, NothingWritten
  <1>3. Settled(p)'
    <2>1. \A s \in Steps : s \in Ids /\ Unwritten \notin StepRows
      BY RowTypes
    <2> QED
      BY <1>1, <2>1 DEF Settled, Pending, NothingWritten
  <1>4. UniqueIn(View(p))'
    <2>1. \A s \in Steps : View(p)'[s] = view[s]
      <3>1. \A s \in Steps : s \in Ids
        BY RowTypes
      <3> QED
        BY <1>1, <3>1 DEF View, NothingWritten
    <2> QED
      BY <2>1 DEF UniqueIn, Apart
  <1> QED
    BY <1>2, <1>3, <1>4 DEF SessionOK

\* A rollback leaves nothing behind.
LEMMA RollbackKeeps ==
    ASSUME IInv, NEW p \in Sessions, Rollback(p)
    PROVE  IInv'
  <1>1. Closed(p) /\ UNCHANGED <<scene, db, raced, requests>> /\ overlapped' = [overlapped EXCEPT ![p] = {}]
    BY DEF Rollback
  <1>2. TypeOK'
    <2>1. overlapped' \in [Sessions -> SUBSET (Calendars \cup {None})]
      BY <1>1 DEF IInv, TypeOK
    <2> QED
      BY <1>1, <2>1, ClosedTypes DEF IInv, TypeOK
  <1>3. SessionOK(p)'
    BY <1>1, ClosedSession DEF IInv, TypeOK
  <1>4. \A q \in Sessions \ {p} : SessionOK(q)'
    BY <1>1, ClosedTypes, SessionKept DEF IInv
  <1>5. UniqueIn(db)' /\ FinalIn(db)'
    BY <1>1 DEF IInv, UniqueIn, FinalIn
  <1> QED
    BY <1>1, <1>2, <1>3, <1>4, <1>5, ClosedApart DEF IInv

\* A commit shows everybody else final numbers that are different from theirs.
LEMMA CommitKeeps ==
    ASSUME IInv, NEW p \in Sessions, Commit(p)
    PROVE  IInv'
  <1> DEFINE view == View(p)
  <1>1. /\ Closed(p) /\ db' = view /\ UNCHANGED <<scene, requests>> /\ todo[p] = <<>>
        /\ raced' = raced \cup (call[p].about \cap overlapped[p])
        /\ Overlapping(p, call[p].about)
        /\ Open(p)
    BY DEF Commit
  <1>2. view \in [Ids -> AnyRow \cup {NoRow}] /\ \A i \in Ids : view[i] \in Rows[Table[i]] \cup {NoRow}
    BY ViewTypes DEF IInv
  <1>3. /\ own'[p] = NothingWritten /\ todo'[p] = <<>> /\ call'[p] = NoCall
        /\ \A q \in Sessions \ {p} : own'[q] = own[q] /\ todo'[q] = todo[q] /\ call'[q] = call[q]
    BY <1>1, ClosedTypes DEF IInv
  <1>4. UniqueIn(view)
    BY DEF IInv, SessionOK
  <1>5. FinalIn(view)
    <2>1. ASSUME NEW s \in Steps, view[s] \in StepRows PROVE IsFinal(view[s].seq)
      <3>1. s \in Ids
        BY RowTypes
      <3>2. CASE own[p][s] = Unwritten
        <4>1. view[s] = db[s]
          BY <3>1, <3>2 DEF View
        <4> QED
          BY <2>1, <4>1 DEF IInv, FinalIn
      <3>3. CASE own[p][s] # Unwritten
        <4>1. view[s] = own[p][s]
          BY <3>1, <3>3 DEF View
        <4>2. ~ \E j \in DOMAIN todo[p] : SettledAt(p, s, j)
          BY <1>1
        <4>3. ~Pending(p, s)
          BY <4>2 DEF IInv, SessionOK, Settled
        <4> QED
          BY <2>1, <4>1, <4>3 DEF Pending
      <3> QED
        BY <3>2, <3>3
    <2> QED
      BY <2>1 DEF FinalIn
  <1>6. ASSUME NEW q \in Sessions, q # p PROVE SessionOK(q)'
    <2>1. ASSUME NEW s \in Steps, NEW t \in Steps, s # t, own[q][s] = Unwritten, own[q][t] # Unwritten
          PROVE  Apart(view[s], own[q][t])
      <3>1. s \in Ids /\ t \in Ids
        BY RowTypes
      <3>2. CASE own[p][s] # Unwritten
        <4>1. view[s] = own[p][s]
          BY <3>1, <3>2 DEF View
        <4> QED
          BY <1>6, <2>1, <4>1 DEF IInv, Cross
      <3>3. CASE own[p][s] = Unwritten
        <4>1. view[s] = View(q)[s] /\ View(q)[t] = own[q][t]
          BY <2>1, <3>1, <3>3 DEF View
        <4>2. Apart(View(q)[s], View(q)[t])
          BY <2>1 DEF IInv, SessionOK, UniqueIn
        <4> QED
          BY <4>1, <4>2
      <3> QED
        BY <3>2, <3>3
    <2>2. ASSUME NEW s \in Steps, NEW t \in Steps, s # t PROVE Apart(View(q)'[s], View(q)'[t])
      <3>1. /\ View(q)'[s] = IF own[q][s] = Unwritten THEN view[s] ELSE own[q][s]
            /\ View(q)'[t] = IF own[q][t] = Unwritten THEN view[t] ELSE own[q][t]
        <4>1. s \in Ids /\ t \in Ids
          BY RowTypes
        <4>2. View(q)' = [i \in Ids |-> IF own'[q][i] = Unwritten THEN db'[i] ELSE own'[q][i]]
          BY DEF View
        <4> QED
          BY <1>1, <1>3, <1>6, <4>1, <4>2
      <3>2. CASE own[q][s] = Unwritten /\ own[q][t] = Unwritten
        BY <1>4, <2>2, <3>1, <3>2 DEF UniqueIn
      <3>3. CASE own[q][s] = Unwritten /\ own[q][t] # Unwritten
        BY <2>1, <2>2, <3>1, <3>3
      <3>4. CASE own[q][s] # Unwritten /\ own[q][t] = Unwritten
        <4>1. Apart(view[t], own[q][s])
          BY <2>1, <2>2, <3>4
        <4> QED
          BY <3>1, <3>4, <4>1 DEF Apart
      <3>5. CASE own[q][s] # Unwritten /\ own[q][t] # Unwritten
        <4>1. View(q)[s] = own[q][s] /\ View(q)[t] = own[q][t]
          BY <3>5, RowTypes DEF View
        <4>2. Apart(View(q)[s], View(q)[t])
          BY <2>2 DEF IInv, SessionOK, UniqueIn
        <4> QED
          BY <3>1, <3>5, <4>1, <4>2
      <3> QED
        BY <3>2, <3>3, <3>4, <3>5
    <2>3. UniqueIn(View(q))'
      BY <2>2 DEF UniqueIn
    <2>4. ClosedOK(q)' /\ RenumbersLast(q)' /\ Settled(q)'
      BY <1>3, <1>6 DEF IInv, SessionOK, ClosedOK, Open, RenumbersLast, Settled, Pending, SettledAt
    <2> QED
      BY <2>3, <2>4 DEF SessionOK
  <1> HIDE DEF view
  <1>7. SessionOK(p)'
    BY <1>1, <1>2, <1>4, ClosedSession DEF IInv
  <1>8. UniqueIn(db)' /\ FinalIn(db)'
    BY <1>1, <1>4, <1>5 DEF UniqueIn, FinalIn
  <1>9. TypeOK'
    <2>1. call[p].about \subseteq Calendars
      BY <1>1 DEF IInv, TypeOK, Open, Calls
    <2>2. overlapped' \in [Sessions -> SUBSET (Calendars \cup {None})]
      BY <1>1, <2>1 DEF Overlapping, IInv, TypeOK
    <2>3. raced' \subseteq Calendars
      BY <1>1, <2>1 DEF IInv, TypeOK
    <2> QED
      BY <1>1, <1>2, <2>2, <2>3, ClosedTypes DEF IInv, TypeOK
  <1> QED
    BY <1>1, <1>6, <1>7, <1>8, <1>9, ClosedApart DEF IInv

\* Orders and planned work are no steps.
LEMMA ElsewhereKeeps ==
    ASSUME IInv, NEW op, NEW i \in Ids \ Steps, NEW row \in Rows[Table[i]], Elsewhere(op, i, row)
    PROVE  IInv'
  <1>1. /\ db' = [db EXCEPT ![i] = row]
        /\ overlapped' = [p \in Sessions |-> IF Open(p) THEN overlapped[p] \cup {None} ELSE overlapped[p]]
        /\ requests' = requests + 1
        /\ UNCHANGED <<scene, own, call, todo, raced>>
    BY DEF Elsewhere
  <1>2. \A s \in Steps : db'[s] = db[s] /\ s \in Ids
    BY <1>1, RowTypes DEF IInv, TypeOK
  <1>3. TypeOK'
    <2>1. db' \in [Ids -> AnyRow \cup {NoRow}] /\ \A x \in Ids : db'[x] \in Rows[Table[x]] \cup {NoRow}
      BY <1>1, RowTypes DEF IInv, TypeOK
    <2>2. overlapped' \in [Sessions -> SUBSET (Calendars \cup {None})]
      BY <1>1 DEF IInv, TypeOK
    <2>3. requests' \in Nat
      BY <1>1 DEF IInv, TypeOK
    <2> QED
      BY <1>1, <2>1, <2>2, <2>3 DEF IInv, TypeOK
  <1>4. UniqueIn(db)' /\ FinalIn(db)'
    BY <1>2 DEF IInv, UniqueIn, FinalIn
  <1>5. Locks' /\ Cross'
    BY <1>1 DEF IInv, Locks, Cross
  <1>6. ASSUME NEW p \in Sessions PROVE SessionOK(p)'
    <2>1. \A s \in Steps : View(p)'[s] = View(p)[s]
      <3>1. View(p)' = [x \in Ids |-> IF own'[p][x] = Unwritten THEN db'[x] ELSE own'[p][x]]
        BY DEF View
      <3> QED
        BY <1>1, <1>2, <3>1 DEF View
    <2>2. UniqueIn(View(p))'
      BY <2>1 DEF IInv, SessionOK, UniqueIn
    <2>3. ClosedOK(p)' /\ RenumbersLast(p)' /\ Settled(p)'
      BY <1>1 DEF IInv, SessionOK, ClosedOK, Open, RenumbersLast, Settled, Pending, SettledAt
    <2> QED
      BY <2>2, <2>3 DEF SessionOK
  <1> QED
    BY <1>3, <1>4, <1>5, <1>6 DEF IInv

-----------------------------------------------------------------------------
(***************************************************************************)
(* A renumbering is planned.                                               *)
(***************************************************************************)
\* A function on an interval is a sequence.
LEMMA TypedFunction ==
    ASSUME NEW S, NEW n \in Nat, NEW P \in [1 .. n -> S]
    PROVE  P \in Seq(S) /\ Len(P) = n
  <1>1. P \in Seq(S)
    BY SeqDef
  <1>2. DOMAIN P = 1 .. Len(P) /\ Len(P) \in Nat
    BY <1>1, LenProperties
  <1> QED
    BY <1>1, <1>2

\* The halves of a sequence.
LEMMA TwoHalves ==
    ASSUME NEW S, NEW n \in Nat, NEW P \in Seq(S), NEW Q \in Seq(S), Len(P) = n, Len(Q) = n
    PROVE  /\ P \o Q \in Seq(S) /\ Len(P \o Q) = n + n
           /\ \A k \in 1 .. n : (P \o Q)[k] = P[k] /\ (P \o Q)[n + k] = Q[k]
  <1>1. P \o Q \in Seq(S) /\ Len(P \o Q) = n + n
    OBVIOUS
  <1>2. \A k \in 1 .. n : (P \o Q)[k] = P[k]
    OBVIOUS
  <1>3. \A k \in 1 .. n : (P \o Q)[n + k] = Q[k]
    OBVIOUS
  <1> QED
    BY <1>1, <1>2, <1>3

PlanOf(sts, route, places, n) ==
    /\ sts \in Seq(Statements) /\ Len(sts) = n + n
    /\ \A k \in 1 .. n :
          /\ sts[k] = Renumber(route[places[k]], -places[k])
          /\ sts[n + k] = Renumber(route[places[k]], places[k] * SequenceStep)

\* The statements that planRenumber() comes up with.
LEMMA PlannedStatements ==
    ASSUME NEW N \in Nat, NEW route \in [1 .. N -> Steps], NEW n \in Nat, NEW places \in [1 .. n -> 1 .. N]
    PROVE  PlanOf(Planned(route, places), route, places, n)
  <1> DEFINE P == Parked(route, places)
             Q == Numbered(route, places)
  <1>1. ASSUME NEW s \in Steps, NEW i \in Int PROVE Renumber(s, i) \in Statements
    BY DEF Renumber, Statements, Updates
  <1>2. \A k \in 1 .. n : route[places[k]] \in Steps /\ -places[k] \in Int /\ places[k] * SequenceStep \in Int
    BY DEF SequenceStep
  <1>3. /\ P = [k \in 1 .. n |-> Renumber(route[places[k]], -places[k])]
        /\ Q = [k \in 1 .. n |-> Renumber(route[places[k]], places[k] * SequenceStep)]
    BY DEF Parked, Numbered
  <1>4. P \in [1 .. n -> Statements] /\ Q \in [1 .. n -> Statements]
    <2> HIDE DEF P, Q
    <2>1. ASSUME NEW k \in 1 .. n PROVE P[k] \in Statements /\ Q[k] \in Statements
      <3>1. P[k] = Renumber(route[places[k]], -places[k]) /\ Q[k] = Renumber(route[places[k]], places[k] * SequenceStep)
        BY <1>3
      <3> QED
        BY <1>1, <1>2, <3>1
    <2>2. P = [k \in 1 .. n |-> P[k]] /\ Q = [k \in 1 .. n |-> Q[k]]
      BY <1>3
    <2> QED
      BY <2>1, <2>2
  <1> HIDE DEF P, Q
  <1>5. P \in Seq(Statements) /\ Q \in Seq(Statements) /\ Len(P) = n /\ Len(Q) = n
    BY <1>4, TypedFunction
  <1>6. /\ P \o Q \in Seq(Statements) /\ Len(P \o Q) = n + n
        /\ \A k \in 1 .. n : (P \o Q)[k] = P[k] /\ (P \o Q)[n + k] = Q[k]
    <2>1. ASSUME NEW A \in Seq(Statements), NEW B \in Seq(Statements), Len(A) = n, Len(B) = n
          PROVE  /\ A \o B \in Seq(Statements) /\ Len(A \o B) = n + n
                 /\ \A k \in 1 .. n : (A \o B)[k] = A[k] /\ (A \o B)[n + k] = B[k]
      BY <2>1, TwoHalves, SMTT(30)
    <2> QED
      BY <1>5, <2>1
  <1>7. Planned(route, places) = P \o Q
    BY DEF Planned, P, Q
  <1>8. \A k \in 1 .. n : P[k] = Renumber(route[places[k]], -places[k])
    BY <1>3
  <1>9. \A k \in 1 .. n : Q[k] = Renumber(route[places[k]], places[k] * SequenceStep)
    BY <1>3
  <1> QED
    BY <1>6, <1>7, <1>8, <1>9 DEF PlanOf

\* A renumbering parks and settles.
LEMMA PlannedSettles ==
    ASSUME NEW N \in Nat, NEW route \in [1 .. N -> Steps], NEW n \in Nat, NEW places \in [1 .. n -> 1 .. N],
           NEW s \in Steps, NEW l \in DOMAIN Planned(route, places), Parks(Planned(route, places)[l], s)
    PROVE  \E j \in DOMAIN Planned(route, places) :
              /\ Settles(Planned(route, places)[j], s)
              /\ \A k \in DOMAIN Planned(route, places) : Parks(Planned(route, places)[k], s) => k < j
  <1> DEFINE sts == Planned(route, places)
  <1> HIDE DEF sts
  <1>1. /\ DOMAIN sts = 1 .. n + n
        /\ \A k \in 1 .. n :
              /\ sts[k] = Renumber(route[places[k]], -places[k])
              /\ sts[n + k] = Renumber(route[places[k]], places[k] * SequenceStep)
    <2>1. PlanOf(sts, route, places, n)
      BY PlannedStatements DEF sts
    <2>2. DOMAIN sts = 1 .. n + n
      BY <2>1, LenProperties DEF PlanOf
    <2> QED
      BY <2>1, <2>2 DEF PlanOf
  <1>2. \A k \in 1 .. n : IsFinal(places[k] * SequenceStep)
    <2> TAKE k \in 1 .. n
    <2>1. places[k] \in 1 .. places[k] * SequenceStep
      BY DEF SequenceStep
    <2> QED
      BY <2>1 DEF IsFinal
  <1>3. ASSUME NEW k \in DOMAIN sts, Parks(sts[k], s) PROVE k \in 1 .. n
    <2> SUFFICES ASSUME k \notin 1 .. n PROVE FALSE
      OBVIOUS
    <2>1. k - n \in 1 .. n /\ k = n + (k - n)
      BY <1>1
    <2>2. sts[k] = Renumber(route[places[k - n]], places[k - n] * SequenceStep)
      BY <1>1, <2>1
    <2> QED
      BY <1>2, <1>3, <2>1, <2>2 DEF Parks, Renumber
  <1>4. l \in 1 .. n
    BY <1>3 DEF sts
  <1>5. sts[l] = Renumber(route[places[l]], -places[l]) /\ sts[n + l] = Renumber(route[places[l]], places[l] * SequenceStep)
    BY <1>1, <1>4
  <1>6. route[places[l]] = s
    BY <1>5 DEF sts, Parks, Numbers, Renumber
  <1>7. Settles(sts[n + l], s)
    BY <1>2, <1>4, <1>5, <1>6 DEF Settles, Numbers, Renumber
  <1>8. n + l \in DOMAIN sts
    BY <1>1, <1>4
  <1>9. \A k \in DOMAIN sts : Parks(sts[k], s) => k < n + l
    BY <1>3, <1>4
  <1> QED
    BY <1>7, <1>8, <1>9 DEF sts

\* The routing, its move and the places of its changes are sequences.
LEMMA RoutingTypes ==
    ASSUME NEW view, NEW pr, NEW s, NEW direction, NEW sorted \in Routings(view, pr),
           NEW places \in Changes(view, IF s = None THEN sorted ELSE Moved(sorted, s, direction))
    PROVE  \E N, n \in Nat :
              /\ (IF s = None THEN sorted ELSE Moved(sorted, s, direction)) \in [1 .. N -> Steps]
              /\ places \in [1 .. n -> 1 .. N]
  <1> DEFINE N       == Cardinality(StepsOf(view, pr))
             moved   == IF s = None THEN sorted ELSE Moved(sorted, s, direction)
             changed == {i \in DOMAIN moved : view[moved[i]].seq # i * SequenceStep}
             n       == Cardinality(changed)
  <1>1. N \in Nat
    <2>1. IsFiniteSet(StepsOf(view, pr))
      BY FS_Subset DEF StepsOf, Steps, IdsOf
    <2> QED
      BY <2>1, FS_CardinalityType
  <1>2. sorted \in [1 .. N -> Steps]
    BY DEF Routings, StepsOf
  <1> HIDE DEF N
  <1>3. Moved(sorted, s, direction) \in [1 .. N -> Steps]
    <2> DEFINE At(k) == sorted[k] = s /\ Neighbour(k, direction) \in DOMAIN sorted
               i     == CHOOSE k \in DOMAIN sorted : At(k)
    <2>1. CASE \E k \in DOMAIN sorted : At(k)
      <3>1. i \in DOMAIN sorted /\ At(i)
        BY <2>1
      <3>2. Moved(sorted, s, direction) =
              [sorted EXCEPT ![i] = sorted[Neighbour(i, direction)], ![Neighbour(i, direction)] = sorted[i]]
        BY <2>1 DEF Moved
      <3> HIDE DEF i
      <3> QED
        BY <1>2, <3>1, <3>2
    <2>2. CASE ~ \E k \in DOMAIN sorted : At(k)
      BY <1>2, <2>2 DEF Moved
    <2> QED
      BY <2>1, <2>2
  <1>4. moved \in [1 .. N -> Steps]
    BY <1>2, <1>3
  <1>5. changed \subseteq 1 .. N
    BY <1>4
  <1>6. n \in Nat
    <2> HIDE DEF changed
    <2>1. IsFiniteSet(1 .. N)
      BY <1>1, FS_Interval
    <2>2. IsFiniteSet(changed)
      BY <1>5, <2>1, FS_Subset
    <2> QED
      BY <2>2, FS_CardinalityType
  <1>7. places \in [1 .. n -> changed]
    BY DEF Changes
  <1> HIDE DEF moved, changed, n
  <1>8. places \in [1 .. n -> 1 .. N]
    BY <1>5, <1>7
  <1> QED
    BY <1>1, <1>4, <1>6, <1>8 DEF moved

\* The steps of a product in their order, moved, and the places that change: what a transaction reads.
Reads(p, sorted, route, N, places, n) ==
    /\ N \in Nat /\ n \in Nat /\ route \in [1 .. N -> Steps] /\ places \in [1 .. n -> 1 .. N]
    /\ sorted \in Routings(View(p), Statement(p).product)
    /\ route = IF Statement(p).id = None THEN sorted ELSE Moved(sorted, Statement(p).id, Statement(p).direction)
    /\ places \in Changes(View(p), route)
    /\ PlanOf(Planned(route, places), route, places, n)
    /\ todo' = [todo EXCEPT ![p] = Planned(route, places)]

\* What reading a routing leaves the transaction to do.
LEMMA ReadPlans ==
    ASSUME IInv, NEW p \in Sessions, ReadRouting(p)
    PROVE  /\ todo[p] \in Seq(Statements) /\ 1 \in DOMAIN todo[p] /\ todo[p][1] = Statement(p)
           /\ Statement(p).do = "renumber" /\ DOMAIN todo[p] = {1}
           /\ UNCHANGED <<scene, db, own, call, overlapped, raced, requests>> /\ Open(p)
           /\ \E sorted, route, N, places, n : Reads(p, sorted, route, N, places, n)
  <1> DEFINE st           == Statement(p)
             Route(sorted) == IF st.id = None THEN sorted ELSE Moved(sorted, st.id, st.direction)
  <1>1. todo[p] \in Seq(Statements) /\ todo[p] # <<>> /\ st = todo[p][1] /\ 1 \in DOMAIN todo[p] /\ st.do = "renumber"
    <2>1. todo[p] \in Seq(Statements) /\ todo[p] # <<>> /\ st.do = "renumber"
      BY DEF IInv, TypeOK, ReadRouting, Ready
    <2> QED
      BY <2>1 DEF Statement
  <1>2. Len(todo[p]) = 1 /\ DOMAIN todo[p] = {1} /\ Tail(todo[p]) = <<>>
    <2>1. Len(todo[p]) = 1
      BY <1>1 DEF IInv, SessionOK, RenumbersLast
    <2>2. DOMAIN todo[p] = {1}
      BY <1>1, <2>1
    <2>3. Tail(todo[p]) \in Seq(Statements) /\ Len(Tail(todo[p])) = 0
      BY <1>1, <2>1, HeadTailProperties
    <2>4. Tail(todo[p]) = <<>>
      BY <2>3, EmptySeq
    <2> QED
      BY <2>1, <2>2, <2>4
  <1>3. PICK sorted \in Routings(View(p), st.product) : \E places \in Changes(View(p), Route(sorted)) :
          todo' = [todo EXCEPT ![p] = Planned(Route(sorted), places) \o Tail(@)]
    BY DEF ReadRouting
  <1>4. PICK places \in Changes(View(p), Route(sorted)) :
          todo' = [todo EXCEPT ![p] = Planned(Route(sorted), places) \o Tail(@)]
    BY <1>3
  <1>5. UNCHANGED <<scene, db, own, call, overlapped, raced, requests>> /\ Open(p)
    BY DEF ReadRouting, Ready
  <1> DEFINE route == Route(sorted)
             sts   == Planned(route, places)
  <1>6. PICK N, n \in Nat : route \in [1 .. N -> Steps] /\ places \in [1 .. n -> 1 .. N]
    BY <1>4, RoutingTypes
  <1> HIDE DEF st, route
  <1>7. PlanOf(sts, route, places, n)
    BY <1>6, PlannedStatements
  <1>8. todo' = [todo EXCEPT ![p] = sts \o Tail(@)]
    BY <1>4 DEF route
  <1> HIDE DEF sts
  <1>9. todo' = [todo EXCEPT ![p] = sts]
    <2>1. sts \o <<>> = sts
      BY <1>7, ConcatEmptySeq DEF PlanOf
    <2> QED
      BY <1>2, <1>8, <2>1 DEF IInv, TypeOK
  <1>10. route = IF st.id = None THEN sorted ELSE Moved(sorted, st.id, st.direction)
    BY DEF route
  <1>11. Reads(p, sorted, route, N, places, n)
    BY <1>3, <1>4, <1>6, <1>7, <1>9, <1>10 DEF st, sts, route, Reads
  <1> QED
    BY <1>1, <1>2, <1>5, <1>11 DEF st

\* renumberOperations() puts parking and settling statements in the place of its own.
LEMMA ReadRoutingKeeps ==
    ASSUME IInv, NEW p \in Sessions, ReadRouting(p)
    PROVE  IInv'
  <1>1. todo[p] \in Seq(Statements) /\ todo[p][1].do = "renumber" /\ DOMAIN todo[p] = {1}
    BY ReadPlans
  <1>5. UNCHANGED <<scene, db, own, call, overlapped, raced, requests>> /\ Open(p)
    BY ReadPlans
  <1>6. PICK sorted, route, N, places, n : Reads(p, sorted, route, N, places, n)
    BY ReadPlans
  <1>7. /\ N \in Nat /\ n \in Nat /\ route \in [1 .. N -> Steps] /\ places \in [1 .. n -> 1 .. N]
        /\ PlanOf(Planned(route, places), route, places, n)
        /\ todo' = [todo EXCEPT ![p] = Planned(route, places)]
    BY <1>6 DEF Reads
  <1> DEFINE sts == Planned(route, places)
  <1>8. \A s \in Steps, l \in DOMAIN sts : Parks(sts[l], s) =>
            \E j \in DOMAIN sts : Settles(sts[j], s) /\ \A k \in DOMAIN sts : Parks(sts[k], s) => k < j
    BY <1>7, PlannedSettles
  <1> HIDE DEF sts
  <1>9. PlanOf(sts, route, places, n) /\ todo' = [todo EXCEPT ![p] = sts]
    BY <1>7 DEF sts
  <1>10. todo'[p] = sts /\ \A q \in Sessions \ {p} : todo'[q] = todo[q]
    BY <1>9 DEF IInv, TypeOK
  <1>11. DOMAIN sts = 1 .. n + n /\ \A k \in DOMAIN sts : sts[k].do = "update"
    <2>1. DOMAIN sts = 1 .. n + n
      BY <1>9, LenProperties DEF PlanOf
    <2>2. ASSUME NEW k \in 1 .. n + n PROVE sts[k].do = "update"
      <3>1. CASE k \in 1 .. n
        <4>1. sts[k] = Renumber(route[places[k]], -places[k])
          BY <1>9, <3>1 DEF PlanOf
        <4> QED
          BY <4>1 DEF Renumber
      <3>2. CASE k \notin 1 .. n
        <4>1. k - n \in 1 .. n /\ k = n + (k - n)
          BY <1>7, <3>2
        <4>2. sts[k] = Renumber(route[places[k - n]], places[k - n] * SequenceStep)
          BY <1>9, <4>1 DEF PlanOf
        <4> QED
          BY <4>2 DEF Renumber
      <3> QED
        BY <3>1, <3>2
    <2> QED
      BY <2>1, <2>2
  <1>12. TypeOK'
    <2>1. todo' \in [Sessions -> Seq(Statements)]
      BY <1>9 DEF IInv, TypeOK, PlanOf
    <2>2. ASSUME NEW q \in Sessions, NEW k \in DOMAIN todo'[q], todo'[q][k].do = "insert"
          PROVE  todo'[q][k].set \in Rows[Table[todo'[q][k].id]]
      <3>1. q # p
        BY <1>10, <1>11, <2>2
      <3> QED
        BY <1>10, <2>2, <3>1 DEF IInv, TypeOK
    <2> QED
      BY <1>5, <2>1, <2>2 DEF IInv, TypeOK
  <1>13. Settled(p)'
    <2> SUFFICES ASSUME NEW s \in Steps, Pending(p, s)'
                 PROVE  \E j \in DOMAIN todo'[p] : SettledAt(p, s, j)'
      BY DEF Settled
    <2>1. ~(own[p][s] \in StepRows /\ ~IsFinal(own[p][s].seq))
      <3>1. ~Settles(todo[p][1], s)
        BY <1>1 DEF Settles
      <3>2. ~ \E j \in DOMAIN todo[p] : SettledAt(p, s, j)
        BY <1>1, <3>1 DEF SettledAt
      <3> QED
        BY <3>2 DEF IInv, SessionOK, Settled, Pending
    <2>2. PICK l \in DOMAIN sts : Parks(sts[l], s)
      BY <1>5, <1>10, <2>1 DEF Pending
    <2>3. PICK j \in DOMAIN sts : Settles(sts[j], s) /\ \A k \in DOMAIN sts : Parks(sts[k], s) => k < j
      BY <1>8, <2>2
    <2> QED
      BY <1>10, <2>3 DEF SettledAt
  <1>14. SessionOK(p)'
    <2>1. ClosedOK(p)'
      BY <1>5 DEF ClosedOK, Open
    <2>2. RenumbersLast(p)'
      BY <1>10, <1>11 DEF RenumbersLast
    <2>3. UniqueIn(View(p))'
      BY <1>5 DEF IInv, SessionOK, UniqueIn, View
    <2> QED
      BY <1>13, <2>1, <2>2, <2>3 DEF SessionOK
  <1>15. ASSUME NEW q \in Sessions, q # p PROVE SessionOK(q)'
    BY <1>5, <1>10, <1>15, SessionKept DEF IInv
  <1>16. Locks' /\ Cross' /\ UniqueIn(db)' /\ FinalIn(db)'
    BY <1>5 DEF IInv, Locks, Cross, UniqueIn, FinalIn
  <1> QED
    BY <1>12, <1>14, <1>15, <1>16 DEF IInv

-----------------------------------------------------------------------------
(***************************************************************************)
(* A request begins.                                                       *)
(***************************************************************************)
Harmless(st) ==
    /\ st \in Statements
    /\ st.do = "insert" => st.set \in Rows[Table[st.id]]
    /\ \A s \in Steps : ~Parks(st, s)

\* A request whose statements write no temporary numbers keeps the invariant.
LEMMA BeginKeeps ==
    ASSUME IInv, NEW p \in Sessions, NEW op \in Ops, NEW i \in Ids, NEW about \in SUBSET Calendars,
           NEW sts \in Seq(Statements),
           \A k \in DOMAIN sts : Harmless(sts[k]) /\ (sts[k].do = "renumber" => k = Len(sts)),
           Begin(p, op, i, about, sts)
    PROVE  IInv'
  <1>1. /\ ~Open(p)
        /\ requests' = requests + 1
        /\ call' = [call EXCEPT ![p] = [op |-> op, id |-> i, about |-> about]]
        /\ todo' = [todo EXCEPT ![p] = sts]
        /\ UNCHANGED <<scene, db, own, overlapped, raced>>
    BY DEF Begin
  <1>2. own[p] = NothingWritten
    BY <1>1 DEF IInv, SessionOK, ClosedOK
  <1>3. /\ todo'[p] = sts /\ call'[p] = [op |-> op, id |-> i, about |-> about]
        /\ \A q \in Sessions \ {p} : todo'[q] = todo[q] /\ call'[q] = call[q]
    BY <1>1 DEF IInv, TypeOK
  <1>4. TypeOK'
    <2>1. call' \in [Sessions -> Calls \cup {NoCall}]
      BY <1>1 DEF IInv, TypeOK, Calls
    <2>2. todo' \in [Sessions -> Seq(Statements)]
      BY <1>1 DEF IInv, TypeOK
    <2>3. ASSUME NEW q \in Sessions, NEW k \in DOMAIN todo'[q], todo'[q][k].do = "insert"
          PROVE  todo'[q][k].set \in Rows[Table[todo'[q][k].id]]
      <3>1. CASE q = p
        BY <1>3, <2>3, <3>1 DEF Harmless
      <3>2. CASE q # p
        BY <1>3, <2>3, <3>2 DEF IInv, TypeOK
      <3> QED
        BY <3>1, <3>2
    <2>4. requests' \in Nat
      BY <1>1 DEF IInv, TypeOK
    <2> QED
      BY <1>1, <2>1, <2>2, <2>3, <2>4 DEF IInv, TypeOK
  <1>5. SessionOK(p)'
    <2>1. ClosedOK(p)'
      <3>1. [op |-> op, id |-> i, about |-> about] # NoCall
        BY DEF Ops, NoCall
      <3> QED
        BY <1>3, <3>1 DEF ClosedOK, Open
    <2>2. RenumbersLast(p)'
      BY <1>3 DEF RenumbersLast
    <2>3. UniqueIn(View(p))'
      BY <1>1 DEF IInv, SessionOK, UniqueIn, View
    <2>4. Settled(p)'
      <3>1. \A s \in Steps : own'[p][s] \notin StepRows
        BY <1>1, <1>2, RowTypes DEF NothingWritten
      <3> QED
        BY <1>3, <3>1 DEF Settled, Pending, Harmless
    <2> QED
      BY <2>1, <2>2, <2>3, <2>4 DEF SessionOK
  <1>6. ASSUME NEW q \in Sessions, q # p PROVE SessionOK(q)'
    BY <1>1, <1>3, <1>6, SessionKept DEF IInv
  <1>7. Locks' /\ Cross' /\ UniqueIn(db)' /\ FinalIn(db)'
    BY <1>1 DEF IInv, Locks, Cross, UniqueIn, FinalIn
  <1> QED
    BY <1>4, <1>5, <1>6, <1>7 DEF IInv

\* A request of one statement.
LEMMA OneKeeps ==
    ASSUME IInv, NEW p \in Sessions, NEW op \in Ops, NEW i \in Ids, NEW about \in SUBSET Calendars,
           NEW a, Harmless(a), Begin(p, op, i, about, <<a>>)
    PROVE  IInv'
  <1> DEFINE sts == <<a>>
  <1>1. sts \in Seq(Statements) /\ DOMAIN sts = {1} /\ sts[1] = a /\ Len(sts) = 1
    BY DEF Harmless
  <1>2. Begin(p, op, i, about, sts)
    OBVIOUS
  <1> HIDE DEF sts
  <1> QED
    BY <1>1, <1>2, BeginKeeps

\* A request of two statements.
LEMMA TwoKeep ==
    ASSUME IInv, NEW p \in Sessions, NEW op \in Ops, NEW i \in Ids, NEW about \in SUBSET Calendars,
           NEW a, NEW b, Harmless(a), Harmless(b), a.do # "renumber", Begin(p, op, i, about, <<a, b>>)
    PROVE  IInv'
  <1> DEFINE sts == <<a, b>>
  <1>1. sts \in Seq(Statements) /\ DOMAIN sts = {1, 2} /\ sts[1] = a /\ sts[2] = b /\ Len(sts) = 2
    BY DEF Harmless
  <1>2. Begin(p, op, i, about, sts)
    OBVIOUS
  <1> HIDE DEF sts
  <1> QED
    BY <1>1, <1>2, BeginKeeps

\* A statement that does not write a step's number is harmless.
LEMMA HarmlessStatements ==
    /\ \A i \in Ids \ Steps : \A row \in Rows[Table[i]] : Harmless(Insert(i, row))
    /\ \A s \in Steps : \A row \in StepRows : IsFinal(row.seq) => Harmless(Insert(s, row))
    /\ \A i \in Ids \ {Plant} : Harmless(Delete(i))
    /\ \A st \in Updates : st.id \notin Steps => Harmless(st)
    /\ \A s \in Steps, ce \in Centers, m \in Machines \cup {None} :
          Harmless(Update(s, [center |-> ce, machine |-> m]))
    /\ \A pr \in Products, s \in Steps \cup {None}, direction \in {"up", "down", "none"} :
          Harmless(RenumberOperations(pr, s, direction))
  <1>1. \A i \in Ids \ Steps : \A row \in Rows[Table[i]] : Harmless(Insert(i, row))
    BY RowTypes DEF Harmless, Insert, Statements, Inserts, Parks, Numbers
  <1>2. \A s \in Steps : \A row \in StepRows : IsFinal(row.seq) => Harmless(Insert(s, row))
    BY RowTypes DEF Harmless, Insert, Statements, Inserts, Parks, Numbers
  <1>3. \A i \in Ids \ {Plant} : Harmless(Delete(i))
    BY DEF Harmless, Delete, Statements, Deletes, Parks, Numbers
  <1>4. \A st \in Updates : st.id \notin Steps => Harmless(st)
    <2>1. \A st \in Updates : st.do = "update"
      BY DEF Updates
    <2> QED
      BY <2>1 DEF Harmless, Statements, Parks, Numbers
  <1>5. \A s \in Steps, ce \in Centers, m \in Machines \cup {None} :
          Harmless(Update(s, [center |-> ce, machine |-> m]))
    <2> TAKE s \in Steps, ce \in Centers, m \in Machines \cup {None}
    <2> DEFINE st == Update(s, [center |-> ce, machine |-> m])
    <2>1. st \in Updates
      BY DEF Update, Updates
    <2>2. st.do = "update" /\ st.set = [center |-> ce, machine |-> m]
      BY DEF Update
    <2>3. \A t \in Steps : ~Parks(st, t)
      BY <2>2 DEF Parks, Numbers
    <2> QED
      BY <2>1, <2>2, <2>3 DEF Harmless, Statements
  <1>6. \A pr \in Products, s \in Steps \cup {None}, direction \in {"up", "down", "none"} :
          Harmless(RenumberOperations(pr, s, direction))
    BY DEF Harmless, RenumberOperations, Statements, Renumberings, Parks, Numbers
  <1> QED
    BY <1>1, <1>2, <1>3, <1>4, <1>5, <1>6

\* nextSequence() is a final number.
LEMMA NextIsFinal ==
    ASSUME NEW last \in Int, last = 0 \/ IsFinal(last)
    PROVE  NextSequence(last) \in Int /\ IsFinal(NextSequence(last))
  <1>1. PICK k \in Nat : last = k * SequenceStep
    <2>1. CASE last = 0
      BY <2>1 DEF SequenceStep
    <2>2. CASE IsFinal(last)
      BY <2>2 DEF IsFinal
    <2> QED
      BY <2>1, <2>2
  <1>2. NextSequence(last) = (k + 1) * SequenceStep
    <2>1. last \div SequenceStep = k
      BY <1>1 DEF SequenceStep
    <2> QED
      BY <2>1 DEF NextSequence, SequenceStep
  <1>3. k + 1 \in 1 .. NextSequence(last)
    BY <1>2 DEF SequenceStep
  <1> QED
    BY <1>2, <1>3 DEF IsFinal, SequenceStep

\* No edit of a routing or product begins with a temporary number of its own.
LEMMA EditRoutingKeeps ==
    ASSUME IInv, NEW p \in Sessions, EditRouting(p)
    PROVE  IInv'
  <1>1. /\ \A s \in Steps : s \in Ids \ {Plant} /\ Rows[Table[s]] = StepRows
        /\ \A pr \in Products : pr \in Ids \ {Plant} /\ pr \notin Steps /\ Rows[Table[pr]] = [active : BOOLEAN]
    <2>1. \A pr \in Products : pr \notin Steps /\ pr # Plant
      BY DEF Products, Steps, IdsOf
    <2> QED
      BY <2>1, RowTypes, TableRows
  <1>2. \A s \in Steps : db[s] # NoRow => db[s] \in StepRows /\ db[s].product \in Products
    <2> TAKE s \in Steps
    <2>1. db[s] \in StepRows \cup {NoRow}
      BY <1>1 DEF IInv, TypeOK
    <2> QED
      BY <2>1 DEF StepRows
  <1>3. ASSUME NEW s \in Steps, NEW pr \in Products, NEW ce \in Centers, NEW m \in Machines \cup {None},
               NEW last \in {db[t].seq : t \in StepsOf(db, pr)} \cup {0}, AddOperation(p, s, pr, ce, m, last)
        PROVE  IInv'
    <2> DEFINE row == [product |-> pr, center |-> ce, machine |-> m, seq |-> NextSequence(last)]
    <2>1. last \in Int /\ (last = 0 \/ IsFinal(last))
      <3>1. \A t \in StepsOf(db, pr) : db[t].seq \in Int /\ IsFinal(db[t].seq)
        BY <1>2 DEF StepsOf, StepRows, IInv, FinalIn
      <3> QED
        BY <1>3, <3>1
    <2>2. row \in StepRows /\ IsFinal(row.seq)
      BY <2>1, NextIsFinal DEF StepRows
    <2> HIDE DEF row
    <2>3. Harmless(Insert(s, row)) /\ Harmless(RenumberOperations(pr, None, "none"))
      BY <2>2, HarmlessStatements
    <2>4. Begin(p, "addStep", s, {}, <<Insert(s, row), RenumberOperations(pr, None, "none")>>)
      BY <1>3 DEF AddOperation, row
    <2>5. "addStep" \in Ops /\ Insert(s, row).do # "renumber" /\ s \in Ids
      BY <1>1 DEF Ops, Insert
    <2> QED
      BY <2>3, <2>4, <2>5, TwoKeep
  <1>4. ASSUME NEW s \in Steps, NEW ce \in Centers, NEW m \in Machines \cup {None}, UpdateOperation(p, s, ce, m)
        PROVE  IInv'
    <2>1. Harmless(Update(s, [center |-> ce, machine |-> m])) /\ "updateStep" \in Ops /\ s \in Ids
      BY <1>1, HarmlessStatements DEF Ops
    <2> QED
      BY <1>4, <2>1, OneKeeps DEF UpdateOperation
  <1>5. ASSUME NEW s \in Steps, RemoveOperation(p, s) PROVE IInv'
    <2>1. Harmless(Delete(s)) /\ Harmless(RenumberOperations(db[s].product, None, "none"))
      BY <1>1, <1>2, <1>5, HarmlessStatements DEF RemoveOperation
    <2>2. "removeStep" \in Ops /\ Delete(s).do # "renumber" /\ s \in Ids
      BY <1>1 DEF Ops, Delete
    <2> QED
      BY <1>5, <2>1, <2>2, TwoKeep DEF RemoveOperation
  <1>6. ASSUME NEW s \in Steps, NEW direction \in {"up", "down"}, MoveOperation(p, s, direction) PROVE IInv'
    <2>1. Harmless(RenumberOperations(db[s].product, s, direction)) /\ "moveStep" \in Ops /\ s \in Ids
      BY <1>1, <1>2, <1>6, HarmlessStatements DEF MoveOperation, Ops
    <2> QED
      BY <1>6, <2>1, OneKeeps DEF MoveOperation
  <1>7. ASSUME NEW pr \in Products, CreateProduct(p, pr) PROVE IInv'
    <2>1. PICK active \in BOOLEAN : Begin(p, "createProduct", pr, {}, <<Insert(pr, [active |-> active])>>)
      BY <1>7 DEF CreateProduct
    <2>2. Harmless(Insert(pr, [active |-> active])) /\ "createProduct" \in Ops /\ pr \in Ids
      BY <1>1, HarmlessStatements DEF Ops
    <2> QED
      BY <2>1, <2>2, OneKeeps
  <1>8. ASSUME NEW pr \in Products, DeleteProduct(p, pr) PROVE IInv'
    <2>1. Harmless(Delete(pr)) /\ "deleteProduct" \in Ops /\ pr \in Ids
      BY <1>1, HarmlessStatements DEF Ops
    <2> QED
      BY <1>8, <2>1, OneKeeps DEF DeleteProduct
  <1>9. ASSUME NEW pr \in Products, NEW active \in BOOLEAN, SetProductActive(p, pr, active) PROVE IInv'
    <2>1. Update(pr, [active |-> active]) \in Updates /\ Update(pr, [active |-> active]).id = pr
      BY DEF Update, Updates
    <2>2. Harmless(Update(pr, [active |-> active])) /\ "setProductActive" \in Ops /\ pr \in Ids
      BY <1>1, <2>1, HarmlessStatements DEF Ops
    <2> QED
      BY <1>9, <2>2, OneKeeps DEF SetProductActive
  <1> QED
    BY <1>3, <1>4, <1>5, <1>6, <1>7, <1>8, <1>9 DEF EditRouting

\* Edits of work centers and machines write no numbers.
LEMMA EditMachinesKeeps ==
    ASSUME IInv, NEW p \in Sessions, EditMachines(p)
    PROVE  IInv'
  <1>1. /\ \A ce \in Centers : ce \in Ids \ {Plant} /\ ce \notin Steps /\ Rows[Table[ce]] = [active : BOOLEAN]
        /\ \A m \in Machines : m \in Ids \ {Plant} /\ m \notin Steps /\ Rows[Table[m]] = Rows.Machine
    <2>1. /\ \A ce \in Centers : ce \notin Steps /\ ce # Plant
          /\ \A m \in Machines : m \notin Steps /\ m # Plant
      BY DEF Centers, Machines, Steps, IdsOf
    <2> QED
      BY <2>1, RowTypes, TableRows
  <1>2. \A ce \in Centers, ca \in Calendars, active \in BOOLEAN :
          [center |-> ce, calendar |-> ca, active |-> active] \in Rows.Machine
    BY TableRows
  <1>3. ASSUME NEW ce \in Centers, CreateWorkCenter(p, ce) PROVE IInv'
    <2>1. PICK active \in BOOLEAN : Begin(p, "createCenter", ce, {}, <<Insert(ce, [active |-> active])>>)
      BY <1>3 DEF CreateWorkCenter
    <2>2. Harmless(Insert(ce, [active |-> active])) /\ "createCenter" \in Ops /\ ce \in Ids
      BY <1>1, HarmlessStatements DEF Ops
    <2> QED
      BY <2>1, <2>2, OneKeeps
  <1>4. ASSUME NEW ce \in Centers, DeleteWorkCenter(p, ce) PROVE IInv'
    <2>1. Harmless(Delete(ce)) /\ "deleteCenter" \in Ops /\ ce \in Ids
      BY <1>1, HarmlessStatements DEF Ops
    <2> QED
      BY <1>4, <2>1, OneKeeps DEF DeleteWorkCenter
  <1>5. ASSUME NEW ce \in Centers, NEW active \in BOOLEAN, SetWorkCenterActive(p, ce, active) PROVE IInv'
    <2>1. Update(ce, [active |-> active]) \in Updates /\ Update(ce, [active |-> active]).id = ce
      BY DEF Update, Updates
    <2>2. Harmless(Update(ce, [active |-> active])) /\ "setCenterActive" \in Ops /\ ce \in Ids
      BY <1>1, <2>1, HarmlessStatements DEF Ops
    <2> QED
      BY <1>5, <2>2, OneKeeps DEF SetWorkCenterActive
  <1>6. ASSUME NEW m \in Machines, NEW ce \in Centers, NEW ca \in Calendars, CreateMachine(p, m, ce, ca) PROVE IInv'
    <2>1. PICK active \in BOOLEAN :
            Begin(p, "createMachine", m, {ca}, <<Insert(m, [center |-> ce, calendar |-> ca, active |-> active])>>)
      BY <1>6 DEF CreateMachine
    <2>2. Harmless(Insert(m, [center |-> ce, calendar |-> ca, active |-> active])) /\ "createMachine" \in Ops /\ m \in Ids
      BY <1>1, <1>2, HarmlessStatements DEF Ops
    <2> QED
      BY <2>1, <2>2, OneKeeps
  <1>7. ASSUME NEW m \in Machines, NEW ce \in Centers, NEW ca \in Calendars, UpdateMachine(p, m, ce, ca) PROVE IInv'
    <2>1. PICK active \in BOOLEAN :
            Begin(p, "updateMachine", m, {ca}, <<Update(m, [center |-> ce, calendar |-> ca, active |-> active])>>)
      BY <1>7 DEF UpdateMachine
    <2> DEFINE st == Update(m, [center |-> ce, calendar |-> ca, active |-> active])
    <2>2. st \in Updates /\ st.id = m
      BY <1>2 DEF Update, Updates
    <2>3. Harmless(st) /\ "updateMachine" \in Ops /\ m \in Ids
      BY <1>1, <2>2, HarmlessStatements DEF Ops
    <2> QED
      BY <2>1, <2>3, OneKeeps
  <1>8. ASSUME NEW m \in Machines, NEW active \in BOOLEAN, SetMachineStatus(p, m, active) PROVE IInv'
    <2>1. Update(m, [active |-> active]) \in Updates /\ Update(m, [active |-> active]).id = m
      BY DEF Update, Updates
    <2>2. Harmless(Update(m, [active |-> active])) /\ "setMachineStatus" \in Ops /\ m \in Ids
      BY <1>1, <2>1, HarmlessStatements DEF Ops
    <2> QED
      BY <1>8, <2>2, OneKeeps DEF SetMachineStatus
  <1>9. ASSUME NEW m \in Machines, DeleteMachine(p, m) PROVE IInv'
    <2>1. Harmless(Delete(m)) /\ "deleteMachine" \in Ops /\ m \in Ids
      BY <1>1, HarmlessStatements DEF Ops
    <2> QED
      BY <1>9, <2>1, OneKeeps DEF DeleteMachine
  <1> QED
    BY <1>3, <1>4, <1>5, <1>6, <1>7, <1>8, <1>9 DEF EditMachines

\* Edits of calendars and of the plant's settings write no numbers.
LEMMA EditCalendarsKeeps ==
    ASSUME IInv, NEW p \in Sessions, EditCalendars(p)
    PROVE  IInv'
  <1>1. /\ \A ca \in Calendars : ca \in Ids \ {Plant} /\ ca \notin Steps /\ Rows[Table[ca]] = [active : BOOLEAN]
        /\ \A s \in Shifts : /\ s \in Ids \ {Plant} /\ s \notin Steps
                             /\ Rows[Table[s]] = [calendar : Calendars, hours : Hours]
    <2>1. /\ \A ca \in Calendars : ca \notin Steps /\ ca # Plant
          /\ \A s \in Shifts : s \notin Steps /\ s # Plant
      BY DEF Calendars, Shifts, Steps, IdsOf
    <2> QED
      BY <2>1, RowTypes, TableRows
  <1>2. \A s \in Shifts : db[s] # NoRow => db[s].calendar \in Calendars
    <2> TAKE s \in Shifts
    <2>1. db[s] \in [calendar : Calendars, hours : Hours] \cup {NoRow}
      <3>1. db[s] \in Rows[Table[s]] \cup {NoRow}
        BY <1>1 DEF IInv, TypeOK
      <3> QED
        BY <1>1, <3>1
    <2> QED
      BY <2>1
  <1>3. \A ca \in Calendars, s \in Shifts, h \in Hours : Harmless(Insert(s, [calendar |-> ca, hours |-> h]))
    <2> TAKE ca \in Calendars, s \in Shifts, h \in Hours
    <2> DEFINE row == [calendar |-> ca, hours |-> h]
    <2>1. s \in Ids \ Steps /\ row \in Rows[Table[s]]
      BY <1>1
    <2> HIDE DEF row
    <2>2. Harmless(Insert(s, row))
      BY <2>1, HarmlessStatements
    <2> QED
      BY <2>2 DEF row
  <1>4. \A ca \in Calendars \cup {None} : Harmless(Update(Plant, [calendar |-> ca]))
    <2> TAKE ca \in Calendars \cup {None}
    <2>1. Update(Plant, [calendar |-> ca]) \in Updates /\ Update(Plant, [calendar |-> ca]).id = Plant
      BY TableRows DEF Update, Updates
    <2> QED
      BY <2>1, RowTypes, HarmlessStatements
  <1>5. ASSUME NEW ca \in Calendars, NEW s \in Shifts, NEW h \in Hours, CreateCalendar(p, ca, s, h) PROVE IInv'
    <2>1. Harmless(Insert(ca, [active |-> TRUE])) /\ Harmless(Insert(s, [calendar |-> ca, hours |-> h]))
      <3>1. ca \in Ids \ Steps /\ [active |-> TRUE] \in Rows[Table[ca]]
        <4>1. [active |-> TRUE] \in [active : BOOLEAN]
          OBVIOUS
        <4>2. ca \in Calendars /\ Rows[Table[ca]] = [active : BOOLEAN]
          BY <1>1
        <4> QED
          BY <1>1, <4>1, <4>2
      <3> QED
        BY <1>3, <3>1, HarmlessStatements
    <2>2. "createCalendar" \in Ops /\ Insert(ca, [active |-> TRUE]).do # "renumber" /\ ca \in Ids
      BY <1>1 DEF Ops, Insert
    <2> QED
      BY <1>5, <2>1, <2>2, TwoKeep DEF CreateCalendar
  <1>6. ASSUME NEW ca \in Calendars, NEW s \in Shifts, NEW h \in Hours, AddShift(p, ca, s, h) PROVE IInv'
    <2>1. Harmless(Insert(s, [calendar |-> ca, hours |-> h])) /\ "addShift" \in Ops /\ s \in Ids
      BY <1>1, <1>3 DEF Ops
    <2> QED
      BY <1>6, <2>1, OneKeeps DEF AddShift
  <1>7. ASSUME NEW ca \in Calendars, NEW active \in BOOLEAN, SetCalendarActive(p, ca, active) PROVE IInv'
    <2>1. Update(ca, [active |-> active]) \in Updates /\ Update(ca, [active |-> active]).id = ca
      BY DEF Update, Updates
    <2>2. Harmless(Update(ca, [active |-> active])) /\ "setCalendarActive" \in Ops /\ ca \in Ids
      BY <1>1, <2>1, HarmlessStatements DEF Ops
    <2> QED
      BY <1>7, <2>2, OneKeeps DEF SetCalendarActive
  <1>8. ASSUME NEW ca \in Calendars, SetDefaultCalendar(p, ca) PROVE IInv'
    <2>1. Harmless(Update(Plant, [calendar |-> ca])) /\ "setDefaultCalendar" \in Ops /\ Plant \in Ids
      BY <1>4, RowTypes DEF Ops
    <2> QED
      BY <1>8, <2>1, OneKeeps DEF SetDefaultCalendar
  <1>9. ASSUME NEW ca \in Calendars, DeleteCalendar(p, ca) PROVE IInv'
    <2>1. Harmless(Delete(ca)) /\ "deleteCalendar" \in Ops /\ ca \in Ids
      BY <1>1, HarmlessStatements DEF Ops
    <2> QED
      BY <1>9, <2>1, OneKeeps DEF DeleteCalendar
  <1>10. ASSUME NEW ca \in Calendars \cup {None}, UpdateTenantSettings(p, ca) PROVE IInv'
    <2>1. Harmless(Update(Plant, [calendar |-> ca])) /\ "saveSettings" \in Ops /\ Plant \in Ids
      BY <1>4, RowTypes DEF Ops
    <2> QED
      BY <1>10, <2>1, OneKeeps DEF UpdateTenantSettings
  <1>11. ASSUME NEW s \in Shifts, DeleteShift(p, s) PROVE IInv'
    <2>1. Harmless(Delete(s)) /\ "deleteShift" \in Ops /\ s \in Ids /\ {db[s].calendar} \in SUBSET Calendars
      BY <1>1, <1>2, <1>11, HarmlessStatements DEF Ops, DeleteShift
    <2> QED
      BY <1>11, <2>1, OneKeeps DEF DeleteShift
  <1>12. ASSUME NEW s \in Shifts, NEW h \in Hours, UpdateShift(p, s, h) PROVE IInv'
    <2>1. Update(s, [hours |-> h]) \in Updates /\ Update(s, [hours |-> h]).id = s
      BY DEF Update, Updates
    <2>2. Harmless(Update(s, [hours |-> h])) /\ "updateShift" \in Ops /\ s \in Ids /\ {db[s].calendar} \in SUBSET Calendars
      BY <1>1, <1>2, <1>12, <2>1, HarmlessStatements DEF Ops, UpdateShift
    <2> QED
      BY <1>12, <2>2, OneKeeps DEF UpdateShift
  <1> QED
    BY <1>5, <1>6, <1>7, <1>8, <1>9, <1>10, <1>11, <1>12 DEF EditCalendars

-----------------------------------------------------------------------------
(***************************************************************************)
(* The invariant.                                                          *)
(***************************************************************************)
\* The tables at the beginning are as the invariant says.
LEMMA InitOK == Init => IInv
  <1> SUFFICES ASSUME Init PROVE IInv
    OBVIOUS
  <1>1. \A i \in Ids : db[i] \in Rows[Table[i]] \cup {NoRow}
    BY DEF Init
  <1>2. \A i \in Ids : NothingWritten[i] = Unwritten
    BY DEF NothingWritten
  <1>3. TypeOK
    <2>1. own \in [Sessions -> [Ids -> AnyRow \cup {NoRow, Unwritten}]]
      BY DEF Init, NothingWritten
    <2>2. \A p \in Sessions : todo[p] = <<>>
      BY DEF Init
    <2>3. todo \in [Sessions -> Seq(Statements)]
      BY DEF Init
    <2>4. call \in [Sessions -> Calls \cup {NoCall}] /\ overlapped \in [Sessions -> SUBSET (Calendars \cup {None})]
      BY DEF Init
    <2>5. \A p \in Sessions, i \in Ids : own[p][i] = Unwritten
      BY <1>2 DEF Init
    <2>6. scene \in Scenes /\ raced \subseteq Calendars /\ requests \in Nat /\ db \in [Ids -> AnyRow \cup {NoRow}]
      BY DEF Init
    <2> QED
      BY <1>1, <2>1, <2>2, <2>3, <2>4, <2>5, <2>6 DEF TypeOK
  <1>4. \A s \in Steps : s \in Ids /\ (db[s] \in StepRows => db[s] # NoRow) /\ (db[s] \in StepRows \cup {NoRow})
    BY <1>1, RowTypes
  <1>5. FinalIn(db)
    BY <1>4, InitialRoutingsAssumption DEF Init, FinalIn
  <1>6. UniqueIn(db)
    <2> SUFFICES ASSUME NEW s \in Steps, NEW t \in Steps, s # t, db[s] \in StepRows, db[t] \in StepRows,
                        db[s].product = db[t].product
                 PROVE  db[s].seq # db[t].seq
      BY DEF UniqueIn, Apart
    <2>1. ~Taken(db, s, db[s].seq)
      BY <1>4, InitialRoutingsAssumption DEF Init
    <2>2. t \in StepsOf(db, db[s].product) \ {s}
      BY <1>4 DEF StepsOf
    <2> QED
      BY <2>1, <2>2 DEF Taken
  <1>7. Locks /\ Cross
    <2>1. \A p \in Sessions, i \in Ids : own[p][i] = Unwritten
      BY <1>2 DEF Init
    <2> QED
      BY <1>4, <2>1, RowTypes DEF Locks, Cross, Apart
  <1>8. ASSUME NEW p \in Sessions PROVE SessionOK(p)
    <2>1. own[p] = NothingWritten /\ todo[p] = <<>> /\ call[p] = NoCall
      BY DEF Init
    <2>2. ClosedOK(p) /\ RenumbersLast(p)
      BY <2>1 DEF ClosedOK, RenumbersLast
    <2>3. Settled(p)
      BY <1>2, <1>4, <2>1, RowTypes DEF Settled, Pending
    <2>4. \A s \in Steps : View(p)[s] = db[s]
      BY <1>2, <1>4, <2>1 DEF View
    <2>5. UniqueIn(View(p))
      BY <1>6, <2>4 DEF UniqueIn
    <2> QED
      BY <2>2, <2>3, <2>5 DEF SessionOK
  <1> QED
    BY <1>3, <1>5, <1>6, <1>7, <1>8 DEF IInv

\* Nothing happens.
LEMMA StutterKeeps == ASSUME IInv, UNCHANGED vars PROVE IInv'
  <1>1. UNCHANGED <<scene, db, own, call, todo, overlapped, raced, requests>>
    BY DEF vars, local
  <1>2. TypeOK'
    BY <1>1 DEF IInv, TypeOK
  <1>3. \A p \in Sessions : SessionOK(p)'
    BY <1>1, SessionKept DEF IInv
  <1> QED
    BY <1>1, <1>2, <1>3 DEF IInv, Locks, Cross, UniqueIn, FinalIn

\* Every step keeps the invariant.
LEMMA StepOK == IInv /\ [Next]_vars => IInv'
  <1> SUFFICES ASSUME IInv, [Next]_vars PROVE IInv'
    OBVIOUS
  <1>1. ASSUME NEW p \in Sessions, EditRouting(p) PROVE IInv'
    BY <1>1, EditRoutingKeeps
  <1>2. ASSUME NEW p \in Sessions, EditMachines(p) PROVE IInv'
    BY <1>2, EditMachinesKeeps
  <1>3. ASSUME NEW p \in Sessions, EditCalendars(p) PROVE IInv'
    BY <1>3, EditCalendarsKeeps
  <1>4. ASSUME NEW p \in Sessions, ExecuteStatement(p) PROVE IInv'
    BY <1>4, ExecuteKeeps
  <1>5. ASSUME NEW p \in Sessions, ReadRouting(p) PROVE IInv'
    BY <1>5, ReadRoutingKeeps
  <1>6. ASSUME NEW p \in Sessions, Commit(p) PROVE IInv'
    BY <1>6, CommitKeeps
  <1>7. ASSUME NEW p \in Sessions, Rollback(p) PROVE IInv'
    BY <1>7, RollbackKeeps
  <1>8. ASSUME NEW o \in Orders, NEW pr \in Products, PlaceOrder(o, pr) PROVE IInv'
    <2>1. o \in Ids \ Steps /\ Table[o] = "Order"
      BY DEF Orders, Steps, IdsOf
    <2>2. [product |-> pr] \in Rows[Table[o]]
      BY <2>1 DEF Rows
    <2> QED
      BY <1>8, <2>1, <2>2, ElsewhereKeeps DEF PlaceOrder
  <1>9. ASSUME NEW e \in Entries, NEW m \in Machines, PlanWork(e, m) PROVE IInv'
    <2>1. db[m] \in Rows.Machine
      BY <1>9, TableRows DEF PlanWork, IInv, TypeOK
    <2>2. db[m].center \in Centers
      BY <2>1, TableRows
    <2>3. e \in Ids \ Steps /\ Table[e] = "ScheduleEntry"
      BY DEF Entries, Steps, IdsOf
    <2>4. [center |-> db[m].center, machine |-> m] \in Rows[Table[e]]
      BY <2>2, <2>3 DEF Rows
    <2> QED
      BY <1>9, <2>3, <2>4, ElsewhereKeeps DEF PlanWork
  <1>10. CASE UNCHANGED vars
    BY <1>10, StutterKeeps
  <1> QED
    BY <1>1, <1>2, <1>3, <1>4, <1>5, <1>6, <1>7, <1>8, <1>9, <1>10 DEF Next

\* The invariant says of committed steps what RoutingsNumbered says.
LEMMA NumberedRoutings == IInv => RoutingsNumbered
  <1> SUFFICES ASSUME IInv, NEW s \in Steps, db[s] # NoRow
               PROVE  IsFinal(db[s].seq) /\ ~Taken(db, s, db[s].seq)
    BY DEF RoutingsNumbered
  <1>1. \A t \in Steps : db[t] # NoRow => db[t] \in StepRows
    BY RowTypes DEF IInv, TypeOK
  <1>2. IsFinal(db[s].seq)
    BY <1>1 DEF IInv, FinalIn
  <1>3. ASSUME NEW t \in StepsOf(db, db[s].product) \ {s} PROVE db[t].seq # db[s].seq
    <2>1. t \in Steps /\ t # s /\ db[t] \in StepRows /\ db[t].product = db[s].product
      BY <1>1 DEF StepsOf
    <2> QED
      BY <1>1, <2>1 DEF IInv, UniqueIn, Apart
  <1> QED
    BY <1>2, <1>3 DEF Taken

\* The invariant holds in every state.
LEMMA Inductive == Spec => []IInv
  <1> QED
    BY InitOK, StepOK, PTL DEF Spec

\* Every table holds its own rows, in the database and in every open
\* transaction of the handlers, and the statements they decide on write what
\* fits their table.
THEOREM TypeCorrect == Spec => []TypeOK
  <1>1. IInv => TypeOK
    BY DEF IInv
  <1> QED
    BY <1>1, Inductive, PTL

\* Whatever routing edits, product and work center changes overlap, and
\* wherever they fail, no committed step has a temporary number of
\* renumberOperations() and no two steps of a product have the same number.
THEOREM NumbersRight == Spec => []RoutingsNumbered
  <1> QED
    BY Inductive, NumberedRoutings, PTL

-----------------------------------------------------------------------------
(***************************************************************************)
(* Calendars.  What a transaction will have written is sound for the       *)
(* calendars it is about, for as long as nobody overlaps it there (Leaves),*)
(* and it writes no row of any other calendar (Confined).                  *)
(***************************************************************************)
\* A statement that finds its row gone changes nothing.
Executed(view, st) == IF st.do = "update" /\ view[st.id] = NoRow THEN view ELSE After(view, st)

\* The rows after the statements of a transaction; about calendars it has two at most.
Outcome(view, sts) ==
    IF Len(sts) = 0 THEN view
    ELSE IF Len(sts) = 1 THEN Executed(view, sts[1])
    ELSE Executed(Executed(view, sts[1]), sts[2])

BelongsTo(about, row) == row \notin {NoRow, Unwritten} => row.calendar \in about

\* The statement is about the rows of these calendars, if about any calendar's.
Within(about, st) ==
    st.do # "renumber" =>
        /\ st.id \in Calendars => st.id \in about
        /\ st.id \in Shifts => BelongsTo(about, db[st.id]) /\ (st.do = "insert" => BelongsTo(about, st.set))
        /\ st.id = Plant => st.do = "update" /\ st.set.calendar \in about \cup {None}

Confined(p) ==
    /\ \A ca \in Calendars : own[p][ca] # Unwritten => ca \in call[p].about
    /\ \A s \in Shifts : own[p][s] # Unwritten => BelongsTo(call[p].about, db[s]) /\ BelongsTo(call[p].about, own[p][s])
    /\ own[p][Plant] # Unwritten => own[p][Plant].calendar \in call[p].about \cup {None}
    /\ \A k \in DOMAIN todo[p] : Within(call[p].about, todo[p][k])

Focused(p) ==
    /\ \A x, y \in call[p].about : x = y
    /\ call[p].about # {} => Len(todo[p]) <= 2 /\ \A k \in DOMAIN todo[p] : todo[p][k].do # "renumber"

Leaves(p) == \A ca \in call[p].about \ (overlapped[p] \cup raced) : Sound(Outcome(View(p), todo[p]), ca)

\* Nobody else knows of a shift that is being created.
Creates(p, s) ==
    \/ \E k \in DOMAIN todo[p] : todo[p][k].do = "insert" /\ todo[p][k].id = s
    \/ own[p][s] \notin {Unwritten, NoRow} /\ db[s] = NoRow
Remembers(p, s) == own[p][s] # Unwritten \/ \E k \in DOMAIN todo[p] : todo[p][k].id = s
NewShifts ==
    \A p \in Sessions, s \in Shifts : Creates(p, s) =>
        db[s] = NoRow /\ \A q \in Sessions \ {p} : ~Remembers(q, s)

PlantThere == db[Plant] # NoRow /\ \A p \in Sessions : own[p][Plant] # NoRow

PlannerOK(p) == Confined(p) /\ Focused(p) /\ (Open(p) => Leaves(p))

CalInv ==
    /\ PlantThere
    /\ NewShifts
    /\ \A p \in Sessions : PlannerOK(p)
    /\ \A ca \in Calendars \ raced : Sound(db, ca)

Proper(view) ==
    /\ view \in [Ids -> AnyRow \cup {NoRow}]
    /\ \A i \in Ids : view[i] \in Rows[Table[i]] \cup {NoRow}
    /\ view[Plant] # NoRow

\* A statement that can be executed.
Fitting(st) == st \in Statements /\ st.do # "renumber" /\ (st.do = "insert" => st.set \in Rows[Table[st.id]])

\* The rows of a calendar are the same in both views, unless it is no longer the default.
Of(row, ca) == row # NoRow /\ row.calendar = ca
Alike(v, w, ca) ==
    /\ w[ca] = v[ca]
    /\ \A s \in Shifts : w[s] = v[s] \/ (~Of(v[s], ca) /\ ~Of(w[s], ca))
    /\ w[Plant].calendar = ca => v[Plant].calendar = ca

\* The tables of calendars are different, and what refers to them.
LEMMA CalendarRows ==
    /\ \A ca \in Calendars : /\ ca \in Ids /\ ca \notin Shifts /\ ca # Plant /\ ca # None /\ ca \notin Steps
                             /\ ca \notin Products /\ ca \notin Centers /\ ca \notin Machines
                             /\ Rows[Table[ca]] = [active : BOOLEAN]
    /\ \A s \in Shifts : /\ s \in Ids /\ s # Plant /\ s \notin Steps /\ s # None
                         /\ s \notin Products /\ s \notin Centers /\ s \notin Machines
                         /\ Rows[Table[s]] = [calendar : Calendars, hours : Hours]
    /\ /\ Plant \in Ids /\ Rows[Table[Plant]] = [calendar : Calendars \cup {None}] /\ Plant # None
       /\ Plant \notin Steps /\ Plant \notin Products /\ Plant \notin Centers /\ Plant \notin Machines
    /\ \A row \in [calendar : Calendars, hours : Hours] : References(row) = {row.calendar}
    /\ \A row \in [calendar : Calendars \cup {None}] : References(row) = {row.calendar} \ {None}
  <1>1. Plant \in Ids /\ Table[Plant] = "Tenant"
    BY DEF IdsOf
  <1>2. \A ca \in Calendars : /\ ca \notin Shifts /\ ca # Plant /\ ca \notin Steps
                              /\ ca \notin Products /\ ca \notin Centers /\ ca \notin Machines
    BY <1>1 DEF Calendars, Shifts, Steps, Products, Centers, Machines, IdsOf
  <1>3. \A s \in Shifts : /\ s # Plant /\ s \notin Steps
                          /\ s \notin Products /\ s \notin Centers /\ s \notin Machines
    BY <1>1 DEF Shifts, Steps, Products, Centers, Machines, IdsOf
  <1>4. Plant \notin Steps /\ Plant \notin Products /\ Plant \notin Centers /\ Plant \notin Machines
    BY <1>1 DEF Steps, Products, Centers, Machines, IdsOf
  <1>5. \A row \in [calendar : Calendars, hours : Hours] : References(row) = {row.calendar}
    <2> TAKE row \in [calendar : Calendars, hours : Hours]
    <2>1. DOMAIN row = {"calendar", "hours"} /\ row.calendar \in Calendars
      OBVIOUS
    <2>2. row.calendar # None
      BY <2>1, TableRows, RowTypes
    <2> QED
      BY <2>1, <2>2 DEF References
  <1>6. \A row \in [calendar : Calendars \cup {None}] : References(row) = {row.calendar} \ {None}
    <2> TAKE row \in [calendar : Calendars \cup {None}]
    <2>1. DOMAIN row = {"calendar"}
      OBVIOUS
    <2> QED
      BY <2>1 DEF References
  <1>7. \A ca \in Calendars : ca \in Ids /\ ca # None /\ Rows[Table[ca]] = [active : BOOLEAN]
    BY RowTypes, TableRows
  <1>8. \A s \in Shifts : s \in Ids /\ s # None /\ Rows[Table[s]] = [calendar : Calendars, hours : Hours]
    BY RowTypes, TableRows
  <1>9. Rows[Table[Plant]] = [calendar : Calendars \cup {None}] /\ Plant # None
    BY <1>1, RowTypes, TableRows
  <1> QED
    BY <1>1, <1>2, <1>3, <1>4, <1>5, <1>6, <1>7, <1>8, <1>9

\* Which rows of calendars a delete takes along.
LEMMA CalendarReferrers ==
    ASSUME NEW view, Proper(view), NEW x \in Ids
    PROVE  /\ \A ca \in Calendars : ca \notin Cascaded(view, x)
           /\ \A s \in Shifts : s \in Cascaded(view, x) <=> Of(view[s], x)
           /\ Plant \notin Cascaded(view, x)
           /\ Plant \in Referrers(view, x) <=> view[Plant].calendar = x
           /\ \A s \in Shifts : view[s] # NoRow => view[s] \in [calendar : Calendars, hours : Hours]
           /\ view[Plant] \in [calendar : Calendars \cup {None}] /\ view[Plant] # NoRow
  <1>1. \A s \in Shifts : view[s] # NoRow => view[s] \in [calendar : Calendars, hours : Hours]
    <2> TAKE s \in Shifts
    <2>1. Rows[Table[s]] = [calendar : Calendars, hours : Hours] /\ s \in Ids
      BY CalendarRows
    <2> QED
      BY <2>1 DEF Proper
  <1>2. \A s \in Shifts : s \in Cascaded(view, x) <=> Of(view[s], x)
    <2> TAKE s \in Shifts
    <2>1. s \in Referrers(view, x) <=> Of(view[s], x)
      BY <1>1, CalendarRows DEF Referrers, Of
    <2>2. Of(view[s], x) => x \in Calendars
      BY <1>1 DEF Of
    <2>3. s \notin Steps
      BY CalendarRows
    <2> QED
      BY <2>1, <2>2, <2>3 DEF Cascaded
  <1>3. view[Plant] \in [calendar : Calendars \cup {None}] /\ view[Plant] # NoRow
    BY CalendarRows DEF Proper
  <1>4. Plant \in Referrers(view, x) <=> view[Plant].calendar = x
    <2>1. x # None
      BY RowTypes
    <2> QED
      BY <1>3, <2>1, CalendarRows DEF Referrers
  <1>5. Plant \notin Cascaded(view, x) /\ \A ca \in Calendars : ca \notin Cascaded(view, x)
    BY CalendarRows DEF Cascaded
  <1> QED
    BY <1>1, <1>2, <1>3, <1>4, <1>5

\* What a delete makes of the rows of calendars.
LEMMA DeletedRows ==
    ASSUME NEW view, Proper(view), NEW x \in Ids, x # Plant
    PROVE  /\ \A ca \in Calendars : Deleted(view, x)[ca] = IF ca = x THEN NoRow ELSE view[ca]
           /\ \A s \in Shifts : Deleted(view, x)[s] = IF s = x \/ Of(view[s], x) THEN NoRow ELSE view[s]
           /\ Deleted(view, x)[Plant] \in [calendar : Calendars \cup {None}]
           /\ Deleted(view, x)[Plant].calendar = IF view[Plant].calendar = x THEN None ELSE view[Plant].calendar
           /\ view[Plant].calendar # x => Deleted(view, x)[Plant] = view[Plant]
  <1>1. \A ca \in Calendars : Deleted(view, x)[ca] = IF ca = x THEN NoRow ELSE view[ca]
    BY CalendarRows, CalendarReferrers DEF Deleted
  <1>2. \A s \in Shifts : Deleted(view, x)[s] = IF s = x \/ Of(view[s], x) THEN NoRow ELSE view[s]
    <2> TAKE s \in Shifts
    <2>1. Deleted(view, x)[s] = IF s = x \/ s \in Cascaded(view, x) THEN NoRow ELSE view[s]
      BY CalendarRows DEF Deleted
    <2> QED
      BY <2>1, CalendarReferrers
  <1>3. Deleted(view, x)[Plant] = IF view[Plant].calendar = x THEN [view[Plant] EXCEPT !.calendar = None] ELSE view[Plant]
    BY CalendarRows, CalendarReferrers DEF Deleted
  <1>4. view[Plant] \in [calendar : Calendars \cup {None}]
    BY CalendarReferrers
  <1> QED
    BY <1>1, <1>2, <1>3, <1>4

\* The ids and the kinds of statements that can be executed.
LEMMA FittingKinds ==
    ASSUME NEW st, Fitting(st)
    PROVE  /\ st.id \in Ids /\ st \in Statements
           /\ \/ st.do = "insert" /\ st.set \in Rows[Table[st.id]]
              \/ st.do = "update" /\ st \in Updates
              \/ st.do = "delete" /\ st.id # Plant
  <1>1. st \in Statements /\ st.do # "renumber"
    BY DEF Fitting
  <1>2. st \in Updates => st.id \in Ids
    BY RowTypes, TableRows DEF Updates
  <1>3. st \in Inserts => st.id \in Ids
    BY DEF Inserts
  <1>4. st \in Deletes => st.id \in Ids /\ st.id # Plant
    BY DEF Deletes
  <1> QED
    BY <1>1, <1>2, <1>3, <1>4, StatementKinds DEF Fitting

\* What updates of the rows of calendars write.
LEMMA CalendarUpdates ==
    ASSUME NEW st \in Updates
    PROVE  /\ st.id \in Shifts => \E h \in Hours : st.set = [hours |-> h]
           /\ st.id = Plant => st.set \in [calendar : Calendars \cup {None}]
  <1>1. CASE st.id \in Shifts
    <2>1. /\ st.id \notin Steps /\ st.id # Plant
          /\ st.id \notin Products \cup Centers \cup Calendars \cup Machines
      BY <1>1, CalendarRows
    <2>2. st \in [do : {"update"}, id : Shifts, set : [hours : Hours]]
      BY <2>1 DEF Updates
    <2>3. PICK h \in Hours : st.set = [hours |-> h]
      BY <2>2
    <2> QED
      BY <1>1, <2>1, <2>3
  <1>2. CASE st.id = Plant
    <2>1. Plant \notin Steps /\ Plant \notin Shifts /\ Plant \notin Products \cup Centers \cup Calendars \cup Machines
      BY CalendarRows
    <2>2. st \in [do : {"update"}, id : {Plant}, set : Rows.Tenant]
      BY <1>2, <2>1 DEF Updates
    <2> QED
      BY <2>1, <1>2, <2>2, TableRows
  <1> QED
    BY <1>1, <1>2

\* A statement that is executed leaves the tables as they ought to be.
LEMMA ExecutedProper ==
    ASSUME NEW view, Proper(view), NEW st, Fitting(st)
    PROVE  /\ Proper(Executed(view, st))
           /\ st.do # "delete" => \A i \in Ids \ {st.id} : Executed(view, st)[i] = view[i]
  <1> DEFINE w == Executed(view, st)
  <1>1. CASE st.do = "update" /\ view[st.id] = NoRow
    BY <1>1 DEF Executed
  <1>2. CASE ~(st.do = "update" /\ view[st.id] = NoRow)
    <2>1. w = After(view, st)
      BY <1>2 DEF Executed
    <2>2. /\ w \in [Ids -> AnyRow \cup {NoRow}]
          /\ \A i \in Ids : w[i] \in Rows[Table[i]] \cup {NoRow}
          /\ \A i \in Ids : i # st.id /\ st.do # "delete" => w[i] = view[i]
      <3> HIDE DEF w
      <3> QED
        BY <1>2, <2>1, AfterTypes DEF Proper, Fitting
    <2>3. w[Plant] # NoRow
      <3>1. CASE st.do = "insert"
        <4>1. st.id = Plant => w[Plant] = st.set /\ st.set # NoRow
          BY <2>1, <3>1, RowTypes DEF After, Fitting, Proper
        <4> QED
          BY <2>2, <3>1, <4>1, RowTypes DEF Proper
      <3>2. CASE st.do = "update"
        <4>1. st.id = Plant => w[Plant] \in Rows.Tenant
          <5> SUFFICES ASSUME st.id = Plant PROVE w[Plant] \in Rows.Tenant
            OBVIOUS
          <5>1. w[Plant] = Patched(view[Plant], st.set)
            BY <2>1, <3>2, RowTypes DEF After, Proper
          <5>2. st \in Updates /\ view[Plant] \in Rows[Table[st.id]]
            BY <3>2, FittingKinds, RowTypes DEF Proper
          <5> QED
            BY <5>1, <5>2, UpdateTypes, RowTypes
        <4>2. NoRow \notin Rows.Tenant
          BY RowTypes
        <4> QED
          BY <2>2, <3>2, <4>1, <4>2, RowTypes DEF Proper
      <3>3. CASE st.do = "delete"
        <4>1. w = Deleted(view, st.id) /\ st.id # Plant /\ st.id \in Ids
          BY <2>1, <3>3, FittingKinds DEF After
        <4>2. NoRow \notin [calendar : Calendars \cup {None}]
          BY RowTypes, CalendarRows
        <4> QED
          BY <4>1, <4>2, DeletedRows
      <3> QED
        BY <3>1, <3>2, <3>3, FittingKinds
    <2> HIDE DEF w
    <2> QED
      BY <2>2, <2>3 DEF Proper, w
  <1> QED
    BY <1>1, <1>2

\* Views that are alike agree on whether the calendar is sound.
LEMMA AlikeSound ==
    ASSUME NEW v, NEW w, NEW ca \in Calendars, Alike(v, w, ca), Sound(v, ca)
    PROVE  Sound(w, ca)
  <1>1. \A s \in Shifts : s \in ShiftsOf(w, ca) <=> s \in ShiftsOf(v, ca)
    BY DEF Alike, ShiftsOf, Of
  <1>2. ShiftsOf(w, ca) = ShiftsOf(v, ca)
    BY <1>1 DEF ShiftsOf
  <1>3. \A s \in ShiftsOf(v, ca) : w[s] = v[s]
    BY DEF Alike, ShiftsOf, Of
  <1>4. w[ca] = v[ca]
    BY DEF Alike
  <1>5. CASE v[ca] = NoRow
    BY <1>2, <1>4, <1>5 DEF Sound
  <1>6. CASE v[ca] # NoRow
    <2>1. Usable(v, ca)
      BY <1>6 DEF Sound
    <2>2. ShiftsOf(w, ca) # {}
      BY <1>2, <2>1 DEF Usable
    <2>3. \A s \in ShiftsOf(w, ca) : Fits(w, ShiftsOf(w, ca) \ {s}, w[s].hours)
      BY <1>2, <1>3, <2>1 DEF Usable, Fits
    <2>4. w[Plant].calendar = ca => w[ca].active
      BY <1>4, <2>1 DEF Usable, Alike
    <2> QED
      BY <1>4, <1>6, <2>2, <2>3, <2>4 DEF Sound, Usable
  <1> QED
    BY <1>5, <1>6

\* A statement keeps views alike.
LEMMA AlikeExecuted ==
    ASSUME NEW v, NEW w, Proper(v), Proper(w), NEW ca \in Calendars, Alike(v, w, ca), NEW st, Fitting(st)
    PROVE  Alike(Executed(v, st), Executed(w, st), ca)
  <1> DEFINE a == Executed(v, st)
             b == Executed(w, st)
  <1>1. Proper(a) /\ Proper(b)
    BY ExecutedProper
  <1>2. st.do # "delete" => \A i \in Ids \ {st.id} : a[i] = v[i] /\ b[i] = w[i]
    BY ExecutedProper
  <1>3. CASE st.do = "insert"
    <2>1. st.id \in Ids /\ a[st.id] = st.set /\ b[st.id] = st.set
      BY <1>3, FittingKinds DEF Executed, After, Proper
    <2> HIDE DEF a, b
    <2> QED
      BY <1>2, <1>3, <2>1, CalendarRows DEF Alike, a, b
  <1>4. CASE st.do = "update"
    <2>1. st \in Updates /\ st.id \in Ids
      BY <1>4, FittingKinds
    <2>2. /\ a[st.id] = IF v[st.id] = NoRow THEN NoRow ELSE Patched(v[st.id], st.set)
          /\ b[st.id] = IF w[st.id] = NoRow THEN NoRow ELSE Patched(w[st.id], st.set)
      BY <1>4, <2>1 DEF Executed, After, Proper
    <2> HIDE DEF a, b
    <2>3. a[ca] = b[ca]
      BY <1>2, <1>4, <2>2, CalendarRows DEF Alike
    <2>4. ASSUME NEW s \in Shifts PROVE b[s] = a[s] \/ (~Of(a[s], ca) /\ ~Of(b[s], ca))
      <3>1. w[s] = v[s] \/ (~Of(v[s], ca) /\ ~Of(w[s], ca))
        BY DEF Alike
      <3>2. CASE st.id # s
        BY <1>2, <1>4, <3>1, <3>2, CalendarRows
      <3>3. CASE st.id = s
        <4>1. PICK h \in Hours : st.set = [hours |-> h]
          BY <2>1, <3>3, CalendarUpdates
        <4>2. ASSUME NEW row \in [calendar : Calendars, hours : Hours]
              PROVE  Patched(row, [hours |-> h]).calendar = row.calendar
          BY DEF Patched
        <4>3. /\ v[s] # NoRow => v[s] \in [calendar : Calendars, hours : Hours]
              /\ w[s] # NoRow => w[s] \in [calendar : Calendars, hours : Hours]
          <5>1. Rows[Table[s]] = [calendar : Calendars, hours : Hours] /\ s \in Ids
            BY CalendarRows
          <5> QED
            BY <5>1 DEF Proper
        <4>4. /\ v[s] # NoRow => Patched(v[s], st.set).calendar = v[s].calendar
              /\ w[s] # NoRow => Patched(w[s], st.set).calendar = w[s].calendar
          BY <4>1, <4>2, <4>3
        <4> QED
          BY <2>2, <3>1, <3>3, <4>4 DEF Of
      <3> QED
        BY <3>2, <3>3
    <2>5. b[Plant].calendar = ca => a[Plant].calendar = ca
      <3>1. CASE st.id # Plant
        BY <1>2, <1>4, <3>1, CalendarRows DEF Alike
      <3>2. CASE st.id = Plant
        <4>1. st.set \in [calendar : Calendars \cup {None}]
          BY <2>1, <3>2, CalendarUpdates
        <4>2. v[Plant] \in [calendar : Calendars \cup {None}] /\ w[Plant] \in [calendar : Calendars \cup {None}]
          BY CalendarRows DEF Proper
        <4>3. \A row \in [calendar : Calendars \cup {None}] : Patched(row, st.set).calendar = st.set.calendar
          BY <4>1 DEF Patched
        <4>4. v[Plant] # NoRow /\ w[Plant] # NoRow
          BY DEF Proper
        <4> QED
          BY <2>2, <3>2, <4>2, <4>3, <4>4
      <3> QED
        BY <3>1, <3>2
    <2> QED
      BY <2>3, <2>4, <2>5 DEF Alike, a, b
  <1>5. CASE st.do = "delete"
    <2> DEFINE x == st.id
    <2>1. x \in Ids /\ x # Plant /\ a = Deleted(v, x) /\ b = Deleted(w, x)
      BY <1>5, FittingKinds DEF Executed, After
    <2> HIDE DEF a, b, x
    <2>2. a[ca] = b[ca]
      BY <2>1, DeletedRows DEF Alike
    <2>3. ASSUME NEW s \in Shifts PROVE b[s] = a[s] \/ (~Of(a[s], ca) /\ ~Of(b[s], ca))
      <3>1. w[s] = v[s] \/ (~Of(v[s], ca) /\ ~Of(w[s], ca))
        BY DEF Alike
      <3>2. /\ a[s] = IF s = x \/ Of(v[s], x) THEN NoRow ELSE v[s]
            /\ b[s] = IF s = x \/ Of(w[s], x) THEN NoRow ELSE w[s]
        BY <2>1, DeletedRows
      <3> QED
        BY <3>1, <3>2 DEF Of
    <2>4. b[Plant].calendar = ca => a[Plant].calendar = ca
      <3>1. /\ a[Plant].calendar = IF v[Plant].calendar = x THEN None ELSE v[Plant].calendar
            /\ b[Plant].calendar = IF w[Plant].calendar = x THEN None ELSE w[Plant].calendar
        BY <2>1, DeletedRows
      <3>2. ca # None
        BY CalendarRows
      <3> QED
        BY <3>1, <3>2 DEF Alike
    <2> QED
      BY <2>2, <2>3, <2>4 DEF Alike, a, b
  <1> QED
    BY <1>3, <1>4, <1>5, FittingKinds

\* So do all the statements of a transaction.
LEMMA AlikeOutcome ==
    ASSUME NEW v, NEW w, Proper(v), Proper(w), NEW ca \in Calendars, Alike(v, w, ca),
           NEW sts \in Seq(Statements), \A k \in DOMAIN sts : Fitting(sts[k])
    PROVE  Alike(Outcome(v, sts), Outcome(w, sts), ca)
  <1>1. Len(sts) \in Nat /\ DOMAIN sts = 1 .. Len(sts)
    OBVIOUS
  <1>2. CASE Len(sts) = 0
    BY <1>2 DEF Outcome
  <1>3. ASSUME Len(sts) # 0
        PROVE  LET a == Executed(v, sts[1])
                   b == Executed(w, sts[1])
               IN  Alike(a, b, ca) /\ Proper(a) /\ Proper(b)
    <2>1. Fitting(sts[1])
      BY <1>1, <1>3
    <2> QED
      BY <2>1, AlikeExecuted, ExecutedProper
  <1>4. CASE Len(sts) = 1
    BY <1>3, <1>4 DEF Outcome
  <1>5. CASE Len(sts) > 1
    <2>1. Fitting(sts[2])
      BY <1>1, <1>5
    <2> DEFINE a == Executed(v, sts[1])
               b == Executed(w, sts[1])
    <2>2. Alike(a, b, ca) /\ Proper(a) /\ Proper(b)
      BY <1>3, <1>5
    <2>3. Outcome(v, sts) = Executed(a, sts[2]) /\ Outcome(w, sts) = Executed(b, sts[2])
      BY <1>1, <1>5 DEF Outcome
    <2> HIDE DEF a, b
    <2> QED
      BY <2>1, <2>2, <2>3, AlikeExecuted
  <1> QED
    BY <1>1, <1>2, <1>4, <1>5

\* What a transaction sees of tables that are as they ought to be.
LEMMA ProperViews ==
    ASSUME TypeOK, PlantThere
    PROVE  Proper(db) /\ \A p \in Sessions : Proper(View(p))
  <1>1. Proper(db)
    BY DEF TypeOK, PlantThere, Proper
  <1>2. ASSUME NEW p \in Sessions PROVE Proper(View(p))
    <2>1. View(p)[Plant] = IF own[p][Plant] = Unwritten THEN db[Plant] ELSE own[p][Plant]
      BY RowTypes DEF View
    <2> QED
      BY <2>1, ViewTypes DEF Proper, PlantThere
  <1> QED
    BY <1>1, <1>2

\* A change of committed rows shows in a transaction as it is.
LEMMA AlikeViews ==
    ASSUME TypeOK, NEW q \in Sessions, NEW ca \in Calendars, own'[q] = own[q], Alike(db, db', ca)
    PROVE  Alike(View(q), View(q)', ca)
  <1>1. /\ \A i \in Ids : View(q)[i] = IF own[q][i] = Unwritten THEN db[i] ELSE own[q][i]
        /\ \A i \in Ids : View(q)'[i] = IF own[q][i] = Unwritten THEN db'[i] ELSE own[q][i]
    BY DEF View
  <1> QED
    BY <1>1, CalendarRows DEF Alike

\* What the rest of the statements is.
LEMMA FittingRest ==
    ASSUME TypeOK, NEW p \in Sessions, Focused(p), call[p].about # {}
    PROVE  todo[p] \in Seq(Statements) /\ \A k \in DOMAIN todo[p] : Fitting(todo[p][k])
  BY DEF TypeOK, Focused, Fitting

\* A session that neither writes nor ends keeps what it knows of its calendars while the others
\* leave them alone.
LEMMA LeavesKept ==
    ASSUME TypeOK, PlantThere, TypeOK', PlantThere', NEW q \in Sessions, PlannerOK(q), Open(q),
           UNCHANGED <<own[q], call[q], todo[q]>>, overlapped[q] \subseteq overlapped'[q], raced \subseteq raced',
           \A ca \in call[q].about \ overlapped'[q] : Alike(db, db', ca)
    PROVE  Leaves(q)'
  <1> SUFFICES ASSUME NEW ca \in call[q].about, ca \notin overlapped'[q], ca \notin raced'
               PROVE  Sound(Outcome(View(q)', todo[q]), ca)
    BY DEF Leaves
  <1> DEFINE sts == todo[q]
             v   == View(q)
             w   == View(q)'
  <1>1. ca \in Calendars
    BY DEF TypeOK, Open, Calls
  <1>2. sts \in Seq(Statements) /\ \A k \in DOMAIN sts : Fitting(sts[k])
    BY FittingRest DEF PlannerOK
  <1>3. Alike(v, w, ca)
    BY <1>1, AlikeViews
  <1>4. Proper(v)
    BY ProperViews
  <1>5. Proper(w)
    <2>1. \A i \in Ids : w[i] = IF own'[q][i] = Unwritten THEN db'[i] ELSE own'[q][i]
      BY DEF View
    <2>2. ASSUME NEW i \in Ids PROVE w[i] \in Rows[Table[i]] \cup {NoRow}
      <3>1. db'[i] \in Rows[Table[i]] \cup {NoRow}
        BY DEF TypeOK
      <3>2. own'[q][i] \in Rows[Table[i]] \cup {NoRow, Unwritten}
        BY DEF TypeOK
      <3> HIDE DEF w
      <3> QED
        BY <2>1, <3>1, <3>2
    <2>3. w = [i \in Ids |-> w[i]]
      BY DEF View
    <2>4. w[Plant] # NoRow
      BY <2>1, RowTypes DEF PlantThere
    <2> HIDE DEF w
    <2>5. w \in [Ids -> AnyRow \cup {NoRow}]
      BY <2>2, <2>3, RowTypes
    <2> QED
      BY <2>2, <2>4, <2>5 DEF Proper
  <1>6. Sound(Outcome(v, sts), ca)
    BY DEF PlannerOK, Leaves
  <1> HIDE DEF v, w, sts
  <1>7. Alike(Outcome(v, sts), Outcome(w, sts), ca)
    BY <1>1, <1>2, <1>3, <1>4, <1>5, AlikeOutcome
  <1>8. Sound(Outcome(w, sts), ca)
    BY <1>1, <1>6, <1>7, AlikeSound
  <1> QED
    BY <1>8 DEF w, sts

\* Rows of the database are rows.
LEMMA NeverUnwritten ==
    ASSUME TypeOK
    PROVE  \A s \in Shifts : db[s] # Unwritten
  <1> TAKE s \in Shifts
  <1>1. s \in Ids
    BY CalendarRows
  <1>2. db[s] \in Rows[Table[s]] \cup {NoRow} /\ Unwritten \notin Rows[Table[s]] /\ Unwritten # NoRow
    BY <1>1, RowTypes, PlantDataAssumption DEF TypeOK
  <1> QED
    BY <1>2

\* Nobody disturbs what a session writes of calendars.
LEMMA ConfinedKept ==
    ASSUME NEW q \in Sessions, Confined(q), Focused(q), UNCHANGED <<own[q], call[q], todo[q]>>,
           \A s \in Shifts : Remembers(q, s) /\ BelongsTo(call[q].about, db[s]) => BelongsTo(call[q].about, db'[s])
    PROVE  Confined(q)' /\ Focused(q)'
  <1>1. Focused(q)'
    BY DEF Focused
  <1>2. ASSUME NEW s \in Shifts, own'[q][s] # Unwritten
        PROVE  BelongsTo(call[q].about, db'[s]) /\ BelongsTo(call[q].about, own[q][s])
    BY <1>2 DEF Confined, Remembers
  <1>3. ASSUME NEW k \in DOMAIN todo[q] PROVE Within(call[q].about, todo[q][k])'
    <2>1. Within(call[q].about, todo[q][k])
      BY DEF Confined
    <2>2. todo[q][k].id \in Shifts => Remembers(q, todo[q][k].id)
      BY DEF Remembers
    <2>3. todo'[q] = todo[q] /\ call'[q] = call[q]
      OBVIOUS
    <2> QED
      BY <2>1, <2>2, <2>3 DEF Within
  <1> QED
    BY <1>1, <1>2, <1>3 DEF Confined

\* What a statement writes of calendars, and with which result.
LEMMA WrittenRows ==
    ASSUME IInv, CalInv, NEW p \in Sessions, ExecuteStatement(p)
    PROVE  LET st    == Statement(p)
               after == After(View(p), st)
           IN  /\ st = todo[p][1] /\ 1 \in DOMAIN todo[p] /\ Fitting(st)
               /\ after = Executed(View(p), st)
               /\ \A ca \in Calendars : ca \in Written(p) => ca = st.id
               /\ \A s \in Shifts : s \in Written(p) => s = st.id \/ Of(View(p)[s], st.id)
               /\ \A s \in Shifts : s \in Written(p) /\ after[s] # NoRow =>
                     /\ s = st.id
                     /\ \/ st.do = "insert" /\ after[s] = st.set
                        \/ st.do = "update" /\ View(p)[s] # NoRow /\ after[s].calendar = View(p)[s].calendar
               /\ Plant \in Written(p) =>
                     after[Plant].calendar = None \/ (st.id = Plant /\ after[Plant].calendar = st.set.calendar)
               /\ after[Plant] # NoRow
  <1> DEFINE st    == Statement(p)
             view  == View(p)
             after == After(view, st)
  <1>1. /\ st = todo[p][1] /\ 1 \in DOMAIN todo[p]
        /\ Fitting(st)
        /\ st.do = "update" => view[st.id] # NoRow
    BY StatementTypes DEF IInv, Fitting
  <1>2. after = Executed(view, st)
    BY <1>1 DEF Executed
  <1>3. Proper(view)
    BY ProperViews DEF IInv, CalInv
  <1>4. Written(p) = IF st.do = "delete"
                     THEN {st.id} \cup Cascaded(view, st.id) \cup (Referrers(view, st.id) \cap {Plant})
                     ELSE {st.id}
    BY DEF Written
  <1> HIDE DEF st, view, after
  <1>5. Proper(after)
    BY <1>1, <1>2, <1>3, ExecutedProper
  <1>6. st.id \in Ids
    BY <1>1, FittingKinds
  <1>7. \A ca \in Calendars : ca \in Written(p) => ca = st.id
    BY <1>3, <1>4, <1>6, CalendarReferrers, CalendarRows
  <1>8. \A s \in Shifts : s \in Written(p) => s = st.id \/ Of(view[s], st.id)
    BY <1>3, <1>4, <1>6, CalendarReferrers, CalendarRows
  <1>9. CASE st.do = "delete"
    <2>1. st.id # Plant /\ after = Deleted(view, st.id)
      BY <1>1, <1>9, FittingKinds DEF After, after
    <2>2. \A s \in Shifts : s \in Written(p) => after[s] = NoRow
      BY <1>3, <1>6, <1>8, <2>1, DeletedRows
    <2>3. Plant \in Written(p) => after[Plant].calendar = None
      BY <1>3, <1>4, <1>6, <1>9, <2>1, DeletedRows, CalendarReferrers
    <2> QED
      BY <1>1, <1>2, <1>5, <1>7, <1>8, <2>2, <2>3 DEF Proper, st, view, after
  <1>10. CASE st.do = "insert"
    <2>1. after[st.id] = st.set /\ Written(p) = {st.id}
      BY <1>3, <1>4, <1>6, <1>10 DEF After, Proper, after
    <2> QED
      BY <1>1, <1>2, <1>5, <1>7, <1>8, <1>10, <2>1 DEF Proper, st, view, after
  <1>11. CASE st.do = "update"
    <2>1. after[st.id] = Patched(view[st.id], st.set) /\ Written(p) = {st.id} /\ st \in Updates
      BY <1>1, <1>3, <1>4, <1>6, <1>11, FittingKinds DEF After, Proper, after
    <2>2. ASSUME st.id \in Shifts PROVE after[st.id].calendar = view[st.id].calendar
      <3>1. PICK h \in Hours : st.set = [hours |-> h]
        BY <2>1, <2>2, CalendarUpdates
      <3>2. view[st.id] \in [calendar : Calendars, hours : Hours]
        BY <1>1, <1>3, <1>6, <1>11, <2>2, CalendarReferrers
      <3> QED
        BY <2>1, <3>1, <3>2 DEF Patched
    <2>3. ASSUME st.id = Plant PROVE after[Plant].calendar = st.set.calendar
      <3>1. st.set \in [calendar : Calendars \cup {None}] /\ view[Plant] \in [calendar : Calendars \cup {None}]
        BY <1>3, <1>6, <2>1, <2>3, CalendarUpdates, CalendarReferrers
      <3> QED
        BY <2>1, <2>3, <3>1 DEF Patched
    <2> QED
      BY <1>1, <1>2, <1>5, <1>7, <1>8, <1>11, <2>1, <2>2, <2>3 DEF Proper, st, view, after
  <1> QED
    BY <1>1, <1>9, <1>10, <1>11, FittingKinds

\* The statements that are left.
LEMMA RestOfStatements ==
    ASSUME NEW sts \in Seq(Statements), sts # <<>>
    PROVE  /\ Len(Tail(sts)) = Len(sts) - 1 /\ Len(sts) \in Nat \ {0}
           /\ \A k \in DOMAIN Tail(sts) : k + 1 \in DOMAIN sts /\ Tail(sts)[k] = sts[k + 1]
  OBVIOUS

\* A statement of a transaction.
LEMMA ExecuteConfined ==
    ASSUME IInv, CalInv, NEW p \in Sessions, ExecuteStatement(p)
    PROVE  /\ Confined(p)' /\ Focused(p)' /\ Leaves(p)' /\ PlantThere' /\ NewShifts'
           /\ \A q \in Sessions \ {p} : UNCHANGED <<own[q], call[q], todo[q]>>
  <1> DEFINE st    == Statement(p)
             after == After(View(p), st)
             about == call[p].about
  <1>1. /\ UNCHANGED <<db, call, overlapped, raced>> /\ todo' = [todo EXCEPT ![p] = Tail(@)]
        /\ todo[p] \in Seq(Statements) /\ todo[p] # <<>>
    BY DEF ExecuteStatement, Ready, IInv, TypeOK
  <1>2. /\ own' = [own EXCEPT ![p] = [i \in Ids |-> IF i \in Written(p) THEN after[i] ELSE own[p][i]]]
        /\ View(p)' = after
    BY ViewAfter DEF IInv
  <1>3. /\ st = todo[p][1] /\ 1 \in DOMAIN todo[p] /\ Fitting(st)
        /\ after = Executed(View(p), st)
        /\ \A ca \in Calendars : ca \in Written(p) => ca = st.id
        /\ \A s \in Shifts : s \in Written(p) => s = st.id \/ Of(View(p)[s], st.id)
        /\ \A s \in Shifts : s \in Written(p) /\ after[s] # NoRow =>
              /\ s = st.id
              /\ \/ st.do = "insert" /\ after[s] = st.set
                 \/ st.do = "update" /\ View(p)[s] # NoRow /\ after[s].calendar = View(p)[s].calendar
        /\ Plant \in Written(p) =>
              after[Plant].calendar = None \/ (st.id = Plant /\ after[Plant].calendar = st.set.calendar)
        /\ after[Plant] # NoRow
    BY WrittenRows
  <1> HIDE DEF st, after
  <1>4. /\ own'[p] = [i \in Ids |-> IF i \in Written(p) THEN after[i] ELSE own[p][i]]
        /\ todo'[p] = Tail(todo[p])
        /\ \A q \in Sessions \ {p} : own'[q] = own[q] /\ todo'[q] = todo[q]
    BY <1>1, <1>2 DEF IInv, TypeOK
  <1>5. \A k \in DOMAIN todo'[p] : k + 1 \in DOMAIN todo[p] /\ todo'[p][k] = todo[p][k + 1]
    <2> DEFINE sts == todo[p]
    <2>1. sts \in Seq(Statements) /\ sts # <<>> /\ todo'[p] = Tail(sts)
      BY <1>1, <1>4
    <2> HIDE DEF sts
    <2>2. \A k \in DOMAIN Tail(sts) : k + 1 \in DOMAIN sts /\ Tail(sts)[k] = sts[k + 1]
      BY <2>1, RestOfStatements
    <2> QED
      BY <2>1, <2>2 DEF sts
  <1>6. Confined(p) /\ Focused(p)
    BY DEF CalInv, PlannerOK
  <1>7. Within(about, st) /\ st.do # "renumber"
    BY <1>3, <1>6 DEF Confined, Fitting
  <1>8. \A s \in Shifts : s \in Ids /\ View(p)[s] = IF own[p][s] = Unwritten THEN db[s] ELSE own[p][s]
    BY CalendarRows DEF View
  <1>9. Confined(p)'
    <2>1. ASSUME NEW ca \in Calendars, own'[p][ca] # Unwritten PROVE ca \in about
      BY <1>3, <1>4, <1>6, <1>7, <2>1, CalendarRows DEF Confined, Within
    <2>2. ASSUME NEW s \in Shifts, own'[p][s] # Unwritten PROVE BelongsTo(about, db[s]) /\ BelongsTo(about, own'[p][s])
      <3>1. CASE s \notin Written(p)
        BY <1>4, <1>6, <1>8, <2>2, <3>1 DEF Confined
      <3>2. CASE s \in Written(p)
        <4>1. own'[p][s] = after[s]
          BY <1>4, <1>8, <3>2
        <4>2. st.id = s => BelongsTo(about, db[s]) /\ (st.do = "insert" => BelongsTo(about, st.set))
          BY <1>7 DEF Within
        <4>3. BelongsTo(about, View(p)[s])
          <5>1. CASE own[p][s] # Unwritten
            BY <1>6, <1>8, <5>1 DEF Confined
          <5>2. CASE own[p][s] = Unwritten /\ s = st.id
            BY <1>8, <4>2, <5>2
          <5>3. CASE own[p][s] = Unwritten /\ Of(View(p)[s], st.id)
            <6>1. st.id \in Calendars
              BY <1>8, <5>3, CalendarReferrers, ProperViews, CalendarRows DEF IInv, CalInv, Of
            <6> QED
              BY <1>7, <5>3, <6>1 DEF Within, BelongsTo, Of
          <5> QED
            BY <1>3, <3>2, <5>1, <5>2, <5>3
        <4>4. BelongsTo(about, db[s])
          BY <1>6, <1>8, <4>3 DEF Confined
        <4>5. after[s] # NoRow => BelongsTo(about, after[s])
          <5>1. View(p)[s] # Unwritten
            BY <1>8, ViewTypes, RowTypes DEF IInv
          <5> QED
            BY <1>3, <3>2, <4>2, <4>3, <5>1 DEF BelongsTo
        <4> QED
          BY <4>1, <4>4, <4>5 DEF BelongsTo
      <3> QED
        BY <3>1, <3>2
    <2>3. own'[p][Plant] # Unwritten => own'[p][Plant].calendar \in about \cup {None}
      <3>1. Plant \in Ids
        BY RowTypes
      <3> QED
        BY <1>3, <1>4, <1>6, <1>7, <3>1 DEF Confined, Within
    <2>4. ASSUME NEW k \in DOMAIN todo'[p] PROVE Within(about, todo'[p][k])
      BY <1>5, <1>6, <2>4 DEF Confined
    <2> QED
      BY <1>1, <2>1, <2>2, <2>3, <2>4 DEF Confined, Within
  <1>10. Focused(p)'
    BY <1>1, <1>4, <1>5, <1>6, RestOfStatements DEF Focused
  <1>11. Leaves(p)'
    <2> SUFFICES ASSUME NEW ca \in about, ca \notin overlapped[p], ca \notin raced
                 PROVE  Sound(Outcome(View(p)', Tail(todo[p])), ca)
      BY <1>1, <1>4 DEF Leaves
    <2>1. Sound(Outcome(View(p), todo[p]), ca)
      BY <1>1 DEF CalInv, PlannerOK, Leaves, ExecuteStatement, Ready
    <2>2. Outcome(after, Tail(todo[p])) = Outcome(View(p), todo[p])
      <3>1. Len(todo[p]) \in {1, 2}
        <4>1. Len(todo[p]) <= 2
          BY <1>6 DEF Focused
        <4>2. Len(todo[p]) \in Nat \ {0}
          BY <1>1, RestOfStatements
        <4>3. \A n \in Nat \ {0} : n <= 2 => n \in {1, 2}
          OBVIOUS
        <4> QED
          BY <4>1, <4>2, <4>3
      <3>2. CASE Len(todo[p]) = 1
        BY <1>1, <1>3, <3>2, RestOfStatements DEF Outcome
      <3>3. CASE Len(todo[p]) = 2
        <4>1. Len(Tail(todo[p])) = 1 /\ Tail(todo[p])[1] = todo[p][2]
          BY <1>1, <3>3
        <4> QED
          BY <1>3, <3>3, <4>1 DEF Outcome
      <3> QED
        BY <3>1, <3>2, <3>3
    <2> QED
      BY <1>2, <2>1, <2>2
  <1>12. PlantThere'
    BY <1>1, <1>3, <1>4, RowTypes DEF CalInv, PlantThere
  <1>13. NewShifts'
    <2>1. ASSUME NEW s \in Shifts, Creates(p, s)' PROVE Creates(p, s)
      <3>1. CASE \E k \in DOMAIN todo'[p] : todo'[p][k].do = "insert" /\ todo'[p][k].id = s
        BY <1>5, <3>1 DEF Creates
      <3>2. CASE own'[p][s] \notin {Unwritten, NoRow} /\ db[s] = NoRow
        <4>1. CASE s \notin Written(p)
          BY <1>4, <1>8, <3>2, <4>1 DEF Creates
        <4>2. CASE s \in Written(p)
          BY <1>3, <1>4, <1>8, <3>2, <4>2 DEF Creates
        <4> QED
          BY <4>1, <4>2
      <3> QED
        BY <1>1, <2>1, <3>1, <3>2 DEF Creates
    <2>2. ASSUME NEW s \in Shifts, db[s] = NoRow, Remembers(p, s)' PROVE Remembers(p, s)
      <3>1. CASE \E k \in DOMAIN todo'[p] : todo'[p][k].id = s
        BY <1>5, <3>1 DEF Remembers
      <3>2. CASE own'[p][s] # Unwritten
        <4>1. CASE s \notin Written(p)
          BY <1>4, <1>8, <3>2, <4>1 DEF Remembers
        <4>2. CASE s \in Written(p)
          BY <1>3, <1>8, <2>2, <4>2 DEF Remembers, Of
        <4> QED
          BY <4>1, <4>2
      <3> QED
        BY <2>2, <3>1, <3>2 DEF Remembers
    <2>3. \A q \in Sessions \ {p}, s \in Shifts : (Creates(q, s)' <=> Creates(q, s)) /\ (Remembers(q, s)' <=> Remembers(q, s))
      BY <1>1, <1>4 DEF Creates, Remembers
    <2> QED
      BY <1>1, <2>1, <2>2, <2>3 DEF CalInv, NewShifts
  <1> QED
    BY <1>1, <1>4, <1>9, <1>10, <1>11, <1>12, <1>13

\* A statement keeps the calendars' invariant.
LEMMA ExecutePlanner ==
    ASSUME IInv, CalInv, IInv', NEW p \in Sessions, ExecuteStatement(p)
    PROVE  CalInv'
  <1>1. UNCHANGED <<db, call, overlapped, raced>>
    BY DEF ExecuteStatement
  <1>2. /\ Confined(p)' /\ Focused(p)' /\ Leaves(p)' /\ PlantThere' /\ NewShifts'
        /\ \A q \in Sessions \ {p} : UNCHANGED <<own[q], call[q], todo[q]>>
    BY ExecuteConfined
  <1>3. ASSUME NEW q \in Sessions, q # p PROVE PlannerOK(q)'
    <2>1. PlannerOK(q) /\ UNCHANGED <<own[q], call[q], todo[q]>>
      BY <1>2, <1>3 DEF CalInv
    <2>2. Confined(q)' /\ Focused(q)'
      BY <1>1, <2>1, ConfinedKept DEF PlannerOK
    <2>3. Open(q) => Leaves(q)'
      BY <1>1, <2>1 DEF PlannerOK, Leaves, View
    <2> QED
      BY <2>1, <2>2, <2>3 DEF PlannerOK, Open
  <1>4. \A ca \in Calendars \ raced' : Sound(db', ca)
    BY <1>1 DEF CalInv
  <1> QED
    BY <1>2, <1>3, <1>4 DEF CalInv, PlannerOK

\* The statements of a renumbering are updates of steps.
LEMMA ReadStatements ==
    ASSUME IInv, NEW p \in Sessions, ReadRouting(p)
    PROVE  \E sts \in Seq(Statements) : /\ todo' = [todo EXCEPT ![p] = sts]
                                        /\ \A k \in DOMAIN sts : sts[k].do = "update" /\ sts[k].id \in Steps
  <1>1. PICK sorted, route, N, places, n : Reads(p, sorted, route, N, places, n)
    BY ReadPlans
  <1>2. /\ N \in Nat /\ n \in Nat /\ route \in [1 .. N -> Steps] /\ places \in [1 .. n -> 1 .. N]
        /\ PlanOf(Planned(route, places), route, places, n)
        /\ todo' = [todo EXCEPT ![p] = Planned(route, places)]
    BY <1>1 DEF Reads
  <1> DEFINE sts == Planned(route, places)
  <1>3. PlanOf(sts, route, places, n) /\ todo' = [todo EXCEPT ![p] = sts]
    BY <1>2
  <1> HIDE DEF sts
  <1>4. sts \in Seq(Statements) /\ DOMAIN sts = 1 .. n + n
    BY <1>2, <1>3, LenProperties DEF PlanOf
  <1>5. ASSUME NEW k \in 1 .. n + n PROVE sts[k].do = "update" /\ sts[k].id \in Steps
    <2>1. CASE k \in 1 .. n
      <3>1. sts[k] = Renumber(route[places[k]], -places[k]) /\ route[places[k]] \in Steps
        BY <1>2, <1>3, <2>1 DEF PlanOf
      <3> QED
        BY <3>1 DEF Renumber
    <2>2. CASE k \notin 1 .. n
      <3>1. k - n \in 1 .. n /\ k = n + (k - n)
        BY <1>2, <2>2
      <3>2. sts[k] = Renumber(route[places[k - n]], places[k - n] * SequenceStep) /\ route[places[k - n]] \in Steps
        BY <1>2, <1>3, <3>1 DEF PlanOf
      <3> QED
        BY <3>2 DEF Renumber
    <2> QED
      BY <2>1, <2>2
  <1> QED
    BY <1>3, <1>4, <1>5

\* Reading a routing has nothing to do with calendars.
LEMMA ReadPlanner ==
    ASSUME IInv, CalInv, IInv', NEW p \in Sessions, ReadRouting(p)
    PROVE  CalInv'
  <1>1. /\ UNCHANGED <<db, own, call, overlapped, raced>>
        /\ todo[p] \in Seq(Statements) /\ todo[p] # <<>> /\ Statement(p).do = "renumber"
    BY DEF ReadRouting, Ready, IInv, TypeOK
  <1>2. PICK sts \in Seq(Statements) : /\ todo' = [todo EXCEPT ![p] = sts]
                                       /\ \A k \in DOMAIN sts : sts[k].do = "update" /\ sts[k].id \in Steps
    BY ReadStatements
  <1>3. todo'[p] = sts /\ \A q \in Sessions \ {p} : todo'[q] = todo[q]
    BY <1>2 DEF IInv, TypeOK
  <1>4. call[p].about = {}
    <2>1. 1 \in DOMAIN todo[p] /\ todo[p][1].do = "renumber"
      BY <1>1 DEF Statement
    <2> QED
      BY <2>1 DEF CalInv, PlannerOK, Focused
  <1>5. \A s \in Steps : s \notin Shifts /\ s \notin Calendars /\ s # Plant
    BY CalendarRows
  <1>6. PlannerOK(p)'
    <2>1. Confined(p)'
      <3>1. \A k \in DOMAIN todo'[p] : Within(call[p].about, todo'[p][k])
        BY <1>2, <1>3, <1>5 DEF Within
      <3> QED
        BY <1>1, <3>1 DEF CalInv, PlannerOK, Confined, Within
    <2>2. Focused(p)' /\ Leaves(p)'
      BY <1>1, <1>4 DEF Focused, Leaves
    <2> QED
      BY <2>1, <2>2 DEF PlannerOK
  <1>7. ASSUME NEW q \in Sessions, q # p PROVE PlannerOK(q)'
    <2>1. PlannerOK(q) /\ UNCHANGED <<own[q], call[q], todo[q]>>
      BY <1>1, <1>3, <1>7 DEF CalInv
    <2>2. Confined(q)' /\ Focused(q)'
      BY <1>1, <2>1, ConfinedKept DEF PlannerOK
    <2>3. Open(q) => Leaves(q)'
      BY <1>1, <2>1 DEF PlannerOK, Leaves, View
    <2> QED
      BY <2>1, <2>2, <2>3 DEF PlannerOK, Open
  <1>8. NewShifts'
    <2>1. \A q \in Sessions, s \in Shifts : (Creates(q, s)' => Creates(q, s)) /\ (Remembers(q, s)' => Remembers(q, s))
      BY <1>1, <1>2, <1>3, <1>5 DEF Creates, Remembers
    <2> QED
      BY <1>1, <2>1 DEF CalInv, NewShifts
  <1> QED
    BY <1>1, <1>6, <1>7, <1>8 DEF CalInv, PlantThere

\* A closed session knows of no calendars.
LEMMA ClosedPlanner ==
    ASSUME TypeOK, NEW p \in Sessions, Closed(p)
    PROVE  PlannerOK(p)' /\ \A s \in Shifts : ~Creates(p, s)' /\ ~Remembers(p, s)'
  <1>1. own'[p] = NothingWritten /\ todo'[p] = <<>> /\ call'[p] = NoCall
    BY ClosedTypes
  <1>2. \A i \in Ids : own'[p][i] = Unwritten
    BY <1>1 DEF NothingWritten
  <1>3. Confined(p)'
    BY <1>1, <1>2, CalendarRows DEF Confined
  <1>4. Focused(p)' /\ ~Open(p)'
    BY <1>1 DEF Focused, NoCall, Open
  <1>5. \A s \in Shifts : ~Creates(p, s)' /\ ~Remembers(p, s)'
    BY <1>1, <1>2, CalendarRows DEF Creates, Remembers
  <1> QED
    BY <1>3, <1>4, <1>5 DEF PlannerOK

\* A rollback leaves the calendars as they are.
LEMMA RollbackPlanner ==
    ASSUME IInv, CalInv, IInv', NEW p \in Sessions, Rollback(p)
    PROVE  CalInv'
  <1>1. /\ Closed(p) /\ UNCHANGED <<db, raced>>
        /\ \A q \in Sessions \ {p} : UNCHANGED <<own[q], call[q], todo[q], overlapped[q]>>
    BY ClosedTypes DEF Rollback, IInv, TypeOK
  <1>2. PlannerOK(p)' /\ \A s \in Shifts : ~Creates(p, s)' /\ ~Remembers(p, s)'
    BY <1>1, ClosedPlanner DEF IInv
  <1>3. ASSUME NEW q \in Sessions, q # p PROVE PlannerOK(q)'
    <2>1. PlannerOK(q) /\ UNCHANGED <<own[q], call[q], todo[q], overlapped[q]>>
      BY <1>1, <1>3 DEF CalInv
    <2>2. Confined(q)' /\ Focused(q)'
      BY <1>1, <2>1, ConfinedKept DEF PlannerOK
    <2>3. Open(q) => Leaves(q)'
      BY <1>1, <2>1 DEF PlannerOK, Leaves, View
    <2> QED
      BY <2>1, <2>2, <2>3 DEF PlannerOK, Open
  <1>4. NewShifts'
    <2>1. \A q \in Sessions, s \in Shifts : (Creates(q, s)' => Creates(q, s)) /\ (Remembers(q, s)' => Remembers(q, s))
      BY <1>1, <1>2 DEF Creates, Remembers
    <2> QED
      BY <1>1, <2>1 DEF CalInv, NewShifts
  <1>5. PlantThere'
    <2>1. \A q \in Sessions : own'[q][Plant] # NoRow
      <3>1. own'[p][Plant] = Unwritten
        BY <1>1, ClosedTypes, RowTypes DEF IInv, NothingWritten
      <3> QED
        BY <1>1, <3>1, PlantDataAssumption DEF CalInv, PlantThere
    <2> QED
      BY <1>1, <2>1 DEF CalInv, PlantThere
  <1> QED
    BY <1>1, <1>2, <1>3, <1>4, <1>5 DEF CalInv

\* Orders and planned work are no calendars.
LEMMA ElsewherePlanner ==
    ASSUME IInv, CalInv, IInv', NEW op, NEW i \in Ids, i \notin Calendars, i \notin Shifts, i # Plant, NEW row,
           Elsewhere(op, i, row)
    PROVE  CalInv'
  <1>1. /\ db' = [db EXCEPT ![i] = row] /\ UNCHANGED <<own, call, todo, raced>>
        /\ overlapped' = [p \in Sessions |-> IF Open(p) THEN overlapped[p] \cup {None} ELSE overlapped[p]]
    BY DEF Elsewhere
  <1>2. /\ \A ca \in Calendars : db'[ca] = db[ca]
        /\ \A s \in Shifts : db'[s] = db[s]
        /\ db'[Plant] = db[Plant]
    BY <1>1, CalendarRows DEF IInv, TypeOK
  <1>3. \A ca \in Calendars : Alike(db, db', ca)
    BY <1>2 DEF Alike
  <1>4. PlantThere'
    BY <1>1, <1>2 DEF CalInv, PlantThere
  <1>5. NewShifts'
    BY <1>1, <1>2 DEF CalInv, NewShifts, Creates, Remembers
  <1>6. ASSUME NEW q \in Sessions PROVE PlannerOK(q)'
    <2>1. PlannerOK(q) /\ UNCHANGED <<own[q], call[q], todo[q]>> /\ overlapped[q] \subseteq overlapped'[q]
      BY <1>1 DEF CalInv
    <2>2. Confined(q)' /\ Focused(q)'
      BY <1>2, <2>1, ConfinedKept DEF PlannerOK
    <2>3. Open(q) => Leaves(q)'
      <3>1. Open(q) => call[q].about \subseteq Calendars
        BY DEF IInv, TypeOK, Open, Calls
      <3>2. TypeOK /\ TypeOK' /\ PlantThere /\ raced \subseteq raced'
        BY <1>1 DEF IInv, CalInv
      <3> QED
        BY <1>3, <1>4, <2>1, <3>1, <3>2, LeavesKept
    <2> QED
      BY <2>1, <2>2, <2>3 DEF PlannerOK, Open
  <1>7. \A ca \in Calendars \ raced' : Sound(db', ca)
    <2>1. \A ca \in Calendars \ raced : Sound(db, ca)
      BY DEF CalInv
    <2> QED
      BY <1>1, <1>3, <2>1, AlikeSound
  <1> QED
    BY <1>4, <1>5, <1>6, <1>7 DEF CalInv

\* A commit changes rows of the calendars it is about only, and leaves those sound that nobody
\* has overlapped it about.
LEMMA CommitPlanner ==
    ASSUME IInv, CalInv, IInv', NEW p \in Sessions, Commit(p)
    PROVE  CalInv'
  <1> DEFINE about == call[p].about
             view  == View(p)
  <1>1. /\ Closed(p) /\ db' = view /\ todo[p] = <<>> /\ Open(p)
        /\ raced' = raced \cup (about \cap overlapped[p])
        /\ overlapped' = [q \in Sessions |-> IF q = p THEN {}
                                             ELSE IF Open(q) THEN overlapped[q] \cup about \cup {None}
                                             ELSE overlapped[q]]
    BY DEF Commit, Overlapping
  <1>2. \A q \in Sessions \ {p} : UNCHANGED <<own[q], call[q], todo[q]>>
    BY <1>1, ClosedTypes DEF IInv
  <1>3. PlannerOK(p)' /\ \A s \in Shifts : ~Creates(p, s)' /\ ~Remembers(p, s)'
    BY <1>1, ClosedPlanner DEF IInv
  <1>4. \A i \in Ids : view[i] = IF own[p][i] = Unwritten THEN db[i] ELSE own[p][i]
    BY DEF View
  <1>5. PlannerOK(p) /\ Proper(view)
    BY ProperViews DEF CalInv, IInv
  <1> HIDE DEF view
  <1>6. ASSUME NEW ca \in Calendars, ca \notin about PROVE Alike(db, view, ca)
    <2>1. view[ca] = db[ca]
      BY <1>4, <1>5, <1>6, CalendarRows DEF PlannerOK, Confined
    <2>2. ASSUME NEW s \in Shifts PROVE view[s] = db[s] \/ (~Of(db[s], ca) /\ ~Of(view[s], ca))
      <3>1. CASE own[p][s] = Unwritten
        BY <1>4, <3>1, CalendarRows
      <3>2. CASE own[p][s] # Unwritten
        <4>1. BelongsTo(about, db[s]) /\ BelongsTo(about, own[p][s]) /\ view[s] = own[p][s]
          BY <1>4, <1>5, <3>2, CalendarRows DEF PlannerOK, Confined
        <4>2. db[s] # Unwritten
          BY NeverUnwritten DEF IInv
        <4> QED
          BY <1>6, <3>2, <4>1, <4>2 DEF BelongsTo, Of
      <3> QED
        BY <3>1, <3>2
    <2>3. view[Plant].calendar = ca => db[Plant].calendar = ca
      BY <1>4, <1>5, <1>6, CalendarRows DEF PlannerOK, Confined
    <2> QED
      BY <2>1, <2>2, <2>3 DEF Alike
  <1>7. \A ca \in Calendars \ raced' : Sound(view, ca)
    <2> SUFFICES ASSUME NEW ca \in Calendars, ca \notin raced' PROVE Sound(view, ca)
      OBVIOUS
    <2>1. ca \notin raced
      BY <1>1
    <2>2. CASE ca \in about
      <3>1. Sound(Outcome(View(p), <<>>), ca)
        BY <1>1, <1>5, <2>1, <2>2 DEF PlannerOK, Leaves
      <3> QED
        BY <3>1 DEF Outcome, view
    <2>3. CASE ca \notin about
      <3>1. Sound(db, ca)
        BY <2>1 DEF CalInv
      <3> QED
        BY <1>6, <2>3, <3>1, AlikeSound
    <2> QED
      BY <2>2, <2>3
  <1>8. PlantThere'
    <2>1. own'[p][Plant] = Unwritten
      BY <1>1, ClosedTypes, RowTypes DEF IInv, NothingWritten
    <2> QED
      BY <1>1, <1>2, <1>5, <2>1, PlantDataAssumption DEF CalInv, PlantThere, Proper
  <1>9. ASSUME NEW q \in Sessions, q # p, NEW s \in Shifts, Remembers(q, s)
        PROVE  view[s] = db[s] \/ (db[s] # NoRow /\ (view[s] = NoRow \/ view[s].calendar = db[s].calendar))
    <2>1. CASE own[p][s] = Unwritten
      BY <1>4, <2>1, CalendarRows
    <2>2. CASE own[p][s] # Unwritten
      <3>1. view[s] = own[p][s]
        BY <1>4, <2>2, CalendarRows
      <3>2. ~Creates(p, s)
        BY <1>9 DEF CalInv, NewShifts
      <3>3. db[s] = NoRow => own[p][s] = NoRow
        BY <2>2, <3>2 DEF Creates
      <3>4. BelongsTo(about, db[s]) /\ BelongsTo(about, own[p][s]) /\ db[s] # Unwritten
        BY <1>5, <2>2, NeverUnwritten DEF PlannerOK, Confined, IInv
      <3>5. \A x, y \in about : x = y
        BY <1>5 DEF PlannerOK, Focused
      <3> QED
        BY <2>2, <3>1, <3>3, <3>4, <3>5 DEF BelongsTo
    <2> QED
      BY <2>1, <2>2
  <1>10. ASSUME NEW q \in Sessions, q # p PROVE PlannerOK(q)'
    <2>1. PlannerOK(q) /\ UNCHANGED <<own[q], call[q], todo[q]>>
      BY <1>2, <1>10 DEF CalInv
    <2>2. Confined(q)' /\ Focused(q)'
      <3>1. \A s \in Shifts : db[s] # Unwritten
        BY NeverUnwritten DEF IInv
      <3>2. \A s \in Shifts : Remembers(q, s) /\ BelongsTo(call[q].about, db[s]) => BelongsTo(call[q].about, db'[s])
        BY <1>1, <1>9, <1>10, <3>1 DEF BelongsTo
      <3> QED
        BY <2>1, <3>2, ConfinedKept DEF PlannerOK
    <2>3. Open(q) => Leaves(q)'
      <3> SUFFICES ASSUME Open(q) PROVE Leaves(q)'
        OBVIOUS
      <3>1. call[q].about \subseteq Calendars
        BY DEF IInv, TypeOK, Open, Calls
      <3>2. TypeOK /\ TypeOK' /\ PlantThere /\ raced \subseteq raced'
        BY <1>1 DEF IInv, CalInv
      <3>3. overlapped'[q] = overlapped[q] \cup about \cup {None}
        BY <1>1, <1>10
      <3>4. \A ca \in call[q].about \ overlapped'[q] : Alike(db, db', ca)
        BY <1>1, <1>6, <3>1, <3>3
      <3> QED
        BY <1>8, <2>1, <3>2, <3>3, <3>4, LeavesKept
    <2> QED
      BY <2>1, <2>2, <2>3 DEF PlannerOK, Open
  <1>11. NewShifts'
    <2>1. ASSUME NEW q \in Sessions, NEW s \in Shifts, Creates(q, s)'
          PROVE  db'[s] = NoRow /\ \A r \in Sessions \ {q} : ~Remembers(r, s)'
      <3>1. q # p
        BY <1>3, <2>1
      <3>2. UNCHANGED <<own[q], todo[q]>>
        BY <1>2, <3>1
      <3>3. Creates(q, s)
        <4>1. CASE \E k \in DOMAIN todo'[q] : todo'[q][k].do = "insert" /\ todo'[q][k].id = s
          BY <3>2, <4>1 DEF Creates
        <4>2. CASE own'[q][s] \notin {Unwritten, NoRow} /\ db'[s] = NoRow
          <5>1. own[p][s] = Unwritten
            BY <3>1, <3>2, <4>2, CalendarRows DEF IInv, Locks
          <5>2. db[s] = NoRow
            BY <1>1, <1>4, <4>2, <5>1, CalendarRows
          <5> QED
            BY <3>2, <4>2, <5>2 DEF Creates
        <4> QED
          BY <2>1, <4>1, <4>2 DEF Creates
      <3>4. db[s] = NoRow /\ \A r \in Sessions \ {q} : ~Remembers(r, s)
        BY <3>3 DEF CalInv, NewShifts
      <3>5. db'[s] = NoRow
        BY <1>1, <1>4, <3>1, <3>4, CalendarRows DEF Remembers
      <3>6. \A r \in Sessions \ {q} : ~Remembers(r, s)'
        BY <1>2, <1>3, <3>4 DEF Remembers
      <3> QED
        BY <3>5, <3>6
    <2> QED
      BY <2>1 DEF NewShifts
  <1> QED
    BY <1>1, <1>3, <1>7, <1>8, <1>10, <1>11 DEF CalInv

\* The invariant types what a request begins with.
LEMMA BegunTypes ==
    ASSUME IInv, IInv', NEW p \in Sessions, NEW op, NEW i, NEW about, NEW sts, Begin(p, op, i, about, sts)
    PROVE  /\ sts \in Seq(Statements) /\ about \subseteq Calendars
           /\ \A k \in DOMAIN sts : sts[k].do # "renumber" => Fitting(sts[k])
           /\ ~Open(p) /\ own[p] = NothingWritten /\ todo[p] = <<>>
           /\ UNCHANGED <<db, own, overlapped, raced>>
           /\ todo'[p] = sts /\ call'[p].about = about
           /\ \A q \in Sessions \ {p} : todo'[q] = todo[q] /\ call'[q] = call[q]
  <1>1. /\ ~Open(p) /\ UNCHANGED <<db, own, overlapped, raced>>
        /\ call' = [call EXCEPT ![p] = [op |-> op, id |-> i, about |-> about]]
        /\ todo' = [todo EXCEPT ![p] = sts]
    BY DEF Begin
  <1>2. own[p] = NothingWritten /\ todo[p] = <<>>
    BY <1>1 DEF IInv, SessionOK, ClosedOK
  <1>3. /\ todo'[p] = sts /\ call'[p] = [op |-> op, id |-> i, about |-> about]
        /\ \A q \in Sessions \ {p} : todo'[q] = todo[q] /\ call'[q] = call[q]
    BY <1>1 DEF IInv, TypeOK
  <1>4. sts \in Seq(Statements) /\ \A k \in DOMAIN sts : sts[k].do # "renumber" => Fitting(sts[k])
    <2>1. todo'[p] \in Seq(Statements)
      BY DEF IInv, TypeOK
    <2>2. \A k \in DOMAIN todo'[p] : todo'[p][k].do = "insert" => todo'[p][k].set \in Rows[Table[todo'[p][k].id]]
      BY DEF IInv, TypeOK
    <2> QED
      BY <1>3, <2>1, <2>2 DEF Fitting
  <1>5. about \subseteq Calendars
    <2>1. call'[p] \in Calls \cup {NoCall} /\ call'[p].about = about
      BY <1>3 DEF IInv, TypeOK
    <2>2. \A c \in Calls \cup {NoCall} : c.about \subseteq Calendars
      BY DEF Calls, NoCall
    <2> QED
      BY <2>1, <2>2
  <1> QED
    BY <1>1, <1>2, <1>3, <1>4, <1>5

\* A request that writes the rows of its own calendar only, and would leave it sound.
LEMMA BeginPlanner ==
    ASSUME IInv, CalInv, IInv', NEW p \in Sessions, NEW op, NEW i, NEW about, NEW sts, Begin(p, op, i, about, sts),
           \A x, y \in about : x = y,
           about # {} => Len(sts) <= 2 /\ \A k \in DOMAIN sts : sts[k].do # "renumber",
           \A k \in DOMAIN sts : Within(about, sts[k]),
           \A k \in DOMAIN sts : sts[k].id \in Shifts =>
               IF sts[k].do = "insert" THEN Fresh(sts[k].id) ELSE db[sts[k].id] # NoRow,
           \A ca \in about \ raced : Sound(Outcome(db, sts), ca)
    PROVE  CalInv'
  <1>1. /\ ~Open(p) /\ own[p] = NothingWritten /\ todo[p] = <<>>
        /\ UNCHANGED <<db, own, overlapped, raced>>
        /\ todo'[p] = sts /\ call'[p].about = about
        /\ \A q \in Sessions \ {p} : todo'[q] = todo[q] /\ call'[q] = call[q]
    BY BegunTypes
  <1>2. \A j \in Ids : own[p][j] = Unwritten
    BY <1>1 DEF NothingWritten
  <1>3. PlannerOK(p)'
    <2>1. Confined(p)'
      BY <1>1, <1>2, CalendarRows DEF Confined, Within
    <2>2. Focused(p)'
      BY <1>1 DEF Focused
    <2>3. Leaves(p)'
      <3>1. View(p)' = db
        <4>1. View(p)' = [j \in Ids |-> db[j]]
          BY <1>1, <1>2 DEF View
        <4> QED
          BY <4>1 DEF IInv, TypeOK
      <3> QED
        BY <1>1, <3>1 DEF Leaves
    <2> QED
      BY <2>1, <2>2, <2>3 DEF PlannerOK
  <1>4. ASSUME NEW q \in Sessions, q # p PROVE PlannerOK(q)'
    <2>1. PlannerOK(q) /\ UNCHANGED <<own[q], call[q], todo[q]>>
      BY <1>1, <1>4 DEF CalInv
    <2>2. Confined(q)' /\ Focused(q)'
      BY <1>1, <2>1, ConfinedKept DEF PlannerOK
    <2>3. Open(q) => Leaves(q)'
      BY <1>1, <2>1 DEF PlannerOK, Leaves, View
    <2> QED
      BY <2>1, <2>2, <2>3 DEF PlannerOK, Open
  <1>5. NewShifts'
    <2>1. \A s \in Shifts : s \in Ids
      BY CalendarRows
    <2>2. ASSUME NEW s \in Shifts, Creates(p, s)' PROVE Fresh(s)
      BY <1>1, <1>2, <2>1, <2>2 DEF Creates
    <2>3. ASSUME NEW s \in Shifts, Remembers(p, s)', db[s] = NoRow PROVE Fresh(s)
      BY <1>1, <1>2, <2>1, <2>3 DEF Remembers
    <2>4. ASSUME NEW s \in Shifts, Fresh(s)
          PROVE  db[s] = NoRow /\ \A q \in Sessions : ~Remembers(q, s) /\ ~Creates(q, s)
      BY <2>4 DEF Fresh, Remembers, Creates
    <2>5. \A q \in Sessions \ {p}, s \in Shifts : (Creates(q, s)' <=> Creates(q, s)) /\ (Remembers(q, s)' <=> Remembers(q, s))
      BY <1>1 DEF Creates, Remembers
    <2>6. ASSUME NEW q \in Sessions, NEW s \in Shifts, Creates(q, s)'
          PROVE  db[s] = NoRow /\ \A r \in Sessions \ {q} : ~Remembers(r, s)'
      <3>1. CASE q = p
        BY <2>2, <2>4, <2>5, <2>6, <3>1
      <3>2. CASE q # p
        <4>1. Creates(q, s)
          BY <2>5, <2>6, <3>2
        <4>2. db[s] = NoRow /\ \A r \in Sessions \ {q} : ~Remembers(r, s)
          BY <4>1 DEF CalInv, NewShifts
        <4>3. ~Remembers(p, s)'
          BY <2>3, <2>4, <4>1, <4>2
        <4> QED
          BY <2>5, <4>2, <4>3
      <3> QED
        BY <3>1, <3>2
    <2> QED
      BY <1>1, <2>6 DEF NewShifts
  <1>6. PlantThere' /\ \A ca \in Calendars \ raced' : Sound(db', ca)
    BY <1>1 DEF CalInv, PlantThere
  <1> QED
    BY <1>3, <1>4, <1>5, <1>6 DEF CalInv

\* A statement about another table.
Away(st) == st.id \notin Calendars /\ st.id \notin Shifts /\ st.id # Plant

\* It leaves calendars as they are.
LEMMA AwayAlike ==
    ASSUME NEW view, Proper(view), NEW st, Fitting(st), Away(st), NEW ca \in Calendars
    PROVE  Alike(view, Executed(view, st), ca)
  <1> DEFINE w == Executed(view, st)
  <1>1. st.id \in Ids
    BY FittingKinds
  <1>2. CASE st.do # "delete"
    <2>1. \A i \in Ids \ {st.id} : w[i] = view[i]
      BY <1>2, ExecutedProper
    <2> HIDE DEF w
    <2> QED
      BY <2>1, CalendarRows DEF Alike, Away, w
  <1>3. CASE st.do = "delete"
    <2>1. w = Deleted(view, st.id) /\ st.id # Plant
      BY <1>3 DEF Executed, After, Away
    <2>2. /\ \A s \in Shifts : ~Of(view[s], st.id)
          /\ view[Plant].calendar # st.id
      <3>1. \A s \in Shifts : view[s] # NoRow => view[s].calendar \in Calendars
        BY <1>1, CalendarReferrers
      <3>2. view[Plant].calendar \in Calendars \cup {None}
        BY <1>1, CalendarReferrers
      <3> QED
        BY <1>1, <3>1, <3>2, RowTypes DEF Away, Of
    <2>3. /\ w[ca] = view[ca] /\ w[Plant] = view[Plant]
          /\ \A s \in Shifts : w[s] = view[s]
      BY <1>1, <2>1, <2>2, DeletedRows DEF Away
    <2> HIDE DEF w
    <2> QED
      BY <2>3 DEF Alike, w
  <1> QED
    BY <1>2, <1>3

\* A request about other tables; if it has to do with a calendar it has one statement.
LEMMA BeginAway ==
    ASSUME IInv, CalInv, IInv', NEW p \in Sessions, NEW op, NEW i, NEW about, NEW sts, Begin(p, op, i, about, sts),
           \A x, y \in about : x = y,
           about # {} => Len(sts) = 1 /\ \A k \in DOMAIN sts : sts[k].do # "renumber",
           \A k \in DOMAIN sts : Away(sts[k])
    PROVE  CalInv'
  <1>1. /\ sts \in Seq(Statements) /\ about \subseteq Calendars
        /\ \A k \in DOMAIN sts : sts[k].do # "renumber" => Fitting(sts[k])
    BY BegunTypes
  <1>2. \A k \in DOMAIN sts : Within(about, sts[k]) /\ sts[k].id \notin Shifts
    BY DEF Away, Within
  <1>3. ASSUME NEW ca \in about, ca \notin raced PROVE Sound(Outcome(db, sts), ca)
    <2>1. Len(sts) = 1 /\ Fitting(sts[1]) /\ Away(sts[1])
      BY <1>1, <1>3
    <2>2. Alike(db, Executed(db, sts[1]), ca)
      BY <1>1, <2>1, AwayAlike, ProperViews DEF IInv, CalInv
    <2>3. Sound(db, ca)
      BY <1>1, <1>3 DEF CalInv
    <2>4. Sound(Executed(db, sts[1]), ca)
      BY <1>1, <2>2, <2>3, AlikeSound
    <2> QED
      BY <2>1, <2>4 DEF Outcome
  <1>4. about # {} => Len(sts) <= 2 /\ \A k \in DOMAIN sts : sts[k].do # "renumber"
    BY <1>1
  <1> QED
    BY <1>2, <1>3, <1>4, BeginPlanner

\* A request of one statement about another table.
LEMMA OneAway ==
    ASSUME IInv, CalInv, IInv', NEW p \in Sessions, NEW op, NEW i, NEW about, NEW a, Begin(p, op, i, about, <<a>>),
           \A x, y \in about : x = y, Away(a), about = {} \/ a.do # "renumber"
    PROVE  CalInv'
  <1> DEFINE sts == <<a>>
  <1>1. Len(sts) = 1 /\ DOMAIN sts = {1} /\ sts[1] = a /\ Begin(p, op, i, about, sts)
    OBVIOUS
  <1> HIDE DEF sts
  <1> QED
    BY <1>1, BeginAway

\* A request of two.
LEMMA TwoAway ==
    ASSUME IInv, CalInv, IInv', NEW p \in Sessions, NEW op, NEW i, NEW a, NEW b, Begin(p, op, i, {}, <<a, b>>),
           Away(a), Away(b)
    PROVE  CalInv'
  <1> DEFINE sts == <<a, b>>
  <1>1. DOMAIN sts = {1, 2} /\ sts[1] = a /\ sts[2] = b /\ Begin(p, op, i, {}, sts)
    OBVIOUS
  <1> HIDE DEF sts
  <1> QED
    BY <1>1, BeginAway

\* The kinds of statements that are about other tables.
LEMMA AwayStatements ==
    /\ \A i \in Steps \cup Products \cup Centers \cup Machines : \A set :
          Away(Insert(i, set)) /\ Away(Update(i, set)) /\ Away(Delete(i))
    /\ \A pr, s, direction : s \in Steps \cup {None} => Away(RenumberOperations(pr, s, direction))
    /\ \A i, set : Insert(i, set).do # "renumber" /\ Update(i, set).do # "renumber" /\ Delete(i).do # "renumber"
  <1>1. \A i \in Steps \cup Products \cup Centers \cup Machines \cup {None} :
          i \notin Calendars /\ i \notin Shifts /\ i # Plant
    BY CalendarRows
  <1> QED
    BY <1>1 DEF Away, Insert, Update, Delete, RenumberOperations

\* Edits of routings and products have nothing to do with calendars.
LEMMA EditRoutingPlanner ==
    ASSUME IInv, CalInv, IInv', NEW p \in Sessions, EditRouting(p)
    PROVE  CalInv'
  <1>1. ASSUME NEW s \in Steps, NEW pr \in Products, NEW ce \in Centers, NEW m \in Machines \cup {None},
               NEW last \in {db[t].seq : t \in StepsOf(db, pr)} \cup {0}, AddOperation(p, s, pr, ce, m, last)
        PROVE  CalInv'
    BY <1>1, AwayStatements, TwoAway DEF AddOperation
  <1>2. ASSUME NEW s \in Steps, NEW ce \in Centers, NEW m \in Machines \cup {None}, UpdateOperation(p, s, ce, m)
        PROVE  CalInv'
    BY <1>2, AwayStatements, OneAway DEF UpdateOperation
  <1>3. ASSUME NEW s \in Steps, RemoveOperation(p, s) PROVE CalInv'
    BY <1>3, AwayStatements, TwoAway DEF RemoveOperation
  <1>4. ASSUME NEW s \in Steps, NEW direction \in {"up", "down"}, MoveOperation(p, s, direction) PROVE CalInv'
    BY <1>4, AwayStatements, OneAway DEF MoveOperation
  <1>5. ASSUME NEW pr \in Products, CreateProduct(p, pr) PROVE CalInv'
    BY <1>5, AwayStatements, OneAway DEF CreateProduct
  <1>6. ASSUME NEW pr \in Products, DeleteProduct(p, pr) PROVE CalInv'
    BY <1>6, AwayStatements, OneAway DEF DeleteProduct
  <1>7. ASSUME NEW pr \in Products, NEW active \in BOOLEAN, SetProductActive(p, pr, active) PROVE CalInv'
    BY <1>7, AwayStatements, OneAway DEF SetProductActive
  <1> QED
    BY <1>1, <1>2, <1>3, <1>4, <1>5, <1>6, <1>7 DEF EditRouting

\* Nor do edits of work centers and machines, which write no calendar.
LEMMA EditMachinesPlanner ==
    ASSUME IInv, CalInv, IInv', NEW p \in Sessions, EditMachines(p)
    PROVE  CalInv'
  <1>1. ASSUME NEW ce \in Centers, CreateWorkCenter(p, ce) PROVE CalInv'
    BY <1>1, AwayStatements, OneAway DEF CreateWorkCenter
  <1>2. ASSUME NEW ce \in Centers, DeleteWorkCenter(p, ce) PROVE CalInv'
    BY <1>2, AwayStatements, OneAway DEF DeleteWorkCenter
  <1>3. ASSUME NEW ce \in Centers, NEW active \in BOOLEAN, SetWorkCenterActive(p, ce, active) PROVE CalInv'
    BY <1>3, AwayStatements, OneAway DEF SetWorkCenterActive
  <1>4. ASSUME NEW m \in Machines, NEW ce \in Centers, NEW ca \in Calendars, CreateMachine(p, m, ce, ca) PROVE CalInv'
    BY <1>4, AwayStatements, OneAway DEF CreateMachine
  <1>5. ASSUME NEW m \in Machines, NEW ce \in Centers, NEW ca \in Calendars, UpdateMachine(p, m, ce, ca) PROVE CalInv'
    BY <1>5, AwayStatements, OneAway DEF UpdateMachine
  <1>6. ASSUME NEW m \in Machines, NEW active \in BOOLEAN, SetMachineStatus(p, m, active) PROVE CalInv'
    BY <1>6, AwayStatements, OneAway DEF SetMachineStatus
  <1>7. ASSUME NEW m \in Machines, DeleteMachine(p, m) PROVE CalInv'
    BY <1>7, AwayStatements, OneAway DEF DeleteMachine
  <1> QED
    BY <1>1, <1>2, <1>3, <1>4, <1>5, <1>6, <1>7 DEF EditMachines

\* A statement that is no delete and writes a row that there is, or that is new.
LEMMA WrittenRow ==
    ASSUME NEW view, Proper(view), NEW i \in Ids
    PROVE  /\ \A row : Executed(view, Insert(i, row)) = [view EXCEPT ![i] = row]
           /\ \A set : view[i] # NoRow => Executed(view, Update(i, set)) = [view EXCEPT ![i] = Patched(view[i], set)]
           /\ Executed(view, Delete(i)) = Deleted(view, i)
  BY DEF Proper, Executed, After, Insert, Update, Delete

\* The rows of calendars in a view.
LEMMA ProperRows ==
    ASSUME NEW view, Proper(view)
    PROVE  /\ \A ca \in Calendars : view[ca] # NoRow => view[ca] \in [active : BOOLEAN]
           /\ \A s \in Shifts : view[s] # NoRow => view[s] \in [calendar : Calendars, hours : Hours]
           /\ view[Plant] \in [calendar : Calendars \cup {None}]
           /\ NoRow \notin [active : BOOLEAN] /\ NoRow \notin [calendar : Calendars, hours : Hours]
           /\ DOMAIN view = Ids
  <1>1. ASSUME NEW ca \in Calendars PROVE ca \in Ids /\ Rows[Table[ca]] = [active : BOOLEAN]
    BY CalendarRows
  <1>2. ASSUME NEW ca \in Calendars PROVE view[ca] # NoRow => view[ca] \in [active : BOOLEAN]
    BY <1>1 DEF Proper
  <1>3. Plant \in Ids
    BY CalendarRows
  <1>4. NoRow \notin [active : BOOLEAN] /\ NoRow \notin [calendar : Calendars, hours : Hours]
    <2>1. "ShiftCalendar" \in Tables /\ "Shift" \in Tables
      BY DEF Tables
    <2>2. Rows["ShiftCalendar"] = [active : BOOLEAN] /\ Rows["Shift"] = [calendar : Calendars, hours : Hours]
      BY DEF Rows
    <2> QED
      BY <2>1, <2>2
  <1>5. DOMAIN view = Ids
    BY DEF Proper
  <1> QED
    BY <1>2, <1>3, <1>4, <1>5, CalendarReferrers

\* What is said of a calendar's shifts, written out.
LEMMA UsableBy ==
    ASSUME NEW view, NEW ca \in Calendars, NEW s \in Shifts, view[s] # NoRow, view[s].calendar = ca,
           \A a, b \in Shifts : a # b /\ Of(view[a], ca) /\ Of(view[b], ca) => {view[b].hours, view[a].hours} \notin Clashes,
           view[Plant].calendar = ca => view[ca].active
    PROVE  Usable(view, ca)
  BY DEF Usable, ShiftsOf, Fits, Of

LEMMA UsableSays ==
    ASSUME NEW view, NEW ca \in Calendars, Usable(view, ca)
    PROVE  /\ \E s \in Shifts : Of(view[s], ca)
           /\ \A a, b \in Shifts : a # b /\ Of(view[a], ca) /\ Of(view[b], ca) => {view[b].hours, view[a].hours} \notin Clashes
           /\ view[Plant].calendar = ca => view[ca].active
  BY DEF Usable, ShiftsOf, Fits, Of

\* Activating a calendar, or deactivating one that is not the default.
LEMMA ActiveSound ==
    ASSUME NEW view, Proper(view), NEW ca \in Calendars, view[ca] # NoRow, Sound(view, ca),
           NEW active \in BOOLEAN, ~active => view[Plant].calendar # ca
    PROVE  Sound(Executed(view, Update(ca, [active |-> active])), ca)
  <1> DEFINE w == Executed(view, Update(ca, [active |-> active]))
  <1>1. w = [view EXCEPT ![ca] = Patched(view[ca], [active |-> active])]
    BY WrittenRow, CalendarRows
  <1>2. Patched(view[ca], [active |-> active]) = [active |-> active]
    BY ProperRows DEF Patched
  <1> HIDE DEF w
  <1>3. /\ w[ca] = [active |-> active] /\ w[Plant] = view[Plant]
        /\ \A s \in Shifts : w[s] = view[s]
    BY <1>1, <1>2, ProperRows, CalendarRows
  <1>4. w[ca] # NoRow /\ w[ca].active = active
    <2>1. [active |-> active] \in [active : BOOLEAN]
      OBVIOUS
    <2> QED
      BY <1>3, <2>1, ProperRows
  <1>5. ShiftsOf(w, ca) = ShiftsOf(view, ca)
    BY <1>3 DEF ShiftsOf
  <1>6. Usable(view, ca)
    BY DEF Sound
  <1>7. \A s \in ShiftsOf(w, ca) : w[s] = view[s]
    BY <1>3 DEF ShiftsOf
  <1>8. Usable(w, ca)
    BY <1>3, <1>4, <1>5, <1>6, <1>7 DEF Usable, Fits
  <1> QED
    BY <1>4, <1>8 DEF Sound, w

\* Making an active calendar the default, or leaving the default as it is.
LEMMA DefaultSound ==
    ASSUME NEW view, Proper(view), NEW ca \in Calendars, Sound(view, ca),
           view[Plant].calendar = ca \/ (view[ca] # NoRow /\ view[ca].active)
    PROVE  Sound(Executed(view, Update(Plant, [calendar |-> ca])), ca)
  <1> DEFINE w == Executed(view, Update(Plant, [calendar |-> ca]))
  <1>1. w = [view EXCEPT ![Plant] = Patched(view[Plant], [calendar |-> ca])]
    <2>1. Plant \in Ids /\ view[Plant] # NoRow
      BY CalendarRows DEF Proper
    <2> QED
      BY <2>1, WrittenRow
  <1>2. Patched(view[Plant], [calendar |-> ca]) = [calendar |-> ca]
    BY ProperRows DEF Patched
  <1> HIDE DEF w
  <1>3. /\ w[ca] = view[ca] /\ w[Plant].calendar = ca
        /\ \A s \in Shifts : w[s] = view[s]
    BY <1>1, <1>2, ProperRows, CalendarRows
  <1>4. ShiftsOf(w, ca) = ShiftsOf(view, ca) /\ \A s \in ShiftsOf(w, ca) : w[s] = view[s]
    BY <1>3 DEF ShiftsOf
  <1>5. CASE view[ca] = NoRow
    BY <1>3, <1>4, <1>5 DEF Sound, w
  <1>6. CASE view[ca] # NoRow
    <2>1. Usable(view, ca)
      BY <1>6 DEF Sound
    <2>2. view[ca].active
      BY <2>1 DEF Usable
    <2>3. Usable(w, ca)
      BY <1>3, <1>4, <2>1, <2>2 DEF Usable, Fits
    <2> QED
      BY <1>3, <1>6, <2>3 DEF Sound, w
  <1> QED
    BY <1>5, <1>6

\* Deleting a calendar.
LEMMA DeleteSound ==
    ASSUME NEW view, Proper(view), NEW ca \in Calendars
    PROVE  Sound(Executed(view, Delete(ca)), ca)
  <1>1. ca \in Ids /\ ca # Plant
    BY CalendarRows
  <1> DEFINE w == Executed(view, Delete(ca))
  <1>2. w = Deleted(view, ca)
    BY <1>1, WrittenRow
  <1> HIDE DEF w
  <1>3. /\ w[ca] = NoRow
        /\ \A s \in Shifts : w[s] = IF s = ca \/ Of(view[s], ca) THEN NoRow ELSE view[s]
    BY <1>1, <1>2, DeletedRows
  <1>4. ShiftsOf(w, ca) = {}
    BY <1>3 DEF ShiftsOf, Of
  <1> QED
    BY <1>3, <1>4 DEF Sound, w

\* Adding a shift that fits.
LEMMA AddSound ==
    ASSUME NEW view, Proper(view), NEW ca \in Calendars, view[ca] # NoRow, Sound(view, ca), NEW s \in Shifts,
           NEW h \in Hours, Fits(view, ShiftsOf(view, ca), h), view[s] = NoRow
    PROVE  Sound(Executed(view, Insert(s, [calendar |-> ca, hours |-> h])), ca)
  <1> DEFINE row == [calendar |-> ca, hours |-> h]
             w   == Executed(view, Insert(s, row))
  <1>1. row.calendar = ca /\ row.hours = h /\ row # NoRow
    <2>1. row \in [calendar : Calendars, hours : Hours]
      OBVIOUS
    <2> QED
      BY <2>1, ProperRows
  <1> HIDE DEF row
  <1>2. w = [view EXCEPT ![s] = row]
    BY WrittenRow, CalendarRows
  <1> HIDE DEF w
  <1>3. /\ w[ca] = view[ca] /\ w[Plant] = view[Plant] /\ w[s] = row
        /\ \A t \in Shifts \ {s} : w[t] = view[t]
    BY <1>2, ProperRows, CalendarRows
  <1>4. Usable(view, ca)
    BY DEF Sound
  <1>5. \A t \in Shifts : Of(view[t], ca) => {view[t].hours, h} \notin Clashes
    BY DEF Fits, ShiftsOf, Of
  <1>6. ASSUME NEW a \in Shifts, NEW b \in Shifts, a # b, Of(w[a], ca), Of(w[b], ca)
        PROVE  {w[b].hours, w[a].hours} \notin Clashes
    <2>1. CASE a = s
      BY <1>1, <1>3, <1>5, <1>6, <2>1
    <2>2. CASE b = s
      <3>1. {w[a].hours, h} \notin Clashes /\ w[b].hours = h
        BY <1>1, <1>3, <1>5, <1>6, <2>2
      <3>2. {w[b].hours, w[a].hours} = {w[a].hours, w[b].hours}
        OBVIOUS
      <3> QED
        BY <3>1, <3>2
    <2>3. CASE a # s /\ b # s
      BY <1>3, <1>4, <1>6, <2>3, UsableSays
    <2> QED
      BY <2>1, <2>2, <2>3
  <1>7. w[Plant].calendar = ca => w[ca].active
    BY <1>3, <1>4 DEF Usable
  <1>8. Usable(w, ca)
    BY <1>1, <1>3, <1>6, <1>7, UsableBy
  <1> QED
    BY <1>3, <1>8 DEF Sound, w, row

\* Changing the hours of a shift to some that fit the others.
LEMMA UpdateSound ==
    ASSUME NEW view, Proper(view), NEW s \in Shifts, view[s] # NoRow, Sound(view, view[s].calendar),
           NEW h \in Hours, Fits(view, ShiftsOf(view, view[s].calendar) \ {s}, h)
    PROVE  Sound(Executed(view, Update(s, [hours |-> h])), view[s].calendar)
  <1> DEFINE ca  == view[s].calendar
             row == Patched(view[s], [hours |-> h])
             w   == Executed(view, Update(s, [hours |-> h]))
  <1>1. ca \in Calendars
    BY ProperRows
  <1>2. row \in [calendar : Calendars, hours : Hours] /\ row.calendar = ca /\ row.hours = h
    BY ProperRows DEF Patched
  <1>3. row # NoRow
    BY <1>2, ProperRows
  <1>4. w = [view EXCEPT ![s] = row]
    BY WrittenRow, CalendarRows
  <1> HIDE DEF w, row
  <1>5. /\ w[ca] = view[ca] /\ w[Plant] = view[Plant] /\ w[s] = row
        /\ \A t \in Shifts \ {s} : w[t] = view[t]
    BY <1>1, <1>4, ProperRows, CalendarRows
  <1>6. Of(view[s], ca)
    BY DEF Of
  <1>7. \A t \in Shifts \ {s} : Of(view[t], ca) => {view[t].hours, h} \notin Clashes
    BY DEF Fits, ShiftsOf, Of
  <1>8. CASE view[ca] = NoRow
    BY <1>6, <1>8 DEF Sound, ShiftsOf, Of
  <1>9. CASE view[ca] # NoRow
    <2>1. Usable(view, ca)
      BY <1>9 DEF Sound
    <2> HIDE DEF ca
    <2>2. ASSUME NEW a \in Shifts, NEW b \in Shifts, a # b, Of(w[a], ca), Of(w[b], ca)
          PROVE  {w[b].hours, w[a].hours} \notin Clashes
      <3>1. CASE a = s
        BY <1>2, <1>5, <1>7, <2>2, <3>1
      <3>2. CASE b = s
        <4>1. {w[a].hours, h} \notin Clashes /\ w[b].hours = h
          BY <1>2, <1>5, <1>7, <2>2, <3>2
        <4>2. {w[b].hours, w[a].hours} = {w[a].hours, w[b].hours}
          OBVIOUS
        <4> QED
          BY <4>1, <4>2
      <3>3. CASE a # s /\ b # s
        BY <1>1, <1>5, <2>1, <2>2, <3>3, UsableSays
      <3> QED
        BY <3>1, <3>2, <3>3
    <2>3. w[Plant].calendar = ca => w[ca].active
      BY <1>5, <2>1 DEF Usable
    <2>4. Usable(w, ca)
      BY <1>1, <1>2, <1>3, <1>5, <2>2, <2>3, UsableBy
    <2> QED
      BY <1>5, <1>9, <2>4 DEF Sound, w, ca
  <1> QED
    BY <1>8, <1>9

\* Deleting a shift that is not the last one.
LEMMA RemoveSound ==
    ASSUME NEW view, Proper(view), NEW s \in Shifts, view[s] # NoRow, Sound(view, view[s].calendar),
           ShiftsOf(view, view[s].calendar) # {s}
    PROVE  Sound(Executed(view, Delete(s)), view[s].calendar)
  <1> DEFINE ca == view[s].calendar
             w  == Executed(view, Delete(s))
  <1>1. ca \in Calendars /\ s \in Ids /\ s # Plant /\ s \notin Calendars
    BY ProperRows, CalendarRows
  <1>2. w = Deleted(view, s)
    BY <1>1, WrittenRow
  <1>3. \A t \in Shifts : ~Of(view[t], s)
    BY <1>1, ProperRows DEF Of
  <1>4. view[Plant].calendar # s
    <2>1. s # None
      BY CalendarRows
    <2> QED
      BY <1>1, <2>1, ProperRows
  <1> HIDE DEF w
  <1>5. /\ w[ca] = view[ca] /\ w[Plant] = view[Plant] /\ w[s] = NoRow
        /\ \A t \in Shifts \ {s} : w[t] = view[t]
    BY <1>1, <1>2, <1>3, <1>4, DeletedRows
  <1>6. Of(view[s], ca) /\ s \in ShiftsOf(view, ca)
    BY DEF Of, ShiftsOf
  <1>7. view[ca] # NoRow
    BY <1>6 DEF Sound
  <1>8. Usable(view, ca)
    BY <1>7 DEF Sound
  <1>9. PICK t \in ShiftsOf(view, ca) : t # s
    BY <1>6
  <1> HIDE DEF ca
  <1>10. t \in Shifts /\ w[t] # NoRow /\ w[t].calendar = ca
    BY <1>5, <1>9 DEF ShiftsOf
  <1>11. ASSUME NEW a \in Shifts, NEW b \in Shifts, a # b, Of(w[a], ca), Of(w[b], ca)
         PROVE  {w[b].hours, w[a].hours} \notin Clashes
    <2>1. a # s /\ b # s
      BY <1>5, <1>11 DEF Of
    <2>2. Of(view[a], ca) /\ Of(view[b], ca) /\ w[a] = view[a] /\ w[b] = view[b]
      BY <1>5, <1>11, <2>1
    <2>3. \A x, y \in Shifts : x # y /\ Of(view[x], ca) /\ Of(view[y], ca) => {view[y].hours, view[x].hours} \notin Clashes
      BY <1>1, <1>8, UsableSays
    <2> QED
      BY <1>11, <2>2, <2>3
  <1>12. w[Plant].calendar = ca => w[ca].active
    BY <1>5, <1>8 DEF Usable
  <1>13. Usable(w, ca)
    BY <1>1, <1>10, <1>11, <1>12, UsableBy
  <1> QED
    BY <1>5, <1>7, <1>13 DEF Sound, w, ca

\* Creating a calendar with a shift.
LEMMA CreateSound ==
    ASSUME NEW view, Proper(view), NEW ca \in Calendars, view[ca] = NoRow, Sound(view, ca),
           NEW s \in Shifts, NEW h \in Hours
    PROVE  Sound(Executed(Executed(view, Insert(ca, [active |-> TRUE])), Insert(s, [calendar |-> ca, hours |-> h])), ca)
  <1> DEFINE first == [active |-> TRUE]
             row   == [calendar |-> ca, hours |-> h]
             v     == Executed(view, Insert(ca, first))
             w     == Executed(v, Insert(s, row))
  <1>1. first \in [active : BOOLEAN] /\ first.active
    OBVIOUS
  <1>2. row \in [calendar : Calendars, hours : Hours] /\ row.calendar = ca /\ row.hours = h
    OBVIOUS
  <1>3. row # NoRow /\ first # NoRow
    BY <1>1, <1>2, ProperRows
  <1> HIDE DEF first, row
  <1>4. v = [view EXCEPT ![ca] = first]
    BY WrittenRow, CalendarRows
  <1>5. DOMAIN v = Ids
    BY <1>4, ProperRows
  <1>6. w = [v EXCEPT ![s] = row]
    BY DEF Executed, After, Insert
  <1> HIDE DEF v, w
  <1>7. /\ w[ca] = first /\ w[s] = row
        /\ \A t \in Shifts \ {s} : w[t] = view[t]
    BY <1>4, <1>5, <1>6, ProperRows, CalendarRows
  <1>8. \A t \in Shifts : ~Of(view[t], ca)
    BY DEF Sound, ShiftsOf, Of
  <1>9. \A t \in Shifts : Of(w[t], ca) => t = s
    BY <1>7, <1>8
  <1>10. Usable(w, ca)
    <2>1. \A a, b \in Shifts : a # b /\ Of(w[a], ca) /\ Of(w[b], ca) => {w[b].hours, w[a].hours} \notin Clashes
      BY <1>9
    <2>2. w[s] # NoRow /\ w[s].calendar = ca
      BY <1>2, <1>3, <1>7
    <2>3. w[ca].active
      BY <1>1, <1>7
    <2> QED
      BY <2>1, <2>2, <2>3, UsableBy
  <1> QED
    BY <1>3, <1>7, <1>10 DEF Sound, v, w, first, row

\* A request of one statement, about one calendar's rows, that leaves it sound.
LEMMA OneCalendar ==
    ASSUME IInv, CalInv, IInv', NEW p \in Sessions, NEW op, NEW i, NEW ca \in Calendars, NEW a,
           Begin(p, op, i, {ca}, <<a>>), a.do # "renumber", Within({ca}, a),
           a.id \in Shifts => IF a.do = "insert" THEN Fresh(a.id) ELSE db[a.id] # NoRow,
           ca \notin raced => Sound(Executed(db, a), ca)
    PROVE  CalInv'
  <1> DEFINE sts   == <<a>>
             about == {ca}
  <1>1. Len(sts) = 1 /\ DOMAIN sts = {1} /\ sts[1] = a
    OBVIOUS
  <1>2. Begin(p, op, i, about, sts) /\ about = {ca}
    OBVIOUS
  <1> HIDE DEF sts, about
  <1>3. \A x, y \in about : x = y
    BY <1>2
  <1>4. Len(sts) <= 2 /\ (\A k \in DOMAIN sts : sts[k].do # "renumber") /\ (\A k \in DOMAIN sts : Within(about, sts[k]))
    BY <1>1, <1>2
  <1>5. \A k \in DOMAIN sts : sts[k].id \in Shifts =>
            IF sts[k].do = "insert" THEN Fresh(sts[k].id) ELSE db[sts[k].id] # NoRow
    BY <1>1
  <1>6. \A c \in about \ raced : Sound(Outcome(db, sts), c)
    BY <1>1, <1>2 DEF Outcome
  <1> QED
    BY <1>1, <1>2, <1>3, <1>4, <1>5, <1>6, BeginPlanner

\* Edits of calendars and of the default leave the calendar sound, if nobody else commits.
LEMMA EditCalendarsPlanner ==
    ASSUME IInv, CalInv, IInv', NEW p \in Sessions, EditCalendars(p)
    PROVE  CalInv'
  <1>1. Proper(db)
    BY ProperViews DEF IInv, CalInv
  <1>2. \A ca \in Calendars : ca \notin raced => Sound(db, ca)
    BY DEF CalInv
  <1>3. \A s \in Shifts : db[s] # NoRow => db[s].calendar \in Calendars
    BY <1>1, ProperRows
  <1>4. ASSUME NEW ca \in Calendars, NEW s \in Shifts, NEW h \in Hours, CreateCalendar(p, ca, s, h) PROVE CalInv'
    <2> DEFINE a == Insert(ca, [active |-> TRUE])
               b == Insert(s, [calendar |-> ca, hours |-> h])
               sts   == <<a, b>>
               about == {ca}
    <2>1. /\ a.do = "insert" /\ a.id = ca /\ b.do = "insert" /\ b.id = s /\ b.set.calendar = ca
      BY DEF Insert
    <2>2. Fresh(s) /\ db[ca] = NoRow /\ db[s] = NoRow
      BY <1>4 DEF CreateCalendar, Fresh
    <2>3. Within(about, a) /\ Within(about, b)
      BY <2>1, <2>2, CalendarRows DEF Within, BelongsTo
    <2>4. ca \notin raced => Sound(Executed(Executed(db, a), b), ca)
      BY <1>1, <1>2, <2>2, CreateSound
    <2>5. Len(sts) = 2 /\ DOMAIN sts = {1, 2} /\ sts[1] = a /\ sts[2] = b
      OBVIOUS
    <2>6. Begin(p, "createCalendar", ca, about, sts) /\ about = {ca}
      BY <1>4 DEF CreateCalendar
    <2> HIDE DEF sts, about, a, b
    <2>7. \A x, y \in about : x = y
      BY <2>6
    <2>8. Len(sts) <= 2 /\ \A k \in DOMAIN sts : sts[k].do # "renumber" /\ Within(about, sts[k])
      BY <2>1, <2>3, <2>5
    <2>9. \A k \in DOMAIN sts : sts[k].id \in Shifts =>
              IF sts[k].do = "insert" THEN Fresh(sts[k].id) ELSE db[sts[k].id] # NoRow
      BY <2>1, <2>2, <2>5, CalendarRows
    <2>10. \A c \in about \ raced : Sound(Outcome(db, sts), c)
      BY <2>4, <2>5, <2>6 DEF Outcome
    <2> QED
      BY <2>6, <2>7, <2>8, <2>9, <2>10, BeginPlanner
  <1>5. ASSUME NEW ca \in Calendars, NEW s \in Shifts, NEW h \in Hours, AddShift(p, ca, s, h) PROVE CalInv'
    <2> DEFINE a == Insert(s, [calendar |-> ca, hours |-> h])
    <2>1. a.do = "insert" /\ a.id = s /\ a.set.calendar = ca
      BY DEF Insert
    <2>2. Fresh(s) /\ db[s] = NoRow /\ Begin(p, "addShift", s, {ca}, <<a>>)
      BY <1>5 DEF AddShift, Fresh
    <2>3. Within({ca}, a)
      BY <2>1, <2>2, CalendarRows DEF Within, BelongsTo
    <2>4. ca \notin raced => Sound(Executed(db, a), ca)
      BY <1>1, <1>2, <1>5, <2>2, AddSound DEF AddShift
    <2> HIDE DEF a
    <2> QED
      BY <2>1, <2>2, <2>3, <2>4, OneCalendar
  <1>6. ASSUME NEW ca \in Calendars, NEW active \in BOOLEAN, SetCalendarActive(p, ca, active) PROVE CalInv'
    <2> DEFINE a == Update(ca, [active |-> active])
    <2>1. a.do = "update" /\ a.id = ca
      BY DEF Update
    <2>2. Begin(p, "setCalendarActive", ca, {ca}, <<a>>)
      BY <1>6 DEF SetCalendarActive
    <2>3. Within({ca}, a)
      BY <2>1, CalendarRows DEF Within
    <2>4. ca \notin raced => Sound(Executed(db, a), ca)
      BY <1>1, <1>2, <1>6, ActiveSound DEF SetCalendarActive
    <2> HIDE DEF a
    <2> QED
      BY <2>1, <2>2, <2>3, <2>4, CalendarRows, OneCalendar
  <1>7. ASSUME NEW ca \in Calendars, NEW op, Begin(p, op, Plant, {ca}, <<Update(Plant, [calendar |-> ca])>>),
               db[Plant].calendar = ca \/ CanBeDefault(ca)
        PROVE  CalInv'
    <2> DEFINE a == Update(Plant, [calendar |-> ca])
    <2>1. a.do = "update" /\ a.id = Plant /\ a.set.calendar = ca /\ Begin(p, op, Plant, {ca}, <<a>>)
      BY <1>7 DEF Update
    <2>2. Within({ca}, a)
      BY <2>1, CalendarRows DEF Within
    <2>3. ca \notin raced => Sound(Executed(db, a), ca)
      BY <1>1, <1>2, <1>7, DefaultSound DEF CanBeDefault
    <2> HIDE DEF a
    <2> QED
      BY <2>1, <2>2, <2>3, CalendarRows, OneCalendar
  <1>8. ASSUME NEW ca \in Calendars, SetDefaultCalendar(p, ca) PROVE CalInv'
    BY <1>7, <1>8 DEF SetDefaultCalendar
  <1>9. ASSUME NEW ca \in Calendars \cup {None}, UpdateTenantSettings(p, ca) PROVE CalInv'
    <2>1. CASE ca \in Calendars
      <3>1. {ca} \ {None} = {ca}
        BY <2>1, CalendarRows
      <3>2. Begin(p, "saveSettings", Plant, {ca}, <<Update(Plant, [calendar |-> ca])>>)
        BY <1>9, <3>1 DEF UpdateTenantSettings
      <3> QED
        BY <1>7, <1>9, <2>1, <3>2 DEF UpdateTenantSettings
    <2>2. CASE ca = None
      <3> DEFINE a     == Update(Plant, [calendar |-> ca])
                 sts   == <<a>>
                 about == {ca} \ {None}
      <3>1. a.do = "update" /\ a.id = Plant /\ a.set.calendar = ca
        BY DEF Update
      <3>2. DOMAIN sts = {1} /\ sts[1] = a /\ about = {}
        BY <2>2
      <3>3. Begin(p, "saveSettings", Plant, about, sts)
        BY <1>9 DEF UpdateTenantSettings
      <3>4. Within(about, a)
        BY <2>2, <3>1, CalendarRows DEF Within
      <3> HIDE DEF a, sts, about
      <3>5. \A k \in DOMAIN sts : Within(about, sts[k]) /\ sts[k].id \notin Shifts
        BY <3>1, <3>2, <3>4, CalendarRows
      <3> QED
        BY <3>2, <3>3, <3>5, BeginPlanner
    <2> QED
      BY <2>1, <2>2
  <1>10. ASSUME NEW ca \in Calendars, DeleteCalendar(p, ca) PROVE CalInv'
    <2> DEFINE a == Delete(ca)
    <2>1. a.do = "delete" /\ a.id = ca
      BY DEF Delete
    <2>2. Begin(p, "deleteCalendar", ca, {ca}, <<a>>)
      BY <1>10 DEF DeleteCalendar
    <2>3. Within({ca}, a)
      BY <2>1, CalendarRows DEF Within
    <2>4. Sound(Executed(db, a), ca)
      BY <1>1, DeleteSound
    <2> HIDE DEF a
    <2> QED
      BY <2>1, <2>2, <2>3, <2>4, CalendarRows, OneCalendar
  <1>11. ASSUME NEW s \in Shifts, NEW h \in Hours, UpdateShift(p, s, h) PROVE CalInv'
    <2> DEFINE a  == Update(s, [hours |-> h])
               ca == db[s].calendar
    <2>1. a.do = "update" /\ a.id = s /\ db[s] # NoRow
      BY <1>11 DEF Update, UpdateShift
    <2>2. Begin(p, "updateShift", s, {ca}, <<a>>) /\ ca \in Calendars
      BY <1>3, <1>11 DEF UpdateShift
    <2>3. Within({ca}, a)
      BY <2>1, CalendarRows DEF Within, BelongsTo
    <2>4. ca \notin raced => Sound(Executed(db, a), ca)
      BY <1>1, <1>2, <1>3, <1>11, UpdateSound DEF UpdateShift
    <2> HIDE DEF a, ca
    <2> QED
      BY <2>1, <2>2, <2>3, <2>4, OneCalendar
  <1>12. ASSUME NEW s \in Shifts, DeleteShift(p, s) PROVE CalInv'
    <2> DEFINE a  == Delete(s)
               ca == db[s].calendar
    <2>1. a.do = "delete" /\ a.id = s /\ db[s] # NoRow
      BY <1>12 DEF Delete, DeleteShift
    <2>2. Begin(p, "deleteShift", s, {ca}, <<a>>) /\ ca \in Calendars
      BY <1>3, <1>12 DEF DeleteShift
    <2>3. Within({ca}, a)
      BY <2>1, CalendarRows DEF Within, BelongsTo
    <2>4. ca \notin raced => Sound(Executed(db, a), ca)
      BY <1>1, <1>2, <1>3, <1>12, RemoveSound DEF DeleteShift
    <2> HIDE DEF a, ca
    <2> QED
      BY <2>1, <2>2, <2>3, <2>4, OneCalendar
  <1> QED
    BY <1>4, <1>5, <1>6, <1>8, <1>9, <1>10, <1>11, <1>12 DEF EditCalendars

\* At the beginning nothing is written, and the calendars are as they are assumed to be.
LEMMA InitPlanner == Init => CalInv
  <1> SUFFICES ASSUME Init PROVE CalInv
    OBVIOUS
  <1>1. /\ db = InitialRows /\ raced = {}
        /\ \A p \in Sessions : own[p] = NothingWritten /\ call[p] = NoCall /\ todo[p] = <<>>
    BY DEF Init
  <1>2. \A p \in Sessions, i \in Ids : own[p][i] = Unwritten
    BY <1>1 DEF NothingWritten
  <1>3. PlantThere
    BY <1>1, <1>2, CalendarRows, InitialCalendarsAssumption DEF PlantThere
  <1>4. NewShifts
    BY <1>1, <1>2, CalendarRows DEF NewShifts, Creates
  <1>5. ASSUME NEW p \in Sessions PROVE PlannerOK(p)
    <2>1. Confined(p)
      BY <1>1, <1>2, CalendarRows DEF Confined
    <2>2. call[p].about = {} /\ ~Open(p)
      <3>1. call[p] = NoCall
        BY <1>1
      <3>2. NoCall.about = {}
        BY DEF NoCall
      <3> QED
        BY <3>1, <3>2 DEF Open
    <2>3. Focused(p)
      BY <2>2 DEF Focused
    <2> QED
      BY <2>1, <2>2, <2>3 DEF PlannerOK
  <1>6. \A ca \in Calendars \ raced : Sound(db, ca)
    BY <1>1, InitialCalendarsAssumption
  <1> QED
    BY <1>3, <1>4, <1>5, <1>6 DEF CalInv

\* A stuttering step keeps it.
LEMMA StutterPlanner == ASSUME CalInv, UNCHANGED vars PROVE CalInv'
  <1>1. UNCHANGED <<db, own, call, todo, overlapped, raced>>
    BY DEF vars, local
  <1>2. PlantThere' /\ NewShifts'
    BY <1>1 DEF CalInv, PlantThere, NewShifts, Creates, Remembers
  <1>3. ASSUME NEW p \in Sessions PROVE PlannerOK(p)'
    <2>1. Confined(p) => Confined(p)'
      BY <1>1 DEF Confined, Within
    <2>2. Focused(p) => Focused(p)'
      BY <1>1 DEF Focused
    <2>3. (Open(p) <=> Open(p)') /\ (Leaves(p) => Leaves(p)')
      BY <1>1 DEF Open, Leaves, View
    <2> QED
      BY <2>1, <2>2, <2>3 DEF CalInv, PlannerOK
  <1>4. \A ca \in Calendars \ raced' : Sound(db', ca)
    BY <1>1 DEF CalInv
  <1> QED
    BY <1>2, <1>3, <1>4 DEF CalInv

\* So does every other step.
LEMMA StepPlanner == IInv /\ CalInv /\ IInv' /\ [Next]_vars => CalInv'
  <1> SUFFICES ASSUME IInv, CalInv, IInv', [Next]_vars PROVE CalInv'
    OBVIOUS
  <1>1. ASSUME NEW p \in Sessions, EditRouting(p) PROVE CalInv'
    BY <1>1, EditRoutingPlanner
  <1>2. ASSUME NEW p \in Sessions, EditMachines(p) PROVE CalInv'
    BY <1>2, EditMachinesPlanner
  <1>3. ASSUME NEW p \in Sessions, EditCalendars(p) PROVE CalInv'
    BY <1>3, EditCalendarsPlanner
  <1>4. ASSUME NEW p \in Sessions, ExecuteStatement(p) PROVE CalInv'
    BY <1>4, ExecutePlanner
  <1>5. ASSUME NEW p \in Sessions, ReadRouting(p) PROVE CalInv'
    BY <1>5, ReadPlanner
  <1>6. ASSUME NEW p \in Sessions, Commit(p) PROVE CalInv'
    BY <1>6, CommitPlanner
  <1>7. ASSUME NEW p \in Sessions, Rollback(p) PROVE CalInv'
    BY <1>7, RollbackPlanner
  <1>8. \A i \in Orders \cup Entries : i \in Ids /\ i \notin Calendars /\ i \notin Shifts /\ i # Plant
    <2>1. Table[Plant] = "Tenant"
      BY DEF IdsOf
    <2> QED
      BY <2>1 DEF Orders, Entries, Calendars, Shifts, IdsOf
  <1>9. ASSUME NEW o \in Orders, NEW pr \in Products, PlaceOrder(o, pr) PROVE CalInv'
    BY <1>8, <1>9, ElsewherePlanner DEF PlaceOrder
  <1>10. ASSUME NEW e \in Entries, NEW m \in Machines, PlanWork(e, m) PROVE CalInv'
    BY <1>8, <1>10, ElsewherePlanner DEF PlanWork
  <1>11. CASE UNCHANGED vars
    BY <1>11, StutterPlanner
  <1> QED
    BY <1>1, <1>2, <1>3, <1>4, <1>5, <1>6, <1>7, <1>9, <1>10, <1>11 DEF Next

\* A calendar keeps a shift, its shifts do not overlap and the default is
\* active, whatever happens to it in transactions that do not overlap about
\* it: the checks of calendars/mutations.ts and tenant/settings.ts are enough
\* but for a race on the calendar itself, and edits of other calendars,
\* machines and routings that overlap do not matter.
THEOREM CalendarsStayUsable == Spec => []CalendarsUsable
  <1>1. CalInv => CalendarsUsable
    BY DEF CalInv, CalendarsUsable, Sound
  <1>2. Init => CalInv
    BY InitPlanner
  <1>3. IInv /\ CalInv /\ IInv' /\ [Next]_vars => CalInv'
    BY StepPlanner
  <1> QED
    BY <1>1, <1>2, <1>3, Inductive, PTL DEF Spec

-----------------------------------------------------------------------------
(***************************************************************************)
(* References.  Every row that is seen, in the tables or in a transaction, *)
(* refers to rows that are seen with it.                                   *)
(***************************************************************************)
\* Nobody has deleted what another transaction's row refers to.
Kept ==
    \A p, q \in Sessions, i \in Ids : p # q /\ own[p][i] \notin {Unwritten, NoRow} =>
        \A x \in References(own[p][i]) : own[q][x] # NoRow

RefInv == Whole(db) /\ (\A p \in Sessions : Whole(View(p))) /\ Kept

\* Which rows refer to which.
LEMMA ReferenceKinds ==
    ASSUME NEW i \in Ids, NEW row \in Rows[Table[i]], NEW x \in References(row)
    PROVE  /\ x \in Ids /\ x \in Products \cup Centers \cup Machines \cup Calendars
           /\ x \in Products => i \in Steps \cup Orders
           /\ x \in Centers => i \in Machines \cup Steps \cup Entries
           /\ x \in Machines => i \in Steps \cup Entries
           /\ x \in Calendars => i \in Machines \cup Shifts \cup {Plant}
  <1>1. PICK f \in {"product", "center", "machine", "calendar"} : f \in DOMAIN row /\ x = row[f]
    BY DEF References
  <1>2. x # None
    BY DEF References
  <1>3. /\ Products \cap Centers = {} /\ Products \cap Machines = {} /\ Products \cap Calendars = {}
        /\ Centers \cap Machines = {} /\ Centers \cap Calendars = {} /\ Machines \cap Calendars = {}
    BY DEF Products, Centers, Machines, Calendars, IdsOf
  <1>4. Products \subseteq Ids /\ Centers \subseteq Ids /\ Machines \subseteq Ids /\ Calendars \subseteq Ids
    BY DEF Products, Centers, Machines, Calendars, IdsOf
  <1>5. CASE Table[i] \in {"Product", "WorkCenter", "ShiftCalendar"}
    <2>1. row \in [active : BOOLEAN]
      <3>1. i \in Products \/ i \in Centers \/ i \in Calendars
        BY <1>5 DEF Products, Centers, Calendars, IdsOf
      <3> QED
        BY <3>1, TableRows
    <2> QED
      BY <1>1, <2>1
  <1>6. CASE Table[i] = "ProductOperation"
    <2>1. row \in StepRows /\ i \in Steps
      BY <1>6 DEF Rows, Steps, IdsOf
    <2>2. DOMAIN row = {"product", "center", "machine", "seq"}
      BY <2>1 DEF StepRows
    <2>3. row.product \in Products /\ row.center \in Centers /\ row.machine \in Machines \cup {None}
      BY <2>1 DEF StepRows
    <2> QED
      BY <1>1, <1>2, <1>3, <1>4, <2>1, <2>2, <2>3
  <1>7. CASE Table[i] = "Machine"
    <2>1. row \in [center : Centers, calendar : Calendars, active : BOOLEAN] /\ i \in Machines
      BY <1>7 DEF Rows, Machines, IdsOf
    <2>2. DOMAIN row = {"center", "calendar", "active"} /\ row.center \in Centers /\ row.calendar \in Calendars
      BY <2>1
    <2> QED
      BY <1>1, <1>3, <1>4, <2>1, <2>2
  <1>8. CASE Table[i] = "Shift"
    <2>1. row \in [calendar : Calendars, hours : Hours] /\ i \in Shifts
      BY <1>8 DEF Rows, Shifts, IdsOf
    <2>2. DOMAIN row = {"calendar", "hours"} /\ row.calendar \in Calendars
      BY <2>1
    <2> QED
      BY <1>1, <1>3, <1>4, <2>1, <2>2
  <1>9. CASE Table[i] = "Tenant"
    <2>1. row \in [calendar : Calendars \cup {None}] /\ i = Plant
      BY <1>9 DEF Rows, IdsOf
    <2>2. DOMAIN row = {"calendar"} /\ row.calendar \in Calendars \cup {None}
      BY <2>1
    <2> QED
      BY <1>1, <1>2, <1>3, <1>4, <2>1, <2>2
  <1>10. CASE Table[i] = "Order"
    <2>1. row \in [product : Products] /\ i \in Orders
      BY <1>10 DEF Rows, Orders, IdsOf
    <2>2. DOMAIN row = {"product"} /\ row.product \in Products
      BY <2>1
    <2> QED
      BY <1>1, <1>3, <1>4, <2>1, <2>2
  <1>11. CASE Table[i] = "ScheduleEntry"
    <2>1. row \in [center : Centers, machine : Machines] /\ i \in Entries
      BY <1>11 DEF Rows, Entries, IdsOf
    <2>2. DOMAIN row = {"center", "machine"} /\ row.center \in Centers /\ row.machine \in Machines
      BY <2>1
    <2> QED
      BY <1>1, <1>3, <1>4, <2>1, <2>2
  <1> QED
    BY <1>5, <1>6, <1>7, <1>8, <1>9, <1>10, <1>11, RowTypes DEF Tables

\* Nothing refers to steps, shifts or what is not written.
LEMMA NotReferredTo ==
    ASSUME NEW i \in Ids, NEW row \in Rows[Table[i]], NEW x \in Steps \cup Shifts
    PROVE  x \notin References(row)
  <1>1. x \notin Products \cup Centers \cup Machines \cup Calendars
    BY DEF Products, Centers, Machines, Calendars, Steps, Shifts, IdsOf
  <1> QED
    BY <1>1, ReferenceKinds

\* An update refers to what it writes and to what the row has referred to.
LEMMA PatchedReferences ==
    ASSUME NEW row, NEW set
    PROVE  References(Patched(row, set)) \subseteq References(set) \cup References(row)
  BY DEF References, Patched

\* What a delete leaves refers to what it leaves, if nothing blocks it.
LEMMA DeletedWhole ==
    ASSUME NEW view, Proper(view), Whole(view), NEW x \in Ids, x # Plant, Blocking(view, x) = {}
    PROVE  Whole(Deleted(view, x))
  <1> DEFINE w == Deleted(view, x)
  <1> SUFFICES ASSUME NEW i \in Ids, w[i] # NoRow, NEW y \in References(w[i]) PROVE w[y] # NoRow
    BY DEF Whole
  <1>1. i # x /\ i \notin Cascaded(view, x)
    BY CalendarReferrers DEF Deleted
  <1>2. view[i] # NoRow /\ y \in References(view[i]) /\ y # x
    <2>1. CASE i = Plant /\ i \in Referrers(view, x)
      <3>1. view[Plant] \in [calendar : Calendars \cup {None}] /\ view[Plant] # NoRow /\ view[Plant].calendar = x
        BY <2>1, CalendarReferrers
      <3>2. w[i] = [view[i] EXCEPT !.calendar = None]
        BY <1>1, <2>1 DEF Deleted
      <3>3. w[i] \in [calendar : Calendars \cup {None}] /\ w[i].calendar = None
        BY <2>1, <3>1, <3>2
      <3>4. References(w[i]) = {}
        <4> HIDE DEF w
        <4> QED
          BY <3>3, CalendarRows
      <3> QED
        BY <3>4
    <2>2. CASE ~(i = Plant /\ i \in Referrers(view, x))
      <3>1. w[i] = view[i]
        BY <1>1, <2>2 DEF Deleted
      <3>2. i \notin Referrers(view, x)
        BY <1>1, <2>2 DEF Blocking
      <3>3. view[i] # NoRow /\ x \notin References(view[i])
        BY <3>1, <3>2 DEF Referrers
      <3> QED
        BY <3>1, <3>3
    <2> QED
      BY <2>1, <2>2
  <1>3. view[y] # NoRow
    BY <1>2 DEF Whole
  <1>4. y \in Ids /\ y \notin Steps /\ y \notin Shifts
    <2>1. view[i] \in Rows[Table[i]]
      BY <1>2 DEF Proper
    <2> QED
      BY <1>2, <2>1, ReferenceKinds, NotReferredTo
  <1>5. y \notin Cascaded(view, x)
    BY <1>4 DEF Cascaded
  <1>6. w[y] = IF y = Plant /\ y \in Referrers(view, x) THEN [view[y] EXCEPT !.calendar = None] ELSE view[y]
    BY <1>2, <1>4, <1>5 DEF Deleted
  <1>7. y # Plant
    <2>1. view[i] \in Rows[Table[i]]
      BY <1>2 DEF Proper
    <2>2. Plant \notin Products \cup Centers \cup Machines \cup Calendars
      BY CalendarRows
    <2> QED
      BY <1>2, <2>1, <2>2, ReferenceKinds
  <1> QED
    BY <1>3, <1>6, <1>7

\* A statement that finds what it refers to leaves the tables whole.
LEMMA ExecutedWhole ==
    ASSUME NEW view, Proper(view), Whole(view), NEW st, Fitting(st),
           st.do = "update" => view[st.id] # NoRow,
           st.do = "delete" => Blocking(view, st.id) = {},
           st.do # "delete" => \A x \in References(st.set) : view[x] # NoRow
    PROVE  Whole(After(view, st))
  <1>1. CASE st.do = "delete"
    BY <1>1, FittingKinds, DeletedWhole DEF After
  <1>2. CASE st.do # "delete"
    <2> DEFINE w == After(view, st)
    <2>1. st.id \in Ids /\ st.do \in {"insert", "update"}
      BY <1>2, FittingKinds
    <2>2. /\ st.do = "insert" => w = [view EXCEPT ![st.id] = st.set] /\ st.set \in Rows[Table[st.id]]
          /\ st.do = "update" => w = [view EXCEPT ![st.id] = Patched(view[st.id], st.set)] /\ st \in Updates
      BY <2>1, FittingKinds DEF After, Fitting
    <2>3. DOMAIN view = Ids
      BY DEF Proper
    <2> HIDE DEF w
    <2>4. w[st.id] # NoRow
      <3>1. CASE st.do = "insert"
        BY <2>1, <2>2, <2>3, <3>1, RowTypes
      <3>2. CASE st.do = "update"
        <4>1. view[st.id] \in Rows[Table[st.id]]
          BY <2>1, <3>2 DEF Proper
        <4>2. Patched(view[st.id], st.set) \in Rows[Table[st.id]]
          BY <2>2, <3>2, <4>1, UpdateTypes
        <4> QED
          BY <2>1, <2>2, <2>3, <3>2, <4>2, RowTypes
      <3> QED
        BY <2>1, <3>1, <3>2
    <2>5. \A i \in Ids \ {st.id} : w[i] = view[i]
      BY <2>1, <2>2, <2>3
    <2>6. ASSUME NEW i \in Ids, w[i] # NoRow, NEW x \in References(w[i]) PROVE view[x] # NoRow
      <3>1. CASE i # st.id
        BY <2>5, <2>6, <3>1 DEF Whole
      <3>2. CASE i = st.id /\ st.do = "insert"
        BY <1>2, <2>1, <2>2, <2>3, <2>6, <3>2
      <3>3. CASE i = st.id /\ st.do = "update"
        <4>1. x \in References(st.set) \cup References(view[i])
          BY <2>1, <2>2, <2>3, <2>6, <3>3, PatchedReferences
        <4> QED
          BY <1>2, <2>1, <3>3, <4>1 DEF Whole
      <3> QED
        BY <2>1, <3>1, <3>2, <3>3
    <2>7. \A i \in Ids : w[i] \in Rows[Table[i]] \cup {NoRow}
      <3>1. w = Executed(view, st)
        BY <1>2 DEF Executed, w
      <3> QED
        BY <3>1, ExecutedProper DEF Proper
    <2>8. ASSUME NEW i \in Ids, w[i] # NoRow, NEW x \in References(w[i]) PROVE w[x] # NoRow
      <3>1. x \in Ids
        BY <2>7, <2>8, ReferenceKinds
      <3> QED
        BY <2>4, <2>5, <2>6, <2>8, <3>1
    <2> QED
      BY <2>8 DEF Whole, w
  <1> QED
    BY <1>1, <1>2

\* What a statement makes rows refer to, and which rows it takes away.
LEMMA AfterReferences ==
    ASSUME NEW view, Proper(view), NEW st, Fitting(st), st.do = "update" => view[st.id] # NoRow,
           NEW i \in Ids
    PROVE  LET w == After(view, st) IN
           /\ w[i] # NoRow => \A x \in References(w[i]) :
                 (st.do # "delete" /\ x \in References(st.set)) \/ (view[i] # NoRow /\ x \in References(view[i]))
           /\ w[i] = NoRow /\ view[i] # NoRow => st.do = "delete" /\ (i = st.id \/ i \in Steps \cup Shifts)
  <1> DEFINE w == After(view, st)
  <1>1. DOMAIN view = Ids /\ st.id \in Ids
    BY FittingKinds DEF Proper
  <1>2. CASE st.do = "insert"
    <2>1. w = [view EXCEPT ![st.id] = st.set] /\ st.set # NoRow
      BY <1>1, <1>2, RowTypes DEF After, Fitting
    <2> HIDE DEF w
    <2>2. w[i] = IF i = st.id THEN st.set ELSE view[i]
      BY <1>1, <2>1
    <2> QED
      BY <1>2, <2>1, <2>2 DEF w
  <1>3. CASE st.do = "update"
    <2>1. w = [view EXCEPT ![st.id] = Patched(view[st.id], st.set)]
      BY <1>3 DEF After
    <2>2. Patched(view[st.id], st.set) # NoRow
      <3>1. view[st.id] \in Rows[Table[st.id]] /\ st \in Updates
        BY <1>1, <1>3, FittingKinds DEF Proper
      <3> QED
        BY <1>1, <3>1, UpdateTypes, RowTypes
    <2> HIDE DEF w
    <2>3. w[i] = IF i = st.id THEN Patched(view[st.id], st.set) ELSE view[i]
      BY <1>1, <2>1
    <2>4. ASSUME NEW x \in References(w[i]), w[i] # NoRow
          PROVE  x \in References(st.set) \/ (view[i] # NoRow /\ x \in References(view[i]))
      BY <1>3, <2>3, <2>4, PatchedReferences
    <2> QED
      BY <1>3, <2>2, <2>3, <2>4 DEF w
  <1>4. CASE st.do = "delete"
    <2>1. w = Deleted(view, st.id) /\ st.id # Plant
      BY <1>4, FittingKinds DEF After
    <2>2. CASE i = Plant
      <3>1. w[Plant] \in [calendar : Calendars \cup {None}]
        BY <1>1, <2>1, DeletedRows
      <3>2. w[Plant].calendar = IF view[Plant].calendar = st.id THEN None ELSE view[Plant].calendar
        BY <1>1, <2>1, DeletedRows
      <3>3. view[Plant] \in [calendar : Calendars \cup {None}] /\ view[Plant] # NoRow
        BY <1>1, CalendarReferrers
      <3> HIDE DEF w
      <3>4. References(w[Plant]) = {w[Plant].calendar} \ {None} /\ References(view[Plant]) = {view[Plant].calendar} \ {None}
        BY <3>1, <3>3, CalendarRows
      <3>5. w[Plant] # NoRow
        <4>1. Rows[Table[Plant]] = [calendar : Calendars \cup {None}] /\ Plant \in Ids
          BY CalendarRows
        <4> QED
          BY <3>1, <4>1, RowTypes
      <3> QED
        BY <2>2, <3>2, <3>3, <3>4, <3>5 DEF w
    <2>3. CASE i # Plant
      <3>1. w[i] = IF i = st.id \/ i \in Cascaded(view, st.id) THEN NoRow ELSE view[i]
        BY <2>1, <2>3 DEF Deleted
      <3>2. i \in Cascaded(view, st.id) => i \in Steps \cup Shifts
        BY DEF Cascaded
      <3> HIDE DEF w
      <3> QED
        BY <1>4, <3>1, <3>2 DEF w
    <2> QED
      BY <2>2, <2>3
  <1> QED
    BY <1>2, <1>3, <1>4, FittingKinds

\* A statement keeps references.
LEMMA ExecuteRefs ==
    ASSUME IInv, CalInv, RefInv, NEW p \in Sessions, ExecuteStatement(p)
    PROVE  RefInv'
  <1> DEFINE st    == Statement(p)
             view  == View(p)
             after == After(view, st)
  <1>1. /\ Fitting(st) /\ st.id \in Ids
        /\ st.do = "update" => view[st.id] # NoRow
    BY StatementTypes DEF IInv, Fitting
  <1>2. /\ own' = [own EXCEPT ![p] = [i \in Ids |-> IF i \in Written(p) THEN after[i] ELSE own[p][i]]]
        /\ View(p)' = after /\ db' = db
    BY ViewAfter DEF IInv, ExecuteStatement
  <1>3. /\ \A i \in Ids : own'[p][i] = IF i \in Written(p) THEN after[i] ELSE own[p][i]
        /\ \A q \in Sessions \ {p} : own'[q] = own[q]
    BY <1>2 DEF IInv, TypeOK
  <1>4. Proper(view) /\ Whole(view)
    BY ProperViews DEF IInv, CalInv, RefInv
  <1>5. /\ st.do = "delete" => Blocking(view, st.id) = {}
        /\ st.do # "delete" => \A x \in References(st.set) : view[x] # NoRow
    BY <1>1, FittingKinds DEF ExecuteStatement, Fails
  <1>6. Whole(View(p)')
    <2> HIDE DEF st, view
    <2> QED
      BY <1>1, <1>2, <1>4, <1>5, ExecutedWhole
  <1>7. ASSUME NEW q \in Sessions, q # p
        PROVE  /\ \A i \in Written(p) : own[q][i] = Unwritten
               /\ st.do # "delete" => \A x \in References(st.set) : own[q][x] # NoRow
               /\ st.do = "delete" => \A i \in Ids : own[q][i] \notin {Unwritten, NoRow} => st.id \notin References(own[q][i])
    <2>1. ~WaitsFor(p, q) /\ st.do # "renumber"
      BY <1>7 DEF ExecuteStatement, Ready
    <2> QED
      BY <2>1 DEF WaitsFor
  <1>8. \A i \in Ids : view[i] = IF own[p][i] = Unwritten THEN db[i] ELSE own[p][i]
    BY DEF View
  <1>9. \A i \in Ids : /\ after[i] # NoRow => \A x \in References(after[i]) :
                             (st.do # "delete" /\ x \in References(st.set)) \/ (view[i] # NoRow /\ x \in References(view[i]))
                       /\ after[i] = NoRow /\ view[i] # NoRow => st.do = "delete" /\ (i = st.id \/ i \in Steps \cup Shifts)
    <2> HIDE DEF st, view
    <2> QED
      BY <1>1, <1>4, AfterReferences
  <1> HIDE DEF st, view, after
  <1>10. ASSUME NEW q \in Sessions, q # p PROVE Whole(View(q)')
    <2>1. View(q)' = View(q)
      BY <1>2, <1>3, <1>10 DEF View
    <2> QED
      BY <1>10, <2>1 DEF RefInv
  <1>11. ASSUME NEW r \in Sessions, NEW q \in Sessions, r # q, NEW i \in Ids, own'[r][i] \notin {Unwritten, NoRow},
                NEW x \in References(own'[r][i])
         PROVE  own'[q][x] # NoRow
    <2>1. CASE r = p /\ i \notin Written(p)
      <3>1. own'[p][i] = own[p][i] /\ own'[q] = own[q]
        BY <1>3, <1>11, <2>1
      <3> QED
        BY <1>11, <2>1, <3>1 DEF RefInv, Kept
    <2>2. CASE r = p /\ i \in Written(p)
      <3>1. own'[p][i] = after[i] /\ own'[q] = own[q] /\ q # p
        BY <1>3, <1>11, <2>2
      <3>2. CASE st.do # "delete" /\ x \in References(st.set)
        BY <1>7, <3>1, <3>2
      <3>3. CASE view[i] # NoRow /\ x \in References(view[i])
        <4>1. CASE own[p][i] = Unwritten
          <5>1. View(q)[i] = view[i]
            BY <1>7, <1>8, <2>2, <3>1, <4>1 DEF View
          <5>2. view[i] \in Rows[Table[i]]
            BY <1>4, <3>3 DEF Proper
          <5>3. x \in Ids
            BY <3>3, <5>2, ReferenceKinds
          <5>4. View(q)[x] # NoRow
            BY <3>3, <5>1 DEF RefInv, Whole
          <5> QED
            BY <3>1, <5>3, <5>4, PlantDataAssumption DEF View
        <4>2. CASE own[p][i] # Unwritten
          BY <1>8, <3>1, <3>3, <4>2 DEF RefInv, Kept
        <4> QED
          BY <4>1, <4>2
      <3> QED
        BY <1>9, <1>11, <2>2, <3>1, <3>2, <3>3
    <2>3. CASE r # p
      <3>1. own'[r] = own[r]
        BY <1>3, <2>3
      <3>2. own[r][i] \in Rows[Table[i]]
        BY <1>11, <3>1 DEF IInv, TypeOK
      <3>3. x \in Ids /\ x \notin Steps \cup Shifts
        BY <1>11, <3>1, <3>2, ReferenceKinds, NotReferredTo
      <3>4. own[q][x] # NoRow
        BY <1>11, <3>1 DEF RefInv, Kept
      <3>5. CASE q # p \/ x \notin Written(p)
        BY <1>3, <3>3, <3>4, <3>5
      <3>6. CASE q = p /\ x \in Written(p)
        <4>1. own'[p][x] = after[x]
          BY <1>3, <3>3, <3>6
        <4>2. View(r)[i] = own[r][i]
          BY <1>11, <3>1 DEF View
        <4>3. View(r)[x] # NoRow
          BY <1>11, <3>1, <4>2 DEF RefInv, Whole
        <4>4. own[r][x] = Unwritten
          BY <1>7, <2>3, <3>6
        <4>5. db[x] # NoRow
          BY <3>3, <4>3, <4>4 DEF View
        <4>6. view[x] # NoRow
          BY <1>8, <3>3, <3>4, <3>6, <4>5
        <4>7. ~(st.do = "delete" /\ x = st.id)
          BY <1>7, <1>11, <2>3, <3>1
        <4> QED
          BY <1>9, <3>3, <3>6, <4>1, <4>6, <4>7
      <3> QED
        BY <3>5, <3>6
    <2> QED
      BY <2>1, <2>2, <2>3
  <1>12. Kept'
    BY <1>11 DEF Kept
  <1>13. \A q \in Sessions : Whole(View(q)')
    BY <1>6, <1>10
  <1>14. Whole(db')
    BY <1>2 DEF RefInv
  <1> QED
    BY <1>12, <1>13, <1>14 DEF RefInv, Whole

\* So does a commit.
LEMMA CommitRefs ==
    ASSUME IInv, RefInv, NEW p \in Sessions, Commit(p)
    PROVE  RefInv'
  <1> DEFINE view == View(p)
  <1>1. Closed(p) /\ db' = view
    BY DEF Commit
  <1>2. own'[p] = NothingWritten /\ \A q \in Sessions \ {p} : own'[q] = own[q]
    BY <1>1, ClosedTypes DEF IInv
  <1>3. \A i \in Ids : view[i] = IF own[p][i] = Unwritten THEN db[i] ELSE own[p][i]
    BY DEF View
  <1>4. Whole(view)
    BY DEF RefInv
  <1>5. \A i \in Ids : own'[p][i] = Unwritten
    BY <1>2 DEF NothingWritten
  <1>6. \A i \in Ids : View(p)'[i] = view[i]
    BY <1>1, <1>5 DEF View
  <1>7. \A i \in Ids : view[i] \in Rows[Table[i]] \cup {NoRow}
    BY <1>3 DEF IInv, TypeOK
  <1> HIDE DEF view
  <1>8. Whole(View(p)')
    <2>1. ASSUME NEW i \in Ids, view[i] # NoRow, NEW x \in References(view[i]) PROVE x \in Ids /\ view[x] # NoRow
      BY <1>4, <1>7, <2>1, ReferenceKinds DEF Whole
    <2> QED
      BY <1>6, <2>1 DEF Whole
  <1>9. ASSUME NEW q \in Sessions, q # p PROVE Whole(View(q)')
    <2> SUFFICES ASSUME NEW i \in Ids, View(q)'[i] # NoRow, NEW x \in References(View(q)'[i])
                 PROVE  View(q)'[x] # NoRow
      BY DEF Whole
    <2>1. \A y \in Ids : View(q)'[y] = IF own[q][y] = Unwritten THEN view[y] ELSE own[q][y]
      BY <1>1, <1>2, <1>9 DEF View
    <2>2. \A y \in Ids : View(q)[y] = IF own[q][y] = Unwritten THEN db[y] ELSE own[q][y]
      BY DEF View
    <2>3. View(q)'[i] \in Rows[Table[i]]
      <3>1. own[q][i] \in Rows[Table[i]] \cup {NoRow, Unwritten}
        BY DEF IInv, TypeOK
      <3> QED
        BY <1>7, <2>1, <3>1
    <2>4. x \in Ids
      BY <2>3, ReferenceKinds
    <2>5. Whole(View(q))
      BY <1>9 DEF RefInv
    <2>6. CASE own[q][i] # Unwritten
      <3>1. own[q][i] = View(q)'[i] /\ View(q)[i] = View(q)'[i]
        BY <2>1, <2>2, <2>6
      <3>2. View(q)[x] # NoRow
        BY <2>5, <3>1 DEF Whole
      <3>3. own[p][x] # NoRow
        BY <1>9, <2>6, <3>1 DEF RefInv, Kept
      <3> QED
        BY <1>3, <2>1, <2>2, <2>4, <3>2, <3>3
    <2>7. CASE own[q][i] = Unwritten
      <3>1. view[i] = View(q)'[i]
        BY <2>1, <2>7
      <3>2. view[x] # NoRow
        BY <1>4, <3>1 DEF Whole
      <3>3. own[q][x] # NoRow
        <4>1. CASE own[p][i] # Unwritten
          BY <1>3, <1>9, <3>1, <4>1 DEF RefInv, Kept
        <4>2. CASE own[p][i] = Unwritten
          <5>1. View(q)[i] = View(q)'[i]
            BY <1>3, <2>2, <2>7, <3>1, <4>2
          <5>2. View(q)[x] # NoRow
            BY <2>5, <5>1 DEF Whole
          <5> QED
            BY <2>2, <2>4, <5>2, PlantDataAssumption
        <4> QED
          BY <4>1, <4>2
      <3> QED
        BY <2>1, <2>4, <3>2, <3>3
    <2> QED
      BY <2>6, <2>7
  <1>10. Kept'
    <2>1. ASSUME NEW r \in Sessions, NEW q \in Sessions, r # q, NEW i \in Ids, own'[r][i] \notin {Unwritten, NoRow},
                 NEW x \in References(own'[r][i])
          PROVE  own'[q][x] # NoRow
      <3>1. r # p
        BY <1>5, <2>1
      <3>2. own'[r] = own[r]
        BY <1>2, <3>1
      <3>3. own[r][i] \in Rows[Table[i]]
        BY <2>1, <3>2 DEF IInv, TypeOK
      <3>4. x \in Ids
        BY <2>1, <3>2, <3>3, ReferenceKinds
      <3>5. CASE q = p
        BY <1>5, <3>4, <3>5, PlantDataAssumption
      <3>6. CASE q # p
        BY <1>2, <2>1, <3>2, <3>6 DEF RefInv, Kept
      <3> QED
        BY <3>5, <3>6
    <2> QED
      BY <2>1 DEF Kept
  <1>11. Whole(db')
    BY <1>1, <1>4
  <1>12. \A q \in Sessions : Whole(View(q)')
    BY <1>8, <1>9
  <1> QED
    BY <1>10, <1>11, <1>12 DEF RefInv, Whole

\* And a rollback.
LEMMA RollbackRefs ==
    ASSUME IInv, RefInv, NEW p \in Sessions, Rollback(p)
    PROVE  RefInv'
  <1>1. db' = db /\ own'[p] = NothingWritten /\ \A q \in Sessions \ {p} : own'[q] = own[q]
    BY ClosedTypes DEF IInv, Rollback
  <1>2. \A i \in Ids : own'[p][i] = Unwritten
    BY <1>1 DEF NothingWritten
  <1>3. View(p)' = db
    <2>1. View(p)' = [i \in Ids |-> db[i]]
      BY <1>1, <1>2 DEF View
    <2> QED
      BY <2>1 DEF IInv, TypeOK
  <1>4. \A q \in Sessions \ {p} : View(q)' = View(q)
    BY <1>1 DEF View
  <1>5. \A q \in Sessions : Whole(View(q)')
    BY <1>3, <1>4 DEF RefInv
  <1>6. Kept'
    <2>1. ASSUME NEW r \in Sessions, NEW q \in Sessions, r # q, NEW i \in Ids, own'[r][i] \notin {Unwritten, NoRow},
                 NEW x \in References(own'[r][i])
          PROVE  own'[q][x] # NoRow
      <3>1. r # p
        BY <1>2, <2>1
      <3>2. own'[r] = own[r]
        BY <1>1, <3>1
      <3>3. own[r][i] \in Rows[Table[i]]
        BY <2>1, <3>2 DEF IInv, TypeOK
      <3>4. x \in Ids
        BY <2>1, <3>2, <3>3, ReferenceKinds
      <3>5. CASE q = p
        BY <1>2, <3>4, <3>5, PlantDataAssumption
      <3>6. CASE q # p
        BY <1>1, <2>1, <3>2, <3>6 DEF RefInv, Kept
      <3> QED
        BY <3>5, <3>6
    <2> QED
      BY <2>1 DEF Kept
  <1>7. Whole(db')
    BY <1>1 DEF RefInv
  <1> QED
    BY <1>5, <1>6, <1>7 DEF RefInv, Whole

\* And what others insert.
LEMMA ElsewhereRefs ==
    ASSUME IInv, RefInv, NEW op, NEW i \in Ids, NEW row \in Rows[Table[i]], Elsewhere(op, i, row)
    PROVE  RefInv'
  <1>1. /\ db' = [db EXCEPT ![i] = row] /\ own' = own /\ db[i] = NoRow /\ \A p \in Sessions : own[p][i] = Unwritten
        /\ \A x \in References(row) : db[x] # NoRow /\ \A p \in Sessions : own[p][x] # NoRow
    BY DEF Elsewhere, Fresh
  <1>2. row # NoRow
    BY RowTypes
  <1>3. \A x \in Ids : db'[x] = IF x = i THEN row ELSE db[x]
    BY <1>1 DEF IInv, TypeOK
  <1>4. ASSUME NEW y \in Ids, db[y] # NoRow, NEW x \in References(db[y]) PROVE x \in Ids /\ db[x] # NoRow
    <2>1. db[y] \in Rows[Table[y]]
      BY <1>4 DEF IInv, TypeOK
    <2> QED
      BY <1>4, <2>1, ReferenceKinds DEF RefInv, Whole
  <1>5. \A x \in References(row) : x \in Ids
    BY ReferenceKinds
  <1>6. Whole(db')
    BY <1>1, <1>2, <1>3, <1>4, <1>5 DEF Whole
  <1>7. ASSUME NEW p \in Sessions PROVE Whole(View(p)')
    <2>1. \A x \in Ids : View(p)'[x] = IF x = i THEN row ELSE View(p)[x]
      BY <1>1, <1>3 DEF View
    <2>2. \A x \in Ids : View(p)[x] = IF own[p][x] = Unwritten THEN db[x] ELSE own[p][x]
      BY DEF View
    <2>3. \A x \in References(row) : View(p)[x] # NoRow
      BY <1>1, <1>5, <2>2
    <2>4. ASSUME NEW y \in Ids, View(p)[y] # NoRow, NEW x \in References(View(p)[y]) PROVE x \in Ids /\ View(p)[x] # NoRow
      <3>1. View(p)[y] \in Rows[Table[y]]
        BY <2>2, <2>4 DEF IInv, TypeOK
      <3> QED
        BY <2>4, <3>1, ReferenceKinds DEF RefInv, Whole
    <2> QED
      BY <1>2, <1>5, <2>1, <2>3, <2>4 DEF Whole
  <1>8. Kept'
    BY <1>1 DEF RefInv, Kept
  <1> QED
    BY <1>6, <1>7, <1>8 DEF RefInv, Whole

\* Nothing else writes rows.
LEMMA RefsKept ==
    ASSUME RefInv, UNCHANGED <<db, own>>
    PROVE  RefInv'
  BY DEF RefInv, Whole, Kept, View

-----------------------------------------------------------------------------
(***************************************************************************)
(* Errors.  As long as nobody overlaps a transaction its remaining         *)
(* statements do not fail (Smooth): two at most, or a renumbering, which   *)
(* gives no step a number that another one has at that time (Renumbers);   *)
(* or it wants to delete what planned work may refer to (Wants).           *)
(***************************************************************************)
FailsIn(view, st) ==
    \/ st.do # "insert" /\ st.id # None /\ view[st.id] = NoRow
    \/ st.do = "delete" /\ Blocking(view, st.id) # {}
    \/ /\ st.do \in {"insert", "update"}
       /\ st.do = "update" => view[st.id] # NoRow
       /\ \/ \E i \in References(st.set) : view[i] = NoRow
          \/ "seq" \in DOMAIN st.set /\ Taken(After(view, st), st.id, st.set.seq)

\* Every other step has another number, or is renumbered before.
Clears(view, sts, k) ==
    \A t \in StepsOf(view, view[sts[k].id].product) \ {sts[k].id} :
        view[t].seq # sts[k].set.seq \/ \E j \in 1 .. k - 1 : sts[j].id = t
Renumbers(view, sts) ==
    /\ \A k \in DOMAIN sts :
          /\ sts[k].do = "update" /\ sts[k].id \in Steps /\ DOMAIN sts[k].set = {"seq"}
          /\ view[sts[k].id] # NoRow
          /\ Clears(view, sts, k)
    /\ \A j, k \in DOMAIN sts : sts[j].id # sts[k].id => sts[j].set.seq # sts[k].set.seq

Smooth(view, sts) ==
    \/ Renumbers(view, sts)
    \/ Len(sts) = 1 /\ ~FailsIn(view, sts[1])
    \/ Len(sts) = 2 /\ ~FailsIn(view, sts[1]) /\ ~FailsIn(After(view, sts[1]), sts[2])

Wants(p) ==
    /\ call[p].op \in {"deleteMachine", "deleteCenter"} /\ own[p] = NothingWritten
    /\ todo[p] = <<Delete(call[p].id)>> /\ db[call[p].id] # NoRow /\ Blocking(db, call[p].id) \subseteq Entries

ErrInv == \A p \in Sessions : Open(p) /\ overlapped[p] = {} => Smooth(View(p), todo[p]) \/ Wants(p)

\* After the first number of a renumbering the rest is one.
LEMMA RenumbersRest ==
    ASSUME NEW view, Proper(view), NEW sts \in Seq(Statements), sts # <<>>, Renumbers(view, sts)
    PROVE  ~FailsIn(view, sts[1]) /\ Renumbers(After(view, sts[1]), Tail(sts))
  <1> DEFINE st   == sts[1]
             s    == st.id
             w    == After(view, st)
             rest == Tail(sts)
  <1>1. 1 \in DOMAIN sts /\ \A k \in DOMAIN rest : k + 1 \in DOMAIN sts /\ rest[k] = sts[k + 1] /\ k \in Nat \ {0}
    BY RestOfStatements
  <1>2. st.do = "update" /\ s \in Steps /\ DOMAIN st.set = {"seq"} /\ view[s] # NoRow /\ Clears(view, sts, 1)
    BY <1>1 DEF Renumbers
  <1>3. \A t \in Steps : t \in Ids /\ view[t] \in StepRows \cup {NoRow}
    BY RowTypes DEF Proper
  <1>4. DOMAIN view = Ids
    BY DEF Proper
  <1>5. w = [view EXCEPT ![s] = Patched(view[s], st.set)]
    BY <1>2 DEF After
  <1>6. /\ Patched(view[s], st.set) \in StepRows
        /\ Patched(view[s], st.set).seq = st.set.seq
        /\ Patched(view[s], st.set).product = view[s].product
    <2>1. view[s] \in StepRows
      BY <1>2, <1>3
    <2>2. DOMAIN view[s] = {"product", "center", "machine", "seq"}
      BY <2>1 DEF StepRows
    <2>3. st \in Updates
      BY <1>1, <1>2, StatementKinds
    <2>4. Patched(view[s], st.set) \in Rows[Table[s]]
      BY <1>2, <2>1, <2>3, RowTypes, UpdateTypes
    <2>5. Patched(view[s], st.set) \in StepRows
      BY <1>2, <2>4, RowTypes
    <2>6. Patched(view[s], st.set) = [f \in DOMAIN view[s] |-> IF f \in {"seq"} THEN st.set[f] ELSE view[s][f]]
      BY <1>2 DEF Patched
    <2>7. Patched(view[s], st.set).seq = st.set.seq /\ Patched(view[s], st.set).product = view[s].product
      BY <2>2, <2>6
    <2> QED
      BY <2>5, <2>7
  <1> HIDE DEF w, rest, st, s
  <1>7. /\ w[s] \in StepRows /\ w[s].seq = st.set.seq /\ w[s].product = view[s].product /\ w[s] # NoRow
        /\ \A t \in Steps \ {s} : w[t] = view[t]
    <2>1. w[s] = Patched(view[s], st.set) /\ \A t \in Steps \ {s} : w[t] = view[t]
      BY <1>2, <1>3, <1>4, <1>5
    <2>2. NoRow \notin StepRows
      BY <1>2, RowTypes
    <2> QED
      BY <1>6, <2>1, <2>2
  <1>8. \A t \in Steps : (w[t] # NoRow <=> view[t] # NoRow) /\ w[t].product = view[t].product
    BY <1>2, <1>7
  <1>9. \A pr : StepsOf(w, pr) = StepsOf(view, pr)
    BY <1>8 DEF StepsOf
  <1>10. ~FailsIn(view, st)
    <2>1. References(st.set) = {}
      BY <1>2 DEF References
    <2>2. ~Taken(w, s, st.set.seq)
      <3> SUFFICES ASSUME NEW t \in StepsOf(w, w[s].product) \ {s}, w[t].seq = st.set.seq PROVE FALSE
        BY DEF Taken
      <3>1. t \in StepsOf(view, view[s].product) \ {s} /\ t \in Steps
        BY <1>7, <1>9 DEF StepsOf
      <3>2. view[t].seq = st.set.seq
        BY <1>7, <3>1
      <3>3. \E j \in 1 .. 1 - 1 : sts[j].id = t
        BY <1>2, <3>1, <3>2 DEF Clears, st, s
      <3> QED
        BY <3>3
    <2> QED
      BY <1>2, <2>1, <2>2 DEF FailsIn, w, s
  <1>11. ASSUME NEW k \in DOMAIN rest
         PROVE  /\ rest[k].do = "update" /\ rest[k].id \in Steps /\ DOMAIN rest[k].set = {"seq"}
                /\ w[rest[k].id] # NoRow /\ Clears(w, rest, k)
    <2>1. k + 1 \in DOMAIN sts /\ rest[k] = sts[k + 1] /\ k \in Nat \ {0}
      BY <1>1
    <2>2. /\ rest[k].do = "update" /\ rest[k].id \in Steps /\ DOMAIN rest[k].set = {"seq"}
          /\ view[rest[k].id] # NoRow /\ Clears(view, sts, k + 1)
      BY <2>1 DEF Renumbers
    <2>3. ASSUME NEW t \in StepsOf(w, w[rest[k].id].product) \ {rest[k].id}, w[t].seq = rest[k].set.seq
          PROVE  \E j \in 1 .. k - 1 : rest[j].id = t
      <3>1. t \in StepsOf(view, view[rest[k].id].product) \ {rest[k].id} /\ t \in Steps
        BY <1>8, <1>9, <2>2, <2>3 DEF StepsOf
      <3>2. t # s
        <4> SUFFICES ASSUME t = s PROVE FALSE
          OBVIOUS
        <4>1. sts[1].id # sts[k + 1].id /\ sts[1].set.seq = sts[k + 1].set.seq
          BY <1>7, <2>1, <2>3 DEF s, st
        <4> QED
          BY <1>1, <2>1, <4>1 DEF Renumbers
      <3>3. view[t].seq = sts[k + 1].set.seq
        BY <1>7, <2>1, <2>3, <3>1, <3>2
      <3>4. PICK j \in 1 .. (k + 1) - 1 : sts[j].id = t
        BY <2>1, <2>2, <3>1, <3>3 DEF Clears
      <3>5. j # 1
        BY <3>2, <3>4 DEF s, st
      <3>6. j - 1 \in 1 .. k - 1 /\ j - 1 \in DOMAIN rest /\ (j - 1) + 1 = j
        <4>1. DOMAIN rest = 1 .. Len(rest)
          BY DEF rest
        <4>2. Len(rest) \in Nat
          BY DEF rest
        <4> QED
          BY <2>1, <3>4, <3>5, <4>1, <4>2
      <3>7. rest[j - 1] = sts[j]
        BY <1>1, <3>6
      <3> QED
        BY <3>4, <3>6, <3>7
    <2>4. w[rest[k].id] # NoRow
      BY <1>8, <2>2
    <2>5. Clears(w, rest, k)
      BY <2>3 DEF Clears
    <2> QED
      BY <2>2, <2>4, <2>5
  <1>12. \A j, k \in DOMAIN rest : rest[j].id # rest[k].id => rest[j].set.seq # rest[k].set.seq
    BY <1>1 DEF Renumbers
  <1> QED
    BY <1>10, <1>11, <1>12 DEF Renumbers, w, rest, st

\* After the first of a transaction's statements the rest is smooth.
LEMMA SmoothRest ==
    ASSUME NEW view, Proper(view), NEW sts \in Seq(Statements), sts # <<>>, Smooth(view, sts)
    PROVE  ~FailsIn(view, sts[1]) /\ Smooth(After(view, sts[1]), Tail(sts))
  <1>1. CASE Renumbers(view, sts)
    BY <1>1, RenumbersRest DEF Smooth
  <1>2. CASE Len(sts) = 1 /\ ~FailsIn(view, sts[1])
    <2>1. DOMAIN Tail(sts) = {}
      <3>1. Tail(sts) \in Seq(Statements) /\ Len(Tail(sts)) = 0
        BY <1>2, HeadTailProperties
      <3>2. Tail(sts) = <<>>
        BY <3>1, EmptySeq
      <3> QED
        BY <3>2
    <2> DEFINE rest == Tail(sts)
    <2> HIDE DEF rest
    <2>2. Renumbers(After(view, sts[1]), rest)
      BY <2>1 DEF Renumbers, rest
    <2> QED
      BY <1>2, <2>2 DEF Smooth, rest
  <1>3. CASE Len(sts) = 2 /\ ~FailsIn(view, sts[1]) /\ ~FailsIn(After(view, sts[1]), sts[2])
    <2>1. Len(Tail(sts)) = 1 /\ Tail(sts)[1] = sts[2]
      BY <1>3
    <2> QED
      BY <1>3, <2>1 DEF Smooth
  <1> QED
    BY <1>1, <1>2, <1>3 DEF Smooth

\* An injection of the first numbers into a set of as many is onto.
OneToOne(f, n, S) == f \in [1 .. n -> S] /\ \A i, j \in 1 .. n : i # j => f[i] # f[j]

LEMMA InjectiveOnto ==
    ASSUME NEW S, IsFiniteSet(S), NEW n, n = Cardinality(S), NEW f, OneToOne(f, n, S)
    PROVE  \A x \in S : \E i \in 1 .. n : f[i] = x
  <1> DEFINE D == 1 .. n
  <1>1. Cardinality(S) \in Nat
    BY FS_CardinalityType
  <1>2. Cardinality(D) = Cardinality(S)
    BY <1>1, FS_Interval
  <1> HIDE DEF D
  <1>3. f \in Injection(D, S)
    BY DEF D, Injection, IsInjective, OneToOne
  <1>4. f \in Surjection(D, S)
    BY <1>2, <1>3, FS_Injection
  <1> QED
    BY <1>4 DEF Surjection, D

\* The order of a routing names every step of the product once.
Onto(view, pr, route, N) ==
    /\ route \in [1 .. N -> StepsOf(view, pr)]
    /\ \A i, j \in 1 .. N : i # j => route[i] # route[j]
    /\ \A t \in StepsOf(view, pr) : \E i \in 1 .. N : route[i] = t

LEMMA SortedOnto ==
    ASSUME NEW view, Proper(view), NEW pr, NEW sorted \in Routings(view, pr)
    PROVE  LET N == Cardinality(StepsOf(view, pr)) IN N \in Nat /\ Onto(view, pr, sorted, N)
  <1> DEFINE S == StepsOf(view, pr)
             N == Cardinality(S)
  <1>1. IsFiniteSet(S)
    BY FS_Subset DEF StepsOf, Steps, IdsOf
  <1>2. N \in Nat
    BY <1>1, FS_CardinalityType
  <1>3. sorted \in [1 .. N -> S] /\ \A i, j \in 1 .. N : i < j => view[sorted[i]].seq < view[sorted[j]].seq
    BY DEF Routings
  <1>4. \A t \in S : view[t].seq \in Int
    <2> TAKE t \in S
    <2>1. t \in Steps /\ view[t] # NoRow
      BY DEF StepsOf
    <2>2. view[t] \in StepRows
      BY <2>1, RowTypes DEF Proper
    <2> QED
      BY <2>2 DEF StepRows
  <1> HIDE DEF S, N
  <1>5. ASSUME NEW i \in 1 .. N, NEW j \in 1 .. N, i # j PROVE sorted[i] # sorted[j]
    <2>1. i < j \/ j < i
      BY <1>2, <1>5
    <2>2. view[sorted[i]].seq \in Int /\ view[sorted[j]].seq \in Int
      BY <1>3, <1>4
    <2>3. view[sorted[i]].seq < view[sorted[j]].seq \/ view[sorted[j]].seq < view[sorted[i]].seq
      BY <1>3, <2>1
    <2> QED
      BY <2>2, <2>3
  <1>6. \A t \in S : \E i \in 1 .. N : sorted[i] = t
    <2>1. N = Cardinality(S)
      BY DEF N
    <2>2. OneToOne(sorted, N, S)
      BY <1>3, <1>5 DEF OneToOne
    <2> QED
      BY <1>1, <2>1, <2>2, InjectiveOnto
  <1> QED
    BY <1>2, <1>3, <1>5, <1>6 DEF Onto, S, N

\* So it does when a step and its neighbour are swapped.
LEMMA MovedOnto ==
    ASSUME NEW view, NEW pr, NEW N \in Nat, NEW f, Onto(view, pr, f, N), NEW s, NEW direction
    PROVE  Onto(view, pr, Moved(f, s, direction), N)
  <1> DEFINE At(k) == f[k] = s /\ Neighbour(k, direction) \in DOMAIN f
             i     == CHOOSE k \in DOMAIN f : At(k)
             j     == Neighbour(i, direction)
  <1>1. CASE \E k \in DOMAIN f : At(k)
    <2>1. i \in DOMAIN f /\ At(i)
      BY <1>1
    <2>2. Moved(f, s, direction) = [f EXCEPT ![i] = f[j], ![j] = f[i]]
      BY <1>1 DEF Moved
    <2>3. j = i - 1 \/ j = i + 1
      BY DEF Neighbour
    <2>4. i \in 1 .. N /\ j \in 1 .. N /\ DOMAIN f = 1 .. N
      BY <2>1 DEF Onto
    <2> HIDE DEF i, j
    <2>5. i # j
      BY <2>3, <2>4
    <2> DEFINE g == Moved(f, s, direction)
    <2>6. g \in [1 .. N -> StepsOf(view, pr)]
      BY <2>2, <2>4 DEF Onto
    <2>7. g[i] = f[j] /\ g[j] = f[i] /\ \A k \in 1 .. N : k # i /\ k # j => g[k] = f[k]
      BY <2>2, <2>4, <2>5
    <2> HIDE DEF g
    <2>8. \A a, b \in 1 .. N : a # b => g[a] # g[b]
      BY <2>4, <2>5, <2>7 DEF Onto
    <2>9. ASSUME NEW t \in StepsOf(view, pr) PROVE \E a \in 1 .. N : g[a] = t
      <3>1. PICK a \in 1 .. N : f[a] = t
        BY DEF Onto
      <3>2. CASE a = i
        BY <2>4, <2>7, <3>1, <3>2
      <3>3. CASE a = j
        BY <2>4, <2>7, <3>1, <3>3
      <3>4. CASE a # i /\ a # j
        BY <2>7, <3>1, <3>4
      <3> QED
        BY <3>2, <3>3, <3>4
    <2> QED
      BY <2>6, <2>8, <2>9 DEF Onto, g
  <1>2. CASE ~ \E k \in DOMAIN f : At(k)
    BY <1>2 DEF Moved
  <1> QED
    BY <1>1, <1>2

\* The places of a routing whose numbers change are all planned for.
LEMMA ChangesOnto ==
    ASSUME NEW view, NEW N \in Nat, NEW route, DOMAIN route = 1 .. N, NEW places \in Changes(view, route)
    PROVE  \A i \in 1 .. N : view[route[i]].seq # i * SequenceStep => \E k \in DOMAIN places : places[k] = i
  <1> DEFINE S == {i \in DOMAIN route : view[route[i]].seq # i * SequenceStep}
             n == Cardinality(S)
  <1>1. IsFiniteSet(S)
    <2>1. IsFiniteSet(1 .. N) /\ S \subseteq 1 .. N
      BY FS_Interval
    <2> QED
      BY <2>1, FS_Subset
  <1>2. n \in Nat
    BY <1>1, FS_CardinalityType
  <1>3. S \subseteq Nat
    BY DEF S
  <1>4. places \in [1 .. n -> S] /\ \A i, j \in 1 .. n : i < j => places[i] < places[j]
    BY DEF Changes
  <1>5. \A i \in 1 .. N : view[route[i]].seq # i * SequenceStep => i \in S
    OBVIOUS
  <1> HIDE DEF S
  <1>6. ASSUME NEW i \in 1 .. n, NEW j \in 1 .. n, i # j PROVE places[i] # places[j]
    <2>1. i < j \/ j < i
      BY <1>2, <1>6
    <2>2. places[i] \in Nat /\ places[j] \in Nat
      BY <1>3, <1>4
    <2> QED
      BY <1>4, <2>1, <2>2
  <1>7. \A x \in S : \E k \in 1 .. n : places[k] = x
    <2>1. n = Cardinality(S)
      OBVIOUS
    <2> HIDE DEF n
    <2>2. OneToOne(places, n, S)
      BY <1>4, <1>6 DEF OneToOne
    <2> QED
      BY <1>1, <2>1, <2>2, InjectiveOnto
  <1> QED
    BY <1>4, <1>5, <1>7

\* planRenumber() makes a renumbering, if the numbers are positive.
LEMMA PlanRenumbers ==
    ASSUME NEW view, Proper(view), NEW pr, NEW N \in Nat, NEW n \in Nat, NEW route, Onto(view, pr, route, N),
           NEW places \in [1 .. n -> 1 .. N], places \in Changes(view, route),
           \A t \in StepsOf(view, pr) : view[t].seq > 0,
           NEW sts, PlanOf(sts, route, places, n)
    PROVE  Renumbers(view, sts)
  <1>1. /\ DOMAIN sts = 1 .. n + n
        /\ \A k \in 1 .. n : /\ sts[k] = Renumber(route[places[k]], -places[k])
                             /\ sts[n + k] = Renumber(route[places[k]], places[k] * SequenceStep)
    <2>1. DOMAIN sts = 1 .. n + n
      BY LenProperties DEF PlanOf
    <2> QED
      BY <2>1 DEF PlanOf
  <1>2. \A k \in 1 .. n : places[k] \in 1 .. N
    OBVIOUS
  <1>3. \A i \in 1 .. N : /\ route[i] \in Steps /\ view[route[i]] # NoRow /\ view[route[i]].product = pr
                          /\ view[route[i]].seq \in Int /\ view[route[i]].seq > 0
    <2> TAKE i \in 1 .. N
    <2>1. route[i] \in StepsOf(view, pr)
      BY DEF Onto
    <2>2. route[i] \in Steps /\ view[route[i]] # NoRow /\ view[route[i]].product = pr
      BY <2>1 DEF StepsOf
    <2>3. view[route[i]] \in StepRows
      BY <2>2, RowTypes DEF Proper
    <2> QED
      BY <2>1, <2>2, <2>3 DEF StepRows
  <1> DEFINE Place(k) == IF k \in 1 .. n THEN places[k] ELSE places[k - n]
             Value(k) == IF k \in 1 .. n THEN -places[k] ELSE places[k - n] * SequenceStep
  <1>4. ASSUME NEW k \in DOMAIN sts
        PROVE  Place(k) \in 1 .. N /\ sts[k] = Renumber(route[Place(k)], Value(k))
    <2>1. CASE k \in 1 .. n
      BY <1>1, <1>2, <2>1
    <2>2. CASE k \notin 1 .. n
      <3>1. k - n \in 1 .. n /\ k = n + (k - n)
        BY <1>1, <2>2
      <3> QED
        BY <1>1, <1>2, <2>2, <3>1
    <2> QED
      BY <2>1, <2>2
  <1>5. ASSUME NEW k \in DOMAIN sts
        PROVE  /\ sts[k].do = "update" /\ sts[k].id = route[Place(k)] /\ DOMAIN sts[k].set = {"seq"}
               /\ sts[k].set.seq = Value(k)
    <2> HIDE DEF Place, Value
    <2> QED
      BY <1>4 DEF Renumber
  <1>6. ASSUME NEW k \in DOMAIN sts
        PROVE  \/ k \in 1 .. n /\ Value(k) = -Place(k)
               \/ k \in n + 1 .. n + n /\ Value(k) = Place(k) * 10
    BY <1>1 DEF SequenceStep
  <1> HIDE DEF Place, Value
  <1>7. ASSUME NEW j \in DOMAIN sts, NEW k \in DOMAIN sts, sts[j].id # sts[k].id PROVE sts[j].set.seq # sts[k].set.seq
    <2>1. Place(j) # Place(k) /\ Place(j) \in 1 .. N /\ Place(k) \in 1 .. N
      BY <1>4, <1>5, <1>7
    <2>2. Value(j) # Value(k)
      BY <1>6, <2>1
    <2> QED
      BY <1>5, <2>2
  <1>8. ASSUME NEW k \in DOMAIN sts PROVE Clears(view, sts, k)
    <2>1. sts[k].id = route[Place(k)] /\ Place(k) \in 1 .. N /\ sts[k].set.seq = Value(k)
      BY <1>4, <1>5
    <2> SUFFICES ASSUME NEW t \in StepsOf(view, pr), t # route[Place(k)], view[t].seq = Value(k)
                 PROVE  \E j \in 1 .. k - 1 : sts[j].id = t
      BY <1>3, <2>1 DEF Clears
    <2>2. PICK a \in 1 .. N : route[a] = t
      BY DEF Onto
    <2>3. a # Place(k) /\ view[t].seq > 0 /\ view[t].seq \in Int
      BY <1>3, <2>2
    <2>4. k \in n + 1 .. n + n /\ Value(k) = Place(k) * 10
      BY <1>6, <2>1, <2>3
    <2>5. view[route[a]].seq # a * SequenceStep
      BY <2>1, <2>2, <2>3, <2>4 DEF SequenceStep
    <2>6. DOMAIN route = 1 .. N
      BY DEF Onto
    <2>7. PICK b \in 1 .. n : places[b] = a
      BY <2>5, <2>6, ChangesOnto
    <2>8. b \in DOMAIN sts /\ b \in 1 .. k - 1 /\ sts[b].id = t
      <3>1. sts[b] = Renumber(route[places[b]], -places[b])
        BY <1>1
      <3> QED
        BY <1>1, <2>2, <2>4, <2>7, <3>1 DEF Renumber
    <2> QED
      BY <2>8
  <1>9. \A k \in DOMAIN sts : sts[k].id \in Steps /\ view[sts[k].id] # NoRow
    BY <1>3, <1>4, <1>5
  <1> QED
    BY <1>5, <1>7, <1>8, <1>9 DEF Renumbers

\* What a transaction reads makes its renumbering smooth.
LEMMA ReadSmooth ==
    ASSUME IInv, CalInv, NEW p \in Sessions, ReadRouting(p)
    PROVE  Smooth(View(p)', todo'[p])
  <1>1. /\ 1 \in DOMAIN todo[p] /\ todo[p][1].do = "renumber" /\ DOMAIN todo[p] = {1}
        /\ UNCHANGED <<db, own>>
    BY ReadPlans
  <1>2. PICK sorted, route, N, places, n : Reads(p, sorted, route, N, places, n)
    BY ReadPlans
  <1> DEFINE st   == Statement(p)
             view == View(p)
             pr   == st.product
             sts  == Planned(route, places)
  <1>3. /\ N \in Nat /\ n \in Nat /\ route \in [1 .. N -> Steps] /\ places \in [1 .. n -> 1 .. N]
        /\ sorted \in Routings(view, pr)
        /\ route = IF st.id = None THEN sorted ELSE Moved(sorted, st.id, st.direction)
        /\ places \in Changes(view, route)
        /\ PlanOf(sts, route, places, n)
        /\ todo' = [todo EXCEPT ![p] = sts]
    BY <1>2 DEF Reads
  <1>4. Proper(view)
    BY ProperViews DEF IInv, CalInv
  <1>5. \A t \in StepsOf(view, pr) : view[t].seq > 0
    <2> TAKE t \in StepsOf(view, pr)
    <2>1. t \in Steps /\ t \in Ids /\ view[t] \in StepRows
      BY <1>4, RowTypes DEF StepsOf, Proper
    <2>2. view[t] = IF own[p][t] = Unwritten THEN db[t] ELSE own[p][t]
      BY <2>1 DEF View
    <2>3. IsFinal(view[t].seq)
      <3>1. CASE own[p][t] = Unwritten
        BY <2>1, <2>2, <3>1 DEF IInv, FinalIn
      <3>2. CASE own[p][t] # Unwritten
        <4>1. ~Settles(todo[p][1], t)
          BY <1>1 DEF Settles
        <4>2. ~ \E j \in DOMAIN todo[p] : SettledAt(p, t, j)
          BY <1>1, <4>1 DEF SettledAt
        <4>3. ~Pending(p, t)
          BY <2>1, <4>2 DEF IInv, SessionOK, Settled
        <4> HIDE DEF view
        <4> QED
          BY <2>1, <2>2, <3>2, <4>3 DEF Pending
      <3> QED
        BY <3>1, <3>2
    <2>4. view[t].seq \in Int
      BY <2>1 DEF StepRows
    <2> QED
      BY <2>3, <2>4 DEF IsFinal, SequenceStep
  <1> HIDE DEF view, st, pr, sts
  <1>6. \E M \in Nat : Onto(view, pr, route, M)
    <2> DEFINE M == Cardinality(StepsOf(view, pr))
    <2>1. M \in Nat /\ Onto(view, pr, sorted, M)
      BY <1>3, <1>4, SortedOnto
    <2> HIDE DEF M
    <2>2. Onto(view, pr, route, M)
      BY <1>3, <2>1, MovedOnto
    <2> QED
      BY <2>1, <2>2
  <1>7. PICK M \in Nat : Onto(view, pr, route, M)
    BY <1>6
  <1>8. 1 .. M = 1 .. N
    BY <1>3, <1>7 DEF Onto
  <1>9. Onto(view, pr, route, N)
    BY <1>7, <1>8 DEF Onto
  <1>10. Renumbers(view, sts)
    BY <1>3, <1>4, <1>5, <1>9, PlanRenumbers
  <1>11. todo'[p] = sts
    BY <1>3 DEF IInv, TypeOK
  <1>12. View(p)' = view
    BY <1>1 DEF View, view
  <1> QED
    BY <1>10, <1>11, <1>12 DEF Smooth

\* Statements that do not fail.
LEMMA Fine ==
    ASSUME NEW view
    PROVE  /\ \A i, row : "seq" \notin DOMAIN row /\ (\A x \in References(row) : view[x] # NoRow) =>
                  ~FailsIn(view, Insert(i, row))
           /\ \A i, set : view[i] # NoRow /\ "seq" \notin DOMAIN set /\ (\A x \in References(set) : view[x] # NoRow) =>
                  ~FailsIn(view, Update(i, set))
           /\ \A i : view[i] # NoRow /\ Blocking(view, i) = {} => ~FailsIn(view, Delete(i))
           /\ \A pr, s, direction : s = None \/ view[s] # NoRow => ~FailsIn(view, RenumberOperations(pr, s, direction))
  BY DEF FailsIn, Insert, Update, Delete, RenumberOperations

\* What the records of the handlers refer to.
LEMMA RecordReferences ==
    /\ \A active : References([active |-> active]) = {} /\ "seq" \notin DOMAIN [active |-> active]
    /\ \A h : References([hours |-> h]) = {} /\ "seq" \notin DOMAIN [hours |-> h]
    /\ \A ca : References([calendar |-> ca]) \subseteq {ca} \ {None} /\ "seq" \notin DOMAIN [calendar |-> ca]
    /\ \A ca, h : /\ References([calendar |-> ca, hours |-> h]) \subseteq {ca}
                  /\ "seq" \notin DOMAIN [calendar |-> ca, hours |-> h]
    /\ \A ce, m : /\ References([center |-> ce, machine |-> m]) \subseteq {ce, m} \ {None}
                  /\ "seq" \notin DOMAIN [center |-> ce, machine |-> m]
    /\ \A ce, ca, active : /\ References([center |-> ce, calendar |-> ca, active |-> active]) \subseteq {ce, ca}
                           /\ "seq" \notin DOMAIN [center |-> ce, calendar |-> ca, active |-> active]
    /\ \A pr, ce, m, n :
          References([product |-> pr, center |-> ce, machine |-> m, seq |-> n]) \subseteq {pr, ce, m} \ {None}
  BY DEF References

\* What keeps rows of each table from being deleted.
LEMMA BlockedBy ==
    ASSUME NEW view, Proper(view), NEW x \in Ids
    PROVE  /\ x \in Steps \cup Shifts => Blocking(view, x) = {}
           /\ x \in Products => Blocking(view, x) \subseteq Referrers(view, x) \cap Orders
           /\ x \in Centers => Blocking(view, x) \subseteq Referrers(view, x) \cap (Machines \cup Steps \cup Entries)
           /\ x \in Machines => Blocking(view, x) \subseteq Referrers(view, x) \cap (Steps \cup Entries)
           /\ x \in Calendars => Blocking(view, x) \subseteq Referrers(view, x) \cap Machines
  <1>1. ASSUME NEW i \in Blocking(view, x)
        PROVE  /\ i \in Ids /\ i \in Referrers(view, x) /\ i # Plant /\ i \notin Cascaded(view, x)
               /\ view[i] \in Rows[Table[i]] /\ x \in References(view[i])
    BY <1>1 DEF Blocking, Referrers, Proper
  <1>2. ASSUME NEW i \in Blocking(view, x)
        PROVE  /\ ~(i \in Steps /\ x \in Products) /\ ~(i \in Shifts /\ x \in Calendars)
               /\ x \notin Steps \cup Shifts
               /\ x \in Products => i \in Steps \cup Orders
               /\ x \in Centers => i \in Machines \cup Steps \cup Entries
               /\ x \in Machines => i \in Steps \cup Entries
               /\ x \in Calendars => i \in Machines \cup Shifts \cup {Plant}
    <2>1. ~(i \in Steps /\ x \in Products) /\ ~(i \in Shifts /\ x \in Calendars)
      BY <1>1, <1>2 DEF Cascaded
    <2>2. i \in Ids /\ view[i] \in Rows[Table[i]] /\ x \in References(view[i])
      BY <1>1, <1>2
    <2> QED
      BY <2>1, <2>2, ReferenceKinds, NotReferredTo
  <1> QED
    BY <1>1, <1>2

\* A request that nobody has overlapped yet.
LEMMA BeginErr ==
    ASSUME IInv, ErrInv, NEW p \in Sessions, NEW op, NEW i, NEW about, NEW sts, Begin(p, op, i, about, sts),
           \/ Smooth(db, sts)
           \/ /\ op \in {"deleteMachine", "deleteCenter"} /\ sts = <<Delete(i)>>
              /\ db[i] # NoRow /\ Blocking(db, i) \subseteq Entries
    PROVE  ErrInv'
  <1>1. /\ ~Open(p) /\ UNCHANGED <<db, own, overlapped>>
        /\ call' = [call EXCEPT ![p] = [op |-> op, id |-> i, about |-> about]]
        /\ todo' = [todo EXCEPT ![p] = sts]
    BY DEF Begin
  <1>2. own[p] = NothingWritten
    BY <1>1 DEF IInv, SessionOK, ClosedOK
  <1>3. /\ todo'[p] = sts /\ call'[p].op = op /\ call'[p].id = i
        /\ \A q \in Sessions \ {p} : todo'[q] = todo[q] /\ call'[q] = call[q]
    BY <1>1 DEF IInv, TypeOK
  <1>4. View(p)' = db
    <2>1. View(p)' = [j \in Ids |-> db[j]]
      BY <1>1, <1>2 DEF View, NothingWritten
    <2> QED
      BY <2>1 DEF IInv, TypeOK
  <1>5. Smooth(View(p)', todo'[p]) \/ Wants(p)'
    BY <1>1, <1>2, <1>3, <1>4 DEF Wants
  <1>6. ASSUME NEW q \in Sessions, q # p, Open(q)', overlapped'[q] = {} PROVE Smooth(View(q)', todo'[q]) \/ Wants(q)'
    <2>1. Open(q) /\ overlapped[q] = {} /\ View(q)' = View(q) /\ todo'[q] = todo[q] /\ call'[q] = call[q]
      BY <1>1, <1>3, <1>6 DEF Open, View
    <2>2. Smooth(View(q), todo[q]) \/ Wants(q)
      BY <2>1 DEF ErrInv
    <2> QED
      BY <1>1, <2>1, <2>2 DEF Wants
  <1> QED
    BY <1>5, <1>6 DEF ErrInv

\* A request of one statement that does not fail.
LEMMA OneErr ==
    ASSUME IInv, ErrInv, NEW p \in Sessions, NEW op, NEW i, NEW about, NEW a, Begin(p, op, i, about, <<a>>),
           ~FailsIn(db, a)
    PROVE  ErrInv'
  <1> DEFINE sts == <<a>>
  <1>1. Len(sts) = 1 /\ sts[1] = a /\ Begin(p, op, i, about, sts)
    OBVIOUS
  <1> HIDE DEF sts
  <1>2. Smooth(db, sts)
    BY <1>1 DEF Smooth
  <1> QED
    BY <1>1, <1>2, BeginErr

\* And of two.
LEMMA TwoErr ==
    ASSUME IInv, ErrInv, NEW p \in Sessions, NEW op, NEW i, NEW about, NEW a, NEW b, Begin(p, op, i, about, <<a, b>>),
           ~FailsIn(db, a), ~FailsIn(After(db, a), b)
    PROVE  ErrInv'
  <1> DEFINE sts == <<a, b>>
  <1>1. Len(sts) = 2 /\ sts[1] = a /\ sts[2] = b /\ Begin(p, op, i, about, sts)
    OBVIOUS
  <1> HIDE DEF sts
  <1>2. Smooth(db, sts)
    BY <1>1 DEF Smooth
  <1> QED
    BY <1>1, <1>2, BeginErr

\* The next number is free.
LEMMA NextIsFree ==
    ASSUME NEW view, Proper(view), NEW pr, NEW last, IsLast(last, view, pr), NEW s \in Steps, NEW row,
           row.product = pr, row # NoRow
    PROVE  ~Taken([view EXCEPT ![s] = row], s, NextSequence(last))
  <1>1. DOMAIN view = Ids /\ s \in Ids
    BY RowTypes DEF Proper
  <1>2. \A t \in StepsOf(view, pr) : t \in Steps /\ t \in Ids /\ view[t] \in StepRows
    BY RowTypes DEF StepsOf, Proper
  <1>3. \A t \in StepsOf(view, pr) : view[t].seq \in Int
    BY <1>2 DEF StepRows
  <1>4. last \in Int /\ last >= 0 /\ \A t \in StepsOf(view, pr) : view[t].seq <= last
    BY <1>3 DEF IsLast
  <1>5. NextSequence(last) > last
    <2>1. \A k \in Nat : (k \div 10) * 10 + 10 > k
      OBVIOUS
    <2>2. last \in Nat
      BY <1>4
    <2> QED
      BY <2>1, <2>2 DEF NextSequence, SequenceStep
  <1> DEFINE w == [view EXCEPT ![s] = row]
  <1>6. w[s] = row /\ \A t \in Ids \ {s} : w[t] = view[t]
    BY <1>1
  <1> HIDE DEF w
  <1>7. ASSUME NEW t \in StepsOf(w, pr) \ {s} PROVE w[t].seq # NextSequence(last)
    <2>1. t \in Steps /\ t # s /\ w[t] = view[t]
      BY <1>6, <1>7, RowTypes DEF StepsOf
    <2>2. t \in StepsOf(view, pr)
      BY <1>7, <2>1 DEF StepsOf
    <2>3. view[t].seq <= last /\ view[t].seq \in Int
      BY <1>3, <1>4, <2>2
    <2>4. NextSequence(last) \in Int
      BY <1>4 DEF NextSequence, SequenceStep
    <2> QED
      BY <1>4, <1>5, <2>1, <2>3, <2>4
  <1> QED
    BY <1>6, <1>7 DEF Taken, w

\* The checks of the handlers for routings and products foresee the errors of the database.
LEMMA EditRoutingErr ==
    ASSUME IInv, CalInv, ErrInv, NEW p \in Sessions, EditRouting(p)
    PROVE  ErrInv'
  <1>1. Proper(db)
    BY ProperViews DEF IInv, CalInv
  <1>2. \A s \in Steps : s \in Ids /\ Blocking(db, s) = {}
    BY <1>1, RowTypes, BlockedBy
  <1>3. ASSUME NEW ce, NEW m, IsTarget(ce, m) PROVE db[ce] # NoRow /\ (m # None => db[m] # NoRow)
    BY <1>3 DEF IsTarget
  <1>4. ASSUME NEW s \in Steps, NEW pr \in Products, NEW ce \in Centers, NEW m \in Machines \cup {None},
               NEW last, AddOperation(p, s, pr, ce, m, last)
        PROVE  ErrInv'
    <2> DEFINE row == [product |-> pr, center |-> ce, machine |-> m, seq |-> NextSequence(last)]
               a   == Insert(s, row)
               b   == RenumberOperations(pr, None, "none")
    <2>1. Begin(p, "addStep", s, {}, <<a, b>>)
      BY <1>4 DEF AddOperation
    <2>2. \A x \in References(row) : db[x] # NoRow
      <3>1. References(row) \subseteq {pr, ce, m} \ {None}
        BY RecordReferences
      <3>2. db[pr] # NoRow /\ db[ce] # NoRow /\ (m # None => db[m] # NoRow)
        BY <1>3, <1>4 DEF AddOperation
      <3> HIDE DEF row
      <3> QED
        BY <3>1, <3>2
    <2>3. ~Taken(After(db, a), s, row.seq)
      <3>1. row \in StepRows
        <4>1. NextSequence(last) \in Int
          <5>1. last \in Int
            <6>1. \A t \in StepsOf(db, pr) : db[t].seq \in Int
              <7> TAKE t \in StepsOf(db, pr)
              <7>1. t \in Steps /\ db[t] # NoRow
                BY DEF StepsOf
              <7>2. db[t] \in StepRows
                BY <1>1, <7>1, RowTypes DEF Proper
              <7> QED
                BY <7>2 DEF StepRows
            <6> QED
              BY <1>4, <6>1 DEF AddOperation, IsLast
          <5> QED
            BY <5>1 DEF NextSequence, SequenceStep
        <4> QED
          BY <4>1 DEF StepRows
      <3>2. row # NoRow
        BY <3>1, RowTypes
      <3>3. row.product = pr /\ row.seq = NextSequence(last)
        OBVIOUS
      <3>4. After(db, a) = [db EXCEPT ![s] = row]
        BY DEF After, Insert
      <3> HIDE DEF row, a
      <3>5. IsLast(last, db, pr)
        BY <1>4 DEF AddOperation
      <3> QED
        <4>1. PICK v : v = db
          OBVIOUS
        <4>2. Proper(v) /\ IsLast(last, v, pr)
          BY <1>1, <3>5, <4>1
        <4>3. ~Taken([v EXCEPT ![s] = row], s, NextSequence(last))
          BY <3>2, <3>3, <4>2, NextIsFree
        <4> QED
          BY <3>3, <3>4, <4>1, <4>3
    <2>4. ~FailsIn(db, a)
      <3>1. a.do = "insert" /\ a.id = s /\ a.set = row
        BY DEF Insert
      <3> HIDE DEF a, row
      <3> QED
        BY <2>2, <2>3, <3>1 DEF FailsIn
    <2>5. ~FailsIn(After(db, a), b)
      BY Fine
    <2> HIDE DEF a, b
    <2> QED
      BY <2>1, <2>4, <2>5, TwoErr
  <1>5. ASSUME NEW s \in Steps, NEW ce \in Centers, NEW m \in Machines \cup {None}, UpdateOperation(p, s, ce, m)
        PROVE  ErrInv'
    <2> DEFINE set == [center |-> ce, machine |-> m]
               a   == Update(s, set)
    <2>1. Begin(p, "updateStep", s, {}, <<a>>) /\ db[s] # NoRow
      BY <1>5 DEF UpdateOperation
    <2>2. References(set) \subseteq {ce, m} \ {None} /\ "seq" \notin DOMAIN set
      BY RecordReferences
    <2>3. db[ce] # NoRow /\ (m # None => db[m] # NoRow)
      BY <1>3, <1>5 DEF UpdateOperation
    <2> HIDE DEF set
    <2>4. ~FailsIn(db, a)
      BY <2>1, <2>2, <2>3, Fine
    <2> HIDE DEF a
    <2> QED
      BY <2>1, <2>4, OneErr
  <1>6. ASSUME NEW s \in Steps, RemoveOperation(p, s) PROVE ErrInv'
    <2> DEFINE a == Delete(s)
               b == RenumberOperations(db[s].product, None, "none")
    <2>1. Begin(p, "removeStep", s, {}, <<a, b>>) /\ db[s] # NoRow
      BY <1>6 DEF RemoveOperation
    <2>2. ~FailsIn(db, a) /\ ~FailsIn(After(db, a), b)
      BY <1>2, <2>1, Fine
    <2> HIDE DEF a, b
    <2> QED
      BY <2>1, <2>2, TwoErr
  <1>7. ASSUME NEW s \in Steps, NEW direction, MoveOperation(p, s, direction) PROVE ErrInv'
    BY <1>7, Fine, OneErr DEF MoveOperation
  <1>8. ASSUME NEW pr \in Products, CreateProduct(p, pr) PROVE ErrInv'
    <2>1. PICK active \in BOOLEAN : Begin(p, "createProduct", pr, {}, <<Insert(pr, [active |-> active])>>)
      BY <1>8 DEF CreateProduct
    <2>2. ~FailsIn(db, Insert(pr, [active |-> active]))
      BY RecordReferences, Fine
    <2> QED
      BY <2>1, <2>2, OneErr
  <1>9. ASSUME NEW pr \in Products, DeleteProduct(p, pr) PROVE ErrInv'
    <2>1. db[pr] # NoRow /\ Blocking(db, pr) = {}
      BY <1>1, <1>9, TableRows, BlockedBy DEF DeleteProduct
    <2> QED
      BY <1>9, <2>1, Fine, OneErr DEF DeleteProduct
  <1>10. ASSUME NEW pr \in Products, NEW active \in BOOLEAN, SetProductActive(p, pr, active) PROVE ErrInv'
    <2>1. ~FailsIn(db, Update(pr, [active |-> active]))
      BY <1>10, RecordReferences, Fine DEF SetProductActive
    <2> QED
      BY <1>10, <2>1, OneErr DEF SetProductActive
  <1> QED
    BY <1>4, <1>5, <1>6, <1>7, <1>8, <1>9, <1>10 DEF EditRouting

\* So do those for work centers and machines, but for planned work.
LEMMA EditMachinesErr ==
    ASSUME IInv, CalInv, ErrInv, NEW p \in Sessions, EditMachines(p)
    PROVE  ErrInv'
  <1>1. Proper(db)
    BY ProperViews DEF IInv, CalInv
  <1>2. ASSUME NEW ce \in Centers, CreateWorkCenter(p, ce) PROVE ErrInv'
    <2>1. PICK active \in BOOLEAN : Begin(p, "createCenter", ce, {}, <<Insert(ce, [active |-> active])>>)
      BY <1>2 DEF CreateWorkCenter
    <2>2. ~FailsIn(db, Insert(ce, [active |-> active]))
      BY RecordReferences, Fine
    <2> QED
      BY <2>1, <2>2, OneErr
  <1>3. ASSUME NEW ce \in Centers, DeleteWorkCenter(p, ce) PROVE ErrInv'
    <2>1. Blocking(db, ce) \subseteq Entries
      BY <1>1, <1>3, TableRows, BlockedBy DEF DeleteWorkCenter
    <2> DEFINE sts == <<Delete(ce)>>
    <2>2. Begin(p, "deleteCenter", ce, {}, sts) /\ db[ce] # NoRow /\ sts = <<Delete(ce)>>
      BY <1>3 DEF DeleteWorkCenter
    <2> HIDE DEF sts
    <2> QED
      BY <2>1, <2>2, BeginErr
  <1>4. ASSUME NEW ce \in Centers, NEW active \in BOOLEAN, SetWorkCenterActive(p, ce, active) PROVE ErrInv'
    <2>1. ~FailsIn(db, Update(ce, [active |-> active]))
      BY <1>4, RecordReferences, Fine DEF SetWorkCenterActive
    <2> QED
      BY <1>4, <2>1, OneErr DEF SetWorkCenterActive
  <1>5. ASSUME NEW m \in Machines, NEW ce \in Centers, NEW ca \in Calendars, NEW active \in BOOLEAN,
               db[ce] # NoRow, db[ca] # NoRow
        PROVE  /\ ~FailsIn(db, Insert(m, [center |-> ce, calendar |-> ca, active |-> active]))
               /\ db[m] # NoRow => ~FailsIn(db, Update(m, [center |-> ce, calendar |-> ca, active |-> active]))
    <2> DEFINE row == [center |-> ce, calendar |-> ca, active |-> active]
    <2>1. References(row) \subseteq {ce, ca} /\ "seq" \notin DOMAIN row
      BY RecordReferences
    <2> HIDE DEF row
    <2>2. \A x \in References(row) : db[x] # NoRow
      BY <1>5, <2>1
    <2>3. ~FailsIn(db, Insert(m, row)) /\ (db[m] # NoRow => ~FailsIn(db, Update(m, row)))
      BY <2>1, <2>2, Fine
    <2> QED
      BY <2>3 DEF row
  <1>6. ASSUME NEW m \in Machines, NEW ce \in Centers, NEW ca \in Calendars, CreateMachine(p, m, ce, ca) PROVE ErrInv'
    <2>1. PICK active \in BOOLEAN :
            Begin(p, "createMachine", m, {ca}, <<Insert(m, [center |-> ce, calendar |-> ca, active |-> active])>>)
      BY <1>6 DEF CreateMachine
    <2>2. db[ce] # NoRow /\ db[ca] # NoRow
      BY <1>6 DEF CreateMachine, Allowed
    <2> QED
      BY <1>5, <2>1, <2>2, OneErr
  <1>7. ASSUME NEW m \in Machines, NEW ce \in Centers, NEW ca \in Calendars, UpdateMachine(p, m, ce, ca) PROVE ErrInv'
    <2>1. PICK active \in BOOLEAN :
            Begin(p, "updateMachine", m, {ca}, <<Update(m, [center |-> ce, calendar |-> ca, active |-> active])>>)
      BY <1>7 DEF UpdateMachine
    <2>2. db[ce] # NoRow /\ db[ca] # NoRow /\ db[m] # NoRow
      BY <1>7 DEF UpdateMachine, Allowed
    <2> QED
      BY <1>5, <2>1, <2>2, OneErr
  <1>8. ASSUME NEW m \in Machines, NEW active \in BOOLEAN, SetMachineStatus(p, m, active) PROVE ErrInv'
    <2>1. ~FailsIn(db, Update(m, [active |-> active]))
      BY <1>8, RecordReferences, Fine DEF SetMachineStatus
    <2> QED
      BY <1>8, <2>1, OneErr DEF SetMachineStatus
  <1>9. ASSUME NEW m \in Machines, DeleteMachine(p, m) PROVE ErrInv'
    <2>1. Blocking(db, m) \subseteq Entries
      BY <1>1, <1>9, TableRows, BlockedBy DEF DeleteMachine
    <2> DEFINE sts == <<Delete(m)>>
    <2>2. Begin(p, "deleteMachine", m, {}, sts) /\ db[m] # NoRow /\ sts = <<Delete(m)>>
      BY <1>9 DEF DeleteMachine
    <2> HIDE DEF sts
    <2> QED
      BY <2>1, <2>2, BeginErr
  <1> QED
    BY <1>2, <1>3, <1>4, <1>6, <1>7, <1>8, <1>9 DEF EditMachines

\* And those for calendars and the default.
LEMMA EditCalendarsErr ==
    ASSUME IInv, CalInv, RefInv, ErrInv, NEW p \in Sessions, EditCalendars(p)
    PROVE  ErrInv'
  <1>1. Proper(db)
    BY ProperViews DEF IInv, CalInv
  <1>2. \A ca \in Calendars : ca \in Ids /\ ca # None
    BY CalendarRows
  <1>3. ASSUME NEW view, NEW ca \in Calendars, view[ca] # NoRow, NEW s, NEW h
        PROVE  ~FailsIn(view, Insert(s, [calendar |-> ca, hours |-> h]))
    <2> DEFINE row == [calendar |-> ca, hours |-> h]
    <2>1. References(row) \subseteq {ca} /\ "seq" \notin DOMAIN row
      BY RecordReferences
    <2> HIDE DEF row
    <2>2. ~FailsIn(view, Insert(s, row))
      BY <1>3, <2>1, Fine
    <2> QED
      BY <2>2 DEF row
  <1>4. ASSUME NEW ca, ca = None \/ db[ca] # NoRow PROVE ~FailsIn(db, Update(Plant, [calendar |-> ca]))
    <2> DEFINE set == [calendar |-> ca]
    <2>1. References(set) \subseteq {ca} \ {None} /\ "seq" \notin DOMAIN set
      BY RecordReferences
    <2> HIDE DEF set
    <2>2. ~FailsIn(db, Update(Plant, set))
      BY <1>1, <1>4, <2>1, Fine DEF Proper
    <2> QED
      BY <2>2 DEF set
  <1>5. ASSUME NEW ca \in Calendars, NEW s \in Shifts, NEW h \in Hours, CreateCalendar(p, ca, s, h) PROVE ErrInv'
    <2> DEFINE a == Insert(ca, [active |-> TRUE])
               b == Insert(s, [calendar |-> ca, hours |-> h])
    <2>1. Begin(p, "createCalendar", ca, {ca}, <<a, b>>)
      BY <1>5 DEF CreateCalendar
    <2>2. ~FailsIn(db, a)
      BY RecordReferences, Fine
    <2>3. After(db, a)[ca] # NoRow
      <3> DEFINE row == [active |-> TRUE]
      <3>1. row \in [active : BOOLEAN]
        OBVIOUS
      <3>2. row # NoRow
        BY <1>1, <3>1, ProperRows
      <3> HIDE DEF row
      <3>3. After(db, Insert(ca, row)) = [db EXCEPT ![ca] = row] /\ DOMAIN db = Ids
        BY <1>1 DEF After, Insert, Proper
      <3>4. After(db, Insert(ca, row))[ca] # NoRow
        BY <1>2, <3>2, <3>3
      <3> QED
        BY <3>4 DEF row
    <2>4. ~FailsIn(After(db, a), b)
      <3> DEFINE v == After(db, a)
      <3> HIDE DEF v
      <3>1. ~FailsIn(v, b)
        BY <1>3, <2>3 DEF v
      <3> QED
        BY <3>1 DEF v
    <2> HIDE DEF a, b
    <2> QED
      BY <2>1, <2>2, <2>4, TwoErr
  <1>6. ASSUME NEW ca \in Calendars, NEW s \in Shifts, NEW h \in Hours, AddShift(p, ca, s, h) PROVE ErrInv'
    BY <1>3, <1>6, OneErr DEF AddShift
  <1>7. ASSUME NEW ca \in Calendars, NEW active \in BOOLEAN, SetCalendarActive(p, ca, active) PROVE ErrInv'
    <2>1. ~FailsIn(db, Update(ca, [active |-> active]))
      BY <1>7, RecordReferences, Fine DEF SetCalendarActive
    <2> QED
      BY <1>7, <2>1, OneErr DEF SetCalendarActive
  <1>8. ASSUME NEW ca \in Calendars, SetDefaultCalendar(p, ca) PROVE ErrInv'
    BY <1>4, <1>8, OneErr DEF SetDefaultCalendar, CanBeDefault
  <1>9. ASSUME NEW ca \in Calendars \cup {None}, UpdateTenantSettings(p, ca) PROVE ErrInv'
    <2>1. ca = None \/ db[ca] # NoRow
      <3>1. CASE ca = db[Plant].calendar /\ ca # None
        <4>1. db[Plant] \in [calendar : Calendars \cup {None}] /\ db[Plant] # NoRow /\ Plant \in Ids
          BY <1>1, ProperRows, CalendarRows DEF Proper
        <4>2. References(db[Plant]) = {db[Plant].calendar} \ {None}
          BY <4>1, CalendarRows
        <4>3. ca \in References(db[Plant])
          BY <3>1, <4>2
        <4> QED
          BY <4>1, <4>3 DEF RefInv, Whole
      <3> QED
        BY <1>9, <3>1 DEF UpdateTenantSettings, CanBeDefault
    <2> QED
      BY <1>4, <1>9, <2>1, OneErr DEF UpdateTenantSettings
  <1>10. ASSUME NEW ca \in Calendars, DeleteCalendar(p, ca) PROVE ErrInv'
    <2>1. db[ca] # NoRow /\ Blocking(db, ca) = {}
      BY <1>1, <1>2, <1>10, BlockedBy DEF DeleteCalendar
    <2> QED
      BY <1>10, <2>1, Fine, OneErr DEF DeleteCalendar
  <1>11. ASSUME NEW s \in Shifts, NEW h \in Hours, UpdateShift(p, s, h) PROVE ErrInv'
    <2>1. ~FailsIn(db, Update(s, [hours |-> h]))
      BY <1>11, RecordReferences, Fine DEF UpdateShift
    <2> QED
      BY <1>11, <2>1, OneErr DEF UpdateShift
  <1>12. ASSUME NEW s \in Shifts, DeleteShift(p, s) PROVE ErrInv'
    <2>1. db[s] # NoRow /\ Blocking(db, s) = {}
      BY <1>1, <1>12, CalendarRows, BlockedBy DEF DeleteShift
    <2> QED
      BY <1>12, <2>1, Fine, OneErr DEF DeleteShift
  <1> QED
    BY <1>5, <1>6, <1>7, <1>8, <1>9, <1>10, <1>11, <1>12 DEF EditCalendars

\* The transactions that a step leaves alone.
LEMMA ErrKept ==
    ASSUME ErrInv, NEW q \in Sessions, UNCHANGED <<own[q], call[q], todo[q]>>,
           Open(q) /\ overlapped'[q] = {} => overlapped[q] = {} /\ UNCHANGED db,
           Open(q)', overlapped'[q] = {}
    PROVE  Smooth(View(q)', todo'[q]) \/ Wants(q)'
  <1>1. Open(q) /\ overlapped[q] = {} /\ UNCHANGED db
    BY DEF Open
  <1>2. View(q)' = View(q)
    BY <1>1 DEF View
  <1>3. Smooth(View(q), todo[q]) \/ Wants(q)
    BY <1>1 DEF ErrInv
  <1> QED
    BY <1>1, <1>2, <1>3 DEF Wants

\* Statements leave the rest of a transaction smooth.
LEMMA ExecuteErr ==
    ASSUME IInv, CalInv, ErrInv, NEW p \in Sessions, ExecuteStatement(p)
    PROVE  ErrInv'
  <1> DEFINE after == After(View(p), Statement(p))
  <1>1. /\ UNCHANGED <<db, call, overlapped>> /\ todo' = [todo EXCEPT ![p] = Tail(@)]
        /\ todo[p] \in Seq(Statements) /\ todo[p] # <<>>
    BY DEF IInv, TypeOK, ExecuteStatement, Ready
  <1>2. View(p)' = after /\ own' = [own EXCEPT ![p] = [i \in Ids |-> IF i \in Written(p) THEN after[i] ELSE own[p][i]]]
    BY ViewAfter DEF IInv
  <1>3. /\ todo'[p] = Tail(todo[p])
        /\ \A q \in Sessions \ {p} : UNCHANGED <<own[q], call[q], todo[q]>>
    BY <1>1, <1>2 DEF IInv, TypeOK
  <1> HIDE DEF after
  <1>4. ASSUME NEW q \in Sessions, q # p, Open(q)', overlapped'[q] = {} PROVE Smooth(View(q)', todo'[q]) \/ Wants(q)'
    BY <1>1, <1>3, <1>4, ErrKept
  <1>5. ASSUME Open(p)', overlapped'[p] = {} PROVE Smooth(View(p)', todo'[p])
    <2>1. Smooth(View(p), todo[p]) \/ Wants(p)
      BY <1>1, <1>5 DEF ErrInv, Open
    <2>2. CASE Smooth(View(p), todo[p])
      <3> DEFINE sts == todo[p]
                 view == View(p)
      <3>1. Proper(view)
        BY ProperViews DEF IInv, CalInv
      <3>2. sts \in Seq(Statements) /\ sts # <<>> /\ Smooth(view, sts)
        BY <1>1, <2>2
      <3>3. Statement(p) = sts[1]
        BY <1>1 DEF Statement
      <3>4. after = After(view, sts[1])
        BY <3>3 DEF after
      <3> HIDE DEF sts, view
      <3>5. Smooth(After(view, sts[1]), Tail(sts))
        BY <3>1, <3>2, SmoothRest
      <3> QED
        BY <1>2, <1>3, <3>4, <3>5 DEF sts
    <2>3. CASE Wants(p)
      <3> DEFINE a == Delete(call[p].id)
      <3>1. todo[p] = <<a>>
        BY <2>3 DEF Wants
      <3> HIDE DEF a
      <3>2. DOMAIN todo'[p] = {}
        BY <1>3, <3>1
      <3>3. Renumbers(View(p)', todo'[p])
        BY <3>2 DEF Renumbers
      <3> QED
        BY <3>3 DEF Smooth
    <2> QED
      BY <2>1, <2>2, <2>3
  <1> QED
    BY <1>4, <1>5 DEF ErrInv

\* So does reading a routing.
LEMMA ReadErr ==
    ASSUME IInv, CalInv, ErrInv, NEW p \in Sessions, ReadRouting(p)
    PROVE  ErrInv'
  <1>1. UNCHANGED <<db, own, call, overlapped>>
    BY ReadPlans
  <1>2. \A q \in Sessions \ {p} : todo'[q] = todo[q]
    BY ReadStatements DEF IInv, TypeOK
  <1>3. ASSUME NEW q \in Sessions, q # p, Open(q)', overlapped'[q] = {} PROVE Smooth(View(q)', todo'[q]) \/ Wants(q)'
    BY <1>1, <1>2, <1>3, ErrKept
  <1>4. Smooth(View(p)', todo'[p])
    BY ReadSmooth
  <1> QED
    BY <1>3, <1>4 DEF ErrInv

\* A commit overlaps everybody else.
LEMMA CommitErr ==
    ASSUME IInv, ErrInv, NEW p \in Sessions, Commit(p)
    PROVE  ErrInv'
  <1>1. Closed(p) /\ overlapped' = [q \in Sessions |-> IF q = p THEN {}
                                                       ELSE IF Open(q) THEN overlapped[q] \cup call[p].about \cup {None}
                                                       ELSE overlapped[q]]
    BY DEF Commit, Overlapping
  <1>2. call'[p] = NoCall /\ \A q \in Sessions \ {p} : call'[q] = call[q]
    BY <1>1, ClosedTypes DEF IInv
  <1>3. \A q \in Sessions : ~(Open(q)' /\ overlapped'[q] = {})
    BY <1>1, <1>2 DEF Open
  <1> QED
    BY <1>3 DEF ErrInv

\* A rollback nobody.
LEMMA RollbackErr ==
    ASSUME IInv, ErrInv, NEW p \in Sessions, Rollback(p)
    PROVE  ErrInv'
  <1>1. Closed(p) /\ overlapped' = [overlapped EXCEPT ![p] = {}] /\ UNCHANGED db
    BY DEF Rollback
  <1>2. call'[p] = NoCall /\ \A q \in Sessions \ {p} : UNCHANGED <<own[q], call[q], todo[q]>>
    BY <1>1, ClosedTypes DEF IInv
  <1>3. \A q \in Sessions \ {p} : overlapped'[q] = overlapped[q]
    BY <1>1 DEF IInv, TypeOK
  <1>4. ~Open(p)'
    BY <1>2 DEF Open
  <1>5. ASSUME NEW q \in Sessions, q # p, Open(q)', overlapped'[q] = {} PROVE Smooth(View(q)', todo'[q]) \/ Wants(q)'
    BY <1>1, <1>2, <1>3, <1>5, ErrKept
  <1> QED
    BY <1>4, <1>5 DEF ErrInv

\* What others insert overlaps everybody.
LEMMA ElsewhereErr ==
    ASSUME NEW op, NEW i, NEW row, Elsewhere(op, i, row)
    PROVE  ErrInv'
  <1>1. /\ overlapped' = [p \in Sessions |-> IF Open(p) THEN overlapped[p] \cup {None} ELSE overlapped[p]]
        /\ call' = call
    BY DEF Elsewhere
  <1>2. \A q \in Sessions : ~(Open(q)' /\ overlapped'[q] = {})
    BY <1>1 DEF Open
  <1> QED
    BY <1>2 DEF ErrInv

\* At the beginning rows refer to rows, and there is no transaction.
LEMMA InitErr == Init => RefInv /\ ErrInv
  <1> SUFFICES ASSUME Init PROVE RefInv /\ ErrInv
    OBVIOUS
  <1>1. db = InitialRows /\ \A p \in Sessions : own[p] = NothingWritten /\ call[p] = NoCall
    BY DEF Init
  <1>2. \A p \in Sessions, i \in Ids : own[p][i] = Unwritten
    BY <1>1 DEF NothingWritten
  <1>3. \A p \in Sessions : View(p) = db
    <2> TAKE p \in Sessions
    <2>1. View(p) = [i \in Ids |-> db[i]]
      BY <1>2 DEF View
    <2> QED
      BY <1>1, <2>1
  <1>4. Whole(db)
    BY <1>1, InitialReferencesAssumption
  <1>5. RefInv
    BY <1>2, <1>3, <1>4 DEF RefInv, Kept
  <1>6. ErrInv
    BY <1>1 DEF ErrInv, Open
  <1> QED
    BY <1>5, <1>6

\* Every step keeps references.
LEMMA StepRefs == IInv /\ CalInv /\ RefInv /\ IInv' /\ [Next]_vars => RefInv'
  <1> SUFFICES ASSUME IInv, CalInv, RefInv, IInv', [Next]_vars PROVE RefInv'
    OBVIOUS
  <1>1. ASSUME NEW p \in Sessions, NEW op, NEW i, NEW about, NEW sts, Begin(p, op, i, about, sts) PROVE RefInv'
    BY <1>1, RefsKept DEF Begin
  <1>2. ASSUME NEW p \in Sessions, EditRouting(p) PROVE RefInv'
    BY <1>1, <1>2 DEF EditRouting, AddOperation, UpdateOperation, RemoveOperation, MoveOperation, CreateProduct,
                      DeleteProduct, SetProductActive
  <1>3. ASSUME NEW p \in Sessions, EditMachines(p) PROVE RefInv'
    BY <1>1, <1>3 DEF EditMachines, CreateWorkCenter, DeleteWorkCenter, SetWorkCenterActive, CreateMachine, UpdateMachine,
                      SetMachineStatus, DeleteMachine
  <1>4. ASSUME NEW p \in Sessions, EditCalendars(p) PROVE RefInv'
    BY <1>1, <1>4 DEF EditCalendars, CreateCalendar, AddShift, SetCalendarActive, SetDefaultCalendar, DeleteCalendar,
                      UpdateTenantSettings, DeleteShift, UpdateShift
  <1>5. ASSUME NEW p \in Sessions, ExecuteStatement(p) PROVE RefInv'
    BY <1>5, ExecuteRefs
  <1>6. ASSUME NEW p \in Sessions, ReadRouting(p) PROVE RefInv'
    BY <1>6, ReadPlans, RefsKept
  <1>7. ASSUME NEW p \in Sessions, Commit(p) PROVE RefInv'
    BY <1>7, CommitRefs
  <1>8. ASSUME NEW p \in Sessions, Rollback(p) PROVE RefInv'
    BY <1>8, RollbackRefs
  <1>9. ASSUME NEW o \in Orders, NEW pr \in Products, PlaceOrder(o, pr) PROVE RefInv'
    <2>1. o \in Ids /\ Table[o] = "Order"
      BY DEF Orders, IdsOf
    <2>2. [product |-> pr] \in Rows[Table[o]]
      BY <2>1 DEF Rows
    <2> QED
      BY <1>9, <2>1, <2>2, ElsewhereRefs DEF PlaceOrder
  <1>10. ASSUME NEW e \in Entries, NEW m \in Machines, PlanWork(e, m) PROVE RefInv'
    <2>1. db[m] \in Rows.Machine
      BY <1>10, TableRows DEF PlanWork, IInv, TypeOK
    <2>2. db[m].center \in Centers
      BY <2>1, TableRows
    <2>3. e \in Ids /\ Table[e] = "ScheduleEntry"
      BY DEF Entries, IdsOf
    <2>4. [center |-> db[m].center, machine |-> m] \in Rows[Table[e]]
      BY <2>2, <2>3 DEF Rows
    <2> QED
      BY <1>10, <2>3, <2>4, ElsewhereRefs DEF PlanWork
  <1>11. CASE UNCHANGED vars
    BY <1>11, RefsKept DEF vars, local
  <1> QED
    BY <1>2, <1>3, <1>4, <1>5, <1>6, <1>7, <1>8, <1>9, <1>10, <1>11 DEF Next

\* And what transactions will not fail at.
LEMMA StepErr == IInv /\ CalInv /\ RefInv /\ ErrInv /\ [Next]_vars => ErrInv'
  <1> SUFFICES ASSUME IInv, CalInv, RefInv, ErrInv, [Next]_vars PROVE ErrInv'
    OBVIOUS
  <1>1. ASSUME NEW p \in Sessions, EditRouting(p) \/ EditMachines(p) \/ EditCalendars(p) PROVE ErrInv'
    BY <1>1, EditRoutingErr, EditMachinesErr, EditCalendarsErr
  <1>2. ASSUME NEW p \in Sessions, ExecuteStatement(p) \/ ReadRouting(p) \/ Commit(p) \/ Rollback(p) PROVE ErrInv'
    BY <1>2, ExecuteErr, ReadErr, CommitErr, RollbackErr
  <1>3. ASSUME NEW o \in Orders, NEW pr \in Products, PlaceOrder(o, pr) PROVE ErrInv'
    BY <1>3, ElsewhereErr DEF PlaceOrder
  <1>4. ASSUME NEW e \in Entries, NEW m \in Machines, PlanWork(e, m) PROVE ErrInv'
    BY <1>4, ElsewhereErr DEF PlanWork
  <1>5. CASE UNCHANGED vars
    <2>1. UNCHANGED <<db, own, call, todo, overlapped>>
      BY <1>5 DEF vars, local
    <2>2. ASSUME NEW q \in Sessions, Open(q)', overlapped'[q] = {} PROVE Smooth(View(q)', todo'[q]) \/ Wants(q)'
      BY <2>1, <2>2, ErrKept
    <2> QED
      BY <2>2 DEF ErrInv
  <1> QED
    BY <1>1, <1>2, <1>3, <1>4, <1>5 DEF Next

\* A smooth transaction does not fail, and one that wants to delete fails at planned work only.
LEMMA ErrorsExplained == IInv /\ CalInv /\ ErrInv => ErrorsNeedOverlap
  <1> SUFFICES ASSUME IInv, CalInv, ErrInv, NEW p \in Sessions, Ready(p), Fails(p), overlapped[p] = {}
               PROVE  call[p].op \in {"deleteMachine", "deleteCenter"} /\ Referrers(db, call[p].id) \cap Entries # {}
    BY DEF ErrorsNeedOverlap
  <1>1. Open(p) /\ todo[p] \in Seq(Statements) /\ todo[p] # <<>> /\ Statement(p) = todo[p][1]
    <2>1. Open(p) /\ todo[p] \in Seq(Statements) /\ todo[p] # <<>>
      BY DEF IInv, TypeOK, Ready
    <2> QED
      BY <2>1 DEF Statement
  <1>2. FailsIn(View(p), Statement(p))
    BY DEF Fails, FailsIn
  <1>3. CASE Smooth(View(p), todo[p])
    <2>1. Proper(View(p))
      BY ProperViews DEF IInv, CalInv
    <2>2. ~FailsIn(View(p), todo[p][1])
      BY <1>1, <1>3, <2>1, SmoothRest
    <2> QED
      BY <1>1, <1>2, <2>2
  <1>4. CASE Wants(p)
    <2>1. /\ call[p].op \in {"deleteMachine", "deleteCenter"} /\ own[p] = NothingWritten
          /\ todo[p] = <<Delete(call[p].id)>> /\ db[call[p].id] # NoRow /\ Blocking(db, call[p].id) \subseteq Entries
      BY <1>4 DEF Wants
    <2>2. View(p) = db
      <3>1. View(p) = [i \in Ids |-> db[i]]
        BY <2>1 DEF View, NothingWritten
      <3> QED
        BY <3>1 DEF IInv, TypeOK
    <2>3. Statement(p) = Delete(call[p].id)
      BY <1>1, <2>1
    <2>4. Blocking(db, call[p].id) # {}
      BY <1>2, <2>1, <2>2, <2>3 DEF FailsIn, Delete
    <2> QED
      BY <2>1, <2>4 DEF Blocking
  <1> QED
    BY <1>1, <1>3, <1>4 DEF ErrInv

\* The reads of the handlers in products, machines, calendars and tenant
\* settings foresee what the database will refuse: a transaction that nobody
\* overlaps fails at no statement, no step number, reference or missing row,
\* but where a machine or work center to be deleted has planned work.
THEOREM ErrorsForeseen == Spec => []ErrorsNeedOverlap
  <1>1. Init => CalInv /\ RefInv /\ ErrInv
    BY InitPlanner, InitErr
  <1>2. IInv /\ CalInv /\ RefInv /\ ErrInv /\ IInv' /\ [Next]_vars => CalInv' /\ RefInv' /\ ErrInv'
    BY StepPlanner, StepRefs, StepErr
  <1>3. IInv /\ CalInv /\ ErrInv => ErrorsNeedOverlap
    BY ErrorsExplained
  <1> QED
    BY <1>1, <1>2, <1>3, Inductive, PTL DEF Spec

-----------------------------------------------------------------------------
(***************************************************************************)
(* The order of a routing.                                                 *)
(***************************************************************************)
\* A set of natural numbers has a least element.
LEMMA Least ==
    ASSUME NEW S \in SUBSET Nat, S # {}
    PROVE  \E x \in S : \A y \in S : x <= y
  <1> DEFINE R == OpToRel(<, Nat)
  <1>1. IsWellFoundedOn(R, Nat)
    BY NatLessThanWellFounded
  <1>2. R = {ss \in Nat \X Nat : ss[1] < ss[2]}
    BY DEF OpToRel
  <1> HIDE DEF R
  <1>3. \E x \in S : \A y \in S : ~(<<y, x>> \in R)
    <2>1. S \subseteq Nat /\ S # {}
      OBVIOUS
    <2> QED
      BY ONLY <1>1, <2>1, WFMin
  <1>4. PICK x \in S : \A y \in S : <<y, x>> \notin R
    BY <1>3
  <1>5. ASSUME NEW y \in S PROVE x <= y
    <2>1. <<y, x>> \in Nat \X Nat
      OBVIOUS
    <2>2. ~(y < x)
      BY <1>2, <1>4, <2>1
    <2> QED
      BY <2>2
  <1> QED
    BY <1>5

\* The elements of S in the order of their numbers.
Rising(f, n, S, num) ==
    /\ f \in [1 .. n -> S] /\ \A x \in S : num[x] \in Int
    /\ \A i, j \in 1 .. n : i < j => num[f[i]] < num[f[j]]
    /\ \A x \in S : \E i \in 1 .. n : f[i] = x

\* There is one such order.
LEMMA RisingUnique ==
    ASSUME NEW S, NEW num, NEW n \in Nat, NEW f, NEW g, Rising(f, n, S, num), Rising(g, n, S, num)
    PROVE  f = g
  <1> DEFINE T == {i \in 1 .. n : f[i] # g[i]}
  <1>1. ASSUME T # {} PROVE FALSE
    <2>1. T \in SUBSET Nat
      OBVIOUS
    <2>2. PICK i \in T : \A k \in T : i <= k
      <3> HIDE DEF T
      <3> QED
        BY <1>1, <2>1, Least
    <2>3. i \in 1 .. n /\ f[i] # g[i] /\ \A k \in 1 .. n : k < i => f[k] = g[k]
      BY <2>2
    <2>4. f[i] \in S /\ g[i] \in S
      BY <2>3 DEF Rising
    <2>5. PICK j \in 1 .. n : g[j] = f[i]
      BY <2>4 DEF Rising
    <2>6. PICK k \in 1 .. n : f[k] = g[i]
      BY <2>4 DEF Rising
    <2>7. \A x \in S : num[x] \in Int
      BY DEF Rising
    <2>8. i < j
      <3>1. ASSUME j < i PROVE FALSE
        <4>1. f[j] = f[i]
          BY <2>3, <2>5, <3>1
        <4>2. num[f[j]] < num[f[i]]
          BY <2>3, <3>1 DEF Rising
        <4> QED
          BY <2>4, <2>7, <4>1, <4>2
      <3>2. j # i
        BY <2>3, <2>5
      <3> QED
        BY <2>3, <3>1, <3>2
    <2>9. i < k
      <3>1. ASSUME k < i PROVE FALSE
        <4>1. g[k] = g[i]
          BY <2>3, <2>6, <3>1
        <4>2. num[g[k]] < num[g[i]]
          BY <2>3, <3>1 DEF Rising
        <4> QED
          BY <2>4, <2>7, <4>1, <4>2
      <3>2. k # i
        BY <2>3, <2>6
      <3> QED
        BY <2>3, <3>1, <3>2
    <2>10. num[g[i]] < num[g[j]] /\ num[f[i]] < num[f[k]]
      BY <2>3, <2>8, <2>9 DEF Rising
    <2> QED
      BY <2>4, <2>5, <2>6, <2>7, <2>10
  <1>2. \A i \in 1 .. n : f[i] = g[i]
    BY <1>1
  <1> QED
    BY <1>2 DEF Rising

\* The steps of a product and their numbers.
LEMMA RoutingSteps ==
    ASSUME NEW view, Proper(view), NEW pr
    PROVE  /\ IsFiniteSet(StepsOf(view, pr)) /\ Cardinality(StepsOf(view, pr)) \in Nat
           /\ \A t \in StepsOf(view, pr) : /\ t \in Steps /\ t \in Ids /\ view[t] # NoRow
                                           /\ view[t] \in StepRows /\ view[t].product = pr /\ view[t].seq \in Int
           /\ \A t \in Steps : view[t] # NoRow /\ view[t].product = pr => t \in StepsOf(view, pr)
  <1>1. IsFiniteSet(StepsOf(view, pr))
    BY FS_Subset DEF StepsOf, Steps, IdsOf
  <1>2. ASSUME NEW t \in StepsOf(view, pr)
        PROVE  /\ t \in Steps /\ t \in Ids /\ view[t] # NoRow
               /\ view[t] \in StepRows /\ view[t].product = pr
    BY RowTypes DEF StepsOf, Proper
  <1> QED
    BY <1>1, <1>2, FS_CardinalityType DEF StepRows, StepsOf

\* A sorted routing is rising, and the only one.
LEMMA SortedRises ==
    ASSUME NEW view, Proper(view), NEW pr, NEW sorted \in Routings(view, pr)
    PROVE  /\ Rising(sorted, Cardinality(StepsOf(view, pr)), StepsOf(view, pr),
                     [t \in StepsOf(view, pr) |-> view[t].seq])
           /\ Routing(view, pr) = sorted
  <1> DEFINE S   == StepsOf(view, pr)
             N   == Cardinality(S)
             num == [t \in S |-> view[t].seq]
  <1>1. N \in Nat /\ \A t \in S : num[t] \in Int
    BY RoutingSteps
  <1>2. ASSUME NEW f \in Routings(view, pr) PROVE Rising(f, N, S, num)
    <2>1. Onto(view, pr, f, N)
      BY SortedOnto
    <2>2. f \in [1 .. N -> S] /\ \A i, j \in 1 .. N : i < j => view[f[i]].seq < view[f[j]].seq
      BY DEF Routings
    <2>3. \A i \in 1 .. N : num[f[i]] = view[f[i]].seq
      BY <2>2
    <2>4. \A x \in S : \E i \in 1 .. N : f[i] = x
      BY <2>1 DEF Onto
    <2> HIDE DEF S, N, num
    <2> QED
      BY <1>1, <2>2, <2>3, <2>4 DEF Rising
  <1>3. Routing(view, pr) \in Routings(view, pr)
    BY DEF Routing
  <1> HIDE DEF S, N, num
  <1>4. Routing(view, pr) = sorted
    BY <1>1, <1>2, <1>3, RisingUnique
  <1> QED
    BY <1>2, <1>4 DEF S, N, num

\* What others than the steps of a product do leaves its routing alone.
LEMMA SameRouting ==
    ASSUME NEW v, NEW w, NEW pr,
           \A t \in Steps : w[t] = v[t] \/ (t \notin StepsOf(v, pr) /\ t \notin StepsOf(w, pr))
    PROVE  StepsOf(w, pr) = StepsOf(v, pr) /\ Routing(w, pr) = Routing(v, pr)
  <1>1. StepsOf(w, pr) = StepsOf(v, pr) /\ \A t \in StepsOf(v, pr) : w[t] = v[t]
    BY DEF StepsOf
  <1>2. Routings(w, pr) = Routings(v, pr)
    <2> DEFINE S == StepsOf(v, pr)
               N == Cardinality(S)
    <2>1. Routings(w, pr) = {f \in [1 .. N -> S] : \A i, j \in DOMAIN f : i < j => w[f[i]].seq < w[f[j]].seq}
      BY <1>1 DEF Routings
    <2>2. Routings(v, pr) = {f \in [1 .. N -> S] : \A i, j \in DOMAIN f : i < j => v[f[i]].seq < v[f[j]].seq}
      BY DEF Routings
    <2>3. \A f \in [1 .. N -> S] : \A i \in DOMAIN f : w[f[i]] = v[f[i]]
      BY <1>1
    <2> HIDE DEF S, N
    <2> QED
      BY <2>1, <2>2, <2>3
  <1> QED
    BY <1>1, <1>2 DEF Routing

\* A step with the largest number is the last one.
LEMMA AddedLast ==
    ASSUME NEW v, Proper(v), NEW w, Proper(w), NEW pr, NEW s \in Steps, NEW row \in StepRows,
           v[s] = NoRow, row.product = pr, \A t \in StepsOf(v, pr) : v[t].seq < row.seq,
           \A t \in Steps : w[t] = IF t = s THEN row ELSE v[t],
           NEW sorted \in Routings(w, pr)
    PROVE  \E before \in Routings(v, pr) : sorted = Append(before, s)
  <1> DEFINE S == StepsOf(v, pr)
             N == Cardinality(S)
  <1>1. IsFiniteSet(S) /\ N \in Nat /\ s \notin S /\ S \subseteq Steps
    <2>1. s \notin S /\ S \subseteq Steps
      BY DEF StepsOf
    <2>2. IsFiniteSet(S) /\ Cardinality(S) \in Nat
      BY RoutingSteps
    <2> QED
      BY <2>1, <2>2
  <1>2. StepsOf(w, pr) = S \cup {s}
    <2>1. row # NoRow
      BY RowTypes
    <2> QED
      BY <2>1 DEF StepsOf
  <1>3. Cardinality(S \cup {s}) = N + 1
    BY <1>1, FS_AddElement
  <1>4. \A t \in S : w[t] = v[t] /\ v[t].seq \in Int
    BY <1>1, RoutingSteps
  <1>5. w[s].seq = row.seq /\ row.seq \in Int
    BY DEF StepRows
  <1>6. \A t \in S : v[t].seq < row.seq
    OBVIOUS
  <1>7. Onto(w, pr, sorted, Cardinality(StepsOf(w, pr)))
    BY SortedOnto
  <1>8. /\ sorted \in [1 .. N + 1 -> S \cup {s}]
        /\ \A i, j \in 1 .. N + 1 : i < j => w[sorted[i]].seq < w[sorted[j]].seq
    <2>1. LET W == StepsOf(w, pr) IN
          /\ sorted \in [1 .. Cardinality(W) -> W]
          /\ \A i, j \in 1 .. Cardinality(W) : i < j => w[sorted[i]].seq < w[sorted[j]].seq
      BY DEF Routings
    <2> HIDE DEF S, N
    <2> QED
      BY <1>2, <1>3, <2>1
  <1> HIDE DEF S, N
  <1>9. /\ \A i, j \in 1 .. N + 1 : i # j => sorted[i] # sorted[j]
        /\ \E i \in 1 .. N + 1 : sorted[i] = s
    BY <1>2, <1>3, <1>7 DEF Onto
  <1>10. sorted[N + 1] = s
    <2>1. PICK i \in 1 .. N + 1 : sorted[i] = s
      BY <1>9
    <2>2. ASSUME i < N + 1 PROVE FALSE
      <3>1. N + 1 \in 1 .. N + 1
        BY <1>1
      <3>2. w[sorted[i]].seq < w[sorted[N + 1]].seq
        BY <1>8, <2>2, <3>1
      <3>3. sorted[N + 1] \in S
        BY <1>8, <1>9, <2>1, <2>2, <3>1
      <3> QED
        BY <1>4, <1>5, <1>6, <2>1, <3>2, <3>3
    <2> QED
      BY <1>1, <2>1, <2>2
  <1> DEFINE before == [i \in 1 .. N |-> sorted[i]]
  <1>11. ASSUME NEW i \in 1 .. N PROVE i \in 1 .. N + 1 /\ sorted[i] \in S /\ before[i] = sorted[i]
    <2>1. i \in 1 .. N + 1 /\ N + 1 \in 1 .. N + 1 /\ i # N + 1
      BY <1>1
    <2>2. sorted[i] # s
      BY <1>9, <1>10, <2>1
    <2> QED
      BY <1>8, <2>1, <2>2
  <1>12. before \in [1 .. N -> S]
    BY <1>11
  <1> HIDE DEF before
  <1>13. before \in Routings(v, pr)
    <2>1. DOMAIN before = 1 .. N
      BY <1>12
    <2>2. ASSUME NEW i \in 1 .. N, NEW j \in 1 .. N, i < j PROVE v[before[i]].seq < v[before[j]].seq
      <3>1. w[sorted[i]].seq < w[sorted[j]].seq
        BY <1>8, <1>11, <2>2
      <3> QED
        BY <1>4, <1>11, <3>1
    <2> QED
      BY <1>12, <2>1, <2>2 DEF Routings, S, N
  <1>14. sorted = Append(before, s)
    <2>1. before \in Seq(Steps) /\ Len(before) = N
      <3>1. before \in [1 .. N -> Steps]
        BY <1>1, <1>12
      <3> QED
        BY <1>1, <3>1, TypedFunction
    <2>2. sorted \in Seq(Steps) /\ Len(sorted) = N + 1
      <3>1. sorted \in [1 .. N + 1 -> Steps]
        BY <1>1, <1>8
      <3>2. N + 1 \in Nat
        BY <1>1
      <3> QED
        BY <3>1, <3>2, TypedFunction
    <2>3. /\ Append(before, s) \in Seq(Steps) /\ Len(Append(before, s)) = N + 1
          /\ \A i \in 1 .. N : Append(before, s)[i] = before[i]
          /\ Append(before, s)[N + 1] = s
      BY <2>1, AppendProperties
    <2>4. \A i \in 1 .. N + 1 : i \in 1 .. N \/ i = N + 1
      BY <1>1
    <2>5. \A i \in 1 .. N + 1 : sorted[i] = Append(before, s)[i]
      BY <1>10, <1>11, <2>3, <2>4
    <2> QED
      BY <2>2, <2>3, <2>5, SeqEqual
  <1> QED
    BY <1>13, <1>14

\* A step is taken out of the tables, and out of a sequence.
Without(v, w, s) == \A t \in Steps : w[t] = IF t = s THEN NoRow ELSE v[t]
TakenOut(before, after, s) ==
    \E i \in 1 .. Len(before) :
        s = before[i] /\ after = SubSeq(before, 1, i - 1) \o SubSeq(before, i + 1, Len(before))

\* The routing without a step.
LEMMA RemovedOne ==
    ASSUME NEW v, Proper(v), UniqueIn(v), NEW w, Proper(w), NEW pr, NEW s \in Steps,
           v[s] # NoRow, v[s].product = pr,
           Without(v, w, s), NEW sorted \in Routings(w, pr)
    PROVE  \E before \in Routings(v, pr) : TakenOut(before, sorted, s)
  <1> USE DEF Without, TakenOut
  <1> DEFINE S == StepsOf(w, pr)
             M == Cardinality(S)
             N == M + 1
  <1>1. IsFiniteSet(S) /\ M \in Nat /\ s \notin S /\ S \subseteq Steps
    <2>1. s \notin S /\ S \subseteq Steps
      BY DEF StepsOf
    <2>2. IsFiniteSet(S) /\ Cardinality(S) \in Nat
      BY RoutingSteps
    <2> QED
      BY <2>1, <2>2
  <1>2. StepsOf(v, pr) = S \cup {s}
    BY DEF StepsOf
  <1>3. Cardinality(S \cup {s}) = N
    BY <1>1, FS_AddElement
  <1>4. v[s].seq \in Int /\ \A t \in S : w[t] = v[t] /\ v[t].seq \in Int /\ v[t].seq # v[s].seq
    <2>1. \A t \in S \cup {s} : t \in Steps /\ v[t] \in StepRows /\ v[t].product = pr /\ v[t].seq \in Int
      BY <1>2, RoutingSteps
    <2>2. \A t \in S : t # s /\ w[t] = v[t]
      BY <1>1
    <2> HIDE DEF S
    <2>3. \A t \in S : v[t].seq # v[s].seq
      BY <2>1, <2>2 DEF UniqueIn, Apart
    <2> QED
      BY <2>1, <2>2, <2>3
  <1>5. sorted \in [1 .. M -> S] /\ \A i, j \in 1 .. M : i < j => w[sorted[i]].seq < w[sorted[j]].seq
    BY DEF Routings
  <1> HIDE DEF S, M
  <1>6. /\ \A i \in 1 .. M : sorted[i] \in S /\ v[sorted[i]].seq \in Int /\ v[sorted[i]].seq # v[s].seq
        /\ \A i, j \in 1 .. M : i < j => v[sorted[i]].seq < v[sorted[j]].seq
    BY <1>4, <1>5
  <1> DEFINE T == {i \in 1 .. N : i \in 1 .. M => v[s].seq < v[sorted[i]].seq}
  <1>7. PICK i \in T : \A k \in T : i <= k
    <2>1. T \in SUBSET Nat /\ N \in T
      BY <1>1
    <2> HIDE DEF T
    <2> QED
      BY <2>1, Least
  <1>8. /\ i \in 1 .. N /\ (i \in 1 .. M => v[s].seq < v[sorted[i]].seq)
        /\ \A k \in 1 .. M : k < i => v[sorted[k]].seq < v[s].seq
    <2>1. i \in 1 .. N /\ (i \in 1 .. M => v[s].seq < v[sorted[i]].seq)
      OBVIOUS
    <2>2. ASSUME NEW k \in 1 .. M, k < i PROVE v[sorted[k]].seq < v[s].seq
      <3>1. k \notin T /\ k \in 1 .. N
        BY <1>1, <1>7, <2>2
      <3>2. ~(v[s].seq < v[sorted[k]].seq)
        BY <3>1
      <3> HIDE DEF T
      <3> QED
        BY <1>4, <1>6, <3>2
    <2> QED
      BY <2>1, <2>2
  <1>9. \A k \in 1 .. M : i <= k => v[s].seq < v[sorted[k]].seq
    <2> TAKE k \in 1 .. M
    <2> HAVE i <= k
    <2>1. i \in 1 .. M
      BY <1>1, <1>8
    <2>2. i = k \/ i < k
      BY <1>8
    <2>3. v[sorted[i]].seq \in Int /\ v[sorted[k]].seq \in Int
      BY <1>6, <2>1
    <2>4. v[s].seq < v[sorted[i]].seq
      BY <1>8, <2>1
    <2>5. i = k \/ v[sorted[i]].seq < v[sorted[k]].seq
      BY <1>6, <2>1, <2>2
    <2> HIDE DEF T
    <2> QED
      BY <1>4, <2>3, <2>4, <2>5
  <1> HIDE DEF T
  <1> DEFINE before == [k \in 1 .. N |-> IF k < i THEN sorted[k] ELSE IF k = i THEN s ELSE sorted[k - 1]]
  <1>10. /\ \A k \in 1 .. N : k < i => k \in 1 .. M /\ before[k] = sorted[k]
         /\ before[i] = s
         /\ \A k \in 1 .. N : i < k => k - 1 \in 1 .. M /\ i <= k - 1 /\ before[k] = sorted[k - 1]
    BY <1>1, <1>8
  <1>11. before \in [1 .. N -> S \cup {s}]
    <2>1. \A k \in 1 .. N : k < i \/ k = i \/ i < k
      BY <1>1, <1>8
    <2>2. \A k \in 1 .. N : before[k] \in S \cup {s}
      BY <1>6, <1>10, <2>1
    <2>3. DOMAIN before = 1 .. N /\ before = [k \in 1 .. N |-> before[k]]
      OBVIOUS
    <2> HIDE DEF before
    <2> QED
      BY <2>2, <2>3
  <1> HIDE DEF before, N
  <1>12. before \in Routings(v, pr)
    <2>1. ASSUME NEW j \in 1 .. N, NEW k \in 1 .. N, j < k PROVE v[before[j]].seq < v[before[k]].seq
      <3>1. CASE k < i
        BY <1>1, <1>6, <1>8, <1>10, <2>1, <3>1 DEF N
      <3>2. CASE k = i
        BY <1>8, <1>10, <2>1, <3>2
      <3>3. CASE i < k /\ j = i
        BY <1>9, <1>10, <3>3
      <3>4. CASE i < k /\ i < j
        <4>1. j - 1 \in 1 .. M /\ k - 1 \in 1 .. M /\ j - 1 < k - 1
          BY <1>10, <2>1, <3>4
        <4> QED
          BY <1>6, <1>10, <3>4, <4>1
      <3>5. CASE i < k /\ j < i
        <4>1. j \in 1 .. M /\ k - 1 \in 1 .. M /\ j < k - 1
          BY <1>8, <1>10, <3>5
        <4> QED
          BY <1>6, <1>10, <3>5, <4>1
      <3> QED
        BY <1>1, <1>8, <3>1, <3>2, <3>3, <3>4, <3>5 DEF N
    <2>2. DOMAIN before = 1 .. N
      BY <1>11
    <2> QED
      BY <1>2, <1>3, <1>11, <2>1, <2>2 DEF Routings
  <1>13. before \in Seq(Steps) /\ Len(before) = N /\ N \in Nat
    <2>1. before \in [1 .. N -> Steps] /\ N \in Nat
      BY <1>1, <1>11 DEF N
    <2> QED
      BY <2>1, TypedFunction
  <1>14. sorted \in Seq(Steps) /\ Len(sorted) = M
    <2>1. sorted \in [1 .. M -> Steps]
      BY <1>1, <1>5
    <2> QED
      BY <1>1, <2>1, TypedFunction
  <1>15. sorted = SubSeq(before, 1, i - 1) \o SubSeq(before, i + 1, N)
    <2> DEFINE a == SubSeq(before, 1, i - 1)
               b == SubSeq(before, i + 1, N)
    <2>1. /\ a \in Seq(Steps) /\ Len(a) = i - 1
          /\ \A k \in 1 .. i - 1 : a[k] = before[k]
      <3>1. \A k \in 1 .. i - 1 : before[k] \in Steps
        <4>1. \A k \in 1 .. i - 1 : k \in 1 .. N
          BY <1>8, <1>13
        <4> QED
          BY <1>1, <1>11, <4>1
      <3>2. i - 1 \in Int /\ 1 \in Int /\ i - 1 >= 0
        BY <1>8
      <3>3. /\ a \in Seq(Steps) /\ Len(a) = IF 1 <= i - 1 THEN i - 1 - 1 + 1 ELSE 0
            /\ \A k \in 1 .. i - 1 - 1 + 1 : a[k] = before[1 + k - 1]
        BY <3>1, <3>2, SubSeqProperties
      <3> HIDE DEF a
      <3> QED
        BY <3>2, <3>3
    <2>2. /\ b \in Seq(Steps) /\ Len(b) = N - i
          /\ \A k \in 1 .. N - i : b[k] = before[i + k]
      <3>1. \A k \in i + 1 .. N : before[k] \in Steps
        <4>1. \A k \in i + 1 .. N : k \in 1 .. N
          BY <1>8, <1>13
        <4> QED
          BY <1>1, <1>11, <4>1
      <3>2. i + 1 \in Int /\ N \in Int /\ N - i >= 0 /\ i \in Int
        BY <1>8, <1>13
      <3>3. /\ b \in Seq(Steps) /\ Len(b) = IF i + 1 <= N THEN N - (i + 1) + 1 ELSE 0
            /\ \A k \in 1 .. N - (i + 1) + 1 : b[k] = before[i + 1 + k - 1]
        BY <3>1, <3>2, SubSeqProperties
      <3> HIDE DEF b
      <3> QED
        BY <3>2, <3>3
    <2> HIDE DEF a, b
    <2>3. /\ a \o b \in Seq(Steps) /\ Len(a \o b) = M
          /\ \A k \in 1 .. M : (a \o b)[k] = IF k <= i - 1 THEN a[k] ELSE b[k - (i - 1)]
      <3>1. /\ a \o b \in Seq(Steps) /\ Len(a \o b) = Len(a) + Len(b)
            /\ \A k \in 1 .. Len(a) + Len(b) : (a \o b)[k] = IF k <= Len(a) THEN a[k] ELSE b[k - Len(a)]
        <4>1. ASSUME NEW x \in Seq(Steps), NEW y \in Seq(Steps)
              PROVE  /\ x \o y \in Seq(Steps) /\ Len(x \o y) = Len(x) + Len(y)
                     /\ \A k \in 1 .. Len(x) + Len(y) : (x \o y)[k] = IF k <= Len(x) THEN x[k] ELSE y[k - Len(x)]
          BY ConcatProperties
        <4> QED
          BY <2>1, <2>2, <4>1
      <3>2. Len(a) + Len(b) = M
        BY <1>1, <1>8, <2>1, <2>2 DEF N
      <3> QED
        BY <2>1, <3>1, <3>2
    <2>4. ASSUME NEW k \in 1 .. M PROVE sorted[k] = (a \o b)[k]
      <3>1. CASE k <= i - 1
        <4>1. k \in 1 .. N /\ k < i /\ k \in 1 .. i - 1
          BY <1>1, <1>8, <3>1 DEF N
        <4> QED
          BY <1>10, <2>1, <2>3, <3>1, <4>1
      <3>2. CASE ~(k <= i - 1)
        <4>1. k + 1 \in 1 .. N /\ i < k + 1 /\ k - (i - 1) \in 1 .. N - i /\ i + (k - (i - 1)) = k + 1 /\ k + 1 - 1 = k
          BY <1>1, <1>8, <3>2 DEF N
        <4>2. before[k + 1] = sorted[k]
          BY <1>10, <4>1
        <4>3. b[k - (i - 1)] = before[k + 1]
          BY <2>2, <4>1
        <4> QED
          BY <2>3, <3>2, <4>2, <4>3
      <3> QED
        BY <3>1, <3>2
    <2>5. sorted = a \o b
      BY <1>14, <2>3, <2>4, SeqEqual
    <2> QED
      BY <2>5 DEF a, b
  <1>16. i \in 1 .. Len(before)
    BY <1>8, <1>13 DEF N
  <1> QED
    BY <1>10, <1>12, <1>13, <1>15, <1>16

\* The routing with a step and its neighbour swapped.
LEMMA MovedOne ==
    ASSUME NEW view, Proper(view), NEW s \in Steps, view[s] # NoRow, NEW direction \in {"up", "down"},
           CanMove(view, s, direction), NEW sorted \in Routings(view, view[s].product)
    PROVE  \E i \in 1 .. Len(sorted) - 1 :
              /\ s \in {sorted[i], sorted[i + 1]}
              /\ Moved(sorted, s, direction) = [sorted EXCEPT ![i] = sorted[i + 1], ![i + 1] = sorted[i]]
  <1> DEFINE pr == view[s].product
             S  == StepsOf(view, pr)
             N  == Cardinality(S)
             At(k) == sorted[k] = s /\ Neighbour(k, direction) \in DOMAIN sorted
  <1>1. N \in Nat /\ s \in S /\ \A t \in S : view[t].seq \in Int /\ t \in Steps
    BY RoutingSteps
  <1>2. Onto(view, pr, sorted, N)
    BY SortedOnto
  <1>3. sorted \in [1 .. N -> S] /\ \A i, j \in 1 .. N : i < j => view[sorted[i]].seq < view[sorted[j]].seq
    BY DEF Routings
  <1>4. PICK t \in S : IF direction = "up" THEN view[t].seq < view[s].seq ELSE view[t].seq > view[s].seq
    BY DEF CanMove
  <1> HIDE DEF S, N
  <1>5. PICK k \in 1 .. N : sorted[k] = s
    BY <1>1, <1>2 DEF Onto, S
  <1>6. PICK l \in 1 .. N : sorted[l] = t
    BY <1>2 DEF Onto, S
  <1>7. At(k)
    <2>1. IF direction = "up" THEN l < k ELSE k < l
      <3>1. l # k
        BY <1>1, <1>4, <1>5, <1>6
      <3>2. l < k => view[t].seq < view[s].seq
        BY <1>3, <1>5, <1>6
      <3>3. k < l => view[s].seq < view[t].seq
        BY <1>3, <1>5, <1>6
      <3>4. l < k \/ k < l
        BY <3>1
      <3> QED
        BY <1>1, <1>4, <3>2, <3>3, <3>4
    <2>2. Neighbour(k, direction) \in 1 .. N
      BY <1>1, <2>1 DEF Neighbour
    <2> QED
      BY <1>3, <1>5, <2>2
  <1> DEFINE i == CHOOSE m \in DOMAIN sorted : At(m)
             j == Neighbour(i, direction)
  <1>8. i \in 1 .. N /\ At(i) /\ j \in 1 .. N
    BY <1>3, <1>7
  <1>9. Moved(sorted, s, direction) = [sorted EXCEPT ![i] = sorted[j], ![j] = sorted[i]]
    <2>1. \E m \in DOMAIN sorted : At(m)
      BY <1>3, <1>7
    <2> QED
      BY <2>1 DEF Moved
  <1>10. j = IF direction = "up" THEN i - 1 ELSE i + 1
    BY DEF Neighbour
  <1>11. Len(sorted) = N
    BY <1>1, <1>3, TypedFunction
  <1>12. sorted[i] = s
    BY <1>8
  <1> HIDE DEF i, j
  <1>13. CASE direction = "up"
    <2>1. j \in 1 .. Len(sorted) - 1 /\ j + 1 = i /\ i # j
      BY <1>1, <1>8, <1>10, <1>11, <1>13
    <2>2. Moved(sorted, s, direction) = [sorted EXCEPT ![j] = sorted[j + 1], ![j + 1] = sorted[j]]
      <3>1. [sorted EXCEPT ![i] = sorted[j], ![j] = sorted[i]] = [sorted EXCEPT ![j] = sorted[i], ![i] = sorted[j]]
        BY <2>1
      <3> QED
        BY <1>9, <2>1, <3>1
    <2> QED
      BY <1>12, <2>1, <2>2
  <1>14. CASE direction = "down"
    <2>1. i \in 1 .. Len(sorted) - 1 /\ j = i + 1
      BY <1>1, <1>8, <1>10, <1>11, <1>14
    <2> QED
      BY <1>9, <1>12, <2>1
  <1> QED
    BY <1>13, <1>14

-----------------------------------------------------------------------------
(***************************************************************************)
(* What becomes of a routing.  As long as nobody overlaps a transaction    *)
(* that changes one, it has not begun (Opens), has added or removed its    *)
(* step, or gives the steps the numbers of the order that was wanted       *)
(* (Arranges): each has its number or a statement that settles it, the     *)
(* last one about that step (Ends).                                        *)
(***************************************************************************)
Changing == {"addStep", "removeStep", "moveStep"}

NewLast(row) == \E last : IsLast(last, db, row.product) /\ row.seq = NextSequence(last)

Opens(op, s, sts) ==
    \/ /\ op = "addStep" /\ db[s] = NoRow
       /\ \E row \in StepRows :
             NewLast(row) /\ sts = <<Insert(s, row), RenumberOperations(row.product, None, "none")>>
    \/ /\ op = "removeStep" /\ db[s] # NoRow
       /\ sts = <<Delete(s), RenumberOperations(db[s].product, None, "none")>>
    \/ /\ op = "moveStep" /\ db[s] # NoRow
       /\ \E direction \in {"up", "down"} :
             CanMove(db, s, direction) /\ sts = <<RenumberOperations(db[s].product, s, direction)>>

\* What the session sees differs in its step only.
Sees(p, row) == \A t \in Steps : View(p)[t] = IF t = call[p].id THEN row ELSE db[t]

Added(p) ==
    /\ call[p].op = "addStep" /\ db[call[p].id] = NoRow
    /\ \E row \in StepRows :
          NewLast(row) /\ Sees(p, row) /\ todo[p] = <<RenumberOperations(row.product, None, "none")>>
Removed(p) ==
    /\ call[p].op = "removeStep" /\ db[call[p].id] # NoRow
    /\ Sees(p, NoRow) /\ todo[p] = <<RenumberOperations(db[call[p].id].product, None, "none")>>

Ends(view, sts, route) ==
    /\ \A k \in DOMAIN sts : /\ sts[k].do = "update" /\ DOMAIN sts[k].set = {"seq"}
                             /\ \E i \in DOMAIN route : sts[k].id = route[i]
    /\ \A i \in DOMAIN route :
          \/ view[route[i]].seq = i * SequenceStep /\ \A k \in DOMAIN sts : sts[k].id # route[i]
          \/ \E j \in DOMAIN sts : /\ sts[j] = Renumber(route[i], i * SequenceStep)
                                   /\ \A k \in DOMAIN sts : sts[k].id = route[i] => k <= j

\* The rows that the session has changed are steps of the product.
Touches(p, pr) ==
    \A t \in Steps : View(p)[t] = db[t] \/ \A row \in {db[t], View(p)[t]} \ {NoRow} : row.product = pr

Arranges(p, pr, before, route) ==
    /\ before \in Routings(db, pr)
    /\ route \in [1 .. Cardinality(StepsOf(View(p), pr)) -> StepsOf(View(p), pr)]
    /\ Wanted(call[p], before, route)
    /\ call[p].id \in StepsOf(db, pr) \cup StepsOf(View(p), pr)
    /\ Touches(p, pr)
    /\ Ends(View(p), todo[p], route)

InOrder(p) ==
    /\ call[p].id \in Steps
    /\ \/ own[p] = NothingWritten /\ Opens(call[p].op, call[p].id, todo[p])
       \/ Added(p) \/ Removed(p)
       \/ \E pr \in Products : \E before, route : Arranges(p, pr, before, route)

RenInv == \A p \in Sessions : Open(p) /\ overlapped[p] = {} /\ call[p].op \in Changing => InOrder(p)

\* A commit leaves the routing as it was wanted, and those of other products as they were.
LEMMA CommitRight ==
    ASSUME IInv, CalInv, RenInv, NEW p \in Sessions, Commit(p), overlapped[p] = {}, call[p].op \in Changing,
           NEW pr \in Products
    PROVE  LET before == Routing(db, pr)
               after  == Routing(db', pr)
           IN  IF call[p].id \in StepsOf(db, pr) \cup StepsOf(db', pr)
               THEN /\ Wanted(call[p], before, after)
                    /\ \A i \in DOMAIN after : db'[after[i]].seq = i * SequenceStep
               ELSE after = before
  <1> DEFINE view == View(p)
  <1>1. Open(p) /\ todo[p] = <<>> /\ db' = view
    BY DEF Commit
  <1>2. InOrder(p)
    BY <1>1 DEF RenInv
  <1>3. ~Opens(call[p].op, call[p].id, todo[p]) /\ ~Added(p) /\ ~Removed(p)
    BY <1>1 DEF Opens, Added, Removed
  <1>4. PICK mine, before, route : mine \in Products /\ Arranges(p, mine, before, route)
    BY <1>2, <1>3 DEF InOrder
  <1>5. Proper(db) /\ Proper(view)
    BY ProperViews DEF IInv, CalInv
  <1>6. call[p].id \in Steps /\ call[p].id \in StepsOf(db, mine) \cup StepsOf(view, mine) /\ Touches(p, mine)
    BY <1>2, <1>4 DEF InOrder, Arranges
  <1>7. CASE pr = mine
    <2> DEFINE N == Cardinality(StepsOf(view, mine))
    <2>1. N \in Nat
      BY <1>5, RoutingSteps
    <2>2. /\ before \in Routings(db, mine) /\ Wanted(call[p], before, route)
          /\ route \in [1 .. N -> StepsOf(view, mine)] /\ Ends(view, todo[p], route)
      BY <1>4 DEF Arranges
    <2>3. \A i \in 1 .. N : view[route[i]].seq = i * SequenceStep
      BY <1>1, <2>2 DEF Ends
    <2> HIDE DEF N
    <2>4. \A i, j \in 1 .. N : i < j => view[route[i]].seq < view[route[j]].seq
      BY <2>1, <2>3 DEF SequenceStep
    <2> HIDE DEF view
    <2>5. route \in Routings(view, mine)
      BY <2>2, <2>4 DEF Routings, N
    <2>6. Routing(db, mine) = before /\ Routing(view, mine) = route
      BY <1>5, <2>2, <2>5, SortedRises
    <2>7. DOMAIN route = 1 .. N
      BY <2>2
    <2> QED
      BY <1>1, <1>6, <1>7, <2>2, <2>3, <2>6, <2>7
  <1>8. CASE pr # mine
    <2>1. \A t \in Steps : view[t] = db[t] \/ \A row \in {db[t], view[t]} \ {NoRow} : row.product = mine
      BY <1>6 DEF Touches
    <2> HIDE DEF view
    <2>2. \A t \in Steps : view[t] = db[t] \/ (t \notin StepsOf(db, pr) /\ t \notin StepsOf(view, pr))
      BY <1>8, <2>1 DEF StepsOf
    <2>3. Routing(view, pr) = Routing(db, pr)
      BY <2>2, SameRouting
    <2>4. call[p].id \notin StepsOf(db, pr) \cup StepsOf(view, pr)
      BY <1>6, <1>8, <2>1 DEF StepsOf
    <2> QED
      BY <1>1, <2>3, <2>4
  <1> QED
    BY <1>7, <1>8

\* The places of a plan are different, and their numbers change.
Needed(view, route, places) == \A k \in DOMAIN places : view[route[places[k]]].seq # places[k] * SequenceStep
Different(places) == \A k, l \in DOMAIN places : k # l => places[k] # places[l]
LEMMA PlacesApart ==
    ASSUME NEW view, NEW N \in Nat, NEW route, DOMAIN route = 1 .. N, NEW places \in Changes(view, route)
    PROVE  Needed(view, route, places) /\ Different(places)
  <1> DEFINE S == {i \in DOMAIN route : view[route[i]].seq # i * SequenceStep}
             n == Cardinality(S)
  <1>1. places \in [1 .. n -> S] /\ \A k, l \in DOMAIN places : k < l => places[k] < places[l]
    BY DEF Changes
  <1>2. n \in Nat
    <2>1. IsFiniteSet(1 .. N) /\ S \subseteq 1 .. N
      BY FS_Interval
    <2> QED
      BY <2>1, FS_Subset, FS_CardinalityType
  <1>3. \A i \in S : i \in 1 .. N /\ view[route[i]].seq # i * SequenceStep
    OBVIOUS
  <1> HIDE DEF S, n
  <1>4. \A k \in DOMAIN places : view[route[places[k]]].seq # places[k] * SequenceStep
    BY <1>1, <1>3
  <1>5. ASSUME NEW k \in DOMAIN places, NEW l \in DOMAIN places, k # l PROVE places[k] # places[l]
    <2>1. k < l \/ l < k
      BY <1>1, <1>2, <1>5
    <2>2. places[k] < places[l] \/ places[l] < places[k]
      BY <1>1, <2>1
    <2>3. places[k] \in 1 .. N /\ places[l] \in 1 .. N
      BY <1>1, <1>3
    <2> QED
      BY <2>2, <2>3
  <1> QED
    BY <1>4, <1>5 DEF Needed, Different

\* A plan settles all numbers of the routing.
LEMMA PlanEnds ==
    ASSUME NEW view, NEW pr, NEW N \in Nat, NEW n \in Nat, NEW route, Onto(view, pr, route, N),
           NEW places \in [1 .. n -> 1 .. N], places \in Changes(view, route),
           NEW sts, PlanOf(sts, route, places, n)
    PROVE  Ends(view, sts, route)
  <1>1. /\ DOMAIN sts = 1 .. n + n
        /\ \A k \in 1 .. n : /\ sts[k] = Renumber(route[places[k]], -places[k])
                             /\ sts[n + k] = Renumber(route[places[k]], places[k] * SequenceStep)
    <2>1. DOMAIN sts = 1 .. n + n
      BY LenProperties DEF PlanOf
    <2> QED
      BY <2>1 DEF PlanOf
  <1>2. \A k \in 1 .. n : places[k] \in 1 .. N
    OBVIOUS
  <1>3. DOMAIN route = 1 .. N /\ \A i, j \in 1 .. N : i # j => route[i] # route[j]
    BY DEF Onto
  <1>4. \A k \in 1 .. n + n : \E l \in 1 .. n : k = l \/ k = n + l
    <2> TAKE k \in 1 .. n + n
    <2>1. k \in 1 .. n \/ (k - n \in 1 .. n /\ k = n + (k - n))
      OBVIOUS
    <2> QED
      BY <2>1
  <1>5. \A s, m : Renumber(s, m).do = "update" /\ Renumber(s, m).id = s /\ DOMAIN Renumber(s, m).set = {"seq"}
    BY DEF Renumber
  <1>6. \A k \in 1 .. n + n, i \in 1 .. N : sts[k].id = route[i] =>
            \E l \in 1 .. n : places[l] = i /\ (k = l \/ k = n + l)
    <2> TAKE k \in 1 .. n + n, i \in 1 .. N
    <2> HAVE sts[k].id = route[i]
    <2>1. PICK l \in 1 .. n : k = l \/ k = n + l
      BY <1>4
    <2>2. sts[k].id = route[places[l]]
      BY <1>1, <1>5, <2>1
    <2> QED
      BY <1>2, <1>3, <2>1, <2>2
  <1>7. ASSUME NEW k \in DOMAIN sts
        PROVE  /\ sts[k].do = "update" /\ DOMAIN sts[k].set = {"seq"}
               /\ \E i \in DOMAIN route : sts[k].id = route[i]
    <2>1. PICK l \in 1 .. n : k = l \/ k = n + l
      BY <1>1, <1>4
    <2>2. sts[k] = Renumber(route[places[l]], -places[l]) \/ sts[k] = Renumber(route[places[l]], places[l] * SequenceStep)
      BY <1>1, <2>1
    <2> QED
      BY <1>2, <1>3, <1>5, <2>2
  <1>8. /\ \A i \in 1 .. N : view[route[i]].seq # i * SequenceStep => \E k \in DOMAIN places : places[k] = i
        /\ \A k \in 1 .. n : view[route[places[k]]].seq # places[k] * SequenceStep
        /\ \A k, l \in 1 .. n : k # l => places[k] # places[l]
    <2>1. DOMAIN route = 1 .. N
      BY <1>3
    <2>2. \A i \in 1 .. N : view[route[i]].seq # i * SequenceStep => \E k \in DOMAIN places : places[k] = i
      BY <2>1, ChangesOnto
    <2>3. /\ \A k \in DOMAIN places : view[route[places[k]]].seq # places[k] * SequenceStep
          /\ \A k, l \in DOMAIN places : k # l => places[k] # places[l]
      <3>1. Needed(view, route, places) /\ Different(places)
        BY <2>1, PlacesApart
      <3> QED
        BY <3>1 DEF Needed, Different
    <2>4. DOMAIN places = 1 .. n
      OBVIOUS
    <2> QED
      BY <2>2, <2>3, <2>4
  <1>9. ASSUME NEW i \in 1 .. N, view[route[i]].seq # i * SequenceStep
        PROVE  \E j \in DOMAIN sts : /\ sts[j] = Renumber(route[i], i * SequenceStep)
                                     /\ \A k \in DOMAIN sts : sts[k].id = route[i] => k <= j
    <2>1. PICK l \in DOMAIN places : places[l] = i
      BY <1>8, <1>9
    <2>2. l \in 1 .. n /\ n + l \in DOMAIN sts /\ sts[n + l] = Renumber(route[i], i * SequenceStep)
      BY <1>1, <2>1
    <2>3. ASSUME NEW k \in DOMAIN sts, sts[k].id = route[i] PROVE k <= n + l
      <3>1. PICK m \in 1 .. n : places[m] = i /\ (k = m \/ k = n + m)
        BY <1>1, <1>6, <2>3
      <3>2. m = l
        BY <1>8, <2>1, <2>2, <3>1
      <3> QED
        BY <2>2, <3>1, <3>2
    <2> QED
      BY <2>2, <2>3
  <1>10. ASSUME NEW i \in 1 .. N, view[route[i]].seq = i * SequenceStep
        PROVE  \A k \in DOMAIN sts : sts[k].id # route[i]
    <2> SUFFICES ASSUME NEW k \in DOMAIN sts, sts[k].id = route[i] PROVE FALSE
      OBVIOUS
    <2>1. PICK m \in 1 .. n : places[m] = i
      BY <1>1, <1>6
    <2> QED
      BY <1>8, <1>10, <2>1
  <1> QED
    BY <1>3, <1>7, <1>9, <1>10 DEF Ends

\* After a statement the rest of a plan settles what is left.
Stands(view, route) ==
    DOMAIN view = Ids /\ \A i \in DOMAIN route : route[i] \in Steps /\ view[route[i]] \in StepRows
Renumbered(view, w, route) ==
    \E i \in DOMAIN route : /\ w[route[i]] # NoRow /\ w[route[i]].product = view[route[i]].product
                            /\ \A t \in Ids \ {route[i]} : w[t] = view[t]

LEMMA EndsRest ==
    ASSUME NEW view, NEW route, Stands(view, route), NEW sts \in Seq(Statements), sts # <<>>, Ends(view, sts, route)
    PROVE  Ends(After(view, sts[1]), Tail(sts), route) /\ Renumbered(view, After(view, sts[1]), route)
  <1> DEFINE st   == sts[1]
             s    == st.id
             w    == After(view, st)
             rest == Tail(sts)
  <1>1. 1 \in DOMAIN sts /\ \A k \in DOMAIN rest : k + 1 \in DOMAIN sts /\ rest[k] = sts[k + 1] /\ k \in Nat \ {0}
    BY RestOfStatements
  <1>2. \A j \in DOMAIN sts : j \in Nat \ {0} /\ (j # 1 => j - 1 \in DOMAIN rest /\ rest[j - 1] = sts[j])
    <2>1. Len(rest) = Len(sts) - 1 /\ Len(sts) \in Nat \ {0} /\ rest \in Seq(Statements)
      BY RestOfStatements
    <2>2. DOMAIN sts = 1 .. Len(sts) /\ DOMAIN rest = 1 .. Len(rest)
      BY <2>1
    <2> HIDE DEF rest
    <2>3. ASSUME NEW j \in DOMAIN sts, j # 1 PROVE j - 1 \in DOMAIN rest /\ rest[j - 1] = sts[j]
      <3>1. j - 1 \in DOMAIN rest /\ j - 1 + 1 = j
        BY <2>1, <2>2, <2>3
      <3> QED
        BY <1>1, <3>1
    <2> QED
      BY <2>1, <2>2, <2>3
  <1>3. st.do = "update" /\ DOMAIN st.set = {"seq"} /\ \E i \in DOMAIN route : s = route[i]
    BY <1>1 DEF Ends
  <1>4. PICK m \in DOMAIN route : s = route[m]
    BY <1>3
  <1>5. s \in Steps /\ s \in Ids /\ view[s] \in StepRows
    BY <1>4, RowTypes DEF Stands
  <1> HIDE DEF s, st, rest
  <1>6. w = [view EXCEPT ![s] = Patched(view[s], st.set)]
    BY <1>3 DEF After, s
  <1>7. w[s] = Patched(view[s], st.set) /\ \A t \in Ids \ {s} : w[t] = view[t]
    BY <1>5, <1>6 DEF Stands
  <1> HIDE DEF w
  <1>8. w[s].seq = st.set.seq /\ w[s].product = view[s].product
    BY <1>3, <1>5, <1>7 DEF Patched, StepRows
  <1>9. w[s] # NoRow
    <2>1. st \in Updates
      <3>1. st \in Statements
        BY <1>1 DEF st
      <3> QED
        BY <1>3, <3>1, StatementKinds
    <2>2. st.set \in [seq : Int]
      BY <1>3, <1>5, <2>1, StepUpdates DEF s
    <2>3. st.set = [seq |-> st.set.seq] /\ st.set.seq \in Int
      BY <2>2
    <2>4. w[s] \in StepRows
      BY <1>5, <1>7, <2>3, PatchedRows
    <2> QED
      BY <1>5, <2>4, RowTypes
  <1>10. \A k \in DOMAIN rest : /\ rest[k].do = "update" /\ DOMAIN rest[k].set = {"seq"}
                                /\ \E i \in DOMAIN route : rest[k].id = route[i]
    BY <1>1 DEF Ends
  <1>11. ASSUME NEW i \in DOMAIN route
         PROVE  \/ w[route[i]].seq = i * SequenceStep /\ \A k \in DOMAIN rest : rest[k].id # route[i]
                \/ \E j \in DOMAIN rest : /\ rest[j] = Renumber(route[i], i * SequenceStep)
                                          /\ \A k \in DOMAIN rest : rest[k].id = route[i] => k <= j
    <2>1. route[i] \in Ids
      BY RowTypes DEF Stands
    <2>2. CASE view[route[i]].seq = i * SequenceStep /\ \A k \in DOMAIN sts : sts[k].id # route[i]
      <3>1. route[i] # s
        BY <1>1, <2>2 DEF s, st
      <3>2. \A k \in DOMAIN rest : rest[k].id # route[i]
        BY <1>1, <2>2
      <3> QED
        BY <1>7, <2>1, <2>2, <3>1, <3>2
    <2>3. ASSUME NEW j \in DOMAIN sts, sts[j] = Renumber(route[i], i * SequenceStep),
                 \A k \in DOMAIN sts : sts[k].id = route[i] => k <= j
          PROVE  \/ w[route[i]].seq = i * SequenceStep /\ \A k \in DOMAIN rest : rest[k].id # route[i]
                 \/ \E l \in DOMAIN rest : /\ rest[l] = Renumber(route[i], i * SequenceStep)
                                           /\ \A k \in DOMAIN rest : rest[k].id = route[i] => k <= l
      <3>1. CASE j = 1
        <4>1. s = route[i] /\ st.set.seq = i * SequenceStep
          BY <2>3, <3>1 DEF Renumber, s, st
        <4>2. \A k \in DOMAIN rest : rest[k].id # route[i]
          <5> SUFFICES ASSUME NEW k \in DOMAIN rest, rest[k].id = route[i] PROVE FALSE
            OBVIOUS
          <5>1. k + 1 <= 1 /\ k \in Nat \ {0}
            BY <1>1, <2>3, <3>1
          <5> QED
            BY <5>1
        <4> QED
          BY <1>8, <4>1, <4>2
      <3>2. CASE j # 1
        <4>1. j - 1 \in DOMAIN rest /\ rest[j - 1] = Renumber(route[i], i * SequenceStep)
          BY <1>2, <2>3, <3>2
        <4>2. ASSUME NEW k \in DOMAIN rest, rest[k].id = route[i] PROVE k <= j - 1
          <5>1. k + 1 <= j /\ k \in Nat /\ j \in Nat
            BY <1>1, <1>2, <2>3, <4>2
          <5> QED
            BY <5>1
        <4> QED
          BY <4>1, <4>2
      <3> QED
        BY <3>1, <3>2
    <2> QED
      BY <2>2, <2>3 DEF Ends
  <1>12. Ends(w, rest, route)
    BY <1>10, <1>11 DEF Ends
  <1> QED
    BY <1>4, <1>7, <1>8, <1>9, <1>12 DEF w, rest, st, Renumbered

\* The transactions that a step leaves alone.
LEMMA OrderKept ==
    ASSUME NEW q, UNCHANGED <<db, own[q], call[q], todo[q]>>, InOrder(q)
    PROVE  InOrder(q)'
  <1>1. View(q)' = View(q)
    BY DEF View
  <1>2. Opens(call[q].op, call[q].id, todo[q]) => Opens(call[q].op, call[q].id, todo[q])'
    BY DEF Opens, NewLast
  <1>3. Added(q) => Added(q)'
    BY <1>1 DEF Added, NewLast, Sees
  <1>4. Removed(q) => Removed(q)'
    BY <1>1 DEF Removed, Sees
  <1>5. ASSUME NEW pr, NEW before, NEW route, Arranges(q, pr, before, route) PROVE Arranges(q, pr, before, route)'
    BY <1>1, <1>5 DEF Arranges, Touches
  <1> QED
    BY <1>2, <1>3, <1>4, <1>5 DEF InOrder

LEMMA RenKept ==
    ASSUME RenInv, NEW q \in Sessions, UNCHANGED <<own[q], call[q], todo[q]>>,
           Open(q) /\ overlapped'[q] = {} => overlapped[q] = {} /\ UNCHANGED db,
           Open(q)', overlapped'[q] = {}, call'[q].op \in Changing
    PROVE  InOrder(q)'
  <1>1. Open(q) /\ overlapped[q] = {} /\ UNCHANGED db /\ call[q].op \in Changing
    BY DEF Open
  <1>2. InOrder(q)
    BY <1>1 DEF RenInv
  <1> QED
    BY <1>1, <1>2, OrderKept

\* The first statement adds or removes the step.
LEMMA FirstStatement ==
    ASSUME IInv, CalInv, NEW p \in Sessions, ExecuteStatement(p), call[p].id \in Steps, own[p] = NothingWritten,
           Opens(call[p].op, call[p].id, todo[p])
    PROVE  Added(p)' \/ Removed(p)'
  <1> DEFINE s == call[p].id
  <1>1. /\ UNCHANGED <<db, call>> /\ todo' = [todo EXCEPT ![p] = Tail(@)] /\ todo[p] # <<>>
        /\ Statement(p).do # "renumber" /\ Statement(p) = Head(todo[p])
    BY DEF ExecuteStatement, Ready, Statement
  <1>2. View(p) = db
    <2>1. View(p) = [i \in Ids |-> db[i]]
      BY DEF View, NothingWritten
    <2> QED
      BY <2>1 DEF IInv, TypeOK
  <1>3. View(p)' = After(db, Statement(p)) /\ todo'[p] = Tail(todo[p])
    BY <1>1, <1>2, ViewAfter DEF IInv, TypeOK
  <1>4. Proper(db) /\ DOMAIN db = Ids /\ s \in Ids
    BY ProperViews, RowTypes DEF IInv, CalInv, Proper
  <1>5. CASE /\ call[p].op = "addStep" /\ db[s] = NoRow
             /\ \E row \in StepRows :
                   NewLast(row) /\ todo[p] = <<Insert(s, row), RenumberOperations(row.product, None, "none")>>
    <2>1. PICK row \in StepRows :
              NewLast(row) /\ todo[p] = <<Insert(s, row), RenumberOperations(row.product, None, "none")>>
      BY <1>5
    <2> DEFINE a == Insert(s, row)
               b == RenumberOperations(row.product, None, "none")
    <2>2. todo[p] = <<a, b>>
      BY <2>1
    <2>3. After(db, a) = [db EXCEPT ![s] = row]
      BY DEF After, Insert
    <2> HIDE DEF a, b
    <2>4. Statement(p) = a /\ todo'[p] = <<b>>
      BY <1>1, <1>3, <2>2
    <2>5. \A t \in Steps : View(p)'[t] = IF t = s THEN row ELSE db[t]
      <3>1. View(p)' = [db EXCEPT ![s] = row]
        BY <1>3, <2>3, <2>4
      <3>2. \A t \in Steps : t \in Ids
        BY RowTypes
      <3> HIDE DEF s
      <3> QED
        BY <1>4, <3>1, <3>2
    <2>6. Sees(p, row)'
      BY <1>1, <2>5 DEF Sees
    <2>7. NewLast(row)'
      BY <1>1, <2>1 DEF NewLast
    <2>8. todo'[p] = <<RenumberOperations(row.product, None, "none")>>
      BY <2>4 DEF b
    <2> QED
      BY <1>1, <1>5, <2>6, <2>7, <2>8 DEF Added
  <1>6. CASE /\ call[p].op = "removeStep" /\ db[s] # NoRow
             /\ todo[p] = <<Delete(s), RenumberOperations(db[s].product, None, "none")>>
    <2> DEFINE a == Delete(s)
               b == RenumberOperations(db[s].product, None, "none")
    <2>1. todo[p] = <<a, b>>
      BY <1>6
    <2>2. After(db, a) = Deleted(db, s)
      BY DEF After, Delete
    <2> HIDE DEF a, b
    <2>3. Statement(p) = a /\ todo'[p] = <<b>>
      BY <1>1, <1>3, <2>1
    <2>4. \A t \in Steps : t \in Ids /\ t # Plant /\ Table[t] = "ProductOperation" /\ t \notin Shifts
      BY RowTypes DEF Steps, Shifts, IdsOf
    <2>5. s \notin Products
      BY DEF Steps, Products, IdsOf
    <2>6. \A t \in Steps : t \notin Cascaded(db, s)
      BY <2>4, <2>5 DEF Cascaded
    <2>7. \A t \in Steps : Deleted(db, s)[t] = IF t = s THEN NoRow ELSE db[t]
      BY <2>4, <2>6 DEF Deleted
    <2>8. Sees(p, NoRow)'
      BY <1>1, <1>3, <2>2, <2>3, <2>7 DEF Sees
    <2>9. todo'[p] = <<RenumberOperations(db[s].product, None, "none")>>
      BY <2>3 DEF b
    <2> QED
      BY <1>1, <1>6, <2>8, <2>9 DEF Removed
  <1>7. CASE \E pr, direction : todo[p] = <<RenumberOperations(pr, s, direction)>>
    BY <1>1, <1>7 DEF RenumberOperations
  <1> QED
    BY <1>5, <1>6, <1>7 DEF Opens

\* The others settle what the plan wants.
LEMMA LaterStatement ==
    ASSUME IInv, CalInv, NEW p \in Sessions, ExecuteStatement(p), call[p].id \in Steps,
           NEW pr \in Products, NEW before, NEW route, Arranges(p, pr, before, route)
    PROVE  Arranges(p, pr, before, route)'
  <1> DEFINE view == View(p)
             sts  == todo[p]
             w    == After(view, sts[1])
             S    == StepsOf(view, pr)
  <1>1. /\ UNCHANGED <<db, call>> /\ todo' = [todo EXCEPT ![p] = Tail(@)] /\ sts # <<>> /\ sts \in Seq(Statements)
        /\ Statement(p) = sts[1]
    BY DEF ExecuteStatement, Ready, Statement, IInv, TypeOK
  <1>2. View(p)' = w /\ todo'[p] = Tail(sts)
    BY <1>1, ViewAfter DEF IInv, TypeOK
  <1>3. Proper(db) /\ Proper(view) /\ DOMAIN view = Ids
    BY ProperViews DEF IInv, CalInv, Proper
  <1>4. /\ before \in Routings(db, pr) /\ Wanted(call[p], before, route)
        /\ route \in [1 .. Cardinality(S) -> S]
        /\ call[p].id \in StepsOf(db, pr) \cup S
        /\ Touches(p, pr) /\ Ends(view, sts, route)
    BY DEF Arranges
  <1>5. \A i \in DOMAIN route : route[i] \in S /\ route[i] \in Steps /\ view[route[i]] \in StepRows /\ view[route[i]].product = pr
    <2>1. \A i \in DOMAIN route : route[i] \in S
      BY <1>4
    <2>2. \A t \in S : t \in Steps /\ view[t] \in StepRows /\ view[t].product = pr
      BY <1>3, RoutingSteps
    <2> HIDE DEF S
    <2> QED
      BY <2>1, <2>2
  <1> HIDE DEF view, sts
  <1>6. Ends(w, Tail(sts), route) /\ Renumbered(view, w, route)
    <2>1. Stands(view, route)
      BY <1>3, <1>5 DEF Stands
    <2> QED
      BY <1>1, <1>4, <2>1, EndsRest
  <1>7. PICK i \in DOMAIN route : /\ w[route[i]] # NoRow /\ w[route[i]].product = view[route[i]].product
                                  /\ \A t \in Ids \ {route[i]} : w[t] = view[t]
    BY <1>6 DEF Renumbered
  <1> HIDE DEF w, S
  <1>8. \A t \in Steps : \/ w[t] = view[t]
                         \/ t \in S /\ w[t] # NoRow /\ w[t].product = pr /\ view[t].product = pr /\ view[t] # NoRow
    <2> TAKE t \in Steps
    <2>1. t \in Ids
      BY RowTypes
    <2>2. CASE t # route[i]
      BY <1>7, <2>1, <2>2
    <2>3. CASE t = route[i]
      BY <1>5, <1>7, <2>3 DEF S, StepsOf
    <2> QED
      BY <2>2, <2>3
  <1>9. StepsOf(w, pr) = S
    BY <1>8 DEF S, StepsOf
  <1>10. \A t \in Steps : w[t] = db[t] \/ \A row \in {db[t], w[t]} \ {NoRow} : row.product = pr
    <2>1. \A t \in Steps : view[t] = db[t] \/ \A row \in {db[t], view[t]} \ {NoRow} : row.product = pr
      BY <1>4 DEF Touches, view
    <2> QED
      BY <1>8, <2>1
  <1>11. Touches(p, pr)'
    BY <1>1, <1>2, <1>10 DEF Touches
  <1> QED
    BY <1>1, <1>2, <1>4, <1>6, <1>9, <1>11 DEF Arranges, sts

\* Statements go on with what is wanted.
LEMMA ExecuteRen ==
    ASSUME IInv, CalInv, RenInv, NEW p \in Sessions, ExecuteStatement(p)
    PROVE  RenInv'
  <1> DEFINE after == After(View(p), Statement(p))
  <1>1. /\ UNCHANGED <<db, call, overlapped>> /\ todo' = [todo EXCEPT ![p] = Tail(@)]
        /\ todo[p] # <<>> /\ Statement(p).do # "renumber" /\ Statement(p) = todo[p][1]
    BY DEF ExecuteStatement, Ready, Statement
  <1>2. own' = [own EXCEPT ![p] = [i \in Ids |-> IF i \in Written(p) THEN after[i] ELSE own[p][i]]]
    BY ViewAfter DEF IInv
  <1>3. \A q \in Sessions \ {p} : UNCHANGED <<own[q], call[q], todo[q]>>
    BY <1>1, <1>2 DEF IInv, TypeOK
  <1> HIDE DEF after
  <1>4. ASSUME NEW q \in Sessions, q # p, Open(q)', overlapped'[q] = {}, call'[q].op \in Changing PROVE InOrder(q)'
    BY <1>1, <1>3, <1>4, RenKept
  <1>5. ASSUME Open(p)', overlapped'[p] = {}, call'[p].op \in Changing PROVE InOrder(p)'
    <2>1. InOrder(p)
      BY <1>1, <1>5 DEF RenInv, Open
    <2>2. call[p].id \in Steps /\ call'[p].id \in Steps
      BY <1>1, <2>1 DEF InOrder
    <2>3. CASE own[p] = NothingWritten /\ Opens(call[p].op, call[p].id, todo[p])
      BY <2>2, <2>3, FirstStatement DEF InOrder
    <2>4. ~Added(p) /\ ~Removed(p)
      <3>1. ASSUME NEW pr, todo[p] = <<RenumberOperations(pr, None, "none")>> PROVE FALSE
        <4>1. todo[p][1] = RenumberOperations(pr, None, "none")
          BY <3>1
        <4> QED
          BY <1>1, <4>1 DEF RenumberOperations
      <3> QED
        BY <3>1 DEF Added, Removed
    <2>5. ASSUME NEW pr \in Products, NEW before, NEW route, Arranges(p, pr, before, route) PROVE InOrder(p)'
      <3>1. Arranges(p, pr, before, route)'
        BY <2>2, <2>5, LaterStatement
      <3> QED
        BY <2>2, <3>1 DEF InOrder
    <2> QED
      BY <2>1, <2>3, <2>4, <2>5 DEF InOrder
  <1> QED
    BY <1>4, <1>5 DEF RenInv

\* planRenumber() wants what was asked for.
LEMMA ReadArranges ==
    ASSUME IInv, CalInv, NEW p \in Sessions, ReadRouting(p), NEW sorted, NEW route, NEW N, NEW places, NEW n,
           Reads(p, sorted, route, N, places, n),
           NEW pr, pr = Statement(p).product, NEW before \in Routings(db, pr), Wanted(call[p], before, route),
           call[p].id \in StepsOf(db, pr) \cup StepsOf(View(p), pr), Touches(p, pr)
    PROVE  Arranges(p, pr, before, route)'
  <1> DEFINE view == View(p)
             st   == Statement(p)
             sts  == Planned(route, places)
             M    == Cardinality(StepsOf(view, pr))
  <1>1. /\ N \in Nat /\ n \in Nat /\ route \in [1 .. N -> Steps] /\ places \in [1 .. n -> 1 .. N]
        /\ sorted \in Routings(view, pr)
        /\ route = IF st.id = None THEN sorted ELSE Moved(sorted, st.id, st.direction)
        /\ places \in Changes(view, route) /\ PlanOf(sts, route, places, n)
        /\ todo' = [todo EXCEPT ![p] = sts]
    BY DEF Reads
  <1>2. UNCHANGED <<db, own, call>> /\ View(p)' = view
    BY ReadPlans DEF View
  <1>3. todo'[p] = sts
    BY <1>1 DEF IInv, TypeOK
  <1>4. Proper(view)
    BY ProperViews DEF IInv, CalInv
  <1> HIDE DEF view, st, sts
  <1>5. M \in Nat /\ Onto(view, pr, sorted, M)
    BY <1>1, <1>4, SortedOnto
  <1> HIDE DEF M
  <1>6. Onto(view, pr, route, M)
    BY <1>1, <1>5, MovedOnto
  <1>7. 1 .. M = 1 .. N
    BY <1>1, <1>6 DEF Onto
  <1>8. Onto(view, pr, route, N)
    BY <1>6, <1>7 DEF Onto
  <1>9. Ends(view, sts, route)
    BY <1>1, <1>8, PlanEnds
  <1>10. route \in [1 .. M -> StepsOf(view, pr)]
    BY <1>6 DEF Onto
  <1>11. Touches(p, pr)'
    BY <1>2 DEF Touches, view
  <1> QED
    BY <1>2, <1>3, <1>9, <1>10, <1>11 DEF Arranges, M, view

\* The next number is larger than all others.
LEMMA NextIsLarger ==
    ASSUME NEW view, NEW pr, NEW last, IsLast(last, view, pr), \A t \in StepsOf(view, pr) : view[t].seq \in Int
    PROVE  \A t \in StepsOf(view, pr) : view[t].seq < NextSequence(last)
  <1>1. last \in Int /\ last >= 0 /\ \A t \in StepsOf(view, pr) : view[t].seq <= last
    BY DEF IsLast
  <1>2. NextSequence(last) > last /\ NextSequence(last) \in Int
    <2>1. \A k \in Nat : (k \div 10) * 10 + 10 > k /\ (k \div 10) * 10 + 10 \in Int
      OBVIOUS
    <2>2. last \in Nat
      BY <1>1
    <2> QED
      BY <2>1, <2>2 DEF NextSequence, SequenceStep
  <1> QED
    BY <1>1, <1>2

\* So reading a routing leaves the statements for the order that was wanted.
LEMMA ReadInOrder ==
    ASSUME IInv, CalInv, NEW p \in Sessions, ReadRouting(p), InOrder(p)
    PROVE  InOrder(p)'
  <1> DEFINE s    == call[p].id
             view == View(p)
             pr   == Statement(p).product
  <1>1. /\ DOMAIN todo[p] = {1} /\ todo[p][1] = Statement(p) /\ Statement(p).do = "renumber"
        /\ UNCHANGED <<db, own, call>>
    BY ReadPlans
  <1>2. PICK sorted, route, N, places, n : Reads(p, sorted, route, N, places, n)
    BY ReadPlans
  <1>3. /\ sorted \in Routings(view, pr)
        /\ route = IF Statement(p).id = None THEN sorted ELSE Moved(sorted, Statement(p).id, Statement(p).direction)
    BY <1>2 DEF Reads
  <1>4. Proper(db) /\ Proper(view) /\ s \in Steps
    BY ProperViews DEF IInv, CalInv, InOrder
  <1>5. ASSUME pr \in Products, NEW before \in Routings(db, pr), Wanted(call[p], before, route),
               s \in StepsOf(db, pr) \cup StepsOf(view, pr), Touches(p, pr)
        PROVE  InOrder(p)'
    <2>1. PICK mine : mine = pr
      OBVIOUS
    <2>2. /\ mine = Statement(p).product /\ before \in Routings(db, mine) /\ Touches(p, mine) /\ mine \in Products
          /\ call[p].id \in StepsOf(db, mine) \cup StepsOf(View(p), mine)
      BY <1>5, <2>1
    <2>3. Arranges(p, mine, before, route)'
      BY <1>2, <1>5, <2>2, ReadArranges
    <2>4. call'[p].id \in Steps
      BY <1>1, <1>4
    <2> QED
      BY <2>2, <2>3, <2>4 DEF InOrder
  <1>6. CASE own[p] = NothingWritten /\ Opens(call[p].op, s, todo[p])
    <2>1. view = db
      <3>1. View(p) = [i \in Ids |-> db[i]]
        BY <1>6 DEF View, NothingWritten
      <3> QED
        BY <3>1 DEF IInv, TypeOK
    <2>2. ASSUME NEW a, NEW b PROVE todo[p] # <<a, b>>
      BY <1>1
    <2>3. call[p].op = "moveStep" /\ db[s] # NoRow
      BY <1>6, <2>2 DEF Opens
    <2>4. PICK direction \in {"up", "down"} :
              CanMove(db, s, direction) /\ todo[p] = <<RenumberOperations(db[s].product, s, direction)>>
      BY <1>6, <2>2 DEF Opens
    <2>5. Statement(p) = RenumberOperations(db[s].product, s, direction)
      BY <1>1, <2>4
    <2>6. Statement(p).product = db[s].product /\ Statement(p).id = s /\ Statement(p).direction = direction
      BY <2>5 DEF RenumberOperations
    <2>7. s # None
      BY <1>4, RowTypes
    <2>8. sorted \in Routings(db, db[s].product) /\ route = Moved(sorted, s, direction)
      BY <1>3, <2>1, <2>6, <2>7
    <2> HIDE DEF s, view, pr
    <2>9. \E i \in 1 .. Len(sorted) - 1 :
             s \in {sorted[i], sorted[i + 1]} /\ route = [sorted EXCEPT ![i] = sorted[i + 1], ![i + 1] = sorted[i]]
      BY <1>4, <2>3, <2>4, <2>8, MovedOne
    <2>10. Wanted(call[p], sorted, route)
      BY <2>3, <2>9 DEF Wanted, s
    <2>11. db[s] \in StepRows
      BY <1>4, <2>3, RowTypes DEF Proper
    <2>14. db[s].product \in Products
      BY <2>11 DEF StepRows
    <2>12. Touches(p, pr)
      BY <2>1 DEF Touches, view
    <2>13. s \in StepsOf(db, pr)
      BY <1>4, <2>3, <2>6 DEF StepsOf, pr
    <2> QED
      BY <1>5, <2>6, <2>8, <2>10, <2>12, <2>13, <2>14 DEF pr
  <1>7. CASE Added(p)
    <2>1. PICK row \in StepRows :
              NewLast(row) /\ Sees(p, row) /\ todo[p] = <<RenumberOperations(row.product, None, "none")>>
      BY <1>7 DEF Added
    <2>2. call[p].op = "addStep" /\ db[s] = NoRow
      BY <1>7 DEF Added
    <2>3. Statement(p) = RenumberOperations(row.product, None, "none")
      BY <1>1, <2>1
    <2>4. pr = row.product /\ Statement(p).id = None
      BY <2>3 DEF RenumberOperations
    <2>5. route = sorted /\ pr \in Products
      BY <1>3, <2>4 DEF StepRows
    <2>6. \A t \in Steps : view[t] = IF t = s THEN row ELSE db[t]
      BY <2>1 DEF Sees
    <2> HIDE DEF s, view, pr
    <2>7. \A t \in StepsOf(db, pr) : db[t].seq < row.seq
      <3>1. PICK last : IsLast(last, db, pr) /\ row.seq = NextSequence(last)
        BY <2>1, <2>4 DEF NewLast
      <3>2. \A t \in StepsOf(db, pr) : db[t].seq \in Int
        BY <1>4, RoutingSteps
      <3> QED
        BY <3>1, <3>2, NextIsLarger
    <2>8. PICK before \in Routings(db, pr) : sorted = Append(before, s)
      BY <1>3, <1>4, <2>2, <2>4, <2>6, <2>7, AddedLast
    <2>9. Wanted(call[p], before, route)
      BY <2>2, <2>5, <2>8 DEF Wanted, s
    <2>10. row # NoRow
      BY <1>4, RowTypes
    <2>11. s \in StepsOf(view, pr)
      BY <1>4, <2>4, <2>6, <2>10 DEF StepsOf
    <2>12. Touches(p, pr)
      BY <2>2, <2>4, <2>6 DEF Touches, view
    <2> QED
      BY <1>5, <2>5, <2>9, <2>11, <2>12
  <1>8. CASE Removed(p)
    <2>1. /\ call[p].op = "removeStep" /\ db[s] # NoRow /\ Sees(p, NoRow)
          /\ todo[p] = <<RenumberOperations(db[s].product, None, "none")>>
      BY <1>8 DEF Removed
    <2>2. Statement(p) = RenumberOperations(db[s].product, None, "none")
      BY <1>1, <2>1
    <2>3. pr = db[s].product /\ Statement(p).id = None
      BY <2>2 DEF RenumberOperations
    <2>4. route = sorted
      BY <1>3, <2>3
    <2>5. \A t \in Steps : view[t] = IF t = s THEN NoRow ELSE db[t]
      BY <2>1 DEF Sees
    <2> HIDE DEF s, view, pr
    <2>12. db[s] \in StepRows
      BY <1>4, <2>1, RowTypes DEF Proper
    <2>6. pr \in Products
      BY <2>3, <2>12 DEF StepRows
    <2>7. UniqueIn(db)
      BY DEF IInv
    <2>13. PICK v : v = db
      OBVIOUS
    <2>14. /\ Proper(v) /\ UniqueIn(v) /\ v[s] # NoRow /\ v[s].product = pr /\ Without(v, view, s)
      BY <1>4, <2>1, <2>3, <2>5, <2>7, <2>13 DEF Without
    <2>8. PICK before \in Routings(db, pr) : TakenOut(before, sorted, s)
      BY <1>3, <1>4, <2>13, <2>14, RemovedOne
    <2>9. Wanted(call[p], before, route)
      BY <2>1, <2>4, <2>8 DEF Wanted, TakenOut, s
    <2>10. s \in StepsOf(db, pr)
      BY <1>4, <2>1, <2>3 DEF StepsOf
    <2>11. Touches(p, pr)
      BY <2>3, <2>5 DEF Touches, view
    <2> QED
      BY <1>5, <2>6, <2>9, <2>10, <2>11
  <1>9. ASSUME NEW mine, NEW before, NEW wanted, Arranges(p, mine, before, wanted) PROVE FALSE
    BY <1>1, <1>9 DEF Arranges, Ends
  <1> QED
    BY <1>6, <1>7, <1>8, <1>9 DEF InOrder

LEMMA ReadRen ==
    ASSUME IInv, CalInv, RenInv, NEW p \in Sessions, ReadRouting(p)
    PROVE  RenInv'
  <1>1. UNCHANGED <<db, own, call, overlapped>> /\ Open(p)
    BY ReadPlans
  <1>2. \A q \in Sessions \ {p} : todo'[q] = todo[q]
    BY ReadStatements DEF IInv, TypeOK
  <1>3. ASSUME NEW q \in Sessions, q # p, Open(q)', overlapped'[q] = {}, call'[q].op \in Changing PROVE InOrder(q)'
    BY <1>1, <1>2, <1>3, RenKept
  <1>4. ASSUME overlapped'[p] = {}, call'[p].op \in Changing PROVE InOrder(p)'
    <2>1. InOrder(p)
      BY <1>1, <1>4 DEF RenInv
    <2> QED
      BY <2>1, ReadInOrder
  <1> QED
    BY <1>3, <1>4 DEF RenInv

\* A commit and what others insert overlap everybody else, a rollback nobody.
LEMMA CommitRen ==
    ASSUME IInv, RenInv, NEW p \in Sessions, Commit(p)
    PROVE  RenInv'
  <1>1. Closed(p) /\ overlapped' = [q \in Sessions |-> IF q = p THEN {}
                                                       ELSE IF Open(q) THEN overlapped[q] \cup call[p].about \cup {None}
                                                       ELSE overlapped[q]]
    BY DEF Commit, Overlapping
  <1>2. call'[p] = NoCall /\ \A q \in Sessions \ {p} : call'[q] = call[q]
    BY <1>1, ClosedTypes DEF IInv
  <1>3. \A q \in Sessions : ~(Open(q)' /\ overlapped'[q] = {})
    BY <1>1, <1>2 DEF Open
  <1> QED
    BY <1>3 DEF RenInv

LEMMA ElsewhereRen ==
    ASSUME NEW op, NEW i, NEW row, Elsewhere(op, i, row)
    PROVE  RenInv'
  <1>1. /\ overlapped' = [p \in Sessions |-> IF Open(p) THEN overlapped[p] \cup {None} ELSE overlapped[p]]
        /\ call' = call
    BY DEF Elsewhere
  <1>2. \A q \in Sessions : ~(Open(q)' /\ overlapped'[q] = {})
    BY <1>1 DEF Open
  <1> QED
    BY <1>2 DEF RenInv

LEMMA RollbackRen ==
    ASSUME IInv, RenInv, NEW p \in Sessions, Rollback(p)
    PROVE  RenInv'
  <1>1. Closed(p) /\ overlapped' = [overlapped EXCEPT ![p] = {}] /\ UNCHANGED db
    BY DEF Rollback
  <1>2. call'[p] = NoCall /\ \A q \in Sessions \ {p} : UNCHANGED <<own[q], call[q], todo[q]>>
    BY <1>1, ClosedTypes DEF IInv
  <1>3. \A q \in Sessions \ {p} : overlapped'[q] = overlapped[q]
    BY <1>1 DEF IInv, TypeOK
  <1>4. ~Open(p)'
    BY <1>2 DEF Open
  <1>5. ASSUME NEW q \in Sessions, q # p, Open(q)', overlapped'[q] = {}, call'[q].op \in Changing PROVE InOrder(q)'
    BY <1>1, <1>2, <1>3, <1>5, RenKept
  <1> QED
    BY <1>4, <1>5 DEF RenInv

\* Requests open as their handlers say.
LEMMA BeginRen ==
    ASSUME IInv, RenInv, NEW p \in Sessions, NEW op, NEW i, NEW about, NEW sts, Begin(p, op, i, about, sts),
           op \in Changing => i \in Steps /\ Opens(op, i, sts)
    PROVE  RenInv'
  <1>1. /\ ~Open(p) /\ UNCHANGED <<db, own, overlapped>>
        /\ call' = [call EXCEPT ![p] = [op |-> op, id |-> i, about |-> about]]
        /\ todo' = [todo EXCEPT ![p] = sts]
    BY DEF Begin
  <1>2. own[p] = NothingWritten
    BY <1>1 DEF IInv, SessionOK, ClosedOK
  <1>3. /\ todo'[p] = sts /\ call'[p].op = op /\ call'[p].id = i
        /\ \A q \in Sessions \ {p} : todo'[q] = todo[q] /\ call'[q] = call[q]
    BY <1>1 DEF IInv, TypeOK
  <1>4. ASSUME op \in Changing PROVE InOrder(p)'
    <2>1. i \in Steps /\ Opens(op, i, sts)
      BY <1>4
    <2>2. Opens(op, i, sts) => Opens(call[p].op, call[p].id, todo[p])'
      BY <1>1, <1>3 DEF Opens, NewLast
    <2>3. (own[p] = NothingWritten)'
      BY <1>1, <1>2
    <2> QED
      BY <1>3, <2>1, <2>2, <2>3 DEF InOrder
  <1>5. ASSUME NEW q \in Sessions, q # p, Open(q)', overlapped'[q] = {}, call'[q].op \in Changing PROVE InOrder(q)'
    BY <1>1, <1>3, <1>5, RenKept
  <1> QED
    BY <1>3, <1>4, <1>5 DEF RenInv

LEMMA EditRoutingRen ==
    ASSUME IInv, CalInv, RenInv, NEW p \in Sessions, EditRouting(p)
    PROVE  RenInv'
  <1>1. ASSUME NEW s \in Steps, NEW pr \in Products, NEW ce \in Centers, NEW m \in Machines \cup {None},
               NEW last, AddOperation(p, s, pr, ce, m, last)
        PROVE  RenInv'
    <2> DEFINE row == [product |-> pr, center |-> ce, machine |-> m, seq |-> NextSequence(last)]
               sts == <<Insert(s, row), RenumberOperations(row.product, None, "none")>>
    <2>1. Begin(p, "addStep", s, {}, sts) /\ IsLast(last, db, pr) /\ db[s] = NoRow
      BY <1>1 DEF AddOperation, Fresh
    <2>2. row \in StepRows
      <3>1. \A t \in StepsOf(db, pr) : db[t].seq \in Int
        BY ProperViews, RoutingSteps DEF IInv, CalInv
      <3>2. last \in Int
        BY <2>1, <3>1 DEF IsLast
      <3>3. NextSequence(last) \in Int
        BY <3>2 DEF NextSequence, SequenceStep
      <3> QED
        BY <3>3 DEF StepRows
    <2>3. NewLast(row)
      BY <2>1 DEF NewLast
    <2>4. Opens("addStep", s, sts)
      BY <2>1, <2>2, <2>3 DEF Opens
    <2> HIDE DEF row, sts
    <2> QED
      BY <2>1, <2>4, BeginRen
  <1>2. ASSUME NEW s \in Steps, RemoveOperation(p, s) PROVE RenInv'
    <2> DEFINE sts == <<Delete(s), RenumberOperations(db[s].product, None, "none")>>
    <2>1. Begin(p, "removeStep", s, {}, sts) /\ Opens("removeStep", s, sts)
      BY <1>2 DEF RemoveOperation, Opens
    <2> HIDE DEF sts
    <2> QED
      BY <2>1, BeginRen
  <1>3. ASSUME NEW s \in Steps, NEW direction \in {"up", "down"}, MoveOperation(p, s, direction) PROVE RenInv'
    <2> DEFINE sts == <<RenumberOperations(db[s].product, s, direction)>>
    <2>1. Begin(p, "moveStep", s, {}, sts) /\ Opens("moveStep", s, sts)
      BY <1>3 DEF MoveOperation, Opens
    <2> HIDE DEF sts
    <2> QED
      BY <2>1, BeginRen
  <1>4. ASSUME NEW op, op \notin Changing, NEW i, NEW about, NEW sts, Begin(p, op, i, about, sts) PROVE RenInv'
    BY <1>4, BeginRen
  <1>5. {"updateStep", "createProduct", "deleteProduct", "setProductActive"} \cap Changing = {}
    BY DEF Changing
  <1> QED
    BY <1>1, <1>2, <1>3, <1>4, <1>5 DEF EditRouting, UpdateOperation, CreateProduct, DeleteProduct, SetProductActive

LEMMA EditPlantRen ==
    ASSUME IInv, RenInv, NEW p \in Sessions, EditMachines(p) \/ EditCalendars(p)
    PROVE  RenInv'
  <1>1. ASSUME NEW op, op \notin Changing, NEW i, NEW about, NEW sts, Begin(p, op, i, about, sts) PROVE RenInv'
    BY <1>1, BeginRen
  <1>2. CASE EditMachines(p)
    <2>1. {"createCenter", "deleteCenter", "setCenterActive", "createMachine", "updateMachine", "setMachineStatus",
           "deleteMachine"} \cap Changing = {}
      BY DEF Changing
    <2> QED
      BY <1>1, <1>2, <2>1 DEF EditMachines, CreateWorkCenter, DeleteWorkCenter, SetWorkCenterActive, CreateMachine,
                              UpdateMachine, SetMachineStatus, DeleteMachine
  <1>3. CASE EditCalendars(p)
    <2>1. {"createCalendar", "addShift", "setCalendarActive", "setDefaultCalendar", "deleteCalendar", "saveSettings",
           "deleteShift", "updateShift"} \cap Changing = {}
      BY DEF Changing
    <2> QED
      BY <1>1, <1>3, <2>1 DEF EditCalendars, CreateCalendar, AddShift, SetCalendarActive, SetDefaultCalendar,
                              DeleteCalendar, UpdateTenantSettings, DeleteShift, UpdateShift
  <1> QED
    BY <1>2, <1>3

\* Every step keeps the routings in the order that their transactions want.
LEMMA StepRen == IInv /\ CalInv /\ RenInv /\ [Next]_vars => RenInv'
  <1> SUFFICES ASSUME IInv, CalInv, RenInv, [Next]_vars PROVE RenInv'
    OBVIOUS
  <1>1. ASSUME NEW p \in Sessions, EditRouting(p) \/ EditMachines(p) \/ EditCalendars(p) PROVE RenInv'
    BY <1>1, EditRoutingRen, EditPlantRen
  <1>2. ASSUME NEW p \in Sessions, ExecuteStatement(p) \/ ReadRouting(p) \/ Commit(p) \/ Rollback(p) PROVE RenInv'
    BY <1>2, ExecuteRen, ReadRen, CommitRen, RollbackRen
  <1>3. ASSUME NEW o \in Orders, NEW pr \in Products, PlaceOrder(o, pr) PROVE RenInv'
    BY <1>3, ElsewhereRen DEF PlaceOrder
  <1>4. ASSUME NEW e \in Entries, NEW m \in Machines, PlanWork(e, m) PROVE RenInv'
    BY <1>4, ElsewhereRen DEF PlanWork
  <1>5. CASE UNCHANGED vars
    <2>1. UNCHANGED <<db, own, call, todo, overlapped>>
      BY <1>5 DEF vars, local
    <2>2. ASSUME NEW q \in Sessions, Open(q)', overlapped'[q] = {}, call'[q].op \in Changing PROVE InOrder(q)'
      BY <2>1, <2>2, RenKept
    <2> QED
      BY <2>2 DEF RenInv
  <1> QED
    BY <1>1, <1>2, <1>3, <1>4, <1>5 DEF Next

\* renumberOperations(): whatever the routings were before, a transaction of
\* addOperation(), removeOperation() or moveOperation() that nobody has
\* overlapped commits the order it was asked for, numbered 10, 20, 30 ...
\* without gaps, and leaves the routings of the other products alone.
THEOREM RoutingsRenumbered == Spec => RenumberRight
  <1>1. Init => CalInv /\ RenInv
    BY InitPlanner DEF Init, RenInv, Open
  <1>2. IInv /\ CalInv /\ RenInv /\ IInv' /\ [Next]_vars => CalInv' /\ RenInv'
    BY StepPlanner, StepRen
  <1> DEFINE Right ==
        \A p \in Sessions :
           Commit(p) /\ overlapped[p] = {} /\ call[p].op \in {"addStep", "removeStep", "moveStep"} =>
              \A pr \in Products :
                 LET before == Routing(db, pr)
                     after  == Routing(db', pr)
                 IN  IF call[p].id \in StepsOf(db, pr) \cup StepsOf(db', pr)
                     THEN /\ Wanted(call[p], before, after)
                          /\ \A i \in DOMAIN after : db'[after[i]].seq = i * SequenceStep
                     ELSE after = before
  <1>3. IInv /\ CalInv /\ RenInv => Right
    BY CommitRight DEF Changing
  <1>4. IInv /\ CalInv /\ RenInv /\ [Next]_vars => [Right]_vars
    BY <1>3
  <1>5. RenumberRight <=> [][Right]_vars
    BY DEF RenumberRight
  <1> HIDE DEF Right
  <1> QED
    BY <1>1, <1>2, <1>4, <1>5, Inductive, PTL DEF Spec
================================================================================
