--------------------------- MODULE SuggestionsProofs ---------------------------
(***************************************************************************)
(* What holds of Suggestions for any plant, any number of sessions and any *)
(* requests: types, one end for each suggestion, effects for its winner    *)
(* only, and an audit trail that tells the end.                            *)
(*                                                                         *)
(* The inductive invariant says what a session that has claimed its row    *)
(* may rely on: the status is the one it has written, nobody else has      *)
(* claimed the row, and no audit row exists yet.  Both writers of          *)
(* final statuses need it: a claim looks at the status itself, and what a  *)
(* generation has locked stays PENDING until it ends.                      *)
(***************************************************************************)
EXTENDS Suggestions, TLAPS

Claimed(p) == Applying(p) \/ pc[p] = "audit"

\* What a session's variables say at each step.
RowKnown(p) ==
    /\ pc[p] \in {"read", "reverify", "entry", "claim", "prioritise", "audit"} => outcome[p] # "PENDING"
    /\ pc[p] \in {"idle", "hit"} => outcome[p] = "PENDING"
    /\ outcome[p] # "PENDING" => row[p] \in Rows
HeldFits(p) ==
    /\ pc[p] = "prioritise" => held[p].kind = "REPRIORITIZE"
    /\ pc[p] = "moveWrite" => held[p].to \in Machines
LocalsFit == \A p \in Sessions : RowKnown(p) /\ HeldFits(p)

LocksArePending == \A s \in Rows : rowLock[s] # NoSession => status[s] = "PENDING"
ClaimsHold ==
    \A p \in Sessions : Claimed(p) =>
        /\ status[row[p]] = outcome[p]
        /\ audit[row[p]] = <<>>
        /\ \A q \in Sessions : Claimed(q) /\ row[q] = row[p] => q = p
AuditFits ==
    \A s \in Rows : audit[s] # <<>> => audit[s] = <<status[s]>> /\ status[s] \notin {NoRow, "PENDING"}

IInv == LocalsFit /\ LocksArePending /\ ClaimsHold /\ AuditFits

USE SuggestionsAssumption

-----------------------------------------------------------------------------
(***************************************************************************)
(* Types.                                                                  *)
(***************************************************************************)
\* What a session's own step may change of the table of locals.
LEMMA FinishedTypes ==
    ASSUME TypeOK, NEW p \in Sessions, Finished(p)
    PROVE  /\ pc' \in [Sessions -> Steps]
           /\ row' \in [Sessions -> Rows \cup {NoRow}]
           /\ held' \in [Sessions -> Suggestions \cup Move \cup {Nothing}]
           /\ outcome' \in [Sessions -> Statuses]
           /\ fresh' \in [Sessions -> SUBSET Suggestions]
           /\ wanted' \in [Sessions -> SUBSET Rows]
    BY DEF TypeOK, Finished, Goto, Steps, Statuses

LEMMA PerturbationTypes ==
    ASSUME TypeOK
    PROVE  /\ Perturbations \subseteq Suggestions
           /\ \A f \in Suggestions : \A o \in Orders :
                 Exists(o) /\ f.kind = "REASSIGN_MACHINE" => [f EXCEPT !.entry = entry[o].id] \in Suggestions
<1>1. \A o \in Orders : PriorityUp[priority[o]] \in Priorities
  <2>. SUFFICES ASSUME NEW o \in Orders  PROVE PriorityUp[priority[o]] \in Priorities
    OBVIOUS
  <2>1. priority[o] \in {"LOW", "NORMAL", "HIGH", "URGENT"}
    BY DEF TypeOK, Priorities, Rank
  <2>. QED  BY <2>1 DEF PriorityUp, Priorities, Rank
<1>2. Perturbations \subseteq Suggestions
  <2>1. ASSUME NEW o \in Orders, NEW m \in Active
        PROVE  [kind |-> "REASSIGN_MACHINE", order |-> o, entry |-> NoId, to |-> m] \in Suggestions
    BY DEF Suggestions, Active
  <2>2. ASSUME NEW o \in Orders
        PROVE  [kind |-> "REPRIORITIZE", order |-> o, entry |-> NoId, to |-> PriorityUp[priority[o]]] \in Suggestions
    BY <1>1 DEF Suggestions
  <2>. QED  BY <2>1, <2>2 DEF Perturbations
<1>3. ASSUME NEW f \in Suggestions, NEW o \in Orders, Exists(o), f.kind = "REASSIGN_MACHINE"
      PROVE  [f EXCEPT !.entry = entry[o].id] \in Suggestions
  <2>1. entry[o].id \in Ids
    BY <1>3 DEF TypeOK, Exists, Entries
  <2>. QED  BY <1>3, <2>1 DEF Suggestions
<1>. QED  BY <1>2, <1>3

LEMMA UnlinkedTypes ==
    ASSUME TypeOK
    PROVE  /\ \A new : Unlinked(new) \in [Rows -> Suggestions \cup {Nothing}]
           /\ \A m : \A f \in Suggestions \cup {Nothing} : WithoutMachine(f, m) \in Suggestions \cup {Nothing}
<1>1. \A f \in Suggestions \cup {Nothing} : f.entry # NoId => [f EXCEPT !.entry = NoId] \in Suggestions
  BY DEF Suggestions, Nothing
<1>2. \A f \in Suggestions \cup {Nothing} : f.kind = "REASSIGN_MACHINE" => [f EXCEPT !.to = NoMachine] \in Suggestions
  BY DEF Suggestions, Nothing
<1>. QED  BY <1>1, <1>2 DEF TypeOK, Unlinked, WithoutMachine

LEMMA MoveTypes ==
    ASSUME TypeOK, NEW o \in Orders, NEW m \in Machines, Exists(o)
    PROVE  [kind |-> "REASSIGN_MACHINE", entry |-> entry[o].id, to |-> m] \in Move
    BY DEF TypeOK, Exists, Move, Entries

LEMMA InitTypes == Init => TypeOK
  BY DEF Init, TypeOK, Steps, Statuses, MachineStatuses

\* Every action keeps the types; a raise and a move rely on what their session holds.
LEMMA NextTypes ==
    ASSUME TypeOK, LocalsFit, [Next]_vars
    PROVE  TypeOK'
<1>. USE DEF TypeOK
<1>a. ASSUME NEW p \in Sessions, OpenPage(p) \/ RunSchedule(p)  PROVE TypeOK'
  BY <1>a DEF OpenPage, RunSchedule, Ask, Goto, Steps, plant, table, local
<1>b. ASSUME NEW p \in Sessions, Resolve(p)  PROVE TypeOK'
  BY <1>b DEF Resolve, Ask, Goto, Steps, plant, table, Statuses
<1>c. ASSUME NEW p \in Sessions, Drag(p)  PROVE TypeOK'
  BY <1>c, MoveTypes DEF Drag, Ask, Goto, Steps, plant, table
<1>d. ASSUME NEW p \in Sessions, Hit(p) \/ Reset(p)  PROVE TypeOK'
  <2>1. Counted \in 0 .. 2
    BY DEF Counted
  <2>2. bucket' \in [count : 0 .. 2, passed : BOOLEAN]
    <3>1. CASE Hit(p)
      BY <2>1, <3>1 DEF Hit
    <3>2. CASE Reset(p)
      BY <3>2 DEF Reset
    <3>. QED  BY <1>d, <3>1, <3>2
  <2>3. pc' \in [Sessions -> Steps]
    <3>1. \E step \in {"reset", "idle", "load"} : Goto(p, step)
      <4>1. CASE Hit(p)
        BY <4>1 DEF Hit
      <4>2. CASE Reset(p)
        BY <4>2 DEF Reset
      <4>. QED  BY <1>d, <4>1, <4>2
    <3>. QED  BY <3>1 DEF Goto, Steps
  <2>. QED  BY <1>d, <2>2, <2>3 DEF Hit, Reset, plant, table, local, count
<1>e. ASSUME NEW p \in Sessions, Load(p)  PROVE TypeOK'
  BY <1>e, PerturbationTypes DEF Load, Goto, Steps, plant, table, count
<1>f. ASSUME NEW p \in Sessions, FindEntries(p)  PROVE TypeOK'
  <2>1. \A f \in fresh[p] : (IF f.kind = "REASSIGN_MACHINE" /\ Exists(f.order) THEN [f EXCEPT !.entry = entry[f.order].id] ELSE f) \in Suggestions
    <3>1. fresh[p] \subseteq Suggestions
      OBVIOUS
    <3>2. \A f \in Suggestions : f.order \in Orders
      BY DEF Suggestions
    <3>. QED  BY <3>1, <3>2, PerturbationTypes
  <2>2. fresh' \in [Sessions -> SUBSET Suggestions]
    BY <1>f, <2>1 DEF FindEntries
  <2>. QED  BY <1>f, <2>2 DEF FindEntries, Goto, Steps, plant, table, count
<1>g. ASSUME NEW p \in Sessions, Supersede(p)  PROVE TypeOK'
  BY <1>g DEF Supersede, Pending, Goto, Steps, plant, table, count
<1>h. ASSUME NEW p \in Sessions, LockPending(p)  PROVE TypeOK'
  BY <1>h DEF LockPending, Goto, Steps, plant, local, count
<1>i. ASSUME NEW p \in Sessions, Insert(p)  PROVE TypeOK'
  <2>1. /\ suggested' \in [Rows -> Suggestions \cup {Nothing}]
        /\ status' \in [Rows -> Statuses \cup {NoRow}]
    <3>1. CASE UNCHANGED <<suggested, status>>
      BY <3>1
    <3>2. ASSUME NEW new \in [fresh[p] -> {s \in Rows : status[s] = NoRow}],
                 LET inserted == {new[f] : f \in fresh[p]}
                 IN  /\ suggested' = [s \in Rows |-> IF s \in inserted THEN CHOOSE f \in fresh[p] : new[f] = s
                                                     ELSE suggested[s]]
                     /\ status' = [s \in Rows |-> IF s \in inserted THEN "PENDING"
                                                  ELSE IF rowLock[s] = p THEN "STALE" ELSE status[s]]
          PROVE  <2>1
      <4>1. fresh[p] \subseteq Suggestions
        OBVIOUS
      <4>2. \A s \in {new[f] : f \in fresh[p]} : (CHOOSE f \in fresh[p] : new[f] = s) \in Suggestions
        <5>. SUFFICES ASSUME NEW g \in fresh[p]
                      PROVE  (CHOOSE f \in fresh[p] : new[f] = new[g]) \in fresh[p]
          BY <4>1
        <5>. QED  OBVIOUS
      <4>. QED  BY <3>2, <4>2 DEF Statuses
    <3>. QED  BY <1>i, <3>1, <3>2 DEF Insert
  <2>2. rowLock' \in [Rows -> Sessions \cup {NoSession}]
    BY <1>i DEF Insert, Unlocked
  <2>. QED  BY <1>i, <2>1, <2>2, FinishedTypes DEF Insert, plant, count
<1>j. ASSUME NEW p \in Sessions, Read(p)  PROVE TypeOK'
  <2>1. CASE Finished(p)
    BY <1>j, <2>1, FinishedTypes DEF Read, plant, table, count
  <2>2. CASE ~Finished(p)
    <3>1. row[p] \in Rows
      BY <1>j DEF Read, LocalsFit, RowKnown
    <3>. QED  BY <1>j, <2>2, <3>1 DEF Read, Goto, Steps, plant, table, count
  <2>. QED  BY <2>1, <2>2
<1>k. ASSUME NEW p \in Sessions, Reverify(p) \/ FindEntry(p)  PROVE TypeOK'
  BY <1>k DEF Reverify, FindEntry, Stale, Goto, Steps, Statuses, plant, table, count
<1>l. ASSUME NEW p \in Sessions, Claim(p)  PROVE TypeOK'
  <2>1. AfterClaim(p, Claimable(row[p])) \in Steps
    BY DEF AfterClaim, Steps
  <2>2. status' \in [Rows -> Statuses \cup {NoRow}]
    BY <1>l DEF Claim
  <2>3. Finished(p) \/ (Goto(p, AfterClaim(p, Claimable(row[p]))) /\ UNCHANGED local)
    BY <1>l DEF Claim
  <2>4. UNCHANGED <<plant, suggested, rowLock, audit, bucket, count>>
    BY <1>l DEF Claim
  <2>5. CASE Finished(p)
    BY <2>2, <2>4, <2>5, FinishedTypes DEF plant, count
  <2>6. CASE Goto(p, AfterClaim(p, Claimable(row[p]))) /\ UNCHANGED local
    BY <2>1, <2>2, <2>4, <2>6 DEF Goto, plant, count, local
  <2>. QED  BY <2>3, <2>5, <2>6
<1>m. ASSUME NEW p \in Sessions, Prioritise(p)  PROVE TypeOK'
  <2>1. held[p].to \in Priorities
    BY <1>m DEF Prioritise, LocalsFit, HeldFits, Suggestions, Move, Nothing
  <2>. QED  BY <1>m, <2>1 DEF Prioritise, Goto, Steps, table, local, count
<1>n. ASSUME NEW p \in Sessions, RecordOutcome(p)  PROVE TypeOK'
  <2>1. audit' \in [Rows -> Seq(Statuses)]
    <3>1. row[p] \in Rows
      BY <1>n DEF RecordOutcome, LocalsFit, RowKnown
    <3>2. Append(audit[row[p]], outcome[p]) \in Seq(Statuses)
      BY <3>1
    <3>. QED  BY <1>n, <3>2 DEF RecordOutcome
  <2>. QED  BY <1>n, <2>1, FinishedTypes DEF RecordOutcome, plant, count
<1>o. ASSUME NEW p \in Sessions, MoveRead(p)  PROVE TypeOK'
  <2>1. CASE Refused(p)
    BY <1>o, <2>1, FinishedTypes DEF MoveRead, Refused, plant, table, count
  <2>2. CASE ~Refused(p)
    BY <1>o, <2>2 DEF MoveRead, Goto, Steps, plant, table, local, count
  <2>. QED  BY <2>1, <2>2
<1>p. ASSUME NEW p \in Sessions, MoveWrite(p)  PROVE TypeOK'
  <2>1. CASE Refused(p)
    BY <1>p, <2>1, FinishedTypes DEF MoveWrite, Refused, plant, table, count
  <2>2. CASE ~Refused(p)
    <3>1. held[p].to \in Machines
      BY <1>p DEF MoveWrite, LocalsFit, HeldFits
    <3>2. PICK o \in Orders :
            /\ HasId(o, held[p].entry)
            /\ entry' = [entry EXCEPT ![o].machine = held[p].to, ![o].locked = TRUE]
            /\ Goto(p, "run")
            /\ UNCHANGED <<priority, machines, local>>
      BY <1>p, <2>2 DEF MoveWrite
    <3>3. entry[o] \in Entries
      BY <3>2 DEF HasId, Exists
    <3>4. entry' \in [Orders -> Entries \cup {NoEntry}]
      BY <3>1, <3>2, <3>3 DEF Entries
    <3>. QED  BY <1>p, <3>2, <3>4 DEF MoveWrite, Goto, Steps, table, local, count
  <2>. QED  BY <2>1, <2>2
<1>q. ASSUME NEW p \in Sessions, Run(p)  PROVE TypeOK'
  <2>1. entry' \in [Orders -> Entries \cup {NoEntry}]
    BY <1>q DEF Run, NewEntries, Entries, Active
  <2>2. suggested' \in [Rows -> Suggestions \cup {Nothing}]
    BY <1>q, UnlinkedTypes DEF Run
  <2>3. CASE Finished(p)
    BY <1>q, <2>1, <2>2, <2>3, FinishedTypes DEF Run, count
  <2>4. CASE ~Finished(p)
    BY <1>q, <2>1, <2>2, <2>4 DEF Run, Goto, Steps, local, count
  <2>. QED  BY <2>3, <2>4
<1>r. ASSUME NEW p \in Sessions, Abort(p)  PROVE TypeOK'
  <2>1. rowLock' \in [Rows -> Sessions \cup {NoSession}]
    BY <1>r DEF Abort, Unlocked
  <2>. QED  BY <1>r, <2>1, FinishedTypes DEF Abort, plant, count
<1>s. ASSUME NEW o \in Orders, EditPriority(o) \/ StartOperation(o)  PROVE TypeOK'
  <2>1. CASE EditPriority(o)
    BY <2>1 DEF EditPriority, Change, local
  <2>2. CASE StartOperation(o)
    <3>1. entry[o] \in Entries
      BY <2>2 DEF StartOperation, Exists
    <3>2. [entry[o] EXCEPT !.started = TRUE] \in Entries
      BY <3>1 DEF Entries
    <3>3. entry' = [entry EXCEPT ![o] = [entry[o] EXCEPT !.started = TRUE]]
      BY <2>2 DEF StartOperation
    <3>4. entry' \in [Orders -> Entries \cup {NoEntry}]
      BY <3>2, <3>3
    <3>. QED  BY <2>2, <3>4 DEF StartOperation, Change, local
  <2>. QED  BY <1>s, <2>1, <2>2
<1>t. ASSUME NEW m \in Machines, SetMachineStatus(m) \/ DeleteMachine(m)  PROVE TypeOK'
  <2>1. CASE SetMachineStatus(m)
    BY <2>1 DEF SetMachineStatus, Change, local
  <2>2. CASE DeleteMachine(m)
    <3>1. suggested' \in [Rows -> Suggestions \cup {Nothing}]
      BY <2>2, UnlinkedTypes DEF DeleteMachine
    <3>2. machines' \in [Machines -> MachineStatuses \cup {NoMachine}]
      BY <2>2 DEF DeleteMachine
    <3>. QED  BY <2>2, <3>1, <3>2 DEF DeleteMachine, Change, local
  <2>. QED  BY <1>t, <2>1, <2>2
<1>u. ASSUME WindowPasses  PROVE TypeOK'
  BY <1>u DEF WindowPasses, plant, table, local, count
<1>v. ASSUME UNCHANGED vars  PROVE TypeOK'
  BY <1>v DEF vars, plant, table, local, count
<1>. QED
  BY <1>a, <1>b, <1>c, <1>d, <1>e, <1>f, <1>g, <1>h, <1>i, <1>j, <1>k, <1>l, <1>m, <1>n, <1>o, <1>p, <1>q, <1>r, <1>s, <1>t, <1>u, <1>v
  DEF Next, Serve

-----------------------------------------------------------------------------
(***************************************************************************)
(* The inductive invariant.                                                *)
(***************************************************************************)
\* A step of one session changes the variables of no other.
Alone(p) ==
    \A q \in Sessions : q # p => pc'[q] = pc[q] /\ row'[q] = row[q] /\ held'[q] = held[q] /\ outcome'[q] = outcome[q]

LEMMA FinishedAlone ==
    ASSUME TypeOK, NEW p \in Sessions, Finished(p)
    PROVE  Alone(p) /\ pc'[p] = "idle" /\ outcome'[p] = "PENDING"
    BY DEF TypeOK, Finished, Goto, Alone

LEMMA GotoAlone ==
    ASSUME TypeOK, NEW p \in Sessions, NEW step, Goto(p, step), UNCHANGED local
    PROVE  Alone(p) /\ pc'[p] = step /\ row'[p] = row[p] /\ held'[p] = held[p] /\ outcome'[p] = outcome[p]
    BY DEF TypeOK, Goto, Alone, local

\* The variables of the other sessions still fit.
LEMMA LocalsStay ==
    ASSUME LocalsFit, NEW p \in Sessions, Alone(p), RowKnown(p)', HeldFits(p)'
    PROVE  LocalsFit'
<1>. SUFFICES ASSUME NEW q \in Sessions, q # p  PROVE RowKnown(q)' /\ HeldFits(q)'
  BY DEF LocalsFit
<1>. QED  BY DEF LocalsFit, Alone, RowKnown, HeldFits

\* A step that writes neither statuses nor the audit trail, and claims nothing.
LEMMA Quiet ==
    ASSUME IInv, NEW p \in Sessions, Alone(p), RowKnown(p)', HeldFits(p)',
           UNCHANGED <<status, audit>>,
           \A s \in Rows : rowLock'[s] # NoSession => status[s] = "PENDING",
           Claimed(p)' => Claimed(p) /\ row'[p] = row[p] /\ outcome'[p] = outcome[p]
    PROVE  IInv'
<1>1. LocalsFit'
  BY LocalsStay DEF IInv
<1>2. \A q \in Sessions : Claimed(q)' => Claimed(q) /\ row'[q] = row[q] /\ outcome'[q] = outcome[q]
  BY DEF Alone, Claimed, Applying
<1>3. ClaimsHold'
  BY <1>2 DEF IInv, ClaimsHold
<1>. QED  BY <1>1, <1>3 DEF IInv, LocksArePending, AuditFits

\* Steps of others than the sessions change no variable of theirs.
LEMMA Elsewhere ==
    ASSUME IInv, UNCHANGED <<status, rowLock, audit, pc, local>>
    PROVE  IInv'
<1>. USE DEF local
<1>1. \A p \in Sessions : (Claimed(p)' <=> Claimed(p)) /\ RowKnown(p)' /\ HeldFits(p)'
  BY DEF IInv, LocalsFit, RowKnown, HeldFits, Claimed, Applying
<1>2. ClaimsHold'
  BY <1>1 DEF IInv, ClaimsHold
<1>. QED  BY <1>1, <1>2 DEF IInv, LocalsFit, LocksArePending, AuditFits

\* Locks that a session gives up, and those that stay.
LEMMA UnlockedPending ==
    ASSUME IInv, NEW p \in Sessions
    PROVE  \A s \in Rows : Unlocked(p)[s] # NoSession => status[s] = "PENDING"
    BY DEF IInv, LocksArePending, Unlocked

\* The end of a request that writes neither statuses nor the audit trail.
LEMMA QuietEnd ==
    ASSUME TypeOK, IInv, NEW p \in Sessions, Finished(p), UNCHANGED <<status, audit>>,
           \/ UNCHANGED rowLock
           \/ rowLock' = Unlocked(p)
    PROVE  IInv'
<1>1. Alone(p) /\ pc'[p] = "idle" /\ outcome'[p] = "PENDING"
  BY FinishedAlone
<1>2. RowKnown(p)' /\ HeldFits(p)' /\ ~Claimed(p)'
  BY <1>1 DEF RowKnown, HeldFits, Claimed, Applying
<1>3. \A s \in Rows : rowLock'[s] # NoSession => status[s] = "PENDING"
  BY UnlockedPending DEF IInv, LocksArePending
<1>. QED  BY <1>1, <1>2, <1>3, Quiet

\* A step within a request that writes neither statuses nor the audit trail.
LEMMA QuietStep ==
    ASSUME TypeOK, IInv, NEW p \in Sessions, NEW step, Goto(p, step), UNCHANGED local,
           UNCHANGED <<status, audit, rowLock>>,
           step \in {"read", "reverify", "entry", "claim", "prioritise", "audit"} => outcome[p] # "PENDING",
           step \in {"idle", "hit"} => outcome[p] = "PENDING",
           step = "prioritise" => held[p].kind = "REPRIORITIZE",
           step = "moveWrite" => held[p].to \in Machines,
           \/ step \notin {"prioritise", "moveRead", "moveWrite", "run", "audit"}
           \/ step # "audit" /\ outcome[p] # "APPLIED"
           \/ Claimed(p)
    PROVE  IInv'
<1>1. Alone(p) /\ pc'[p] = step /\ row'[p] = row[p] /\ held'[p] = held[p] /\ outcome'[p] = outcome[p]
  BY GotoAlone
<1>2. RowKnown(p)' /\ HeldFits(p)'
  BY <1>1 DEF RowKnown, HeldFits, IInv, LocalsFit
<1>3. Claimed(p)' => Claimed(p)
  BY <1>1 DEF Claimed, Applying
<1>4. \A s \in Rows : rowLock'[s] # NoSession => status[s] = "PENDING"
  BY DEF IInv, LocksArePending
<1>. QED  BY <1>1, <1>2, <1>3, <1>4, Quiet

LEMMA InitInvariant == Init => IInv
  BY DEF Init, IInv, LocalsFit, RowKnown, HeldFits, LocksArePending, ClaimsHold, AuditFits, Claimed, Applying

-----------------------------------------------------------------------------
\* A claim takes a row that was PENDING, so that nobody else has claimed it and no audit row is about it.
LEMMA ClaimInvariant ==
    ASSUME TypeOK, IInv, NEW p \in Sessions, Claim(p)
    PROVE  IInv'
<1>. DEFINE claimed == Claimable(row[p])
            next == AfterClaim(p, claimed)
<1>1. pc[p] = "claim" /\ rowLock[row[p]] = NoSession /\ UNCHANGED <<rowLock, audit>>
  BY DEF Claim
<1>2. outcome[p] # "PENDING" /\ row[p] \in Rows
  BY <1>1 DEF IInv, LocalsFit, RowKnown
<1>3. CASE ~claimed
  <2>1. next = "idle" /\ UNCHANGED status /\ Finished(p)
    BY <1>3 DEF Claim, AfterClaim
  <2>. QED  BY <1>1, <2>1, QuietEnd
<1>4. CASE claimed
  <2>1. status[row[p]] = "PENDING" /\ status' = [status EXCEPT ![row[p]] = outcome[p]]
    BY <1>4 DEF Claim, Claimable
  <2>2. next \in {"audit", "prioritise", "moveRead"}
        /\ (next = "prioritise" => held[p].kind = "REPRIORITIZE")
    BY <1>4 DEF AfterClaim
  <2>3. Goto(p, next) /\ UNCHANGED local
    BY <2>2 DEF Claim
  <2>4. Alone(p) /\ pc'[p] = next /\ row'[p] = row[p] /\ held'[p] = held[p] /\ outcome'[p] = outcome[p]
    BY <2>3, GotoAlone
  <2>5. LocalsFit'
    <3>1. RowKnown(p)' /\ HeldFits(p)'
      BY <1>2, <2>2, <2>4 DEF RowKnown, HeldFits
    <3>. QED  BY <2>4, <3>1, LocalsStay DEF IInv
  <2>6. audit[row[p]] = <<>>
    BY <1>2, <2>1 DEF IInv, AuditFits
  <2>7. \A q \in Sessions : q # p => (Claimed(q)' <=> Claimed(q)) /\ row'[q] = row[q] /\ outcome'[q] = outcome[q]
    BY <2>4 DEF Alone, Claimed, Applying
  <2>8. \A q \in Sessions : Claimed(q) => status[row[q]] = outcome[q] /\ outcome[q] # "PENDING" /\ row[q] \in Rows
    BY DEF IInv, ClaimsHold, LocalsFit, RowKnown, Claimed, Applying
  <2>9. \A q \in Sessions : q # p /\ Claimed(q) => row[q] # row[p]
    BY <2>1, <2>8
  <2>10. status'[row[p]] = outcome[p] /\ \A s \in Rows : s # row[p] => status'[s] = status[s]
    BY <1>2, <2>1 DEF TypeOK
  <2>11. ClaimsHold'
    <3>. SUFFICES ASSUME NEW q \in Sessions, Claimed(q)'
                  PROVE  /\ status'[row'[q]] = outcome'[q]
                         /\ audit'[row'[q]] = <<>>
                         /\ \A u \in Sessions : Claimed(u)' /\ row'[u] = row'[q] => u = q
      BY DEF ClaimsHold
    <3>1. CASE q = p
      BY <1>1, <2>4, <2>6, <2>7, <2>9, <2>10, <3>1
    <3>2. CASE q # p
      <4>1. Claimed(q) /\ row'[q] = row[q] /\ outcome'[q] = outcome[q] /\ row[q] # row[p] /\ row[q] \in Rows
        BY <2>7, <2>8, <2>9, <3>2
      <4>2. status[row[q]] = outcome[q] /\ audit[row[q]] = <<>>
            /\ \A u \in Sessions : Claimed(u) /\ row[u] = row[q] => u = q
        BY <4>1 DEF IInv, ClaimsHold
      <4>3. \A u \in Sessions : Claimed(u)' /\ row'[u] = row'[q] => u = q
        BY <2>4, <2>7, <4>1, <4>2
      <4>. QED  BY <1>1, <2>10, <4>1, <4>2, <4>3
    <3>. QED  BY <3>1, <3>2
  <2>12. AuditFits'
    BY <1>1, <1>2, <2>6, <2>10 DEF IInv, AuditFits
  <2>13. LocksArePending'
    BY <1>1, <1>2, <2>10 DEF IInv, LocksArePending
  <2>. QED  BY <2>5, <2>11, <2>12, <2>13 DEF IInv
<1>. QED  BY <1>3, <1>4

\* The audit row of a claimed suggestion is its first, and tells its status.
LEMMA RecordInvariant ==
    ASSUME TypeOK, IInv, NEW p \in Sessions, RecordOutcome(p)
    PROVE  IInv'
<1>1. pc[p] = "audit" /\ Finished(p) /\ UNCHANGED <<status, rowLock>>
  BY DEF RecordOutcome
<1>2. row[p] \in Rows /\ outcome[p] # "PENDING" /\ Claimed(p)
  BY <1>1 DEF IInv, LocalsFit, RowKnown, Claimed
<1>3. status[row[p]] = outcome[p] /\ audit[row[p]] = <<>>
      /\ \A q \in Sessions : Claimed(q) /\ row[q] = row[p] => q = p
  BY <1>2 DEF IInv, ClaimsHold
<1>4. audit' = [audit EXCEPT ![row[p]] = Append(audit[row[p]], outcome[p])]
  BY DEF RecordOutcome
<1>5. Append(audit[row[p]], outcome[p]) = <<status[row[p]]>>
  <2>1. Append(<<>>, outcome[p]) = <<outcome[p]>>
    BY DEF TypeOK
  <2>. QED  BY <1>3, <2>1
<1>6. audit'[row[p]] = <<status[row[p]]>> /\ \A s \in Rows : s # row[p] => audit'[s] = audit[s]
  BY <1>2, <1>4, <1>5 DEF TypeOK
<1>7. Alone(p) /\ pc'[p] = "idle" /\ outcome'[p] = "PENDING"
  BY <1>1, FinishedAlone
<1>8. LocalsFit'
  <2>1. RowKnown(p)' /\ HeldFits(p)'
    BY <1>7 DEF RowKnown, HeldFits
  <2>. QED  BY <1>7, <2>1, LocalsStay DEF IInv
<1>9. \A q \in Sessions : Claimed(q)' => q # p /\ Claimed(q) /\ row'[q] = row[q] /\ outcome'[q] = outcome[q]
  BY <1>7 DEF Alone, Claimed, Applying
<1>10. \A q \in Sessions : Claimed(q) => row[q] \in Rows
  BY DEF IInv, LocalsFit, RowKnown, Claimed, Applying
<1>11. ClaimsHold'
  <2>. SUFFICES ASSUME NEW q \in Sessions, Claimed(q)'
                PROVE  /\ status'[row'[q]] = outcome'[q]
                       /\ audit'[row'[q]] = <<>>
                       /\ \A u \in Sessions : Claimed(u)' /\ row'[u] = row'[q] => u = q
    BY DEF ClaimsHold
  <2>1. q # p /\ Claimed(q) /\ row'[q] = row[q] /\ outcome'[q] = outcome[q] /\ row[q] # row[p] /\ row[q] \in Rows
    BY <1>3, <1>9, <1>10
  <2>2. status[row[q]] = outcome[q] /\ audit[row[q]] = <<>>
        /\ \A u \in Sessions : Claimed(u) /\ row[u] = row[q] => u = q
    BY <2>1 DEF IInv, ClaimsHold
  <2>. QED  BY <1>1, <1>6, <1>9, <2>1, <2>2
<1>12. AuditFits'
  <2>1. status[row[p]] \notin {NoRow, "PENDING"}
    BY <1>2, <1>3 DEF TypeOK
  <2>. QED  BY <1>1, <1>6, <2>1 DEF IInv, AuditFits
<1>13. LocksArePending'
  BY <1>1 DEF IInv, LocksArePending
<1>. QED  BY <1>8, <1>11, <1>12, <1>13 DEF IInv

\* A generation writes rows that nobody has claimed: new ones, and PENDING ones it has locked.
LEMMA InsertInvariant ==
    ASSUME TypeOK, IInv, NEW p \in Sessions, Insert(p)
    PROVE  IInv'
<1>1. Finished(p) /\ rowLock' = Unlocked(p) /\ UNCHANGED audit
  BY DEF Insert
<1>2. CASE UNCHANGED <<suggested, status>>
  BY <1>1, <1>2, QuietEnd
<1>3. CASE ~UNCHANGED <<suggested, status>>
  <2>1. \A s \in Rows : \/ status'[s] = status[s] /\ rowLock[s] # p
                        \/ status[s] = NoRow /\ status'[s] = "PENDING"
                        \/ status[s] = "PENDING" /\ status'[s] = "STALE" /\ rowLock[s] = p
    <3>1. PICK new \in [fresh[p] -> {s \in Rows : status[s] = NoRow}] :
             LET inserted == {new[f] : f \in fresh[p]}
             IN  status' = [s \in Rows |-> IF s \in inserted THEN "PENDING"
                                           ELSE IF rowLock[s] = p THEN "STALE" ELSE status[s]]
      BY <1>3 DEF Insert
    <3>2. \A s \in {new[f] : f \in fresh[p]} : status[s] = NoRow
      OBVIOUS
    <3>3. \A s \in Rows : rowLock[s] = p => status[s] = "PENDING"
      BY DEF IInv, LocksArePending
    <3>. QED  BY <3>1, <3>2, <3>3
  <2>2. Alone(p) /\ pc'[p] = "idle" /\ outcome'[p] = "PENDING"
    BY <1>1, FinishedAlone
  <2>3. LocalsFit'
    <3>1. RowKnown(p)' /\ HeldFits(p)'
      BY <2>2 DEF RowKnown, HeldFits
    <3>. QED  BY <2>2, <3>1, LocalsStay DEF IInv
  <2>4. \A q \in Sessions : Claimed(q)' => Claimed(q) /\ row'[q] = row[q] /\ outcome'[q] = outcome[q]
    BY <2>2 DEF Alone, Claimed, Applying
  <2>5. \A q \in Sessions : Claimed(q) =>
           row[q] \in Rows /\ status[row[q]] \notin {NoRow, "PENDING"} /\ status'[row[q]] = status[row[q]]
    <3>. SUFFICES ASSUME NEW q \in Sessions, Claimed(q)
                  PROVE  row[q] \in Rows /\ status[row[q]] \notin {NoRow, "PENDING"}
                         /\ status'[row[q]] = status[row[q]]
      OBVIOUS
    <3>1. row[q] \in Rows /\ outcome[q] # "PENDING" /\ status[row[q]] = outcome[q]
      BY DEF IInv, LocalsFit, ClaimsHold, RowKnown, Claimed, Applying
    <3>2. status[row[q]] \notin {NoRow, "PENDING"}
      BY <3>1 DEF TypeOK
    <3>. QED  BY <2>1, <3>1, <3>2
  <2>6. ClaimsHold'
    BY <1>1, <2>4, <2>5 DEF IInv, ClaimsHold
  <2>7. AuditFits'
    BY <1>1, <2>1 DEF IInv, AuditFits
  <2>8. LocksArePending'
    BY <1>1, <2>1 DEF IInv, LocksArePending, Unlocked
  <2>. QED  BY <2>3, <2>6, <2>7, <2>8 DEF IInv
<1>. QED  BY <1>2, <1>3

LEMMA LockInvariant ==
    ASSUME TypeOK, IInv, NEW p \in Sessions, LockPending(p)
    PROVE  IInv'
<1>1. Alone(p) /\ pc'[p] = "insert" /\ row'[p] = row[p] /\ held'[p] = held[p] /\ outcome'[p] = outcome[p]
  BY GotoAlone DEF LockPending
<1>2. RowKnown(p)' /\ HeldFits(p)' /\ ~Claimed(p)'
  BY <1>1 DEF RowKnown, HeldFits, IInv, LocalsFit, Claimed, Applying
<1>3. \A s \in Rows : rowLock'[s] # NoSession => status[s] = "PENDING"
  BY DEF LockPending, Superseded, Pending, IInv, LocksArePending
<1>. QED  BY <1>1, <1>2, <1>3, Quiet DEF LockPending

LEMMA NextInvariant ==
    ASSUME TypeOK, IInv, [Next]_vars
    PROVE  IInv'
<1>. USE DEF IInv, LocalsFit, RowKnown, HeldFits
<1>a. ASSUME NEW p \in Sessions, OpenPage(p)  PROVE IInv'
  <2>1. outcome[p] = "PENDING"
    BY <1>a DEF OpenPage, Ask
  <2>. QED  BY <1>a, <2>1, QuietStep DEF OpenPage, Ask, table
<1>b. ASSUME NEW p \in Sessions, RunSchedule(p)  PROVE IInv'
  <2>1. outcome[p] = "PENDING"
    BY <1>b DEF RunSchedule, Ask
  <2>. QED  BY <1>b, <2>1, QuietStep DEF RunSchedule, Ask, table
<1>c. ASSUME NEW p \in Sessions, Resolve(p)  PROVE IInv'
  <2>1. Alone(p) /\ pc'[p] = "read" /\ outcome'[p] \in {"APPLIED", "DISMISSED"} /\ row'[p] \in Rows
    BY <1>c DEF Resolve, Ask, Goto, Alone, TypeOK
  <2>2. RowKnown(p)' /\ HeldFits(p)' /\ ~Claimed(p)'
    BY <2>1 DEF Claimed, Applying
  <2>. QED  BY <1>c, <2>1, <2>2, Quiet DEF Resolve, Ask, table, LocksArePending
<1>d. ASSUME NEW p \in Sessions, Drag(p)  PROVE IInv'
  <2>1. Alone(p) /\ pc'[p] = "moveRead" /\ outcome'[p] = "PENDING"
    BY <1>d DEF Drag, Ask, Goto, Alone, TypeOK
  <2>2. RowKnown(p)' /\ HeldFits(p)' /\ ~Claimed(p)'
    BY <2>1 DEF Claimed, Applying
  <2>. QED  BY <1>d, <2>1, <2>2, Quiet DEF Drag, Ask, table, LocksArePending
<1>e. ASSUME NEW p \in Sessions, Hit(p)  PROVE IInv'
  <2>1. \E step \in {"reset", "idle", "load"} : Goto(p, step)
    BY <1>e DEF Hit
  <2>2. outcome[p] = "PENDING"
    BY <1>e DEF Hit
  <2>. QED  BY <1>e, <2>1, <2>2, QuietStep DEF Hit, table
<1>f. ASSUME NEW p \in Sessions, Reset(p)  PROVE IInv'
  BY <1>f, QuietStep DEF Reset, table
<1>g. ASSUME NEW p \in Sessions, Load(p) \/ FindEntries(p) \/ Supersede(p)  PROVE IInv'
  <2>1. /\ \E step \in {"ids", "supersede", "wait"} : Goto(p, step)
        /\ UNCHANGED <<status, rowLock, audit, row, held, outcome>>
    BY <1>g DEF Load, FindEntries, Supersede, table
  <2>2. Alone(p) /\ pc'[p] \in {"ids", "supersede", "wait"} /\ row'[p] = row[p] /\ outcome'[p] = outcome[p]
    BY <2>1 DEF Alone, Goto, TypeOK
  <2>3. RowKnown(p)' /\ HeldFits(p)' /\ ~Claimed(p)'
    BY <2>2 DEF Claimed, Applying
  <2>. QED  BY <2>1, <2>2, <2>3, Quiet DEF LocksArePending
<1>h. ASSUME NEW p \in Sessions, Read(p)  PROVE IInv'
  <2>1. pc[p] = "read" /\ outcome[p] # "PENDING" /\ UNCHANGED table
    BY <1>h DEF Read
  <2>2. CASE Finished(p)
    BY <2>1, <2>2, QuietEnd DEF table
  <2>3. CASE ~Finished(p)
    <3>1. /\ \E step \in {"reverify", "claim"} : Goto(p, step)
          /\ held' = [held EXCEPT ![p] = suggested[row[p]]]
          /\ UNCHANGED <<row, outcome, fresh, wanted>>
      BY <1>h, <2>3 DEF Read
    <3>2. Alone(p) /\ pc'[p] \in {"reverify", "claim"} /\ row'[p] = row[p] /\ outcome'[p] = outcome[p]
      BY <3>1 DEF Alone, Goto, TypeOK
    <3>3. RowKnown(p)' /\ HeldFits(p)' /\ ~Claimed(p)'
      BY <2>1, <3>2 DEF Claimed, Applying
    <3>. QED  BY <2>1, <3>2, <3>3, Quiet DEF table, LocksArePending
  <2>. QED  BY <2>2, <2>3
<1>i. ASSUME NEW p \in Sessions, Reverify(p) \/ FindEntry(p)  PROVE IInv'
  <2>1. /\ outcome[p] # "PENDING"
        /\ \E step \in {"entry", "claim"} : Goto(p, step)
        /\ UNCHANGED <<status, rowLock, audit, row, held>>
        /\ UNCHANGED outcome \/ outcome' = [outcome EXCEPT ![p] = "STALE"]
    BY <1>i DEF Reverify, FindEntry, Stale, table
  <2>2. /\ Alone(p) /\ pc'[p] \in {"entry", "claim"} /\ row'[p] = row[p] /\ outcome'[p] # "PENDING"
    BY <2>1 DEF Alone, Goto, TypeOK
  <2>3. RowKnown(p)' /\ HeldFits(p)' /\ ~Claimed(p)'
    BY <2>1, <2>2 DEF Claimed, Applying
  <2>. QED  BY <2>1, <2>2, <2>3, Quiet DEF LocksArePending
<1>j. ASSUME NEW p \in Sessions, Prioritise(p)  PROVE IInv'
  BY <1>j, QuietStep DEF Prioritise, table, Claimed, Applying
<1>k. ASSUME NEW p \in Sessions, MoveRead(p) \/ MoveWrite(p)  PROVE IInv'
  <2>1. CASE Refused(p)
    BY <1>k, <2>1, QuietEnd DEF Refused, MoveRead, MoveWrite, table
  <2>2. CASE ~Refused(p) /\ MoveRead(p)
    BY <2>2, QuietStep DEF MoveRead, Movable, Active, table, Claimed, Applying
  <2>3. CASE ~Refused(p) /\ MoveWrite(p)
    BY <2>3, QuietStep DEF MoveWrite, table, Claimed, Applying
  <2>. QED  BY <1>k, <2>1, <2>2, <2>3
<1>l. ASSUME NEW p \in Sessions, Run(p)  PROVE IInv'
  <2>1. CASE Finished(p)
    BY <1>l, <2>1, QuietEnd DEF Run
  <2>2. CASE ~Finished(p)
    BY <1>l, <2>2, QuietStep DEF Run, Claimed, Applying
  <2>. QED  BY <2>1, <2>2
<1>m. ASSUME NEW p \in Sessions, Abort(p)  PROVE IInv'
  BY <1>m, QuietEnd DEF Abort
<1>n. ASSUME NEW o \in Orders, EditPriority(o) \/ StartOperation(o)  PROVE IInv'
  BY <1>n, Elsewhere DEF EditPriority, StartOperation, Change
<1>o. ASSUME NEW m \in Machines, SetMachineStatus(m) \/ DeleteMachine(m)  PROVE IInv'
  BY <1>o, Elsewhere DEF SetMachineStatus, DeleteMachine, Change
<1>p. ASSUME WindowPasses \/ UNCHANGED vars  PROVE IInv'
  BY <1>p, Elsewhere DEF WindowPasses, vars, table
<1>. QED
  BY <1>a, <1>b, <1>c, <1>d, <1>e, <1>f, <1>g, <1>h, <1>i, <1>j, <1>k, <1>l, <1>m, <1>n, <1>o, <1>p,
     ClaimInvariant, RecordInvariant, InsertInvariant, LockInvariant
  DEF Next, Serve

LEMMA Invariant == Spec => [](TypeOK /\ IInv)
<1>1. Init => TypeOK /\ IInv
  BY InitTypes, InitInvariant
<1>2. TypeOK /\ IInv /\ [Next]_vars => TypeOK' /\ IInv'
  BY NextTypes, NextInvariant DEF IInv
<1>. QED  BY <1>1, <1>2, PTL DEF Spec

-----------------------------------------------------------------------------
\* The rows and the variables of the requests are well formed in every
\* state (the columns of OptimizationSuggestion and what its readers hold).
THEOREM TypeCorrect == Spec => []TypeOK
  BY Invariant, PTL

\* Whoever changes the plan for a suggestion has claimed it alone, for any
\* number of sessions (claimStatus()).
THEOREM WinnersOnly == Spec => []EffectsByWinners
<1>1. TypeOK /\ IInv => EffectsByWinners
  <2>. SUFFICES ASSUME TypeOK, IInv, NEW p \in Sessions, Applying(p)
                PROVE  /\ status[row[p]] = "APPLIED"
                       /\ \A q \in Sessions : Applying(q) /\ row[q] = row[p] => q = p
    BY DEF EffectsByWinners
  <2>1. Claimed(p) /\ outcome[p] = "APPLIED"
    BY DEF Claimed, Applying
  <2>2. \A q \in Sessions : Applying(q) => Claimed(q)
    BY DEF Claimed
  <2>. QED  BY <2>1, <2>2 DEF IInv, ClaimsHold
<1>. QED  BY <1>1, Invariant, PTL

\* The audit trail has one row about the end of a suggestion at most, and
\* it is the end the suggestion has (the STATUS_CHANGE rows of apply.ts).
THEOREM AuditIsRight == Spec => []AuditTellsOutcome
<1>1. IInv => AuditTellsOutcome
  BY DEF IInv, AuditFits, AuditTellsOutcome
<1>. QED  BY <1>1, Invariant, PTL

\* A suggestion that is no longer PENDING keeps its status: claims look at
\* it, and generations replace only what they have locked PENDING.
THEOREM OneEnd == Spec => ResolvedOnce
<1>1. ASSUME TypeOK, IInv, [Next]_vars
      PROVE  [\A s \in Rows : status[s] \notin {NoRow, "PENDING"} => status'[s] = status[s]]_vars
  <2>. SUFFICES ASSUME Next, NEW s \in Rows, status[s] \notin {NoRow, "PENDING"}
                PROVE  status'[s] = status[s]
    BY <1>1
  <2>1. ASSUME NEW p \in Sessions, Insert(p)  PROVE status'[s] = status[s]
    <3>1. rowLock[s] # p
      BY <1>1 DEF IInv, LocksArePending
    <3>2. CASE UNCHANGED <<suggested, status>>
      BY <3>2
    <3>3. ASSUME NEW new \in [fresh[p] -> {u \in Rows : status[u] = NoRow}],
                 LET inserted == {new[f] : f \in fresh[p]}
                 IN  status' = [u \in Rows |-> IF u \in inserted THEN "PENDING"
                                              ELSE IF rowLock[u] = p THEN "STALE" ELSE status[u]]
          PROVE  status'[s] = status[s]
      BY <3>1, <3>3
    <3>. QED  BY <2>1, <3>2, <3>3 DEF Insert
  <2>2. ASSUME NEW p \in Sessions, Claim(p)  PROVE status'[s] = status[s]
    BY <1>1, <2>2 DEF Claim, Claimable, TypeOK
  <2>3. ASSUME NEW p \in Sessions,
               \/ OpenPage(p) \/ Resolve(p) \/ Drag(p) \/ RunSchedule(p) \/ Abort(p)
               \/ Hit(p) \/ Reset(p) \/ Load(p) \/ FindEntries(p) \/ Supersede(p) \/ LockPending(p)
               \/ Read(p) \/ Reverify(p) \/ FindEntry(p) \/ Prioritise(p) \/ RecordOutcome(p)
               \/ MoveRead(p) \/ MoveWrite(p) \/ Run(p)
        PROVE  UNCHANGED status
    BY <2>3 DEF OpenPage, Resolve, Drag, RunSchedule, Ask, Abort, Hit, Reset, Load, FindEntries, Supersede, LockPending,
                Read, Reverify, FindEntry, Prioritise, RecordOutcome, MoveRead, MoveWrite, Run, table
  <2>4. ASSUME \/ \E o \in Orders : EditPriority(o) \/ StartOperation(o)
               \/ \E m \in Machines : SetMachineStatus(m) \/ DeleteMachine(m)
               \/ WindowPasses
        PROVE  UNCHANGED status
    BY <2>4 DEF EditPriority, StartOperation, SetMachineStatus, DeleteMachine, Change, WindowPasses, table
  <2>. QED  BY <2>1, <2>2, <2>3, <2>4 DEF Next, Serve
<1>. QED  BY <1>1, Invariant, PTL DEF Spec, ResolvedOnce
=============================================================================
