--------------------------- MODULE SchedulingEngine ---------------------------
(***************************************************************************)
(* scheduleOrders() of lib/scheduling/engine.ts, loop by loop: the orders, *)
(* their remaining steps, the candidate machines of a step, the free       *)
(* windows of a machine (placeWork() of windows.ts), and after them the    *)
(* materials walk and the assessment of risks and loads.                   *)
(*                                                                         *)
(* Orders and machines are numbers: the order number and the machine code  *)
(* by which ties are broken.                                               *)
(***************************************************************************)
EXTENDS DeliveryRisk

CONSTANTS
    Inputs,          \* the plants the engine is asked to schedule
    NowRounding      \* NOW_ROUNDING_MINUTES

NoDay     == -1
NoMachine == 0
None      == [machine |-> NoMachine]

\* What the database holds of a plant: shift times are minutes of a day,
\* only accepted shifts are saved and stock is never negative; the days of
\* the model reach to today.
WellFormed(plant) ==
    /\ plant.now \in Nat
    /\ plant.horizon \in Nat
    /\ {plant.tz.at, plant.tz.by} \subseteq Int
    /\ plant.days \subseteq Int
    /\ \E d \in plant.days :
          StartOfDay(d, plant.tz) <= plant.now /\ plant.now < StartOfDay(d + 1, plant.tz)
    /\ \A c \in DOMAIN plant.calendars : LET shifts == plant.calendars[c].shifts IN
          /\ DOMAIN shifts \subseteq Nat /\ IsFiniteSet(DOMAIN shifts)
          /\ \A i \in DOMAIN shifts : /\ {shifts[i].start, shifts[i].end} \subseteq 0 .. MinutesPerDay - 1
                                      /\ shifts[i].break \in Nat
          /\ ValidShifts(shifts)
    /\ DOMAIN plant.machines \subseteq Nat \ {NoMachine}
    /\ \A m \in DOMAIN plant.machines : /\ plant.machines[m].efficiency \in Nat
                                         /\ plant.machines[m].calendar \in DOMAIN plant.calendars
    /\ \A x \in DOMAIN plant.stock : plant.stock[x] \in Nat
    /\ DOMAIN plant.orders \subseteq Nat \ {0} /\ IsFiniteSet(DOMAIN plant.orders)
    /\ \A o \in DOMAIN plant.orders :
          /\ plant.orders[o].quantity \in Nat
          /\ \A x \in DOMAIN plant.orders[o].bom : plant.orders[o].bom[x] \in Nat
          /\ {plant.orders[o].earliest, plant.orders[o].due} \subseteq Int
          /\ DOMAIN plant.orders[o].routing \subseteq Nat
          /\ \A n \in DOMAIN plant.orders[o].routing :
                {plant.orders[o].routing[n].setup, plant.orders[o].routing[n].run} \subseteq Nat
    /\ IsFiniteSet(plant.fixed)
    /\ \A f \in plant.fixed :
          /\ {f.seq, f.plannedStart, f.plannedEnd} \subseteq Nat
          /\ {f.actualStart, f.actualEnd} \subseteq Nat \cup {NoTime}

ASSUME PlantAssumption ==
    /\ NowRounding \in Nat \ {0}
    /\ \A plant \in Inputs : WellFormed(plant)

VARIABLES
    input,           \* EngineInput and EngineOptions
    pc,              \* the loop the engine is in
    capacity,        \* machine -> working windows without downtime
    free,            \* machine -> what is left of them
    occupied,        \* machine -> intervals taken by fixed and placed work
    waiting,         \* candidates not taken up yet
    order,           \* the candidate at hand
    todo,            \* its steps without a place
    prevEnd,         \* end of the step before
    planned,         \* its entries, not committed yet
    choices,         \* machines still to be tried for the step at hand
    best,            \* the earliest finish found for it
    scan,            \* placeWork() on one machine
    entries,         \* the plan
    plans,           \* order -> planned window, for the orders with a place
    unscheduled,     \* the candidates without one
    conflicts,
    balance,         \* material -> what the walk has left of the stock
    results          \* order -> delivery risk

jobVars == <<order, todo, prevEnd, planned>>
tryVars == <<choices, best, scan>>
planVars == <<free, occupied, entries>>
outVars == <<plans, unscheduled, conflicts>>
endVars == <<balance, results>>
vars == <<input, capacity, pc, waiting, jobVars, tryVars, planVars, outVars, endVars>>

(***************************************************************************)
(* Input.                                                                  *)
(***************************************************************************)
Orders   == DOMAIN input.orders
Machines == DOMAIN input.machines

Now        == CeilToMinutes(input.now, NowRounding)
Today      == TodayInTz(input.now, input.tz, input.days)
HorizonDay == Today + input.horizon
HorizonEnd == StartOfDay(HorizonDay, input.tz)

Active(m) == input.machines[m].status = "ACTIVE"

\* The time an entry takes from its machine; running work that overran its
\* planned end takes it until now.
BusyInterval(entry) ==
    LET s   == IF entry.actualStart # NoTime THEN entry.actualStart ELSE entry.plannedStart
        end == IF entry.actualEnd # NoTime THEN entry.actualEnd ELSE entry.plannedEnd
        e   == IF entry.status = "IN_PROGRESS" THEN Max2(end, Now) ELSE end
    IN  [s |-> Min2(s, e), e |-> Max2(s, e)]

FixedOf(o) == {f \in input.fixed : f.order = o}
FixedOn(m) == {f \in input.fixed : f.machine = m}

Calendar(m) == input.calendars[input.machines[m].calendar]
Gross(m)    == GrossWindows(Calendar(m), input.tz, Today, HorizonDay, Now, HorizonEnd)
Working(m)  == WorkingWindows(Calendar(m), input.tz, Today, HorizonDay, Now, HorizonEnd)
Capacity(m) == SubtractIntervals(Working(m), input.downtime[m])
Reserved(m) == NormalizeIntervals({BusyInterval(f) : f \in FixedOn(m)})

(***************************************************************************)
(* Candidates and the steps of an order.                                   *)
(***************************************************************************)
PriorityRank == [URGENT |-> 0, HIGH |-> 1, NORMAL |-> 2, LOW |-> 3]

Candidates == {o \in Orders : input.orders[o].status \in {"QUEUED", "IN_PROGRESS"}}

\* The sort key: priority, due date, createdAt, order number.
Before(o, p) ==
    LET a == <<PriorityRank[input.orders[o].priority], input.orders[o].due, input.orders[o].created, o>>
        b == <<PriorityRank[input.orders[p].priority], input.orders[p].due, input.orders[p].created, p>>
    IN  \E i \in 1 .. 4 : a[i] < b[i] /\ \A j \in 1 .. i - 1 : a[j] = b[j]

First(o) == \A p \in waiting \ {o} : Before(o, p)

Routing(o) == input.orders[o].routing
Remaining(o) ==
    {n \in DOMAIN Routing(o) : n \notin input.orders[o].completed /\ \A f \in FixedOf(o) : f.seq # n}

EarliestStart(o) ==
    IF input.orders[o].earliest = NoDay THEN Now
    ELSE Max2(Now, StartOfDay(input.orders[o].earliest, input.tz))

Eligible(step) ==
    IF step.machine # NoMachine
    THEN {m \in Machines : m = step.machine /\ Active(m)}
    ELSE {m \in Machines : input.machines[m].workCenter = step.workCenter /\ Active(m)}

\* operationMinutes() rounds to a tenth of a minute, stepMinutes() up to the
\* next minute.
StepMinutes(step, quantity, efficiency) ==
    LET eff    == IF efficiency > 0 THEN efficiency ELSE 100
        tenths == RoundDiv((step.setup + quantity * step.run) * 1000, eff)
    IN  (tenths + 9) \div 10

Step == Min(todo)
Minute(m) == StepMinutes(Routing(order)[Step], input.orders[order].quantity, input.machines[m].efficiency)
StepEarliest == Max2(EarliestStart(order), prevEnd)

(***************************************************************************)
(* Conflicts.                                                              *)
(***************************************************************************)
OrderConflict(type, o) == [type |-> type, order |-> o, machine |-> NoMachine]
MachineConflict(type, m) == [type |-> type, order |-> 0, machine |-> m]

\* Locked entries that overlap others, or lie in downtime or outside the
\* shifts.
LockedTrouble(m) ==
    LET Span(f) == [s |-> Max2(BusyInterval(f).s, Now), e |-> Min2(BusyInterval(f).e, HorizonEnd)]
    IN  \/ \E f, g \in FixedOn(m) :
              f # g /\ (f.locked \/ g.locked) /\ Overlap(BusyInterval(f), BusyInterval(g))
        \/ \E f \in FixedOn(m) :
              /\ f.locked
              /\ Span(f).s < Span(f).e
              /\ \/ CoveredMinutes(input.downtime[m], Span(f).s, Span(f).e) > 0
                 \/ SubtractIntervals({Span(f)}, Gross(m)) # {}

\* Minutes of fixed and placed work, those outside working time included.
OccupiedMinutes(m) ==
    LET Outside(f) ==
            LET s == Max2(BusyInterval(f).s, Now)
                e == Min2(BusyInterval(f).e, HorizonEnd)
            IN  IF e <= s THEN 0 ELSE e - s - CoveredMinutes(capacity[m], s, e)
    IN  MapThenSumSet(LAMBDA b : CoveredMinutes(capacity[m], b.s, b.e), occupied[m])
        + MapThenSumSet(Outside, FixedOn(m))

Overloaded(m) == Active(m) /\ OccupiedMinutes(m) > TotalMinutes(capacity[m])

(***************************************************************************)
(* Initial state: machineState() of every machine.                         *)
(***************************************************************************)
NoScan == [machine |-> NoMachine]

Init ==
    /\ input \in Inputs
    /\ pc = "locked"
    /\ occupied = [m \in Machines |-> Reserved(m)]
    /\ capacity = [m \in Machines |-> Capacity(m)]
    /\ free = [m \in Machines |-> SubtractIntervals(capacity[m], Reserved(m))]
    /\ waiting = Candidates
    /\ order = 0 /\ todo = {} /\ prevEnd = 0 /\ planned = {}
    /\ choices = {} /\ best = None /\ scan = NoScan
    /\ entries = {} /\ plans = << >> /\ unscheduled = {} /\ conflicts = {}
    /\ balance = input.stock
    /\ results = << >>

CheckLockedEntries ==
    /\ pc = "locked"
    /\ conflicts' = {MachineConflict("LOCKED_OVERLOAD", m) : m \in {n \in Machines : LockedTrouble(n)}}
    /\ pc' = "orders"
    /\ UNCHANGED <<input, capacity, waiting, jobVars, tryVars, planVars, plans, unscheduled, endVars>>

(***************************************************************************)
(* The loop over the candidates.  An order that fails keeps nothing of     *)
(* what was planned for it.                                                *)
(***************************************************************************)
\* Mutant: a failed order is committed all the same.
FailKeepingPlan(o, cause) ==
    /\ conflicts' = conflicts \cup {OrderConflict(cause, o), OrderConflict("UNSCHEDULED", o)}
    /\ unscheduled' = unscheduled \cup {o}
    /\ pc' = "commit"
    /\ UNCHANGED plans

Fail(o, cause) ==
    /\ conflicts' = conflicts \cup {OrderConflict(cause, o), OrderConflict("UNSCHEDULED", o)}
    /\ unscheduled' = unscheduled \cup {o}
    /\ pc' = "orders"
    /\ UNCHANGED plans

NoRouting ==
    /\ pc = "orders"
    /\ \E o \in waiting :
          /\ First(o)
          /\ Routing(o) = << >>
          /\ FixedOf(o) = {}
          /\ waiting' = waiting \ {o}
          /\ Fail(o, "NO_ROUTING")
    /\ UNCHANGED <<input, capacity, jobVars, tryVars, planVars, endVars>>

TakeOrder ==
    /\ pc = "orders"
    /\ \E o \in waiting :
          /\ First(o)
          /\ Routing(o) # << >> \/ FixedOf(o) # {}
          /\ waiting' = waiting \ {o}
          /\ order' = o
          /\ todo' = Remaining(o)
    /\ prevEnd' = 0
    /\ planned' = {}
    /\ pc' = "steps"
    /\ UNCHANGED <<input, capacity, tryVars, planVars, outVars, endVars>>

\* Mutant: fixed steps do not hold up the ones after them.
StepPrevEndPlanned == prevEnd

\* The next step in sequence starts no earlier than any fixed entry before it ends.
StepPrevEnd ==
    Max({prevEnd} \cup {BusyInterval(f).e : f \in {g \in FixedOf(order) : g.seq < Step}})

MachineUnavailable ==
    /\ pc = "steps"
    /\ todo # {}
    /\ Eligible(Routing(order)[Step]) = {}
    /\ Fail(order, "MACHINE_UNAVAILABLE")
    /\ UNCHANGED <<input, capacity, waiting, jobVars, tryVars, planVars, endVars>>

TakeStep ==
    /\ pc = "steps"
    /\ todo # {}
    /\ Eligible(Routing(order)[Step]) # {}
    /\ prevEnd' = StepPrevEnd
    /\ choices' = Eligible(Routing(order)[Step])
    /\ best' = None
    /\ scan' = NoScan
    /\ pc' = "machines"
    /\ UNCHANGED <<input, capacity, waiting, order, todo, planned, planVars, outVars, endVars>>

(***************************************************************************)
(* The loop over the machines of a step, and placeWork() on each: windows  *)
(* are filled in order; where the gap to the next window holds another     *)
(* job, placement starts over behind it.                                   *)
(***************************************************************************)
TryMachine ==
    /\ pc = "machines"
    /\ \E m \in choices :
          /\ \A n \in choices : m <= n
          /\ choices' = choices \ {m}
          /\ scan' = [machine |-> m, left |-> free[m], earliest |-> StepEarliest,
                      minutes |-> Max2(0, Minute(m)), need |-> Max2(0, Minute(m)),
                      start |-> NoTime, prevEnd |-> NoTime]
    /\ pc' = "windows"
    /\ UNCHANGED <<input, capacity, waiting, jobVars, best, planVars, outVars, endVars>>

\* Mutant: the last machine tried wins a tie.
BetterOrTied(placement) == best = None \/ placement.end <= best.end

Better(placement) ==
    \/ best = None
    \/ placement.end < best.end
    \/ placement.end = best.end /\ placement.machine < best.machine

NextWindow(w) == \A v \in scan.left : w.s <= v.s
From(w)       == Max2(w.s, scan.earliest)

\* Mutant: jobs between two windows are not looked at.
NeverBlocked(w) == FALSE

\* Another job lies between the last window used and this one.
Blocked(w) ==
    /\ scan.start >= 0
    /\ scan.prevEnd >= 0
    /\ \E b \in occupied[scan.machine] : b.e > scan.prevEnd /\ b.s < From(w)

Start(w) == IF scan.start < 0 \/ Blocked(w) THEN From(w) ELSE scan.start
\* Mutant: a new start keeps what was done before it.
NeedKept(w) == scan.need

Need(w) == IF Blocked(w) THEN scan.minutes ELSE scan.need

SkipWindow(w) ==
    /\ w.e <= scan.earliest
    /\ scan' = [scan EXCEPT !.left = @ \ {w}]
    /\ UNCHANGED <<input, capacity, pc, waiting, jobVars, choices, best, planVars, outVars, endVars>>

FillWindow(w) ==
    /\ w.e > scan.earliest
    /\ w.e - From(w) < Need(w)
    /\ scan' = [scan EXCEPT !.left = @ \ {w}, !.start = Start(w),
                            !.need = Need(w) - (w.e - From(w)), !.prevEnd = w.e]
    /\ UNCHANGED <<input, capacity, pc, waiting, jobVars, choices, best, planVars, outVars, endVars>>

FinishInWindow(w) ==
    /\ w.e > scan.earliest
    /\ w.e - From(w) >= Need(w)
    /\ LET placement == [machine |-> scan.machine, start |-> Start(w), end |-> From(w) + Need(w),
                         minutes |-> scan.minutes]
       IN  best' = IF Better(placement) THEN placement ELSE best
    /\ scan' = NoScan
    /\ pc' = "machines"
    /\ UNCHANGED <<input, capacity, waiting, jobVars, choices, planVars, outVars, endVars>>

UseWindow ==
    /\ pc = "windows"
    /\ \E w \in scan.left : NextWindow(w) /\ (SkipWindow(w) \/ FillWindow(w) \/ FinishInWindow(w))

NoWindowLeft ==
    /\ pc = "windows"
    /\ scan.left = {}
    /\ scan' = NoScan
    /\ pc' = "machines"
    /\ UNCHANGED <<input, capacity, waiting, jobVars, choices, best, planVars, outVars, endVars>>

PlaceStep ==
    /\ pc = "machines"
    /\ choices = {}
    /\ best # None
    /\ planned' = planned \cup {[order |-> order, seq |-> Step, machine |-> best.machine, start |-> best.start,
                                 end |-> best.end, minutes |-> best.minutes]}
    /\ prevEnd' = best.end
    /\ todo' = todo \ {Step}
    /\ best' = None
    /\ pc' = "steps"
    /\ UNCHANGED <<input, capacity, waiting, order, choices, scan, planVars, outVars, endVars>>

NoCapacity ==
    /\ pc = "machines"
    /\ choices = {}
    /\ best = None
    /\ Fail(order, "NO_MACHINE")
    /\ UNCHANGED <<input, capacity, waiting, jobVars, tryVars, planVars, endVars>>

(***************************************************************************)
(* Commit of an order: its window, then its entries one by one.            *)
(***************************************************************************)
\* Mutant: the window of what is planned in this run.
PlanWindowOfNew ==
    LET busy == {[s |-> p.start, e |-> p.end] : p \in planned}
    IN  IF busy = {} THEN [s |-> Now, e |-> Now]
        ELSE [s |-> Min({b.s : b \in busy}), e |-> Max({0} \cup {b.e : b \in busy})]

PlanWindow ==
    LET busy == {BusyInterval(f) : f \in FixedOf(order)} \cup {[s |-> p.start, e |-> p.end] : p \in planned}
    IN  IF busy = {} THEN [s |-> Now, e |-> Now]
        ELSE [s |-> Min({b.s : b \in busy}), e |-> Max({0} \cup {b.e : b \in busy})]

CommitOrder ==
    /\ pc = "steps"
    /\ todo = {}
    /\ plans' = [o \in DOMAIN plans \cup {order} |-> IF o = order THEN PlanWindow ELSE plans[o]]
    /\ pc' = "commit"
    /\ UNCHANGED <<input, capacity, waiting, jobVars, tryVars, planVars, unscheduled, conflicts, endVars>>

CommitEntry ==
    /\ pc = "commit"
    /\ \E p \in planned : LET busy == [s |-> p.start, e |-> p.end] IN
           /\ \A q \in planned : p.seq <= q.seq
           /\ free' = [free EXCEPT ![p.machine] = SubtractInterval(@, busy)]
           /\ occupied' = [occupied EXCEPT ![p.machine] = NormalizeIntervals(@ \cup {busy})]
           /\ entries' = entries \cup {p}
           /\ planned' = planned \ {p}
    /\ UNCHANGED <<input, capacity, pc, waiting, order, todo, prevEnd, tryVars, outVars, endVars>>

OrderCommitted ==
    /\ pc = "commit"
    /\ planned = {}
    /\ pc' = "orders"
    /\ UNCHANGED <<input, capacity, waiting, jobVars, tryVars, planVars, outVars, endVars>>

(***************************************************************************)
(* Materials: orders take their requirement in planned-start order, those  *)
(* without a place last.                                                   *)
(***************************************************************************)
OrdersDone ==
    /\ pc = "orders"
    /\ waiting = {}
    /\ waiting' = Candidates
    /\ pc' = "materials"
    /\ UNCHANGED <<input, capacity, jobVars, tryVars, planVars, outVars, endVars>>

WalksBefore(o, p) ==
    LET ranked(x) == x \in DOMAIN plans
    IN  \/ ranked(o) /\ ~ranked(p)
        \/ ranked(o) /\ ranked(p) /\ plans[o].s < plans[p].s
        \/ /\ (ranked(o) /\ ranked(p) /\ plans[o].s = plans[p].s) \/ (~ranked(o) /\ ~ranked(p))
           /\ Before(o, p)

Required(o, x) == input.orders[o].quantity * input.orders[o].bom[x]

\* Mutant: every order sees the whole stock.
AvailableAtStart(x) == input.stock[x]

Available(x)   == Max2(0, balance[x])

ConsumeMaterials ==
    /\ pc = "materials"
    /\ \E o \in waiting : LET used == DOMAIN input.orders[o].bom IN
           /\ \A p \in waiting \ {o} : WalksBefore(o, p)
           /\ balance' = [x \in DOMAIN balance |->
                             IF x \in used THEN Available(x) - Required(o, x) ELSE balance[x]]
           /\ conflicts' = conflicts \cup
                 {[type |-> "MATERIAL_SHORTAGE", order |-> o, machine |-> NoMachine, material |-> x]
                     : x \in {y \in used : Required(o, y) > Available(y)}}
           /\ waiting' = waiting \ {o}
    /\ UNCHANGED <<input, capacity, pc, jobVars, tryVars, planVars, plans, unscheduled, results>>

(***************************************************************************)
(* Risks and loads.                                                        *)
(***************************************************************************)
Short(o) == \E c \in conflicts : c.type = "MATERIAL_SHORTAGE" /\ c.order = o

DefaultWorks(day) ==
    LET cal == input.calendars[input.defaultCalendar]
    IN  DOMAIN cal.shifts = {} \/ IsWorkingDay(cal, day)

RiskIf(o, end) ==
    ClassifyRisk(end, input.orders[o].due, Now, TodayInTz(Now, input.tz, input.days), input.tz, Short(o),
                 HorizonEnd, {d \in input.orders[o].due - 15 .. input.orders[o].due : DefaultWorks(d)})

RiskOf(o) == RiskIf(o, IF o \in DOMAIN plans THEN plans[o].e ELSE NoTime)

Assess ==
    /\ pc = "materials"
    /\ waiting = {}
    /\ results' = [o \in Candidates |-> RiskOf(o)]
    /\ conflicts' = conflicts
          \cup {OrderConflict("DEADLINE_MISSED", o) : o \in {p \in Candidates : RiskOf(p) \in {"DELAYED", "LATE"}}}
          \cup {OrderConflict("DEADLINE_AT_RISK", o) : o \in {p \in Candidates : RiskOf(p) = "AT_RISK"}}
          \cup {MachineConflict("MACHINE_OVERLOAD", m) : m \in {n \in Machines : Overloaded(n)}}
    /\ pc' = "done"
    /\ UNCHANGED <<input, capacity, waiting, jobVars, tryVars, planVars, plans, unscheduled, balance>>

Next ==
    \/ CheckLockedEntries
    \/ NoRouting \/ TakeOrder
    \/ MachineUnavailable \/ TakeStep
    \/ TryMachine \/ UseWindow \/ NoWindowLeft
    \/ PlaceStep \/ NoCapacity
    \/ CommitOrder \/ CommitEntry \/ OrderCommitted
    \/ OrdersDone \/ ConsumeMaterials \/ Assess

Spec == Init /\ [][Next]_vars

(***************************************************************************)
(* Properties.                                                             *)
(***************************************************************************)
Entry == [order : Orders, seq : Int, machine : Machines, start : Int, end : Int, minutes : Nat]

\* Types of the engine's variables.
TypeOK ==
    /\ pc \in {"locked", "orders", "steps", "machines", "windows", "commit", "materials", "done"}
    /\ {capacity, free} \subseteq [Machines -> SUBSET Interval]
    /\ occupied \in [Machines -> SUBSET Interval]
    /\ waiting \subseteq Candidates
    /\ order \in Orders \cup {0}
    /\ todo \subseteq Int
    /\ prevEnd \in Int
    /\ planned \subseteq Entry
    /\ entries \subseteq Entry
    /\ choices \subseteq Machines
    /\ best = None \/ best \in [machine : Machines, start : Int, end : Int, minutes : Nat]
    /\ \/ scan = NoScan
       \/ scan \in [machine : Machines, left : SUBSET Interval, earliest : Int, minutes : Nat, need : Nat,
                    start : Int, prevEnd : Int]

\* No machine is booked twice: what the engine plans neither overlaps other
\* planned work nor fixed work on the same machine, gaps between working
\* windows included (placeWork() with its blocking intervals and the
\* bookkeeping of free windows between orders).
Disjoint(a, b) == a.e <= a.s \/ b.e <= b.s \/ a.e <= b.s \/ b.e <= a.s
Span(e) == [s |-> e.start, e |-> e.end]
NoDoubleBooking ==
    /\ \A e, f \in entries : e # f /\ e.machine = f.machine => Disjoint(Span(e), Span(f))
    /\ \A e \in entries, f \in input.fixed : e.machine = f.machine => Disjoint(Span(e), BusyInterval(f))

\* A planned step starts no earlier than every step of its order with a
\* smaller sequence ends, planned or fixed.
StepsInOrder ==
    \A e \in entries :
        /\ \A f \in entries : f.order = e.order /\ f.seq < e.seq => f.end <= e.start
        /\ \A f \in FixedOf(e.order) : f.seq < e.seq => BusyInterval(f).e <= e.start

\* The placement chosen for a step is the earliest finish any eligible
\* machine offers, the lower code at a tie, and a step fails only if none
\* offers any: the one-pass search of placeWork() misses no placement,
\* although it starts over behind other jobs.
Legal(m, start, end) ==
    /\ start >= StepEarliest
    /\ CoveredMinutes(free[m], start, end) = Max2(0, Minute(m))
    /\ start \in Minutes(free[m])
    /\ end = start \/ end - 1 \in Minutes(free[m])
    /\ \A b \in occupied[m] : ~Overlap(b, [s |-> start, e |-> end])
EarliestFinish ==
    pc = "machines" /\ choices = {} =>
        LET offers == {x \in Eligible(Routing(order)[Step]) \X (Now .. HorizonEnd) :
                          \E start \in Now .. x[2] : Legal(x[1], start, x[2])}
        IN  IF best = None THEN offers = {}
            ELSE /\ <<best.machine, best.end>> \in offers
                 /\ \A x \in offers : best.end < x[2] \/ (best.end = x[2] /\ best.machine <= x[1])

\* Between the start and the end of an entry its machine has exactly the
\* working minutes the step needs, after downtime and breaks and within the
\* horizon.
PlacementHoldsWork ==
    \A e \in entries :
        /\ CoveredMinutes(capacity[e.machine], e.start, e.end) = e.minutes
        /\ Now <= e.start /\ e.end <= HorizonEnd

\* Every candidate ends up with a place for all its remaining steps or for
\* none, and the latter is reported.
AllOrNothing ==
    pc = "done" =>
        \A o \in Candidates :
            LET seqs == {e.seq : e \in {f \in entries : f.order = o}}
            IN  IF o \in DOMAIN plans THEN seqs = Remaining(o)
                ELSE seqs = {} /\ OrderConflict("UNSCHEDULED", o) \in conflicts

\* The orders that are not reported short of a material can all have what
\* they need of it from stock.
PromisedMaterialExists ==
    pc = "done" =>
        \A x \in DOMAIN input.stock :
            LET served == {o \in Candidates :
                              /\ x \in DOMAIN input.orders[o].bom
                              /\ ~ \E c \in conflicts : /\ c.type = "MATERIAL_SHORTAGE"
                                                        /\ c.order = o
                                                        /\ c.material = x}
            IN  MapThenSumSet(LAMBDA o : Required(o, x), served) <= input.stock[x]

\* Shifts that validateShifts() accepts never run at the same time, over week
\* ends and midnights, as long as no exception and no clock change interferes.
Regular(cal) == \A d \in DOMAIN cal.exceptions : ~cal.exceptions[d]
AcceptedShiftsNeverCollide ==
    pc = "locked" /\ input.tz.by = 0 =>
        \A c \in DOMAIN input.calendars :
            LET cal == input.calendars[c]
                all == UNION {ShiftsOn(cal, d, input.tz) : d \in input.days}
            IN  Regular(cal) => \A a, b \in all : a # b => ~Overlap(a, b)

\* The minutes a machine's page shows as available on a day are there for the
\* engine to use (machines at 100 %, days without a working exception).
PageNeverOverpromises ==
    pc = "locked" /\ input.tz.by = 0 =>
        \A m \in Machines : \A d \in input.days :
            Regular(Calendar(m)) =>
                AvailableMinutes(Calendar(m), d, input.tz, 100, input.downtime[m])
                    <= TotalMinutes(SubtractIntervals(DayWorkingWindows(Calendar(m), d, input.tz), input.downtime[m]))

\* An order the planner is told is on track keeps its due date: all its work, planned now,
\* fixed before or overrunning, ends before a working day that lies before the due date (the
\* search for one gives up after 14 days), and it gets its materials.  Without a place it is
\* on track only if it is due after the horizon.
WorkEnds(o) == {e.end : e \in {f \in entries : f.order = o}} \cup {BusyInterval(f).e : f \in FixedOf(o)}
InTime(o) ==
    LET due == input.orders[o].due IN
    \E d \in due - 15 .. due - 1 :
        /\ DefaultWorks(d) \/ d = due - 15
        /\ \A end \in WorkEnds(o) : end < StartOfDay(d, input.tz)
OnTrackKeepsDueDate ==
    pc = "done" =>
        \A o \in Candidates : results[o] = "ON_TRACK" =>
            /\ ~Short(o)
            /\ IF o \in DOMAIN plans THEN InTime(o)
               ELSE HorizonEnd < StartOfDay(input.orders[o].due + 1, input.tz)
==============================================================================
