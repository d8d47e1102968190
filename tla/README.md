# ProdPlan in TLA+

A verification development of ProdPlan, a multi-tenant production planner (Next.js server actions over Prisma
and PostgreSQL). It models the parts of the program that carry its logic: orders, shop-floor work, schedule runs and
the engine behind them, stock, order numbers and imports, suggestions, accounts, and the plant's master data. TLC
checks the models on small instances and TLAPS proves the main safety properties for every value of the constants.
Paths below are relative to the repository (`src/lib/...` is the application's library code, `prisma/schema.prisma`
the database schema).

## 1. The system

ProdPlan is stateless between requests: every piece of state is a PostgreSQL row or a session cookie, every operation is
a server action that checks a permission, runs one interactive transaction (`db.$transaction`, READ COMMITTED, no
`SELECT ... FOR UPDATE` anywhere) and often issues one more statement after the commit (`markScheduleDirty`). Concurrency
is therefore between transactions of requests; the only means of exclusion are the row locks that UPDATE and
DELETE take, unique indexes and foreign keys, conditional updates, and the row of the tenant used as a mutex.

| Component | State (tables) | Operations | Talks to |
|---|---|---|---|
| Status rules, roles (`orders/status.ts`, `scheduling/operation-status.ts`, `rbac.ts`) | none | which transition which role may make; roll-up of operations to the order; what a transition does to `completedAt` | called by every handler |
| Orders service (`orders/service.ts`, `app/(app)/orders/actions.ts`) | `Order` | create, edit, change status (with hold and release of all steps) | floor (holdOrder/releaseOrder), dirty marks |
| Shop floor (`scheduling/operation-status.ts`, `floor/actions.ts`) | `ScheduleEntry.status`, actual times, `holdReason` | start, resume, pause, complete; roll-up; hold/release | `Order.status`, conflicts, dirty marks |
| Schedule runs and moves (`scheduling/run.ts`, `move.ts`, `dirty.ts`) | `ScheduleEntry` rows, `ScheduleConflict`, `ScheduleRun`, `Order.scheduleDirty` | run, move + lock, unlock | engine; orders; tenant row as mutex |
| Engine and delivery risk (`scheduling/engine.ts`, `windows.ts`, `calendar.ts`, `risk.ts`) | none; one synchronous computation | working windows of the machines, placement of the remaining steps, all or none per order, materials, conflicts, risk, loads | called by runs and by suggestions |
| Stock ledger (`stock.ts`, `validation/materials.ts`) | `Material.stockOnHand`, `StockMovement` | receipt, issue, return, adjustment | marks all open orders dirty |
| Material master (`materials/service.ts`) | `Material` | create, edit, (de)activate, delete | ledger (foreign key) |
| Order intake (`orders/reserve.ts`, `numbers.ts`, `import.ts`) | `Tenant.orderSeq`, `ImportBatch`, `Order` | reserve numbers, retry on conflict, preview / commit / discard an import | tenant row |
| Optimization (`optimization/*`, `rate-limit.ts`) | `OptimizationSuggestion`, `AuditLog`, `RateLimitBucket` | generate on a page load, apply (claim, then move or re-prioritise and run), dismiss, mark stale | runs, moves |
| Users and sessions (`users/*`, `auth/*`) | `Tenant`, `User`, cookies | sign up, log in, renew, change own data, invite, edit, reset, (de)activate | tenant row |
| Plant master data (`products/mutations.ts`, `routing.ts`, `machines/*`, `calendars/*`, `tenant/settings.ts`) | products, routing steps, work centers, machines, calendars, shifts, the plant's default calendar | add, edit, move, remove, (de)activate, delete; each ends in `markScheduleDirty(db, {all: true})` | engine (through the rows), dirty marks |
| Notifications, e-mail, audit, export, dashboards, analytics, customers, UI, seeds, tenant scoping (`db.ts`) | append-only rows or none | fan-out, queries | written inside the transactions above |

### What is hard in it

* **Interleavings.** Handlers read with plain SELECTs and write later. A status change reads the order's status,
  a hold reads the steps, a run reads everything, and all of them write what they computed from those reads. Which
  of these races the locks close and which they do not is the subject of `FloorTransactions`; `StockLedger`, `OrderIntake`,
  `Suggestions`, `Accounts` and `PlantData` ask the same of their handlers.
* **Two predicates about one thing.** A run deletes rows by one predicate (`deleteMany`) and keeps steps by
  another (`isFixedEntry`). If a long sequence of legal calls produces a row that neither covers, every later run
  fails on the unique index. `RunsNeverCollide` and its proof are about this.
* **Inverse operations.** An order-level hold writes the previous status of each step into `holdReason` and a
  release restores it; pauses made on the floor use the same column for free text.
* **Announced gaps.** An order is planned completely or not at all, after its old rows were deleted; the board's
  honesty rests on the dirty mark and the open conflicts.
* **A search that starts over.** `placeWork` fills working windows in one pass and begins again behind other jobs; whether it
  ever overlaps, comes out too short or misses an earlier finish depends on every combination of windows, jobs and clock
  changes. `SchedulingEngine` is about it.
* **Ledger arithmetic under concurrency.** The delta of a movement may stem from a stale read; the UPDATE is
  conditional; the balance must come from the UPDATE.
* **Crashes.** Between a commit and the mark that follows it; between the statements of any transaction.
* **Check, then insert.** Automatic order numbers are checked against the committed orders, inserted later and retried as a
  whole transaction; an import checks its batch once, before all of this.
* **Claims.** A suggestion is claimed before it takes effect, while pages replace it and engines re-verify it.
* **Guards over several rows.** The last administrator of a tenant, the numbers of a routing, the shifts of a calendar and its being
  the default are conditions on rows that different requests write.
* **Revocation.** Cookies are renewed on any response; one that was cut off must not come back, in whatever order responses arrive.

## 2. Modules

```
StatusRules            constant-level: state machines, roles, roll-up
  +- ScheduleRows      one ScheduleEntry row and what each handler makes of it
  |    +- ProductionFlow          handlers one after the other       - MCProductionFlow
  |    |    +- ProductionFlowProofs
  |    +- FloorTransactions       the same handlers, by statement    - MCFloorTransactions
  |         +- FloorTransactionsProofs
  +- StockLedger       stock transactions by statement               - MCStockLedger
  |    |  refines StockBook       one movement at a time
  |    +- StockLedgerProofs
  +- OrderIntake       order forms and imports by statement          - MCOrderIntake
       +- OrderIntakeProofs
WorkingTime            constant-level: intervals, shifts, working windows
  +- DeliveryRisk      constant-level: the risk of an order
       +- SchedulingEngine        scheduleOrders(), loop by loop     - MCSchedulingEngine
            +- SchedulingEngineProofs
Suggestions            suggestions, moves, page loads by statement   - MCSuggestions
  +- SuggestionsProofs
Accounts               users, cookies, user management by statement  - MCAccounts
  +- AccountsProofs
PlantTables            constant-level: rows, references, routings, shifts
  +- PlantData         master-data edits by statement                - MCPlantData
       +- PlantDataProofs
```

**StatusRules** translates the transition tables, `canTransition`, `canTransitionOperation`, `completedAtFor`,
`rollupTarget` and the rows of the permission matrix that the modelled handlers ask for.

**ScheduleRows** is the data of a schedule entry as far as handlers look at it: status, whether `actualStartAt`
and `actualEndAt` are set, `locked`, and `holdReason` reduced to the four cases `decodeHeldFrom` tells apart (null,
free text, held from QUEUED, held from IN_PROGRESS). `Moved`, `Held`, `Released`, `IsFixedEntry`, `IsReplaced` and
`FreshEntry` are the writes and predicates of the handlers on one row.

**ProductionFlow** has one action per server action: `CreateOrder`, `UpdateOrder`, `ChangeOrderStatus` (with the
hold or release of every step), `PlantChanged` (every edit that marks all orders), `ApplyOperationTransition` (gate,
stamps, deviation mark, roll-up), `RunSchedule`, `MoveEntry`, `UnlockEntry` (the last two with the run they trigger).
The engine is a choice here: any considered order with a step to place may fail (no machine, no capacity), any
order the engine may report on may get a conflict, and an order that fails always gets one. A run whose insert would
meet a row left in place ends in the unique-index error and leaves a FAILED run. Server actions call the floor
handler with IN_PROGRESS, ON_HOLD and COMPLETED only and never override the gate: these are the constants
`FloorTargets` and `Overrides`.

**FloorTransactions** has the handlers statement by statement, for several sessions and the rows of one order. A
SELECT sees committed rows and the session's own writes; an UPDATE waits for the row's lock and then writes data
computed from what was read before; an UPDATE by id of a vanished row ends the transaction; `deleteMany` finds its
rows first and re-evaluates its condition on each once it is locked; `markScheduleDirty` after a commit is its own
transaction; a session may end at any statement (`Rollback`: error, lost connection, timeout, crash, or the database
breaking a deadlock). A row's overlay (`wOrder`, `wEntry`, `wConflict`) is its uncommitted version and its lock at once. Each
statement that writes rows others may hold is a step of its own: of a run the deletes (row by row, then the cascade to conflicts that name a
deleted row), the inserts, the conflicts, the order and the orders on hold; of a floor transition the operation, the dirty mark, the order, its conflicts and
`reassessOrderRisk`'s write of the order. Simplified against the code: a Prisma query with `include` is one read; the statements with which a run loads machines,
calendars and orders are one read, entries a second; the open conflicts of the order are one row for each run, resolved and inserted in one step; of the delivery risk only that it is
written; hold and release write step by step in sequence order. There is one order. Manual moves, roles, audit rows and notifications are left out.

**StockBook** is the abstract ledger: movements are posted one at a time with the balance they leave, and a material
with movements is never deleted. **StockLedger** implements it with `applyStockMovement`'s statements (permission and
shape, read, conditional UPDATE, movement row and commit) for several sessions, beside creation, (de)activation and
deletion of the material (reference check, then DELETE with the foreign key as backstop). The refinement mapping takes
the committed rows; a commit is a `Post`, a DELETE is a `Delete`, every other statement stutters.

**OrderIntake** has the order form (`createOrder`, with a typed number or one of the sequence), `reserveOrderNumbers`, the
import (`previewImport`, `commitImport`, `discardImport`) and `withOrderNumberRetry` statement by statement. A number is the
natural number of its sequence: automatic numbers count from 1; a typed number must not be `SO-` with six digits, so it is a number beyond
`SixDigits`, which the sequence may reach one day or never. `tenantLock` and `bumped` are the row lock on the tenant and the
uncommitted `orderSeq`; an insert waits for the transaction that has inserted the same number (`Holders`) and fails if it is
committed, which ends the transaction and may start the next attempt. A batch belongs to one user; concurrent commits of it
are that user's (two tabs, a repeated request). Simplified: the reads before a reservation are one step; the rows of one insert may come in any
order; a file is its number of rows without an order number and its set of typed ones (numbers typed twice make their rows invalid). Left out:
customers (both paths insert new ones before they reserve, so waits for a customer's name come before all waits modelled here), `updateOrder`'s
change of a number, the age of a preview.

**WorkingTime** is the arithmetic of `calendar.ts` and `windows.ts`: intervals (sets of `[s, e)` instead of sorted lists),
shifts with breaks and over midnight, their validation over a week, exceptions, conversion of local times around one clock
change, the working windows of a range of days, and the available minutes that the machine pages show. Days have
`MinutesPerDay` minutes and weeks `DaysPerWeek` days. **DeliveryRisk** classifies an order as ON_TRACK, AT_RISK, DELAYED or
LATE from its planned end, its due date, the working days before it and its material.

**SchedulingEngine** is `scheduleOrders` loop by loop: `pc` says which loop it is in. `CheckLockedEntries` reports locked work that
overlaps; `TakeOrder` and `TakeStep` walk candidates in the order of priority, due date, creation and number, and their remaining
steps in sequence, each waiting for planned and fixed steps before it; `TryMachine` walks the eligible machines and `UseWindow` the
free windows of one, with `Blocked` as the restart behind another job; `PlaceStep`, `NoCapacity`, `MachineUnavailable` and `NoRouting` end a step or
the order; `CommitOrder` and `CommitEntry` take the work out of the free windows; `ConsumeMaterials` walks the stock in the
order of the planned starts and `Assess` gives risks and the remaining conflicts. The input is a whole plant and never changes.
Orders and machines are numbers, which stand for the order number and the machine code by which ties are broken; durations are
in minutes, with the code's two roundings.

**Suggestions** has the page load (rate limit, load, engine, the second read for the entries' ids, the UPDATE that supersedes what is pending, the
insert), apply and dismiss (read, re-verify, look up the entry, claim, effect, run, audit row), drags, schedule runs, and
what others do meanwhile (edit a priority, start the operation, change or delete a machine). Which perturbations pay off is left open: any
set with at most one of each kind for an order, as `generateSuggestions` returns. Ids of schedule rows are used again only when
nobody remembers them. A run is one step here.

**Accounts** has users, tenants and the cookies of devices, statement by statement: login, sign-up, renewal, own changes
and user management under the tenant row's lock with `assertAdminRemains` before the commit. A cookie is `[user, tv]`; it is good
while the user is active and has that `tokenVersion`. A device may have several requests under way, and each answer may
leave a cookie on it when it arrives, in any order. Passwords are right or not asked for; hashes, names and the login rate limits are left out.

**PlantTables** gives the master data as rows with references, a view of the tables as a function from ids to rows, what a delete
does to referring rows (`onDelete` of the schema), the plan of a renumbering (`planRenumber`: temporary numbers first, then the
final ones) and the fit of shifts. **PlantData** has every edit of products, routing steps, work centers, machines,
calendars, shifts and the default calendar as a transaction: its checks on what it reads, then its statements one by one. A statement waits for the rows,
references and numbers others have written; an error of the database (P2002, P2003, P2025, or `planRenumber` that throws) rolls back.
`renumberOperations` reads the routing again between statements (`ReadRouting`). Other transactions insert orders and planned work. The
reads before a handler's first statement are one step. The histories `overlapped` and `raced` say which commits a transaction
has been overlapped by, and which calendars two overlapping transactions were about.

Each proof module extends the module it is about; each MC module gives the constants their values.

## 3. Runs

| Run | Distinct states | What it shows |
|---|---|---|
| `production_flow` | 48 120 | the handlers one after the other, in every order |
| `floor_transactions` | 911 975 up to symmetry | what survives when the same handlers interleave |
| `scheduling_engine` | 117 084 | the engine on 3604 plants |
| `stock_ledger` | 32 425 | `StockLedger` refines `StockBook`; balances, history, liveness |
| `order_intake` | 199 867 up to symmetry | numbers, reservations, atomic imports and lock order of forms and imports |
| `suggestions` | 956 595 up to symmetry | one end and one effect for each suggestion |
| `accounts` | 706 972 | an administrator always remains; what was cut off stays out |
| `plant_data` | 285 929 | master data under overlapping edits |
| `rollup_covers_routing`, `order_state_machine`, `imported_once`, `priority_only_raised` | | each refutes one sentence of the documentation, a comment or a message (section 5) |

**`production_flow`**: `HoldFreezesWork` (nothing of a held order is queued or running), `HoldPreservesWork`
(hold and release are inverse on every step), `StartedNeverQueued` and `FixedWorkSurvives` (started and locked work
survives re-planning), `RunsNeverCollide` (no run ends in the unique-index error), `CompletionStamps`, `NoSilentGap`
(a step without a place is announced).

**`floor_transactions`**: `StartedWorkSurvives` (a start that
commits while a run is under way keeps its row), `PlanNeverRegresses` (the tenant lock keeps an older plan from
overwriting a newer one), `GapsAnnounced` (a missing step is announced, unless the mark was lost or an overlapped roll-up has changed the order's
status, `raced`: a step of an order that others have just completed is reopened, the roll-up reopens the order, and nobody marks it), `DeadlocksNeedOrderFirst` (sessions that wait for each other
have a status change among them, or a floor transition that completes the order and a run: transactions take operations, then conflicts, then the order, but a status change starts with the order, and a completion writes the
order at `operation-status.ts:404` and then the conflicts at 412, which a run has resolved at `run.ts:351` before it writes the order at 418. Either exception alone is refuted: both deadlocks exist, and PostgreSQL ends one of the transactions), `RollUpAgrees` (the commit of a floor transition leaves the order in the status its steps ask for, unless others
committed between the roll-up's reads and this commit; without the exception TLC shows two operators who finish
the last two steps at the same time and leave the order open), `HoldsLeakOnlyOverlapped` (queued or running work comes to an order on hold
only from calls that overlap a hold or a release: the history variable `overlapped` has them, and without it TLC shows a run that has loaded the
order before the hold and plans it after it).

**`scheduling_engine`**: `NoDoubleBooking`, `StepsInOrder`, `EarliestFinish` (the one-pass search finds the earliest finish that
any eligible machine offers, compared with a definition that tries every start and end), `PlacementHoldsWork` (exactly the needed
working minutes lie between start and end), `AllOrNothing`, `PromisedMaterialExists` (orders not reported short can all be served),
`AcceptedShiftsNeverCollide` (what `validateShifts` accepts never runs at the same time), `PageNeverOverpromises` (the capacity pages
against the engine's windows), `OnTrackKeepsDueDate` (an order reported on track ends, with its new, fixed and overrunning work, before a working day before its due date, and is short of nothing; without a place it is due after the horizon).

**`stock_ledger`**: `ImplementsBook`, `StockNeverNegative`, `LedgerExplainsStock`, `HistoryKept`, `MovementsFinish`.

**`order_intake`**: `SequenceCoversOrders` (the sequence is never behind a number it gave out), `ReservedNumbersAreFree`
(nobody takes a reserved number of six digits before it is inserted), `OrdersComeWithBatch` (a PENDING batch has no orders),
`DeadlocksNeedTwoImports` (of requests with at most one import, one waits for none of the others).

**`suggestions`**: `ResolvedOnce` (a final status stays, whatever claims and page loads are under way), `EffectsByWinners` (only the one session that
has claimed a suggestion changes the plan for it), `AuditTellsOutcome` (the audit trail has its end at most once and right).

**`accounts`**: `AdminRemains`, `CutOffStaysOut` (a cookie that has stopped being good is never good again, on a device or on its way to one).

**`plant_data`**: `RoutingsNumbered` (no temporary number is ever committed; numbers are different positive multiples of ten), `RenumberRight`
(an edit nobody overlaps leaves the routing as asked, 10, 20, 30 ..., and those of other products as they were), `ErrorsNeedOverlap` (the handlers' checks foresee every error of the
database, except planned work of a deleted machine or work center), `CalendarsUsable` (shifts that do not overlap, at least one, an active
default).

What overlapping edits of master data can leave is in the model and excepted from its properties by `overlapped` and `raced`: a gap in the
numbers or a lost move (the next edit repairs the numbers), a calendar without a shift or with two that overlap, an inactive
or missing default calendar. `docs/M1_SPEC.md` (calendars) promises at least one shift and no overlap without exception; `CalendarsUsable` without its
exception is refuted by two removals of a calendar's last two shifts. Some behaviours of the other modules are reachable, too, and are no run's subject: an order released after a hold cannot be rolled up from QUEUED and stays open after its last operation; an adjustment
computes its difference from a read before the lock; a hold overwrites a start that committed between its read and its write; a plant edit that
commits between a run's load and its clearing of marks is forgotten; an older answer of another tab may overwrite a renewed cookie, so that a
device is signed out; a machine can be moved to another work center than that of the steps that pin it.

### Bounds, and why they suffice

* `MCProductionFlow`: one order, two products with routings of three and two steps:
  no handler but a run touches two orders, and a run treats the orders independently as far as the model sees them
  (machines and stock are the engine's choice). Three steps give a first, a middle and a last one; two products
  let the product of a released order change under rows of the old routing. The state space has no bound and is
  exhausted.
* `MCFloorTransactions`: three sessions, two steps, six starting scenes
  that the sequential handlers produce, three calls of which up to two are runs and one is a plant edit; every race of
  two handlers, and of two with a third between, is in it.
* `MCSchedulingEngine`: days of six minutes and weeks of three days, so that shifts over midnight and over the week's end, breaks,
  working and non-working exceptions, clock changes in both directions and downtime all meet within three days. One family
  of plants varies the calendar (every accepted set of one or two shifts of a grid), one the fixed work, downtime, exceptions and the clock, one the orders
  (priority, quantity, routing, completed steps, earliest start, due date, machine status, materials), one the due date of an order against the end of a step fixed before. Three machines in two work centers, of different
  efficiency, give ties and detours; up to three orders compete.
* `MCStockLedger`: one material (movements of different materials touch different rows), two
  sessions, amounts 0..2, stock at most 3, at most two movements asked for beyond what the ledger holds: enough
  for two issues that only one of the balance covers, for an adjustment with a movement in its gap, for the column's
  limit and for a delete against a movement.
* `MCOrderIntake`: three
  sessions, four requests, the numbers 1 and 2 for the sequence alone (each may have been seeded, so a reservation may skip both), 3 and 4
  to type or to reach by the sequence, two attempts and rounds instead of five, a file with both kinds of rows and one with typed numbers only:
  enough for a reservation to run out of rounds, for a number to be typed between the check and the insert, for retries of both
  paths, for two commits of one batch and a discard beside them, and for imports that wait for each other's rows.
* `MCSuggestions`: one order on two machines, three ids and three rows of suggestions, two sessions, three requests and one change by others: enough
  for a page load to replace a suggestion another session is applying, for two claims of one row, for a run that replaces the entry a suggestion is about,
  and for a machine that goes away between the claim and the move.
* `MCAccounts`: two administrators on two devices, a free email and a free slug, one request of each device at a time, three requests: enough for mutual demotions and deactivations,
  a renewal under way during a revocation, and a reactivation after it.
* `MCPlantData`: a product with three steps and an id for a fourth, another product with one step (so that an edit of one routing has another to spoil), two work centers, two machines, two calendars with up to three shifts, an order and planned work to come; two sessions, three requests;
  six scenes, each of which confines a behaviour to the operations of one concern that can meet on the same rows.

The refuting runs need two calls only, `priority_only_raised` three. Deadlock checking is
off where the system may stop: `production_flow` (a behaviour may end with everything CANCELLED), `scheduling_engine` (the engine ends), and the
runs with a bounded number of requests. Symmetry is used for safety properties only.

### Fairness

One specification has any, `StockLedger` (`FairSpec`): weak fairness of the read and the commit (the server goes on with
a request it is executing) and strong fairness of the two statements that wait for a row lock (PostgreSQL queues the
waiters of a row, so one cannot be passed over for ever). No fairness is assumed of users, of rollbacks or of new
requests. The other modules state no liveness: transactions that wait for each other are ended by a rollback the
model does not force, and the loops of the engine run over finite arrays.

## 4. Proofs

`ProductionFlowProofs` proves every property of `production_flow` for any sets of orders, products and sequence numbers
and any routing, from the module's assumptions and `FloorActionsOnly` (callers of the floor handler ask for
IN_PROGRESS, ON_HOLD and COMPLETED only). The assumption is needed: with SKIPPED or QUEUED as a target a started or
locked row can become one that is neither fixed nor replaced. The inductive invariant `IInv` is `TypeOK` with
`Rows` (what combinations of status, stamps and hold marker a row can have, the reason why the two predicates of a run cover
every row), `OrderStamps`, `HoldFreezesWork`, `NoSilentGap` and `RunsNeverCollide`; `NoSilentGap` alone is not
inductive because whether a run's step has a row depends on what its deleteMany kept. There is one lemma per action
and the row operators of `ScheduleRows` have lemmas of their own. The two action properties follow from `IInv`.

`FloorTransactionsProofs` proves every property of `floor_transactions` for any routing, any number of sessions and any requests, calls and runs, from committed rows
as `ProductionFlow` leaves them (`ScenesAssumption`: the actual start is there where the status needs one, and an order that is planned and not marked has all its rows; both follow from invariants
that `ProductionFlowProofs` proves). The argument is rely / guarantee. `SessionOK(p)` says what a session knows at each statement: which call
it is carrying out (`CallFits`), where it may have written rows (`WritesFit`), that it writes no start and no lock away (`StartsKept`), and what a floor transition, a status change
and a run know of the rows they have read (`FloorOK`, `StatusOK`, `RunOK`). `Rely(q)` says what the step of another session may do to the committed rows `q` depends on: rows
`q` has written stay as they are, starts and locks stay, the planner's board keeps its rows, and a changed status of the order leaves `q` overlapped. `Guarantee` shows
that every step grants `Rely` to all others, `RelySuffices` that `Rely` keeps `SessionOK`; the rest is about one session at a time. `IInv` adds `OneWriter` (no row is written by two open transactions),
`RowsFit` and `GapsAnnounced`, which is not inductive alone: whether a commit leaves a gap depends on what the run knew of the rows it had not to move, and they stay because `IsFixedEntry` rows have
a start or a lock that nobody takes away. `NoOtherDeadlock` needs no induction on the length of a circle: in a group without a status change, who has written the order waits for nobody but, about to resolve
the conflicts, for a run that has (`ResolverKinds`: only runs and completions resolve any), which is the exception; so nobody waits for the order's row, a floor transition that has written an operation waits for that row only, and the planner for these. The action properties follow from `IInv` because only a commit changes rows of operations.

`SchedulingEngineProofs` proves every safety property of `scheduling_engine` for every well-formed plant, whatever its calendars, downtime, fixed work and orders. `WellFormed` says what
the database can hold and no more: numbers are natural where the schema and the forms have them (`quantityField` of `validation/products.ts` for quantities, `StockLedger` for stock), orders and fixed entries are finitely many,
times of a shift are minutes of a day (`HHMM_FIELD_RE`) and the shifts of a calendar have passed `validateShifts()` (on every save of `lib/calendars`); the days of the model reach to today, and fixed work may overlap itself.
* *Booking and sequence.* `IInv` adds to `TypeOK` that `occupied` covers fixed and committed work (`EntriesOK`) and is bounded (`TakenOK`), that free windows lie apart from it and from each other (`FreeOK`),
  what an order in the making has (`JobOK`, `PlannedOK`), that the best placement so far lies clear of its machine's work (`BestOK`), and the heart of it, `ScanOK`: what `placeWork` knows between two windows, that nothing
  lies between its start and the end of the last window used. That is not inductive without the restart: where a job lies in the gap to the next window the start moves behind it.
* *All or nothing.* `SettledOK` follows each order through the loops: it waits, or is the one in the making with all remaining steps planned or to do, or is settled.
* *Work held, earliest finish.* `PlaceInv` compares with a reference definition over sets of minutes. `RoomOK`: the free windows of a machine are its working minutes less what is occupied. `FillOK`: the minutes still needed are the
  need less the working minutes between start and the end of the last window. `AheadOK`: whatever the machine offers starts no earlier and ends later than the one being built, which needs that a restart only gives up starts from which the job in the gap cannot
  be avoided. `SearchOK`: every machine already compared is beaten by the best. `HeldOK`: what was found stays true of planned steps and entries.
* *Shifts.* Minutes of the week that do not collide give dates and times that do not (`InstancesApart`): two instances that share a minute share it modulo the week, in the cut and wrapped intervals of `validateShifts()`.
* *Materials and the page.* `MaterialsOK` says of the running balances that the stock covers what was served so far plus what is left. Folds over sets cannot be unfolded by induction on a set with the operator
  form; the sums are handled by a function that satisfies the fold's equation: such a function exists (a smallest size for which there were none would not be the smallest) and is unique (`SumExists`, `SumUnique`), and the sum over a set with one element more
  follows (`TotalTake`). `TotalOfParts` compares the minutes per shift of the page with the minutes of the day's windows.
* *Due dates.* `WindowOK` says that the window of an order with a place reaches to the end of all its new and fixed work (`WindowHolds`) and that the results are the risks of those windows; `OnTrackMeans` is what `classifyRisk()` has ruled out when it says ON_TRACK.

`StockLedgerProofs` proves for any number of materials and sessions and any limits that `StockLedger` refines
`StockBook` (`Refinement`) and its invariants (`TypeCorrect`, `NeverNegative`, `LedgerAddsUp`, `NoOrphanedHistory`).
The invariant adds to `TypeOK` what a session knows at each statement (`SessionOK`), that the row lock
belongs to exactly the session that has updated and not committed (`LockOK`), and that its uncommitted balance is the committed
stock plus its delta (`BookOK`); the lock is why no other movement can come between UPDATE and commit.

`OrderIntakeProofs` proves all invariants of `order_intake` for any number of sessions, any files, seeds and limits (from the assumptions
of the module: seeded numbers have six digits, typed ones do not). Here `IInv` adds to `TypeOK`: reserved or inserted numbers of the sequence
belong to the session that holds the tenant row and are at most its uncommitted `orderSeq` (`FreeOK`, `InsertedOK`, `LocksOK`), an import commits with
its batch's row locked (`StepOK`), whoever holds a batch's row is about to commit, and a form has one row to insert (`FormOK`).
`OthersKept` shows once that a step of one session keeps what is known of another, `LocalStep` handles the steps that touch neither rows nor
locks. `FormsDoNotDeadlock` follows from `IInv` without induction on the length of a cycle: if everybody in a group waits for somebody in it, a holder of
a batch's row cannot be in it, two sessions that wait at an insert would be two imports, and the rest would wait for one tenant row whose holder is among them.

`SuggestionsProofs` proves all three properties of `suggestions` for any plant, any number of sessions and any limits. `IInv` says what a session that has claimed a row may
rely on (`ClaimsHold`: the row has the status it wrote, nobody else has claimed it, no audit row exists yet), that rows a generation has locked are PENDING until it ends
(`LocksArePending`), that audit rows tell the status (`AuditFits`), and what the local variables say at each statement (`LocalsFit`).

`AccountsProofs` proves both properties of `accounts` for any tenants, users, devices and requests, from the assumption that every tenant begins with an active administrator. `AdminRemains` needs more than
the tenant lock: requests about oneself write without it, so `IInv` says that they keep role and activity (`WriteOK`), that two transactions never write one user
(`RowsApart`), and that users stay in their tenant. For `CutOffStaysOut` it says that no cookie, on a device or under way, is newer than its user.

`PlantDataProofs` proves `RoutingsNumbered`, `RenumberRight`, `CalendarsUsable` and `ErrorsNeedOverlap` for any tables, sessions and requests.
* *Routings*, from finite tables whose routings are numbered at the beginning. It is about
  one place in the code, the two phases of `planRenumber()` inside the transactions of its callers, but it holds only because of what other transactions may not do. `IInv` adds to `TypeOK`
  that no row is written by two open transactions (`Locks`); that steps of a product have different numbers in every transaction's view (`UniqueIn`) and across what
  two of them have written (`Cross`), which is what the waiting at the unique index is for and why a commit keeps the numbers different for everybody else; that committed numbers are final
  (`FinalIn`); that `renumberOperations()` is the last statement of its transaction (`RenumbersLast`); and that a temporary number, written or still to be
  written, has a later statement that settles it (`Settled`), so that none is left at a commit.
* *Calendars*, from tables whose calendars are usable and that hold the tenant's row (`InitialCalendarsAssumption`: a calendar is created together with its first shift, at sign-up too, and its shifts have passed `validateShifts()`,
  and the foreign key of `Shift` leaves none without its calendar). `CalendarsUsable` is not inductive, it says nothing of open transactions. `CalInv` says of each of them what the tables would be like after its remaining statements
  (`Outcome`): sound for the calendars it is about, as long as nobody who was about the same calendar has committed since it began (`Leaves`). What others commit meanwhile cannot matter: a transaction writes rows of the calendars
  it is about only (`Confined`), so a commit leaves the rows of all others alike (`Alike`), but perhaps for the default, which it can only move away from them, and views that are alike stay so under the same statement
  (`AlikeExecuted`). A shift's row says which calendar it belongs to, so it must not come into being unseen: nobody else remembers the id of a shift that is being created (`NewShifts`).

* *Errors*, from tables that satisfy the foreign keys (`InitialReferencesAssumption`, the relations of `prisma/schema.prisma`). Two invariants are needed. `RefInv`: a session sees no row without the rows it refers to, and nobody has deleted
  what a row that another open transaction has written refers to (`Kept`), so that a row written back as it was read, such as the tenant's default calendar in `updateTenantSettings()`, still finds what it names. `ErrInv`: as long as nobody has
  overlapped a transaction, the statements left to it go through one after the other in its own view (`Smooth`), or it is about to delete a machine or a work center that only planned work can keep (`Wants`). For a renumbering this is where the two phases matter:
  negative numbers are free because all numbers were positive when the routing was read, and a final number is free because whoever has it has a negative number by then; both need that the plan names every step of the routing
  (`Renumbers`), which follows from its being one-to-one on as many places.
* *Renumbering*: `RenumberRight` is about a commit, and the order it leaves was decided when the routing was read, several statements before. `RenInv` follows a transaction that changes a routing, as long as nobody has overlapped it,
  through what can have happened so far: it is as its handler made it (`Opens`); it has added its step behind all others or removed it, and differs from the tables in that step only (`Added`, `Removed`); or it has its plan (`Arranges`): there
  is an order of the steps it sees, the one wanted of the order before, and each step has its number in it or a statement that gives it, the last one about that step (`Ends`). At a commit no statement is left, so the numbers are 10, 20, 30 ... in that order. That
  this is *the* routing, which `Routings` says by a set and `Routing` by a `CHOOSE`, needs that steps with different numbers have one rising order (`RisingUnique`: at the first place where two orders differ, each would have
  the other's step further on, with a larger number; the first place is there because the natural numbers are well-founded). What a removed, an added and a moved step make of the order is in `RemovedOne`, `AddedLast` and `MovedOne`.

Model-checked only: liveness (`MovementsFinish`: fairness and ENABLED are out of the prover's reach) and the refutations.

## 5. Where documents and code disagree

1. `RollUpCoversRouting`: `docs/M2_SPEC.md` section 4 lets an order complete when all its steps are COMPLETED or SKIPPED.
   The code looks at the rows that exist. A run that cannot place an order deletes the rows of its later steps first;
   completing the rest completes the order.
2. `OrderFollowsStateMachine`: `docs/ARCHITECTURE.md` calls status transitions a fixed state machine; two concurrent
   changes that read the same status can write, for instance, CANCELLED over COMPLETED.
3. `ImportedOnce`: `assertCommittable` in `import.ts` refuses a committed batch with "This file has already been imported." The
   status is read before the transaction and never again; of two commits of one preview both insert the rows without a number
   (typed numbers are caught by the re-validation or the unique index).
4. `PriorityOnlyRaised`: `optimization/apply.ts` audits an applied suggestion as "priority raised to". It is re-verified by order and kind only, so an order that
   somebody has made more urgent in between is lowered.

## 6. Not modelled

* **Pages, server action plumbing, seeds** are the larger part of the repository's lines: user interface, form parsing, formatting and demo
  data. They keep no state of their own beyond what the handlers above write.
* **Queries** (lists, dashboards, analytics, capacity pages beyond `AvailableMinutes`, export) only read.
* **Notifications, e-mail, audit log** are rows that no handler reads back, except the audit rows of suggestions, which `Suggestions` has.
* **Tenant scoping** (`db.ts`) adds `tenantId` to every query; one tenant is modelled everywhere but in `Accounts`, so it is the identity.
* **Customers**: plain rows; their names are unique regardless of case by lookup only, so two requests at once can create both spellings.
* **Parts of modelled components**: bills of material and SKUs in `PlantData`, edits of calendar exceptions and of downtime (the engine has them as
  input), codes and units of materials, row validation of imports beyond numbers, `updateOrder`'s change of a number, login and sign-up rate limits, password hashes, manual moves in `FloorTransactions` (they are in `ProductionFlow` and, with their statements, in `Suggestions`).
* **Locks of several orders**: `FloorTransactions` has one order. Statements that write the rows of many (`markScheduleDirty({ all: true })` at `dirty.ts:18`, the orders on hold at `run.ts:428`) lock them in the database's order, a run one
  by one in the order it loaded them; circles of waits over two orders are possible and not in the model. PostgreSQL breaks them.
* **References that nothing depends on**: deleting a routing step sets `ScheduleEntry.operationId` to null (`schema.prisma:622`); `PlantTables` leaves the column out, since no handler of `PlantData` reads it and no error can come of it.
* **Risk between runs**: `reassessOrderRisk` computes the risk from the rows there are. For an order that a run could not place, whose started rows are left, a floor update may write ON_TRACK until the next run; `FloorTransactions` has only that it writes.
* **Re-issued cookies of the actor**: `reissueSessionFor` (`session.ts:112`) reads the `tokenVersion` after the actor's own commit, so it may be one that another's change has raised in between. `CutOffStaysOut` is about cookies that were once cut off and says nothing of one issued later.
* **Texts**: names, reasons and messages are left out everywhere.
