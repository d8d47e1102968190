------------------------ MODULE SchedulingEngineProofs ------------------------
(***************************************************************************)
(* For every plant: no machine is booked twice; an order is planned whole, *)
(* in sequence, on entries that hold its work, at the earliest finish; an  *)
(* order on track keeps its due date; the stock promised is there, and the *)
(* page has room for what it shows.                                        *)
(***************************************************************************)
EXTENDS SchedulingEngine, WellFoundedInduction, FiniteSetTheorems, TLAPS

(***************************************************************************)
(* Numbers.                                                                *)
(***************************************************************************)

\* A set of natural numbers has a least element.
LEMMA Least ==
    ASSUME NEW S \in SUBSET Nat, S # {}
    PROVE  \E x \in S : \A y \in S : x <= y
<1> DEFINE R == OpToRel(<, Nat)
<1>1. IsWellFoundedOn(R, Nat)
  BY NatLessThanWellFounded
<1>2. PICK x \in S : \A y \in S : <<y, x>> \notin R
  <2> HIDE DEF R
  <2> QED BY <1>1, WFMin
<1>3. R = {ss \in Nat \X Nat : ss[1] < ss[2]}
  BY DEF OpToRel
<1>4. ASSUME NEW y \in S PROVE x <= y
  <2>1. <<y, x>> \in Nat \X Nat
    OBVIOUS
  <2>2. ~(y < x)
    <3> HIDE DEF R
    <3> QED BY <2>1, <1>2, <1>3
  <2> QED BY <2>2
<1> QED BY <1>4

\* So has a set of integers with a lower bound.
LEMMA LeastAbove ==
    ASSUME NEW S \in SUBSET Int, S # {}, NEW a \in Int, \A x \in S : a <= x
    PROVE  \E x \in S : \A y \in S : x <= y
<1> DEFINE T == {x - a : x \in S}
<1>1. T \in SUBSET Nat /\ T # {}
  <2>1. \A x \in S : x - a \in Nat
    OBVIOUS
  <2> QED BY <2>1
<1>2. PICK n \in T : \A k \in T : n <= k
  <2> HIDE DEF T
  <2> QED BY <1>1, Least
<1>3. PICK x \in S : n = x - a
  OBVIOUS
<1>4. ASSUME NEW y \in S PROVE x <= y
  <2>1. x - a <= y - a
    BY <1>2, <1>3
  <2> QED BY <2>1
<1> QED BY <1>4

\* What Min returns.
LEMMA MinOf ==
    ASSUME NEW S \in SUBSET Nat, S # {}
    PROVE  Min(S) \in S /\ \A y \in S : Min(S) <= y
<1>1. \E x \in S : \A y \in S : x <= y
  BY Least
<1> QED BY <1>1 DEF Min

\* A finite set of natural numbers has an upper bound.
LEMMA Bounded ==
    ASSUME NEW S \in SUBSET Nat, IsFiniteSet(S)
    PROVE  \E b \in Nat : \A x \in S : x <= b
<1> DEFINE n == Cardinality(S)
<1>1. n \in Nat /\ ExistsBijection(1 .. n, S)
  BY FS_CardinalityType
<1>2. PICK f : f \in Bijection(1 .. n, S)
  BY <1>1 DEF ExistsBijection
<1>3. f \in [1 .. n -> S] /\ \A x \in S : \E i \in 1 .. n : f[i] = x
  BY <1>2 DEF Bijection, Injection, Surjection
<1> DEFINE Ok(k) == \E b \in Nat : \A i \in 1 .. k : f[i] <= b
           Bad == {k \in 0 .. n : ~Ok(k)}
<1>4. Bad = {}
  <2> SUFFICES ASSUME Bad # {} PROVE FALSE
    OBVIOUS
  <2>1. Bad \in SUBSET Nat
    BY <1>1
  <2>2. PICK k \in Bad : \A j \in Bad : k <= j
    <3> HIDE DEF Bad
    <3> QED BY <2>1, Least
  <2>3. Ok(0)
    <3>1. \A i \in 1 .. 0 : f[i] <= 0
      OBVIOUS
    <3> QED BY <3>1
  <2>4. k \in 1 .. n /\ k - 1 \in 0 .. n /\ k - 1 \notin Bad
    <3> HIDE DEF Ok
    <3> QED BY <1>1, <2>2, <2>3
  <2>5. Ok(k - 1)
    <3> HIDE DEF Ok
    <3> QED BY <2>4
  <2>6. PICK b \in Nat : \A i \in 1 .. (k - 1) : f[i] <= b
    BY <2>5
  <2>7. f[k] \in Nat
    BY <1>3, <2>4
  <2> DEFINE c == b + f[k]
  <2>8. c \in Nat /\ b <= c /\ f[k] <= c
    BY <2>7
  <2>9. ASSUME NEW i \in 1 .. k PROVE f[i] <= c
    <3>1. CASE i = k
      BY <2>8, <3>1
    <3>2. CASE i # k
      <4>1. i \in 1 .. (k - 1) /\ i \in 1 .. n
        BY <1>1, <2>4, <3>2
      <4>2. f[i] \in Nat /\ f[i] <= b
        BY <1>3, <2>6, <4>1
      <4> QED BY <2>7, <4>2
    <3> QED BY <3>1, <3>2
  <2>10. Ok(k)
    <3> HIDE DEF c
    <3> QED BY <2>8, <2>9
  <2> QED
    <3> HIDE DEF Ok
    <3> QED BY <2>2, <2>10
<1>5. Ok(n)
  <2> HIDE DEF Ok
  <2> QED BY <1>1, <1>4
<1>6. PICK b \in Nat : \A i \in 1 .. n : f[i] <= b
  BY <1>5
<1> QED BY <1>3, <1>6

\* What Max returns of a set with an upper bound ...
LEMMA MaxBelow ==
    ASSUME NEW S \in SUBSET Nat, S # {}, NEW a \in Nat, \A x \in S : x <= a
    PROVE  Max(S) \in S /\ \A y \in S : y <= Max(S)
<1> DEFINE U == {b \in Nat : \A x \in S : x <= b}
<1>1. U # {} /\ U \in SUBSET Nat
  OBVIOUS
<1>2. PICK b \in U : \A c \in U : b <= c
  <2> HIDE DEF U
  <2> QED BY <1>1, Least
<1>3. b \in S
  <2> SUFFICES ASSUME b \notin S PROVE FALSE
    OBVIOUS
  <2>1. b \in Nat /\ \A x \in S : x < b
    BY <1>2
  <2>2. b # 0
    <3>1. PICK x \in S : TRUE
      OBVIOUS
    <3> QED BY <2>1, <3>1
  <2>3. b - 1 \in U
    BY <2>1, <2>2
  <2> QED BY <1>2, <2>1, <2>3
<1>4. \E x \in S : \A y \in S : x >= y
  BY <1>2, <1>3
<1> QED BY <1>4 DEF Max

\* ... and of a finite one.
LEMMA MaxOf ==
    ASSUME NEW S \in SUBSET Nat, S # {}, IsFiniteSet(S)
    PROVE  Max(S) \in S /\ \A y \in S : y <= Max(S)
<1>1. PICK b \in Nat : \A x \in S : x <= b
  BY Bounded
<1> QED BY <1>1, MaxBelow

(***************************************************************************)
(* Intervals.                                                              *)
(***************************************************************************)

\* The minutes of a set of intervals.
LEMMA InMinutes ==
    ASSUME NEW I, NEW t
    PROVE  t \in Minutes(I) <=> \E i \in I : t \in i.s .. (i.e - 1)
BY DEF Minutes

\* IntervalsOf() returns proper intervals made of the given minutes.
LEMMA IntervalsProper ==
    ASSUME NEW M \in SUBSET Int, NEW i \in IntervalsOf(M)
    PROVE  /\ i \in Interval
           /\ i.s < i.e
           /\ i.s .. (i.e - 1) \subseteq M
           /\ i.s - 1 \notin M /\ i.e \notin M
<1> DEFINE A == {t \in M : t - 1 \notin M}
           B == {t + 1 : t \in M} \ M
<1>1. i \in [s : A, e : B]
  BY DEF IntervalsOf
<1>2. i.s \in Int /\ i.s - 1 \notin M /\ i.e \in Int /\ i.e \notin M
  <2>1. i.s \in A /\ i.e \in B
    <3> HIDE DEF A, B
    <3> QED BY <1>1
  <2>2. i.s \in M /\ i.s - 1 \notin M /\ i.e \notin M
    BY <2>1
  <2>3. PICK t \in M : i.e = t + 1
    BY <2>1
  <2> HIDE DEF A, B
  <2>4. \A u \in M : u \in Int /\ u + 1 \in Int
    OBVIOUS
  <2>5. i.s \in Int
    BY <2>2, <2>4
  <2>6. i.e \in Int
    BY <2>3, <2>4
  <2> QED BY <2>2, <2>5, <2>6
<1>3. i = [s |-> i.s, e |-> i.e]
  <2> HIDE DEF A, B
  <2> QED BY <1>1
<1>4. i.s < i.e /\ i.s .. (i.e - 1) \subseteq M
  BY DEF IntervalsOf
<1> QED BY <1>2, <1>3, <1>4 DEF Interval

\* They do not overlap.
LEMMA IntervalsApart ==
    ASSUME NEW M \in SUBSET Int, NEW i \in IntervalsOf(M), NEW j \in IntervalsOf(M), i # j
    PROVE  i.e <= j.s \/ j.e <= i.s
<1>1. /\ i \in Interval /\ i.s < i.e /\ i.s - 1 \notin M /\ i.e \notin M
      /\ j \in Interval /\ j.s < j.e /\ j.s - 1 \notin M /\ j.e \notin M
      /\ \A t \in Int : i.s <= t /\ t < i.e => t \in M
      /\ \A t \in Int : j.s <= t /\ t < j.e => t \in M
  BY IntervalsProper DEF Interval
<1> SUFFICES ASSUME j.s < i.e, i.s < j.e PROVE FALSE
  BY <1>1 DEF Interval
<1>2. i.s = j.s
  BY <1>1 DEF Interval
<1>3. i.e = j.e
  BY <1>1, <1>2 DEF Interval
<1> QED BY <1>1, <1>2, <1>3 DEF Interval

\* Together they are all of the given minutes.
LEMMA AllCovered ==
    ASSUME NEW M \in SUBSET Int, NEW a \in Int, NEW b \in Int, \A t \in M : a <= t /\ t <= b
    PROVE  Minutes(IntervalsOf(M)) = M
<1>1. ASSUME NEW t \in Minutes(IntervalsOf(M)) PROVE t \in M
  BY InMinutes, IntervalsProper
<1>2. ASSUME NEW t \in M PROVE t \in Minutes(IntervalsOf(M))
  <2> DEFINE A == {n \in a .. t : \A k \in n .. t : k \in M}
             B == {n \in a .. b + 1 : n > t /\ n \notin M}
  <2>1. t \in A /\ b + 1 \in B
    OBVIOUS
  <2>2. PICK s \in A : \A n \in A : s <= n
    <3>1. A \in SUBSET Int /\ A # {} /\ \A n \in A : a <= n
      BY <2>1
    <3> HIDE DEF A
    <3> QED BY <3>1, LeastAbove
  <2>3. PICK e \in B : \A n \in B : e <= n
    <3>1. B \in SUBSET Int /\ B # {} /\ \A n \in B : a <= n
      BY <2>1
    <3> HIDE DEF B
    <3> QED BY <3>1, LeastAbove
  <2>4. s \in M /\ s - 1 \notin M
    <3> SUFFICES ASSUME s - 1 \in M PROVE FALSE
      OBVIOUS
    <3>1. s - 1 \in A
      OBVIOUS
    <3> QED BY <2>2, <3>1
  <2>5. \A k \in s .. (e - 1) : k \in M
    BY <2>2, <2>3
  <2>6. s < e /\ e - 1 \in M
    BY <2>2, <2>3, <2>5
  <2>7. [s |-> s, e |-> e] \in IntervalsOf(M)
    <3>1. s \in {u \in M : u - 1 \notin M}
      BY <2>4
    <3>2. e \in {u + 1 : u \in M} \ M
      BY <2>3, <2>6
    <3> QED BY <2>5, <2>6, <3>1, <3>2 DEF IntervalsOf
  <2> QED BY <2>7, InMinutes
<1> QED BY <1>1, <1>2

LEMMA IntervalsCover ==
    ASSUME NEW M \in SUBSET Nat, NEW b \in Nat, \A t \in M : t <= b
    PROVE  Minutes(IntervalsOf(M)) = M
<1>1. M \in SUBSET Int /\ b \in Int /\ \A t \in M : 0 <= t
  OBVIOUS
<1> PICK a \in Int : \A t \in M : a <= t
  BY <1>1
<1> QED BY <1>1, AllCovered

\* What is left after a subtraction lies in what was there, clear of what was
\* taken out, and still in pieces that do not overlap.
LEMMA Subtracted ==
    ASSUME NEW F \in SUBSET Interval, NEW busy \in Interval,
           \A w \in F : w.s < w.e,
           \A v, w \in F : v # w => v.e <= w.s \/ w.e <= v.s
    PROVE  LET G == SubtractInterval(F, busy)
           IN  /\ G \in SUBSET Interval
               /\ \A p \in G : /\ p.s < p.e
                               /\ \E w \in F : w.s <= p.s /\ p.e <= w.e
                               /\ busy.e <= busy.s \/ busy.e <= p.s \/ p.e <= busy.s
               /\ \A p, q \in G : p # q => p.e <= q.s \/ q.e <= p.s
<1> DEFINE G == SubtractInterval(F, busy)
<1>1. CASE busy.e <= busy.s
  <2>1. G = F
    BY <1>1 DEF SubtractInterval
  <2> QED BY <1>1, <2>1 DEF Interval
<1>2. CASE busy.s < busy.e
  <2>1. \A p : p \in G <=> \E w \in F : p \in Pieces(w, busy)
    BY <1>2 DEF SubtractInterval, Interval
  <2>2. ASSUME NEW w \in F, NEW p \in Pieces(w, busy)
        PROVE  /\ p \in Interval
               /\ p.s < p.e /\ w.s <= p.s /\ p.e <= w.e
               /\ busy.e <= p.s \/ p.e <= busy.s
    BY <1>2 DEF Pieces, Interval
  <2>3. ASSUME NEW w \in F, NEW p \in Pieces(w, busy), NEW q \in Pieces(w, busy), p # q
        PROVE  p.e <= q.s \/ q.e <= p.s
    <3> DEFINE L == [s |-> w.s, e |-> busy.s]
               R == [s |-> busy.e, e |-> w.e]
    <3>1. p \in {L, R} /\ q \in {L, R}
      BY <2>3 DEF Pieces
    <3>2. L.e <= R.s
      BY <1>2 DEF Interval
    <3> QED BY <2>3, <3>1, <3>2
  <2>4. ASSUME NEW p \in G, NEW q \in G, p # q PROVE p.e <= q.s \/ q.e <= p.s
    <3>1. PICK v \in F : p \in Pieces(v, busy)
      BY <2>1
    <3>2. PICK w \in F : q \in Pieces(w, busy)
      BY <2>1
    <3>3. CASE v = w
      BY <2>3, <2>4, <3>1, <3>2, <3>3
    <3>4. CASE v # w
      <4>1. v.e <= w.s \/ w.e <= v.s
        BY <3>4
      <4>2. /\ p \in Interval /\ v.s <= p.s /\ p.e <= v.e
            /\ q \in Interval /\ w.s <= q.s /\ q.e <= w.e
            /\ v \in Interval /\ w \in Interval
        BY <2>2, <3>1, <3>2
      <4> QED BY <4>1, <4>2 DEF Interval
    <3> QED BY <3>3, <3>4
  <2>5. G \in SUBSET Interval
    BY <2>1, <2>2
  <2>6. \A p \in G : /\ p.s < p.e
                     /\ \E w \in F : w.s <= p.s /\ p.e <= w.e
                     /\ busy.e <= p.s \/ p.e <= busy.s
    BY <2>1, <2>2
  <2> QED BY <2>4, <2>5, <2>6
<1> QED BY <1>1, <1>2 DEF Interval

\* Normalising adds the minutes of the new interval and no others.
LEMMA Normalized ==
    ASSUME NEW I, NEW s \in Nat, NEW e \in Nat, NEW b \in Nat,
           Minutes(I) \subseteq Nat, \A t \in Minutes(I) : t <= b
    PROVE  LET J == NormalizeIntervals(I \cup {[s |-> s, e |-> e]})
           IN  /\ J \in SUBSET Interval
               /\ Minutes(J) = Minutes(I) \cup (s .. (e - 1))
               /\ \E c \in Nat : \A t \in Minutes(J) : t <= c
<1> DEFINE K == I \cup {[s |-> s, e |-> e]}
           M == Minutes(I) \cup (s .. (e - 1))
           c == IF b >= e THEN b ELSE e
<1>1. Minutes(K) = M
  <2>1. \A t : t \in Minutes(K) <=> \E i \in K : t \in i.s .. (i.e - 1)
    BY InMinutes
  <2>2. \A t : t \in Minutes(I) <=> \E i \in I : t \in i.s .. (i.e - 1)
    BY InMinutes
  <2>3. \A t : t \in Minutes(K) <=> t \in Minutes(I) \/ t \in s .. (e - 1)
    <3> DEFINE new == [s |-> s, e |-> e]
    <3>1. new.s = s /\ new.e = e /\ \A i : i \in K <=> i \in I \/ i = new
      OBVIOUS
    <3> HIDE DEF new, K
    <3> QED BY <2>1, <2>2, <3>1
  <2> QED BY <2>3
<1>2. M \in SUBSET Nat /\ c \in Nat /\ \A t \in M : t <= c
  OBVIOUS
<1>3. Minutes(IntervalsOf(M)) = M
  <2> HIDE DEF M, c
  <2> QED BY <1>2, IntervalsCover
<1>4. IntervalsOf(M) \in SUBSET Interval
  <2> HIDE DEF M
  <2> QED BY <1>2, IntervalsProper
<1> QED BY <1>1, <1>2, <1>3, <1>4 DEF NormalizeIntervals

(***************************************************************************)
(* The inductive invariant.  The minutes that fixed and placed work takes  *)
(* on a machine are never free; a placement under way, the best one found, *)
(* and the steps planned for the order at hand keep clear of them and of   *)
(* each other.                                                             *)
(***************************************************************************)
Taken(m) == Minutes(occupied[m])
Clear(m, s, e) == \A t \in Taken(m) : t < s \/ e <= t

Placing == {"steps", "machines", "windows"}
WithJob == Placing \cup {"commit"}

TakenOK ==
    \A m \in Machines : Taken(m) \subseteq Nat /\ \E b \in Nat : \A t \in Taken(m) : t <= b

FreeOK ==
    \A m \in Machines :
        /\ \A w \in free[m] : w.s < w.e /\ Clear(m, w.s, w.e)
        /\ \A v, w \in free[m] : v # w => v.e <= w.s \/ w.e <= v.s

JobOK ==
    /\ pc \in WithJob => /\ order \in Candidates
                         /\ order \notin waiting
                         /\ todo \subseteq Remaining(order)
                         /\ prevEnd \in Nat
    /\ pc \in {"machines", "windows"} =>
          /\ todo # {}
          /\ \A f \in FixedOf(order) : f.seq < Step => BusyInterval(f).e <= prevEnd

Scan == [machine : Machines, left : SUBSET Interval, earliest : Int, minutes : Nat, need : Nat,
         start : Int, prevEnd : Int]

ScanOK ==
    pc = "windows" =>
        /\ scan \in Scan
        /\ scan.left \subseteq free[scan.machine]
        /\ scan.earliest = StepEarliest
        /\ scan.start >= 0 => /\ scan.earliest <= scan.start /\ scan.start <= scan.prevEnd
                              /\ Clear(scan.machine, scan.start, scan.prevEnd)
                              /\ \A w \in scan.left : scan.prevEnd <= w.s

BestOK ==
    pc \in {"machines", "windows"} /\ best # None =>
        /\ best \in [machine : Machines, start : Int, end : Int, minutes : Nat]
        /\ StepEarliest <= best.start /\ best.start <= best.end
        /\ Clear(best.machine, best.start, best.end)

\* a comes before b: in the routing and in time.
Precedes(a, b) == a.seq < b.seq /\ a.end <= b.start

PlannedOK ==
    pc \in WithJob =>
        \A p \in planned :
            /\ p.order = order
            /\ p.start \in Nat /\ p.start <= p.end /\ p.end <= prevEnd
            /\ \A n \in todo : p.seq < n
            /\ Clear(p.machine, p.start, p.end)
            /\ \A q \in planned : p # q => Precedes(p, q) \/ Precedes(q, p)
            /\ \A e \in entries : e.order = order => Precedes(e, p)
            /\ \A f \in FixedOf(order) : f.seq < p.seq => BusyInterval(f).e <= p.start

EntriesOK ==
    /\ \A e \in entries : (e.start .. (e.end - 1)) \subseteq Taken(e.machine)
    /\ \A f \in input.fixed :
          f.machine \in Machines => (BusyInterval(f).s .. (BusyInterval(f).e - 1)) \subseteq Taken(f.machine)
    /\ pc \in WithJob \cup {"locked", "orders"} => \A e \in entries : e.order \notin waiting
    /\ pc \in Placing => \A e \in entries : e.order # order

IInv ==
    /\ input \in Inputs
    /\ TypeOK
    /\ TakenOK
    /\ FreeOK
    /\ JobOK
    /\ ScanOK
    /\ BestOK
    /\ PlannedOK
    /\ EntriesOK
    /\ NoDoubleBooking
    /\ StepsInOrder

(***************************************************************************)
(* What a plant gives.                                                     *)
(***************************************************************************)

\* Everything that depends on the plant alone stays.
LEMMA InputFixed ==
    ASSUME input' = input
    PROVE  /\ Machines' = Machines /\ Orders' = Orders /\ Candidates' = Candidates /\ Entry' = Entry
           /\ Scan' = Scan
           /\ \A o : FixedOf(o)' = FixedOf(o) /\ Remaining(o)' = Remaining(o)
           /\ \A o : EarliestStart(o)' = EarliestStart(o)
           /\ \A f : BusyInterval(f)' = BusyInterval(f)
BY DEF Machines, Orders, Candidates, FixedOf, Remaining, Routing, EarliestStart, BusyInterval, Now, Entry, Scan

LEMMA MaxType ==
    ASSUME NEW a \in Int, NEW b \in Int
    PROVE  Max2(a, b) \in Int /\ Max2(a, b) >= a /\ Max2(a, b) >= b /\ Max2(a, b) \in {a, b}
BY DEF Max2

\* The rounded time is a natural number.
LEMMA NowType ==
    ASSUME input \in Inputs
    PROVE  Now \in Nat
<1>1. input.now \in Nat /\ NowRounding \in Nat \ {0}
  BY PlantAssumption DEF WellFormed
<1>2. \A a \in Nat, b \in Nat \ {0} : a \div b \in Nat
  OBVIOUS
<1>3. (input.now + NowRounding - 1) \div NowRounding \in Nat
  BY <1>1, <1>2
<1>4. \A a \in Nat, b \in Nat : a * b \in Nat
  OBVIOUS
<1> QED BY <1>1, <1>3, <1>4 DEF Now, CeilToMinutes

\* Fixed work takes proper intervals.
LEMMA BusyType ==
    ASSUME input \in Inputs, NEW f \in input.fixed
    PROVE  BusyInterval(f) \in Interval /\ BusyInterval(f).s \in Nat /\ BusyInterval(f).e \in Nat
<1>1. /\ f.plannedStart \in Nat /\ f.plannedEnd \in Nat
      /\ f.actualStart \in Nat \cup {NoTime} /\ f.actualEnd \in Nat \cup {NoTime}
  BY PlantAssumption DEF WellFormed
<1> QED BY <1>1, NowType DEF BusyInterval, Interval, Max2, Min2, NoTime

\* An order may start at some time from now on.
LEMMA EarliestType ==
    ASSUME input \in Inputs, NEW o \in Candidates
    PROVE  EarliestStart(o) \in Nat
<1>1. input.orders[o].earliest \in Int /\ input.tz.at \in Int /\ input.tz.by \in Int
  BY PlantAssumption DEF WellFormed, Candidates, Orders
<1>2. \A d \in Int : d * MinutesPerDay \in Int
  BY WeekAssumption
<1>3. StartOfDay(input.orders[o].earliest, input.tz) \in Int
  BY <1>1, <1>2 DEF StartOfDay, ZonedToUtc, Max2
<1> QED BY <1>3, NowType, MaxType DEF EarliestStart

LEMMA StepEarliestType ==
    ASSUME input \in Inputs, order \in Candidates, prevEnd \in Nat
    PROVE  StepEarliest \in Nat /\ StepEarliest >= prevEnd
<1>1. EarliestStart(order) \in Nat
  BY EarliestType
<1> QED BY <1>1 DEF StepEarliest, Max2

\* The next step is the first of those that remain.
LEMMA StepType ==
    ASSUME input \in Inputs, order \in Candidates, todo \subseteq Remaining(order), todo # {}
    PROVE  /\ Step \in todo /\ Step \in Nat /\ Step \in DOMAIN Routing(order)
           /\ \A n \in todo : n \in Nat /\ Step <= n
<1>1. Remaining(order) \subseteq DOMAIN Routing(order)
  BY DEF Remaining
<1>2. DOMAIN Routing(order) \subseteq Nat
  BY PlantAssumption DEF WellFormed, Routing, Candidates, Orders
<1> QED BY <1>1, <1>2, MinOf DEF Step

\* WithJob times are whole minutes.
LEMMA MinuteType ==
    ASSUME input \in Inputs, order \in Candidates, Step \in DOMAIN Routing(order), NEW m \in Machines
    PROVE  Minute(m) \in Int
<1> DEFINE step == Routing(order)[Step]
           quantity == input.orders[order].quantity
           efficiency == input.machines[m].efficiency
           eff == IF efficiency > 0 THEN efficiency ELSE 100
           work == (step.setup + quantity * step.run) * 1000
<1>1. step.setup \in Nat /\ step.run \in Nat /\ quantity \in Nat /\ efficiency \in Nat
  BY PlantAssumption DEF WellFormed, Routing, Candidates, Orders, Machines
<1>2. eff \in Nat \ {0}
  BY <1>1
<1>3. quantity * step.run \in Nat
  BY <1>1
<1>4. work \in Nat
  BY <1>1, <1>3
<1>5. 2 * work + eff \in Int /\ 2 * eff \in Nat \ {0}
  BY <1>2, <1>4
<1>6. (2 * work + eff) \div (2 * eff) \in Int
  <2>1. \A a \in Int, b \in Nat \ {0} : a \div b \in Int
    OBVIOUS
  <2> QED BY <1>5, <2>1
<1>7. RoundDiv(work, eff) \in Int
  BY <1>6 DEF RoundDiv
<1>8. (RoundDiv(work, eff) + 9) \div 10 \in Int
  BY <1>7
<1> QED BY <1>8 DEF Minute, StepMinutes

\* Finitely many entries end finitely often.
LEMMA FiniteEnds ==
    ASSUME NEW S, IsFiniteSet(S)
    PROVE  IsFiniteSet({BusyInterval(f).e : f \in S})
<1> DEFINE T == {BusyInterval(f).e : f \in S}
           end == [f \in S |-> BusyInterval(f).e]
<1>1. end \in Surjection(S, T)
  BY DEF Surjection
<1> QED BY <1>1, FS_Surjection

\* The end of the steps before the next one, fixed ones included.
LEMMA PrevEndType ==
    ASSUME input \in Inputs, prevEnd \in Nat
    PROVE  /\ StepPrevEnd \in Nat /\ StepPrevEnd >= prevEnd
           /\ \A f \in FixedOf(order) : f.seq < Step => BusyInterval(f).e <= StepPrevEnd
<1> DEFINE Earlier == {g \in FixedOf(order) : g.seq < Step}
           Ends == {BusyInterval(f).e : f \in Earlier}
<1>1. IsFiniteSet(Earlier)
  <2>1. IsFiniteSet(input.fixed)
    BY PlantAssumption DEF WellFormed
  <2>2. Earlier \subseteq input.fixed
    BY DEF FixedOf
  <2> QED BY <2>1, <2>2, FS_Subset
<1>2. IsFiniteSet(Ends)
  BY <1>1, FiniteEnds
<1>3. IsFiniteSet({prevEnd} \cup Ends)
  BY <1>2, FS_Singleton, FS_Union
<1>4. {prevEnd} \cup Ends \in SUBSET Nat
  BY BusyType DEF FixedOf
<1>5. /\ StepPrevEnd \in {prevEnd} \cup Ends
      /\ \A y \in {prevEnd} \cup Ends : y <= StepPrevEnd
  BY <1>3, <1>4, MaxOf DEF StepPrevEnd
<1> QED BY <1>4, <1>5

(***************************************************************************)
(* Initial state.                                                          *)
(***************************************************************************)
LEMMA InitInv == Init => IInv
<1> SUFFICES ASSUME Init PROVE IInv
  OBVIOUS
<1>0. input \in Inputs /\ pc = "locked" /\ planned = {} /\ entries = {} /\ choices = {} /\ best = None
      /\ scan = NoScan /\ order = 0 /\ todo = {} /\ prevEnd = 0 /\ waiting = Candidates
  BY DEF Init
<1> DEFINE Busy(m) == Minutes({BusyInterval(f) : f \in FixedOn(m)})
           Room(m) == Minutes(capacity[m]) \ Minutes(Reserved(m))
<1>1. ASSUME NEW m \in Machines
      PROVE  /\ Busy(m) \in SUBSET Nat
             /\ \E b \in Nat : \A t \in Busy(m) : t <= b
             /\ occupied[m] = IntervalsOf(Busy(m))
             /\ Taken(m) = Busy(m)
  <2> DEFINE S == FixedOn(m)
             Ends == {BusyInterval(f).e : f \in S}
  <2>1. \A f \in S : f \in input.fixed
    BY DEF FixedOn
  <2>2. IsFiniteSet(S)
    <3>1. IsFiniteSet(input.fixed)
      BY <1>0, PlantAssumption DEF WellFormed
    <3>2. S \subseteq input.fixed
      BY <2>1
    <3> QED BY <3>1, <3>2, FS_Subset
  <2>3. IsFiniteSet(Ends)
    BY <2>2, FiniteEnds
  <2>4. \A f \in S : BusyInterval(f).s \in Nat /\ BusyInterval(f).e \in Nat
    BY <1>0, <2>1, BusyType
  <2>5. PICK b \in Nat : \A f \in S : BusyInterval(f).e <= b
    <3>1. Ends \in SUBSET Nat
      BY <2>4
    <3>2. \E b \in Nat : \A x \in Ends : x <= b
      <4> HIDE DEF Ends
      <4> QED BY <2>3, <3>1, Bounded
    <3> QED BY <3>2
  <2>6. ASSUME NEW t \in Busy(m) PROVE t \in Nat /\ t <= b
    <3>1. PICK f \in S : t \in BusyInterval(f).s .. (BusyInterval(f).e - 1)
      BY InMinutes
    <3> QED BY <2>4, <2>5, <3>1
  <2>7. occupied[m] = IntervalsOf(Busy(m))
    BY DEF Init, Reserved, NormalizeIntervals
  <2>8. Minutes(IntervalsOf(Busy(m))) = Busy(m)
    <3>1. Busy(m) \in SUBSET Nat /\ \A t \in Busy(m) : t <= b
      BY <2>6
    <3> HIDE DEF Busy
    <3> QED BY <3>1, IntervalsCover
  <2> QED BY <2>6, <2>7, <2>8 DEF Taken
<1>2. ASSUME NEW m \in Machines
      PROVE  /\ Room(m) \in SUBSET Int
             /\ free[m] = IntervalsOf(Room(m))
             /\ \A t \in Taken(m) : t \notin Room(m)
  <2>1. Room(m) \in SUBSET Int
    BY DEF Minutes
  <2>2. free[m] = IntervalsOf(Room(m)) /\ occupied[m] = Reserved(m)
    BY DEF Init, SubtractIntervals
  <2> QED BY <2>1, <2>2 DEF Taken
<1> HIDE DEF Busy, Room
<1>3. TakenOK
  BY <1>1 DEF TakenOK
<1>4. FreeOK
  <2>1. ASSUME NEW m \in Machines, NEW w \in free[m] PROVE w.s < w.e /\ Clear(m, w.s, w.e)
    <3>1. Taken(m) \subseteq Nat
      BY <1>3 DEF TakenOK
    <3>2. w \in Interval /\ w.s < w.e /\ w.s .. (w.e - 1) \subseteq Room(m)
      BY <1>2, <2>1, IntervalsProper
    <3>3. \A t \in Taken(m) : t \notin w.s .. (w.e - 1)
      BY <1>2, <3>2
    <3> QED BY <3>1, <3>2, <3>3 DEF Clear, Interval
  <2>2. ASSUME NEW m \in Machines, NEW v \in free[m], NEW w \in free[m], v # w
        PROVE  v.e <= w.s \/ w.e <= v.s
    BY <1>2, <2>2, IntervalsApart
  <2> QED BY <2>1, <2>2 DEF FreeOK
<1>5. TypeOK
  <2>1. ASSUME NEW m \in Machines PROVE occupied[m] \in SUBSET Interval /\ free[m] \in SUBSET Interval
    <3>1. free[m] \in SUBSET Interval
      BY <1>2, IntervalsProper
    <3>2. occupied[m] \in SUBSET Interval
      <4>1. Busy(m) \in SUBSET Int /\ occupied[m] = IntervalsOf(Busy(m))
        BY <1>1
      <4> QED BY <4>1, IntervalsProper
    <3> QED BY <3>1, <3>2
  <2>2. ASSUME NEW m \in Machines PROVE Capacity(m) \in SUBSET Interval
    <3>1. Minutes(Working(m)) \ Minutes(input.downtime[m]) \in SUBSET Int
      BY DEF Minutes
    <3> QED BY <3>1, IntervalsProper DEF Capacity, SubtractIntervals
  <2>3. /\ occupied = [m \in Machines |-> occupied[m]]
        /\ free = [m \in Machines |-> free[m]]
        /\ capacity = [m \in Machines |-> Capacity(m)]
    BY DEF Init
  <2>4. /\ occupied \in [Machines -> SUBSET Interval]
        /\ free \in [Machines -> SUBSET Interval]
        /\ capacity \in [Machines -> SUBSET Interval]
    BY <2>1, <2>2, <2>3
  <2> QED BY <1>0, <2>4 DEF TypeOK
<1>6. EntriesOK
  <2>1. ASSUME NEW f \in input.fixed, f.machine \in Machines
        PROVE  (BusyInterval(f).s .. (BusyInterval(f).e - 1)) \subseteq Taken(f.machine)
    <3>1. f \in FixedOn(f.machine) /\ Taken(f.machine) = Busy(f.machine)
      BY <1>1, <2>1 DEF FixedOn
    <3> QED BY <3>1 DEF Busy, Minutes
  <2> QED BY <1>0, <2>1 DEF EntriesOK, WithJob, Placing
<1>7. JobOK /\ ScanOK /\ BestOK /\ PlannedOK
  BY <1>0 DEF JobOK, ScanOK, BestOK, PlannedOK, WithJob, Placing
<1>8. NoDoubleBooking /\ StepsInOrder
  BY <1>0 DEF NoDoubleBooking, StepsInOrder
<1> QED BY <1>0, <1>3, <1>4, <1>5, <1>6, <1>7, <1>8 DEF IInv

(***************************************************************************)
(* Steps that leave the plan of the machines and the job at hand alone.    *)
(***************************************************************************)
jobAndPlan == <<input, capacity, order, todo, prevEnd, planned, choices, best, free, occupied, entries>>

LEMMA QuietStep ==
    ASSUME IInv, UNCHANGED jobAndPlan,
           scan' = scan \/ scan' = NoScan,
           pc' \in {"orders", "commit", "materials", "done"},
           pc' = "commit" => pc \in WithJob /\ waiting' = waiting,
           pc' = "orders" => pc \in {"locked", "orders"} \cup WithJob /\ waiting' \subseteq waiting,
           waiting' \subseteq Candidates
    PROVE  IInv'
<1> USE DEF jobAndPlan, IInv
<1>1. input' = input
  OBVIOUS
<1>2. TypeOK'
  BY InputFixed DEF TypeOK, NoScan, None
<1>3. TakenOK' /\ FreeOK'
  BY InputFixed DEF TakenOK, FreeOK, Taken, Clear
<1>4. JobOK'
  BY InputFixed DEF JobOK, WithJob, Placing
<1>5. ScanOK' /\ BestOK'
  BY DEF ScanOK, BestOK
<1>6. PlannedOK'
  BY InputFixed DEF PlannedOK, WithJob, Placing, Clear, Taken, Precedes
<1>7. EntriesOK'
  BY InputFixed DEF EntriesOK, WithJob, Placing, Taken
<1>8. NoDoubleBooking' /\ StepsInOrder'
  BY InputFixed DEF NoDoubleBooking, StepsInOrder, Span, Disjoint
<1> QED BY <1>1, <1>2, <1>3, <1>4, <1>5, <1>6, <1>7, <1>8

\* A step that does not touch the machines' plan keeps what is said of it.
LEMMA PlanUntouched ==
    ASSUME IInv, UNCHANGED <<input, capacity, free, occupied, entries>>
    PROVE  /\ input' \in Inputs
           /\ TakenOK' /\ FreeOK' /\ NoDoubleBooking' /\ StepsInOrder'
<1> USE DEF IInv
<1>1. TakenOK' /\ FreeOK'
  BY InputFixed DEF TakenOK, FreeOK, Taken, Clear
<1>2. NoDoubleBooking' /\ StepsInOrder'
  BY InputFixed DEF NoDoubleBooking, StepsInOrder, Span, Disjoint
<1> QED BY <1>1, <1>2

(***************************************************************************)
(* The steps of an order.                                                  *)
(***************************************************************************)
LEMMA TakeOrderStep == IInv /\ TakeOrder => IInv'
<1> SUFFICES ASSUME IInv, TakeOrder PROVE IInv'
  OBVIOUS
<1> USE DEF IInv
<1>1. PICK o \in waiting : /\ waiting' = waiting \ {o} /\ order' = o /\ todo' = Remaining(o)
                           /\ prevEnd' = 0 /\ planned' = {} /\ pc = "orders" /\ pc' = "steps"
                           /\ UNCHANGED <<input, capacity, tryVars, planVars, outVars, endVars>>
  BY DEF TakeOrder
<1>2. o \in Candidates /\ o \in Orders
  BY <1>1 DEF TypeOK, Candidates
<1>3. Remaining(o) \subseteq Nat
  BY <1>2, PlantAssumption DEF WellFormed, Remaining, Routing, Orders
<1>4. TypeOK'
  BY <1>1, <1>2, <1>3, InputFixed DEF TypeOK, tryVars, planVars
<1>5. JobOK' /\ ScanOK' /\ BestOK' /\ PlannedOK'
  BY <1>1, <1>2, InputFixed DEF JobOK, ScanOK, BestOK, PlannedOK, WithJob, Placing
<1>6. EntriesOK'
  BY <1>1, InputFixed DEF EntriesOK, Taken, WithJob, Placing, planVars
<1> QED BY <1>1, <1>4, <1>5, <1>6, PlanUntouched DEF planVars

LEMMA TakeStepStep == IInv /\ TakeStep => IInv'
<1> SUFFICES ASSUME IInv, TakeStep PROVE IInv'
  OBVIOUS
<1> USE DEF IInv
<1>1. /\ pc = "steps" /\ pc' = "machines" /\ todo # {}
      /\ prevEnd' = StepPrevEnd /\ choices' = Eligible(Routing(order)[Step])
      /\ best' = None /\ scan' = NoScan
      /\ UNCHANGED <<input, capacity, waiting, order, todo, planned, planVars>>
  BY DEF TakeStep
<1>2. prevEnd \in Nat /\ order \in Candidates
  BY <1>1 DEF JobOK, WithJob, Placing
<1>3. /\ StepPrevEnd \in Nat /\ StepPrevEnd >= prevEnd
      /\ \A f \in FixedOf(order) : f.seq < Step => BusyInterval(f).e <= StepPrevEnd
  BY <1>2, PrevEndType
<1>4. choices' \subseteq Machines
  BY <1>1 DEF Eligible
<1>5. TypeOK'
  BY <1>1, <1>3, <1>4, InputFixed DEF TypeOK, planVars
<1>6. JobOK'
  <2>1. Step' = Step
    BY <1>1 DEF Step
  <2> QED BY <1>1, <1>2, <1>3, <2>1, InputFixed DEF JobOK, WithJob, Placing
<1>7. ScanOK' /\ BestOK'
  BY <1>1 DEF ScanOK, BestOK
<1>8. PlannedOK'
  <2>1. \A p \in planned : p.end \in Int
    BY DEF TypeOK, Entry
  <2> QED BY <1>1, <1>2, <1>3, <2>1, InputFixed DEF PlannedOK, WithJob, Placing, Clear, Taken, Precedes, planVars
<1>9. EntriesOK'
  BY <1>1, InputFixed DEF EntriesOK, Taken, WithJob, Placing, planVars
<1> QED BY <1>1, <1>5, <1>6, <1>7, <1>8, <1>9, PlanUntouched DEF planVars

\* What the search for a placement leaves alone.
LEMMA JobUntouched ==
    ASSUME IInv, UNCHANGED <<input, capacity, waiting, jobVars, planVars>>,
           pc \in {"machines", "windows"}, pc' \in {"machines", "windows"}
    PROVE  /\ input' \in Inputs
           /\ TakenOK' /\ FreeOK' /\ NoDoubleBooking' /\ StepsInOrder'
           /\ JobOK' /\ PlannedOK' /\ EntriesOK'
           /\ StepEarliest' = StepEarliest /\ StepEarliest \in Nat
           /\ order \in Candidates /\ Step \in DOMAIN Routing(order)
<1> USE DEF IInv, jobVars, planVars
<1>1. order \in Candidates /\ prevEnd \in Nat /\ todo # {} /\ todo \subseteq Remaining(order)
  BY DEF JobOK, WithJob, Placing
<1>2. Step' = Step
  BY DEF Step
<1>3. JobOK'
  BY <1>2, InputFixed DEF JobOK, WithJob, Placing
<1>4. PlannedOK'
  BY InputFixed DEF PlannedOK, WithJob, Placing, Clear, Taken, Precedes
<1>5. EntriesOK'
  BY InputFixed DEF EntriesOK, Taken, WithJob, Placing
<1>6. StepEarliest' = StepEarliest
  BY InputFixed DEF StepEarliest, Max2
<1>7. StepEarliest \in Nat
  BY <1>1, StepEarliestType
<1>8. Step \in DOMAIN Routing(order)
  BY <1>1, StepType
<1> QED BY <1>1, <1>3, <1>4, <1>5, <1>6, <1>7, <1>8, PlanUntouched

LEMMA TryMachineStep == IInv /\ TryMachine => IInv'
<1> SUFFICES ASSUME IInv, TryMachine PROVE IInv'
  OBVIOUS
<1> USE DEF IInv
<1>1. PICK m \in choices :
          /\ choices' = choices \ {m}
          /\ scan' = [machine |-> m, left |-> free[m], earliest |-> StepEarliest,
                      minutes |-> Max2(0, Minute(m)), need |-> Max2(0, Minute(m)),
                      start |-> NoTime, prevEnd |-> NoTime]
          /\ pc = "machines" /\ pc' = "windows"
          /\ UNCHANGED <<input, capacity, waiting, jobVars, best, planVars>>
  BY DEF TryMachine
<1>2. m \in Machines
  BY DEF TypeOK
<1>3. /\ JobOK' /\ PlannedOK' /\ EntriesOK' /\ StepEarliest' = StepEarliest /\ StepEarliest \in Nat
      /\ order \in Candidates /\ Step \in DOMAIN Routing(order)
      /\ input' \in Inputs /\ TakenOK' /\ FreeOK' /\ NoDoubleBooking' /\ StepsInOrder'
  BY <1>1, JobUntouched
<1>4. Max2(0, Minute(m)) \in Nat
  <2>1. Minute(m) \in Int
    BY <1>2, <1>3, MinuteType
  <2> QED BY <2>1 DEF Max2
<1>5. scan' \in Scan
  BY <1>1, <1>2, <1>3, <1>4 DEF Scan, TypeOK, NoTime
<1>6. ScanOK'
  BY <1>1, <1>3, <1>5, InputFixed DEF ScanOK, NoTime, planVars
<1>7. BestOK'
  BY <1>1, <1>3, InputFixed DEF BestOK, Clear, Taken, planVars
<1>8. TypeOK'
  BY <1>1, <1>5, InputFixed DEF TypeOK, Scan, jobVars, planVars
<1> QED BY <1>3, <1>6, <1>7, <1>8

LEMMA NoWindowLeftStep == IInv /\ NoWindowLeft => IInv'
<1> SUFFICES ASSUME IInv, NoWindowLeft PROVE IInv'
  OBVIOUS
<1> USE DEF IInv
<1>1. /\ pc = "windows" /\ pc' = "machines" /\ scan' = NoScan
      /\ UNCHANGED <<input, capacity, waiting, jobVars, choices, best, planVars>>
  BY DEF NoWindowLeft
<1>2. /\ JobOK' /\ PlannedOK' /\ EntriesOK' /\ StepEarliest' = StepEarliest
      /\ input' \in Inputs /\ TakenOK' /\ FreeOK' /\ NoDoubleBooking' /\ StepsInOrder'
  BY <1>1, JobUntouched
<1>3. ScanOK' /\ BestOK'
  BY <1>1, <1>2, InputFixed DEF ScanOK, BestOK, Clear, Taken, planVars
<1>4. TypeOK'
  BY <1>1, InputFixed DEF TypeOK, jobVars, planVars
<1> QED BY <1>2, <1>3, <1>4

(***************************************************************************)
(* The windows of a machine.                                               *)
(***************************************************************************)

\* From the start of the placement to the end of the window in use the
\* machine has nothing else to do: either the placement starts in this window,
\* or no other job lies between the last window and this one.
LEMMA ClearToWindowEnd ==
    ASSUME IInv, pc = "windows", NEW w \in scan.left, NextWindow(w), w.e > scan.earliest
    PROVE  /\ w \in Interval /\ w \in free[scan.machine]
           /\ Start(w) \in Nat /\ scan.earliest <= Start(w) /\ Start(w) <= From(w)
           /\ From(w) \in Nat /\ w.s <= From(w) /\ From(w) < w.e
           /\ Need(w) \in Nat
           /\ Clear(scan.machine, Start(w), w.e)
<1> USE DEF IInv
<1> DEFINE m == scan.machine
<1>1. /\ scan \in Scan /\ scan.left \subseteq free[m] /\ scan.earliest = StepEarliest
      /\ scan.start >= 0 => /\ scan.earliest <= scan.start /\ scan.start <= scan.prevEnd
                            /\ Clear(m, scan.start, scan.prevEnd)
                            /\ \A v \in scan.left : scan.prevEnd <= v.s
  BY DEF ScanOK
<1>2. m \in Machines /\ scan.earliest \in Int /\ scan.minutes \in Nat /\ scan.need \in Nat
      /\ scan.start \in Int /\ scan.prevEnd \in Int /\ w \in Interval
  BY <1>1 DEF Scan
<1>3. scan.earliest \in Nat
  <2>1. order \in Candidates /\ prevEnd \in Nat
    BY DEF JobOK, WithJob, Placing
  <2> QED BY <1>1, <2>1, StepEarliestType
<1>4. w.s \in Int /\ w.e \in Int /\ w.s < w.e /\ Clear(m, w.s, w.e)
  BY <1>1, <1>2 DEF FreeOK, Interval
<1>5. From(w) \in Nat /\ w.s <= From(w) /\ From(w) < w.e /\ scan.earliest <= From(w)
  BY <1>3, <1>4 DEF From, Max2
<1>6. Taken(m) \subseteq Nat
  BY <1>2 DEF TakenOK
<1>7. CASE scan.start < 0 \/ Blocked(w)
  <2>1. Start(w) = From(w)
    BY <1>7 DEF Start
  <2>2. Need(w) \in Nat
    BY <1>2 DEF Need
  <2>3. Clear(m, From(w), w.e)
    BY <1>4, <1>5, <1>6 DEF Clear
  <2> QED BY <1>1, <1>2, <1>5, <2>1, <2>2, <2>3
<1>8. CASE ~(scan.start < 0 \/ Blocked(w))
  <2>1. Start(w) = scan.start /\ Need(w) = scan.need /\ scan.start >= 0
    BY <1>2, <1>8 DEF Start, Need
  <2>2. scan.prevEnd <= w.s /\ scan.prevEnd \in Nat
    BY <1>1, <1>2, <1>3, <2>1
  <2>3. \A b \in occupied[m] : ~(b.e > scan.prevEnd /\ b.s < From(w))
    BY <1>8, <2>1, <2>2 DEF Blocked
  <2>4. ASSUME NEW t \in Taken(m) PROVE t < scan.start \/ w.e <= t
    <3>1. PICK b \in occupied[m] : t \in b.s .. (b.e - 1)
      BY InMinutes DEF Taken
    <3>2. b.s \in Int /\ b.e \in Int
      BY <1>2, <3>1 DEF TypeOK, Interval
    <3>3. t < scan.start \/ scan.prevEnd <= t
      BY <1>1, <2>1 DEF Clear
    <3>4. t < w.s \/ w.e <= t
      BY <1>4 DEF Clear
    <3>5. t \in Nat
      BY <1>6
    <3>6. ~(scan.prevEnd <= t /\ t < w.s)
      BY <1>4, <1>5, <2>2, <2>3, <3>1, <3>2, <3>5
    <3> QED BY <1>2, <1>4, <2>2, <3>3, <3>4, <3>5, <3>6
  <2>5. scan.start <= From(w)
    BY <1>1, <1>2, <1>4, <1>5, <2>1, <2>2
  <2> QED BY <1>1, <1>2, <1>5, <2>1, <2>4, <2>5 DEF Clear
<1> QED BY <1>7, <1>8

LEMMA SkipWindowStep ==
    ASSUME IInv, pc = "windows", NEW w \in scan.left, SkipWindow(w)
    PROVE  IInv'
<1> USE DEF IInv
<1>1. /\ scan' = [scan EXCEPT !.left = @ \ {w}] /\ pc' = "windows"
      /\ UNCHANGED <<input, capacity, waiting, jobVars, choices, best, planVars>>
  BY DEF SkipWindow
<1>2. /\ JobOK' /\ PlannedOK' /\ EntriesOK' /\ StepEarliest' = StepEarliest
      /\ input' \in Inputs /\ TakenOK' /\ FreeOK' /\ NoDoubleBooking' /\ StepsInOrder'
  BY <1>1, JobUntouched
<1>3. scan \in Scan
  BY DEF ScanOK
<1>4. /\ scan' \in Scan /\ scan'.left \subseteq scan.left /\ scan'.machine = scan.machine
      /\ scan'.earliest = scan.earliest /\ scan'.start = scan.start /\ scan'.prevEnd = scan.prevEnd
  BY <1>1, <1>3 DEF Scan
<1>5. ScanOK' /\ BestOK'
  BY <1>1, <1>2, <1>4, InputFixed DEF ScanOK, BestOK, Clear, Taken, planVars
<1>6. TypeOK'
  BY <1>1, <1>4, InputFixed DEF TypeOK, Scan, jobVars, planVars
<1> QED BY <1>2, <1>5, <1>6

LEMMA FillWindowStep ==
    ASSUME IInv, pc = "windows", NEW w \in scan.left, NextWindow(w), FillWindow(w)
    PROVE  IInv'
<1> USE DEF IInv
<1> DEFINE m == scan.machine
<1>1. /\ scan' = [scan EXCEPT !.left = @ \ {w}, !.start = Start(w),
                              !.need = Need(w) - (w.e - From(w)), !.prevEnd = w.e]
      /\ w.e > scan.earliest /\ w.e - From(w) < Need(w)
      /\ pc' = "windows"
      /\ UNCHANGED <<input, capacity, waiting, jobVars, choices, best, planVars>>
  BY DEF FillWindow
<1>2. /\ JobOK' /\ PlannedOK' /\ EntriesOK' /\ StepEarliest' = StepEarliest
      /\ input' \in Inputs /\ TakenOK' /\ FreeOK' /\ NoDoubleBooking' /\ StepsInOrder'
  BY <1>1, JobUntouched
<1>3. /\ w \in Interval /\ w \in free[m]
      /\ Start(w) \in Nat /\ scan.earliest <= Start(w) /\ Start(w) <= From(w)
      /\ From(w) \in Nat /\ w.s <= From(w) /\ From(w) < w.e
      /\ Need(w) \in Nat
      /\ Clear(m, Start(w), w.e)
  BY <1>1, ClearToWindowEnd
<1>4. scan \in Scan /\ scan.left \subseteq free[m] /\ m \in Machines /\ scan.earliest = StepEarliest
  BY DEF ScanOK, Scan
<1>5. w.s \in Int /\ w.e \in Int /\ scan.earliest \in Int
  BY <1>3, <1>4 DEF Interval, Scan
<1>6. Need(w) - (w.e - From(w)) \in Nat
  BY <1>1, <1>3, <1>5
<1>7. /\ scan' \in Scan /\ scan'.left = scan.left \ {w} /\ scan'.machine = m
      /\ scan'.earliest = scan.earliest /\ scan'.start = Start(w) /\ scan'.prevEnd = w.e
  <2> DEFINE start == Start(w)
             rest == Need(w) - (w.e - From(w))
  <2>1. scan' = [scan EXCEPT !.left = scan.left \ {w}, !.start = start, !.need = rest, !.prevEnd = w.e]
    BY <1>1
  <2>2. start \in Int /\ rest \in Nat /\ w.e \in Int /\ scan.left \ {w} \in SUBSET Interval
    BY <1>3, <1>4, <1>5, <1>6 DEF Scan
  <2> HIDE DEF start, rest
  <2>3. scan' \in Scan
    BY <1>4, <2>1, <2>2 DEF Scan
  <2>4. /\ scan'.left = scan.left \ {w} /\ scan'.machine = scan.machine
        /\ scan'.earliest = scan.earliest /\ scan'.start = start /\ scan'.prevEnd = w.e
    BY <1>4, <2>1 DEF Scan
  <2> QED BY <2>3, <2>4 DEF start
<1>8. ASSUME NEW v \in scan.left \ {w} PROVE w.e <= v.s
  <2>1. v \in Interval /\ v.s < v.e /\ w.s <= v.s /\ (w.e <= v.s \/ v.e <= w.s)
    BY <1>3, <1>4 DEF FreeOK, NextWindow, Scan
  <2> QED BY <1>5, <2>1 DEF Interval
<1>9. ScanOK'
  <2>1. Start(w) <= w.e
    BY <1>3, <1>5
  <2>2. \A t \in Taken(m) : t < Start(w) \/ w.e <= t
    BY <1>3 DEF Clear
  <2> QED BY <1>1, <1>2, <1>3, <1>4, <1>7, <1>8, <2>1, <2>2, InputFixed DEF ScanOK, Clear, Taken, planVars
<1>10. BestOK'
  BY <1>1, <1>2, InputFixed DEF BestOK, Clear, Taken, planVars
<1>11. TypeOK'
  BY <1>1, <1>7, InputFixed DEF TypeOK, Scan, jobVars, planVars
<1> QED BY <1>2, <1>9, <1>10, <1>11

LEMMA FinishInWindowStep ==
    ASSUME IInv, pc = "windows", NEW w \in scan.left, NextWindow(w), FinishInWindow(w)
    PROVE  IInv'
<1> USE DEF IInv
<1> DEFINE m == scan.machine
           placement == [machine |-> m, start |-> Start(w), end |-> From(w) + Need(w), minutes |-> scan.minutes]
           Best == [machine : Machines, start : Int, end : Int, minutes : Nat]
<1>1. /\ w.e > scan.earliest /\ w.e - From(w) >= Need(w)
      /\ best' = placement \/ best' = best
      /\ scan' = NoScan /\ pc' = "machines"
      /\ UNCHANGED <<input, capacity, waiting, jobVars, choices, planVars>>
  BY DEF FinishInWindow
<1>2. /\ JobOK' /\ PlannedOK' /\ EntriesOK' /\ StepEarliest' = StepEarliest
      /\ input' \in Inputs /\ TakenOK' /\ FreeOK' /\ NoDoubleBooking' /\ StepsInOrder'
  BY <1>1, JobUntouched
<1>3. /\ w \in Interval
      /\ Start(w) \in Nat /\ scan.earliest <= Start(w) /\ Start(w) <= From(w)
      /\ From(w) \in Nat /\ Need(w) \in Nat
      /\ Clear(m, Start(w), w.e)
  BY <1>1, ClearToWindowEnd
<1>4. m \in Machines /\ scan.earliest = StepEarliest /\ scan.minutes \in Nat /\ Taken(m) \subseteq Nat
  BY DEF ScanOK, Scan, TakenOK
<1>5. From(w) + Need(w) <= w.e /\ From(w) + Need(w) \in Nat /\ w.e \in Int
  BY <1>1, <1>3 DEF Interval
<1>6. /\ placement \in Best
      /\ StepEarliest <= placement.start /\ placement.start <= placement.end
      /\ Clear(placement.machine, placement.start, placement.end)
  BY <1>3, <1>4, <1>5 DEF Clear
<1>7. BestOK'
  <2>1. CASE best' = best
    BY <1>1, <1>2, <2>1, InputFixed DEF BestOK, Clear, Taken, planVars
  <2>2. CASE best' = placement
    <3> HIDE DEF placement
    <3> QED BY <1>1, <1>2, <1>6, <2>2, InputFixed DEF BestOK, Clear, Taken, planVars
  <2> QED BY <1>1, <2>1, <2>2
<1>8. ScanOK'
  BY <1>1 DEF ScanOK
<1>9. best' = None \/ best' \in Best
  BY <1>1, <1>6 DEF TypeOK
<1>10. TypeOK'
  BY <1>1, <1>9, InputFixed DEF TypeOK, jobVars, planVars
<1> QED BY <1>2, <1>7, <1>8, <1>10

LEMMA UseWindowStep == IInv /\ UseWindow => IInv'
BY SkipWindowStep, FillWindowStep, FinishInWindowStep DEF UseWindow

(***************************************************************************)
(* A step gets its place.                                                  *)
(***************************************************************************)
LEMMA PlaceStepStep == IInv /\ PlaceStep => IInv'
<1> SUFFICES ASSUME IInv, PlaceStep PROVE IInv'
  OBVIOUS
<1> USE DEF IInv
<1> DEFINE p == [order |-> order, seq |-> Step, machine |-> best.machine, start |-> best.start,
                 end |-> best.end, minutes |-> best.minutes]
<1>1. /\ pc = "machines" /\ pc' = "steps" /\ best # None
      /\ planned' = planned \cup {p} /\ prevEnd' = best.end /\ todo' = todo \ {Step} /\ best' = None
      /\ UNCHANGED <<input, capacity, waiting, order, choices, scan, planVars>>
  BY DEF PlaceStep
<1>2. /\ order \in Candidates /\ order \notin waiting /\ todo \subseteq Remaining(order) /\ prevEnd \in Nat
      /\ todo # {} /\ \A f \in FixedOf(order) : f.seq < Step => BusyInterval(f).e <= prevEnd
  BY <1>1 DEF JobOK, WithJob, Placing
<1>3. /\ Step \in todo /\ Step \in Nat
      /\ \A n \in todo : n \in Nat /\ Step <= n
  BY <1>2, StepType
<1>4. StepEarliest \in Nat /\ StepEarliest >= prevEnd
  BY <1>2, StepEarliestType
<1>5. /\ best \in [machine : Machines, start : Int, end : Int, minutes : Nat]
      /\ StepEarliest <= best.start /\ best.start <= best.end
      /\ Clear(best.machine, best.start, best.end)
  BY <1>1 DEF BestOK
<1>6. best.start \in Nat /\ best.end \in Nat /\ prevEnd <= best.start
  BY <1>2, <1>4, <1>5
<1>7. p \in Entry
  BY <1>2, <1>3, <1>5 DEF Entry, Candidates
<1>8. /\ p.order = order /\ p.seq = Step /\ p.machine = best.machine
      /\ p.start = best.start /\ p.end = best.end
  OBVIOUS
<1> HIDE DEF p
<1>9. TypeOK'
  BY <1>1, <1>3, <1>6, <1>7, InputFixed DEF TypeOK, planVars
<1>10. JobOK'
  BY <1>1, <1>2, <1>6, InputFixed DEF JobOK, WithJob, Placing
<1>11. ScanOK' /\ BestOK'
  BY <1>1 DEF ScanOK, BestOK
<1>12. \A q \in planned :
          /\ q.order = order
          /\ q.start \in Nat /\ q.start <= q.end /\ q.end <= prevEnd
          /\ \A n \in todo : q.seq < n
          /\ Clear(q.machine, q.start, q.end)
          /\ \A r \in planned : q # r => Precedes(q, r) \/ Precedes(r, q)
          /\ \A e \in entries : e.order = order => Precedes(e, q)
          /\ \A f \in FixedOf(order) : f.seq < q.seq => BusyInterval(f).e <= q.start
  BY <1>1 DEF PlannedOK, WithJob, Placing
<1>13. \A q \in planned : q.end \in Int
  BY DEF TypeOK, Entry
<1>14. \A q \in planned : q.end <= best.end /\ Precedes(q, p)
  <2>1. ASSUME NEW q \in planned PROVE q.end <= best.end /\ q.end <= best.start /\ q.seq < Step
    <3>1. q.end <= prevEnd /\ q.end \in Int /\ q.seq < Step
      BY <1>3, <1>12, <1>13
    <3> QED BY <1>2, <1>5, <1>6, <3>1
  <2> QED BY <1>8, <2>1 DEF Precedes
<1>15. \A e \in entries : e.order # order
  BY <1>1 DEF EntriesOK, Placing
<1>16. \A n \in todo \ {Step} : Step < n
  BY <1>3
<1>17. \A f \in FixedOf(order) : f.seq < p.seq => BusyInterval(f).e <= p.start
  <2>1. ASSUME NEW f \in FixedOf(order), f.seq < p.seq PROVE BusyInterval(f).e <= p.start
    <3>1. BusyInterval(f).e <= prevEnd /\ BusyInterval(f).e \in Nat
      BY <1>2, <1>8, <2>1, BusyType DEF FixedOf
    <3> QED BY <1>2, <1>6, <1>8, <3>1
  <2> QED BY <2>1
<1>18. PlannedOK'
  <2>1. ASSUME NEW q \in planned'
        PROVE  /\ q.order = order
               /\ q.start \in Nat /\ q.start <= q.end /\ q.end <= best.end
               /\ \A n \in todo \ {Step} : q.seq < n
               /\ Clear(q.machine, q.start, q.end)
               /\ \A r \in planned' : q # r => Precedes(q, r) \/ Precedes(r, q)
               /\ \A e \in entries : e.order = order => Precedes(e, q)
               /\ \A f \in FixedOf(order) : f.seq < q.seq => BusyInterval(f).e <= q.start
    <3>1. CASE q = p
      BY <1>1, <1>5, <1>6, <1>8, <1>14, <1>15, <1>16, <1>17, <3>1
    <3>2. CASE q \in planned
      BY <1>1, <1>12, <1>14, <3>2
    <3> QED BY <1>1, <3>1, <3>2
  <2> QED BY <1>1, <2>1, InputFixed DEF PlannedOK, Clear, Taken, Precedes, planVars
<1>19. EntriesOK'
  BY <1>1, <1>15, InputFixed DEF EntriesOK, Taken, WithJob, Placing, planVars
<1> QED BY <1>1, <1>9, <1>10, <1>11, <1>18, <1>19, PlanUntouched DEF planVars

(***************************************************************************)
(* The plan of an order is entered into the machines.                      *)
(***************************************************************************)

\* What one planned step does to its machine.
LEMMA EntryTaken ==
    ASSUME IInv, pc = "commit", NEW p \in planned,
           free' = [free EXCEPT ![p.machine] = SubtractInterval(@, [s |-> p.start, e |-> p.end])],
           occupied' = [occupied EXCEPT ![p.machine] = NormalizeIntervals(@ \cup {[s |-> p.start, e |-> p.end]})],
           input' = input
    PROVE  /\ free' \in [Machines -> SUBSET Interval] /\ occupied' \in [Machines -> SUBSET Interval]
           /\ TakenOK' /\ FreeOK'
           /\ \A m \in Machines : Taken(m)' = IF m = p.machine THEN Taken(m) \cup (p.start .. (p.end - 1))
                                              ELSE Taken(m)
<1> USE DEF IInv
<1> DEFINE k == p.machine
           busy == [s |-> p.start, e |-> p.end]
<1>1. /\ k \in Machines /\ p.start \in Nat /\ p.end \in Nat /\ p.start <= p.end
      /\ Clear(k, p.start, p.end)
  <2>1. p \in Entry
    BY DEF TypeOK
  <2>2. p.start \in Nat /\ p.start <= p.end /\ Clear(k, p.start, p.end)
    BY DEF PlannedOK, WithJob
  <2> QED BY <2>1, <2>2 DEF Entry
<1>2. busy \in Interval /\ busy.s = p.start /\ busy.e = p.end
  BY <1>1 DEF Interval
<1>3. /\ free \in [Machines -> SUBSET Interval] /\ occupied \in [Machines -> SUBSET Interval]
  BY DEF TypeOK
<1>4. /\ free'[k] = SubtractInterval(free[k], busy)
      /\ occupied'[k] = NormalizeIntervals(occupied[k] \cup {busy})
      /\ \A m \in Machines \ {k} : free'[m] = free[m] /\ occupied'[m] = occupied[m]
      /\ DOMAIN free' = Machines /\ DOMAIN occupied' = Machines
      /\ free' = [m \in Machines |-> free'[m]] /\ occupied' = [m \in Machines |-> occupied'[m]]
  BY <1>1, <1>3
<1>5. /\ \A w \in free[k] : w.s < w.e /\ Clear(k, w.s, w.e)
      /\ \A v, w \in free[k] : v # w => v.e <= w.s \/ w.e <= v.s
      /\ free[k] \in SUBSET Interval
  BY <1>1, <1>3 DEF FreeOK
<1>6. /\ free'[k] \in SUBSET Interval
      /\ \A q \in free'[k] : /\ q.s < q.e
                             /\ \E w \in free[k] : w.s <= q.s /\ q.e <= w.e
                             /\ p.end <= p.start \/ p.end <= q.s \/ q.e <= p.start
      /\ \A q, r \in free'[k] : q # r => q.e <= r.s \/ r.e <= q.s
  <2> HIDE DEF busy
  <2> QED BY <1>2, <1>4, <1>5, Subtracted
<1>7. PICK b \in Nat : \A t \in Taken(k) : t <= b
  BY <1>1 DEF TakenOK
<1>8. Taken(k) \subseteq Nat
  BY <1>1 DEF TakenOK
<1>9. /\ occupied'[k] \in SUBSET Interval
      /\ Minutes(occupied'[k]) = Taken(k) \cup (p.start .. (p.end - 1))
      /\ \E c \in Nat : \A t \in Minutes(occupied'[k]) : t <= c
  <2> DEFINE I == occupied[k]
             s == p.start
             e == p.end
  <2>1. Minutes(I) = Taken(k)
    BY DEF Taken
  <2>2. occupied'[k] = NormalizeIntervals(I \cup {[s |-> s, e |-> e]}) /\ s \in Nat /\ e \in Nat
    BY <1>1, <1>4
  <2> HIDE DEF I, s, e
  <2>3. Minutes(I) \subseteq Nat /\ b \in Nat /\ \A t \in Minutes(I) : t <= b
    BY <1>7, <1>8, <2>1
  <2>4. LET J == NormalizeIntervals(I \cup {[s |-> s, e |-> e]})
        IN  /\ J \in SUBSET Interval
            /\ Minutes(J) = Minutes(I) \cup (s .. (e - 1))
            /\ \E c \in Nat : \A t \in Minutes(J) : t <= c
    BY <2>2, <2>3, Normalized
  <2>5. /\ occupied'[k] \in SUBSET Interval
        /\ Minutes(occupied'[k]) = Minutes(I) \cup (s .. (e - 1))
        /\ \E c \in Nat : \A t \in Minutes(occupied'[k]) : t <= c
    BY <2>2, <2>4
  <2> QED BY <2>1, <2>5 DEF s, e
<1> HIDE DEF busy
<1>10. Machines' = Machines
  BY InputFixed
<1>11. \A m \in Machines : Taken(m)' = Minutes(occupied'[m])
  BY DEF Taken
<1>12. \A m \in Machines : Taken(m)' = IF m = k THEN Taken(m) \cup (p.start .. (p.end - 1)) ELSE Taken(m)
  BY <1>4, <1>9, <1>11 DEF Taken
<1>13. TakenOK'
  <2>1. ASSUME NEW m \in Machines PROVE Taken(m)' \subseteq Nat /\ \E c \in Nat : \A t \in Taken(m)' : t <= c
    <3>1. CASE m = k
      <4>1. Taken(k)' \subseteq Nat
        BY <1>1, <1>8, <1>12
      <4>2. \E c \in Nat : \A t \in Taken(k)' : t <= c
        BY <1>1, <1>9, <1>11
      <4> QED BY <3>1, <4>1, <4>2
    <3>2. CASE m # k
      BY <1>12, <3>2 DEF TakenOK
    <3> QED BY <3>1, <3>2
  <2> QED BY <1>10, <2>1 DEF TakenOK
<1>14. FreeOK'
  <2>1. ASSUME NEW q \in free'[k] PROVE \A t \in Taken(k)' : t < q.s \/ q.e <= t
    <3>1. PICK w \in free[k] : w.s <= q.s /\ q.e <= w.e
      BY <1>6
    <3>2. w \in Interval /\ q \in Interval
      BY <1>5, <1>6
    <3>3. ASSUME NEW t \in Taken(k) PROVE t < q.s \/ q.e <= t
      BY <1>5, <1>8, <3>1, <3>2 DEF Clear, Interval
    <3>4. ASSUME NEW t \in p.start .. (p.end - 1) PROVE t < q.s \/ q.e <= t
      BY <1>1, <1>6, <3>2 DEF Interval
    <3> QED BY <1>1, <1>12, <3>3, <3>4
  <2>2. ASSUME NEW m \in Machines
        PROVE  /\ \A w \in free'[m] : w.s < w.e /\ \A t \in Taken(m)' : t < w.s \/ w.e <= t
               /\ \A v, w \in free'[m] : v # w => v.e <= w.s \/ w.e <= v.s
    <3>1. CASE m = k
      BY <1>6, <2>1, <3>1
    <3>2. CASE m # k
      BY <1>4, <1>12, <3>2 DEF FreeOK, Clear
    <3> QED BY <3>1, <3>2
  <2> QED BY <1>10, <2>2 DEF FreeOK, Clear, Taken
<1>15. free' \in [Machines -> SUBSET Interval] /\ occupied' \in [Machines -> SUBSET Interval]
  <2>1. \A m \in Machines : free'[m] \in SUBSET Interval /\ occupied'[m] \in SUBSET Interval
    BY <1>3, <1>4, <1>6, <1>9
  <2> QED BY <1>4, <2>1
<1> QED BY <1>12, <1>13, <1>14, <1>15

\* Two pieces of work of which one keeps clear of the other's minutes do not
\* overlap.
LEMMA Apart ==
    ASSUME NEW s \in Int, NEW e \in Int, NEW a \in Int, NEW b \in Int,
           \A t \in a .. (b - 1) : t < s \/ e <= t
    PROVE  /\ Disjoint([s |-> s, e |-> e], [s |-> a, e |-> b])
           /\ Disjoint([s |-> a, e |-> b], [s |-> s, e |-> e])
<1>1. b <= a \/ e <= s \/ b <= s \/ e <= a
  <2> SUFFICES ASSUME a < b, s < e, s < b, a < e PROVE FALSE
    OBVIOUS
  <2> DEFINE t == IF a <= s THEN s ELSE a
  <2>1. t \in a .. (b - 1) /\ s <= t /\ t < e
    OBVIOUS
  <2> QED BY <2>1
<1> QED BY <1>1 DEF Disjoint

LEMMA CommitEntryStep == IInv /\ CommitEntry => IInv'
<1> SUFFICES ASSUME IInv, CommitEntry PROVE IInv'
  OBVIOUS
<1> USE DEF IInv
<1>1. PICK p \in planned :
          /\ pc = "commit" /\ \A q \in planned : p.seq <= q.seq
          /\ free' = [free EXCEPT ![p.machine] = SubtractInterval(@, [s |-> p.start, e |-> p.end])]
          /\ occupied' = [occupied EXCEPT ![p.machine] =
                             NormalizeIntervals(@ \cup {[s |-> p.start, e |-> p.end]})]
          /\ entries' = entries \cup {p} /\ planned' = planned \ {p}
          /\ UNCHANGED <<input, capacity, pc, waiting, order, todo, prevEnd, tryVars>>
  BY DEF CommitEntry
<1>2. /\ free' \in [Machines -> SUBSET Interval] /\ occupied' \in [Machines -> SUBSET Interval]
      /\ TakenOK' /\ FreeOK'
      /\ \A m \in Machines : Taken(m)' = IF m = p.machine THEN Taken(m) \cup (p.start .. (p.end - 1))
                                         ELSE Taken(m)
  BY <1>1, EntryTaken
<1>3. p \in Entry /\ planned \subseteq Entry /\ entries \subseteq Entry
  BY DEF TypeOK
<1>4. \A q \in planned :
          /\ q.order = order
          /\ q.start \in Nat /\ q.start <= q.end /\ q.end <= prevEnd
          /\ \A n \in todo : q.seq < n
          /\ Clear(q.machine, q.start, q.end)
          /\ \A r \in planned : q # r => Precedes(q, r) \/ Precedes(r, q)
          /\ \A e \in entries : e.order = order => Precedes(e, q)
          /\ \A f \in FixedOf(order) : f.seq < q.seq => BusyInterval(f).e <= q.start
  BY <1>1 DEF PlannedOK, WithJob
<1>5. \A q \in planned \ {p} : Precedes(p, q)
  BY <1>1, <1>3, <1>4 DEF Precedes, Entry
<1>6. TypeOK'
  BY <1>1, <1>2, <1>3, InputFixed DEF TypeOK, tryVars
<1>7. JobOK'
  BY <1>1, InputFixed DEF JobOK, WithJob, Placing
<1>8. ScanOK' /\ BestOK'
  BY <1>1 DEF ScanOK, BestOK
<1>9. PlannedOK'
  <2>1. ASSUME NEW q \in planned \ {p} PROVE \A t \in Taken(q.machine)' : t < q.start \/ q.end <= t
    <3>1. q \in Entry /\ Taken(q.machine) \subseteq Nat
      BY <1>3 DEF TakenOK, Entry
    <3>2. \A t \in Taken(q.machine) : t < q.start \/ q.end <= t
      BY <1>4 DEF Clear
    <3>3. p.end <= q.start
      BY <1>5 DEF Precedes
    <3>4. \A t \in p.start .. (p.end - 1) : t < q.start
      BY <1>3, <3>1, <3>3 DEF Entry
    <3> QED BY <1>2, <3>1, <3>2, <3>4 DEF Entry
  <2>2. \A q \in planned \ {p} : \A e \in entries' : e.order = order => Precedes(e, q)
    BY <1>1, <1>4, <1>5
  <2> QED BY <1>1, <1>4, <2>1, <2>2, InputFixed DEF PlannedOK, Clear, Taken, Precedes
<1>10. EntriesOK'
  <2>1. ASSUME NEW e \in entries' PROVE (e.start .. (e.end - 1)) \subseteq Taken(e.machine)'
    <3>1. e \in Entry /\ e.machine \in Machines
      BY <1>1, <1>3 DEF Entry
    <3>2. CASE e \in entries
      BY <1>2, <3>1, <3>2 DEF EntriesOK
    <3>3. CASE e = p
      BY <1>2, <3>1, <3>3
    <3> QED BY <1>1, <3>2, <3>3
  <2>2. ASSUME NEW f \in input.fixed, f.machine \in Machines
        PROVE  (BusyInterval(f).s .. (BusyInterval(f).e - 1)) \subseteq Taken(f.machine)'
    BY <1>2, <2>2 DEF EntriesOK
  <2>3. order \notin waiting /\ p.order = order
    BY <1>1, <1>4 DEF JobOK, WithJob
  <2> QED BY <1>1, <2>1, <2>2, <2>3, InputFixed DEF EntriesOK, Taken, WithJob, Placing
<1>11. NoDoubleBooking'
  <2>1. ASSUME NEW e \in entries, e.machine = p.machine
        PROVE  Disjoint(Span(e), Span(p)) /\ Disjoint(Span(p), Span(e))
    <3>1. \A t \in e.start .. (e.end - 1) : t < p.start \/ p.end <= t
      BY <1>4, <2>1 DEF EntriesOK, Clear
    <3>2. e \in Entry
      BY <1>3
    <3> QED BY <1>3, <3>1, <3>2, Apart DEF Span, Entry
  <2>2. ASSUME NEW f \in input.fixed, p.machine = f.machine PROVE Disjoint(Span(p), BusyInterval(f))
    <3>1. \A t \in BusyInterval(f).s .. (BusyInterval(f).e - 1) : t < p.start \/ p.end <= t
      BY <1>3, <1>4, <2>2 DEF EntriesOK, Clear, Entry
    <3>2. BusyInterval(f).s \in Int /\ BusyInterval(f).e \in Int
      BY BusyType
    <3>3. Disjoint([s |-> p.start, e |-> p.end], [s |-> BusyInterval(f).s, e |-> BusyInterval(f).e])
      BY <1>3, <3>1, <3>2, Apart DEF Entry
    <3> QED BY <3>3 DEF Disjoint, Span
  <2>3. \A e, f \in entries' : e # f /\ e.machine = f.machine => Disjoint(Span(e), Span(f))
    BY <1>1, <2>1 DEF NoDoubleBooking
  <2>4. \A e \in entries', f \in input.fixed : e.machine = f.machine => Disjoint(Span(e), BusyInterval(f))
    BY <1>1, <2>2 DEF NoDoubleBooking
  <2> QED BY <1>1, <2>3, <2>4, InputFixed DEF NoDoubleBooking, Span, Disjoint
<1>12. StepsInOrder'
  <2>1. ASSUME NEW e \in entries', NEW f \in entries', f.order = e.order, f.seq < e.seq
        PROVE  f.end <= e.start
    <3>1. e \in Entry /\ f \in Entry
      BY <1>1, <1>3
    <3>2. CASE e \in entries /\ f \in entries
      BY <2>1, <3>2 DEF StepsInOrder
    <3>3. CASE e = p /\ f \in entries
      BY <1>4, <2>1, <3>3 DEF Precedes
    <3>4. CASE f = p /\ e \in entries
      BY <1>4, <2>1, <3>1, <3>4 DEF Precedes, Entry
    <3>5. CASE e = p /\ f = p
      BY <2>1, <3>1, <3>5 DEF Entry
    <3> QED BY <1>1, <3>2, <3>3, <3>4, <3>5
  <2>2. \A e \in entries' : \A f \in FixedOf(e.order) : f.seq < e.seq => BusyInterval(f).e <= e.start
    BY <1>1, <1>4 DEF StepsInOrder
  <2> QED BY <1>1, <2>1, <2>2, InputFixed DEF StepsInOrder
<1> QED BY <1>1, <1>2, <1>6, <1>7, <1>8, <1>9, <1>10, <1>11, <1>12

(***************************************************************************)
(* The steps of the engine together.                                       *)
(***************************************************************************)
LEMMA QuietSteps ==
    ASSUME IInv,
           \/ CheckLockedEntries \/ NoRouting \/ MachineUnavailable \/ NoCapacity
           \/ CommitOrder \/ OrderCommitted \/ OrdersDone \/ ConsumeMaterials \/ Assess
    PROVE  IInv'
<1> USE DEF jobAndPlan, jobVars, tryVars, planVars, Fail, WithJob, Placing
<1>1. waiting \subseteq Candidates
  BY DEF IInv, TypeOK
<1>2. CASE CheckLockedEntries
  BY <1>1, <1>2, QuietStep DEF CheckLockedEntries
<1>3. CASE NoRouting
  <2>1. waiting' \subseteq waiting
    BY <1>3 DEF NoRouting
  <2> QED BY <1>1, <1>3, <2>1, QuietStep DEF NoRouting
<1>4. CASE MachineUnavailable
  BY <1>1, <1>4, QuietStep DEF MachineUnavailable
<1>5. CASE NoCapacity
  BY <1>1, <1>5, QuietStep DEF NoCapacity
<1>6. CASE CommitOrder
  BY <1>1, <1>6, QuietStep DEF CommitOrder
<1>7. CASE OrderCommitted
  BY <1>1, <1>7, QuietStep DEF OrderCommitted
<1>8. CASE OrdersDone
  BY <1>8, QuietStep DEF OrdersDone
<1>9. CASE ConsumeMaterials
  <2>1. /\ pc = "materials" /\ pc' = pc /\ waiting' \subseteq waiting
        /\ UNCHANGED <<input, capacity, jobVars, tryVars, planVars>>
    BY <1>9 DEF ConsumeMaterials
  <2> QED BY <1>1, <2>1, QuietStep
<1>10. CASE Assess
  BY <1>1, <1>10, QuietStep DEF Assess
<1> QED BY <1>2, <1>3, <1>4, <1>5, <1>6, <1>7, <1>8, <1>9, <1>10

LEMMA StutterStep == IInv /\ UNCHANGED vars => IInv'
<1> SUFFICES ASSUME IInv, UNCHANGED vars PROVE IInv'
  OBVIOUS
<1> USE DEF IInv, vars, jobVars, tryVars, planVars
<1>1. TypeOK' /\ JobOK' /\ ScanOK'
  BY InputFixed DEF TypeOK, JobOK, ScanOK, Step, StepEarliest, Max2, Clear, Taken
<1>2. BestOK' /\ PlannedOK' /\ EntriesOK'
  BY InputFixed DEF BestOK, PlannedOK, EntriesOK, StepEarliest, Max2, Clear, Taken, Precedes
<1> QED BY <1>1, <1>2, PlanUntouched

LEMMA NextInv == IInv /\ [Next]_vars => IInv'
BY TakeOrderStep, TakeStepStep, TryMachineStep, UseWindowStep, NoWindowLeftStep, PlaceStepStep,
   CommitEntryStep, QuietSteps, StutterStep DEF Next

LEMMA InvariantHolds == Spec => []IInv
BY InitInv, NextInv, PTL DEF Spec

\* The types of the engine's variables, for every plant the database can hold.
THEOREM TypeCorrect == Spec => []TypeOK
<1>1. IInv => TypeOK
  BY DEF IInv
<1> QED BY <1>1, InvariantHolds, PTL

\* For every plant, no machine is ever booked twice: entries neither overlap
\* each other nor fixed work (placeWork() and the bookkeeping of free windows).
THEOREM NeverDoubleBooked == Spec => []NoDoubleBooking
<1>1. IInv => NoDoubleBooking
  BY DEF IInv
<1> QED BY <1>1, InvariantHolds, PTL

\* For every plant, the plan of an order follows its routing: no step starts
\* before an earlier step, planned or fixed, ends (the prevEnd of the step loop).
THEOREM RoutingFollowed == Spec => []StepsInOrder
<1>1. IInv => StepsInOrder
  BY DEF IInv
<1> QED BY <1>1, InvariantHolds, PTL
(***************************************************************************)
(* All or nothing.  A candidate that is neither waiting nor at hand is     *)
(* settled; of the one at hand, what is planned and what is still to do    *)
(* are together what remains of its routing.                               *)
(***************************************************************************)
Placed(o) == {e.seq : e \in {f \in entries : f.order = o}}
PlannedSeqs == {p.seq : p \in planned}
Settled(o) ==
    IF o \in DOMAIN plans THEN Placed(o) = Remaining(o)
    ELSE Placed(o) = {} /\ OrderConflict("UNSCHEDULED", o) \in conflicts

Ended == {"materials", "done"}

SettledOK ==
    /\ pc = "locked" => waiting = Candidates
    /\ pc \notin Ended => \A o \in waiting : o \notin DOMAIN plans
    /\ pc \in Placing => order \notin DOMAIN plans /\ PlannedSeqs \cup todo = Remaining(order)
    /\ pc = "commit" => order \in DOMAIN plans /\ Placed(order) \cup PlannedSeqs = Remaining(order)
    /\ \A o \in Candidates :
          \/ pc \notin Ended /\ o \in waiting
          \/ pc \in WithJob /\ o = order
          \/ Settled(o)

\* Steps that neither plan nor commit anything and report no less.
settledVars == <<input, entries, plans>>

LEMMA SettledStays ==
    ASSUME UNCHANGED settledVars, conflicts \subseteq conflicts', NEW o, Settled(o)
    PROVE  Settled(o)'
BY InputFixed DEF settledVars, Settled, Placed, OrderConflict

\* A failed order has kept nothing and is reported.
LEMMA FailedSettled ==
    ASSUME IInv, UNCHANGED settledVars, NEW o, NEW cause, Fail(o, cause),
           o \notin DOMAIN plans, \A e \in entries : e.order # o
    PROVE  Settled(o)' /\ conflicts \subseteq conflicts' /\ pc' = "orders"
BY DEF settledVars, Fail, Settled, Placed, OrderConflict

LEMMA SettledInit == Init => SettledOK
<1> SUFFICES ASSUME Init PROVE SettledOK
  OBVIOUS
<1>1. pc = "locked" /\ waiting = Candidates /\ DOMAIN plans = {}
  BY DEF Init
<1> QED BY <1>1 DEF SettledOK, Ended, WithJob, Placing

LEMMA SettledNext == IInv /\ SettledOK /\ [Next]_vars => SettledOK'
<1> SUFFICES ASSUME IInv, SettledOK, [Next]_vars PROVE SettledOK'
  OBVIOUS
<1> USE DEF settledVars, Ended, WithJob, Placing
<1>0. /\ waiting \subseteq Candidates
      /\ pc \in WithJob => order \in Candidates /\ order \notin waiting
  BY DEF IInv, TypeOK, JobOK
<1>1. ASSUME UNCHANGED <<settledVars, conflicts, waiting, order, todo, planned>>, pc \in Placing, pc' \in Placing
      PROVE  SettledOK'
  BY <1>1, SettledStays, InputFixed DEF SettledOK, PlannedSeqs
<1>2. CASE CheckLockedEntries
  BY <1>2, InputFixed DEF CheckLockedEntries, SettledOK, planVars
<1>3. CASE NoRouting
  <2>1. PICK o \in waiting : waiting' = waiting \ {o} /\ Fail(o, "NO_ROUTING") /\ pc = "orders"
    BY <1>3 DEF NoRouting
  <2>2. UNCHANGED settledVars
    BY <1>3 DEF NoRouting, planVars, Fail
  <2>3. Settled(o)' /\ conflicts \subseteq conflicts' /\ pc' = "orders"
    BY <2>1, <2>2, FailedSettled DEF SettledOK, IInv, EntriesOK
  <2> QED BY <2>1, <2>2, <2>3, SettledStays, InputFixed DEF SettledOK
<1>4. CASE TakeOrder
  <2>1. PICK o \in waiting : /\ waiting' = waiting \ {o} /\ order' = o /\ todo' = Remaining(o)
                             /\ planned' = {} /\ pc = "orders" /\ pc' = "steps"
                             /\ UNCHANGED settledVars /\ UNCHANGED conflicts
    BY <1>4 DEF TakeOrder, planVars, outVars
  <2>2. PlannedSeqs' \cup todo' = Remaining(order)'
    BY <2>1, InputFixed DEF PlannedSeqs
  <2> QED BY <2>1, <2>2, SettledStays, InputFixed DEF SettledOK
<1>5. CASE MachineUnavailable
  <2>1. UNCHANGED settledVars /\ waiting' = waiting /\ pc = "steps" /\ Fail(order, "MACHINE_UNAVAILABLE")
    BY <1>5 DEF MachineUnavailable, planVars, Fail
  <2>2. order \notin DOMAIN plans /\ \A e \in entries : e.order # order
    BY <2>1 DEF SettledOK, IInv, EntriesOK
  <2> PICK o : o = order
    OBVIOUS
  <2>3. Settled(o)' /\ conflicts \subseteq conflicts' /\ pc' = "orders"
    BY <2>1, <2>2, FailedSettled
  <2>4. order' = order
    BY <1>5 DEF MachineUnavailable, jobVars
  <2> QED BY <1>0, <2>1, <2>3, <2>4, SettledStays, InputFixed DEF SettledOK
<1>6. CASE NoCapacity
  <2>1. UNCHANGED settledVars /\ waiting' = waiting /\ pc = "machines" /\ Fail(order, "NO_MACHINE")
    BY <1>6 DEF NoCapacity, planVars, Fail
  <2>2. order \notin DOMAIN plans /\ \A e \in entries : e.order # order
    BY <2>1 DEF SettledOK, IInv, EntriesOK
  <2> PICK o : o = order
    OBVIOUS
  <2>3. Settled(o)' /\ conflicts \subseteq conflicts' /\ pc' = "orders"
    BY <2>1, <2>2, FailedSettled
  <2>4. order' = order
    BY <1>6 DEF NoCapacity, jobVars
  <2> QED BY <1>0, <2>1, <2>3, <2>4, SettledStays, InputFixed DEF SettledOK
<1>7. CASE TakeStep
  BY <1>1, <1>7 DEF TakeStep, planVars, outVars
<1>8. CASE TryMachine
  BY <1>1, <1>8 DEF TryMachine, planVars, outVars, jobVars
<1>9. CASE UseWindow
  <2>1. PICK w \in scan.left : SkipWindow(w) \/ FillWindow(w) \/ FinishInWindow(w)
    BY <1>9 DEF UseWindow
  <2>2. pc = "windows"
    BY <1>9 DEF UseWindow
  <2> QED BY <1>1, <2>1, <2>2 DEF SkipWindow, FillWindow, FinishInWindow, planVars, outVars, jobVars
<1>10. CASE NoWindowLeft
  BY <1>1, <1>10 DEF NoWindowLeft, planVars, outVars, jobVars
<1>11. CASE PlaceStep
  <2>1. /\ UNCHANGED <<settledVars, waiting, order, conflicts>> /\ pc = "machines" /\ pc' = "steps"
        /\ todo' = todo \ {Step}
    BY <1>11 DEF PlaceStep, planVars, outVars
  <2>2. Step \in todo
    BY <2>1, StepType DEF IInv, JobOK
  <2>3. PlannedSeqs' = PlannedSeqs \cup {Step}
    <3> DEFINE p == [order |-> order, seq |-> Step, machine |-> best.machine, start |-> best.start,
                     end |-> best.end, minutes |-> best.minutes]
    <3>1. planned' = planned \cup {p} /\ p.seq = Step
      BY <1>11 DEF PlaceStep
    <3> HIDE DEF p
    <3> QED BY <3>1 DEF PlannedSeqs
  <2>4. PlannedSeqs' \cup todo' = Remaining(order)'
    BY <2>1, <2>2, <2>3, InputFixed DEF SettledOK
  <2> QED BY <2>1, <2>4, SettledStays, InputFixed DEF SettledOK
<1>12. CASE CommitOrder
  <2>1. /\ UNCHANGED <<input, entries, waiting, order, todo, planned, conflicts>> /\ pc = "steps" /\ pc' = "commit"
        /\ todo = {} /\ DOMAIN plans' = DOMAIN plans \cup {order}
    BY <1>12 DEF CommitOrder, planVars, jobVars
  <2>2. Placed(order) = {}
    BY <2>1 DEF IInv, EntriesOK, Placed
  <2>3. Placed(order)' \cup PlannedSeqs' = Remaining(order)'
    BY <2>1, <2>2, InputFixed DEF SettledOK, Placed, PlannedSeqs
  <2>4. ASSUME NEW o, o # order, Settled(o) PROVE Settled(o)'
    BY <2>1, <2>4, InputFixed DEF Settled, Placed, OrderConflict
  <2> QED BY <1>0, <2>1, <2>3, <2>4, InputFixed DEF SettledOK
<1>13. CASE CommitEntry
  <2>1. PICK p \in planned : entries' = entries \cup {p} /\ planned' = planned \ {p}
    BY <1>13 DEF CommitEntry
  <2>2. UNCHANGED <<input, pc, waiting, order, plans, conflicts>> /\ pc = "commit"
    BY <1>13 DEF CommitEntry, outVars
  <2>3. p.order = order
    BY <2>1, <2>2 DEF IInv, PlannedOK
  <2>4. Placed(order)' = Placed(order) \cup {p.seq}
    BY <2>1, <2>2, <2>3 DEF Placed
  <2>5. Placed(order)' \cup PlannedSeqs' = Placed(order) \cup PlannedSeqs
    BY <2>1, <2>4 DEF PlannedSeqs
  <2>6. ASSUME NEW o, o # order, Settled(o) PROVE Settled(o)'
    <3>1. Placed(o)' = Placed(o)
      BY <2>1, <2>3, <2>6 DEF Placed
    <3> QED BY <2>2, <2>6, <3>1, InputFixed DEF Settled, OrderConflict
  <2> QED BY <1>0, <2>2, <2>5, <2>6, InputFixed DEF SettledOK
<1>14. CASE OrderCommitted
  <2>1. /\ UNCHANGED <<settledVars, waiting, order, conflicts>> /\ pc = "commit" /\ pc' = "orders" /\ planned = {}
    BY <1>14 DEF OrderCommitted, planVars, jobVars, outVars
  <2>2. Settled(order)
    BY <2>1 DEF SettledOK, Settled, PlannedSeqs
  <2> QED BY <1>0, <2>1, <2>2, SettledStays, InputFixed DEF SettledOK
<1>15. CASE OrdersDone
  BY <1>15, SettledStays, InputFixed DEF OrdersDone, SettledOK, planVars, outVars
<1>16. CASE ConsumeMaterials
  <2>1. UNCHANGED <<settledVars, pc>> /\ pc = "materials"
    BY <1>16 DEF ConsumeMaterials, planVars
  <2>2. conflicts \subseteq conflicts'
    BY <1>16 DEF ConsumeMaterials
  <2> QED BY <2>1, <2>2, SettledStays, InputFixed DEF SettledOK
<1>17. CASE Assess
  <2>1. UNCHANGED settledVars /\ pc = "materials" /\ pc' = "done"
    BY <1>17 DEF Assess, planVars
  <2>2. conflicts \subseteq conflicts'
    BY <1>17 DEF Assess
  <2> QED BY <2>1, <2>2, SettledStays, InputFixed DEF SettledOK
<1>18. CASE UNCHANGED vars
  BY <1>18, SettledStays, InputFixed DEF vars, planVars, outVars, jobVars, SettledOK, PlannedSeqs, Placed
<1> QED BY <1>2, <1>3, <1>4, <1>5, <1>6, <1>7, <1>8, <1>9, <1>10, <1>11, <1>12, <1>13, <1>14, <1>15, <1>16,
           <1>17, <1>18 DEF Next

\* For every plant, an order is planned with all the steps that remain of its
\* routing or with none, and then it is reported (the commit of engine.ts
\* after the step loop, and its failure paths).
THEOREM OrdersPlannedWhole == Spec => []AllOrNothing
<1>1. SettledOK => AllOrNothing
  BY DEF SettledOK, AllOrNothing, Settled, Placed, Ended, WithJob, Placing
<1> QED BY <1>1, SettledInit, SettledNext, InvariantHolds, PTL DEF Spec
(***************************************************************************)
(* Counting minutes.                                                       *)
(***************************************************************************)
Count(S, s, e) == Cardinality(S \cap (s .. (e - 1)))

LEMMA CountType ==
    ASSUME NEW S, NEW s \in Int, NEW e \in Int
    PROVE  IsFiniteSet(S \cap (s .. (e - 1))) /\ Count(S, s, e) \in Nat
<1>1. IsFiniteSet(s .. (e - 1))
  BY FS_Interval
<1>2. IsFiniteSet(S \cap (s .. (e - 1)))
  BY <1>1, FS_Intersection
<1> QED BY <1>2, FS_CardinalityType DEF Count

\* Disjoint sets count separately.
LEMMA CountBoth ==
    ASSUME NEW A, NEW B, IsFiniteSet(A), IsFiniteSet(B), A \cap B = {}
    PROVE  /\ IsFiniteSet(A \cup B) /\ Cardinality(A) \in Nat /\ Cardinality(B) \in Nat
           /\ Cardinality(A \cup B) = Cardinality(A) + Cardinality(B)
<1>1. Cardinality(A) \in Nat /\ Cardinality(B) \in Nat
  BY FS_CardinalityType
<1> QED BY <1>1, FS_Union, FS_EmptySet

\* Two adjacent stretches count separately.
LEMMA CountSplit ==
    ASSUME NEW S, NEW s \in Int, NEW m \in Int, NEW e \in Int, s <= m, m <= e
    PROVE  Count(S, s, e) = Count(S, s, m) + Count(S, m, e)
<1> DEFINE A == S \cap (s .. (m - 1))
           B == S \cap (m .. (e - 1))
<1>1. IsFiniteSet(A) /\ IsFiniteSet(B)
  BY CountType
<1>2. A \cap B = {}
  OBVIOUS
<1>3. S \cap (s .. (e - 1)) = A \cup B
  OBVIOUS
<1> HIDE DEF A, B
<1>4. Cardinality(A \cup B) = Cardinality(A) + Cardinality(B)
  BY <1>1, <1>2, CountBoth
<1> QED BY <1>3, <1>4 DEF Count, A, B

\* All of a stretch.
LEMMA CountAll ==
    ASSUME NEW S, NEW s \in Int, NEW e \in Int, s <= e, s .. (e - 1) \subseteq S
    PROVE  Count(S, s, e) = e - s
<1>1. S \cap (s .. (e - 1)) = s .. (e - 1)
  OBVIOUS
<1>2. Cardinality(s .. (e - 1)) = e - s
  <2>1. Cardinality(s .. (e - 1)) = IF s > e - 1 THEN 0 ELSE (e - 1) - s + 1
    BY FS_Interval
  <2> QED BY <2>1
<1> QED BY <1>1, <1>2 DEF Count

\* None of it.
LEMMA CountNone ==
    ASSUME NEW S, NEW s, NEW e, S \cap (s .. (e - 1)) = {}
    PROVE  Count(S, s, e) = 0
BY FS_EmptySet DEF Count

\* A shorter stretch counts no more.
LEMMA CountWithin ==
    ASSUME NEW S, NEW s \in Int, NEW e \in Int, NEW a \in Int, NEW b \in Int, s <= a, b <= e
    PROVE  Count(S, a, b) <= Count(S, s, e)
<1> DEFINE A == S \cap (a .. (b - 1))
           B == S \cap (s .. (e - 1))
<1>1. A \in SUBSET B
  OBVIOUS
<1>2. IsFiniteSet(B)
  BY CountType
<1>3. Cardinality(A) <= Cardinality(B)
  <2> HIDE DEF A, B
  <2> QED BY <1>1, <1>2, FS_Subset
<1> QED BY <1>3 DEF Count

(***************************************************************************)
(* Where a machine can work.  What is free lies in the working windows of  *)
(* the horizon, and what is not free of them is taken.                     *)
(***************************************************************************)
Room(m) == Minutes(capacity[m])
Left(m) == Minutes(free[m])
Horizon == Now .. HorizonEnd

RoomOK ==
    \A m \in Machines :
        /\ Room(m) \subseteq Now .. (HorizonEnd - 1)
        /\ Left(m) \subseteq Room(m)
        /\ Room(m) \subseteq Left(m) \cup Taken(m)
        /\ \A b \in occupied[m] : b.s < b.e

\* Today and the end of the horizon are well-defined.
LEMMA HorizonType ==
    ASSUME input \in Inputs
    PROVE  /\ Today \in Int /\ HorizonDay \in Int /\ HorizonEnd \in Int
           /\ Horizon \subseteq Nat
<1> DEFINE Is(d) == StartOfDay(d, input.tz) <= input.now /\ input.now < StartOfDay(d + 1, input.tz)
<1>1. /\ input.days \subseteq Int /\ \E d \in input.days : Is(d)
      /\ input.horizon \in Nat /\ input.tz.at \in Int /\ input.tz.by \in Int
  BY PlantAssumption DEF WellFormed
<1>2. Today = CHOOSE d \in input.days : Is(d)
  BY DEF Today, TodayInTz
<1>3. Today \in input.days
  <2> HIDE DEF Is
  <2> QED BY <1>1, <1>2
<1>4. Today \in Int /\ HorizonDay \in Int
  BY <1>1, <1>3 DEF HorizonDay
<1>5. HorizonDay * MinutesPerDay \in Int
  BY <1>4, WeekAssumption
<1>6. HorizonEnd \in Int
  BY <1>1, <1>5 DEF HorizonEnd, StartOfDay, ZonedToUtc, Max2
<1>7. Horizon \subseteq Nat
  BY <1>6, NowType DEF Horizon
<1> QED BY <1>4, <1>6, <1>7

\* The windows of a day are proper instants.
LEMMA DayWindowType ==
    ASSUME input \in Inputs, NEW m \in Machines, NEW d \in Int,
           NEW w \in DayWorkingWindows(Calendar(m), d, input.tz)
    PROVE  w.s \in Int /\ w.e \in Int
<1> DEFINE cal == Calendar(m)
<1>1. PICK inst \in ShiftsOn(cal, d, input.tz) : w \in WithoutBreak(inst)
  BY DEF DayWorkingWindows
<1>2. /\ cal = input.calendars[input.machines[m].calendar]
      /\ input.machines[m].calendar \in DOMAIN input.calendars
      /\ input.tz.at \in Int /\ input.tz.by \in Int
  BY PlantAssumption DEF WellFormed, Machines, Calendar
<1>3. \A i \in DOMAIN cal.shifts : /\ cal.shifts[i].start \in Int /\ cal.shifts[i].end \in Int
                                   /\ cal.shifts[i].break \in Nat
  <2> DEFINE shifts(c) == input.calendars[c].shifts
  <2>1. \A c \in DOMAIN input.calendars : \A i \in DOMAIN shifts(c) :
            /\ {shifts(c)[i].start, shifts(c)[i].end} \subseteq 0..(MinutesPerDay - 1)
            /\ shifts(c)[i].break \in Nat
    BY PlantAssumption, Zenon DEF WellFormed
  <2>2. 0..(MinutesPerDay - 1) \subseteq Int
    BY WeekAssumption
  <2>3. cal.shifts = shifts(input.machines[m].calendar)
    BY <1>2
  <2> HIDE DEF cal, shifts
  <2> QED BY <1>2, <2>1, <2>2, <2>3
<1>4. \A x \in Int : ZonedToUtc(x, input.tz) \in Int
  BY <1>2 DEF ZonedToUtc, Max2
<1>5. \A k \in Int : k * MinutesPerDay \in Int
  BY WeekAssumption
<1>6. inst.s \in Int /\ inst.e \in Int /\ inst.break \in Nat
  <2>1. PICK i \in DOMAIN cal.shifts :
            LET shift  == cal.shifts[i]
                endDay == IF CrossesMidnight(shift) THEN d + 1 ELSE d
            IN  inst = [shift |-> i, date |-> d, break |-> shift.break,
                        s |-> ZonedToUtc(d * MinutesPerDay + shift.start, input.tz),
                        e |-> ZonedToUtc(endDay * MinutesPerDay + shift.end, input.tz)]
    BY DEF ShiftsOn
  <2>2. d * MinutesPerDay + cal.shifts[i].start \in Int
    BY <1>3, <1>5
  <2>3. /\ d * MinutesPerDay + cal.shifts[i].end \in Int
        /\ (d + 1) * MinutesPerDay + cal.shifts[i].end \in Int
    BY <1>3, <1>5
  <2> HIDE DEF cal
  <2>4. inst.break = cal.shifts[i].break /\ inst.s = ZonedToUtc(d * MinutesPerDay + cal.shifts[i].start, input.tz)
    BY <2>1
  <2>5. inst.e \in {ZonedToUtc(d * MinutesPerDay + cal.shifts[i].end, input.tz),
                    ZonedToUtc((d + 1) * MinutesPerDay + cal.shifts[i].end, input.tz)}
    BY <2>1
  <2> QED BY <1>3, <1>4, <2>2, <2>3, <2>4, <2>5
<1>7. \A a \in Int : a \div 2 \in Int
  OBVIOUS
<1> DEFINE break == Min2(inst.e - inst.s, inst.break)
           half == (inst.e - inst.s - break) \div 2
<1>8. break \in Int /\ half \in Int
  <2>1. break \in Int
    BY <1>6 DEF Min2
  <2> HIDE DEF break
  <2> QED BY <1>6, <1>7, <2>1
<1>9. w \in {[s |-> inst.s, e |-> inst.e], [s |-> inst.s, e |-> inst.s + half],
             [s |-> inst.s + half + break, e |-> inst.e]}
  BY <1>1 DEF WithoutBreak
<1> HIDE DEF break, half
<1> QED BY <1>6, <1>8, <1>9

\* Working windows end with the horizon.
LEMMA WorkingWithin ==
    ASSUME input \in Inputs, NEW m \in Machines
    PROVE  Minutes(Working(m)) \subseteq Now .. (HorizonEnd - 1)
<1> DEFINE W == UNION {DayWorkingWindows(Calendar(m), d, input.tz) : d \in (Today - 1) .. (HorizonDay - 1)}
           M == Minutes(Clip(W, Now, HorizonEnd))
<1>0. Now \in Int /\ HorizonEnd \in Int
  BY NowType, HorizonType
<1>1. \A w \in W : w.s \in Int /\ w.e \in Int
  <2>1. ASSUME NEW w \in W PROVE w.s \in Int /\ w.e \in Int
    <3>1. PICK d \in (Today - 1) .. (HorizonDay - 1) : w \in DayWorkingWindows(Calendar(m), d, input.tz)
      OBVIOUS
    <3> QED BY <3>1, HorizonType, DayWindowType
  <2> QED BY <2>1
<1>2. ASSUME NEW t \in M PROVE t \in Now .. (HorizonEnd - 1)
  <2>1. PICK c \in Clip(W, Now, HorizonEnd) : t \in c.s .. (c.e - 1)
    BY InMinutes
  <2>2. PICK w \in W : c = [s |-> Max2(w.s, Now), e |-> Min2(w.e, HorizonEnd)]
    <3> HIDE DEF W
    <3> QED BY DEF Clip
  <2>3. w.s \in Int /\ w.e \in Int
    BY <1>1
  <2> QED BY <1>0, <2>1, <2>2, <2>3 DEF Max2, Min2
<1>3. Minutes(IntervalsOf(M)) \subseteq M
  <2>1. M \in SUBSET Int
    BY <1>0, <1>2
  <2> HIDE DEF M
  <2> QED BY <2>1, InMinutes, IntervalsProper
<1>4. Working(m) = IntervalsOf(M)
  BY DEF Working, WorkingWindows, NormalizeIntervals
<1> QED BY <1>2, <1>3, <1>4

LEMMA RoomInit == Init => RoomOK
<1> SUFFICES ASSUME Init, NEW m \in Machines
             PROVE  /\ Room(m) \subseteq Now .. (HorizonEnd - 1)
                    /\ Left(m) \subseteq Room(m)
                    /\ Room(m) \subseteq Left(m) \cup Taken(m)
                    /\ \A b \in occupied[m] : b.s < b.e
  BY DEF RoomOK
<1>0. input \in Inputs /\ Now \in Nat /\ HorizonEnd \in Int
  <2>1. input \in Inputs
    BY DEF Init
  <2> QED BY <2>1, NowType, HorizonType
<1> DEFINE C == Minutes(Working(m)) \ Minutes(input.downtime[m])
           F == Room(m) \ Minutes(Reserved(m))
           T == Minutes({BusyInterval(f) : f \in FixedOn(m)})
<1>1. capacity[m] = IntervalsOf(C) /\ occupied[m] = Reserved(m) /\ free[m] = IntervalsOf(F)
  BY DEF Init, Capacity, SubtractIntervals, Room
<1>2. C \subseteq Now .. (HorizonEnd - 1)
  BY <1>0, WorkingWithin
<1>3. Room(m) \subseteq C
  <2>1. C \in SUBSET Int
    BY <1>0, <1>2
  <2> HIDE DEF C
  <2> QED BY <1>1, <2>1, InMinutes, IntervalsProper DEF Room
<1>4. Left(m) = F
  <2> DEFINE b == IF HorizonEnd \in Nat THEN HorizonEnd ELSE 0
  <2>1. F \in SUBSET Nat /\ b \in Nat /\ \A t \in F : t <= b
    BY <1>0, <1>2, <1>3
  <2> HIDE DEF F, b
  <2> QED BY <1>1, <2>1, IntervalsCover DEF Left
<1>5. \A b \in occupied[m] : b.s < b.e
  <2>1. T \in SUBSET Int
    BY DEF Minutes
  <2>2. occupied[m] = IntervalsOf(T)
    BY <1>1 DEF Reserved, NormalizeIntervals
  <2> HIDE DEF T
  <2> QED BY <2>1, <2>2, IntervalsProper
<1> QED BY <1>1, <1>2, <1>3, <1>4, <1>5 DEF Taken
(***************************************************************************)
(* The commit of an entry takes its minutes from what is free and nothing  *)
(* else.                                                                   *)
(***************************************************************************)
LEMMA SubtractedMinutes ==
    ASSUME NEW F \in SUBSET Interval, NEW busy \in Interval
    PROVE  LET G == SubtractInterval(F, busy)
           IN  /\ Minutes(G) \subseteq Minutes(F)
               /\ Minutes(F) \subseteq Minutes(G) \cup (busy.s .. (busy.e - 1))
<1> DEFINE G == SubtractInterval(F, busy)
<1>1. CASE busy.e <= busy.s
  BY <1>1 DEF SubtractInterval
<1>2. CASE busy.s < busy.e
  <2>1. \A p : p \in G <=> \E w \in F : p \in Pieces(w, busy)
    BY <1>2 DEF SubtractInterval, Interval
  <2> HIDE DEF G
  <2>2. ASSUME NEW t \in Minutes(G) PROVE t \in Minutes(F)
    <3>1. PICK p \in G : t \in p.s .. (p.e - 1)
      BY InMinutes
    <3>2. PICK w \in F : p \in Pieces(w, busy)
      BY <2>1
    <3>3. t \in w.s .. (w.e - 1)
      BY <1>2, <3>1, <3>2 DEF Pieces, Interval
    <3> QED BY <3>3, InMinutes
  <2>3. ASSUME NEW t \in Minutes(F), t \notin busy.s .. (busy.e - 1) PROVE t \in Minutes(G)
    <3>1. PICK w \in F : t \in w.s .. (w.e - 1)
      BY InMinutes
    <3>2. \E p \in Pieces(w, busy) : t \in p.s .. (p.e - 1)
      <4>1. CASE w.e <= busy.s \/ w.s >= busy.e
        BY <3>1, <4>1 DEF Pieces
      <4>2. CASE ~(w.e <= busy.s \/ w.s >= busy.e)
        <5> DEFINE L == [s |-> w.s, e |-> busy.s]
                   R == [s |-> busy.e, e |-> w.e]
        <5>1. Pieces(w, busy) = {p \in {L, R} : p.s < p.e}
          BY <4>2 DEF Pieces
        <5>2. w.s \in Int /\ w.e \in Int /\ busy.s \in Int /\ busy.e \in Int
          BY DEF Interval
        <5>3. CASE t < busy.s
          <6>1. t \in L.s .. (L.e - 1) /\ L.s < L.e
            BY <2>3, <3>1, <5>2, <5>3
          <6> QED BY <5>1, <6>1
        <5>4. CASE t >= busy.e
          <6>1. t \in R.s .. (R.e - 1) /\ R.s < R.e
            BY <2>3, <3>1, <5>2, <5>4
          <6> QED BY <5>1, <6>1
        <5> QED BY <2>3, <3>1, <5>2, <5>3, <5>4
      <4> QED BY <4>1, <4>2
    <3> QED BY <2>1, <3>2, InMinutes
  <2> QED BY <2>2, <2>3 DEF G
<1> QED BY <1>1, <1>2 DEF Interval

LEMMA RoomStays ==
    ASSUME RoomOK, UNCHANGED <<input, capacity, free, occupied>>
    PROVE  RoomOK'
<1>1. Now' = Now /\ HorizonEnd' = HorizonEnd /\ Machines' = Machines
  BY DEF Now, HorizonEnd, HorizonDay, Today, Machines
<1> QED BY <1>1 DEF RoomOK, Room, Left, Taken

LEMMA RoomNext == IInv /\ RoomOK /\ [Next]_vars => RoomOK'
<1> SUFFICES ASSUME IInv, RoomOK, [Next]_vars PROVE RoomOK'
  OBVIOUS
<1>1. CASE CommitEntry
  <2>1. PICK p \in planned :
            /\ pc = "commit"
            /\ free' = [free EXCEPT ![p.machine] = SubtractInterval(@, [s |-> p.start, e |-> p.end])]
            /\ occupied' = [occupied EXCEPT ![p.machine] =
                               NormalizeIntervals(@ \cup {[s |-> p.start, e |-> p.end]})]
            /\ UNCHANGED <<input, capacity>>
    BY <1>1 DEF CommitEntry
  <2> DEFINE k == p.machine
             busy == [s |-> p.start, e |-> p.end]
             I == occupied[k] \cup {busy}
  <2>2. \A m \in Machines : Taken(m)' = IF m = k THEN Taken(m) \cup (p.start .. (p.end - 1)) ELSE Taken(m)
    BY <2>1, EntryTaken
  <2>3. p \in Entry /\ free \in [Machines -> SUBSET Interval] /\ occupied \in [Machines -> SUBSET Interval]
    BY DEF IInv, TypeOK
  <2>4. k \in Machines /\ busy \in Interval /\ busy.s = p.start /\ busy.e = p.end /\ free[k] \in SUBSET Interval
    BY <2>3 DEF Entry, Interval
  <2>5. /\ free'[k] = SubtractInterval(free[k], busy)
        /\ occupied'[k] = NormalizeIntervals(I)
        /\ \A m \in Machines \ {k} : free'[m] = free[m] /\ occupied'[m] = occupied[m]
    BY <2>1, <2>3, <2>4
  <2>6. \A b \in occupied'[k] : b.s < b.e
    <3>1. Minutes(I) \in SUBSET Int
      BY DEF Minutes
    <3> HIDE DEF I
    <3> QED BY <2>5, <3>1, IntervalsProper DEF NormalizeIntervals
  <2>7. /\ Left(k)' \subseteq Left(k)
        /\ Left(k) \subseteq Left(k)' \cup (p.start .. (p.end - 1))
    <3> HIDE DEF busy
    <3>1. /\ Minutes(free'[k]) \subseteq Minutes(free[k])
          /\ Minutes(free[k]) \subseteq Minutes(free'[k]) \cup (busy.s .. (busy.e - 1))
      BY <2>4, <2>5, SubtractedMinutes
    <3>2. k' = k
      OBVIOUS
    <3> HIDE DEF k
    <3> QED BY <2>4, <3>1, <3>2 DEF Left
  <2>8. \A m \in Machines \ {k} : Left(m)' = Left(m) /\ Taken(m)' = Taken(m)
    BY <2>2, <2>5 DEF Left
  <2>9. \A m : Room(m)' = Room(m)
    BY <2>1 DEF Room
  <2>10. Now' = Now /\ HorizonEnd' = HorizonEnd /\ Machines' = Machines
    BY <2>1 DEF Now, HorizonEnd, HorizonDay, Today, Machines
  <2>11. Taken(k)' = Taken(k) \cup (p.start .. (p.end - 1))
    BY <2>2, <2>4
  <2>12. ASSUME NEW m \in Machines
         PROVE  /\ Room(m) \subseteq Now .. (HorizonEnd - 1)
                /\ Left(m)' \subseteq Room(m)
                /\ Room(m) \subseteq Left(m)' \cup Taken(m)'
                /\ \A b \in occupied'[m] : b.s < b.e
    <3> HIDE DEF k
    <3>1. CASE m = k
      BY <2>6, <2>7, <2>11, <3>1 DEF RoomOK
    <3>2. CASE m # k
      BY <2>5, <2>8, <3>2 DEF RoomOK
    <3> QED BY <3>1, <3>2
  <2> QED BY <2>9, <2>10, <2>12 DEF RoomOK
<1>2. CASE ~CommitEntry
  <2>1. UNCHANGED <<input, capacity, free, occupied>>
    BY <1>2 DEF Next, CheckLockedEntries, NoRouting, TakeOrder, MachineUnavailable, TakeStep, TryMachine, UseWindow,
                SkipWindow, FillWindow, FinishInWindow, NoWindowLeft, PlaceStep, NoCapacity, CommitOrder,
                OrderCommitted, OrdersDone, ConsumeMaterials, Assess, vars, planVars
  <2> QED BY <2>1, RoomStays
<1> QED BY <1>1, <1>2
(***************************************************************************)
(* The search.  An offer is a place on a machine for the step at hand.     *)
(* The minutes already found on the machine being tried are counted by     *)
(* need; no offer of it starts before the placement under way or ends with *)
(* the windows used; those of the machines tried before are no better than *)
(* the best.                                                               *)
(***************************************************************************)
Worked(m, s, e) == Count(Left(m), s, e)
Effort(m) == Max2(0, Minute(m))
Suited == Eligible(Routing(order)[Step])

Offer(m, s, e) ==
    /\ s \in Left(m) /\ StepEarliest <= s /\ s <= e
    /\ Clear(m, s, e)
    /\ e = s \/ e - 1 \in Left(m)
    /\ Worked(m, s, e) = Effort(m)

Beaten(m) ==
    \A s, e \in Horizon : Offer(m, s, e) =>
        best # None /\ (best.end < e \/ (best.end = e /\ best.machine <= m))

FillOK ==
    pc = "windows" => LET m == scan.machine IN
        /\ m \in Suited
        /\ scan.minutes = Effort(m)
        /\ scan.start < 0 => /\ scan.need = scan.minutes
                             /\ \A v \in free[m] \ scan.left : v.e <= scan.earliest
        /\ scan.start >= 0 => /\ scan.need \in 1 .. scan.minutes
                              /\ scan.start \in Left(m)
                              /\ \A v \in free[m] \ scan.left : v.e <= scan.prevEnd
                              /\ Worked(m, scan.start, scan.prevEnd) = scan.minutes - scan.need

AheadOK ==
    pc = "windows" =>
        \A s, e \in Horizon : Offer(scan.machine, s, e) =>
            scan.start < 0 \/ (scan.start <= s /\ scan.prevEnd < e)

SearchOK ==
    pc \in {"machines", "windows"} =>
        /\ choices \subseteq Suited
        /\ best # None => /\ best.machine \in Suited /\ best.minutes = Effort(best.machine)
                          /\ Offer(best.machine, best.start, best.end)
        /\ \A m \in Suited \ choices : Beaten(m) \/ (pc = "windows" /\ m = scan.machine)

\* What holds of a planned step and of an entry.
Held(p) ==
    /\ Count(Room(p.machine), p.start, p.end) = p.minutes
    /\ Now <= p.start /\ p.end <= HorizonEnd

HeldOK == \A p \in entries \cup (IF pc \in WithJob THEN planned ELSE {}) : Held(p)

PlaceInv ==
    /\ RoomOK
    /\ FillOK
    /\ AheadOK
    /\ SearchOK
    /\ HeldOK

\* An offer lies within the horizon and has its minutes in working time.
LEMMA OfferHeld ==
    ASSUME IInv, RoomOK, order \in Candidates, prevEnd \in Nat,
           NEW m \in Machines, NEW s \in Int, NEW e \in Int, Offer(m, s, e)
    PROVE  /\ s \in Horizon /\ e \in Horizon
           /\ Count(Room(m), s, e) = Effort(m)
<1>0. input \in Inputs
  BY DEF IInv
<1>1. Now \in Nat /\ HorizonEnd \in Int
  BY <1>0, NowType, HorizonType
<1>2. /\ s \in Left(m) /\ s <= e /\ (e = s \/ e - 1 \in Left(m))
      /\ Worked(m, s, e) = Effort(m)
      /\ \A t \in Taken(m) : t < s \/ e <= t
  BY DEF Offer, Clear
<1>3. /\ Left(m) \subseteq Now .. (HorizonEnd - 1)
      /\ Left(m) \subseteq Room(m) /\ Room(m) \subseteq Left(m) \cup Taken(m)
  BY DEF RoomOK
<1>4. s \in Horizon /\ e \in Horizon
  BY <1>1, <1>2, <1>3 DEF Horizon
<1>5. Room(m) \cap (s .. (e - 1)) = Left(m) \cap (s .. (e - 1))
  <2>1. ASSUME NEW t \in Taken(m), t \in s .. (e - 1) PROVE FALSE
    BY <1>2, <2>1
  <2> QED BY <1>3, <2>1
<1> QED BY <1>2, <1>4, <1>5 DEF Worked, Count

\* The free minutes from the start of the placement to the window in use are
\* those counted so far.
LEMMA CountedSoFar ==
    ASSUME IInv, RoomOK, FillOK, pc = "windows", NEW w \in scan.left, NextWindow(w), w.e > scan.earliest
    PROVE  LET m == scan.machine IN
           /\ m \in Machines
           /\ From(w) .. (w.e - 1) \subseteq Left(m)
           /\ Start(w) \in Left(m)
           /\ Need(w) <= scan.minutes
           /\ Start(w) < From(w) => Need(w) > 0
           /\ \A x \in Int : From(w) <= x /\ x <= w.e =>
                  Worked(m, Start(w), x) = scan.minutes - Need(w) + (x - From(w))
<1> DEFINE m == scan.machine
<1>1. /\ w \in Interval /\ w \in free[m]
      /\ Start(w) \in Nat /\ scan.earliest <= Start(w) /\ Start(w) <= From(w)
      /\ From(w) \in Nat /\ w.s <= From(w) /\ From(w) < w.e
      /\ Need(w) \in Nat
  BY ClearToWindowEnd
<1>2. /\ scan \in Scan /\ m \in Machines /\ scan.earliest \in Int /\ scan.minutes \in Nat /\ scan.need \in Nat
      /\ scan.start \in Int /\ scan.prevEnd \in Int /\ w.s \in Int /\ w.e \in Int /\ scan.left \subseteq free[m]
      /\ scan.start >= 0 => /\ scan.earliest <= scan.start /\ scan.start <= scan.prevEnd
                            /\ \A v \in scan.left : scan.prevEnd <= v.s
  BY <1>1 DEF IInv, ScanOK, Scan, Interval
<1>3. From(w) .. (w.e - 1) \subseteq Left(m)
  BY <1>1, <1>2, InMinutes DEF Left
<1>4. From(w) \in Left(m)
  BY <1>1, <1>2, <1>3
<1>5. \A x \in Int : From(w) <= x /\ x <= w.e => Worked(m, From(w), x) = x - From(w)
  <2>1. ASSUME NEW x \in Int, From(w) <= x, x <= w.e PROVE Worked(m, From(w), x) = x - From(w)
    <3>1. From(w) .. (x - 1) \subseteq Left(m)
      BY <1>1, <1>2, <1>3, <2>1
    <3> QED BY <1>1, <2>1, <3>1, CountAll DEF Worked
  <2> QED BY <2>1
<1>6. CASE scan.start < 0 \/ Blocked(w)
  <2>1. Start(w) = From(w) /\ Need(w) = scan.minutes
    BY <1>6 DEF Start, Need, Blocked, FillOK
  <2> QED BY <1>1, <1>2, <1>3, <1>4, <1>5, <2>1
<1>7. CASE ~(scan.start < 0 \/ Blocked(w))
  <2>1. Start(w) = scan.start /\ Need(w) = scan.need /\ scan.start >= 0
    BY <1>2, <1>7 DEF Start, Need
  <2>2. /\ scan.need \in 1 .. scan.minutes /\ scan.start \in Left(m)
        /\ \A v \in free[m] \ scan.left : v.e <= scan.prevEnd
        /\ Worked(m, scan.start, scan.prevEnd) = scan.minutes - scan.need
    BY <2>1 DEF FillOK
  <2>3. scan.prevEnd <= w.s /\ From(w) = w.s
    BY <1>2, <2>1 DEF From, Max2
  <2>4. Left(m) \cap (scan.prevEnd .. (w.s - 1)) = {}
    <3>1. ASSUME NEW t \in Left(m), t \in scan.prevEnd .. (w.s - 1) PROVE FALSE
      <4>1. PICK v \in free[m] : t \in v.s .. (v.e - 1)
        BY InMinutes DEF Left
      <4>2. v \in Interval
        BY <1>2 DEF IInv, TypeOK
      <4>3. CASE v \in scan.left
        BY <1>2, <3>1, <4>1, <4>2, <4>3 DEF NextWindow, Interval
      <4>4. CASE v \notin scan.left
        BY <1>2, <2>2, <3>1, <4>1, <4>2, <4>4 DEF Interval
      <4> QED BY <4>3, <4>4
    <3> QED BY <3>1
  <2>5. Worked(m, scan.prevEnd, w.s) = 0
    BY <2>4, CountNone DEF Worked
  <2>6. ASSUME NEW x \in Int, w.s <= x, x <= w.e
        PROVE  Worked(m, scan.start, x) = scan.minutes - scan.need + (x - w.s)
    <3>1. Worked(m, scan.start, x) = Worked(m, scan.start, scan.prevEnd) + Worked(m, scan.prevEnd, x)
      BY <1>2, <2>1, <2>3, <2>6, CountSplit DEF Worked
    <3>2. Worked(m, scan.prevEnd, x) = Worked(m, scan.prevEnd, w.s) + Worked(m, w.s, x)
      BY <1>2, <2>3, <2>6, CountSplit DEF Worked
    <3>3. Worked(m, w.s, x) = x - w.s
      BY <1>5, <2>3, <2>6
    <3> QED BY <1>2, <2>2, <2>5, <2>6, <3>1, <3>2, <3>3
  <2> QED BY <1>2, <1>3, <2>1, <2>2, <2>3, <2>6
<1> QED BY <1>6, <1>7

\* No offer of the machine starts earlier, and none that ends in this window
\* ends before the work is done.
LEMMA NoneEarlier ==
    ASSUME IInv, RoomOK, FillOK, AheadOK, pc = "windows", NEW w \in scan.left, NextWindow(w), w.e > scan.earliest,
           NEW s \in Horizon, NEW e \in Horizon, Offer(scan.machine, s, e)
    PROVE  Start(w) <= s /\ (w.e < e \/ From(w) + Need(w) <= e)
<1> DEFINE m == scan.machine
<1>1. /\ w \in Interval /\ w \in free[m]
      /\ Start(w) \in Nat /\ scan.earliest <= Start(w) /\ Start(w) <= From(w)
      /\ From(w) \in Nat /\ w.s <= From(w) /\ From(w) < w.e
      /\ Need(w) \in Nat
  BY ClearToWindowEnd
<1>2. /\ scan \in Scan /\ scan.earliest \in Int /\ scan.minutes \in Nat /\ scan.need \in Nat
      /\ scan.start \in Int /\ scan.prevEnd \in Int /\ w.s \in Int /\ w.e \in Int /\ scan.left \subseteq free[m]
      /\ scan.earliest = StepEarliest
      /\ scan.start >= 0 => /\ scan.earliest <= scan.start /\ scan.start <= scan.prevEnd
                            /\ \A v \in scan.left : scan.prevEnd <= v.s
  BY <1>1 DEF IInv, ScanOK, Scan, Interval
<1>3. m \in Machines
  BY DEF IInv, ScanOK, Scan
<1>4. s \in Nat /\ e \in Nat
  BY HorizonType DEF IInv
<1>5. /\ s \in Left(m) /\ StepEarliest <= s /\ s <= e /\ (e = s \/ e - 1 \in Left(m))
      /\ Worked(m, s, e) = Effort(m)
      /\ \A t \in Taken(m) : t < s \/ e <= t
  BY DEF Offer, Clear
<1>6. \A v \in free[m] : v.s \in Int /\ v.e \in Int
  BY <1>3 DEF IInv, TypeOK, Interval
<1>7. Start(w) <= s
  <2>1. CASE scan.start < 0
    <3>1. PICK v \in free[m] : s \in v.s .. (v.e - 1)
      BY <1>5, InMinutes DEF Left
    <3>2. v \in scan.left
      <4>1. \A u \in free[m] \ scan.left : u.e <= scan.earliest
        BY <2>1 DEF FillOK
      <4> QED BY <1>2, <1>4, <1>5, <1>6, <3>1, <4>1
    <3>3. w.s <= v.s
      BY <3>2 DEF NextWindow
    <3>4. From(w) <= s
      BY <1>2, <1>4, <1>5, <1>6, <3>1, <3>3 DEF From, Max2
    <3> QED BY <2>1, <3>4 DEF Start
  <2>2. CASE scan.start >= 0
    <3>1. scan.start <= s /\ scan.prevEnd < e
      BY <1>2, <2>2 DEF AheadOK
    <3>2. CASE ~Blocked(w)
      BY <1>2, <2>2, <3>1, <3>2 DEF Start
    <3>3. CASE Blocked(w)
      <4>1. Start(w) = From(w) /\ scan.prevEnd <= w.s /\ From(w) = w.s
        BY <1>2, <2>2, <3>3 DEF Start, From, Max2
      <4>2. PICK b \in occupied[m] : b.e > scan.prevEnd /\ b.s < From(w)
        BY <3>3 DEF Blocked
      <4>3. b.s \in Int /\ b.e \in Int /\ b.s < b.e
        BY <1>3 DEF IInv, TypeOK, Interval, RoomOK
      <4>4. \A t \in Left(m) : t < scan.prevEnd \/ w.s <= t
        <5>1. ASSUME NEW t \in Left(m) PROVE t < scan.prevEnd \/ w.s <= t
          <6>1. PICK v \in free[m] : t \in v.s .. (v.e - 1)
            BY InMinutes DEF Left
          <6>2. CASE v \in scan.left
            BY <1>2, <1>6, <6>1, <6>2 DEF NextWindow
          <6>3. CASE v \notin scan.left
            <7>1. v.e <= scan.prevEnd
              BY <2>2, <6>3 DEF FillOK
            <7> QED BY <1>2, <1>6, <6>1, <7>1
          <6> QED BY <6>2, <6>3
        <5> QED BY <5>1
      <4>5. SUFFICES ASSUME s < w.s PROVE FALSE
        BY <1>2, <1>4, <4>1
      <4>6. s < scan.prevEnd /\ w.s <= e - 1
        BY <1>2, <1>4, <1>5, <3>1, <4>4, <4>5
      <4> DEFINE t == IF b.s <= s THEN s ELSE b.s
      <4>7. t \in b.s .. (b.e - 1) /\ s <= t /\ t < e
        BY <1>2, <1>4, <4>1, <4>2, <4>3, <4>6
      <4>8. t \in Taken(m)
        BY <4>7, InMinutes DEF Taken
      <4> HIDE DEF t
      <4>9. t \in Int
        BY <4>7
      <4> QED BY <1>4, <1>5, <4>7, <4>8, <4>9
    <3> QED BY <3>2, <3>3
  <2> QED BY <1>2, <2>1, <2>2
<1>8. ASSUME e <= w.e, e < From(w) + Need(w) PROVE FALSE
  <2> DEFINE x == IF e >= From(w) THEN e ELSE From(w)
  <2>1. /\ Need(w) <= scan.minutes /\ (Start(w) < From(w) => Need(w) > 0)
        /\ \A y \in Int : From(w) <= y /\ y <= w.e =>
              Worked(m, Start(w), y) = scan.minutes - Need(w) + (y - From(w))
    BY CountedSoFar
  <2>2. x \in Int /\ From(w) <= x /\ x <= w.e /\ e <= x /\ x - From(w) < Need(w)
    BY <1>1, <1>2, <1>4, <1>5, <1>7, <1>8, <2>1
  <2> HIDE DEF x
  <2>3. Worked(m, Start(w), x) < scan.minutes
    BY <1>1, <1>2, <2>1, <2>2
  <2>4. Worked(m, s, e) <= Worked(m, Start(w), x)
    BY <1>1, <1>4, <1>7, <2>2, CountWithin DEF Worked
  <2>5. Worked(m, s, e) = scan.minutes
    BY <1>5 DEF FillOK
  <2>6. Worked(m, Start(w), x) \in Int
    BY <1>1, <1>2, <2>1, <2>2
  <2> QED BY <1>2, <2>3, <2>4, <2>5, <2>6
<1> QED BY <1>1, <1>2, <1>4, <1>7, <1>8

\* Once all windows are used there is no offer.
LEMMA NoneLeft ==
    ASSUME IInv, RoomOK, FillOK, AheadOK, pc = "windows", scan.left = {},
           NEW s \in Horizon, NEW e \in Horizon, Offer(scan.machine, s, e)
    PROVE  FALSE
<1> DEFINE m == scan.machine
<1>1. /\ m \in Machines /\ scan.earliest \in Int /\ scan.start \in Int /\ scan.prevEnd \in Int
      /\ scan.earliest = StepEarliest
  BY DEF IInv, ScanOK, Scan
<1>2. s \in Nat /\ e \in Nat
  BY HorizonType DEF IInv
<1>3. s \in Left(m) /\ StepEarliest <= s /\ s <= e /\ (e = s \/ e - 1 \in Left(m))
  BY DEF Offer
<1>4. \A t \in Left(m) : \E v \in free[m] : t \in v.s .. (v.e - 1) /\ v.s \in Int /\ v.e \in Int
  BY <1>1, InMinutes DEF Left, IInv, TypeOK, Interval
<1>5. CASE scan.start < 0
  <2>1. \A v \in free[m] : v.e <= scan.earliest
    BY <1>5 DEF FillOK
  <2> QED BY <1>1, <1>2, <1>3, <1>4, <2>1
<1>6. CASE scan.start >= 0
  <2>1. \A v \in free[m] : v.e <= scan.prevEnd
    BY <1>6 DEF FillOK
  <2>2. scan.prevEnd < e
    BY <1>1, <1>6 DEF AheadOK
  <2>3. \A t \in Left(m) : t \in Int /\ t < scan.prevEnd
    BY <1>1, <1>4, <2>1
  <2> QED BY <1>1, <1>2, <1>3, <2>2, <2>3
<1> QED BY <1>1, <1>5, <1>6
(***************************************************************************)
(* The steps of the search.                                                *)
(***************************************************************************)

\* Offers change only with the plan and the step at hand.
LEMMA SameOffers ==
    ASSUME UNCHANGED <<input, order, todo, prevEnd, free, occupied>>
    PROVE  /\ Suited' = Suited /\ Horizon' = Horizon
           /\ \A m : Effort(m)' = Effort(m) /\ Left(m)' = Left(m)
           /\ \A m, s, e : Worked(m, s, e)' = Worked(m, s, e) /\ Offer(m, s, e)' = Offer(m, s, e)
<1>1. Step' = Step /\ \A o : Routing(o)' = Routing(o)
  BY DEF Step, Routing
<1>2. Now' = Now /\ HorizonEnd' = HorizonEnd
  BY DEF Now, HorizonEnd, HorizonDay, Today
<1>3. Suited' = Suited
  BY <1>1 DEF Suited, Eligible, Machines, Active
<1>4. ASSUME NEW m PROVE Effort(m)' = Effort(m) /\ Left(m)' = Left(m) /\ Taken(m)' = Taken(m)
  BY <1>1 DEF Effort, Minute, Left, Taken
<1>5. StepEarliest' = StepEarliest
  BY InputFixed DEF StepEarliest
<1>6. ASSUME NEW m, NEW s, NEW e
      PROVE  Worked(m, s, e)' = Worked(m, s, e) /\ Offer(m, s, e)' = Offer(m, s, e)
  <2>1. Worked(m, s, e)' = Worked(m, s, e)
    BY <1>4 DEF Worked, Count
  <2> QED BY <1>4, <1>5, <2>1 DEF Offer, Clear
<1> QED BY <1>2, <1>3, <1>4, <1>6 DEF Horizon

LEMMA SuitedMachines == Suited \subseteq Machines
BY DEF Suited, Eligible

LEMMA HeldStays ==
    ASSUME UNCHANGED <<input, capacity>>
    PROVE  \A p : Held(p)' = Held(p)
BY DEF Held, Count, Room, Now, HorizonEnd, HorizonDay, Today

\* The machines of a step are tried one after the other.
LEMMA TakeStepPlace == IInv /\ PlaceInv /\ TakeStep => PlaceInv'
<1> SUFFICES ASSUME IInv, PlaceInv, TakeStep PROVE PlaceInv'
  OBVIOUS
<1>1. /\ pc = "steps" /\ pc' = "machines" /\ choices' = Suited /\ best' = None
      /\ UNCHANGED <<input, capacity, order, todo, planned, free, occupied, entries>>
  BY DEF TakeStep, planVars, Suited
<1>2. Suited' = Suited
  BY <1>1 DEF Suited, Eligible, Machines, Active, Step, Routing
<1>3. SearchOK' /\ FillOK' /\ AheadOK'
  BY <1>1, <1>2 DEF SearchOK, FillOK, AheadOK
<1>4. HeldOK'
  BY <1>1, HeldStays DEF PlaceInv, HeldOK, WithJob, Placing
<1>5. RoomOK'
  BY <1>1, RoomStays DEF PlaceInv
<1> QED BY <1>3, <1>4, <1>5 DEF PlaceInv

\* What a step of the search leaves as it is.
searchVars == <<input, capacity, order, todo, prevEnd, planned, free, occupied, entries>>

LEMMA SearchFrame ==
    ASSUME PlaceInv, UNCHANGED searchVars,
           pc \in {"machines", "windows"}, pc' \in {"machines", "windows"}
    PROVE  RoomOK' /\ HeldOK'
<1>1. RoomOK'
  BY RoomStays DEF PlaceInv, searchVars
<1>2. HeldOK'
  BY HeldStays DEF PlaceInv, searchVars, HeldOK, WithJob, Placing
<1> QED BY <1>1, <1>2

LEMMA TryMachinePlace == IInv /\ PlaceInv /\ TryMachine => PlaceInv'
<1> SUFFICES ASSUME IInv, PlaceInv, TryMachine PROVE PlaceInv'
  OBVIOUS
<1> USE DEF PlaceInv
<1>1. PICK m \in choices :
          /\ choices' = choices \ {m}
          /\ scan' = [machine |-> m, left |-> free[m], earliest |-> StepEarliest,
                      minutes |-> Effort(m), need |-> Effort(m),
                      start |-> NoTime, prevEnd |-> NoTime]
          /\ pc = "machines" /\ pc' = "windows"
          /\ best' = best
          /\ UNCHANGED searchVars
  BY DEF TryMachine, jobVars, planVars, searchVars, Effort
<1>2. /\ Suited' = Suited /\ Horizon' = Horizon
      /\ \A n : Effort(n)' = Effort(n) /\ Left(n)' = Left(n)
      /\ \A n, s, e : Offer(n, s, e)' = Offer(n, s, e)
  BY <1>1, SameOffers DEF searchVars
<1>3. m \in Suited
  BY <1>1 DEF SearchOK
<1>4. /\ scan'.machine = m /\ scan'.left = free'[m] /\ scan'.minutes = Effort(m) /\ scan'.need = Effort(m)
      /\ scan'.start = NoTime
  BY <1>1 DEF searchVars
<1>5. FillOK'
  BY <1>1, <1>2, <1>3, <1>4 DEF FillOK, NoTime
<1>6. AheadOK'
  BY <1>4 DEF AheadOK, NoTime
<1>7. ASSUME NEW n, Beaten(n) PROVE Beaten(n)'
  BY <1>1, <1>2, <1>7 DEF Beaten
<1>8. SearchOK'
  <2> PICK b : b = best
    OBVIOUS
  <2>1. /\ choices \subseteq Suited
        /\ b # None => b.machine \in Suited /\ b.minutes = Effort(b.machine) /\ Offer(b.machine, b.start, b.end)
        /\ \A n \in Suited \ choices : Beaten(n)
    BY <1>1 DEF SearchOK
  <2>2. b = best'
    BY <1>1
  <2>3. \A n \in Suited' \ choices' : Beaten(n)' \/ n = scan'.machine
    BY <1>1, <1>2, <1>4, <1>7, <2>1
  <2> QED BY <1>1, <1>2, <2>1, <2>2, <2>3 DEF SearchOK
<1> QED BY <1>1, <1>5, <1>6, <1>8, SearchFrame

LEMMA SkipWindowPlace ==
    ASSUME IInv, PlaceInv, pc = "windows", NEW w \in scan.left, SkipWindow(w)
    PROVE  PlaceInv'
<1> USE DEF PlaceInv
<1>1. /\ scan' = [scan EXCEPT !.left = @ \ {w}] /\ pc' = "windows" /\ w.e <= scan.earliest
      /\ choices' = choices /\ best' = best /\ UNCHANGED searchVars
  BY DEF SkipWindow, jobVars, planVars, searchVars
<1>2. /\ Suited' = Suited /\ Horizon' = Horizon
      /\ \A n : Effort(n)' = Effort(n) /\ Left(n)' = Left(n)
      /\ \A n, s, e : Worked(n, s, e)' = Worked(n, s, e) /\ Offer(n, s, e)' = Offer(n, s, e)
  BY <1>1, SameOffers DEF searchVars
<1>3. /\ scan \in Scan
      /\ w.e \in Int /\ scan.earliest \in Int /\ scan.start \in Int /\ scan.prevEnd \in Int
      /\ scan.start >= 0 => scan.earliest <= scan.start /\ scan.start <= scan.prevEnd
  BY DEF IInv, ScanOK, Scan, Interval
<1>4. /\ scan'.left = scan.left \ {w} /\ scan'.machine = scan.machine /\ scan'.minutes = scan.minutes
      /\ scan'.earliest = scan.earliest /\ scan'.start = scan.start /\ scan'.prevEnd = scan.prevEnd
      /\ scan'.need = scan.need
  BY <1>1, <1>3 DEF Scan
<1>5. FillOK'
  <2> PICK m, a, k, b : m = scan.machine /\ a = scan.start /\ k = scan.need /\ b = scan.prevEnd
    OBVIOUS
  <2>1. /\ m \in Suited /\ scan.minutes = Effort(m)
        /\ a < 0 => k = scan.minutes /\ \A v \in free[m] \ scan.left : v.e <= scan.earliest
        /\ a >= 0 => /\ k \in 1 .. scan.minutes /\ a \in Left(m)
                     /\ \A v \in free[m] \ scan.left : v.e <= b
                     /\ Worked(m, a, b) = scan.minutes - k
    BY DEF FillOK
  <2>2. free' = free
    BY <1>1 DEF searchVars
  <2>3. a >= 0 => w.e <= b
    <3>1. w.e <= scan.earliest
      BY <1>1
    <3> QED BY <1>3, <3>1
  <2> QED BY <1>1, <1>2, <1>4, <2>1, <2>2, <2>3 DEF FillOK
<1>6. AheadOK'
  <2> PICK m : m = scan.machine
    OBVIOUS
  <2>1. \A s, e \in Horizon : Offer(m, s, e) => scan.start < 0 \/ (scan.start <= s /\ scan.prevEnd < e)
    BY DEF AheadOK
  <2> QED BY <1>1, <1>2, <1>4, <2>1 DEF AheadOK
<1>7. ASSUME NEW n, Beaten(n) PROVE Beaten(n)'
  BY <1>1, <1>2, <1>7 DEF Beaten
<1>8. SearchOK'
  <2> PICK b : b = best
    OBVIOUS
  <2>1. /\ choices \subseteq Suited
        /\ b # None => b.machine \in Suited /\ b.minutes = Effort(b.machine) /\ Offer(b.machine, b.start, b.end)
        /\ \A n \in Suited \ choices : Beaten(n) \/ n = scan.machine
    BY DEF SearchOK
  <2>2. b = best'
    BY <1>1
  <2>3. \A n \in Suited' \ choices' : Beaten(n)' \/ n = scan'.machine
    BY <1>1, <1>2, <1>4, <1>7, <2>1
  <2> QED BY <1>1, <1>2, <2>1, <2>2, <2>3 DEF SearchOK
<1> QED BY <1>1, <1>5, <1>6, <1>8, SearchFrame
LEMMA FillWindowPlace ==
    ASSUME IInv, PlaceInv, pc = "windows", NEW w \in scan.left, NextWindow(w), FillWindow(w)
    PROVE  PlaceInv'
<1> USE DEF PlaceInv
<1> PICK m, start, need : m = scan.machine /\ start = Start(w) /\ need = Need(w)
  OBVIOUS
<1>1. /\ scan' = [scan EXCEPT !.left = @ \ {w}, !.start = start,
                              !.need = need - (w.e - From(w)), !.prevEnd = w.e]
      /\ w.e > scan.earliest /\ w.e - From(w) < need
      /\ pc' = "windows"
      /\ choices' = choices /\ best' = best /\ UNCHANGED searchVars
  BY DEF FillWindow, jobVars, planVars, searchVars
<1>2. /\ Suited' = Suited /\ Horizon' = Horizon
      /\ \A n : Effort(n)' = Effort(n) /\ Left(n)' = Left(n)
      /\ \A n, s, e : Worked(n, s, e)' = Worked(n, s, e) /\ Offer(n, s, e)' = Offer(n, s, e)
  BY <1>1, SameOffers DEF searchVars
<1>3. /\ scan \in Scan /\ scan.left \subseteq free[m] /\ m \in Machines
      /\ scan.earliest \in Int /\ scan.start \in Int /\ scan.prevEnd \in Int /\ scan.minutes \in Nat
      /\ w.s \in Int /\ w.e \in Int
      /\ \A v \in scan.left : scan.start >= 0 => scan.prevEnd <= v.s
      /\ w.s < w.e
  BY DEF IInv, ScanOK, Scan, Interval, FreeOK
<1>4. /\ start \in Nat /\ start <= From(w) /\ scan.earliest <= start
      /\ From(w) \in Nat /\ From(w) < w.e /\ need \in Nat
  BY <1>1, ClearToWindowEnd
<1>5. /\ scan'.left = scan.left \ {w} /\ scan'.machine = m /\ scan'.minutes = scan.minutes
      /\ scan'.start = start /\ scan'.prevEnd = w.e
      /\ scan'.need = need - (w.e - From(w))
  BY <1>1, <1>3 DEF Scan
<1>6. /\ start \in Left(m) /\ need <= scan.minutes
      /\ Worked(m, start, w.e) = scan.minutes - need + (w.e - From(w))
  <2>1. /\ Start(w) \in Left(m) /\ Need(w) <= scan.minutes
        /\ \A x \in Int : From(w) <= x /\ x <= w.e =>
              Worked(m, Start(w), x) = scan.minutes - Need(w) + (x - From(w))
    BY <1>1, CountedSoFar
  <2> QED BY <1>3, <1>4, <2>1
<1>7. \A v \in free[m] \ (scan.left \ {w}) : v.e <= w.e
  <2>1. ASSUME NEW v \in free[m] \ scan.left PROVE v.e <= w.e
    <3>1. v.e \in Int
      BY <1>3 DEF IInv, TypeOK, Interval
    <3>2. scan.start < 0 => v.e <= scan.earliest
      BY DEF FillOK
    <3>3. scan.start >= 0 => v.e <= scan.prevEnd
      BY DEF FillOK
    <3>4. scan.start >= 0 => scan.prevEnd <= w.s
      BY <1>3
    <3> QED BY <1>1, <1>3, <3>1, <3>2, <3>3, <3>4
  <2> QED BY <1>3, <2>1
<1>8. FillOK'
  <2>1. m \in Suited /\ scan.minutes = Effort(m)
    BY DEF FillOK
  <2>2. free' = free
    BY <1>1 DEF searchVars
  <2>3. scan'.need \in 1 .. scan'.minutes
    BY <1>1, <1>3, <1>4, <1>5, <1>6
  <2>4. Worked(m, start, w.e) = scan'.minutes - scan'.need
    BY <1>3, <1>4, <1>5, <1>6
  <2>5. start >= 0
    BY <1>4
  <2>6. scan'.minutes = Effort(m)' /\ start \in Left(m)' /\ m \in Suited'
    BY <1>2, <1>5, <1>6, <2>1
  <2>7. scan'.start = start /\ scan'.prevEnd = w.e /\ scan'.left = scan.left \ {w} /\ scan'.machine = m
    BY <1>5
  <2>8. w.e' = w.e /\ Worked(m, start, w.e)' = Worked(m, start, w.e)
    BY <1>2
  <2>9. ~(scan'.start < 0)
    BY <1>4, <2>7
  <2> QED BY <1>7, <2>2, <2>3, <2>4, <2>6, <2>7, <2>8, <2>9 DEF FillOK
<1>9. AheadOK'
  <2>1. \A s, e \in Horizon : Offer(m, s, e) => start <= s /\ (w.e < e \/ From(w) + need <= e)
    BY <1>1, NoneEarlier
  <2>2. \A e \in Horizon : e \in Int
    BY HorizonType DEF IInv
  <2>3. \A s, e \in Horizon : Offer(m, s, e) => start <= s /\ w.e < e
    BY <1>1, <1>3, <1>4, <2>1, <2>2
  <2> QED BY <1>2, <1>5, <2>3 DEF AheadOK
<1>10. ASSUME NEW n, Beaten(n) PROVE Beaten(n)'
  BY <1>1, <1>2, <1>10 DEF Beaten
<1>11. SearchOK'
  <2> PICK b : b = best
    OBVIOUS
  <2>1. /\ choices \subseteq Suited
        /\ b # None => b.machine \in Suited /\ b.minutes = Effort(b.machine) /\ Offer(b.machine, b.start, b.end)
        /\ \A n \in Suited \ choices : Beaten(n) \/ n = m
    BY DEF SearchOK
  <2>2. b = best'
    BY <1>1
  <2>3. \A n \in Suited' \ choices' : Beaten(n)' \/ n = scan'.machine
    BY <1>1, <1>2, <1>5, <1>10, <2>1
  <2> QED BY <1>1, <1>2, <2>1, <2>2, <2>3 DEF SearchOK
<1> QED BY <1>1, <1>8, <1>9, <1>11, SearchFrame

\* The machine is settled when its work fits: the placement is an offer, and
\* no offer of the machine ends earlier.
LEMMA FinishInWindowPlace ==
    ASSUME IInv, PlaceInv, pc = "windows", NEW w \in scan.left, NextWindow(w), FinishInWindow(w)
    PROVE  PlaceInv'
<1> USE DEF PlaceInv
<1> PICK m, start, need : m = scan.machine /\ start = Start(w) /\ need = Need(w)
  OBVIOUS
<1> PICK end : end = From(w) + need
  OBVIOUS
<1> PICK placement : placement = [machine |-> m, start |-> start, end |-> end, minutes |-> scan.minutes]
  OBVIOUS
<1>1. /\ w.e > scan.earliest /\ w.e - From(w) >= need
      /\ best' = IF Better(placement) THEN placement ELSE best
      /\ pc' = "machines"
      /\ choices' = choices /\ UNCHANGED searchVars
  BY DEF FinishInWindow, jobVars, planVars, searchVars
<1>2. /\ Suited' = Suited /\ Horizon' = Horizon
      /\ \A n : Effort(n)' = Effort(n) /\ Left(n)' = Left(n)
      /\ \A n, s, e : Worked(n, s, e)' = Worked(n, s, e) /\ Offer(n, s, e)' = Offer(n, s, e)
  BY <1>1, SameOffers DEF searchVars
<1>3. /\ m \in Machines /\ scan.minutes \in Nat /\ w.s \in Int /\ w.e \in Int
      /\ scan.earliest = StepEarliest /\ scan.earliest \in Int
  BY DEF IInv, ScanOK, Scan, Interval
<1>4. /\ start \in Nat /\ start <= From(w) /\ scan.earliest <= start
      /\ From(w) \in Nat /\ From(w) < w.e /\ need \in Nat
      /\ Clear(m, start, w.e)
  BY <1>1, ClearToWindowEnd
<1>5. /\ From(w) .. (w.e - 1) \subseteq Left(m)
      /\ start \in Left(m) /\ need <= scan.minutes
      /\ start < From(w) => need > 0
      /\ Worked(m, start, end) = scan.minutes
  <2>1. /\ From(w) .. (w.e - 1) \subseteq Left(m)
        /\ Start(w) \in Left(m) /\ Need(w) <= scan.minutes
        /\ Start(w) < From(w) => Need(w) > 0
        /\ \A x \in Int : From(w) <= x /\ x <= w.e =>
              Worked(m, Start(w), x) = scan.minutes - Need(w) + (x - From(w))
    BY <1>1, CountedSoFar
  <2>2. end \in Int /\ From(w) <= end /\ end <= w.e
    BY <1>1, <1>3, <1>4
  <2>3. Worked(m, start, end) = scan.minutes - need + (end - From(w))
    BY <2>1, <2>2
  <2> QED BY <1>3, <1>4, <2>1, <2>3
<1>6. m \in Suited /\ scan.minutes = Effort(m)
  BY DEF FillOK
<1>7. Offer(m, start, end)
  <2>1. start <= end /\ end \in Nat /\ end <= w.e
    BY <1>1, <1>3, <1>4
  <2>2. Clear(m, start, end)
    <3>1. Taken(m) \subseteq Nat
      BY <1>3 DEF IInv, TakenOK
    <3> QED BY <1>3, <1>4, <2>1, <3>1 DEF Clear
  <2>3. end = start \/ end - 1 \in Left(m)
    <3>1. CASE need = 0
      BY <1>4, <1>5, <3>1
    <3>2. CASE need > 0
      <4>1. end - 1 \in From(w) .. (w.e - 1)
        BY <1>3, <1>4, <2>1, <3>2
      <4> QED BY <1>5, <4>1
    <3> QED BY <1>4, <3>1, <3>2
  <2> QED BY <1>3, <1>4, <1>5, <1>6, <2>1, <2>2, <2>3 DEF Offer
<1>8. \A s, e \in Horizon : Offer(m, s, e) => e \in Int /\ end <= e
  <2>1. \A s, e \in Horizon : Offer(m, s, e) => start <= s /\ (w.e < e \/ From(w) + need <= e)
    BY <1>1, NoneEarlier
  <2>2. \A e \in Horizon : e \in Int
    BY HorizonType DEF IInv
  <2> QED BY <1>1, <1>3, <1>4, <2>1, <2>2
<1>9. Suited \subseteq Nat
  BY SuitedMachines, PlantAssumption DEF WellFormed, Machines, IInv
<1> PICK old, new : old = best /\ new = best'
  OBVIOUS
<1>10. /\ choices \subseteq Suited
       /\ old # None => /\ old.machine \in Suited /\ old.minutes = Effort(old.machine)
                        /\ Offer(old.machine, old.start, old.end)
                        /\ old.end \in Int
       /\ \A n \in Suited \ choices : Beaten(n) \/ n = m
  BY DEF SearchOK, IInv, BestOK
<1>11. end \in Int
  BY <1>4
<1>12. new # None /\ new.machine \in Suited /\ new.minutes = Effort(new.machine)
       /\ Offer(new.machine, new.start, new.end)
  <2>1. CASE Better(placement)
    <3>1. new = placement
      BY <1>1, <2>1
    <3>2. placement # None
      <4>1. DOMAIN placement = {"machine", "start", "end", "minutes"} /\ DOMAIN None = {"machine"}
        BY DEF None
      <4> QED BY <4>1
    <3> QED BY <1>6, <1>7, <3>1, <3>2
  <2>2. CASE ~Better(placement)
    <3>1. new = old /\ old # None
      BY <1>1, <2>2 DEF Better
    <3> QED BY <1>10, <3>1
  <2> QED BY <2>1, <2>2
<1>13. /\ new.end < end \/ (new.end = end /\ new.machine <= m)
       /\ old # None => new.end < old.end \/ (new.end = old.end /\ new.machine <= old.machine)
       /\ new.end \in Int
  <2>1. CASE Better(placement)
    <3>1. new.end = end /\ new.machine = m
      BY <1>1, <2>1
    <3>2. old # None => end < old.end \/ (end = old.end /\ m < old.machine)
      BY <2>1 DEF Better
    <3>3. m \in Nat /\ (old # None => old.machine \in Nat)
      BY <1>6, <1>9, <1>10
    <3> QED BY <1>11, <3>1, <3>2, <3>3
  <2>2. CASE ~Better(placement)
    <3>1. new = old /\ old # None /\ ~(end < old.end) /\ ~(end = old.end /\ m < old.machine)
      BY <1>1, <2>2 DEF Better
    <3>2. m \in Nat /\ old.machine \in Nat /\ old.end \in Int
      BY <1>6, <1>9, <1>10, <3>1
    <3> QED BY <1>11, <3>1, <3>2
  <2> QED BY <2>1, <2>2
<1>14. ASSUME NEW n \in Suited \ choices, NEW s \in Horizon, NEW e \in Horizon, Offer(n, s, e)
       PROVE  new.end < e \/ (new.end = e /\ new.machine <= n)
  <2>1. CASE n = m
    <3>1. e \in Int /\ end <= e
      BY <1>8, <1>14, <2>1
    <3> QED BY <1>11, <1>13, <2>1, <3>1
  <2>2. CASE n # m
    <3>1. old # None /\ (old.end < e \/ (old.end = e /\ old.machine <= n))
      BY <1>10, <1>14, <2>2 DEF Beaten
    <3>2. e \in Int
      BY HorizonType DEF IInv
    <3>3. old.end \in Int /\ n \in Nat /\ old.machine \in Nat /\ new.machine \in Nat
      BY <1>9, <1>10, <1>12, <3>1
    <3> QED BY <1>13, <3>1, <3>2, <3>3
  <2> QED BY <2>1, <2>2
<1>15. SearchOK'
  <2>1. \A n \in Suited' \ choices' : Beaten(n)'
    BY <1>1, <1>2, <1>12, <1>14 DEF Beaten
  <2> QED BY <1>1, <1>2, <1>10, <1>12, <2>1 DEF SearchOK
<1>16. FillOK' /\ AheadOK'
  BY <1>1 DEF FillOK, AheadOK
<1> QED BY <1>1, <1>15, <1>16, SearchFrame

LEMMA NoWindowLeftPlace == IInv /\ PlaceInv /\ NoWindowLeft => PlaceInv'
<1> SUFFICES ASSUME IInv, PlaceInv, NoWindowLeft PROVE PlaceInv'
  OBVIOUS
<1> USE DEF PlaceInv
<1>1. /\ pc = "windows" /\ scan.left = {} /\ pc' = "machines"
      /\ choices' = choices /\ best' = best /\ UNCHANGED searchVars
  BY DEF NoWindowLeft, jobVars, planVars, searchVars
<1>2. /\ Suited' = Suited /\ Horizon' = Horizon
      /\ \A n : Effort(n)' = Effort(n)
      /\ \A n, s, e : Offer(n, s, e)' = Offer(n, s, e)
  BY <1>1, SameOffers DEF searchVars
<1>3. Beaten(scan.machine)
  BY <1>1, NoneLeft DEF Beaten
<1>4. ASSUME NEW n, Beaten(n) PROVE Beaten(n)'
  BY <1>1, <1>2, <1>4 DEF Beaten
<1>5. SearchOK'
  <2> PICK b : b = best
    OBVIOUS
  <2>1. /\ choices \subseteq Suited
        /\ b # None => b.machine \in Suited /\ b.minutes = Effort(b.machine) /\ Offer(b.machine, b.start, b.end)
        /\ \A n \in Suited \ choices : Beaten(n)
    BY <1>1, <1>3 DEF SearchOK
  <2>2. b = best'
    BY <1>1
  <2>3. \A n \in Suited' \ choices' : Beaten(n)'
    BY <1>1, <1>2, <1>4, <2>1
  <2> QED BY <1>1, <1>2, <2>1, <2>2, <2>3 DEF SearchOK
<1>6. FillOK' /\ AheadOK'
  BY <1>1 DEF FillOK, AheadOK
<1> QED BY <1>1, <1>5, <1>6, SearchFrame
\* The best offer becomes the plan of the step.
LEMMA PlaceStepPlace == IInv /\ PlaceInv /\ PlaceStep => PlaceInv'
<1> SUFFICES ASSUME IInv, PlaceInv, PlaceStep PROVE PlaceInv'
  OBVIOUS
<1> USE DEF PlaceInv
<1> DEFINE p == [order |-> order, seq |-> Step, machine |-> best.machine, start |-> best.start,
                 end |-> best.end, minutes |-> best.minutes]
<1>1. /\ pc = "machines" /\ pc' = "steps" /\ best # None
      /\ planned' = planned \cup {p}
      /\ UNCHANGED <<input, capacity, free, occupied, entries>>
  BY DEF PlaceStep, planVars
<1>2. /\ best \in [machine : Machines, start : Int, end : Int, minutes : Nat]
      /\ order \in Candidates /\ prevEnd \in Nat /\ input \in Inputs
  BY <1>1 DEF IInv, BestOK, JobOK, WithJob, Placing
<1>3. best.minutes = Effort(best.machine) /\ Offer(best.machine, best.start, best.end)
  BY <1>1 DEF SearchOK
<1>4. /\ best.machine \in Machines /\ best.start \in Int /\ best.end \in Int
  BY <1>2
<1>5. /\ best.start \in Horizon /\ best.end \in Horizon
      /\ Count(Room(best.machine), best.start, best.end) = best.minutes
  BY <1>2, <1>3, <1>4, OfferHeld
<1>6. Now \in Nat /\ HorizonEnd \in Int
  BY <1>2, NowType, HorizonType
<1>7. /\ p.machine = best.machine /\ p.start = best.start /\ p.end = best.end /\ p.minutes = best.minutes
  OBVIOUS
<1> HIDE DEF p
<1>8. Held(p)
  BY <1>5, <1>6, <1>7 DEF Held, Horizon
<1> PICK q : q = p
  OBVIOUS
<1>9. HeldOK'
  <2>1. \A r \in entries \cup planned : Held(r)
    BY <1>1 DEF HeldOK, WithJob, Placing
  <2>2. \A r \in entries' \cup planned' : Held(r)
    BY <1>1, <1>8, <2>1
  <2> QED BY <1>1, <2>2, HeldStays DEF HeldOK
<1>10. FillOK' /\ AheadOK' /\ SearchOK'
  BY <1>1 DEF FillOK, AheadOK, SearchOK
<1> QED BY <1>1, <1>9, <1>10, RoomStays

\* Outside the search only the planned steps and the entries matter.
LEMMA OtherPlace ==
    ASSUME IInv, PlaceInv, RoomOK', UNCHANGED <<input, capacity>>, pc' \notin {"machines", "windows"},
           entries' \subseteq entries \cup (IF pc \in WithJob THEN planned ELSE {}),
           pc' \in WithJob => planned' = {} \/ (pc \in WithJob /\ planned' \subseteq planned)
    PROVE  PlaceInv'
<1>1. FillOK' /\ AheadOK' /\ SearchOK'
  BY DEF FillOK, AheadOK, SearchOK
<1>2. HeldOK'
  BY HeldStays DEF PlaceInv, HeldOK
<1> QED BY <1>1, <1>2 DEF PlaceInv

LEMMA PlaceInit == Init => PlaceInv
<1> SUFFICES ASSUME Init PROVE PlaceInv
  OBVIOUS
<1>1. pc = "locked" /\ entries = {}
  BY DEF Init
<1> QED BY <1>1, RoomInit DEF PlaceInv, FillOK, AheadOK, SearchOK, HeldOK, WithJob, Placing

LEMMA PlaceNext == IInv /\ PlaceInv /\ [Next]_vars => PlaceInv'
<1> SUFFICES ASSUME IInv, PlaceInv, [Next]_vars PROVE PlaceInv'
  OBVIOUS
<1>0. RoomOK'
  BY RoomNext DEF PlaceInv
<1> USE DEF jobVars, tryVars, planVars
<1>1. CASE CheckLockedEntries
  BY <1>0, <1>1, OtherPlace DEF CheckLockedEntries, WithJob, Placing
<1>2. CASE NoRouting
  BY <1>0, <1>2, OtherPlace DEF NoRouting, Fail, WithJob, Placing
<1>3. CASE TakeOrder
  BY <1>0, <1>3, OtherPlace DEF TakeOrder, WithJob, Placing
<1>4. CASE MachineUnavailable
  BY <1>0, <1>4, OtherPlace DEF MachineUnavailable, Fail, WithJob, Placing
<1>5. CASE NoCapacity
  BY <1>0, <1>5, OtherPlace DEF NoCapacity, Fail, WithJob, Placing
<1>6. CASE CommitOrder
  BY <1>0, <1>6, OtherPlace DEF CommitOrder, WithJob, Placing
<1>7. CASE CommitEntry
  <2>1. PICK p \in planned : entries' = entries \cup {p} /\ planned' = planned \ {p}
    BY <1>7 DEF CommitEntry
  <2>2. pc = "commit" /\ pc' = pc /\ UNCHANGED <<input, capacity>>
    BY <1>7 DEF CommitEntry
  <2> QED BY <1>0, <2>1, <2>2, OtherPlace DEF WithJob, Placing
<1>8. CASE OrderCommitted
  BY <1>0, <1>8, OtherPlace DEF OrderCommitted, WithJob, Placing
<1>9. CASE OrdersDone
  BY <1>0, <1>9, OtherPlace DEF OrdersDone, WithJob, Placing
<1>10. CASE ConsumeMaterials
  <2>1. pc = "materials" /\ pc' = pc /\ UNCHANGED <<input, capacity, entries>>
    BY <1>10 DEF ConsumeMaterials
  <2> QED BY <1>0, <2>1, OtherPlace DEF WithJob, Placing
<1>11. CASE Assess
  BY <1>0, <1>11, OtherPlace DEF Assess, WithJob, Placing
<1>12. CASE UNCHANGED vars
  <2>1. /\ UNCHANGED <<input, pc, capacity, order, todo, prevEnd, planned, choices, best, scan, free, occupied, entries>>
    BY <1>12 DEF vars
  <2>2. /\ Suited' = Suited /\ Horizon' = Horizon
        /\ \A m : Effort(m)' = Effort(m) /\ Left(m)' = Left(m)
        /\ \A m, s, e : Worked(m, s, e)' = Worked(m, s, e) /\ Offer(m, s, e)' = Offer(m, s, e)
    BY <2>1, SameOffers
  <2>3. FillOK' /\ AheadOK'
    <3> PICK k, left, a, n, b, c, d : /\ k = scan.machine /\ left = scan.left /\ a = scan.start /\ n = scan.need
                                      /\ b = scan.prevEnd /\ c = scan.minutes /\ d = scan.earliest
      OBVIOUS
    <3>1. /\ k = scan'.machine /\ left = scan'.left /\ a = scan'.start /\ n = scan'.need
          /\ b = scan'.prevEnd /\ c = scan'.minutes /\ d = scan'.earliest
      BY <2>1
    <3>2. FillOK'
      BY <2>1, <2>2, <3>1 DEF PlaceInv, FillOK
    <3>3. AheadOK'
      BY <2>1, <2>2, <3>1 DEF PlaceInv, AheadOK
    <3> QED BY <3>2, <3>3
  <2>4. ASSUME NEW m, Beaten(m) PROVE Beaten(m)'
    BY <2>1, <2>2, <2>4 DEF Beaten
  <2>5. SearchOK'
    <3> PICK k, b : k = scan.machine /\ b = best
      OBVIOUS
    <3>1. k = scan'.machine /\ b = best'
      BY <2>1
    <3> QED BY <2>1, <2>2, <2>4, <3>1 DEF PlaceInv, SearchOK
  <2>6. HeldOK'
    BY <2>1, HeldStays DEF PlaceInv, HeldOK
  <2> QED BY <1>0, <2>3, <2>5, <2>6 DEF PlaceInv
<1>13. CASE UseWindow
  BY <1>13, SkipWindowPlace, FillWindowPlace, FinishInWindowPlace DEF UseWindow
<1> QED BY <1>1, <1>2, <1>3, <1>4, <1>5, <1>6, <1>7, <1>8, <1>9, <1>10, <1>11, <1>12, <1>13,
           TakeStepPlace, TryMachinePlace, NoWindowLeftPlace, PlaceStepPlace DEF Next

LEMMA PlaceInvHolds == Spec => []PlaceInv
BY InvariantHolds, PlaceInit, PlaceNext, PTL DEF Spec

\* For every plant, the time an entry takes holds exactly the working minutes
\* its step needs, downtime and breaks left out, and ends with the horizon
\* (the fill loop of placeWork(), which starts over behind other jobs).
THEOREM EntriesHoldWork == Spec => []PlacementHoldsWork
<1>1. PlaceInv => PlacementHoldsWork
  BY DEF PlaceInv, HeldOK, Held, PlacementHoldsWork, Count, Room, CoveredMinutes
<1> QED BY <1>1, PlaceInvHolds, PTL

\* For every plant, the place chosen for a step is the earliest finish that
\* any eligible machine offers, at a tie the lower code, and a step is given up
\* only if none offers any: the one pass of placeWork() over the windows and
\* the comparison of the machines miss nothing.
THEOREM EarliestFinishFound == Spec => []EarliestFinish
<1>1. IInv /\ PlaceInv => EarliestFinish
  <2> SUFFICES ASSUME IInv, PlaceInv, pc = "machines", choices = {} PROVE EarliestFinish
    BY DEF EarliestFinish
  <2> USE DEF PlaceInv
  <2>0. /\ input \in Inputs /\ order \in Candidates /\ prevEnd \in Nat
    BY DEF IInv, JobOK, WithJob, Placing
  <2>1. Now \in Nat /\ HorizonEnd \in Int /\ StepEarliest \in Nat
    BY <2>0, NowType, HorizonType, StepEarliestType
  <2>2. ASSUME NEW m \in Machines, NEW s \in Int, NEW e \in Int, s <= e
        PROVE  Legal(m, s, e) <=> Offer(m, s, e)
    <3>1. Taken(m) \subseteq Nat /\ Left(m) \cap Taken(m) = {}
      <4>1. ASSUME NEW t \in Left(m), t \in Taken(m) PROVE FALSE
        <5>1. PICK w \in free[m] : t \in w.s .. (w.e - 1)
          BY InMinutes DEF Left
        <5>2. t < w.s \/ w.e <= t
          BY <4>1 DEF IInv, FreeOK, Clear
        <5>3. w.s \in Int /\ w.e \in Int
          BY DEF IInv, TypeOK, Interval
        <5> QED BY <5>1, <5>2, <5>3
      <4> QED BY <4>1 DEF IInv, TakenOK
    <3>2. \A b \in occupied[m] : b.s \in Int /\ b.e \in Int /\ b.s < b.e
      BY DEF IInv, TypeOK, Interval, RoomOK
    <3>3. \A t : t \in Taken(m) <=> \E b \in occupied[m] : t \in b.s .. (b.e - 1)
      BY InMinutes DEF Taken
    <3>4. ASSUME Clear(m, s, e), s \in Left(m), NEW b \in occupied[m], b.s < e, s < b.e PROVE FALSE
      <4> DEFINE t == IF b.s <= s THEN s ELSE b.s
      <4>1. t \in b.s .. (b.e - 1) /\ s <= t /\ t \in Int
        BY <3>2, <3>4
      <4>2. t \in Taken(m)
        BY <3>3, <4>1
      <4>3. t < s \/ e <= t
        BY <3>4, <4>2 DEF Clear
      <4>4. t < e \/ t = s
        BY <3>2, <3>4
      <4> HIDE DEF t
      <4> QED BY <3>1, <3>4, <4>1, <4>2, <4>3, <4>4
    <3>5. ASSUME \A b \in occupied[m] : ~(b.s < e /\ s < b.e) PROVE Clear(m, s, e)
      <4>1. ASSUME NEW t \in Taken(m) PROVE t < s \/ e <= t
        <5>1. PICK b \in occupied[m] : t \in b.s .. (b.e - 1)
          BY <3>3
        <5> QED BY <3>2, <3>5, <5>1
      <4> QED BY <4>1 DEF Clear
    <3>6. Worked(m, s, e) = CoveredMinutes(free[m], s, e)
      BY DEF Worked, Count, Left, CoveredMinutes
    <3>7. s \in Left(m) => (Clear(m, s, e) <=> \A b \in occupied[m] : ~Overlap(b, [s |-> s, e |-> e]))
      BY <3>4, <3>5 DEF Overlap
    <3>8. Legal(m, s, e) <=> /\ s >= StepEarliest /\ Worked(m, s, e) = Effort(m) /\ s \in Left(m)
                             /\ e = s \/ e - 1 \in Left(m)
                             /\ \A b \in occupied[m] : ~Overlap(b, [s |-> s, e |-> e])
      BY <3>6 DEF Legal, Left, Effort
    <3>9. s >= StepEarliest <=> StepEarliest <= s
      BY <2>1
    <3> QED BY <2>2, <3>7, <3>8, <3>9 DEF Offer
  <2> DEFINE offers == {x \in Suited \X (Now .. HorizonEnd) : \E start \in Now .. x[2] : Legal(x[1], start, x[2])}
  <2>3. ASSUME NEW x \in offers
        PROVE  best # None /\ (best.end < x[2] \/ (best.end = x[2] /\ best.machine <= x[1]))
    <3>1. x[1] \in Suited /\ x[2] \in Now .. HorizonEnd
      OBVIOUS
    <3>2. PICK start \in Now .. x[2] : Legal(x[1], start, x[2])
      OBVIOUS
    <3>3. x[1] \in Machines /\ start \in Int /\ x[2] \in Int /\ start <= x[2]
      BY <2>1, <3>1, SuitedMachines
    <3>4. Offer(x[1], start, x[2])
      BY <2>2, <3>2, <3>3
    <3>5. start \in Horizon /\ x[2] \in Horizon
      BY <2>1, <3>1, <3>3 DEF Horizon
    <3>6. Beaten(x[1])
      BY <3>1 DEF SearchOK
    <3> QED BY <3>4, <3>5, <3>6 DEF Beaten
  <2>4. ASSUME best # None PROVE <<best.machine, best.end>> \in offers
    <3>1. /\ best.machine \in Suited /\ Offer(best.machine, best.start, best.end)
          /\ best.machine \in Machines /\ best.start \in Int /\ best.end \in Int /\ best.start <= best.end
      BY <2>4 DEF SearchOK, IInv, BestOK
    <3>2. best.start \in Horizon /\ best.end \in Horizon
      BY <2>0, <3>1, OfferHeld
    <3>3. best.start \in Now .. best.end
      BY <2>1, <3>1, <3>2 DEF Horizon
    <3>4. Legal(best.machine, best.start, best.end)
      BY <2>2, <3>1
    <3> QED BY <3>1, <3>2, <3>3, <3>4 DEF Horizon
  <2> HIDE DEF offers
  <2>5. IF best = None THEN offers = {}
        ELSE /\ <<best.machine, best.end>> \in offers
             /\ \A x \in offers : best.end < x[2] \/ (best.end = x[2] /\ best.machine <= x[1])
    BY <2>3, <2>4
  <2> QED BY <2>5 DEF EarliestFinish, offers, Suited
<1> QED BY <1>1, InvariantHolds, PlaceInvHolds, PTL
(***************************************************************************)
(* Shifts over the weeks.                                                  *)
(***************************************************************************)
WeekMinutes == DaysPerWeek * MinutesPerDay

LEMMA Later ==
    ASSUME NEW W \in Nat, NEW a \in Int, NEW b \in Int, a < b
    PROVE  a * W \in Int /\ b * W \in Int /\ a * W + W <= b * W
<1> DEFINE n == (b - a) - 1
<1>1. n \in Nat /\ b = n + (a + 1)
  OBVIOUS
<1> HIDE DEF n
<1>2. \A x, y \in Nat : x * y \in Nat
  OBVIOUS
<1>3. n * W \in Nat
  BY <1>1, <1>2
<1>4. \A x, y, z \in Int : (x + y) * z = x * z + y * z
  OBVIOUS
<1>5. \A x, y \in Int : x * y \in Int
  OBVIOUS
<1>6. (n + (a + 1)) * W = n * W + (a + 1) * W
  BY <1>1, <1>4
<1>7. (a + 1) * W = a * W + W
  <2>1. (a + 1) * W = a * W + 1 * W
    BY <1>4
  <2> QED BY <2>1
<1> QED BY <1>1, <1>3, <1>5, <1>6, <1>7

\* A day is a weekday of some week.
LEMMA DayOfWeek ==
    ASSUME NEW d \in Int
    PROVE  /\ WeekdayOf(d) \in 0 .. DaysPerWeek - 1
           /\ WeekMinutes \in Nat \ {0}
           /\ \E q \in Int : d * MinutesPerDay = q * WeekMinutes + WeekdayOf(d) * MinutesPerDay
<1> DEFINE M == MinutesPerDay
           D == DaysPerWeek
           q == d \div D
           w == d % D
<1>1. M \in Nat \ {0} /\ D \in Nat \ {0}
  BY WeekAssumption
<1>2. q \in Int /\ w \in 0 .. D - 1 /\ d = D * q + w
  BY <1>1
<1> HIDE DEF q, w, M, D
<1>3. \A x, y, z \in Int : (x + y) * z = x * z + y * z
  OBVIOUS
<1>4. \A x, y, z \in Int : (x * y) * z = y * (x * z)
  OBVIOUS
<1>5. \A x, y \in Int : x * y \in Int
  OBVIOUS
<1>6. d * M = (D * q) * M + w * M
  BY <1>1, <1>2, <1>3, <1>5
<1>7. (D * q) * M = q * (D * M)
  BY <1>1, <1>2, <1>4
<1>8. D * M \in Nat \ {0}
  <2>1. \A x, y \in Nat \ {0} : x * y \in Nat \ {0}
    OBVIOUS
  <2> QED BY <1>1, <2>1
<1> QED BY <1>2, <1>6, <1>7, <1>8 DEF WeekMinutes, WeekdayOf, M, D, w

\* A shift that begins on a day has every one of its minutes in one of its
\* minute-of-week intervals.
LEMMA MinuteOfWeek ==
    ASSUME NEW d \in Int, NEW shift, shift.start \in 0 .. MinutesPerDay - 1, shift.end \in 0 .. MinutesPerDay - 1,
           WeekdayOf(d) \in shift.days, NEW t \in Int,
           d * MinutesPerDay + shift.start <= t,
           t < d * MinutesPerDay + shift.start + ShiftGrossMinutes(shift)
    PROVE  \E k \in Int : /\ t - k * WeekMinutes \in 0 .. WeekMinutes - 1
                          /\ \E x \in WeekIntervals(shift) : x.s <= t - k * WeekMinutes /\ t - k * WeekMinutes < x.e
<1> DEFINE M == MinutesPerDay
           W == WeekMinutes
           w == WeekdayOf(d)
           gross == ShiftGrossMinutes(shift)
           start == w * M + shift.start
           end == start + gross
<1>1. M \in Nat \ {0} /\ DaysPerWeek \in Nat \ {0}
  BY WeekAssumption
<1>2. w \in 0 .. DaysPerWeek - 1 /\ W \in Nat \ {0}
  BY DayOfWeek
<1>3. gross \in 1 .. M
  BY <1>1 DEF ShiftGrossMinutes, CrossesMidnight
<1> PICK q \in Int : d * M = q * W + w * M
  BY DayOfWeek
<1>4. q * W \in Int /\ (q + 1) * W = q * W + W /\ d * M \in Int
  <2>1. \A x, y \in Int : x * y \in Int
    OBVIOUS
  <2>2. \A x, y \in Int : (x + 1) * y = x * y + y
    OBVIOUS
  <2> QED BY <1>1, <1>2, <2>1, <2>2
<1>5. w * M \in Nat /\ w * M + M <= W
  <2>1. \A x, y \in Nat : x * y \in Nat
    OBVIOUS
  <2>2. w * M \in Nat
    BY <1>1, <1>2, <2>1
  <2>3. w * M + M <= DaysPerWeek * M
    BY <1>1, <1>2, Later
  <2> QED BY <2>2, <2>3 DEF WeekMinutes
<1>6. start \in 0 .. W - 1 /\ end \in Nat /\ end <= start + M /\ M <= W
  BY <1>1, <1>2, <1>3, <1>5
<1> DEFINE Of(day) == LET first == day * M + shift.start
                          last  == first + gross
                      IN  IF last <= W THEN {[s |-> first, e |-> last]}
                          ELSE {[s |-> first, e |-> W], [s |-> 0, e |-> last - W]}
<1>7. WeekIntervals(shift) = UNION {Of(day) : day \in shift.days}
  BY DEF WeekIntervals, WeekMinutes
<1>8. \A x \in Of(w) : x \in WeekIntervals(shift)
  BY <1>7
<1>9. Of(w) = IF end <= W THEN {[s |-> start, e |-> end]}
              ELSE {[s |-> start, e |-> W], [s |-> 0, e |-> end - W]}
  OBVIOUS
<1> DEFINE u == t - q * W
<1>10. u \in Int /\ start <= u /\ u < end /\ t - (q + 1) * W = u - W
  <2>1. d * M + shift.start = q * W + start
    BY <1>1, <1>4, <1>5
  <2> HIDE DEF start
  <2>2. t - (q + 1) * W = t - q * W - W
    BY <1>2, <1>4
  <2> QED BY <1>2, <1>3, <1>4, <1>6, <2>1, <2>2
<1> HIDE DEF Of, start, end, u
<1>11. CASE end <= W
  <2>1. u \in 0 .. W - 1 /\ [s |-> start, e |-> end] \in WeekIntervals(shift)
    BY <1>2, <1>6, <1>8, <1>9, <1>10, <1>11
  <2> QED BY <1>10, <2>1 DEF u
<1>12. CASE end > W /\ u < W
  <2>1. u \in 0 .. W - 1 /\ [s |-> start, e |-> W] \in WeekIntervals(shift)
    BY <1>2, <1>6, <1>8, <1>9, <1>10, <1>12
  <2> QED BY <1>10, <1>12, <2>1 DEF u
<1>13. CASE end > W /\ u >= W
  <2>1. u - W \in 0 .. W - 1 /\ u - W < end - W /\ ~(end <= W)
    BY <1>1, <1>2, <1>6, <1>10, <1>13
  <2>2. [s |-> 0, e |-> end - W] \in WeekIntervals(shift)
    BY <1>8, <1>9, <2>1
  <2>3. q + 1 \in Int /\ 0 <= u - W
    BY <2>1
  <2> QED BY <1>10, <2>1, <2>2, <2>3
<1> QED BY <1>2, <1>6, <1>10, <1>11, <1>12, <1>13

\* Two shifts of an accepted set, or one shift on two days, never run at the
\* same time.
LEMMA ShiftsApart ==
    ASSUME NEW shifts, ValidShifts(shifts), DOMAIN shifts \subseteq Nat,
           \A i \in DOMAIN shifts : /\ shifts[i].start \in 0 .. MinutesPerDay - 1
                                    /\ shifts[i].end \in 0 .. MinutesPerDay - 1,
           NEW i \in DOMAIN shifts, NEW j \in DOMAIN shifts, NEW c \in Int, NEW d \in Int,
           WeekdayOf(c) \in shifts[i].days, WeekdayOf(d) \in shifts[j].days,
           i # j \/ c # d, NEW t \in Int,
           c * MinutesPerDay + shifts[i].start <= t,
           t < c * MinutesPerDay + shifts[i].start + ShiftGrossMinutes(shifts[i]),
           d * MinutesPerDay + shifts[j].start <= t,
           t < d * MinutesPerDay + shifts[j].start + ShiftGrossMinutes(shifts[j])
    PROVE  FALSE
<1> DEFINE M == MinutesPerDay
           W == WeekMinutes
<1>0. M \in Nat \ {0} /\ W \in Nat \ {0}
  BY DayOfWeek, WeekAssumption
<1>1. CASE i = j
  <2>1. ShiftGrossMinutes(shifts[i]) \in 1 .. M
    BY <1>0 DEF ShiftGrossMinutes, CrossesMidnight
  <2>2. CASE c < d
    <3>1. c * M \in Int /\ d * M \in Int /\ c * M + M <= d * M
      BY <1>0, <2>2, Later
    <3> QED BY <1>0, <1>1, <2>1, <3>1
  <2>3. CASE d < c
    <3>1. c * M \in Int /\ d * M \in Int /\ d * M + M <= c * M
      BY <1>0, <2>3, Later
    <3> QED BY <1>0, <1>1, <2>1, <3>1
  <2> QED BY <1>1, <2>2, <2>3
<1>2. CASE i # j
  <2>1. PICK k \in Int : /\ t - k * W \in 0 .. W - 1
                         /\ \E x \in WeekIntervals(shifts[i]) : x.s <= t - k * W /\ t - k * W < x.e
    BY MinuteOfWeek
  <2>2. PICK l \in Int : /\ t - l * W \in 0 .. W - 1
                         /\ \E x \in WeekIntervals(shifts[j]) : x.s <= t - l * W /\ t - l * W < x.e
    BY MinuteOfWeek
  <2>3. k = l
    <3>1. CASE k < l
      <4>1. k * W \in Int /\ l * W \in Int /\ k * W + W <= l * W
        BY <1>0, <3>1, Later
      <4> QED BY <1>0, <2>1, <2>2, <4>1
    <3>2. CASE l < k
      <4>1. k * W \in Int /\ l * W \in Int /\ l * W + W <= k * W
        BY <1>0, <3>2, Later
      <4> QED BY <1>0, <2>1, <2>2, <4>1
    <3> QED BY <3>1, <3>2
  <2> PICK r \in Int : r = t - k * W
    BY <1>0, <2>1
  <2>4. PICK x \in WeekIntervals(shifts[i]) : x.s <= r /\ r < x.e
    BY <2>1
  <2>5. PICK y \in WeekIntervals(shifts[j]) : y.s <= r /\ r < y.e
    BY <2>2, <2>3
  <2>6. ASSUME NEW n \in DOMAIN shifts, NEW z \in WeekIntervals(shifts[n]) PROVE z.s \in Int /\ z.e \in Int
    <3> DEFINE Of(day) == LET start == day * M + shifts[n].start
                              end   == start + ShiftGrossMinutes(shifts[n])
                          IN  IF end <= W THEN {[s |-> start, e |-> end]}
                              ELSE {[s |-> start, e |-> W], [s |-> 0, e |-> end - W]}
    <3>1. WeekIntervals(shifts[n]) = UNION {Of(day) : day \in shifts[n].days}
      BY DEF WeekIntervals, WeekMinutes
    <3>2. PICK day \in shifts[n].days : z \in Of(day)
      BY <3>1
    <3>3. day \in Int
      <4>1. ValidShift(shifts[n])
        BY DEF ValidShifts
      <4> QED BY <4>1, WeekAssumption DEF ValidShift
    <3>4. day * M \in Int
      <4>1. \A a, b \in Int : a * b \in Int
        OBVIOUS
      <4> QED BY <1>0, <3>3, <4>1
    <3>5. ShiftGrossMinutes(shifts[n]) \in Int
      BY <1>0 DEF ShiftGrossMinutes
    <3> DEFINE start == day * M + shifts[n].start
               end == start + ShiftGrossMinutes(shifts[n])
    <3>6. start \in Int /\ end \in Int
      BY <1>0, <3>4, <3>5
    <3>7. z \in {[s |-> start, e |-> end], [s |-> start, e |-> W], [s |-> 0, e |-> end - W]}
      BY <3>2
    <3> HIDE DEF start, end
    <3> QED BY <1>0, <3>6, <3>7
  <2>7. Overlap(x, y) /\ Overlap(y, x)
    BY <2>4, <2>5, <2>6 DEF Overlap
  <2>8. i < j \/ j < i
    BY <1>2
  <2> QED BY <2>7, <2>8 DEF ValidShifts
<1> QED BY <1>1, <1>2
\* The shift that runs on a day without an exception, and its minutes.
LEMMA RegularShift ==
    ASSUME NEW cal, Regular(cal), NEW tz, tz.by = 0, NEW d \in Int, NEW a \in ShiftsOn(cal, d, tz),
           \A i \in DOMAIN cal.shifts : /\ cal.shifts[i].start \in 0 .. MinutesPerDay - 1
                                        /\ cal.shifts[i].end \in 0 .. MinutesPerDay - 1
    PROVE  /\ a.shift \in DOMAIN cal.shifts /\ a.date = d
           /\ WeekdayOf(d) \in cal.shifts[a.shift].days
           /\ a = [shift |-> a.shift, date |-> d, break |-> cal.shifts[a.shift].break, s |-> a.s, e |-> a.e]
           /\ a.s = d * MinutesPerDay + cal.shifts[a.shift].start
           /\ a.e = a.s + ShiftGrossMinutes(cal.shifts[a.shift])
           /\ a.s \in Int /\ a.e \in Int
<1> DEFINE M == MinutesPerDay
           runs == IF d \in DOMAIN cal.exceptions
                   THEN {i \in DOMAIN cal.shifts : cal.exceptions[d]}
                   ELSE {i \in DOMAIN cal.shifts : WeekdayOf(d) \in cal.shifts[i].days}
           From0(i) == ZonedToUtc(d * M + cal.shifts[i].start, tz)
           To0(i) == ZonedToUtc((IF CrossesMidnight(cal.shifts[i]) THEN d + 1 ELSE d) * M + cal.shifts[i].end, tz)
           Instance(i) == [shift |-> i, date |-> d, break |-> cal.shifts[i].break, s |-> From0(i), e |-> To0(i)]
<1>1. PICK i \in runs : a = Instance(i)
  BY DEF ShiftsOn
<1>2. i \in DOMAIN cal.shifts /\ WeekdayOf(d) \in cal.shifts[i].days
  BY DEF Regular
<1>3. a.shift = i /\ a.date = d /\ a.break = cal.shifts[i].break /\ a.s = From0(i) /\ a.e = To0(i)
  <2> HIDE DEF From0, To0
  <2> QED BY <1>1
<1> DEFINE shift == cal.shifts[i]
<1>4. M \in Nat \ {0} /\ shift.start \in Int /\ shift.end \in Int
  BY <1>2, WeekAssumption
<1>5. \A x \in Int : ZonedToUtc(x, tz) = x
  BY DEF ZonedToUtc
<1>6. d * M \in Int /\ (d + 1) * M = d * M + M
  <2>1. \A x, y \in Int : x * y \in Int /\ (x + 1) * y = x * y + y
    OBVIOUS
  <2> QED BY <1>4, <2>1
<1>7. From0(i) = d * M + shift.start
  BY <1>4, <1>5, <1>6
<1>8. To0(i) = d * M + shift.start + ShiftGrossMinutes(shift)
  <2>1. CASE CrossesMidnight(shift)
    <3>1. To0(i) = d * M + M + shift.end
      BY <1>4, <1>5, <1>6, <2>1
    <3> QED BY <1>4, <1>6, <2>1, <3>1 DEF ShiftGrossMinutes
  <2>2. CASE ~CrossesMidnight(shift)
    <3>1. To0(i) = d * M + shift.end
      BY <1>4, <1>5, <1>6, <2>2
    <3> QED BY <1>4, <1>6, <2>2, <3>1 DEF ShiftGrossMinutes
  <2> QED BY <2>1, <2>2
<1>9. ShiftGrossMinutes(shift) \in Int
  BY <1>4 DEF ShiftGrossMinutes
<1>10. a = [shift |-> i, date |-> d, break |-> shift.break, s |-> a.s, e |-> a.e]
  <2> HIDE DEF From0, To0
  <2> QED BY <1>1, <1>3
<1> HIDE DEF From0, To0
<1>11. a.s \in Int /\ a.e \in Int
  BY <1>3, <1>4, <1>6, <1>7, <1>8, <1>9
<1> QED BY <1>2, <1>3, <1>7, <1>8, <1>10, <1>11

\* A calendar the database can hold, with no working exception.
Accepted(cal) ==
    /\ Regular(cal)
    /\ DOMAIN cal.shifts \subseteq Nat /\ IsFiniteSet(DOMAIN cal.shifts)
    /\ \A i \in DOMAIN cal.shifts : /\ cal.shifts[i].start \in 0 .. MinutesPerDay - 1
                                     /\ cal.shifts[i].end \in 0 .. MinutesPerDay - 1
                                     /\ cal.shifts[i].break \in Nat
    /\ ValidShifts(cal.shifts)

LEMMA PlantCalendars ==
    ASSUME input \in Inputs, NEW c \in DOMAIN input.calendars, Regular(input.calendars[c])
    PROVE  Accepted(input.calendars[c])
BY PlantAssumption DEF WellFormed, Accepted

\* Two instances of its shifts share no minute.
LEMMA InstancesApart ==
    ASSUME NEW cal, Accepted(cal), NEW tz, tz.by = 0, NEW p \in Int, NEW q \in Int,
           NEW a \in ShiftsOn(cal, p, tz), NEW b \in ShiftsOn(cal, q, tz), a # b
    PROVE  ~Overlap(a, b)
<1> SUFFICES ASSUME Overlap(a, b) PROVE FALSE
  OBVIOUS
<1>1. /\ DOMAIN cal.shifts \subseteq Nat /\ ValidShifts(cal.shifts) /\ Regular(cal)
      /\ \A i \in DOMAIN cal.shifts : /\ cal.shifts[i].start \in 0 .. MinutesPerDay - 1
                                      /\ cal.shifts[i].end \in 0 .. MinutesPerDay - 1
  BY DEF Accepted
<1>2. /\ a.shift \in DOMAIN cal.shifts /\ WeekdayOf(p) \in cal.shifts[a.shift].days
      /\ a = [shift |-> a.shift, date |-> p, break |-> cal.shifts[a.shift].break, s |-> a.s, e |-> a.e]
      /\ a.s = p * MinutesPerDay + cal.shifts[a.shift].start
      /\ a.e = a.s + ShiftGrossMinutes(cal.shifts[a.shift])
      /\ a.s \in Int /\ a.e \in Int
  BY <1>1, RegularShift
<1>3. /\ b.shift \in DOMAIN cal.shifts /\ WeekdayOf(q) \in cal.shifts[b.shift].days
      /\ b = [shift |-> b.shift, date |-> q, break |-> cal.shifts[b.shift].break, s |-> b.s, e |-> b.e]
      /\ b.s = q * MinutesPerDay + cal.shifts[b.shift].start
      /\ b.e = b.s + ShiftGrossMinutes(cal.shifts[b.shift])
      /\ b.s \in Int /\ b.e \in Int
  BY <1>1, RegularShift
<1> PICK i, j : i = a.shift /\ j = b.shift
  OBVIOUS
<1>4. i # j \/ p # q
  <2> SUFFICES ASSUME i = j, p = q PROVE FALSE
    OBVIOUS
  <2>1. a.s = b.s /\ a.e = b.e
    BY <1>2, <1>3
  <2> QED BY <1>2, <1>3, <2>1
<1>5. a.s < b.e /\ b.s < a.e
  BY DEF Overlap
<1>6. a.s < a.e /\ b.s < b.e
  <2>1. \A k \in DOMAIN cal.shifts : ShiftGrossMinutes(cal.shifts[k]) \in Nat \ {0}
    BY <1>1, WeekAssumption DEF ShiftGrossMinutes, CrossesMidnight
  <2> QED BY <1>2, <1>3, <2>1
<1> PICK t \in Int : t = IF a.s <= b.s THEN b.s ELSE a.s
  BY <1>2, <1>3
<1>7. a.s <= t /\ t < a.e /\ b.s <= t /\ t < b.e
  BY <1>2, <1>3, <1>5, <1>6
<1>8. /\ p * MinutesPerDay + cal.shifts[i].start <= t
      /\ t < p * MinutesPerDay + cal.shifts[i].start + ShiftGrossMinutes(cal.shifts[i])
      /\ q * MinutesPerDay + cal.shifts[j].start <= t
      /\ t < q * MinutesPerDay + cal.shifts[j].start + ShiftGrossMinutes(cal.shifts[j])
  BY <1>2, <1>3, <1>7
<1> QED BY <1>1, <1>2, <1>3, <1>4, <1>8, ShiftsApart

\* For every plant, shifts that validateShifts() accepts never run at the same
\* time, through midnights and over the ends of weeks: its comparison of
\* minute-of-week intervals says all there is to say about the calendar dates.
THEOREM ShiftsNeverCollide == Spec => []AcceptedShiftsNeverCollide
<1>1. IInv => AcceptedShiftsNeverCollide
  <2> SUFFICES ASSUME IInv, input.tz.by = 0, NEW c \in DOMAIN input.calendars, Regular(input.calendars[c]),
                      NEW p \in input.days, NEW a \in ShiftsOn(input.calendars[c], p, input.tz),
                      NEW q \in input.days, NEW b \in ShiftsOn(input.calendars[c], q, input.tz),
                      a # b
               PROVE  ~Overlap(a, b)
    BY DEF AcceptedShiftsNeverCollide
  <2> PICK cal, tz : cal = input.calendars[c] /\ tz = input.tz
    OBVIOUS
  <2>1. p \in Int /\ q \in Int
    BY PlantAssumption DEF IInv, WellFormed
  <2>2. Accepted(cal)
    BY PlantCalendars DEF IInv
  <2> QED BY <2>1, <2>2, InstancesApart
<1> QED BY <1>1, InvariantHolds, PTL

(***************************************************************************)
(* Sums.  MapThenSumSet() takes the elements of a finite set one by one; a *)
(* function that adds up weights the same way exists, is the only one, and *)
(* does not depend on the order.                                           *)
(***************************************************************************)
OneOf(s) == CHOOSE x \in s : TRUE

\* f maps the subsets of S to their sums of weights.
IsSum(f, w, S) ==
    f = [s \in SUBSET S |-> IF s = {} THEN 0 ELSE w[OneOf(s)] + f[s \ {OneOf(s)}]]

Total(w, S) == (CHOOSE f : IsSum(f, w, S))[S]

\* Taking one element out.
LEMMA TakeOne ==
    ASSUME NEW s, s # {}, IsFiniteSet(s)
    PROVE  /\ OneOf(s) \in s /\ IsFiniteSet(s \ {OneOf(s)})
           /\ Cardinality(s) \in Nat \ {0} /\ Cardinality(s \ {OneOf(s)}) = Cardinality(s) - 1
<1>1. OneOf(s) \in s
  BY DEF OneOf
<1>2. Cardinality(s) \in Nat /\ Cardinality(s) # 0
  BY FS_CardinalityType, FS_EmptySet
<1> QED BY <1>1, <1>2, FS_RemoveElement

LEMMA SumExists ==
    ASSUME NEW S, IsFiniteSet(S), NEW w
    PROVE  \E f : IsSum(f, w, S)
<1> DEFINE E(f, s) == IF s = {} THEN 0 ELSE w[OneOf(s)] + f[s \ {OneOf(s)}]
           Upto(k) == \E f : /\ f = [s \in SUBSET S |-> f[s]]
                             /\ \A s \in SUBSET S : Cardinality(s) <= k => f[s] = E(f, s)
           n == Cardinality(S)
           Bad == {k \in 0 .. n : ~Upto(k)}
<1>1. n \in Nat /\ \A s \in SUBSET S : IsFiniteSet(s) /\ Cardinality(s) \in Nat /\ Cardinality(s) <= n
  BY FS_CardinalityType, FS_Subset
<1>2. Upto(0)
  <2> DEFINE f == [s \in SUBSET S |-> 0]
  <2>1. \A s \in SUBSET S : Cardinality(s) <= 0 => s = {}
    BY <1>1, FS_EmptySet
  <2>2. \A s \in SUBSET S : Cardinality(s) <= 0 => f[s] = E(f, s)
    BY <2>1
  <2>3. f = [s \in SUBSET S |-> f[s]]
    OBVIOUS
  <2> HIDE DEF f, E
  <2> QED BY <2>2, <2>3
<1>3. ASSUME NEW k \in Nat, Upto(k) PROVE Upto(k + 1)
  <2> PICK f : /\ f = [s \in SUBSET S |-> f[s]]
               /\ \A s \in SUBSET S : Cardinality(s) <= k => f[s] = E(f, s)
    BY <1>3
  <2> DEFINE g == [s \in SUBSET S |-> IF Cardinality(s) <= k THEN f[s] ELSE E(f, s)]
  <2>1. ASSUME NEW s \in SUBSET S, Cardinality(s) <= k + 1 PROVE g[s] = E(g, s)
    <3>1. g[s] = E(f, s)
      <4> HIDE DEF E
      <4> QED OBVIOUS
    <3>2. CASE s = {}
      BY <3>1, <3>2
    <3>3. CASE s # {}
      <4>1. s \ {OneOf(s)} \in SUBSET S /\ Cardinality(s \ {OneOf(s)}) <= k
        BY <1>1, <2>1, <3>3, TakeOne
      <4>2. g[s \ {OneOf(s)}] = f[s \ {OneOf(s)}]
        <5> HIDE DEF E
        <5> QED BY <4>1
      <4> HIDE DEF g
      <4> QED BY <3>1, <3>3, <4>2
    <3> QED BY <3>2, <3>3
  <2>2. g = [s \in SUBSET S |-> g[s]]
    OBVIOUS
  <2> HIDE DEF g, E
  <2> QED BY <2>1, <2>2
<1>4. Bad = {}
  <2> SUFFICES ASSUME Bad # {} PROVE FALSE
    OBVIOUS
  <2> HIDE DEF Upto
  <2>1. PICK k \in Bad : \A j \in Bad : k <= j
    <3>1. Bad \in SUBSET Nat
      BY <1>1
    <3> HIDE DEF Bad
    <3> QED BY <3>1, Least
  <2>2. k \in Nat /\ k # 0 /\ k - 1 \in Nat /\ Upto(k - 1)
    BY <1>1, <1>2, <2>1
  <2>3. Upto((k - 1) + 1)
    BY <1>3, <2>2
  <2>4. (k - 1) + 1 = k
    BY <2>2
  <2> QED BY <2>1, <2>3, <2>4
<1>5. Upto(n)
  <2> HIDE DEF Upto
  <2> QED BY <1>1, <1>4
<1> PICK f : /\ f = [s \in SUBSET S |-> f[s]]
             /\ \A s \in SUBSET S : Cardinality(s) <= n => f[s] = E(f, s)
  BY <1>5
<1>6. f = [s \in SUBSET S |-> E(f, s)]
  <2> HIDE DEF E
  <2> QED BY <1>1
<1> QED BY <1>6 DEF IsSum

\* The weights agree on s.
Agree(v, w, s) == \A x \in s : v[x] = w[x]

\* Two sums of the same weights agree on what both cover.
LEMMA SumUnique ==
    ASSUME NEW S, NEW T, IsFiniteSet(S), NEW v, NEW w, NEW f, NEW g, IsSum(f, v, S), IsSum(g, w, T),
           NEW r, r \subseteq S, r \subseteq T, Agree(v, w, r)
    PROVE  f[r] = g[r]
<1> DEFINE Differ == {s \in SUBSET r : f[s] # g[s]}
           Sizes == {Cardinality(s) : s \in Differ}
<1>0. \A s \in SUBSET r : IsFiniteSet(s) /\ Cardinality(s) \in Nat
  BY FS_CardinalityType, FS_Subset
<1>1. Differ = {}
  <2> SUFFICES ASSUME Differ # {} PROVE FALSE
    OBVIOUS
  <2>1. PICK k \in Sizes : \A j \in Sizes : k <= j
    <3>1. Sizes \in SUBSET Nat /\ Sizes # {}
      BY <1>0
    <3> HIDE DEF Sizes
    <3> QED BY <3>1, Least
  <2>2. PICK s \in Differ : k = Cardinality(s)
    OBVIOUS
  <2>3. /\ f[s] = IF s = {} THEN 0 ELSE v[OneOf(s)] + f[s \ {OneOf(s)}]
        /\ g[s] = IF s = {} THEN 0 ELSE w[OneOf(s)] + g[s \ {OneOf(s)}]
    BY DEF IsSum
  <2>4. s # {} /\ f[s] # g[s]
    BY <2>3
  <2>5. /\ OneOf(s) \in s /\ Cardinality(s) \in Nat
        /\ Cardinality(s \ {OneOf(s)}) = Cardinality(s) - 1
    BY <1>0, <2>4, TakeOne
  <2>6. s \ {OneOf(s)} \in SUBSET r
    OBVIOUS
  <2>7. s \ {OneOf(s)} \notin Differ
    <3> SUFFICES ASSUME s \ {OneOf(s)} \in Differ PROVE FALSE
      OBVIOUS
    <3>1. Cardinality(s \ {OneOf(s)}) \in Sizes
      OBVIOUS
    <3> HIDE DEF Sizes, Differ
    <3> QED BY <2>1, <2>2, <2>5, <3>1
  <2>8. f[s \ {OneOf(s)}] = g[s \ {OneOf(s)}]
    BY <2>6, <2>7
  <2>9. v[OneOf(s)] = w[OneOf(s)]
    BY <2>5 DEF Agree
  <2> QED BY <2>3, <2>4, <2>8, <2>9
<1> QED BY <1>1

\* Induction over the subsets of a finite set: G holds them all if it holds
\* every one whose smaller ones it holds.
LEMMA BySize ==
    ASSUME NEW S, IsFiniteSet(S), NEW G,
           \A s \in SUBSET S :
              (\A t \in SUBSET S : Cardinality(t) < Cardinality(s) => t \in G) => s \in G
    PROVE  \A s \in SUBSET S : s \in G
<1> DEFINE Bad   == {s \in SUBSET S : s \notin G}
           Sizes == {Cardinality(s) : s \in Bad}
<1> SUFFICES ASSUME Bad # {} PROVE FALSE
  OBVIOUS
<1>1. \A s \in SUBSET S : Cardinality(s) \in Nat
  BY FS_CardinalityType, FS_Subset
<1>2. PICK k \in Sizes : \A j \in Sizes : k <= j
  <2>1. Sizes \in SUBSET Nat /\ Sizes # {}
    BY <1>1
  <2> HIDE DEF Sizes
  <2> QED BY <2>1, Least
<1>3. PICK s \in Bad : k = Cardinality(s)
  OBVIOUS
<1>4. ASSUME NEW t \in SUBSET S, Cardinality(t) < Cardinality(s) PROVE t \in G
  <2> SUFFICES ASSUME t \in Bad PROVE FALSE
    OBVIOUS
  <2>1. Cardinality(t) \in Sizes
    OBVIOUS
  <2> HIDE DEF Sizes, Bad
  <2>2. Cardinality(s) <= Cardinality(t)
    BY <1>2, <1>3, <2>1
  <2>3. Cardinality(s) \in Nat /\ Cardinality(t) \in Nat
    BY <1>1, <1>3 DEF Bad
  <2> QED BY <1>4, <2>2, <2>3
<1> QED BY <1>3, <1>4

LEMMA TotalIs ==
    ASSUME NEW S, IsFiniteSet(S), NEW w
    PROVE  \E f : IsSum(f, w, S) /\ Total(w, S) = f[S]
BY SumExists DEF Total

LEMMA TotalEmpty ==
    ASSUME NEW w
    PROVE  Total(w, {}) = 0
<1> PICK f : IsSum(f, w, {}) /\ Total(w, {}) = f[{}]
  BY TotalIs, FS_EmptySet
<1> QED BY DEF IsSum

\* Weights that agree give the same total.
LEMMA TotalSame ==
    ASSUME NEW S, IsFiniteSet(S), NEW v, NEW w, Agree(v, w, S)
    PROVE  Total(v, S) = Total(w, S)
<1> PICK f : IsSum(f, v, S) /\ Total(v, S) = f[S]
  BY TotalIs
<1> PICK g : IsSum(g, w, S) /\ Total(w, S) = g[S]
  BY TotalIs
<1>1. f[S] = g[S]
  BY SumUnique
<1> QED BY <1>1

LEMMA TotalStep ==
    ASSUME NEW S, IsFiniteSet(S), S # {}, NEW w
    PROVE  Total(w, S) = w[OneOf(S)] + Total(w, S \ {OneOf(S)})
<1> DEFINE T == S \ {OneOf(S)}
<1>1. IsFiniteSet(T) /\ T \subseteq S
  BY TakeOne
<1> HIDE DEF T
<1> PICK f : IsSum(f, w, S) /\ Total(w, S) = f[S]
  BY TotalIs
<1> PICK g : IsSum(g, w, T) /\ Total(w, T) = g[T]
  BY <1>1, TotalIs
<1>2. Agree(w, w, T)
  BY DEF Agree
<1>3. f[T] = g[T]
  BY <1>1, <1>2, SumUnique
<1>4. f[S] = w[OneOf(S)] + f[T]
  BY DEF IsSum, T
<1> QED BY <1>3, <1>4 DEF T

LEMMA TotalType ==
    ASSUME NEW S, IsFiniteSet(S), NEW w, \A x \in S : w[x] \in Int
    PROVE  \A s \in SUBSET S : Total(w, s) \in Int
<1> DEFINE G == {s \in SUBSET S : Total(w, s) \in Int}
<1>1. ASSUME NEW s \in SUBSET S, \A t \in SUBSET S : Cardinality(t) < Cardinality(s) => t \in G
      PROVE  s \in G
  <2>1. CASE s = {}
    BY <2>1, TotalEmpty
  <2>2. CASE s # {}
    <3>1. IsFiniteSet(s)
      BY FS_Subset
    <3>2. /\ OneOf(s) \in s
          /\ Cardinality(s) \in Nat /\ Cardinality(s \ {OneOf(s)}) = Cardinality(s) - 1
      BY <2>2, <3>1, TakeOne
    <3>3. Cardinality(s \ {OneOf(s)}) < Cardinality(s)
      BY <3>2
    <3>4. s \ {OneOf(s)} \in G
      BY <1>1, <3>3
    <3>5. Total(w, s) = w[OneOf(s)] + Total(w, s \ {OneOf(s)})
      BY <2>2, <3>1, TotalStep
    <3>6. w[OneOf(s)] \in Int /\ Total(w, s \ {OneOf(s)}) \in Int
      BY <3>2, <3>4
    <3> QED BY <3>5, <3>6
  <2> QED BY <2>1, <2>2
<1> HIDE DEF G
<1>2. \A s \in SUBSET S : s \in G
  BY <1>1, BySize
<1> QED BY <1>2 DEF G

\* Any element can be taken out first.
LEMMA TotalTake ==
    ASSUME NEW S, IsFiniteSet(S), NEW w, \A x \in S : w[x] \in Int
    PROVE  \A s \in SUBSET S : \A x \in s : Total(w, s) = w[x] + Total(w, s \ {x})
<1> DEFINE G == {s \in SUBSET S : \A x \in s : Total(w, s) = w[x] + Total(w, s \ {x})}
<1>1. ASSUME NEW s \in SUBSET S, \A t \in SUBSET S : Cardinality(t) < Cardinality(s) => t \in G
      PROVE  s \in G
  <2> SUFFICES ASSUME NEW x \in s PROVE Total(w, s) = w[x] + Total(w, s \ {x})
    OBVIOUS
  <2>1. IsFiniteSet(s) /\ IsFiniteSet(s \ {x})
    BY FS_Subset
  <2> DEFINE o == OneOf(s)
  <2>2. o \in s /\ Cardinality(s) \in Nat /\ Cardinality(s \ {o}) = Cardinality(s) - 1
    BY <2>1, TakeOne
  <2>3. Cardinality(s \ {x}) = Cardinality(s) - 1
    BY <2>1, FS_RemoveElement
  <2>4. Total(w, s) = w[o] + Total(w, s \ {o})
    BY <2>1, TotalStep
  <2> HIDE DEF o
  <2>5. CASE o = x
    BY <2>4, <2>5
  <2>6. CASE o # x
    <3>1. s \ {o} \in SUBSET S /\ s \ {x} \in SUBSET S /\ x \in s \ {o} /\ o \in s \ {x}
      BY <2>2, <2>6
    <3>2. s \ {o} \in G /\ s \ {x} \in G
      BY <1>1, <2>2, <2>3, <3>1
    <3>3. Total(w, s \ {o}) = w[x] + Total(w, (s \ {o}) \ {x})
      BY <3>1, <3>2
    <3>4. Total(w, s \ {x}) = w[o] + Total(w, (s \ {x}) \ {o})
      BY <3>1, <3>2
    <3>5. (s \ {o}) \ {x} = (s \ {x}) \ {o} /\ (s \ {o}) \ {x} \in SUBSET S
      OBVIOUS
    <3>6. w[x] \in Int /\ w[o] \in Int /\ Total(w, (s \ {o}) \ {x}) \in Int
      BY <2>2, <3>5, TotalType
    <3>7. Total(w, s \ {x}) = w[o] + Total(w, (s \ {o}) \ {x})
      BY <3>4, <3>5
    <3>8. Total(w, s) = w[o] + (w[x] + Total(w, (s \ {o}) \ {x}))
      BY <2>4, <3>3
    <3>9. \A a, b, c \in Int : a + (b + c) = b + (a + c)
      OBVIOUS
    <3>10. Total(w, s) = w[x] + (w[o] + Total(w, (s \ {o}) \ {x}))
      BY <3>6, <3>8, <3>9
    <3> QED BY <3>7, <3>10
  <2> QED BY <2>5, <2>6
<1> HIDE DEF G
<1>2. \A s \in SUBSET S : s \in G
  BY <1>1, BySize
<1> QED BY <1>2 DEF G

(***************************************************************************)
(* Materials.  Of every material, what the orders that were served so far  *)
(* need and what is left of it are together no more than the stock.        *)
(***************************************************************************)
Shortage(o, x) ==
    \E c \in conflicts : c.type = "MATERIAL_SHORTAGE" /\ c.order = o /\ c.material = x
Served(x) == {o \in Candidates : x \in DOMAIN input.orders[o].bom /\ ~Shortage(o, x)}
Wanted(x) == [o \in Candidates |-> Required(o, x)]

MaterialsOK ==
    /\ DOMAIN balance = DOMAIN input.stock
    /\ \A x \in DOMAIN input.stock : balance[x] \in Int
    /\ pc \notin Ended => balance = input.stock /\ \A c \in conflicts : c.type # "MATERIAL_SHORTAGE"
    /\ pc = "materials" =>
          /\ \A o \in waiting : \A x \in DOMAIN input.stock : ~Shortage(o, x)
          /\ \A x \in DOMAIN input.stock : Total(Wanted(x), Served(x) \ waiting) + Available(x) <= input.stock[x]
    /\ pc = "done" => \A x \in DOMAIN input.stock : Total(Wanted(x), Served(x)) <= input.stock[x]

LEMMA SumOfWanted ==
    ASSUME NEW x, NEW S \in SUBSET Candidates, IsFiniteSet(S)
    PROVE  MapThenSumSet(LAMBDA o : Required(o, x), S) = Total(Wanted(x), S)
<1> DEFINE w == Wanted(x)
           Fits(f) == f = [s \in SUBSET S |-> IF s = {} THEN 0
                                              ELSE Required(CHOOSE y \in s : TRUE, x) + f[s \ {CHOOSE y \in s : TRUE}]]
           g == CHOOSE f : Fits(f)
<1>1. \A s \in SUBSET S : s # {} => w[OneOf(s)] = Required(OneOf(s), x)
  <2> SUFFICES ASSUME NEW s \in SUBSET S, s # {} PROVE w[OneOf(s)] = Required(OneOf(s), x)
    OBVIOUS
  <2>1. OneOf(s) \in s
    BY DEF OneOf
  <2> QED BY <2>1 DEF Wanted
<1>2. \A f : IsSum(f, w, S) <=> Fits(f)
  <2> HIDE DEF w
  <2> QED BY <1>1 DEF IsSum, OneOf
<1>3. \E f : IsSum(f, w, S)
  BY SumExists
<1>4. IsSum(g, w, S)
  <2> HIDE DEF Fits, w
  <2>1. \E f : Fits(f)
    BY <1>2, <1>3
  <2>2. Fits(g)
    BY <2>1
  <2> HIDE DEF g
  <2> QED BY <1>2, <2>2
<1>5. MapThenSumSet(LAMBDA o : Required(o, x), S) = g[S]
  BY DEF MapThenSumSet, MapThenFoldSet
<1> HIDE DEF g, w
<1> PICK f : IsSum(f, w, S) /\ Total(w, S) = f[S]
  BY TotalIs
<1>6. Agree(w, w, S) /\ S \subseteq S
  BY DEF Agree
<1>7. f[S] = g[S]
  BY <1>4, <1>6, SumUnique
<1> QED BY <1>5, <1>7 DEF w

\* What a plant's orders need is finite and counted in whole units.
LEMMA WantedType ==
    ASSUME input \in Inputs, NEW x \in DOMAIN input.stock
    PROVE  /\ IsFiniteSet(Candidates)
           /\ input.stock[x] \in Nat
           /\ \A o \in Candidates : x \in DOMAIN input.orders[o].bom => Wanted(x)[o] \in Nat
<1>1. IsFiniteSet(Candidates)
  <2>1. IsFiniteSet(Orders) /\ Candidates \subseteq Orders
    BY PlantAssumption DEF WellFormed, Orders, Candidates
  <2> QED BY <2>1, FS_Subset
<1>2. input.stock[x] \in Nat
  BY PlantAssumption DEF WellFormed
<1>3. ASSUME NEW o \in Candidates, x \in DOMAIN input.orders[o].bom PROVE Wanted(x)[o] \in Nat
  <2>1. input.orders[o].quantity \in Nat /\ input.orders[o].bom[x] \in Nat
    BY <1>3, PlantAssumption DEF WellFormed, Candidates, Orders
  <2>2. \A a, b \in Nat : a * b \in Nat
    OBVIOUS
  <2> QED BY <2>1, <2>2 DEF Wanted, Required
<1> QED BY <1>1, <1>2, <1>3

\* Serving one more order adds what it needs.
LEMMA OneMoreServed ==
    ASSUME input \in Inputs, NEW x \in DOMAIN input.stock, NEW S \in SUBSET Candidates,
           \A o \in S : x \in DOMAIN input.orders[o].bom,
           NEW p \in Candidates \ S, x \in DOMAIN input.orders[p].bom
    PROVE  Total(Wanted(x), S \cup {p}) = Required(p, x) + Total(Wanted(x), S)
<1> DEFINE w == Wanted(x)
           T == S \cup {p}
<1>1. IsFiniteSet(T)
  <2>1. T \subseteq Candidates
    OBVIOUS
  <2> HIDE DEF T
  <2> QED BY <2>1, WantedType, FS_Subset
<1>2. \A o \in T : w[o] \in Int
  BY WantedType
<1>3. T \in SUBSET T /\ p \in T /\ T \ {p} = S
  OBVIOUS
<1>4. w[p] = Required(p, x)
  BY DEF Wanted
<1> HIDE DEF T, w
<1>5. Total(w, T) = w[p] + Total(w, T \ {p})
  BY <1>1, <1>2, <1>3, TotalTake
<1> QED BY <1>3, <1>4, <1>5 DEF T, w

\* Before the walk no order is short of anything.
LEMMA NoShortageYet ==
    ASSUME MaterialsOK, UNCHANGED <<input, balance>>, pc' \notin Ended, pc \notin Ended,
           \A c \in conflicts' \ conflicts : c.type # "MATERIAL_SHORTAGE"
    PROVE  MaterialsOK'
BY DEF MaterialsOK, Ended

LEMMA MaterialsInit == Init => MaterialsOK
<1> SUFFICES ASSUME Init PROVE MaterialsOK
  OBVIOUS
<1>1. input \in Inputs /\ pc = "locked" /\ conflicts = {} /\ balance = input.stock
  BY DEF Init
<1>2. \A x \in DOMAIN input.stock : input.stock[x] \in Nat
  BY <1>1, WantedType
<1> QED BY <1>1, <1>2 DEF MaterialsOK, Ended

\* The walk begins with nothing served.
LEMMA WalkBegins == IInv /\ MaterialsOK /\ OrdersDone => MaterialsOK'
<1> SUFFICES ASSUME IInv, MaterialsOK, OrdersDone PROVE MaterialsOK'
  OBVIOUS
<1>1. /\ UNCHANGED <<input, balance, conflicts>> /\ waiting' = Candidates /\ pc = "orders" /\ pc' = "materials"
  BY DEF OrdersDone, endVars, outVars
<1>2. balance = input.stock /\ \A o, x : ~Shortage(o, x)
  BY <1>1 DEF MaterialsOK, Shortage, Ended
<1>3. \A o, x : ~Shortage(o, x)'
  BY <1>1, <1>2 DEF Shortage
<1>4. ASSUME NEW x \in DOMAIN input.stock
      PROVE  (Total(Wanted(x), Served(x) \ waiting) + Available(x) <= input.stock[x])'
  <2>1. (Served(x) \ waiting)' = {}
    BY <1>1, InputFixed DEF Served
  <2>2. Total(Wanted(x)', {}) = 0
    BY TotalEmpty
  <2>3. Total(Wanted(x), Served(x) \ waiting)' = 0
    BY <2>1, <2>2
  <2>4. input.stock[x] \in Nat
    BY WantedType DEF IInv
  <2>5. Available(x)' = input.stock[x]
    BY <1>1, <1>2, <2>4 DEF Available, Max2
  <2> QED BY <1>1, <2>3, <2>4, <2>5
<1> QED BY <1>1, <1>2, <1>3, <1>4 DEF MaterialsOK, Ended

\* An order takes what it needs of a material, or is reported short of it.
LEMMA WalkStep == IInv /\ MaterialsOK /\ ConsumeMaterials => MaterialsOK'
<1> SUFFICES ASSUME IInv, MaterialsOK, ConsumeMaterials PROVE MaterialsOK'
  OBVIOUS
<1> PICK p \in waiting :
       /\ balance' = [x \in DOMAIN balance |->
                         IF x \in DOMAIN input.orders[p].bom THEN Available(x) - Required(p, x) ELSE balance[x]]
       /\ conflicts' = conflicts \cup
             {[type |-> "MATERIAL_SHORTAGE", order |-> p, machine |-> NoMachine, material |-> x]
                 : x \in {y \in DOMAIN input.orders[p].bom : Required(p, y) > Available(y)}}
       /\ waiting' = waiting \ {p}
  BY DEF ConsumeMaterials
<1>1. input' = input /\ pc = "materials" /\ pc' = "materials" /\ input \in Inputs /\ waiting \subseteq Candidates
  BY DEF ConsumeMaterials, IInv, TypeOK
<1>2. ASSUME NEW o, NEW x
      PROVE  Shortage(o, x)' <=> \/ Shortage(o, x)
                                 \/ o = p /\ x \in DOMAIN input.orders[p].bom /\ Required(p, x) > Available(x)
  <2> DEFINE New == {[type |-> "MATERIAL_SHORTAGE", order |-> p, machine |-> NoMachine, material |-> y]
                       : y \in {z \in DOMAIN input.orders[p].bom : Required(p, z) > Available(z)}}
             Says(c) == c.type = "MATERIAL_SHORTAGE" /\ c.order = o /\ c.material = x
  <2>1. (\E c \in New : Says(c)) <=> o = p /\ x \in DOMAIN input.orders[p].bom /\ Required(p, x) > Available(x)
    <3>1. ASSUME o = p, x \in DOMAIN input.orders[p].bom, Required(p, x) > Available(x)
          PROVE  \E c \in New : Says(c)
      <4> DEFINE c == [type |-> "MATERIAL_SHORTAGE", order |-> p, machine |-> NoMachine, material |-> x]
      <4>1. c \in New
        BY <3>1
      <4>2. c.type = "MATERIAL_SHORTAGE" /\ c.order = o /\ c.material = x
        BY <3>1
      <4> QED BY <4>1, <4>2
    <3>2. ASSUME NEW c \in New, Says(c)
          PROVE  o = p /\ x \in DOMAIN input.orders[p].bom /\ Required(p, x) > Available(x)
      BY <3>2
    <3> QED BY <3>1, <3>2
  <2>2. conflicts' = conflicts \cup New
    OBVIOUS
  <2>3. (Shortage(o, x) <=> \E c \in conflicts : Says(c)) /\ (Shortage(o, x)' <=> \E c \in conflicts' : Says(c))
    BY DEF Shortage
  <2> HIDE DEF New, Says
  <2> QED BY <2>1, <2>2, <2>3
<1>3. ASSUME NEW x \in DOMAIN input.stock
      PROVE  /\ balance'[x] \in Int
             /\ Total(Wanted(x), (Served(x) \ waiting)') + Available(x)' <= input.stock[x]
  <2> DEFINE T == Served(x) \ waiting
             U == (Served(x) \ waiting)'
  <2>1. balance[x] \in Int /\ Available(x) \in Nat /\ x \in DOMAIN balance
    BY DEF MaterialsOK, Available, Max2
  <2>2. Total(Wanted(x), T) + Available(x) <= input.stock[x]
    BY <1>1 DEF MaterialsOK
  <2>3. /\ T \in SUBSET Candidates /\ IsFiniteSet(T) /\ p \notin T
        /\ \A o \in T : x \in DOMAIN input.orders[o].bom /\ Wanted(x)[o] \in Int
    <3>1. IsFiniteSet(Candidates) /\ \A o \in Candidates : x \in DOMAIN input.orders[o].bom => Wanted(x)[o] \in Nat
      BY <1>1, WantedType
    <3>2. T \subseteq Candidates
      BY DEF Served
    <3>3. IsFiniteSet(T)
      BY <3>1, <3>2, FS_Subset
    <3> QED BY <3>1, <3>2, <3>3 DEF Served
  <2>4. Total(Wanted(x), T) \in Int /\ input.stock[x] \in Nat
    <3> HIDE DEF T
    <3> QED BY <1>1, <2>3, TotalType, WantedType
  <2>5. \A o : o \in U <=> /\ o \in Candidates /\ x \in DOMAIN input.orders[o].bom
                           /\ ~Shortage(o, x)' /\ o \notin waiting \ {p}
    BY <1>1, InputFixed DEF Served
  <2>6. Available(x)' = Max2(0, balance'[x])
    BY DEF Available
  <2>7. CASE x \notin DOMAIN input.orders[p].bom
    <3>1. balance'[x] = balance[x]
      BY <2>1, <2>7
    <3>2. U = T
      BY <1>2, <2>5, <2>7 DEF Served
    <3>3. Available(x)' = Available(x)
      BY <2>6, <3>1 DEF Available
    <3> QED BY <2>1, <2>2, <3>1, <3>2, <3>3
  <2>8. CASE x \in DOMAIN input.orders[p].bom /\ Required(p, x) > Available(x)
    <3>1. balance'[x] = Available(x) - Required(p, x)
      BY <2>1, <2>8
    <3>2. Required(p, x) \in Nat
      BY <1>1, <2>8, WantedType DEF Wanted
    <3>3. Available(x)' = 0
      BY <2>1, <2>6, <2>8, <3>1, <3>2 DEF Max2
    <3>4. U = T
      BY <1>2, <2>5, <2>8 DEF Served
    <3>5. Total(Wanted(x), T) + 0 <= input.stock[x]
      <4> HIDE DEF T
      <4> QED BY <2>1, <2>2, <2>4
    <3>6. balance'[x] \in Int
      BY <2>1, <3>1, <3>2
    <3> HIDE DEF T, U
    <3> QED BY <3>3, <3>4, <3>5, <3>6 DEF U
  <2>9. CASE x \in DOMAIN input.orders[p].bom /\ ~(Required(p, x) > Available(x))
    <3>1. balance'[x] = Available(x) - Required(p, x)
      BY <2>1, <2>9
    <3>2. Required(p, x) \in Nat
      BY <1>1, <2>9, WantedType DEF Wanted
    <3>3. Available(x)' = Available(x) - Required(p, x) /\ balance'[x] \in Int
      BY <2>1, <2>6, <2>9, <3>1, <3>2 DEF Max2
    <3>4. ~Shortage(p, x)
      BY <1>1 DEF MaterialsOK
    <3>5. U = T \cup {p}
      BY <1>1, <1>2, <2>5, <2>9, <3>4 DEF Served
    <3> HIDE DEF T, U
    <3>6. Total(Wanted(x), T \cup {p}) = Required(p, x) + Total(Wanted(x), T)
      BY <1>1, <2>3, <2>9, OneMoreServed
    <3>7. Total(Wanted(x), T \cup {p}) + Available(x)' = Total(Wanted(x), T) + Available(x)
      BY <2>1, <2>4, <3>2, <3>3, <3>6
    <3> QED BY <2>2, <3>3, <3>5, <3>7 DEF U
  <2> QED BY <2>7, <2>8, <2>9
<1>4. \A x : Wanted(x)' = Wanted(x)
  BY <1>1, InputFixed DEF Wanted, Required
<1>5. \A o \in waiting' : \A x \in DOMAIN input'.stock : ~Shortage(o, x)'
  BY <1>1, <1>2 DEF MaterialsOK
<1>6. DOMAIN balance' = DOMAIN input'.stock
  BY <1>1 DEF MaterialsOK
<1>7. \A x \in DOMAIN input'.stock :
         /\ balance'[x] \in Int
         /\ (Total(Wanted(x), Served(x) \ waiting) + Available(x) <= input.stock[x])'
  BY <1>1, <1>3, <1>4
<1> QED BY <1>1, <1>5, <1>6, <1>7 DEF MaterialsOK, Ended

\* The assessment reports no shortage of its own.
LEMMA WalkEnds == IInv /\ MaterialsOK /\ Assess => MaterialsOK'
<1> SUFFICES ASSUME IInv, MaterialsOK, Assess PROVE MaterialsOK'
  OBVIOUS
<1>1. /\ UNCHANGED <<input, balance>> /\ pc = "materials" /\ pc' = "done" /\ waiting = {} /\ input \in Inputs
      /\ conflicts \subseteq conflicts' /\ \A c \in conflicts' \ conflicts : c.type # "MATERIAL_SHORTAGE"
  BY DEF Assess, OrderConflict, MachineConflict, IInv
<1>2. \A o, x : Shortage(o, x)' <=> Shortage(o, x)
  BY <1>1 DEF Shortage
<1>3. ASSUME NEW x \in DOMAIN input.stock
      PROVE  (Total(Wanted(x), Served(x)) <= input.stock[x])'
  <2> DEFINE T == Served(x)
  <2>1. Served(x)' = T /\ T \ waiting = T
    BY <1>1, <1>2, InputFixed DEF Served
  <2>2. Wanted(x)' = Wanted(x)
    BY <1>1, InputFixed DEF Wanted, Required
  <2>3. Total(Wanted(x), T) + Available(x) <= input.stock[x]
    BY <1>1, <2>1 DEF MaterialsOK
  <2>4. Available(x) \in Nat /\ input.stock[x] \in Nat
    BY <1>1, WantedType DEF MaterialsOK, Available, Max2
  <2>5. T \subseteq Candidates /\ IsFiniteSet(T) /\ \A o \in T : Wanted(x)[o] \in Int
    <3>1. T \subseteq Candidates
      BY DEF Served
    <3> QED BY <1>1, <3>1, WantedType, FS_Subset DEF Served
  <2>6. Total(Wanted(x), T) \in Int
    <3> HIDE DEF T
    <3> QED BY <2>5, TotalType
  <2> HIDE DEF T
  <2>7. Total(Wanted(x), T) <= input.stock[x]
    BY <2>3, <2>4, <2>6
  <2> QED BY <1>1, <2>1, <2>2, <2>7
<1> QED BY <1>1, <1>3 DEF MaterialsOK, Ended

LEMMA MaterialsNext == IInv /\ MaterialsOK /\ [Next]_vars => MaterialsOK'
<1> SUFFICES ASSUME IInv, MaterialsOK, [Next]_vars PROVE MaterialsOK'
  OBVIOUS
<1> USE DEF Ended, endVars, outVars
<1>1. CASE CheckLockedEntries
  <2>1. \A c \in conflicts' : c.type # "MATERIAL_SHORTAGE"
    BY <1>1 DEF CheckLockedEntries, MachineConflict
  <2> QED BY <1>1, <2>1, NoShortageYet DEF CheckLockedEntries
<1>2. ASSUME NEW o, NEW cause \in {"NO_ROUTING", "MACHINE_UNAVAILABLE", "NO_MACHINE"}, Fail(o, cause)
      PROVE  /\ \A c \in conflicts' \ conflicts : c.type # "MATERIAL_SHORTAGE"
             /\ pc' = "orders"
  BY <1>2 DEF Fail, OrderConflict
<1>3. CASE NoRouting
  <2>1. PICK o : Fail(o, "NO_ROUTING")
    BY <1>3 DEF NoRouting
  <2> QED BY <1>2, <1>3, <2>1, NoShortageYet DEF NoRouting
<1>4. CASE MachineUnavailable
  <2> PICK o : o = order
    OBVIOUS
  <2>1. Fail(o, "MACHINE_UNAVAILABLE")
    BY <1>4 DEF MachineUnavailable
  <2> QED BY <1>2, <1>4, <2>1, NoShortageYet DEF MachineUnavailable
<1>5. CASE NoCapacity
  <2> PICK o : o = order
    OBVIOUS
  <2>1. Fail(o, "NO_MACHINE")
    BY <1>5 DEF NoCapacity
  <2> QED BY <1>2, <1>5, <2>1, NoShortageYet DEF NoCapacity
<1>6. CASE TakeOrder \/ TakeStep \/ TryMachine \/ NoWindowLeft \/ PlaceStep
  BY <1>6, NoShortageYet DEF TakeOrder, TakeStep, TryMachine, NoWindowLeft, PlaceStep
<1>7. CASE UseWindow
  <2>1. PICK w \in scan.left : SkipWindow(w) \/ FillWindow(w) \/ FinishInWindow(w)
    BY <1>7 DEF UseWindow
  <2>2. pc = "windows"
    BY <1>7 DEF UseWindow
  <2> QED BY <2>1, <2>2, NoShortageYet DEF SkipWindow, FillWindow, FinishInWindow
<1>8. CASE CommitOrder \/ CommitEntry \/ OrderCommitted
  BY <1>8, NoShortageYet DEF CommitOrder, CommitEntry, OrderCommitted
<1>9. CASE UNCHANGED vars
  <2>1. UNCHANGED <<input, pc, waiting, conflicts, balance>>
    BY <1>9 DEF vars
  <2> QED BY <2>1, InputFixed DEF MaterialsOK, Served, Shortage, Wanted, Required, Available
<1> QED BY <1>1, <1>3, <1>4, <1>5, <1>6, <1>7, <1>8, <1>9, WalkBegins, WalkStep, WalkEnds DEF Next

\* For every plant, the orders that are not reported short of a material can
\* all have what they need of it (the walk over the orders in engine.ts, which
\* takes every requirement out of what the orders before it have left).
THEOREM PromisesCovered == Spec => []PromisedMaterialExists
<1>1. IInv /\ MaterialsOK => PromisedMaterialExists
  <2> SUFFICES ASSUME input \in Inputs, MaterialsOK, pc = "done", NEW x \in DOMAIN input.stock
               PROVE  MapThenSumSet(LAMBDA o : Required(o, x), Served(x)) <= input.stock[x]
    BY DEF PromisedMaterialExists, Served, Shortage, IInv
  <2>1. Served(x) \in SUBSET Candidates
    BY DEF Served
  <2>2. IsFiniteSet(Served(x))
    BY <2>1, WantedType, FS_Subset
  <2>3. Total(Wanted(x), Served(x)) <= input.stock[x]
    BY DEF MaterialsOK
  <2> PICK S : S = Served(x)
    OBVIOUS
  <2>4. MapThenSumSet(LAMBDA o : Required(o, x), S) = Total(Wanted(x), S)
    BY <2>1, <2>2, SumOfWanted
  <2> QED BY <2>3, <2>4
<1> QED BY <1>1, MaterialsInit, MaterialsNext, InvariantHolds, PTL DEF Spec
(***************************************************************************)
(* Due dates.  The window of an order that has a place holds all its work, *)
(* and the risks are those of the windows.                                 *)
(***************************************************************************)
WindowOK ==
    /\ \A o \in DOMAIN plans :
          /\ plans[o].e \in Nat
          /\ \A f \in FixedOf(o) : BusyInterval(f).e <= plans[o].e
          /\ \A e \in entries : e.order = o => e.end <= plans[o].e
    /\ pc = "commit" => \A p \in planned : p.end <= plans[order].e
    /\ pc = "done" => results = [o \in Candidates |-> RiskOf(o)]

\* The window of the order at hand is wide enough for it.
LEMMA WindowHolds ==
    ASSUME IInv, pc \in WithJob
    PROVE  /\ PlanWindow.e \in Nat
           /\ \A f \in FixedOf(order) : BusyInterval(f).e <= PlanWindow.e
           /\ \A p \in planned : p.end <= PlanWindow.e
<1> DEFINE busy == {BusyInterval(f) : f \in FixedOf(order)} \cup {[s |-> p.start, e |-> p.end] : p \in planned}
           Ends == {0} \cup {b.e : b \in busy}
<1>1. PICK last \in Nat : \A f \in FixedOf(order) : BusyInterval(f).e <= last
  <2> DEFINE Fixed == {BusyInterval(f).e : f \in FixedOf(order)} \cup {0}
  <2>1. IsFiniteSet(FixedOf(order))
    <3>1. IsFiniteSet(input.fixed)
      BY PlantAssumption DEF WellFormed, IInv
    <3> QED BY <3>1, FS_Subset DEF FixedOf
  <2>2. IsFiniteSet(Fixed)
    BY <2>1, FiniteEnds, FS_Singleton, FS_Union
  <2>3. Fixed \in SUBSET Nat /\ Fixed # {}
    BY BusyType DEF FixedOf, IInv
  <2>4. PICK b \in Nat : \A x \in Fixed : x <= b
    <3> HIDE DEF Fixed
    <3> QED BY <2>2, <2>3, Bounded
  <2> QED BY <2>4
<1>2. prevEnd \in Nat /\ \A p \in planned : p.end \in Nat /\ p.end <= prevEnd
  BY DEF IInv, JobOK, PlannedOK, TypeOK, Entry
<1>3. \A f \in FixedOf(order) : BusyInterval(f).e \in Nat
  BY BusyType DEF FixedOf, IInv
<1>4. Ends \in SUBSET Nat /\ Ends # {} /\ \A x \in Ends : x <= last + prevEnd
  BY <1>1, <1>2, <1>3
<1>5. Max(Ends) \in Nat /\ \A x \in Ends : x <= Max(Ends)
  <2>1. last + prevEnd \in Nat
    BY <1>2
  <2> HIDE DEF Ends
  <2> QED BY <1>4, <2>1, MaxBelow
<1>6. CASE busy = {}
  BY <1>6, NowType DEF PlanWindow, IInv
<1>7. CASE busy # {}
  <2>1. PlanWindow.e = Max(Ends)
    BY <1>7 DEF PlanWindow
  <2>2. \A f \in FixedOf(order) : BusyInterval(f).e \in Ends
    OBVIOUS
  <2>3. ASSUME NEW p \in planned PROVE p.end \in Ends
    <3>1. [s |-> p.start, e |-> p.end] \in busy
      OBVIOUS
    <3> QED BY <3>1
  <2> HIDE DEF Ends
  <2> QED BY <1>5, <2>1, <2>2, <2>3
<1> QED BY <1>6, <1>7

LEMMA WindowInit == Init => WindowOK
BY DEF Init, WindowOK

\* Steps that leave what is planned alone.
LEMMA WindowStays ==
    ASSUME WindowOK, UNCHANGED <<input, entries, plans>>, pc' # "done",
           pc' = "commit" => UNCHANGED <<pc, order>> /\ planned' \subseteq planned
    PROVE  WindowOK'
BY InputFixed DEF WindowOK

LEMMA WindowNext == IInv /\ SettledOK /\ WindowOK /\ [Next]_vars => WindowOK'
<1> SUFFICES ASSUME IInv, SettledOK, WindowOK, [Next]_vars PROVE WindowOK'
  OBVIOUS
<1> USE DEF planVars, outVars
<1>1. CASE CheckLockedEntries
  BY <1>1, WindowStays DEF CheckLockedEntries
<1>2. ASSUME NEW o, NEW cause, Fail(o, cause) PROVE UNCHANGED plans /\ pc' = "orders"
  BY <1>2 DEF Fail
<1>3. CASE NoRouting \/ MachineUnavailable \/ NoCapacity
  BY <1>2, <1>3, WindowStays DEF NoRouting, MachineUnavailable, NoCapacity
<1>4. CASE TakeOrder \/ TakeStep \/ TryMachine \/ NoWindowLeft \/ PlaceStep
  BY <1>4, WindowStays DEF TakeOrder, TakeStep, TryMachine, NoWindowLeft, PlaceStep
<1>5. CASE UseWindow
  <2>1. PICK w \in scan.left : SkipWindow(w) \/ FillWindow(w) \/ FinishInWindow(w)
    BY <1>5 DEF UseWindow
  <2>2. pc = "windows"
    BY <1>5 DEF UseWindow
  <2> QED BY <2>1, <2>2, WindowStays DEF SkipWindow, FillWindow, FinishInWindow
<1>6. CASE CommitOrder
  <2>1. /\ UNCHANGED <<input, entries, order, planned>> /\ pc = "steps" /\ pc' = "commit"
        /\ plans' = [o \in DOMAIN plans \cup {order} |-> IF o = order THEN PlanWindow ELSE plans[o]]
    BY <1>6 DEF CommitOrder, jobVars
  <2>2. \A e \in entries : e.order # order
    BY <2>1 DEF IInv, EntriesOK, Placing
  <2>3. /\ PlanWindow.e \in Nat
        /\ \A f \in FixedOf(order) : BusyInterval(f).e <= PlanWindow.e
        /\ \A p \in planned : p.end <= PlanWindow.e
    BY <2>1, WindowHolds DEF WithJob, Placing
  <2> PICK w : w = PlanWindow
    OBVIOUS
  <2> QED BY <2>1, <2>2, <2>3, InputFixed DEF WindowOK
<1>7. CASE CommitEntry
  <2>1. PICK p \in planned : entries' = entries \cup {p} /\ planned' = planned \ {p}
    BY <1>7 DEF CommitEntry
  <2>2. UNCHANGED <<input, pc, order, plans>> /\ pc = "commit"
    BY <1>7 DEF CommitEntry
  <2>3. p.order = order
    BY <2>1, <2>2 DEF IInv, PlannedOK, WithJob
  <2> QED BY <2>1, <2>2, <2>3, InputFixed DEF WindowOK
<1>8. CASE OrderCommitted \/ OrdersDone \/ ConsumeMaterials
  BY <1>8, WindowStays DEF OrderCommitted, OrdersDone, ConsumeMaterials
<1>9. CASE Assess
  <2>1. /\ UNCHANGED <<input, entries, plans>> /\ pc' = "done" /\ results' = [o \in Candidates |-> RiskOf(o)]
        /\ conflicts \subseteq conflicts' /\ \A c \in conflicts' \ conflicts : c.type # "MATERIAL_SHORTAGE"
    BY <1>9 DEF Assess, OrderConflict, MachineConflict
  <2>2. \A o : Short(o)' <=> Short(o)
    BY <2>1 DEF Short
  <2>3. \A o : RiskOf(o)' = RiskOf(o)
    BY <2>1, <2>2 DEF RiskOf, RiskIf, Now, HorizonEnd, HorizonDay, Today, DefaultWorks
  <2> QED BY <2>1, <2>3, InputFixed DEF WindowOK
<1>10. CASE UNCHANGED vars
  <2>1. UNCHANGED <<input, pc, entries, plans, planned, order, results, conflicts>>
    BY <1>10 DEF vars, jobVars, endVars
  <2>2. \A o : RiskOf(o)' = RiskOf(o)
    BY <2>1 DEF RiskOf, RiskIf, Short, Now, HorizonEnd, HorizonDay, Today, DefaultWorks
  <2> QED BY <2>1, <2>2, InputFixed DEF WindowOK
<1> QED BY <1>1, <1>3, <1>4, <1>5, <1>6, <1>7, <1>8, <1>9, <1>10 DEF Next

\* What "on track" rules out.
LEMMA OnTrackMeans ==
    ASSUME NEW end \in Int, NEW due \in Int, NEW now, NEW today, NEW tz, tz.at \in Int, tz.by \in Int,
           NEW shortage \in BOOLEAN, NEW horizonEnd \in Int, NEW days,
           ClassifyRisk(end, due, now, today, tz, shortage, horizonEnd, days) = "ON_TRACK"
    PROVE  /\ ~shortage
           /\ end = NoTime => horizonEnd < StartOfDay(due + 1, tz)
           /\ end # NoTime => \E d \in due - 15 .. due - 1 :
                                 (d \in days \/ d = due - 15) /\ end < StartOfDay(d, tz)
<1>1. ASSUME NEW d \in Int PROVE StartOfDay(d, tz) \in Int
  BY WeekAssumption DEF StartOfDay, ZonedToUtc, Max2
<1>2. /\ ~shortage
      /\ end = NoTime => ~(StartOfDay(due + 1, tz) <= horizonEnd)
      /\ end # NoTime => ~(end >= StartOfDay(PreviousWorkingDay(due, days), tz))
  BY DEF ClassifyRisk
<1>3. PICK k \in 0 .. 14 : /\ k = 14 \/ due - 1 - k \in days
                           /\ PreviousWorkingDay(due, days) = due - 1 - k
  <2> DEFINE S == {j \in 0 .. 14 : j = 14 \/ due - 1 - j \in days}
  <2>1. S \in SUBSET Nat /\ 14 \in S
    OBVIOUS
  <2>2. Min(S) \in S
    <3> HIDE DEF S
    <3> QED BY <2>1, MinOf
  <2> QED BY <2>2 DEF PreviousWorkingDay
<1>4. due - 1 - k \in due - 15 .. due - 1 /\ (k = 14 => due - 1 - k = due - 15)
  OBVIOUS
<1>5. StartOfDay(due + 1, tz) \in Int /\ StartOfDay(due - 1 - k, tz) \in Int
  BY <1>1
<1> QED BY <1>2, <1>3, <1>4, <1>5

\* For every plant, an order that a run reports as on track keeps its due date with all its
\* work and has its materials, or has no place and is due after the horizon (riskFor() and
\* the windows of the plans in engine.ts, classifyRisk()).
THEOREM OnTrackIsKept == Spec => []OnTrackKeepsDueDate
<1>1. IInv /\ WindowOK => OnTrackKeepsDueDate
  <2> SUFFICES ASSUME IInv, WindowOK, pc = "done", NEW o \in Candidates, results[o] = "ON_TRACK"
               PROVE  /\ ~Short(o)
                      /\ o \in DOMAIN plans => InTime(o)
                      /\ o \notin DOMAIN plans => HorizonEnd < StartOfDay(input.orders[o].due + 1, input.tz)
    BY DEF OnTrackKeepsDueDate
  <2> DEFINE end == IF o \in DOMAIN plans THEN plans[o].e ELSE NoTime
             due == input.orders[o].due
             days == {d \in due - 15 .. due : DefaultWorks(d)}
  <2>1. /\ input \in Inputs /\ due \in Int /\ input.tz.at \in Int /\ input.tz.by \in Int
        /\ HorizonEnd \in Int /\ end \in Int /\ Short(o) \in BOOLEAN
    BY PlantAssumption, HorizonType DEF IInv, WellFormed, Candidates, Orders, WindowOK, NoTime, Short
  <2>2. RiskIf(o, end) = "ON_TRACK"
    BY DEF WindowOK, RiskOf
  <2>3. /\ ~Short(o)
        /\ end = NoTime => HorizonEnd < StartOfDay(due + 1, input.tz)
        /\ end # NoTime => \E d \in due - 15 .. due - 1 :
                              (d \in days \/ d = due - 15) /\ end < StartOfDay(d, input.tz)
    <3> HIDE DEF end, due, days
    <3> PICK today : today = TodayInTz(Now, input.tz, input.days)
      OBVIOUS
    <3>1. ClassifyRisk(end, due, Now, today, input.tz, Short(o), HorizonEnd, days) = "ON_TRACK"
      BY <2>2 DEF RiskIf, due, days
    <3> QED BY <2>1, <3>1, OnTrackMeans
  <2>4. CASE o \in DOMAIN plans
    <3>1. end = plans[o].e /\ end \in Nat /\ end # NoTime
      BY <2>4 DEF WindowOK, NoTime
    <3>2. PICK d \in due - 15 .. due - 1 : (DefaultWorks(d) \/ d = due - 15) /\ plans[o].e < StartOfDay(d, input.tz)
      BY <2>3, <3>1
    <3>3. StartOfDay(d, input.tz) \in Int /\ plans[o].e \in Int
      BY <2>1, <3>1, WeekAssumption DEF StartOfDay, ZonedToUtc, Max2
    <3>4. ASSUME NEW x \in WorkEnds(o) PROVE x < StartOfDay(d, input.tz)
      <4>1. x \in Int /\ x <= plans[o].e
        BY <2>1, <2>4, BusyType DEF WorkEnds, WindowOK, IInv, TypeOK, Entry, FixedOf
      <4> QED BY <3>2, <3>3, <4>1
    <3> QED BY <2>3, <2>4, <3>2, <3>4 DEF InTime
  <2>5. CASE o \notin DOMAIN plans
    BY <2>3, <2>5
  <2> QED BY <2>4, <2>5
<1> QED BY <1>1, WindowInit, WindowNext, SettledInit, SettledNext, InvariantHolds, PTL DEF Spec

(***************************************************************************)
(* The machine page.  What a shift offers after downtime is no more than   *)
(* the minutes it has; shifts of a day share none, so their sum is no more *)
(* than the minutes of the day.                                            *)
(***************************************************************************)

\* Weights that are no more than the sizes of disjoint parts add up to no more
\* than the size of the whole.
LEMMA TotalOfParts ==
    ASSUME NEW S, IsFiniteSet(S), NEW w, NEW P,
           \A x \in S : w[x] \in Int /\ IsFiniteSet(P[x]) /\ w[x] <= Cardinality(P[x]),
           \A x, y \in S : x # y => P[x] \cap P[y] = {}
    PROVE  /\ IsFiniteSet(UNION {P[x] : x \in S})
           /\ Total(w, S) <= Cardinality(UNION {P[x] : x \in S})
<1> DEFINE K(s) == UNION {P[x] : x \in s}
           G == {s \in SUBSET S : IsFiniteSet(K(s)) /\ Total(w, s) <= Cardinality(K(s))}
<1>1. ASSUME NEW s \in SUBSET S, \A t \in SUBSET S : Cardinality(t) < Cardinality(s) => t \in G
      PROVE  s \in G
  <2>1. CASE s = {}
    <3>1. K(s) = {} /\ Total(w, s) = 0
      BY <2>1, TotalEmpty
    <3>2. IsFiniteSet(K(s)) /\ Cardinality(K(s)) = 0
      BY <3>1, FS_EmptySet
    <3> HIDE DEF K
    <3> QED BY <3>1, <3>2
  <2>2. CASE s # {}
    <3> DEFINE o == OneOf(s)
               t == s \ {o}
    <3>1. IsFiniteSet(s)
      BY FS_Subset
    <3>2. o \in s /\ Cardinality(s) \in Nat /\ Cardinality(t) = Cardinality(s) - 1
      BY <2>2, <3>1, TakeOne
    <3>3. Total(w, s) = w[o] + Total(w, t)
      BY <2>2, <3>1, TotalStep
    <3> HIDE DEF o
    <3>4. t \in SUBSET S /\ Cardinality(t) < Cardinality(s)
      BY <3>2
    <3>5. t \in G
      BY <1>1, <3>4
    <3>6. IsFiniteSet(K(t)) /\ Total(w, t) <= Cardinality(K(t))
      BY <3>5
    <3>7. K(s) = P[o] \cup K(t)
      BY <3>2
    <3>8. P[o] \cap K(t) = {}
      BY <3>2
    <3>9. w[o] \in Int /\ IsFiniteSet(P[o]) /\ w[o] <= Cardinality(P[o])
      BY <3>2
    <3>10. Total(w, t) \in Int
      BY <3>4, TotalType
    <3> HIDE DEF K, t
    <3> PICK A, B : A = P[o] /\ B = K(t)
      OBVIOUS
    <3>11. /\ IsFiniteSet(A \cup B) /\ Cardinality(A) \in Nat /\ Cardinality(B) \in Nat
           /\ Cardinality(A \cup B) = Cardinality(A) + Cardinality(B)
      BY <3>6, <3>8, <3>9, CountBoth
    <3>12. K(s) = A \cup B
      BY <3>7
    <3>13. Total(w, s) <= Cardinality(A \cup B)
      BY <3>3, <3>6, <3>9, <3>10, <3>11
    <3> QED BY <3>11, <3>12, <3>13
  <2> QED BY <2>1, <2>2
<1> HIDE DEF G
<1>2. S \in G
  BY <1>1, BySize
<1> QED BY <1>2 DEF G

\* The minutes of a shift without its break.
LEMMA NetMinutesOf ==
    ASSUME NEW a, a.s \in Int, a.e \in Int, a.break \in Nat, a.break < a.e - a.s
    PROVE  /\ Minutes(WithoutBreak(a)) \subseteq a.s .. (a.e - 1)
           /\ Cardinality(Minutes(WithoutBreak(a))) = a.e - a.s - a.break
           /\ NetMinutes(a) = a.e - a.s - a.break /\ NetMinutes(a) \in Nat
<1> DEFINE s == a.s
           e == a.e
           b == a.break
           f == (e - s - b) \div 2
           B == Minutes(WithoutBreak(a))
<1>1. f \in Nat /\ f <= e - s - b
  <2>1. \A n \in Nat : n \div 2 \in Nat /\ n \div 2 <= n
    OBVIOUS
  <2>2. e - s - b \in Nat
    OBVIOUS
  <2> QED BY <2>1, <2>2
<1>2. Min2(e - s, b) = b
  BY DEF Min2
<1>3. WithoutBreak(a) = IF b <= 0 THEN {[s |-> s, e |-> e]}
                        ELSE {[s |-> s, e |-> s + f], [s |-> s + f + b, e |-> e]}
  BY <1>2 DEF WithoutBreak
<1>4. \A t : t \in B <=> t \in s .. (s + f - 1) \/ t \in (s + f + b) .. (e - 1)
  <2> HIDE DEF f
  <2>1. CASE b = 0
    <3>1. \A t : t \in B <=> t \in s .. (e - 1)
      BY <1>3, <2>1 DEF Minutes
    <3>2. \A t : t \in s .. (e - 1) <=> t \in s .. (s + f - 1) \/ t \in (s + f + b) .. (e - 1)
      BY <1>1, <2>1
    <3> HIDE DEF B
    <3> QED BY <3>1, <3>2
  <2>2. CASE b > 0
    <3>1. WithoutBreak(a) = {[s |-> s, e |-> s + f], [s |-> s + f + b, e |-> e]}
      BY <1>3, <2>2
    <3>2. \A t : t \in B <=> \E i \in WithoutBreak(a) : t \in i.s .. (i.e - 1)
      BY InMinutes
    <3> DEFINE L == [s |-> s, e |-> s + f]
               R == [s |-> s + f + b, e |-> e]
    <3>3. L.s = s /\ L.e = s + f /\ R.s = s + f + b /\ R.e = e /\ WithoutBreak(a) = {L, R}
      BY <3>1
    <3> HIDE DEF L, R, B
    <3>4. \A t : t \in B <=> t \in L.s .. (L.e - 1) \/ t \in R.s .. (R.e - 1)
      BY <3>2, <3>3
    <3> QED BY <1>1, <3>3, <3>4
  <2> QED BY <2>1, <2>2
<1> HIDE DEF f, B
<1> PICK u \in Int, v \in Int : u = s + f /\ v = s + f + b
  BY <1>1
<1>5. /\ B \subseteq s .. (e - 1) /\ s <= u /\ u <= v /\ v <= e
      /\ s .. (u - 1) \subseteq B /\ v .. (e - 1) \subseteq B /\ B \cap (u .. (v - 1)) = {}
  BY <1>1, <1>4
<1>6. Count(B, s, e) = Count(B, s, u) + Count(B, u, e) /\ u <= e
  BY <1>5, CountSplit
<1>7. Count(B, s, u) = u - s
  BY <1>5, CountAll
<1>8. Count(B, u, e) = Count(B, u, v) + Count(B, v, e)
  BY <1>5, CountSplit
<1>9. Count(B, u, v) = 0
  BY <1>5, CountNone
<1>10. Count(B, v, e) = e - v
  BY <1>5, CountAll
<1>11. Count(B, s, e) = Cardinality(B)
  <2>1. B \cap (s .. (e - 1)) = B
    BY <1>5
  <2> QED BY <2>1 DEF Count
<1>12. Cardinality(B) = e - s - b
  BY <1>1, <1>6, <1>7, <1>8, <1>9, <1>10, <1>11
<1>13. NetMinutes(a) = e - s - b /\ NetMinutes(a) \in Nat
  BY DEF NetMinutes, Max2
<1> QED BY <1>5, <1>12, <1>13 DEF B

\* Downtime takes no more than its own minutes from a stretch.
LEMMA WithoutDowntime ==
    ASSUME NEW s \in Int, NEW e \in Int, s <= e, NEW B, B \subseteq s .. (e - 1), NEW D
    PROVE  /\ IsFiniteSet(B \ D) /\ Cardinality(B) \in Nat /\ Cardinality(B \ D) \in Nat
           /\ Count(D, s, e) \in Nat /\ Count(D, s, e) <= e - s
           /\ Cardinality(B) - Count(D, s, e) <= Cardinality(B \ D)
<1> DEFINE C == D \cap (s .. (e - 1))
           R == s .. (e - 1)
<1>1. IsFiniteSet(R) /\ Cardinality(R) = e - s
  <2>1. Cardinality(s .. (e - 1)) = IF s > e - 1 THEN 0 ELSE (e - 1) - s + 1
    BY FS_Interval
  <2>2. IsFiniteSet(s .. (e - 1))
    BY FS_Interval
  <2> QED BY <2>1, <2>2
<1>2. B \in SUBSET R /\ C \in SUBSET R
  OBVIOUS
<1>3. Count(D, s, e) = Cardinality(C) /\ B \ D = B \ C
  BY DEF Count
<1> HIDE DEF R, C
<1>4. IsFiniteSet(B) /\ IsFiniteSet(C) /\ Cardinality(C) <= e - s
  BY <1>1, <1>2, FS_Subset
<1>5. IsFiniteSet(B \ C) /\ IsFiniteSet(B \cap C) /\ Cardinality(B \cap C) <= Cardinality(C)
  BY <1>4, FS_Subset
<1>6. Cardinality(C) \in Nat
  BY <1>4, FS_CardinalityType
<1> PICK X, Y : X = B \ C /\ Y = B \cap C
  OBVIOUS
<1>7. X \cup Y = B /\ X \cap Y = {}
  OBVIOUS
<1>8. Cardinality(X) \in Nat /\ Cardinality(Y) \in Nat /\ Cardinality(B) = Cardinality(X) + Cardinality(Y)
  BY <1>5, <1>7, CountBoth
<1> QED BY <1>3, <1>4, <1>5, <1>6, <1>8

\* At 100 % a shift shows no more minutes than it has outside downtime.
Work(a, down) == Minutes(WithoutBreak(a)) \ Minutes(down)

LEMMA ShownMinutes ==
    ASSUME NEW a, a.s \in Int, a.e \in Int, a.break \in Nat, a.break < a.e - a.s, NEW down
    PROVE  /\ AvailableInShift(a, 100, down) \in Int
           /\ Work(a, down) \subseteq a.s .. (a.e - 1)
           /\ IsFiniteSet(Work(a, down))
           /\ AvailableInShift(a, 100, down) <= Cardinality(Work(a, down))
<1> DEFINE B == Minutes(WithoutBreak(a))
           D == Minutes(down)
           net == NetMinutes(a)
           lost == Count(D, a.s, a.e)
<1>1. B \subseteq a.s .. (a.e - 1) /\ Cardinality(B) = net /\ net \in Nat /\ a.s <= a.e
  BY NetMinutesOf
<1> HIDE DEF B, D
<1>2. /\ IsFiniteSet(B \ D) /\ Cardinality(B \ D) \in Nat
      /\ lost \in Nat /\ lost <= a.e - a.s /\ Cardinality(B) - lost <= Cardinality(B \ D)
  BY <1>1, WithoutDowntime
<1>3. RoundDiv(net * 100, 100) = net
  <2> HIDE DEF net
  <2>1. \A n \in Nat : (2 * (n * 100) + 100) \div (2 * 100) = n
    OBVIOUS
  <2> QED BY <1>1, <2>1 DEF RoundDiv
<1>4. Min2(a.e - a.s, DowntimeMinutesWithin(a.s, a.e, down)) = lost
  BY <1>2 DEF Min2, DowntimeMinutesWithin, CoveredMinutes, Count, D
<1>5. AvailableInShift(a, 100, down) = Max2(0, net - lost)
  BY <1>3, <1>4 DEF AvailableInShift
<1> HIDE DEF net, lost
<1>6. Work(a, down) = B \ D
  BY DEF Work, B, D
<1>7. Max2(0, net - lost) \in Int /\ Max2(0, net - lost) <= Cardinality(B \ D)
  BY <1>1, <1>2 DEF Max2
<1> QED BY <1>1, <1>2, <1>5, <1>6, <1>7

\* The instances of a day.
LEMMA DayInstances ==
    ASSUME NEW cal, Accepted(cal), NEW tz, tz.by = 0, NEW d \in Int
    PROVE  /\ IsFiniteSet(ShiftsOn(cal, d, tz))
           /\ \A a \in ShiftsOn(cal, d, tz) :
                 /\ a.s \in Int /\ a.e \in Int /\ a.break \in Nat /\ a.break < a.e - a.s
                 /\ d * MinutesPerDay <= a.s /\ a.e <= d * MinutesPerDay + 2 * MinutesPerDay
<1> DEFINE S == ShiftsOn(cal, d, tz)
           I == DOMAIN cal.shifts
<1>1. /\ Regular(cal) /\ IsFiniteSet(I) /\ ValidShifts(cal.shifts)
      /\ \A i \in I : /\ cal.shifts[i].start \in 0 .. MinutesPerDay - 1
                      /\ cal.shifts[i].end \in 0 .. MinutesPerDay - 1
                      /\ cal.shifts[i].break \in Nat
  BY DEF Accepted
<1>2. ASSUME NEW a \in S
      PROVE  /\ a.shift \in I
             /\ a = [shift |-> a.shift, date |-> d, break |-> cal.shifts[a.shift].break, s |-> a.s, e |-> a.e]
             /\ a.s = d * MinutesPerDay + cal.shifts[a.shift].start
             /\ a.e = a.s + ShiftGrossMinutes(cal.shifts[a.shift])
             /\ a.s \in Int /\ a.e \in Int
  BY <1>1, RegularShift
<1>3. IsFiniteSet(S)
  <2> DEFINE f == [a \in S |-> a.shift]
  <2>1. f \in [S -> I]
    BY <1>2
  <2>2. ASSUME NEW a \in S, NEW b \in S, f[a] = f[b] PROVE a = b
    <3>1. a.shift = b.shift
      BY <2>2
    <3>2. a.s = b.s /\ a.e = b.e
      BY <1>2, <3>1
    <3> QED BY <1>2, <3>1, <3>2
  <2>3. f \in Injection(S, I)
    <3> HIDE DEF f, S
    <3> QED BY <2>1, <2>2 DEF Injection, IsInjective
  <2> HIDE DEF f, S
  <2> QED BY <1>1, <2>3, FS_Injection
<1>4. ASSUME NEW a \in S
      PROVE  /\ a.break \in Nat /\ a.break < a.e - a.s
             /\ d * MinutesPerDay <= a.s /\ a.e <= d * MinutesPerDay + 2 * MinutesPerDay
  <2> PICK i \in I : i = a.shift
    BY <1>2
  <2> PICK shift : shift = cal.shifts[i]
    OBVIOUS
  <2>1. ValidShift(shift)
    BY <1>1 DEF ValidShifts
  <2>2. shift.start \in 0 .. MinutesPerDay - 1 /\ shift.end \in 0 .. MinutesPerDay - 1 /\ shift.break \in Nat
    BY <1>1
  <2>3. ShiftGrossMinutes(shift) \in 1 .. MinutesPerDay /\ shift.break < ShiftGrossMinutes(shift)
    BY <2>1, <2>2, WeekAssumption DEF ValidShift, ShiftNetMinutes, ShiftGrossMinutes, CrossesMidnight
  <2>4. a.break = shift.break /\ a.s = d * MinutesPerDay + shift.start /\ a.e = a.s + ShiftGrossMinutes(shift)
    BY <1>2
  <2>5. d * MinutesPerDay \in Int
    <3>1. \A x, y \in Int : x * y \in Int
      OBVIOUS
    <3> QED BY <3>1, WeekAssumption
  <2> QED BY <2>2, <2>3, <2>4, <2>5, WeekAssumption
<1> QED BY <1>2, <1>3, <1>4

LEMMA SumOfShown ==
    ASSUME NEW S, IsFiniteSet(S), NEW down
    PROVE  MapThenSumSet(LAMBDA a : AvailableInShift(a, 100, down), S)
               = Total([a \in S |-> AvailableInShift(a, 100, down)], S)
<1> DEFINE w == [a \in S |-> AvailableInShift(a, 100, down)]
           Fits(f) == f = [s \in SUBSET S |-> IF s = {} THEN 0
                                              ELSE AvailableInShift(CHOOSE y \in s : TRUE, 100, down)
                                                   + f[s \ {CHOOSE y \in s : TRUE}]]
           g == CHOOSE f : Fits(f)
<1>1. \A s \in SUBSET S : s # {} => w[OneOf(s)] = AvailableInShift(OneOf(s), 100, down)
  <2> SUFFICES ASSUME NEW s \in SUBSET S, s # {} PROVE w[OneOf(s)] = AvailableInShift(OneOf(s), 100, down)
    OBVIOUS
  <2>1. OneOf(s) \in S
    BY DEF OneOf
  <2> QED BY <2>1
<1>2. \A f : IsSum(f, w, S) <=> Fits(f)
  <2> HIDE DEF w
  <2> QED BY <1>1 DEF IsSum, OneOf
<1>3. \E f : IsSum(f, w, S)
  BY SumExists
<1>4. IsSum(g, w, S)
  <2> HIDE DEF Fits, w
  <2>1. \E f : Fits(f)
    BY <1>2, <1>3
  <2>2. Fits(g)
    BY <2>1
  <2> HIDE DEF g
  <2> QED BY <1>2, <2>2
<1>5. MapThenSumSet(LAMBDA a : AvailableInShift(a, 100, down), S) = g[S]
  BY DEF MapThenSumSet, MapThenFoldSet
<1> HIDE DEF g, w
<1> PICK f : IsSum(f, w, S) /\ Total(w, S) = f[S]
  BY TotalIs
<1>6. Agree(w, w, S)
  BY DEF Agree
<1>7. f[S] = g[S]
  BY <1>4, <1>6, SumUnique
<1> QED BY <1>5, <1>7 DEF w

LEMMA DayFits ==
    ASSUME NEW cal, Accepted(cal), NEW tz, tz.by = 0, NEW d \in Int, NEW down
    PROVE  AvailableMinutes(cal, d, tz, 100, down)
               <= TotalMinutes(SubtractIntervals(DayWorkingWindows(cal, d, tz), down))
<1> DEFINE S == ShiftsOn(cal, d, tz)
           w == [a \in S |-> AvailableInShift(a, 100, down)]
           P == [a \in S |-> Work(a, down)]
           U == UNION {P[a] : a \in S}
           M == Minutes(DayWorkingWindows(cal, d, tz)) \ Minutes(down)
<1>1. /\ IsFiniteSet(S)
      /\ \A a \in S : /\ a.s \in Int /\ a.e \in Int /\ a.break \in Nat /\ a.break < a.e - a.s
                      /\ d * MinutesPerDay <= a.s /\ a.e <= d * MinutesPerDay + 2 * MinutesPerDay
  BY DayInstances
<1>2. \A a \in S : /\ P[a] \subseteq a.s .. (a.e - 1)
                   /\ w[a] \in Int /\ IsFiniteSet(P[a]) /\ w[a] <= Cardinality(P[a])
  BY <1>1, ShownMinutes
<1>3. ASSUME NEW a \in S, NEW b \in S, a # b PROVE P[a] \cap P[b] = {}
  <2>1. ~Overlap(a, b)
    BY <1>3, InstancesApart
  <2>2. a.s \in Int /\ a.e \in Int /\ b.s \in Int /\ b.e \in Int
    BY <1>1
  <2>3. \A t : ~(t \in a.s .. (a.e - 1) /\ t \in b.s .. (b.e - 1))
    BY <2>1, <2>2 DEF Overlap
  <2> HIDE DEF P
  <2> QED BY <1>2, <2>3
<1>4. AvailableMinutes(cal, d, tz, 100, down) = Total(w, S)
  BY <1>1, SumOfShown DEF AvailableMinutes
<1>5. U = M
  <2>1. \A t : t \in Minutes(DayWorkingWindows(cal, d, tz)) <=> \E a \in S : t \in Minutes(WithoutBreak(a))
    BY DEF Minutes, DayWorkingWindows
  <2>2. \A t : t \in U <=> \E a \in S : t \in Work(a, down)
    OBVIOUS
  <2> HIDE DEF U, S
  <2> QED BY <2>1, <2>2 DEF Work
<1>6. Minutes(IntervalsOf(M)) = M
  <2> PICK lo \in Int, hi \in Int : lo = d * MinutesPerDay /\ hi = d * MinutesPerDay + 2 * MinutesPerDay
    <3>1. \A x, y \in Int : x * y \in Int
      OBVIOUS
    <3> QED BY <3>1, WeekAssumption
  <2>1. ASSUME NEW t \in U PROVE t \in Int /\ lo <= t /\ t <= hi
    <3>1. PICK a \in S : t \in P[a]
      OBVIOUS
    <3>2. t \in a.s .. (a.e - 1)
      <4> HIDE DEF P, S
      <4> QED BY <1>2, <3>1
    <3>3. a.s \in Int /\ a.e \in Int /\ lo <= a.s /\ a.e <= hi
      BY <1>1
    <3> HIDE DEF P, S
    <3> QED BY <3>2, <3>3
  <2>2. M \in SUBSET Int /\ \A t \in M : lo <= t /\ t <= hi
    <3> HIDE DEF U, M
    <3> QED BY <1>5, <2>1
  <2> HIDE DEF M
  <2> QED BY <2>2, AllCovered
<1>7. Total(w, S) <= Cardinality(U)
  <2> HIDE DEF P, w, S
  <2> QED BY <1>1, <1>2, <1>3, TotalOfParts
<1>8. TotalMinutes(SubtractIntervals(DayWorkingWindows(cal, d, tz), down)) = Cardinality(M)
  BY <1>6 DEF TotalMinutes, SubtractIntervals
<1> HIDE DEF U, M, S, w
<1> QED BY <1>4, <1>5, <1>7, <1>8

\* For every plant, the minutes that a machine's page shows for a day at 100 %
\* are there for the engine to use: shifts minus breaks minus downtime, added
\* up per shift (AvailableMinutes of lib/calendar.ts), never exceed what is
\* left of the day's windows (windows.ts).
THEOREM PageHoldsWhatItShows == Spec => []PageNeverOverpromises
<1>1. IInv => PageNeverOverpromises
  <2> SUFFICES ASSUME IInv, input.tz.by = 0, NEW m \in Machines, NEW d \in input.days, Regular(Calendar(m))
               PROVE  AvailableMinutes(Calendar(m), d, input.tz, 100, input.downtime[m])
                          <= TotalMinutes(SubtractIntervals(DayWorkingWindows(Calendar(m), d, input.tz), input.downtime[m]))
    BY DEF PageNeverOverpromises
  <2>1. d \in Int /\ input.machines[m].calendar \in DOMAIN input.calendars
    BY PlantAssumption DEF IInv, WellFormed, Machines
  <2> PICK cal, tz, down : cal = Calendar(m) /\ tz = input.tz /\ down = input.downtime[m]
    OBVIOUS
  <2>2. Accepted(cal)
    BY <2>1, PlantCalendars DEF IInv, Calendar
  <2> QED BY <2>1, <2>2, DayFits
<1> QED BY <1>1, InvariantHolds, PTL
==============================================================================
