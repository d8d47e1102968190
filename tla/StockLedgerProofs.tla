-------------------------- MODULE StockLedgerProofs --------------------------
(***************************************************************************)
(* Proofs about StockLedger, for any materials, any number of concurrent   *)
(* sessions and any column width: the transactions implement StockBook,    *)
(* and with it its three promises.                                         *)
(***************************************************************************)
EXTENDS StockLedger, TLAPS

\* A session and the lock it holds.  The lock of a row is what makes the balance a
\* session wrote still the right one when it commits.
SessionOK(q) ==
    /\ pc[q] \in {"requested", "read", "updated"} =>
          /\ request[q] \in Requests
          /\ request[q].type # "ADJUSTMENT" => request[q].amount > 0
    /\ pc[q] = "deleting" => Material(q) \in Materials
    /\ pc[q] = "updated" =>
          /\ state[Material(q)] = "present"
          /\ lock[Material(q)] = q
          /\ balance[q] = NewBalance(q)
          /\ balance[q] \in 0 .. MaxStock

LockOK(m) == lock[m] \in Sessions => pc[lock[m]] = "updated" /\ Material(lock[m]) = m

BookOK(m) == stock[m] \in 0 .. MaxStock

IInv ==
    /\ TypeOK
    /\ \A q \in Sessions : SessionOK(q)
    /\ \A m \in Materials : LockOK(m) /\ BookOK(m)
    /\ LedgerExplainsStock
    /\ HistoryKept

-----------------------------------------------------------------------------
LEMMA DeltaType ==
  ASSUME NEW r, r.type \in Book!MovementTypes, r.amount \in Nat, NEW current \in Int
  PROVE  /\ MovementDelta(r, current) \in Int
         /\ r.type # "ADJUSTMENT" /\ r.amount > 0 => Book!SignFits(r.type, MovementDelta(r, current))
         /\ r.type = "ADJUSTMENT" => Book!SignFits(r.type, MovementDelta(r, current))
  BY DEF MovementDelta, Book!MovementTypes, Book!SignFits

\* The end of a transaction leaves the other sessions and their locks alone.
LEMMA FinishLeavesOthers ==
  ASSUME IInv, NEW p \in Sessions, Finish(p)
  PROVE  /\ pc' \in [Sessions -> {"idle", "requested", "read", "updated", "deleting"}]
         /\ request' \in [Sessions -> [material : Materials \cup {"none"},
                                       type : Book!MovementTypes \cup {"none"}, amount : Nat]]
         /\ seen' \in [Sessions -> Int]
         /\ balance' \in [Sessions -> Int]
         /\ lock' \in [Materials -> Sessions \cup {NoSession}]
         /\ pc'[p] = "idle"
         /\ \A q \in Sessions : q # p =>
              /\ pc'[q] = pc[q] /\ request'[q] = request[q]
              /\ seen'[q] = seen[q] /\ balance'[q] = balance[q]
         /\ \A m \in Materials : lock'[m] = IF lock[m] = p THEN NoSession ELSE lock[m]
  BY DEF IInv, TypeOK, Finish, LockReleased, NoRequest

LEMMA FinishKeepsLocks ==
  ASSUME IInv, NEW p \in Sessions, Finish(p), NEW n \in Materials
  PROVE  LockOK(n)'
  <1> SUFFICES ASSUME lock'[n] \in Sessions
               PROVE  pc'[lock'[n]] = "updated" /\ request'[lock'[n]].material = n
    BY DEF LockOK, Material
  <1>1. lock[n] # p /\ lock'[n] = lock[n]
    BY FinishLeavesOthers, SessionsAssumption
  <1>2. pc[lock[n]] = "updated" /\ request[lock[n]].material = n
    BY <1>1 DEF IInv, LockOK, Material
  <1>3. pc'[lock[n]] = pc[lock[n]] /\ request'[lock[n]] = request[lock[n]]
    BY <1>1, FinishLeavesOthers
  <1>4. QED
    BY <1>1, <1>2, <1>3

LEMMA InitInductive == Init => IInv
  <1> SUFFICES ASSUME Init PROVE IInv
    OBVIOUS
  <1>1. TypeOK
    BY DEF Init, TypeOK, NoRequest
  <1>2. \A q \in Sessions : SessionOK(q)
    BY DEF Init, SessionOK
  <1>3. \A m \in Materials : LockOK(m) /\ BookOK(m)
    BY SessionsAssumption, AmountsAssumption DEF Init, LockOK, BookOK
  <1>4. LedgerExplainsStock
    BY DEF Init, LedgerExplainsStock, Book!LedgerExplainsStock
  <1>5. HistoryKept
    BY DEF Init, HistoryKept, Book!HistoryKept
  <1>6. QED
    BY <1>1, <1>2, <1>3, <1>4, <1>5 DEF IInv

-----------------------------------------------------------------------------
\* The material master.

LEMMA CreateMaterialInductive ==
  ASSUME IInv, NEW m \in Materials, NEW isActive \in BOOLEAN, NEW role \in Roles,
         CreateMaterial(m, isActive, role)
  PROVE  IInv'
  <1>1. TypeOK'
    BY DEF IInv, TypeOK, CreateMaterial
  <1>2. \A q \in Sessions : SessionOK(q)'
    BY DEF IInv, TypeOK, SessionOK, CreateMaterial, NewBalance, Delta, Material, Requests
  <1>3. \A n \in Materials : LockOK(n)' /\ BookOK(n)'
    BY DEF IInv, TypeOK, LockOK, BookOK, CreateMaterial, Material
  <1>4. LedgerExplainsStock' /\ HistoryKept'
    BY DEF IInv, TypeOK, CreateMaterial, LedgerExplainsStock, Book!LedgerExplainsStock,
           HistoryKept, Book!HistoryKept
  <1>5. QED
    BY <1>1, <1>2, <1>3, <1>4 DEF IInv

LEMMA SetMaterialActiveInductive ==
  ASSUME IInv, NEW m \in Materials, NEW isActive \in BOOLEAN, NEW role \in Roles,
         SetMaterialActive(m, isActive, role)
  PROVE  IInv'
  <1>1. TypeOK'
    BY DEF IInv, TypeOK, SetMaterialActive
  <1>2. \A q \in Sessions : SessionOK(q)'
    BY DEF IInv, SessionOK, SetMaterialActive, NewBalance, Delta, Material
  <1>3. \A n \in Materials : LockOK(n)' /\ BookOK(n)'
    BY DEF IInv, LockOK, BookOK, SetMaterialActive, Material
  <1>4. LedgerExplainsStock' /\ HistoryKept'
    BY DEF IInv, SetMaterialActive, LedgerExplainsStock, Book!LedgerExplainsStock,
           HistoryKept, Book!HistoryKept
  <1>5. QED
    BY <1>1, <1>2, <1>3, <1>4 DEF IInv

\* A session that begins its transaction holds no lock and changes nothing committed.
LEMMA BeginInductive ==
  ASSUME IInv, NEW p \in Sessions, pc[p] = "idle",
         TypeOK', SessionOK(p)', pc'[p] # "updated",
         \A q \in Sessions : q # p => pc'[q] = pc[q] /\ request'[q] = request[q],
         UNCHANGED <<state, active, stock, ledger, lock, seen, balance>>
  PROVE  IInv'
  <1>1. ASSUME NEW q \in Sessions PROVE SessionOK(q)'
    <2>1. CASE q = p
      BY <2>1
    <2>2. CASE q # p
      BY <2>2 DEF IInv, SessionOK, NewBalance, Delta, Material
    <2>3. QED
      BY <2>1, <2>2
  <1>2. \A n \in Materials : LockOK(n)' /\ BookOK(n)'
    BY DEF IInv, LockOK, BookOK, Material
  <1>3. LedgerExplainsStock' /\ HistoryKept'
    BY DEF IInv, LedgerExplainsStock, Book!LedgerExplainsStock, HistoryKept, Book!HistoryKept
  <1>4. QED
    BY <1>1, <1>2, <1>3 DEF IInv

LEMMA CheckReferencesInductive ==
  ASSUME IInv, NEW p \in Sessions, NEW m \in Materials, NEW role \in Roles,
         CheckReferences(p, m, role)
  PROVE  IInv'
  <1>1. TypeOK'
    BY DEF IInv, TypeOK, CheckReferences
  <1>2. SessionOK(p)'
    BY DEF IInv, TypeOK, SessionOK, CheckReferences, Material
  <1>3. QED
    BY <1>1, <1>2, BeginInductive DEF IInv, TypeOK, CheckReferences

LEMMA RecordStockMovementInductive ==
  ASSUME IInv, NEW p \in Sessions, NEW r \in Requests, NEW role \in Roles,
         RecordStockMovement(p, r, role)
  PROVE  IInv'
  <1>1. TypeOK'
    BY AmountsAssumption DEF IInv, TypeOK, RecordStockMovement, Requests
  <1>2. SessionOK(p)'
    BY DEF IInv, TypeOK, SessionOK, RecordStockMovement, Material
  <1>3. QED
    BY <1>1, <1>2, BeginInductive DEF IInv, TypeOK, RecordStockMovement

\* A transaction that ends without having changed a committed row.
LEMMA AbortInductive ==
  ASSUME IInv, NEW p \in Sessions, Finish(p), UNCHANGED <<state, active, stock, ledger>>
  PROVE  IInv'
  <1>1. TypeOK'
    BY FinishLeavesOthers DEF IInv, TypeOK
  <1>2. ASSUME NEW q \in Sessions PROVE SessionOK(q)'
    <2>1. CASE q = p
      BY <2>1, FinishLeavesOthers DEF SessionOK
    <2>2. CASE q # p
      <3>1. /\ pc'[q] = pc[q] /\ request'[q] = request[q]
            /\ seen'[q] = seen[q] /\ balance'[q] = balance[q]
        BY <2>2, FinishLeavesOthers
      <3>2. pc[q] = "updated" => Material(q) \in Materials /\ lock'[Material(q)] = lock[Material(q)]
        BY <2>2, FinishLeavesOthers DEF IInv, SessionOK, Material, Requests
      <3>3. QED
        BY <3>1, <3>2 DEF IInv, SessionOK, NewBalance, Delta, Material
    <2>3. QED
      BY <2>1, <2>2
  <1>3. \A n \in Materials : LockOK(n)' /\ BookOK(n)'
    BY FinishKeepsLocks DEF IInv, BookOK
  <1>4. LedgerExplainsStock' /\ HistoryKept'
    BY DEF IInv, LedgerExplainsStock, Book!LedgerExplainsStock, HistoryKept, Book!HistoryKept
  <1>5. QED
    BY <1>1, <1>2, <1>3, <1>4 DEF IInv

LEMMA DeleteMaterialInductive ==
  ASSUME IInv, NEW p \in Sessions, DeleteMaterial(p)
  PROVE  IInv'
  <1> DEFINE m == Material(p)
  <1>1. m \in Materials /\ lock[m] = NoSession
    BY DEF IInv, SessionOK, DeleteMaterial
  <1>2. CASE ~Deletable(m)
    <2>1. state' = state
      BY <1>1, <1>2 DEF IInv, TypeOK, DeleteMaterial
    <2>2. QED
      BY <2>1, AbortInductive DEF DeleteMaterial
  <1>3. CASE Deletable(m)
    <2>1. /\ state' = [state EXCEPT ![m] = "deleted"]
          /\ ledger[m] = <<>>
          /\ Finish(p) /\ UNCHANGED <<active, stock, ledger>>
      BY <1>3 DEF DeleteMaterial, Deletable
    <2> HIDE DEF m
    <2>2. TypeOK'
      BY <2>1, FinishLeavesOthers DEF IInv, TypeOK
    <2>3. ASSUME NEW q \in Sessions PROVE SessionOK(q)'
      <3>1. CASE q = p
        BY <2>1, <3>1, FinishLeavesOthers DEF SessionOK
      <3>2. CASE q # p
        <4>1. /\ pc'[q] = pc[q] /\ request'[q] = request[q]
              /\ seen'[q] = seen[q] /\ balance'[q] = balance[q]
          BY <2>1, <3>2, FinishLeavesOthers
        <4>2. pc[q] = "updated" =>
                /\ Material(q) \in Materials /\ Material(q) # m
                /\ lock'[Material(q)] = lock[Material(q)]
          BY <1>1, <2>1, <3>2, FinishLeavesOthers, SessionsAssumption
             DEF IInv, SessionOK, Material, Requests
        <4>3. pc[q] = "updated" => state'[Material(q)] = "present"
          BY <1>1, <2>1, <4>2 DEF IInv, TypeOK, SessionOK
        <4>4. QED
          BY <2>1, <4>1, <4>2, <4>3 DEF IInv, SessionOK, NewBalance, Delta, Material
      <3>3. QED
        BY <3>1, <3>2
    <2>4. \A n \in Materials : LockOK(n)'
      BY <2>1, FinishKeepsLocks
    <2>5. \A n \in Materials : BookOK(n)'
      BY <2>1 DEF IInv, TypeOK, BookOK
    <2>6. LedgerExplainsStock'
      BY <2>1 DEF IInv, LedgerExplainsStock, Book!LedgerExplainsStock
    <2>7. HistoryKept'
      BY <1>1, <2>1 DEF IInv, TypeOK, HistoryKept, Book!HistoryKept
    <2>8. QED
      BY <2>2, <2>3, <2>4, <2>5, <2>6, <2>7 DEF IInv
  <1>4. QED
    BY <1>2, <1>3

-----------------------------------------------------------------------------
\* Stock movements.

LEMMA ReadMaterialInductive ==
  ASSUME IInv, NEW p \in Sessions, ReadMaterial(p)
  PROVE  IInv'
  <1> DEFINE m == Material(p)
  <1>1. CASE ~(state[m] = "present" /\ active[m])
    BY <1>1, AbortInductive DEF ReadMaterial
  <1>2. CASE state[m] = "present" /\ active[m]
    <2>1. /\ pc[p] = "requested"
          /\ pc' = [pc EXCEPT ![p] = "read"]
          /\ seen' = [seen EXCEPT ![p] = stock[m]]
          /\ UNCHANGED <<lock, request, balance, state, active, stock, ledger>>
      BY <1>2 DEF ReadMaterial
    <2>2. request[p] \in Requests /\ m \in Materials
      BY <2>1 DEF IInv, SessionOK, Requests, Material
    <2>3. TypeOK'
      BY <2>1, <2>2 DEF IInv, TypeOK
    <2>4. ASSUME NEW q \in Sessions PROVE SessionOK(q)'
      BY <2>1 DEF IInv, TypeOK, SessionOK, NewBalance, Delta, Material
    <2>5. \A n \in Materials : LockOK(n)' /\ BookOK(n)'
      BY <2>1 DEF IInv, TypeOK, LockOK, BookOK, Material
    <2>6. LedgerExplainsStock' /\ HistoryKept'
      BY <2>1 DEF IInv, LedgerExplainsStock, Book!LedgerExplainsStock, HistoryKept, Book!HistoryKept
    <2>7. QED
      BY <2>3, <2>4, <2>5, <2>6 DEF IInv
  <1>3. QED
    BY <1>1, <1>2

LEMMA UpdateStockInductive ==
  ASSUME IInv, NEW p \in Sessions, UpdateStock(p)
  PROVE  IInv'
  <1> DEFINE m == Material(p)
             found == state[m] = "present" /\ Covered(p) /\ NewBalance(p) <= MaxStock
  <1>1. CASE ~found
    BY <1>1, AbortInductive DEF UpdateStock
  <1>2. CASE found
    <2>1. /\ pc[p] = "read" /\ lock[m] = NoSession
          /\ pc' = [pc EXCEPT ![p] = "updated"]
          /\ balance' = [balance EXCEPT ![p] = NewBalance(p)]
          /\ lock' = [lock EXCEPT ![m] = p]
          /\ UNCHANGED <<request, seen, state, active, stock, ledger>>
      BY <1>2 DEF UpdateStock
    <2>2. request[p] \in Requests /\ m \in Materials
      BY <2>1 DEF IInv, SessionOK, Requests, Material
    <2>3. Delta(p) \in Int
      BY <2>2, DeltaType, AmountsAssumption DEF IInv, TypeOK, Delta, Requests
    <2>4. NewBalance(p) \in 0 .. MaxStock
      BY <1>2, <2>2, <2>3, AmountsAssumption DEF IInv, BookOK, Covered, NewBalance
    <2> HIDE DEF m, found
    <2>5. TypeOK'
      BY <2>1, <2>2, <2>4, AmountsAssumption DEF IInv, TypeOK
    <2>6. ASSUME NEW q \in Sessions PROVE SessionOK(q)'
      <3>1. CASE q = p
        <4>1. /\ state'[Material(p)] = "present" /\ lock'[Material(p)] = p
              /\ balance'[p] = NewBalance(p)
          BY <1>2, <2>1, <2>2 DEF IInv, TypeOK, m, found
        <4>2. NewBalance(p)' = NewBalance(p)
          BY <2>1 DEF NewBalance, Delta, Material
        <4>3. QED
          BY <2>1, <2>4, <3>1, <4>1, <4>2 DEF IInv, TypeOK, SessionOK, Material
      <3>2. CASE q # p
        <4>1. pc[q] = "updated" => Material(q) # m
          BY <2>1, SessionsAssumption DEF IInv, SessionOK
        <4>2. QED
          BY <2>1, <2>2, <3>2, <4>1 DEF IInv, TypeOK, SessionOK, NewBalance, Delta, Material, Requests
      <3>3. QED
        BY <3>1, <3>2
    <2>7. ASSUME NEW n \in Materials PROVE LockOK(n)'
      <3>1. CASE n = m
        BY <2>1, <3>1 DEF IInv, TypeOK, LockOK, Material, m
      <3>2. CASE n # m
        BY <2>1, <3>2 DEF IInv, TypeOK, LockOK, Material
      <3>3. QED
        BY <3>1, <3>2
    <2>8. (\A n \in Materials : BookOK(n)') /\ LedgerExplainsStock' /\ HistoryKept'
      BY <2>1 DEF IInv, BookOK, LedgerExplainsStock, Book!LedgerExplainsStock, HistoryKept,
                  Book!HistoryKept
    <2>9. QED
      BY <2>5, <2>6, <2>7, <2>8 DEF IInv
  <1>3. QED
    BY <1>1, <1>2

\* What a commit enters in the books.
LEMMA CommitPosts ==
  ASSUME IInv, NEW p \in Sessions, Commit(p)
  PROVE  \E m \in Materials, type \in Book!MovementTypes, quantity \in -MaxStock .. MaxStock :
           /\ m = Material(p)
           /\ state[m] = "present"
           /\ Book!SignFits(type, quantity)
           /\ stock[m] + quantity = balance[p]
           /\ balance[p] \in 0 .. MaxStock
           /\ stock' = [stock EXCEPT ![m] = balance[p]]
           /\ ledger' = [ledger EXCEPT ![m] = Append(@,
                 [type |-> type, quantity |-> quantity, balanceAfter |-> balance[p]])]
  <1>1. /\ pc[p] = "updated"
        /\ stock' = [stock EXCEPT ![Material(p)] = balance[p]]
        /\ ledger' = [ledger EXCEPT ![Material(p)] = Append(@, Movement(p))]
    BY DEF Commit
  <1>2. /\ request[p] \in Requests /\ Material(p) \in Materials
        /\ request[p].type # "ADJUSTMENT" => request[p].amount > 0
        /\ state[Material(p)] = "present"
        /\ balance[p] = stock[Material(p)] + Delta(p) /\ balance[p] \in 0 .. MaxStock
    BY <1>1 DEF IInv, SessionOK, Requests, Material, NewBalance
  <1>3. /\ request[p].type \in Book!MovementTypes
        /\ Delta(p) \in Int
        /\ Book!SignFits(request[p].type, Delta(p))
    BY <1>2, DeltaType, AmountsAssumption DEF IInv, TypeOK, Delta, Requests
  <1>4. stock[Material(p)] \in 0 .. MaxStock
    BY <1>2 DEF IInv, BookOK
  <1>5. Delta(p) \in -MaxStock .. MaxStock
    BY <1>2, <1>3, <1>4, AmountsAssumption
  <1>6. QED
    BY <1>1, <1>2, <1>3, <1>5 DEF Movement

LEMMA CommitInductive ==
  ASSUME IInv, NEW p \in Sessions, Commit(p)
  PROVE  IInv'
  <1>1. PICK m \in Materials, type \in Book!MovementTypes, quantity \in -MaxStock .. MaxStock :
          /\ m = Material(p)
          /\ state[m] = "present"
          /\ Book!SignFits(type, quantity)
          /\ stock[m] + quantity = balance[p]
          /\ balance[p] \in 0 .. MaxStock
          /\ stock' = [stock EXCEPT ![m] = balance[p]]
          /\ ledger' = [ledger EXCEPT ![m] = Append(@,
                [type |-> type, quantity |-> quantity, balanceAfter |-> balance[p]])]
    BY CommitPosts
  <1> DEFINE mv == [type |-> type, quantity |-> quantity, balanceAfter |-> balance[p]]
  <1>2. Finish(p) /\ UNCHANGED <<state, active>> /\ pc[p] = "updated"
    BY DEF Commit
  <1>3. lock[m] = p
    BY <1>1, <1>2 DEF IInv, SessionOK
  <1>4. mv \in Book!Movements /\ balance[p] \in Int
    BY AmountsAssumption, <1>1 DEF Book!Movements
  <1>5. ledger[m] \in Seq(Book!Movements)
    BY DEF IInv, TypeOK
  <1>6. /\ ledger'[m] = Append(ledger[m], mv) /\ ledger'[m] \in Seq(Book!Movements)
        /\ stock'[m] = balance[p]
        /\ \A n \in Materials : n # m => ledger'[n] = ledger[n] /\ stock'[n] = stock[n]
    BY <1>1, <1>4, <1>5 DEF IInv, TypeOK
  <1>7. ledger' \in [Materials -> Seq(Book!Movements)] /\ stock' \in [Materials -> Int]
    BY <1>1, <1>4, <1>5, <1>6 DEF IInv, TypeOK
  <1> HIDE DEF mv
  <1>8. ASSUME NEW n \in Materials, NEW i \in DOMAIN ledger'[n]
        PROVE  Book!SignFits(ledger'[n][i].type, ledger'[n][i].quantity)
    <2>1. CASE n # m
      BY <1>6, <2>1 DEF IInv, TypeOK
    <2>2. CASE n = m /\ i = Len(ledger[m]) + 1
      BY <1>1, <1>5, <1>6, <2>2 DEF mv
    <2>3. CASE n = m /\ i # Len(ledger[m]) + 1
      <3>1. i \in DOMAIN ledger[m] /\ ledger'[m][i] = ledger[m][i]
        BY <1>4, <1>5, <1>6, <2>3
      <3>2. QED
        BY <2>3, <3>1 DEF IInv, TypeOK
    <2>4. QED
      BY <2>1, <2>2, <2>3
  <1>9. TypeOK'
    BY <1>2, <1>7, <1>8, FinishLeavesOthers DEF IInv, TypeOK
  <1>10. ASSUME NEW q \in Sessions PROVE SessionOK(q)'
    <2>1. CASE q = p
      BY <1>2, <2>1, FinishLeavesOthers DEF SessionOK
    <2>2. CASE q # p
      <3>1. /\ pc'[q] = pc[q] /\ request'[q] = request[q]
            /\ seen'[q] = seen[q] /\ balance'[q] = balance[q]
        BY <1>2, <2>2, FinishLeavesOthers
      <3>2. pc[q] = "updated" => /\ Material(q) \in Materials
                                 /\ lock[Material(q)] = q
        BY DEF IInv, SessionOK, Material, Requests
      <3>3. pc[q] = "updated" => Material(q) # m /\ lock'[Material(q)] = q
        BY <1>2, <1>3, <2>2, <3>2, FinishLeavesOthers
      <3>4. pc[q] = "updated" => stock'[Material(q)] = stock[Material(q)]
        BY <1>6, <3>2, <3>3
      <3>5. QED
        BY <1>2, <3>1, <3>3, <3>4 DEF IInv, SessionOK, NewBalance, Delta, Material
    <2>3. QED
      BY <2>1, <2>2
  <1>11. \A n \in Materials : LockOK(n)' /\ BookOK(n)'
    BY <1>1, <1>2, <1>6, FinishKeepsLocks DEF IInv, BookOK
  <1>12. LedgerExplainsStock'
    <2> DEFINE Before(l, i) == IF i = 1 THEN 0 ELSE l[i - 1].balanceAfter
               Adds(l) == \A i \in 1 .. Len(l) : l[i].balanceAfter = Before(l, i) + l[i].quantity
    <2>1. \A n \in Materials : Adds(ledger[n]) /\ stock[n] = Before(ledger[n], Len(ledger[n]) + 1)
      BY DEF IInv, LedgerExplainsStock, Book!LedgerExplainsStock
    <2>2. /\ Len(ledger'[m]) = Len(ledger[m]) + 1
          /\ \A i \in 1 .. Len(ledger[m]) : ledger'[m][i] = ledger[m][i]
          /\ ledger'[m][Len(ledger[m]) + 1] = mv
      BY <1>4, <1>5, <1>6
    <2>3. Len(ledger[m]) \in Nat
      BY <1>5
    <2>4. Before(ledger'[m], Len(ledger[m]) + 2) = balance[p]
      BY <2>2, <2>3 DEF mv
    <2>5. \A i \in 1 .. Len(ledger[m]) + 1 : Before(ledger'[m], i) = Before(ledger[m], i)
      BY <2>2, <2>3
    <2>6. mv.balanceAfter = Before(ledger[m], Len(ledger[m]) + 1) + mv.quantity
      BY <1>1, <2>1 DEF mv
    <2>7. Adds(ledger'[m])
      <3> SUFFICES ASSUME NEW i \in 1 .. Len(ledger[m]) + 1
                   PROVE  ledger'[m][i].balanceAfter = Before(ledger[m], i) + ledger'[m][i].quantity
        BY <2>2, <2>5
      <3>1. CASE i = Len(ledger[m]) + 1
        <4>1. ledger'[m][i] = mv
          BY <2>2, <3>1
        <4>2. mv.balanceAfter = Before(ledger[m], i) + mv.quantity
          BY <2>6, <3>1
        <4>3. QED
          BY <4>1, <4>2
      <3>2. CASE i # Len(ledger[m]) + 1
        <4>1. i \in 1 .. Len(ledger[m])
          BY <2>3, <3>2
        <4>2. ledger'[m][i] = ledger[m][i]
          BY <2>2, <4>1
        <4>3. ledger[m][i].balanceAfter = Before(ledger[m], i) + ledger[m][i].quantity
          BY <2>1, <4>1
        <4>4. QED
          BY <4>2, <4>3
      <3>3. QED
        BY <3>1, <3>2
    <2>8. stock'[m] = Before(ledger'[m], Len(ledger'[m]) + 1)
      BY <1>6, <2>2, <2>3, <2>4
    <2>9. ASSUME NEW n \in Materials, n # m
          PROVE  Adds(ledger'[n]) /\ stock'[n] = Before(ledger'[n], Len(ledger'[n]) + 1)
      <3>1. ledger'[n] = ledger[n] /\ stock'[n] = stock[n]
        BY <1>6, <2>9
      <3>2. Adds(ledger[n]) /\ stock[n] = Before(ledger[n], Len(ledger[n]) + 1)
        BY <2>1
      <3>3. QED
        BY <3>1, <3>2, Zenon
    <2>10. QED
      BY <2>7, <2>8, <2>9 DEF LedgerExplainsStock, Book!LedgerExplainsStock
  <1>13. HistoryKept'
    <2>1. \A n \in Materials : state[n] = "deleted" => n # m
      BY <1>1
    <2>2. QED
      BY <1>2, <1>6, <2>1 DEF IInv, HistoryKept, Book!HistoryKept
  <1>14. QED
    BY <1>9, <1>10, <1>11, <1>12, <1>13 DEF IInv

-----------------------------------------------------------------------------
LEMMA Inductive == IInv /\ [Next]_vars => IInv'
  <1> SUFFICES ASSUME IInv, [Next]_vars PROVE IInv'
    OBVIOUS
  <1>1. CASE UNCHANGED vars
    <2>1. TypeOK' /\ \A q \in Sessions : SessionOK(q)'
      BY <1>1 DEF vars, IInv, TypeOK, SessionOK, NewBalance, Delta, Material
    <2>2. \A m \in Materials : LockOK(m)' /\ BookOK(m)'
      BY <1>1 DEF vars, IInv, LockOK, BookOK, Material
    <2>3. LedgerExplainsStock' /\ HistoryKept'
      BY <1>1 DEF vars, IInv, LedgerExplainsStock, Book!LedgerExplainsStock, HistoryKept,
                  Book!HistoryKept
    <2>4. QED
      BY <2>1, <2>2, <2>3 DEF IInv
  <1>2. ASSUME NEW m \in Materials, NEW isActive \in BOOLEAN, NEW role \in Roles,
               CreateMaterial(m, isActive, role) \/ SetMaterialActive(m, isActive, role)
        PROVE  IInv'
    BY <1>2, CreateMaterialInductive, SetMaterialActiveInductive
  <1>3. ASSUME NEW p \in Sessions, NEW m \in Materials, NEW role \in Roles,
               CheckReferences(p, m, role)
        PROVE  IInv'
    BY <1>3, CheckReferencesInductive
  <1>4. ASSUME NEW p \in Sessions, NEW r \in Requests, NEW role \in Roles,
               RecordStockMovement(p, r, role)
        PROVE  IInv'
    BY <1>4, RecordStockMovementInductive
  <1>5. ASSUME NEW p \in Sessions,
               DeleteMaterial(p) \/ ReadMaterial(p) \/ UpdateStock(p) \/ Commit(p) \/ Rollback(p)
        PROVE  IInv'
    BY <1>5, DeleteMaterialInductive, ReadMaterialInductive, UpdateStockInductive,
       CommitInductive, AbortInductive DEF Rollback
  <1>6. QED
    BY <1>1, <1>2, <1>3, <1>4, <1>5 DEF Next

LEMMA Invariance == Spec => []IInv
  <1>1. QED
    BY InitInductive, Inductive, PTL DEF Spec

\* Every step of the transactions is a step of the book or changes nothing in it.
LEMMA StepImplements == IInv /\ [Next]_vars => [Book!Next]_(Book!bookVars)
  <1> DEFINE Gone == {m \in Materials : state[m] = "deleted"}
             Unseen == UNCHANGED <<stock, ledger>> /\ Gone' = Gone
  <1> SUFFICES ASSUME IInv, [Next]_vars PROVE Book!Next \/ Unseen
    BY DEF Book!bookVars
  <1>1. CASE UNCHANGED <<state, stock, ledger>>
    BY <1>1
  <1>2. ASSUME NEW m \in Materials, NEW isActive \in BOOLEAN, NEW role \in Roles,
               CreateMaterial(m, isActive, role)
        PROVE  Unseen
    BY <1>2 DEF CreateMaterial, IInv, TypeOK
  <1>3. ASSUME NEW p \in Sessions, DeleteMaterial(p)
        PROVE  Book!Next \/ Unseen
    <2> DEFINE m == Material(p)
    <2>1. m \in Materials
      BY <1>3 DEF IInv, SessionOK, DeleteMaterial
    <2>2. CASE Deletable(m)
      <3>1. ledger[m] = <<>> /\ UNCHANGED <<stock, ledger>>
        BY <1>3, <2>2 DEF DeleteMaterial, Deletable
      <3>2. Gone' = Gone \cup {m}
        BY <1>3, <2>1, <2>2 DEF DeleteMaterial, IInv, TypeOK
      <3>3. QED
        BY <2>1, <3>1, <3>2 DEF Book!Next, Book!Delete
    <2>3. CASE ~Deletable(m)
      BY <1>3, <2>1, <2>3 DEF DeleteMaterial, IInv, TypeOK
    <2>4. QED
      BY <2>2, <2>3
  <1>4. ASSUME NEW p \in Sessions, Commit(p)
        PROVE  Book!Next
    <2>1. PICK m \in Materials, type \in Book!MovementTypes, quantity \in -MaxStock .. MaxStock :
            /\ state[m] = "present"
            /\ Book!SignFits(type, quantity)
            /\ stock[m] + quantity = balance[p]
            /\ balance[p] \in 0 .. MaxStock
            /\ stock' = [stock EXCEPT ![m] = balance[p]]
            /\ ledger' = [ledger EXCEPT ![m] = Append(@,
                  [type |-> type, quantity |-> quantity, balanceAfter |-> balance[p]])]
      BY <1>4, CommitPosts
    <2>2. m \notin Gone /\ Gone' = Gone
      BY <1>4, <2>1 DEF Commit
    <2>3. /\ stock' = [stock EXCEPT ![m] = stock[m] + quantity]
          /\ ledger' = [ledger EXCEPT ![m] = Append(@,
                [type |-> type, quantity |-> quantity, balanceAfter |-> stock[m] + quantity])]
      BY <2>1, Zenon
    <2>4. stock[m] + quantity >= 0
      BY <2>1, AmountsAssumption
    <2>5. Book!Post(m, type, quantity)
      BY <2>1, <2>2, <2>3, <2>4, Zenon DEF Book!Post
    <2>6. QED
      BY <2>5 DEF Book!Next
  <1>5. QED
    BY <1>1, <1>2, <1>3, <1>4 DEF Next, vars, SetMaterialActive, CheckReferences,
       RecordStockMovement, ReadMaterial, UpdateStock, Rollback

-----------------------------------------------------------------------------
(* The theorems. *)

\* Every variable has its type, and every movement the sign of its type.
THEOREM TypeCorrect == Spec => []TypeOK
  <1>1. IInv => TypeOK
    BY DEF IInv
  <1>2. QED
    BY <1>1, Invariance, PTL

\* The concurrent transactions of recordStockMovement() and deleteMaterial() implement a
\* ledger that is written one movement at a time.
THEOREM Refinement == Spec => ImplementsBook
  <1>1. Init => Book!Init
    BY DEF Init, Book!Init
  <1>2. IInv /\ [Next]_vars => [Book!Next]_(Book!bookVars)
    BY StepImplements
  <1>3. QED
    BY <1>1, <1>2, Invariance, PTL DEF Spec, ImplementsBook, Book!Spec

\* The guard of the conditional UPDATE keeps every balance at zero or above, whatever
\* movements commit between the read of a movement and its update.
THEOREM NeverNegative == Spec => []StockNeverNegative
  <1>1. IInv => StockNeverNegative
    BY AmountsAssumption DEF IInv, BookOK, StockNeverNegative
  <1>2. QED
    BY <1>1, Invariance, PTL

\* The rows of the ledger add up to the stock on hand, balance by balance.
THEOREM LedgerAddsUp == Spec => []LedgerExplainsStock
  <1>1. IInv => LedgerExplainsStock
    BY DEF IInv
  <1>2. QED
    BY <1>1, Invariance, PTL

\* A material whose ledger has a row is never deleted.
THEOREM NoOrphanedHistory == Spec => []HistoryKept
  <1>1. IInv => HistoryKept
    BY DEF IInv
  <1>2. QED
    BY <1>1, Invariance, PTL
===============================================================================
