---------------------------- MODULE AccountsProofs ----------------------------
(***************************************************************************)
(* Type correctness, AdminRemains and CutOffStaysOut of Accounts.tla, for  *)
(* any number of tenants, users, devices and requests.                     *)
(***************************************************************************)
EXTENDS Accounts, TLAPS

Exists(e) == e \in Emails /\ users[e] # NoUser

\* A cookie of a user there is, no newer than the user.
Known(c) == Exists(c.user) /\ c.tv <= users[c.user].tv

InTransaction == {"lock", "change", "assert", "commit"}
Managing(r) == call[r].op \in AdminOps

\* What an open transaction has written, and by which locks.
WriteOK(r) ==
    /\ wrote[r] # NoWrite <=> pc[r] \in {"assert", "commit"}
    /\ wrote[r] # NoWrite =>
          /\ wrote[r].email = Target(r)
          /\ wrote[r].row.tenant = TenantOf(r)
          /\ Exists(Target(r)) =>
                wrote[r].row.tv > users[Target(r)].tv /\ users[Target(r)].tenant = TenantOf(r)
          /\ ~Managing(r) =>
                /\ wrote[r].row.role = users[actor[r]].role
                /\ wrote[r].row.active = users[actor[r]].active
    /\ pc[r] \in {"change", "assert", "commit"} /\ Managing(r) => tenantLock[TenantOf(r)] = r
    /\ pc[r] = "commit" /\ Managing(r) => \E e \in Emails : IsAdmin(UsersSeen(r)[e], TenantOf(r))

\* What a request knows at each statement.
RequestOK(r) ==
    /\ pc[r] \in InTransaction => call[r].op \in OwnOps \cup AdminOps
    /\ pc[r] \in {"lock", "assert"} => Managing(r)
    /\ pc[r] \notin {"idle", "create", "respond"} => Exists(actor[r])
    /\ pc[r] \in InTransaction /\ Managing(r) /\ call[r].op # "invite" =>
          Exists(call[r].email) /\ users[call[r].email].tenant = TenantOf(r)
    /\ pc[r] = "create" => call[r].op = "signup" /\ actor[r] \in Emails /\ Len(call[r].slugs) > 0
    /\ pc[r] \in {"stamp", "reissue"} => seen[r] <= users[actor[r]].tv
    /\ answer[r] \in Cookies => Known(answer[r])
    /\ WriteOK(r)

\* Two transactions never write the same user.
RowsApart ==
    \A r, s \in Requests :
        r # s /\ wrote[r] # NoWrite /\ wrote[s] # NoWrite => wrote[r].email # wrote[s].email

IInv ==
    /\ TypeOK
    /\ AdminRemains
    /\ \A e \in Emails : users[e] # NoUser => users[e].tenant \in tenants
    /\ \A d \in Devices : cookie[d] \in Cookies => Known(cookie[d])
    /\ \A r \in Requests : RequestOK(r)
    /\ RowsApart

-----------------------------------------------------------------------------
(***************************************************************************)
(* Data.                                                                   *)
(***************************************************************************)
LEMMA CallTypes ==
  ASSUME NEW c \in Calls
  PROVE  /\ c.op \in AdminOps => c.email \in Emails /\ c.role \in Roles
         /\ c.op = "signup" => c.slugs \in Seq(Tenants \ {DemoTenant})
  BY DEF Calls, OwnOps, AdminOps

LEMMA Tails ==
  ASSUME NEW c \in Calls, c.op = "signup", Len(c.slugs) > 0
  PROVE  /\ Head(c.slugs) \in Tenants
         /\ [op |-> "signup", slugs |-> Tail(c.slugs)] \in Calls
         /\ Len(c.slugs) > 1 => Len(Tail(c.slugs)) > 0
  <1>1. c.slugs \in Seq(Tenants \ {DemoTenant})
    BY CallTypes
  <1>2. Tail(c.slugs) \in Seq(Tenants \ {DemoTenant}) /\ Head(c.slugs) \in Tenants
    BY <1>1
  <1>3. Len(Tail(c.slugs)) = Len(c.slugs) - 1 /\ Len(c.slugs) \in Nat
    BY <1>1
  <1>4. QED
    BY <1>2, <1>3 DEF Calls

\* An update keeps the tenant, counts the version up, and leaves role and active alone if it is the user's own.
LEMMA ChangedUser ==
  ASSUME NEW c \in Calls, c.op \in OwnOps \cup AdminOps, NEW user \in Users, Changed(c, user) # user
  PROVE  /\ Changed(c, user) \in Users
         /\ Changed(c, user).tenant = user.tenant
         /\ Changed(c, user).tv > user.tv
         /\ c.op \notin AdminOps => /\ Changed(c, user).role = user.role
                                    /\ Changed(c, user).active = user.active
  <1>1. c.op \in AdminOps => c.role \in Roles
    BY CallTypes
  <1>2. CASE c.op = "edit"
    <2>1. Changed(c, user) = [tenant |-> user.tenant, role |-> c.role, active |-> user.active, tv |-> user.tv + 1,
                            must |-> user.must]
      BY <1>2 DEF Changed, Users
    <2>2. QED
      BY <1>1, <1>2, <2>1 DEF Users, AdminOps
  <1>3. CASE c.op = "reset"
    <2>1. Changed(c, user) = [tenant |-> user.tenant, role |-> user.role, active |-> user.active, tv |-> user.tv + 1,
                            must |-> TRUE]
      BY <1>3 DEF Changed, Users
    <2>2. QED
      BY <1>1, <1>3, <2>1 DEF Users, AdminOps
  <1>4. CASE c.op = "deactivate"
    <2>1. Changed(c, user) = [tenant |-> user.tenant, role |-> user.role, active |-> FALSE, tv |-> user.tv + 1,
                            must |-> user.must]
      BY <1>4 DEF Changed, Users
    <2>2. QED
      BY <1>1, <1>4, <2>1 DEF Users, AdminOps
  <1>5. CASE c.op = "reactivate"
    <2>1. Changed(c, user) = [tenant |-> user.tenant, role |-> user.role, active |-> TRUE, tv |-> user.tv + 1,
                            must |-> user.must]
      BY <1>5 DEF Changed, Users
    <2>2. QED
      BY <1>1, <1>5, <2>1 DEF Users, AdminOps
  <1>6. CASE c.op = "password"
    <2>1. Changed(c, user) = [tenant |-> user.tenant, role |-> user.role, active |-> user.active, tv |-> user.tv + 1,
                            must |-> FALSE]
      BY <1>6 DEF Changed, Users
    <2>2. QED
      BY <1>1, <1>6, <2>1 DEF Users, AdminOps
  <1>7. CASE c.op \in {"name", "signOutEverywhere"}
    <2>1. Changed(c, user) = [tenant |-> user.tenant, role |-> user.role, active |-> user.active, tv |-> user.tv + 1,
                            must |-> user.must]
      BY <1>7 DEF Changed, Users
    <2>2. QED
      BY <2>1 DEF Users
  <1>8. CASE c.op = "invite"
    BY <1>8 DEF Changed
  <1>9. QED
    BY <1>2, <1>3, <1>4, <1>5, <1>6, <1>7, <1>8 DEF OwnOps, AdminOps

\* Nothing that is known is a model value.
LEMMA Distinct == /\ NoUser \notin Users
                  /\ NoCookie \notin Cookies
                  /\ Keep \notin Cookies
                  /\ NoWrite \notin [email : Emails, row : Users]
                  /\ NoRequest \notin Requests
  BY AccountsAssumption

-----------------------------------------------------------------------------
(***************************************************************************)
(* Frames.                                                                 *)
(***************************************************************************)
\* Users stay where they are and their versions never go back.
Grown ==
    \A e \in Emails : users[e] # NoUser =>
        users'[e] # NoUser /\ users'[e].tenant = users[e].tenant /\ users'[e].tv >= users[e].tv

Same(q) ==
    /\ pc'[q] = pc[q] /\ call'[q] = call[q] /\ actor'[q] = actor[q] /\ wrote'[q] = wrote[q]
    /\ seen'[q] = seen[q] /\ answer'[q] = answer[q]
    /\ \A t \in Tenants : tenantLock[t] = q => tenantLock'[t] = q

LEMMA KnownGrown ==
  ASSUME TypeOK, TypeOK', Grown, NEW c \in Cookies, Known(c)
  PROVE  Known(c)'
  <1>1. c.user \in Emails /\ users[c.user] \in Users /\ users'[c.user] \in Users /\ c.tv \in Nat
    BY Distinct DEF TypeOK, Known, Exists, Grown, Cookies
  <1>2. QED
    BY <1>1 DEF Known, Exists, Grown, Users

LEMMA OthersKept ==
  ASSUME TypeOK, TypeOK', Grown, NEW q \in Requests, RequestOK(q), Same(q),
         wrote[q] # NoWrite => users'[wrote[q].email] = users[wrote[q].email],
         pc[q] = "commit" /\ Managing(q) => \E e \in Emails : IsAdmin(UsersSeen(q)'[e], TenantOf(q))
  PROVE  RequestOK(q)'
  <1> USE DEF Exists, Managing
  <1>1. /\ call[q] \in Calls \cup {Idle} /\ actor[q] \in Emails \cup {NoUser} /\ seen[q] \in Nat
        /\ \A e \in Emails : users[e] # NoUser => /\ users[e] \in Users
                                                /\ users'[e] \in Users
                                                /\ users[e].tv \in Nat
                                                /\ users'[e].tv \in Nat
                                                /\ users[e].tenant \in Tenants
    BY DEF TypeOK, Users, Grown
  <1>2. Exists(actor[q]) => Exists(actor[q])' /\ TenantOf(q)' = TenantOf(q)
    BY <1>1 DEF Grown, Same, TenantOf
  <1>3. Target(q)' = Target(q)
    BY DEF Same, Target
  <1>4. answer'[q] \in Cookies => Known(answer[q])'
    BY KnownGrown DEF RequestOK, Same
  <1>5. WriteOK(q)'
    <2>1. wrote[q] # NoWrite => Exists(actor[q]) /\ pc[q] \in {"assert", "commit"}
      BY DEF RequestOK, WriteOK
    <2>2. ASSUME wrote[q] # NoWrite
          PROVE  /\ wrote[q].email = Target(q)
                 /\ wrote[q].row.tenant = TenantOf(q)
                 /\ Exists(Target(q))' =>
                       wrote[q].row.tv > users'[Target(q)].tv /\ users'[Target(q)].tenant = TenantOf(q)
                 /\ ~Managing(q) => /\ wrote[q].row.role = users'[actor[q]].role
                                    /\ wrote[q].row.active = users'[actor[q]].active
      <3>1. users'[Target(q)] = users[Target(q)]
        BY <2>2 DEF RequestOK, WriteOK
      <3>2. ~Managing(q) => Target(q) = actor[q]
        BY <2>1, <2>2 DEF RequestOK, Target, InTransaction
      <3>3. QED
        BY <1>3, <2>2, <3>1, <3>2 DEF RequestOK, WriteOK
    <2>3. /\ pc[q] \in {"change", "assert", "commit"} /\ Managing(q) => tenantLock'[TenantOf(q)] = q
          /\ pc[q] \in {"change", "assert", "commit"} => Exists(actor[q])
      BY <1>1 DEF RequestOK, WriteOK, Same, TenantOf
    <2>4. wrote'[q] # NoWrite <=> pc'[q] \in {"assert", "commit"}
      BY DEF RequestOK, WriteOK, Same
    <2>5. QED
      BY <1>2, <1>3, <2>1, <2>2, <2>3, <2>4 DEF WriteOK, Same
  <1>6. pc[q] \in InTransaction /\ Managing(q) /\ call[q].op # "invite" =>
          Exists(call[q].email)' /\ users'[call[q].email].tenant = TenantOf(q)'
    <2>1. pc[q] \in InTransaction => Exists(actor[q])
      BY DEF RequestOK, InTransaction
    <2>2. QED
      BY <1>2, <2>1 DEF RequestOK, Grown, Same
  <1>7. pc[q] \in {"stamp", "reissue"} => seen[q] <= users'[actor[q]].tv
    BY <1>1 DEF RequestOK, Grown
  <1>8. QED
    BY <1>2, <1>4, <1>5, <1>6, <1>7 DEF RequestOK, Same

\* Steps that change no committed user.
LEMMA QuietOthers ==
  ASSUME IInv, TypeOK', users' = users, NEW q \in Requests, Same(q)
  PROVE  RequestOK(q)'
  <1>1. Grown
    BY DEF Grown, IInv, TypeOK, Users
  <1>2. RequestOK(q)
    BY DEF IInv
  <1>3. UsersSeen(q)' = UsersSeen(q)
    BY DEF UsersSeen, Same
  <1>4. pc[q] = "commit" /\ Managing(q) => \E e \in Emails : IsAdmin(UsersSeen(q)'[e], TenantOf(q))
    BY <1>2, <1>3 DEF RequestOK, WriteOK
  <1>5. QED
    BY <1>1, <1>2, <1>4, OthersKept DEF IInv

LEMMA Quiet ==
  ASSUME IInv, TypeOK', users' = users, tenants' = tenants, NEW r \in Requests,
         \A q \in Requests \ {r} : Same(q),
         RequestOK(r)', RowsApart',
         \A d \in Devices : cookie'[d] \in Cookies => cookie'[d] = cookie[d] \/ cookie'[d] = answer[r]
  PROVE  IInv'
  <1>1. \A q \in Requests : RequestOK(q)'
    BY QuietOthers
  <1>2. ASSUME NEW d \in Devices, cookie'[d] \in Cookies
        PROVE  Known(cookie[d])'
    <2>1. cookie'[d] \in Cookies /\ (cookie'[d] = cookie[d] \/ cookie'[d] = answer[r])
      BY <1>2
    <2>2. Exists(cookie'[d].user) /\ cookie'[d].tv <= users[cookie'[d].user].tv
      BY <2>1 DEF IInv, RequestOK, Known
    <2>3. QED
      BY <2>2 DEF Known, Exists
  <1>3. AdminRemains'
    BY DEF IInv, AdminRemains
  <1>4. QED
    BY <1>1, <1>2, <1>3 DEF IInv, Exists

-----------------------------------------------------------------------------
(***************************************************************************)
(* Requests.                                                               *)
(***************************************************************************)
LEMMA LetInStep ==
  ASSUME IInv, NEW r \in Requests, NEW c \in Asked, NEW step \in {"respond", "lock", "change"},
         LetIn(r, c, step),
         step = "lock" => /\ c.op \in AdminOps
                          /\ c.op # "invite" => /\ users[c.email] # NoUser
                                                /\ users[c.email].tenant = users[cookie[DeviceOf[r]].user].tenant,
         step = "change" => c.op \in OwnOps
  PROVE  IInv'
  <1> USE DEF LetIn, Ask, Goto, rows
  <1> DEFINE u == cookie[DeviceOf[r]].user
  <1>1. /\ c \in Calls /\ DeviceOf[r] \in Devices /\ cookie[DeviceOf[r]] \in Cookies
        /\ u \in Emails /\ users[u] # NoUser /\ Known(cookie[DeviceOf[r]])
    BY AccountsAssumption DEF SignedIn, Good, IInv, TypeOK, Cookies
  <1>2. /\ pc'[r] = step /\ call'[r] = c /\ actor'[r] = u /\ wrote'[r] = wrote[r] /\ wrote[r] = NoWrite
        /\ answer'[r] \in {Keep, cookie[DeviceOf[r]]}
    BY DEF IInv, TypeOK, RequestOK, WriteOK
  <1>3. TypeOK'
    BY <1>1 DEF IInv, TypeOK, Steps
  <1>4. \A q \in Requests \ {r} : Same(q)
    BY DEF IInv, TypeOK, Same
  <1>5. RequestOK(r)'
    <2>1. c.op \in AdminOps => c.email \in Emails
      BY <1>1, CallTypes
    <2>2. c.op \in OwnOps => c.op \notin AdminOps
      BY DEF OwnOps, AdminOps
    <2>3. answer'[r] \in Cookies => Known(answer[r])'
      BY <1>1, <1>2, Distinct DEF Known, Exists
    <2>4. WriteOK(r)'
      BY <1>2, <2>2 DEF WriteOK, Managing
    <2>5. QED
      BY <1>1, <1>2, <2>1, <2>2, <2>3, <2>4 DEF RequestOK, InTransaction, Managing, Exists, TenantOf
  <1>6. RowsApart'
    BY DEF IInv, RowsApart
  <1>7. QED
    BY <1>3, <1>4, <1>5, <1>6, Quiet

LEMMA OpenPageStep ==
  ASSUME IInv, NEW r \in Requests, OpenPage(r)
  PROVE  IInv'
  BY LetInStep DEF OpenPage, LetIn, Ask

LEMMA ManageUsersStep ==
  ASSUME IInv, NEW r \in Requests, ManageUsers(r)
  PROVE  IInv'
  BY LetInStep DEF ManageUsers

LEMMA ChangeOwnStep ==
  ASSUME IInv, NEW r \in Requests, ChangeOwn(r)
  PROVE  IInv'
  BY LetInStep DEF ChangeOwn

LEMMA LoginStep ==
  ASSUME IInv, NEW r \in Requests, Login(r)
  PROVE  IInv'
  <1> USE DEF Login, Ask, Goto, rows
  <1>1. PICK e \in Emails : /\ users[e] # NoUser
                            /\ Ask(r, [op |-> "login"], e, "stamp")
                            /\ seen' = [seen EXCEPT ![r] = users[e].tv]
    OBVIOUS
  <1>2. users[e] \in Users /\ users[e].tv \in Nat /\ [op |-> "login"] \in Calls
    BY <1>1, AccountsAssumption DEF IInv, TypeOK, Users
  <1>3. /\ pc'[r] = "stamp" /\ actor'[r] = e /\ wrote'[r] = NoWrite /\ seen'[r] = users[e].tv
        /\ answer'[r] = answer[r]
    BY <1>1 DEF IInv, TypeOK, RequestOK, WriteOK
  <1>4. TypeOK'
    BY <1>1, <1>2 DEF IInv, TypeOK, Steps
  <1>5. \A q \in Requests \ {r} : Same(q)
    BY <1>1 DEF IInv, TypeOK, Same
  <1>6. RequestOK(r)'
    <2>1. answer'[r] \in Cookies => Known(answer[r])'
      BY <1>3 DEF IInv, RequestOK, Known, Exists
    <2>2. QED
      BY <1>1, <1>2, <1>3, <2>1 DEF RequestOK, WriteOK, InTransaction, Exists
  <1>7. RowsApart'
    BY DEF IInv, RowsApart
  <1>8. QED
    BY <1>4, <1>5, <1>6, <1>7, Quiet

LEMMA LogoutStep ==
  ASSUME IInv, NEW r \in Requests, Logout(r)
  PROVE  IInv'
  <1> USE DEF Logout, Ask, Goto, rows
  <1>1. [op |-> "logout"] \in Calls
    BY AccountsAssumption
  <1>2. pc'[r] = "respond" /\ wrote'[r] = NoWrite /\ answer'[r] = NoCookie
    BY DEF IInv, TypeOK, RequestOK, WriteOK
  <1>3. TypeOK'
    BY <1>1 DEF IInv, TypeOK, Steps
  <1>4. \A q \in Requests \ {r} : Same(q)
    BY DEF IInv, TypeOK, Same
  <1>5. RequestOK(r)'
    BY <1>2, Distinct DEF RequestOK, WriteOK, InTransaction
  <1>6. RowsApart'
    BY DEF IInv, RowsApart
  <1>7. QED
    BY <1>3, <1>4, <1>5, <1>6, Quiet

LEMMA SignUpStep ==
  ASSUME IInv, NEW r \in Requests, SignUp(r)
  PROVE  IInv'
  <1> USE DEF SignUp, Ask, Goto, rows
  <1>1. PICK c \in Asked, e \in Emails : c.op = "signup" /\ Ask(r, c, e, "create")
    OBVIOUS
  <1>2. c \in Calls /\ Len(c.slugs) > 0
    BY <1>1, AccountsAssumption
  <1>3. /\ pc'[r] = "create" /\ actor'[r] = e /\ call'[r] = c /\ wrote'[r] = NoWrite
        /\ answer'[r] = answer[r]
    BY <1>1 DEF IInv, TypeOK, RequestOK, WriteOK
  <1>4. TypeOK'
    BY <1>1, <1>2 DEF IInv, TypeOK, Steps
  <1>5. \A q \in Requests \ {r} : Same(q)
    BY <1>1 DEF IInv, TypeOK, Same
  <1>6. RequestOK(r)'
    <2>1. answer'[r] \in Cookies => Known(answer[r])'
      BY <1>3 DEF IInv, RequestOK, Known, Exists
    <2>2. QED
      BY <1>1, <1>2, <1>3, <2>1 DEF RequestOK, WriteOK, InTransaction, Exists
  <1>7. RowsApart'
    BY DEF IInv, RowsApart
  <1>8. QED
    BY <1>4, <1>5, <1>6, <1>7, Quiet

-----------------------------------------------------------------------------
(***************************************************************************)
(* Transactions.                                                           *)
(***************************************************************************)
LEMMA LockTenantRowStep ==
  ASSUME IInv, NEW r \in Requests, LockTenantRow(r)
  PROVE  IInv'
  <1> USE DEF LockTenantRow, Goto, asked
  <1>1. /\ pc[r] = "lock" /\ pc'[r] = "change" /\ Managing(r) /\ Exists(actor[r])
        /\ TenantOf(r) \in Tenants /\ tenantLock'[TenantOf(r)] = r
    BY Distinct DEF IInv, TypeOK, RequestOK, TenantOf, Exists, Users
  <1>2. TypeOK'
    BY <1>1 DEF IInv, TypeOK, Steps
  <1>3. \A q \in Requests \ {r} : Same(q)
    BY Distinct DEF IInv, TypeOK, Same
  <1>4. RequestOK(r)'
    BY <1>1 DEF IInv, RequestOK, WriteOK, InTransaction, Managing, Exists, Known, TenantOf
  <1>5. RowsApart'
    BY DEF IInv, RowsApart
  <1>6. QED
    BY <1>2, <1>3, <1>4, <1>5, Quiet

\* The end of a transaction that has written nothing it keeps.
LEMMA EndStep ==
  ASSUME IInv, NEW r \in Requests, NEW step \in {"respond", "readVersion"}, End(r, step), Exists(actor[r]),
         UNCHANGED <<tenants, users, cookie, asked, seen, answer>>
  PROVE  IInv'
  <1> USE DEF End, Goto, asked, Unlocked
  <1>1. TypeOK'
    BY DEF IInv, TypeOK, Steps
  <1>2. \A q \in Requests \ {r} : Same(q)
    BY DEF IInv, TypeOK, Same
  <1>3. pc'[r] = step /\ wrote'[r] = NoWrite
    BY DEF IInv, TypeOK
  <1>4. RequestOK(r)'
    BY <1>3 DEF IInv, RequestOK, WriteOK, InTransaction, Exists, Known
  <1>5. RowsApart'
    BY DEF IInv, TypeOK, RowsApart
  <1>6. QED
    BY <1>1, <1>2, <1>4, <1>5, Quiet

\* The write of a user that nobody else has written.
LEMMA WriteStep ==
  ASSUME IInv, NEW r \in Requests, NEW row \in Users, pc[r] = "change", ~RowHeld(r, Target(r)), Write(r, row),
         UNCHANGED <<tenants, users, cookie, tenantLock, asked, seen, answer>>,
         Target(r) \in Emails,
         row.tenant = TenantOf(r),
         Exists(Target(r)) => row.tv > users[Target(r)].tv /\ users[Target(r)].tenant = TenantOf(r),
         ~Managing(r) => row.role = users[actor[r]].role /\ row.active = users[actor[r]].active
  PROVE  IInv'
  <1> USE DEF Write, Goto, asked
  <1>1. /\ pc'[r] = IF Managing(r) THEN "assert" ELSE "commit"
        /\ wrote'[r] = [email |-> Target(r), row |-> row] /\ wrote'[r] # NoWrite
        /\ Exists(actor[r])
    <2>1. [email |-> Target(r), row |-> row] \in [email : Emails, row : Users]
      OBVIOUS
    <2>2. wrote'[r] = [email |-> Target(r), row |-> row]
      BY DEF IInv, TypeOK
    <2>3. pc'[r] = IF Managing(r) THEN "assert" ELSE "commit"
      BY DEF IInv, TypeOK, Managing
    <2>4. QED
      BY <2>1, <2>2, <2>3, Distinct DEF IInv, RequestOK
  <1>2. TypeOK'
    BY DEF IInv, TypeOK, Steps
  <1>3. \A q \in Requests \ {r} : Same(q)
    BY DEF IInv, TypeOK, Same
  <1>4. WriteOK(r)'
    BY <1>1 DEF IInv, RequestOK, WriteOK, Managing, Target, TenantOf, Exists
  <1>5. RequestOK(r)'
    BY <1>1, <1>4 DEF IInv, RequestOK, InTransaction, Managing, Exists, Known, TenantOf
  <1>6. RowsApart'
    <2>1. \A q \in Requests \ {r} : wrote'[q] = wrote[q]
      BY DEF IInv, TypeOK
    <2>2. \A q \in Requests \ {r} : wrote[q] # NoWrite => wrote[q].email # Target(r)
      BY DEF RowHeld
    <2>3. QED
      BY <1>1, <2>1, <2>2 DEF IInv, RowsApart
  <1>7. QED
    BY <1>2, <1>3, <1>5, <1>6, Quiet

LEMMA ChangeUserStep ==
  ASSUME IInv, NEW r \in Requests, ChangeUser(r)
  PROVE  IInv'
  <1> DEFINE before == users[Target(r)]
             after  == Changed(call[r], before)
  <1>1. /\ pc[r] = "change" /\ call[r].op \in OwnOps \cup AdminOps /\ call[r] \in Calls /\ Exists(actor[r])
    <2>1. call[r] # Idle
      BY DEF ChangeUser, IInv, RequestOK, InTransaction, Idle, OwnOps, AdminOps
    <2>2. QED
      BY <2>1 DEF ChangeUser, IInv, TypeOK, RequestOK, InTransaction
  <1>2. /\ Exists(Target(r)) /\ before \in Users /\ before.tenant = TenantOf(r)
        /\ ~Managing(r) => Target(r) = actor[r]
    <2>1. CASE call[r].op \in OwnOps
      BY <1>1, <2>1 DEF Target, TenantOf, Exists, IInv, TypeOK, Managing, OwnOps, AdminOps
    <2>2. CASE call[r].op \in AdminOps
      <3>1. Target(r) = call[r].email
        BY <2>2 DEF Target, OwnOps, AdminOps
      <3>2. call[r].op # "invite"
        BY DEF ChangeUser
      <3>3. QED
        BY <1>1, <2>2, <3>1, <3>2 DEF IInv, TypeOK, RequestOK, InTransaction, Managing, Exists
    <2>3. QED
      BY <1>1, <2>1, <2>2
  <1>3. CASE after # before /\ Write(r, after) /\ UNCHANGED tenantLock
    <2>1. /\ after \in Users /\ after.tenant = before.tenant /\ after.tv > before.tv
          /\ ~Managing(r) => after.role = before.role /\ after.active = before.active
      BY <1>1, <1>2, <1>3, ChangedUser DEF Managing
    <2>2. QED
      BY <1>1, <1>2, <1>3, <2>1, WriteStep DEF ChangeUser, Exists
  <1>4. CASE End(r, Afterwards(r))
    BY <1>1, <1>4, EndStep DEF ChangeUser, Afterwards
  <1>5. QED
    BY <1>3, <1>4 DEF ChangeUser

LEMMA CreateUserStep ==
  ASSUME IInv, NEW r \in Requests, CreateUser(r)
  PROVE  IInv'
  <1>1. /\ pc[r] = "change" /\ call[r].op = "invite" /\ call[r] \in Calls /\ Exists(actor[r]) /\ Managing(r)
        /\ ~RowHeld(r, Target(r))
    <2>1. call[r] # Idle
      BY DEF CreateUser, Idle
    <2>2. QED
      BY <2>1 DEF CreateUser, IInv, TypeOK, RequestOK, Managing, AdminOps
  <1>2. Target(r) \in Emails /\ call[r].role \in Roles
    BY <1>1, CallTypes DEF Target, OwnOps, AdminOps
  <1>3. TenantOf(r) \in Tenants
    BY <1>1 DEF TenantOf, Exists, IInv, TypeOK, Users
  <1>4. CASE users[Target(r)] = NoUser
    <2>1. Invited(r) \in Users /\ Invited(r).tenant = TenantOf(r)
      BY <1>2, <1>3 DEF Invited, Users
    <2>2. ~Exists(Target(r))
      BY <1>4 DEF Exists
    <2>3. QED
      BY <1>1, <1>2, <1>4, <2>1, <2>2, WriteStep DEF CreateUser
  <1>5. CASE users[Target(r)] # NoUser
    BY <1>1, <1>5, EndStep DEF CreateUser
  <1>6. QED
    BY <1>4, <1>5

LEMMA AssertAdminRemainsStep ==
  ASSUME IInv, NEW r \in Requests, AssertAdminRemains(r)
  PROVE  IInv'
  <1>1. pc[r] = "assert" /\ Exists(actor[r]) /\ Managing(r)
    BY DEF AssertAdminRemains, IInv, RequestOK
  <1>2. CASE \E e \in Emails : IsAdmin(UsersSeen(r)[e], TenantOf(r))
    <2> USE DEF AssertAdminRemains, Goto, asked
    <2>1. TypeOK'
      BY <1>2 DEF IInv, TypeOK, Steps
    <2>2. \A q \in Requests \ {r} : Same(q)
      BY <1>2 DEF IInv, TypeOK, Same
    <2>3. UsersSeen(r)' = UsersSeen(r) /\ TenantOf(r)' = TenantOf(r) /\ Target(r)' = Target(r)
          /\ pc'[r] = "commit"
      BY <1>2 DEF UsersSeen, TenantOf, Target, IInv, TypeOK
    <2>4. WriteOK(r)'
      BY <1>1, <1>2, <2>3 DEF IInv, RequestOK, WriteOK, Managing, Exists
    <2>5. RequestOK(r)'
      BY <1>1, <1>2, <2>3, <2>4 DEF IInv, RequestOK, InTransaction, Managing, Exists, Known
    <2>6. RowsApart'
      BY <1>2 DEF IInv, RowsApart
    <2>7. QED
      BY <2>1, <2>2, <2>5, <2>6, Quiet
  <1>3. CASE ~ \E e \in Emails : IsAdmin(UsersSeen(r)[e], TenantOf(r))
    BY <1>1, <1>3, EndStep DEF AssertAdminRemains
  <1>4. QED
    BY <1>2, <1>3

\* What a commit makes of the users: one of them changes, nobody else has written that one,
\* and every tenant keeps its administrator.
LEMMA CommitUsers ==
  ASSUME IInv, NEW r \in Requests, pc[r] = "commit", users' = UsersSeen(r), tenants' = tenants
  PROVE  /\ wrote[r].email = Target(r) /\ Target(r) \in Emails /\ wrote[r].row \in Users
         /\ wrote[r].row.tenant = TenantOf(r) /\ Exists(actor[r]) /\ TenantOf(r) \in tenants
         /\ users' = [users EXCEPT ![Target(r)] = wrote[r].row]
         /\ users'[Target(r)] # NoUser
         /\ Grown
         /\ AdminRemains'
  <1>1. wrote[r] # NoWrite /\ wrote[r] \in [email : Emails, row : Users]
    BY DEF IInv, TypeOK, RequestOK, WriteOK
  <1>2. wrote[r].email = Target(r) /\ Target(r) \in Emails /\ wrote[r].row \in Users
    BY <1>1 DEF IInv, RequestOK, WriteOK
  <1>3. wrote[r].row.tenant = TenantOf(r) /\ Exists(actor[r]) /\ TenantOf(r) \in tenants
    BY <1>1 DEF IInv, RequestOK, WriteOK, Exists, TenantOf
  <1>4. users' = [users EXCEPT ![Target(r)] = wrote[r].row] /\ users'[Target(r)] = wrote[r].row
    BY <1>1, <1>2 DEF UsersSeen, IInv, TypeOK
  <1>5. users'[Target(r)] # NoUser
    BY <1>2, <1>4, Distinct
  <1>6. Exists(Target(r)) => /\ users'[Target(r)].tenant = users[Target(r)].tenant
                             /\ users'[Target(r)].tv > users[Target(r)].tv
                             /\ users[Target(r)].tenant = TenantOf(r)
    BY <1>1, <1>3, <1>4 DEF IInv, RequestOK, WriteOK
  <1>7. Grown
    <2>1. ASSUME NEW e \in Emails, users[e] # NoUser
          PROVE  users'[e] # NoUser /\ users'[e].tenant = users[e].tenant /\ users'[e].tv >= users[e].tv
      <3>1. users[e] \in Users /\ users[e].tv \in Nat
        BY <2>1 DEF IInv, TypeOK, Users
      <3>2. CASE e = Target(r)
        BY <1>2, <1>4, <1>5, <1>6, <2>1, <3>1, <3>2 DEF Exists, Users
      <3>3. CASE e # Target(r)
        BY <1>4, <2>1, <3>1, <3>3 DEF IInv, TypeOK
      <3>4. QED
        BY <3>2, <3>3
    <2>2. QED
      BY <2>1 DEF Grown
  <1>8. ASSUME NEW t \in tenants
        PROVE  \E e \in Emails : IsAdmin(users'[e], t)
    <2>1. PICK e \in Emails : IsAdmin(users[e], t)
      BY <1>8 DEF IInv, AdminRemains
    <2>2. CASE Managing(r) /\ t = TenantOf(r)
      BY <2>2 DEF IInv, RequestOK, WriteOK
    <2>3. CASE t # TenantOf(r)
      <3>1. e # Target(r)
        BY <1>6, <2>1, <2>3 DEF IsAdmin, Exists
      <3>2. QED
        BY <1>4, <2>1, <3>1 DEF IInv, TypeOK
    <2>4. CASE ~Managing(r)
      <3>1. Target(r) = actor[r]
        BY <2>4 DEF Target, IInv, RequestOK, InTransaction, Managing
      <3>2. wrote[r].row.role = users[Target(r)].role /\ wrote[r].row.active = users[Target(r)].active
        BY <1>1, <2>4, <3>1 DEF IInv, RequestOK, WriteOK
      <3>3. CASE e = Target(r)
        BY <1>4, <1>5, <1>6, <2>1, <3>2, <3>3 DEF IsAdmin, Exists
      <3>4. CASE e # Target(r)
        BY <1>4, <2>1, <3>4 DEF IInv, TypeOK
      <3>5. QED
        BY <3>3, <3>4
    <2>5. QED
      BY <2>2, <2>3, <2>4
  <1>9. AdminRemains'
    BY <1>8 DEF AdminRemains
  <1>10. QED
    BY <1>2, <1>3, <1>4, <1>5, <1>7, <1>9

LEMMA CommitStep ==
  ASSUME IInv, NEW r \in Requests, Commit(r)
  PROVE  IInv'
  <1> USE DEF Commit, End, Goto, asked, Unlocked
  <1>1. /\ pc[r] = "commit" /\ users' = UsersSeen(r) /\ tenants' = tenants /\ cookie' = cookie
        /\ wrote' = [wrote EXCEPT ![r] = NoWrite]
    OBVIOUS
  <1>2. /\ wrote[r].email = Target(r) /\ Target(r) \in Emails /\ wrote[r].row \in Users
        /\ wrote[r].row.tenant = TenantOf(r) /\ Exists(actor[r]) /\ TenantOf(r) \in tenants
        /\ users' = [users EXCEPT ![Target(r)] = wrote[r].row]
        /\ users'[Target(r)] # NoUser
        /\ Grown
        /\ AdminRemains'
    BY <1>1, CommitUsers
  <1>3. Afterwards(r) \in {"respond", "readVersion"}
    BY DEF Afterwards
  <1>4. TypeOK'
    BY <1>2, <1>3 DEF IInv, TypeOK, Steps
  <1>5. ASSUME NEW q \in Requests, q # r
        PROVE  RequestOK(q)'
    <2>1. RequestOK(q) /\ Same(q)
      BY <1>5, <1>3 DEF IInv, TypeOK, Same
    <2>2. wrote[q] # NoWrite => users'[wrote[q].email] = users[wrote[q].email]
      <3>1. wrote[r] # NoWrite
        BY <1>1 DEF IInv, RequestOK, WriteOK
      <3>2. wrote[q] # NoWrite => wrote[q].email # Target(r) /\ wrote[q].email \in Emails
        BY <1>2, <1>5, <3>1 DEF IInv, TypeOK, RowsApart
      <3>3. QED
        BY <1>2, <3>2 DEF IInv, TypeOK
    <2>3. ASSUME pc[q] = "commit", Managing(q)
          PROVE  \E e \in Emails : IsAdmin(UsersSeen(q)'[e], TenantOf(q))
      <3>1. PICK e \in Emails : IsAdmin(UsersSeen(q)[e], TenantOf(q))
        BY <2>1, <2>3 DEF RequestOK, WriteOK
      <3>2. /\ wrote[q] # NoWrite /\ wrote[q].email \in Emails
            /\ UsersSeen(q) = [users EXCEPT ![wrote[q].email] = wrote[q].row]
            /\ UsersSeen(q)' = [users' EXCEPT ![wrote[q].email] = wrote[q].row]
        <4>1. wrote[q] # NoWrite /\ wrote'[q] = wrote[q]
          BY <2>1, <2>3 DEF RequestOK, WriteOK, Same
        <4>2. wrote[q].email \in Emails
          BY <4>1 DEF IInv, TypeOK
        <4>3. QED
          BY <4>1, <4>2 DEF UsersSeen
      <3>3. CASE e = wrote[q].email
        BY <1>4, <3>1, <3>2, <3>3 DEF IInv, TypeOK
      <3>4. CASE e # wrote[q].email /\ e # Target(r)
        BY <1>2, <1>4, <3>1, <3>2, <3>4 DEF IInv, TypeOK
      <3>5. CASE e # wrote[q].email /\ e = Target(r)
        <4>1. IsAdmin(users[e], TenantOf(q))
          BY <3>1, <3>2, <3>5 DEF IInv, TypeOK
        <4>2. users[e].tenant = TenantOf(r) /\ Exists(e)
          BY <1>1, <3>5, <4>1 DEF IInv, RequestOK, WriteOK, IsAdmin, Exists
        <4>3. ~Managing(r)
          <5>1. TenantOf(q) = TenantOf(r)
            BY <4>1, <4>2 DEF IsAdmin
          <5>2. tenantLock[TenantOf(q)] = q
            BY <2>1, <2>3 DEF RequestOK, WriteOK
          <5>3. Managing(r) => tenantLock[TenantOf(r)] = r
            BY <1>1 DEF IInv, RequestOK, WriteOK
          <5>4. QED
            BY <1>5, <5>1, <5>2, <5>3
        <4>4. e = actor[r]
          BY <1>1, <3>5, <4>3 DEF Target, IInv, RequestOK, InTransaction, Managing
        <4>5. wrote[r].row.role = users[e].role /\ wrote[r].row.active = users[e].active
          BY <1>1, <4>3, <4>4 DEF IInv, RequestOK, WriteOK
        <4>6. users'[e] = wrote[r].row
          BY <1>2, <3>5 DEF IInv, TypeOK
        <4>7. IsAdmin(users'[e], TenantOf(q))
          BY <1>2, <3>5, <4>1, <4>2, <4>5, <4>6 DEF IsAdmin
        <4>8. QED
          BY <1>4, <3>2, <3>5, <4>7 DEF TypeOK
      <3>6. QED
        BY <3>3, <3>4, <3>5
    <2>4. QED
      BY <1>2, <1>4, <2>1, <2>2, <2>3, OthersKept DEF IInv
  <1>6. RequestOK(r)'
    <2>1. Exists(actor[r])' /\ actor'[r] = actor[r]
      BY <1>2 DEF Grown, Exists
    <2>2. pc'[r] \in {"respond", "readVersion"} /\ wrote'[r] = NoWrite /\ answer' = answer
      BY <1>3 DEF IInv, TypeOK
    <2>3. answer'[r] \in Cookies => Known(answer[r])'
      BY <1>2, <1>4, <2>2, KnownGrown DEF IInv, RequestOK
    <2>4. QED
      BY <2>1, <2>2, <2>3 DEF RequestOK, WriteOK, InTransaction
  <1>7. \A q \in Requests : RequestOK(q)'
    BY <1>5, <1>6
  <1>8. \A e \in Emails : users'[e] # NoUser => users'[e].tenant \in tenants'
    BY <1>1, <1>2 DEF IInv, TypeOK
  <1>9. ASSUME NEW d \in Devices, cookie'[d] \in Cookies
        PROVE  Known(cookie[d])'
    BY <1>1, <1>2, <1>4, <1>9, KnownGrown DEF IInv
  <1>10. RowsApart'
    BY DEF IInv, TypeOK, RowsApart
  <1>11. QED
    BY <1>2, <1>4, <1>7, <1>8, <1>9, <1>10 DEF IInv

-----------------------------------------------------------------------------
(***************************************************************************)
(* Cookies and signups.                                                    *)
(***************************************************************************)
LEMMA CurrentTokenVersionStep ==
  ASSUME IInv, NEW r \in Requests, CurrentTokenVersion(r)
  PROVE  IInv'
  <1> USE DEF CurrentTokenVersion, Goto, asked, rows
  <1>1. Exists(actor[r]) /\ users[actor[r]] \in Users /\ users[actor[r]].tv \in Nat
    BY DEF IInv, TypeOK, RequestOK, Exists, Users
  <1>2. TypeOK'
    BY <1>1 DEF IInv, TypeOK, Steps
  <1>3. \A q \in Requests \ {r} : Same(q)
    BY DEF IInv, TypeOK, Same
  <1>4. pc'[r] = "reissue" /\ seen'[r] = users[actor[r]].tv
    BY DEF IInv, TypeOK
  <1>5. RequestOK(r)'
    BY <1>1, <1>4 DEF IInv, RequestOK, WriteOK, InTransaction, Exists, Known
  <1>6. RowsApart'
    BY DEF IInv, RowsApart
  <1>7. QED
    BY <1>2, <1>3, <1>5, <1>6, Quiet

LEMMA CreateSessionStep ==
  ASSUME IInv, NEW r \in Requests, CreateSession(r)
  PROVE  IInv'
  <1> USE DEF CreateSession, Goto, asked, rows
  <1>1. Exists(actor[r]) /\ seen[r] <= users[actor[r]].tv /\ seen[r] \in Nat
    BY DEF IInv, TypeOK, RequestOK
  <1>2. [user |-> actor[r], tv |-> seen[r]] \in Cookies
    BY <1>1 DEF Cookies, Exists
  <1>3. TypeOK'
    BY <1>2 DEF IInv, TypeOK, Steps
  <1>4. \A q \in Requests \ {r} : Same(q)
    BY DEF IInv, TypeOK, Same
  <1>5. pc'[r] = "respond" /\ answer'[r] = [user |-> actor[r], tv |-> seen[r]]
    BY DEF IInv, TypeOK
  <1>6. RequestOK(r)'
    <2>1. Known(answer[r])'
      BY <1>1, <1>5 DEF Known, Exists
    <2>2. QED
      BY <1>5, <2>1 DEF IInv, RequestOK, WriteOK, InTransaction
  <1>7. RowsApart'
    BY DEF IInv, RowsApart
  <1>8. QED
    BY <1>3, <1>4, <1>6, <1>7, Quiet

LEMMA StampLoginStep ==
  ASSUME IInv, NEW r \in Requests, StampLogin(r)
  PROVE  IInv'
  <1> USE DEF StampLogin, Goto, asked, rows
  <1>1. TypeOK'
    BY DEF IInv, TypeOK, Steps
  <1>2. \A q \in Requests \ {r} : Same(q)
    BY DEF IInv, TypeOK, Same
  <1>3. pc'[r] = "reissue"
    BY DEF IInv, TypeOK
  <1>4. RequestOK(r)'
    BY <1>3 DEF IInv, RequestOK, WriteOK, InTransaction, Exists, Known
  <1>5. RowsApart'
    BY DEF IInv, RowsApart
  <1>6. QED
    BY <1>1, <1>2, <1>4, <1>5, Quiet

\* A request that is over.
LEMMA FinishedStep ==
  ASSUME IInv, NEW r \in Requests, Finished(r), cookie' \in [Devices -> Cookies \cup {NoCookie}],
         \A d \in Devices : cookie'[d] \in Cookies => cookie'[d] = cookie[d] \/ cookie'[d] = answer[r]
  PROVE  IInv'
  <1> USE DEF Finished, Goto, Unlocked
  <1>1. TypeOK'
    BY DEF IInv, TypeOK, Steps
  <1>2. \A q \in Requests \ {r} : Same(q)
    BY DEF IInv, TypeOK, Same
  <1>3. pc'[r] = "idle" /\ wrote'[r] = NoWrite /\ answer'[r] = Keep
    BY DEF IInv, TypeOK
  <1>4. RequestOK(r)'
    BY <1>3, Distinct DEF RequestOK, WriteOK, InTransaction
  <1>5. RowsApart'
    BY DEF IInv, TypeOK, RowsApart
  <1>6. QED
    BY <1>1, <1>2, <1>4, <1>5, Quiet

LEMMA RespondStep ==
  ASSUME IInv, NEW r \in Requests, Respond(r)
  PROVE  IInv'
  <1>1. DeviceOf[r] \in Devices
    BY AccountsAssumption
  <1>2. /\ cookie' \in [Devices -> Cookies \cup {NoCookie}]
        /\ \A d \in Devices : cookie'[d] \in Cookies => cookie'[d] = cookie[d] \/ cookie'[d] = answer[r]
    BY <1>1 DEF Respond, IInv, TypeOK
  <1>3. QED
    BY <1>2, FinishedStep DEF Respond

LEMMA AbortStep ==
  ASSUME IInv, NEW r \in Requests, Abort(r)
  PROVE  IInv'
  BY FinishedStep DEF Abort, IInv, TypeOK

\* Steps that change nothing but tokens on devices.
LEMMA ExpireStep ==
  ASSUME IInv, NEW d \in Devices, Expire(d)
  PROVE  IInv'
  <1> USE DEF Expire, asked, rows
  <1>1. TypeOK'
    BY DEF IInv, TypeOK
  <1>2. \A q \in Requests : Same(q)
    BY DEF Same
  <1>3. \A q \in Requests : RequestOK(q)'
    BY <1>1, <1>2, QuietOthers
  <1>4. \A e \in Devices : cookie'[e] \in Cookies => cookie'[e] = cookie[e]
    BY Distinct DEF IInv, TypeOK
  <1>5. AdminRemains' /\ RowsApart'
    BY DEF IInv, AdminRemains, RowsApart
  <1>6. QED
    BY <1>1, <1>3, <1>4, <1>5 DEF IInv, Known, Exists

LEMMA CreateTenantStep ==
  ASSUME IInv, NEW r \in Requests, CreateTenant(r)
  PROVE  IInv'
  <1> USE DEF CreateTenant, Goto
  <1> DEFINE slug == Head(call[r].slugs)
             admin == [tenant |-> slug, role |-> "ADMIN", active |-> TRUE, tv |-> 0, must |-> FALSE]
  <1>1. /\ pc[r] = "create" /\ call[r] \in Calls /\ call[r].op = "signup" /\ Len(call[r].slugs) > 0
        /\ actor[r] \in Emails /\ wrote[r] = NoWrite
    <2>1. pc[r] = "create" /\ RequestOK(r)
      BY DEF IInv
    <2>2. call[r].op = "signup" /\ Len(call[r].slugs) > 0 /\ actor[r] \in Emails /\ wrote[r] = NoWrite
      BY <2>1 DEF RequestOK, WriteOK
    <2>3. call[r] \in Calls
      <3>1. call[r] \in Calls \cup {Idle}
        BY DEF IInv, TypeOK
      <3>2. Idle.op = "none"
        BY DEF Idle
      <3>3. call[r] # Idle
        BY <2>2, <3>2
      <3>4. QED
        BY <3>1, <3>3
    <2>4. QED
      BY <2>1, <2>2, <2>3
  <1>2. /\ slug \in Tenants /\ [op |-> "signup", slugs |-> Tail(call[r].slugs)] \in Calls
        /\ Len(call[r].slugs) > 1 => Len(Tail(call[r].slugs)) > 0
    BY <1>1, Tails
  <1>3. CASE users' = users /\ tenants' = tenants
    <2>1. TypeOK'
      BY <1>2, <1>3 DEF IInv, TypeOK, Steps
    <2>2. \A q \in Requests \ {r} : Same(q)
      BY <1>3 DEF IInv, TypeOK, Same
    <2>3. /\ pc'[r] \in {"create", "respond"} /\ wrote' = wrote /\ answer' = answer /\ actor' = actor
          /\ pc'[r] = "create" => call'[r].op = "signup" /\ Len(call'[r].slugs) > 0
      <3>1. slug \in tenants \/ users[actor[r]] # NoUser
        BY <1>1, <1>2, <1>3, Distinct DEF IInv, TypeOK
      <3>2. QED
        BY <1>1, <1>2, <3>1 DEF IInv, TypeOK
    <2>4. RequestOK(r)'
      BY <1>1, <1>3, <2>3 DEF IInv, RequestOK, WriteOK, InTransaction, Exists, Known
    <2>5. RowsApart'
      BY DEF IInv, RowsApart
    <2>6. QED
      BY <1>3, <2>1, <2>2, <2>4, <2>5, Quiet
  <1>4. CASE /\ slug \notin tenants /\ users[actor[r]] = NoUser
             /\ tenants' = tenants \cup {slug}
             /\ users' = [users EXCEPT ![actor[r]] = admin]
             /\ seen' = [seen EXCEPT ![r] = 0] /\ pc' = [pc EXCEPT ![r] = "reissue"]
             /\ call' = call
    <2>1. admin \in Users /\ admin # NoUser /\ users'[actor[r]] = admin /\ IsAdmin(admin, slug)
      <3>1. admin \in Users
        BY <1>2, AccountsAssumption DEF Users
      <3>2. QED
        BY <1>1, <1>4, <3>1, Distinct DEF IInv, TypeOK, IsAdmin
    <2>2. TypeOK'
      BY <1>2, <1>4, <2>1 DEF IInv, TypeOK, Steps
    <2>3. \A e \in Emails : users[e] # NoUser => users'[e] = users[e]
      BY <1>4 DEF IInv, TypeOK
    <2>4. Grown
      BY <2>3 DEF Grown, IInv, TypeOK, Users
    <2>5. ASSUME NEW q \in Requests, q # r
          PROVE  RequestOK(q)'
      <3>1. RequestOK(q) /\ Same(q)
        BY <1>4, <2>5 DEF IInv, TypeOK, Same
      <3>2. wrote[q] # NoWrite => wrote[q].email # actor[r] /\ wrote[q].email \in Emails
        BY <2>5 DEF RowHeld, IInv, TypeOK
      <3>3. wrote[q] # NoWrite => users'[wrote[q].email] = users[wrote[q].email]
        BY <1>4, <3>2 DEF IInv, TypeOK
      <3>4. ASSUME pc[q] = "commit", Managing(q)
            PROVE  \E e \in Emails : IsAdmin(UsersSeen(q)'[e], TenantOf(q))
        <4>1. PICK e \in Emails : IsAdmin(UsersSeen(q)[e], TenantOf(q))
          BY <3>1, <3>4 DEF RequestOK, WriteOK
        <4>2. wrote[q] # NoWrite /\ wrote'[q] = wrote[q]
          BY <3>1, <3>4 DEF RequestOK, WriteOK, Same
        <4>3. /\ UsersSeen(q) = [users EXCEPT ![wrote[q].email] = wrote[q].row]
              /\ UsersSeen(q)' = [users' EXCEPT ![wrote[q].email] = wrote[q].row]
          BY <4>2 DEF UsersSeen
        <4>4. CASE e = wrote[q].email
          BY <2>2, <4>1, <4>3, <4>4 DEF IInv, TypeOK
        <4>5. CASE e # wrote[q].email
          <5>1. IsAdmin(users[e], TenantOf(q))
            BY <4>1, <4>3, <4>5 DEF IInv, TypeOK
          <5>2. users'[e] = users[e]
            BY <2>3, <5>1 DEF IsAdmin
          <5>3. QED
            BY <2>2, <4>3, <4>5, <5>1, <5>2 DEF TypeOK
        <4>6. QED
          BY <4>4, <4>5
      <3>5. QED
        BY <2>2, <2>4, <3>1, <3>3, <3>4, OthersKept DEF IInv
    <2>6. RequestOK(r)'
      <3>1. /\ pc'[r] = "reissue" /\ seen'[r] = 0 /\ wrote'[r] = NoWrite /\ answer'[r] = answer[r]
            /\ actor'[r] = actor[r]
        BY <1>1, <1>4 DEF IInv, TypeOK
      <3>2. answer'[r] \in Cookies => Known(answer[r])'
        BY <2>2, <2>4, <3>1, KnownGrown DEF IInv, RequestOK
      <3>3. QED
        BY <1>1, <2>1, <3>1, <3>2 DEF RequestOK, WriteOK, InTransaction, Exists
    <2>7. AdminRemains'
      <3>1. ASSUME NEW t \in tenants
            PROVE  \E e \in Emails : IsAdmin(users'[e], t)
        BY <2>3 DEF IInv, AdminRemains, IsAdmin
      <3>2. QED
        BY <1>1, <1>4, <2>1, <3>1 DEF AdminRemains
    <2>8. \A e \in Emails : users'[e] # NoUser => users'[e].tenant \in tenants'
      BY <1>4, <2>1, <2>3 DEF IInv, TypeOK
    <2>9. ASSUME NEW d \in Devices, cookie'[d] \in Cookies
          PROVE  Known(cookie[d])'
      BY <2>2, <2>4, <2>9, KnownGrown DEF IInv
    <2>10. RowsApart'
      BY DEF IInv, RowsApart
    <2>11. QED
      BY <2>2, <2>5, <2>6, <2>7, <2>8, <2>9, <2>10 DEF IInv
  <1>5. QED
    BY <1>3, <1>4

-----------------------------------------------------------------------------
(***************************************************************************)
(* Theorems.                                                               *)
(***************************************************************************)
LEMMA Start == Init => IInv
  <1> SUFFICES ASSUME Init PROVE IInv
    OBVIOUS
  <1>1. \A e \in Emails : users[e] # NoUser => users[e] \in Users
    BY AccountsAssumption DEF Init
  <1>2. TypeOK
    <2>1. tenants \subseteq Tenants
      BY <1>1 DEF Init, Users
    <2>2. users \in [Emails -> Users \cup {NoUser}]
      BY AccountsAssumption DEF Init
    <2>3. cookie \in [Devices -> Cookies \cup {NoCookie}]
      BY AccountsAssumption DEF Init
    <2>4. QED
      BY <2>1, <2>2, <2>3 DEF Init, TypeOK, Steps
  <1>3. AdminRemains
    <2>1. ASSUME NEW t \in tenants
          PROVE  \E a \in Emails : IsAdmin(users[a], t)
      <3>1. PICK e \in Emails : users[e] # NoUser /\ users[e].tenant = t
        BY DEF Init
      <3>2. QED
        BY <3>1, AccountsAssumption DEF Init
    <2>2. QED
      BY <2>1 DEF AdminRemains
  <1>4. \A e \in Emails : users[e] # NoUser => users[e].tenant \in tenants
    BY DEF Init
  <1>5. \A d \in Devices : cookie[d] \in Cookies => Known(cookie[d])
    BY AccountsAssumption DEF Init, Known, Exists, Cookies
  <1>6. \A r \in Requests : RequestOK(r)
    BY Distinct DEF Init, RequestOK, WriteOK, InTransaction
  <1>7. RowsApart
    BY DEF Init, RowsApart
  <1>8. QED
    BY <1>2, <1>3, <1>4, <1>5, <1>6, <1>7 DEF IInv

LEMMA Stutter ==
  ASSUME IInv, UNCHANGED vars
  PROVE  IInv'
  <1> USE DEF vars, rows, asked
  <1>1. TypeOK'
    BY DEF IInv, TypeOK
  <1>2. \A q \in Requests : RequestOK(q)'
    BY <1>1, QuietOthers DEF Same
  <1>3. AdminRemains' /\ RowsApart'
    BY DEF IInv, AdminRemains, RowsApart
  <1>4. QED
    BY <1>1, <1>2, <1>3 DEF IInv, Known, Exists

LEMMA Inductive == IInv /\ [Next]_vars => IInv'
  <1> SUFFICES ASSUME IInv, [Next]_vars PROVE IInv'
    OBVIOUS
  <1>1. CASE UNCHANGED vars
    BY <1>1, Stutter
  <1>2. ASSUME NEW r \in Requests,
               \/ OpenPage(r) \/ ManageUsers(r) \/ ChangeOwn(r) \/ Login(r) \/ Logout(r) \/ SignUp(r)
        PROVE  IInv'
    BY <1>2, OpenPageStep, ManageUsersStep, ChangeOwnStep, LoginStep, LogoutStep, SignUpStep
  <1>3. ASSUME NEW r \in Requests, Serve(r)
        PROVE  IInv'
    BY <1>3, LockTenantRowStep, ChangeUserStep, CreateUserStep, AssertAdminRemainsStep, CommitStep,
       CurrentTokenVersionStep, CreateSessionStep, StampLoginStep, CreateTenantStep, RespondStep DEF Serve
  <1>4. QED
    BY <1>1, <1>2, <1>3, AbortStep, ExpireStep DEF Next

\* The rows, the cookies and the requests' variables are well formed
\* (the modelled columns of User and Tenant).
THEOREM TypeCorrect == Spec => []TypeOK
  <1>1. IInv => TypeOK
    BY DEF IInv
  <1>2. QED
    BY <1>1, Start, Inductive, PTL DEF Spec

\* No interleaving of user management, signups and self-service leaves a
\* tenant without an active administrator (assertAdminRemains() under the
\* tenant row's lock).
THEOREM AdminAlwaysRemains == Spec => []AdminRemains
  <1>1. IInv => AdminRemains
    BY DEF IInv
  <1>2. QED
    BY <1>1, Start, Inductive, PTL DEF Spec

\* Users are never removed, and what changes a user counts its version up.
UserKept(e) == users'[e] = users[e] \/ (users'[e] # NoUser /\ users'[e].tv > users[e].tv)

LEMMA UsersKept ==
  ASSUME IInv, [Next]_vars, NEW e \in Emails, users[e] # NoUser
  PROVE  UserKept(e)
  <1>1. ASSUME NEW r \in Requests, Commit(r)
        PROVE  UserKept(e)
    <2>1. /\ wrote[r] # NoWrite /\ wrote[r].row \in Users /\ wrote[r].email = Target(r)
          /\ Exists(Target(r)) => wrote[r].row.tv > users[Target(r)].tv
      BY <1>1 DEF Commit, IInv, TypeOK, RequestOK, WriteOK
    <2>2. users' = [users EXCEPT ![wrote[r].email] = wrote[r].row]
      BY <1>1, <2>1 DEF Commit, UsersSeen
    <2>3. CASE e = wrote[r].email
      BY <2>1, <2>2, <2>3, Distinct DEF IInv, TypeOK, Exists, UserKept
    <2>4. CASE e # wrote[r].email
      BY <2>2, <2>4 DEF IInv, TypeOK, UserKept
    <2>5. QED
      BY <2>3, <2>4
  <1>2. ASSUME NEW r \in Requests, CreateTenant(r)
        PROVE  UserKept(e)
    BY <1>2 DEF CreateTenant, IInv, TypeOK, UserKept
  <1>3. ASSUME NEW r \in Requests,
               \/ OpenPage(r) \/ ManageUsers(r) \/ ChangeOwn(r) \/ Login(r) \/ Logout(r) \/ SignUp(r)
        PROVE  users' = users
    BY <1>3 DEF OpenPage, ManageUsers, ChangeOwn, Login, Logout, SignUp, LetIn, Ask, rows
  <1>4. ASSUME NEW r \in Requests, Serve(r), ~Commit(r), ~CreateTenant(r)
        PROVE  users' = users
    BY <1>4 DEF Serve, LockTenantRow, ChangeUser, CreateUser, AssertAdminRemains, CurrentTokenVersion,
       CreateSession, StampLogin, Respond, Finished, rows
  <1>5. ASSUME NEW r \in Requests, Abort(r)
        PROVE  users' = users
    BY <1>5 DEF Abort, Finished
  <1>6. ASSUME NEW d \in Devices, Expire(d)
        PROVE  users' = users
    BY <1>6 DEF Expire, rows
  <1>7. CASE UNCHANGED vars
    BY <1>7 DEF vars, rows, UserKept
  <1>8. QED
    BY <1>1, <1>2, <1>3, <1>4, <1>5, <1>6, <1>7 DEF Next, UserKept

\* A cookie that has stopped being good never is again: the user is no older
\* than the cookie, and comes back from a deactivation with a newer version
\* (the tokenVersion bumps of manage.ts and profile.ts).
THEOREM CutOffHolds == Spec => CutOffStaysOut
  <1>1. ASSUME IInv, [Next]_vars, NEW c \in Issued, ~Good(c)
        PROVE  ~Good(c)'
    <2>1. c \in Cookies /\ Known(c)
      BY <1>1 DEF Issued, IInv, TypeOK, RequestOK
    <2>2. c.user \in Emails /\ c.tv \in Nat /\ users[c.user] \in Users
      BY <1>1, <2>1 DEF Known, Exists, Cookies, IInv, TypeOK
    <2>3. UserKept(c.user)
      BY <1>1, <2>1, <2>2, UsersKept DEF Known, Exists
    <2>4. CASE users'[c.user] = users[c.user]
      BY <1>1, <2>4 DEF Good
    <2>5. CASE users'[c.user] # NoUser /\ users'[c.user].tv > users[c.user].tv
      <3>1. users[c.user].tv \in Nat /\ c.tv <= users[c.user].tv
        BY <2>1, <2>2 DEF Known, Users
      <3>2. users'[c.user] \in Users
        BY <1>1, <2>2, <2>5, Inductive DEF IInv, TypeOK
      <3>3. users'[c.user].tv # c.tv
        BY <2>2, <2>5, <3>1, <3>2 DEF Users
      <3>4. QED
        BY <3>3 DEF Good
    <2>6. QED
      BY <2>3, <2>4, <2>5 DEF UserKept
  <1>2. IInv /\ [Next]_vars => [\A c \in Issued : ~Good(c) => ~Good(c)']_vars
    BY <1>1
  <1>3. QED
    BY <1>2, Start, Inductive, PTL DEF Spec, CutOffStaysOut

=============================================================================
