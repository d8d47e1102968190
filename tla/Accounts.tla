------------------------------- MODULE Accounts -------------------------------
(***************************************************************************)
(* Users, their sessions and the last-admin guard: src/lib/users/,         *)
(* src/lib/auth/ and the server actions of the settings and (auth) pages,  *)
(* statement by statement under READ COMMITTED, as in StockLedger.tla.     *)
(*                                                                         *)
(* A session is a cookie [user, tv] on a device; it is good while the user *)
(* is active and has that tokenVersion.  A device may have several         *)
(* requests under way (tabs), each of which may leave a cookie on it when  *)
(* its response arrives, in any order.  A tenant is its slug, a user its   *)
(* email.  Names, hashes, audit rows, the login and signup rate limits and *)
(* the calendar a signup creates are left out.                             *)
(***************************************************************************)
EXTENDS Integers, Sequences

CONSTANTS
    Tenants,       \* slugs
    DemoTenant,    \* DEMO_TENANT_SLUG
    Emails,
    Roles,
    NoUser,        \* of an email nobody has
    Devices,
    NoCookie,
    Keep,          \* of a response that sets no cookie
    Requests,
    NoRequest,     \* nobody
    NoWrite,       \* of a transaction that has changed no user
    DeviceOf,      \* the device a request comes from
    InitialUsers,  \* the users at the beginning
    InitialCookies,
    Asked,         \* what requests may ask for
    MaxRequests    \* bound: the number of requests

OwnOps   == {"password", "name", "signOutEverywhere"}
AdminOps == {"invite", "edit", "reset", "deactivate", "reactivate"}
Calls ==
    [op : OwnOps \cup {"page", "login", "logout"}]
        \cup [op : AdminOps, email : Emails, role : Roles]
        \cup [op : {"signup"}, slugs : Seq(Tenants \ {DemoTenant})]
Idle    == [op |-> "none"]
Cookies == [user : Emails, tv : Nat]
Users   == [tenant : Tenants, role : Roles, active : BOOLEAN, tv : Nat, must : BOOLEAN]

\* An active administrator of tenant t.
IsAdmin(user, t) == user # NoUser /\ user.tenant = t /\ user.role = "ADMIN" /\ user.active

ASSUME AccountsAssumption ==
    /\ "ADMIN" \in Roles
    /\ NoUser \notin Users
    /\ NoRequest \notin Requests
    /\ {NoCookie, Keep} \cap Cookies = {}
    /\ NoWrite \notin [email : Emails, row : Users]
    /\ DeviceOf \in [Requests -> Devices]
    /\ InitialUsers \in [Emails -> Users \cup {NoUser}]
    /\ \A e \in Emails : InitialUsers[e] # NoUser =>
          \E a \in Emails : IsAdmin(InitialUsers[a], InitialUsers[e].tenant)
    /\ InitialCookies \in [Devices -> Cookies \cup {NoCookie}]
    /\ \A d \in Devices : InitialCookies[d] # NoCookie =>
          /\ InitialUsers[InitialCookies[d].user] # NoUser
          /\ InitialCookies[d].tv <= InitialUsers[InitialCookies[d].user].tv
    /\ Asked \subseteq Calls
    /\ \A c \in Asked : c.op = "signup" => Len(c.slugs) > 0

VARIABLES
    tenants,     \* Tenant rows, committed
    users,       \* User rows, committed
    cookie,      \* what the browsers hold
    tenantLock,  \* the request whose transaction has updated the tenant row
    pc,          \* what a request does next
    call,        \* what it is asked for
    actor,       \* session.user, the email of a login or a signup
    wrote,       \* the user row its transaction has written, and locked
    seen,        \* the tokenVersion it has read
    answer,      \* the cookie its response will set
    requests     \* how many there have been

rows  == <<tenants, users, tenantLock>>
asked == <<call, actor, requests>>
vars  == <<rows, cookie, pc, asked, wrote, seen, answer>>

Steps == {"idle", "lock", "change", "assert", "commit", "readVersion", "reissue", "stamp", "create", "respond"}

Good(c) == users[c.user] # NoUser /\ users[c.user].active /\ users[c.user].tv = c.tv
SignedIn(d) == cookie[d] # NoCookie /\ Good(cookie[d])

Init ==
    /\ users = InitialUsers
    /\ tenants = {users[e].tenant : e \in {u \in Emails : users[u] # NoUser}}
    /\ cookie = InitialCookies
    /\ tenantLock = [t \in Tenants |-> NoRequest]
    /\ pc = [r \in Requests |-> "idle"]
    /\ call = [r \in Requests |-> Idle]
    /\ actor = [r \in Requests |-> NoUser]
    /\ wrote = [r \in Requests |-> NoWrite]
    /\ seen = [r \in Requests |-> 0]
    /\ answer = [r \in Requests |-> Keep]
    /\ requests = 0

-----------------------------------------------------------------------------
(***************************************************************************)
(* Requests.  requirePermission() reads the session's user once; whatever  *)
(* happens to that user later, the request goes on as it was let in.  The  *)
(* sliding renewal puts the claims it has read into a fresh cookie.        *)
(***************************************************************************)
Goto(r, step) == pc' = [pc EXCEPT ![r] = step]

Ask(r, c, u, step) ==
    /\ pc[r] = "idle"
    /\ requests < MaxRequests
    /\ c \in Asked
    /\ requests' = requests + 1
    /\ call' = [call EXCEPT ![r] = c]
    /\ actor' = [actor EXCEPT ![r] = u]
    /\ Goto(r, step)
    /\ UNCHANGED <<rows, cookie, wrote>>

\* requireSession()
LetIn(r, c, step) ==
    /\ SignedIn(DeviceOf[r])
    /\ Ask(r, c, cookie[DeviceOf[r]].user, step)
    /\ \E renewed \in {Keep, cookie[DeviceOf[r]]} : answer' = [answer EXCEPT ![r] = renewed]
    /\ UNCHANGED seen

\* Any page or action that writes no user.
OpenPage(r) == LetIn(r, [op |-> "page"], "respond")

\* users:manage.  The page lists the users of the actor's tenant.
ManageUsers(r) ==
    /\ SignedIn(DeviceOf[r])
    /\ LET u == cookie[DeviceOf[r]].user
       IN  /\ users[u].role = "ADMIN"
           /\ users[u].tenant # DemoTenant
           /\ ~users[u].must
           /\ \E c \in Asked :
                 /\ c.op \in AdminOps
                 /\ c.op # "invite" => users[c.email] # NoUser /\ users[c.email].tenant = users[u].tenant
                 /\ c.op \in {"reset", "deactivate"} => c.email # u
                 /\ LetIn(r, c, "lock")

\* profile:self, also while the user must change the password.
ChangeOwn(r) == \E c \in Asked : c.op \in OwnOps /\ LetIn(r, c, "change")

\* authenticate() with the right password.
Login(r) ==
    /\ \E e \in Emails :
          /\ users[e] # NoUser
          /\ users[e].active
          /\ Ask(r, [op |-> "login"], e, "stamp")
          /\ seen' = [seen EXCEPT ![r] = users[e].tv]
    /\ UNCHANGED answer

\* Also where a revoked session is redirected to.
Logout(r) ==
    /\ Ask(r, [op |-> "logout"], NoUser, "respond")
    /\ answer' = [answer EXCEPT ![r] = NoCookie]
    /\ UNCHANGED seen

SignUp(r) ==
    /\ \E c \in Asked : \E e \in Emails :
          /\ c.op = "signup"
          /\ users[e] = NoUser
          /\ Ask(r, c, e, "create")
    /\ UNCHANGED <<seen, answer>>

-----------------------------------------------------------------------------
(***************************************************************************)
(* Transactions.                                                           *)
(***************************************************************************)
TenantOf(r) == users[actor[r]].tenant
Target(r)   == IF call[r].op \in OwnOps THEN actor[r] ELSE call[r].email

\* Somebody else has written the user with this email and not committed.
RowHeld(r, e) == \E s \in Requests \ {r} : wrote[s] # NoWrite /\ wrote[s].email = e

\* The users as request r sees them, its own write included.
UsersSeen(r) == IF wrote[r] = NoWrite THEN users ELSE [users EXCEPT ![wrote[r].email] = wrote[r].row]

\* Locks end with the transaction.
Unlocked(r) == [t \in Tenants |-> IF tenantLock[t] = r THEN NoRequest ELSE tenantLock[t]]

\* Mutant: user management does not wait for the tenant row.
LockIgnored(r) ==
    /\ pc[r] = "lock"
    /\ Goto(r, "change")
    /\ UNCHANGED <<rows, cookie, asked, wrote, seen, answer>>

LockTenantRow(r) ==
    /\ pc[r] = "lock"
    /\ tenantLock[TenantOf(r)] = NoRequest
    /\ tenantLock' = [tenantLock EXCEPT ![TenantOf(r)] = r]
    /\ Goto(r, "change")
    /\ UNCHANGED <<tenants, users, cookie, asked, wrote, seen, answer>>

\* Mutant: activating a user leaves the sessions from before good.
ChangedQuietly(c, user) ==
    CASE c.op = "edit" /\ user.role # c.role    -> [user EXCEPT !.role = c.role, !.tv = @ + 1]
      [] c.op = "reset"                         -> [user EXCEPT !.must = TRUE, !.tv = @ + 1]
      [] c.op = "deactivate" /\ user.active     -> [user EXCEPT !.active = FALSE]
      [] c.op = "reactivate" /\ ~user.active    -> [user EXCEPT !.active = TRUE]
      [] c.op = "password"                      -> [user EXCEPT !.must = FALSE, !.tv = @ + 1]
      [] c.op \in {"name", "signOutEverywhere"} -> [user EXCEPT !.tv = @ + 1]
      [] OTHER                                  -> user

\* The user after an update; the same user where the handler returns before it.
Changed(c, user) ==
    CASE c.op = "edit" /\ user.role # c.role    -> [user EXCEPT !.role = c.role, !.tv = @ + 1]
      [] c.op = "reset"                         -> [user EXCEPT !.must = TRUE, !.tv = @ + 1]
      [] c.op = "deactivate" /\ user.active     -> [user EXCEPT !.active = FALSE, !.tv = @ + 1]
      [] c.op = "reactivate" /\ ~user.active    -> [user EXCEPT !.active = TRUE, !.tv = @ + 1]
      [] c.op = "password"                      -> [user EXCEPT !.must = FALSE, !.tv = @ + 1]
      [] c.op \in {"name", "signOutEverywhere"} -> [user EXCEPT !.tv = @ + 1]
      [] OTHER                                  -> user

Invited(r) == [tenant |-> TenantOf(r), role |-> call[r].role, active |-> TRUE, tv |-> 0, must |-> TRUE]

\* The user is read and updated, or created.  What the update decides on, role and active, is
\* written under the tenant lock alone, so nothing comes between the two statements.
Write(r, row) ==
    /\ wrote' = [wrote EXCEPT ![r] = [email |-> Target(r), row |-> row]]
    /\ Goto(r, IF call[r].op \in AdminOps THEN "assert" ELSE "commit")

\* The actor's own session is issued again after a change of the actor.
Afterwards(r) ==
    IF Target(r) = actor[r] /\ call[r].op # "reactivate" THEN "readVersion" ELSE "respond"

\* The transaction ends.
End(r, step) ==
    /\ Goto(r, step)
    /\ tenantLock' = Unlocked(r)
    /\ wrote' = [wrote EXCEPT ![r] = NoWrite]

ChangeUser(r) ==
    /\ pc[r] = "change"
    /\ call[r].op # "invite"
    /\ ~RowHeld(r, Target(r))
    /\ LET before == users[Target(r)]
           after  == Changed(call[r], before)
       IN  \/ after # before /\ Write(r, after) /\ UNCHANGED tenantLock
           \/ /\ after = before \/ call[r].op = "name"
              /\ End(r, Afterwards(r))
    /\ UNCHANGED <<tenants, users, cookie, asked, seen, answer>>

CreateUser(r) ==
    /\ pc[r] = "change"
    /\ call[r].op = "invite"
    /\ ~RowHeld(r, Target(r))
    /\ IF users[Target(r)] = NoUser
       THEN Write(r, Invited(r)) /\ UNCHANGED tenantLock
       ELSE End(r, "respond")   \* EmailTakenError
    /\ UNCHANGED <<tenants, users, cookie, asked, seen, answer>>

\* LastAdminError rolls back.
AssertAdminRemains(r) ==
    /\ pc[r] = "assert"
    /\ IF \E e \in Emails : IsAdmin(UsersSeen(r)[e], TenantOf(r))
       THEN Goto(r, "commit") /\ UNCHANGED <<tenantLock, wrote>>
       ELSE End(r, "respond")
    /\ UNCHANGED <<tenants, users, cookie, asked, seen, answer>>

Commit(r) ==
    /\ pc[r] = "commit"
    /\ users' = UsersSeen(r)
    /\ End(r, Afterwards(r))
    /\ UNCHANGED <<tenants, cookie, asked, seen, answer>>

-----------------------------------------------------------------------------
(***************************************************************************)
(* Cookies.                                                                *)
(***************************************************************************)
CurrentTokenVersion(r) ==
    /\ pc[r] = "readVersion"
    /\ seen' = [seen EXCEPT ![r] = users[actor[r]].tv]
    /\ Goto(r, "reissue")
    /\ UNCHANGED <<rows, cookie, asked, wrote, answer>>

CreateSession(r) ==
    /\ pc[r] = "reissue"
    /\ answer' = [answer EXCEPT ![r] = [user |-> actor[r], tv |-> seen[r]]]
    /\ Goto(r, "respond")
    /\ UNCHANGED <<rows, cookie, asked, wrote, seen>>

\* The update of lastLoginAt waits for the user's row.
StampLogin(r) ==
    /\ pc[r] = "stamp"
    /\ ~RowHeld(r, actor[r])
    /\ Goto(r, "reissue")
    /\ UNCHANGED <<rows, cookie, asked, wrote, seen, answer>>

\* One attempt of a signup: tenant, then user, in one transaction.  An insert waits for the
\* invitation that has inserted the same email; two signups at once come out as one after the other.
CreateTenant(r) ==
    /\ pc[r] = "create"
    /\ ~RowHeld(r, actor[r])
    /\ LET slug == Head(call[r].slugs)
       IN  \/ /\ slug \in tenants
              /\ call' = [call EXCEPT ![r] = [op |-> "signup", slugs |-> Tail(@.slugs)]]
              /\ Goto(r, IF Len(call[r].slugs) > 1 THEN "create" ELSE "respond")
              /\ UNCHANGED <<tenants, users, seen>>
           \/ /\ slug \notin tenants
              /\ users[actor[r]] # NoUser   \* EmailTakenError
              /\ Goto(r, "respond")
              /\ UNCHANGED <<tenants, users, call, seen>>
           \/ /\ slug \notin tenants
              /\ users[actor[r]] = NoUser
              /\ tenants' = tenants \cup {slug}
              /\ users' = [users EXCEPT ![actor[r]] =
                              [tenant |-> slug, role |-> "ADMIN", active |-> TRUE, tv |-> 0, must |-> FALSE]]
              /\ seen' = [seen EXCEPT ![r] = 0]
              /\ Goto(r, "reissue")
              /\ UNCHANGED call
    /\ UNCHANGED <<tenantLock, cookie, actor, requests, wrote, answer>>

Finished(r) ==
    /\ Goto(r, "idle")
    /\ call' = [call EXCEPT ![r] = Idle]
    /\ actor' = [actor EXCEPT ![r] = NoUser]
    /\ wrote' = [wrote EXCEPT ![r] = NoWrite]
    /\ seen' = [seen EXCEPT ![r] = 0]
    /\ answer' = [answer EXCEPT ![r] = Keep]
    /\ tenantLock' = Unlocked(r)
    /\ UNCHANGED <<tenants, users, requests>>

Respond(r) ==
    /\ pc[r] = "respond"
    /\ IF answer[r] = Keep
       THEN UNCHANGED cookie
       ELSE cookie' = [cookie EXCEPT ![DeviceOf[r]] = answer[r]]
    /\ Finished(r)

\* An error, a crash or a lost connection: rolled back, and no response.
Abort(r) ==
    /\ pc[r] # "idle"
    /\ Finished(r)
    /\ UNCHANGED cookie

\* The cookie's seven days are over.
Expire(d) ==
    /\ cookie[d] # NoCookie
    /\ cookie' = [cookie EXCEPT ![d] = NoCookie]
    /\ UNCHANGED <<rows, pc, asked, wrote, seen, answer>>

Serve(r) ==
    \/ LockTenantRow(r) \/ ChangeUser(r) \/ CreateUser(r) \/ AssertAdminRemains(r) \/ Commit(r)
    \/ CurrentTokenVersion(r) \/ CreateSession(r) \/ StampLogin(r) \/ CreateTenant(r) \/ Respond(r)

Next ==
    \/ \E r \in Requests :
          \/ OpenPage(r) \/ ManageUsers(r) \/ ChangeOwn(r) \/ Login(r) \/ Logout(r) \/ SignUp(r)
          \/ Serve(r) \/ Abort(r)
    \/ \E d \in Devices : Expire(d)

Spec == Init /\ [][Next]_vars

-----------------------------------------------------------------------------
(***************************************************************************)
(* Properties.                                                             *)
(***************************************************************************)
\* Types of the rows, the cookies and the requests' variables.
TypeOK ==
    /\ tenants \subseteq Tenants
    /\ users \in [Emails -> Users \cup {NoUser}]
    /\ cookie \in [Devices -> Cookies \cup {NoCookie}]
    /\ tenantLock \in [Tenants -> Requests \cup {NoRequest}]
    /\ pc \in [Requests -> Steps]
    /\ call \in [Requests -> Calls \cup {Idle}]
    /\ actor \in [Requests -> Emails \cup {NoUser}]
    /\ wrote \in [Requests -> [email : Emails, row : Users] \cup {NoWrite}]
    /\ seen \in [Requests -> Nat]
    /\ answer \in [Requests -> Cookies \cup {NoCookie, Keep}]

\* Whatever demotions, deactivations, invitations and signups are under way
\* at the same time, every tenant has an active administrator
\* (lockTenantRow(), assertAdminRemains() and the transaction around them).
AdminRemains == \A t \in tenants : \E e \in Emails : IsAdmin(users[e], t)

\* A cookie that is on a device or on its way there and has stopped being
\* good (role change, reset, deactivation, sign-out elsewhere) is never good
\* again, not even after a reactivation (the tokenVersion bumps of manage.ts
\* and profile.ts).
Issued == ({cookie[d] : d \in Devices} \cup {answer[r] : r \in Requests}) \ {NoCookie, Keep}
CutOffStaysOut == [][\A c \in Issued : ~Good(c) => ~Good(c)']_vars
=============================================================================
