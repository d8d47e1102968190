----------------------------- MODULE MCAccounts -----------------------------
(***************************************************************************)
(* A plant with two administrators, each signed in on a device, a free     *)
(* email and a free slug.  Two requests are served at a time, one of each  *)
(* device.                                                                 *)
(***************************************************************************)
EXTENDS Accounts

CONSTANTS acme, acme2, demo, ann, bob, cem, d1, d2, r1, r2, nobody

MCTenants == {acme, acme2, demo}
TwoDevices == [r \in Requests |-> IF r = r1 THEN d1 ELSE d2]
User(role, active, must) == [tenant |-> acme, role |-> role, active |-> active, tv |-> 0, must |-> must]
MCInitialUsers ==
    [e \in Emails |-> CASE e = ann -> User("ADMIN", TRUE, FALSE)
                        [] e = bob -> User("ADMIN", TRUE, FALSE)
                        [] e = cem -> nobody]
MCInitialCookies == [d \in Devices |-> [user |-> IF d = d1 THEN ann ELSE bob, tv |-> 0]]
Of(op, e) == [op |-> op, email |-> e, role |-> "VIEWER"]
MCAsked ==
    [op : {"page", "login", "logout", "password", "name", "signOutEverywhere"}]
        \cup {[op |-> "signup", slugs |-> <<acme, acme2>>], Of("invite", cem), Of("reset", bob)}
        \cup {Of(op, e) : op \in {"edit", "deactivate"}, e \in {ann, bob}}
        \cup {Of("reactivate", e) : e \in {ann, bob}}
=============================================================================
