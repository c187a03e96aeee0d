------------------------------ MODULE UserAdmin ------------------------------
(***************************************************************************)
(* The User table and the requests of UserController, which only an ADMIN  *)
(* may make: JwtStrategy reads the caller's role from the database and     *)
(* RolesGuard looks at it once, when the request starts.  Every awaited    *)
(* statement of UserService is an action of its own.                       *)
(*                                                                         *)
(* Names and password hashes are data left out, and with them the updates  *)
(* that change nothing else.  Ids are never used again: an e-mail that     *)
(* comes back does so under a new id.                                      *)
(***************************************************************************)
EXTENDS Naturals, FiniteSets

CONSTANTS
    Request,     \* slots for requests served at the same time
    User,        \* user ids: bounds how many rows are ever created
    Email,
    SeedEmail    \* ADMIN_EMAIL, the account prisma/seed.js makes sure of

ASSUME SeedEmailAssumption == SeedEmail \in Email

VARIABLES
    role,        \* role[u]: "ADMIN" or "VIEWER"; "unused" before, "removed" after
    email,       \* email[u] of a stored row
    request      \* request[r]: the request in slot r

vars == <<role, email, request>>

----------------------------------------------------------------------------
Kind == {"create", "promote", "demote", "remove"}
Idle == [pc |-> "idle"]
RequestState == {Idle} \cup
    [pc : {"find", "check", "count", "write", "lookup", "insert"},
     kind : Kind, target : User, email : Email,
     raced : BOOLEAN]     \* history: since this one checked, another request took an ADMIN
                          \* away, or made its target one

TypeOK ==
    /\ role \in [User -> {"unused", "ADMIN", "VIEWER", "removed"}]
    /\ email \in [User -> Email]
    /\ request \in [Request -> RequestState]

Stored(u) == role[u] \in {"ADMIN", "VIEWER"}
Admins == {u \in User : role[u] = "ADMIN"}
IdsUsedUp == \A u \in User : role[u] # "unused"      \* the bound of the model
EmailTaken(e) == \E u \in User : Stored(u) /\ email[u] = e

\* The first start: the seed has created its ADMIN.
Init ==
    /\ \E u \in User : role = [v \in User |-> IF v = u THEN "ADMIN" ELSE "unused"]
    /\ email = [u \in User |-> SeedEmail]
    /\ request = [r \in Request |-> Idle]

At(r, pc) == request[r].pc = pc
Goto(r, pc) == request' = [request EXCEPT ![r].pc = pc]
End(r) == request' = [request EXCEPT ![r] = Idle]
After(r, ends, pc) == IF ends THEN End(r) ELSE Goto(r, pc)

InsertUser(e, newRole) ==
    \E u \in User :
      /\ role[u] = "unused"
      /\ role' = [role EXCEPT ![u] = newRole]
      /\ email' = [email EXCEPT ![u] = e]

----------------------------------------------------------------------------
\* JwtStrategy.validate, RolesGuard, and remove()'s refusal of one's own account.
Authorize(r, by, kind, target, e) ==
    /\ At(r, "idle")
    /\ role[by] = "ADMIN"
    /\ kind = "remove" => target # by
    /\ request' = [request EXCEPT ![r] =
                     [pc |-> IF kind = "create" THEN "lookup" ELSE "find",
                      kind |-> kind, target |-> target, email |-> e, raced |-> FALSE]]
    /\ UNCHANGED <<role, email>>

\* findOneOrThrow; only what takes an ADMIN away is checked any further.
FindOneOrThrow(r) ==
    /\ At(r, "find")
    /\ After(r, ~Stored(request[r].target),
                IF request[r].kind = "promote" THEN "write" ELSE "check")
    /\ UNCHANGED <<role, email>>

\* assertNotLastAdmin: the role of the target, read again ...
CheckTarget(r) ==
    /\ At(r, "check")
    /\ Goto(r, IF role[request[r].target] = "ADMIN" THEN "count" ELSE "write")
    /\ UNCHANGED <<role, email>>

\* (mutant: the last administrator counts as enough)
CountAdminsOffByOne(r) ==
    /\ At(r, "count")
    /\ After(r, Cardinality(Admins) < 1, "write")
    /\ UNCHANGED <<role, email>>

\* ... and the count.
CountAdmins(r) ==
    /\ At(r, "count")
    /\ After(r, Cardinality(Admins) <= 1, "write")
    /\ UNCHANGED <<role, email>>

\* (mutant: remove marks the row instead of deleting it)
WriteTargetMarks(r) ==
    /\ At(r, "write")
    /\ role' = [role EXCEPT ![request[r].target] = "DISABLED"]
    /\ End(r)
    /\ UNCHANGED email

NewRole(kind) ==
    CASE kind = "promote" -> "ADMIN"
      [] kind = "demote" -> "VIEWER"
      [] kind = "remove" -> "removed"

\* The update or the delete; it rejects when the row is gone meanwhile.
WriteTarget(r) ==
    /\ At(r, "write")
    /\ LET u == request[r].target IN
       \/ /\ Stored(u)
          /\ role' = [role EXCEPT ![u] = NewRole(request[r].kind)]
          /\ request' = [q \in Request |->
                IF q = r THEN Idle
                ELSE IF At(q, "write")
                        /\ \/ role[u] = "ADMIN" /\ role'[u] # "ADMIN"
                           \/ u = request[q].target /\ role[u] # "ADMIN" /\ role'[u] = "ADMIN"
                       THEN [request[q] EXCEPT !.raced = TRUE] ELSE request[q]]
       \/ /\ ~Stored(u)
          /\ End(r)
          /\ UNCHANGED role
    /\ UNCHANGED email

\* create(): the e-mail is looked up (and the password hashed) ...
LookUpEmail(r) ==
    /\ At(r, "lookup")
    /\ After(r, EmailTaken(request[r].email), "insert")
    /\ UNCHANGED <<role, email>>

\* (mutant: no unique index on email)
CreateUserNoIndex(r) ==
    /\ At(r, "insert")
    /\ \E newRole \in {"ADMIN", "VIEWER"} : InsertUser(request[r].email, newRole)
    /\ End(r)

\* ... and inserted, which the unique index may still refuse.
CreateUser(r) ==
    /\ At(r, "insert")
    /\ \/ /\ ~EmailTaken(request[r].email)
          /\ \E newRole \in {"ADMIN", "VIEWER"} : InsertUser(request[r].email, newRole)
       \/ /\ EmailTaken(request[r].email)
          /\ UNCHANGED <<role, email>>
    /\ End(r)

\* A statement of the request rejects.
RequestFails(r) ==
    /\ ~At(r, "idle")
    /\ End(r)
    /\ UNCHANGED <<role, email>>

\* The container starts again: the seed's upsert by e-mail creates the account
\* or, its update being empty, leaves the one that is there as it is.
Restart ==
    /\ IF EmailTaken(SeedEmail) \/ IdsUsedUp
         THEN UNCHANGED <<role, email>> ELSE InsertUser(SeedEmail, "ADMIN")
    /\ request' = [r \in Request |-> Idle]

Next ==
    \/ \E r \in Request :
         \/ \E by, target \in User, kind \in Kind, e \in Email : Authorize(r, by, kind, target, e)
         \/ FindOneOrThrow(r)
         \/ CheckTarget(r)
         \/ CountAdmins(r)
         \/ WriteTarget(r)
         \/ LookUpEmail(r)
         \/ CreateUser(r)
         \/ RequestFails(r)
    \/ Restart

Spec == Init /\ [][Next]_vars

----------------------------------------------------------------------------
(* Properties                                                              *)

\* Two creations that both looked the e-mail up before either inserted it,
\* and a seed between them, still leave one account per e-mail.
OneAccountPerEmail ==
    \A u, v \in User : Stored(u) /\ Stored(v) /\ email[u] = email[v] => u = v

\* The check of assertNotLastAdmin fails only to a race: the request that takes
\* the last ADMIN away is one whose check another request has overtaken, by
\* taking an ADMIN away or by making its target one.  A request alone, and one
\* request after another, always leave an ADMIN.
LastAdminFallsOnlyToARace ==
    [][Admins # {} /\ Admins' = {} =>
          \E r \in Request : At(r, "write") /\ ~At(r, "write")' /\ request[r].raced]_vars

\* user.service.ts:77: the check keeps the last ADMIN from being demoted or
\* removed, so that somebody can manage the OLTs.
LastAdminKept == Admins # {}
=============================================================================
