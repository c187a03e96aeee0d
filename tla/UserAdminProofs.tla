--------------------------- MODULE UserAdminProofs ---------------------------
(***************************************************************************)
(* Theorems about UserAdmin for every set of requests, users and e-mails.  *)
(* That the last ADMIN falls only to a race needs to know of a request     *)
(* about to write what its check found and nobody has changed since        *)
(* (CheckStands): there is an ADMIN besides its target.                    *)
(***************************************************************************)
EXTENDS UserAdmin, FiniteSetTheorems, TLAPS

Busy ==
    [pc : {"find", "check", "count", "write", "lookup", "insert"},
     kind : Kind, target : User, email : Email, raced : BOOLEAN]

\* The set assertNotLastAdmin counts is finite, whatever the set of ids.
AdminsCountable == IsFiniteSet(Admins)

\* A request that got past findOneOrThrow is about a row that was stored.
TargetsKnown ==
    \A r \in Request :
      /\ request[r].pc \in {"find", "check", "count", "write"} => request[r].kind # "create"
      /\ request[r].pc \in {"check", "count", "write"} => role[request[r].target] # "unused"

\* The check of a request about to take an ADMIN away still stands if nobody
\* has overtaken it.
CheckStands ==
    \A r \in Request :
      LET t == request[r].target IN
      /\ request[r].pc = "write" /\ request[r].kind \in {"demote", "remove"}
      /\ ~request[r].raced /\ role[t] = "ADMIN"
      => Admins \ {t} # {}

Inv ==
    /\ TypeOK
    /\ AdminsCountable
    /\ TargetsKnown
    /\ CheckStands
    /\ OneAccountPerEmail

----------------------------------------------------------------------------
\* A count of two or more leaves an ADMIN besides any one.
LEMMA AnotherOne ==
    ASSUME NEW S, IsFiniteSet(S), ~(Cardinality(S) <= 1), NEW x
    PROVE  S \ {x} # {}
<1>1. Cardinality({}) = 0 /\ Cardinality({x}) = 1
  BY FS_EmptySet, FS_Singleton
<1> SUFFICES ASSUME S \ {x} = {} PROVE FALSE
  OBVIOUS
<1>2. S = {} \/ S = {x}
  OBVIOUS
<1> QED
  BY <1>1, <1>2

\* A request being served is a record with all its fields.
LEMMA AtWork ==
    ASSUME TypeOK, NEW r \in Request, request[r].pc # "idle"
    PROVE  request[r] \in Busy
BY DEF TypeOK, RequestState, Idle, Busy

\* Request r goes on at pc, or is done; the others stay.
GoesOn(r, pc) ==
    /\ request' \in [Request -> RequestState]
    /\ request'[r].pc = pc
    /\ request'[r].kind = request[r].kind
    /\ request'[r].target = request[r].target
    /\ request'[r].raced = request[r].raced
    /\ \A q \in Request : q # r => request'[q] = request[q]

Ended(r) ==
    /\ request' \in [Request -> RequestState]
    /\ request'[r].pc = "idle"
    /\ \A q \in Request : q # r => request'[q] = request[q]

LEMMA GotoGoesOn ==
    ASSUME TypeOK, NEW r \in Request, request[r] \in Busy,
           NEW pc \in {"find", "check", "count", "write", "lookup", "insert"}, Goto(r, pc)
    PROVE  GoesOn(r, pc)
<1> DEFINE new == [request[r] EXCEPT !.pc = pc]
<1>1. /\ new \in Busy /\ new.pc = pc /\ new.kind = request[r].kind
      /\ new.target = request[r].target /\ new.raced = request[r].raced
  BY DEF Busy
<1>2. Busy \subseteq RequestState /\ request \in [Request -> RequestState]
  BY DEF Busy, RequestState, TypeOK
<1>3. request' = [request EXCEPT ![r] = new]
  BY DEF Goto
<1> HIDE DEF new, Busy, RequestState
<1> QED
  BY <1>1, <1>2, <1>3 DEF GoesOn

LEMMA EndEnds ==
    ASSUME TypeOK, NEW r \in Request, End(r)
    PROVE  Ended(r)
BY DEF TypeOK, End, Ended, RequestState, Idle

----------------------------------------------------------------------------
(* The table stays, or one row of it changes.                              *)

\* A step of one request that changes no row: what it claims of the table at its
\* new place must hold there.
LEMMA ReadKeepsInv ==
    ASSUME Inv, NEW r \in Request, NEW pc, GoesOn(r, pc), UNCHANGED <<role, email>>,
           LET t == request[r].target IN
           /\ pc \in {"find", "check", "count", "write"} => request[r].kind # "create"
           /\ pc \in {"check", "count", "write"} => role[t] # "unused"
           /\ pc = "write" /\ request[r].kind \in {"demote", "remove"} /\ role[t] = "ADMIN" =>
                Admins \ {t} # {}
    PROVE  Inv'
<1>1. TypeOK' /\ AdminsCountable' /\ OneAccountPerEmail'
  BY DEF Inv, TypeOK, AdminsCountable, Admins, OneAccountPerEmail, Stored, GoesOn
<1>2. TargetsKnown'
  BY DEF Inv, TargetsKnown, GoesOn
<1>3. CheckStands'
  <2> SUFFICES ASSUME NEW q \in Request, request'[q].pc = "write",
                      request'[q].kind \in {"demote", "remove"}, ~request'[q].raced,
                      role[request'[q].target] = "ADMIN"
               PROVE  Admins \ {request'[q].target} # {}
    BY DEF CheckStands, Admins
  <2>1. CASE q = r
    BY <2>1 DEF GoesOn
  <2>2. CASE q # r
    BY <2>2 DEF Inv, CheckStands, GoesOn
  <2> QED
    BY <2>1, <2>2
<1> QED
  BY <1>1, <1>2, <1>3 DEF Inv

\* Requests that end, and one that starts, claim nothing.
LEMMA EndKeepsInv ==
    ASSUME Inv, request' \in [Request -> RequestState], UNCHANGED <<role, email>>,
           \A q \in Request : \/ request'[q] = request[q]
                              \/ request'[q].pc = "idle"
                              \/ request'[q].pc = "lookup"
                              \/ request'[q].pc = "find" /\ request'[q].kind # "create"
    PROVE  Inv'
<1>1. TypeOK' /\ AdminsCountable' /\ OneAccountPerEmail'
  BY DEF Inv, TypeOK, AdminsCountable, Admins, OneAccountPerEmail, Stored
<1>2. TargetsKnown'
  BY DEF Inv, TargetsKnown
<1>3. CheckStands'
  BY DEF Inv, CheckStands, Admins
<1> QED
  BY <1>1, <1>2, <1>3 DEF Inv

\* An account is inserted: under an id and an e-mail no row has, so no request
\* is about it and no ADMIN is lost.
LEMMA InsertKeepsInv ==
    ASSUME Inv, NEW e \in Email, NEW newRole \in {"ADMIN", "VIEWER"}, ~EmailTaken(e),
           InsertUser(e, newRole), request' \in [Request -> RequestState],
           \A q \in Request : request'[q] = request[q] \/ request'[q].pc = "idle"
    PROVE  Inv' /\ Admins \subseteq Admins'
<1>1. PICK u \in User : /\ role[u] = "unused"
                        /\ role' = [role EXCEPT ![u] = newRole]
                        /\ email' = [email EXCEPT ![u] = e]
  BY DEF InsertUser
<1>2. /\ role'[u] = newRole /\ email'[u] = e
      /\ \A v \in User : v # u => role'[v] = role[v] /\ email'[v] = email[v]
  BY <1>1 DEF Inv, TypeOK
<1>3. TypeOK'
  BY <1>1 DEF Inv, TypeOK
<1>4. Admins \subseteq Admins' /\ Admins' \subseteq Admins \cup {u}
  BY <1>1, <1>2 DEF Admins
<1>5. AdminsCountable'
  BY <1>4, FS_AddElement, FS_Subset DEF Inv, AdminsCountable
<1>6. OneAccountPerEmail'
  BY <1>1, <1>2 DEF Inv, OneAccountPerEmail, EmailTaken, Stored
<1>7. ASSUME NEW q \in Request, request'[q].pc \in {"check", "count", "write"}
      PROVE  /\ request'[q] = request[q] /\ request[q].target # u
             /\ request[q].target \in User
  <2>1. request'[q] = request[q] /\ request[q].pc # "idle"
    BY <1>7
  <2>2. request[q].target \in User
    BY <2>1, AtWork DEF Inv, Busy
  <2> QED
    BY <1>1, <1>7, <2>1, <2>2 DEF Inv, TargetsKnown
<1>8. TargetsKnown'
  <2>1. \A q \in Request :
          request'[q].pc \in {"find", "check", "count", "write"} => request'[q].kind # "create"
    BY DEF Inv, TargetsKnown
  <2>2. ASSUME NEW q \in Request, request'[q].pc \in {"check", "count", "write"}
        PROVE  role'[request'[q].target] # "unused"
    BY <1>2, <1>7, <2>2 DEF Inv, TargetsKnown
  <2> QED
    BY <2>1, <2>2 DEF TargetsKnown
<1>9. CheckStands'
  <2> SUFFICES ASSUME NEW q \in Request, request'[q].pc = "write",
                      request'[q].kind \in {"demote", "remove"}, ~request'[q].raced,
                      role'[request'[q].target] = "ADMIN"
               PROVE  Admins' \ {request'[q].target} # {}
    BY DEF CheckStands
  <2>1. request'[q] = request[q] /\ role[request[q].target] = "ADMIN"
    BY <1>2, <1>7
  <2> QED
    BY <1>4, <2>1 DEF Inv, CheckStands
<1> QED
  BY <1>3, <1>4, <1>5, <1>6, <1>8, <1>9 DEF Inv

\* The update or the delete of a row, and whom it overtakes.
LEMMA WriteKeepsInv ==
    ASSUME Inv, NEW r \in Request, WriteTarget(r), Stored(request[r].target)
    PROVE  Inv'
<1> DEFINE u == request[r].target
           new == NewRole(request[r].kind)
<1>1. request[r] \in Busy /\ request[r].kind \in {"promote", "demote", "remove"} /\ u \in User
  BY AtWork DEF WriteTarget, At, Inv, TargetsKnown, Busy, Kind
<1>2. new \in {"ADMIN", "VIEWER", "removed"}
  BY <1>1 DEF NewRole
<1> DEFINE overtaken(q) ==
             /\ At(q, "write")
             /\ \/ role[u] = "ADMIN" /\ role'[u] # "ADMIN"
                \/ u = request[q].target /\ role[u] # "ADMIN" /\ role'[u] = "ADMIN"
<1>3. /\ role' = [role EXCEPT ![u] = new] /\ email' = email
      /\ request' = [q \in Request |->
           IF q = r THEN Idle
           ELSE IF overtaken(q) THEN [request[q] EXCEPT !.raced = TRUE] ELSE request[q]]
  BY DEF WriteTarget
<1> HIDE DEF new, u
<1>4. /\ role'[u] = new
      /\ \A v \in User : v # u => role'[v] = role[v]
  BY <1>1, <1>3 DEF Inv, TypeOK
<1>5. ASSUME NEW q \in Request
      PROVE  /\ request'[q] \in RequestState
             /\ request'[q].pc # "idle" =>
                  /\ q # r
                  /\ request'[q].pc = request[q].pc
                  /\ request'[q].kind = request[q].kind
                  /\ request'[q].target = request[q].target
                  /\ request[q] \in Busy
                  /\ ~request'[q].raced => ~request[q].raced /\ ~overtaken(q)
  <2>1. CASE q = r
    BY <1>3, <2>1 DEF Idle, RequestState
  <2>2. CASE q # r /\ overtaken(q)
    <3>1. request[q] \in Busy
      BY <2>2, AtWork DEF Inv, At
    <3> DEFINE t == [request[q] EXCEPT !.raced = TRUE]
    <3>2. /\ t \in RequestState /\ t.pc = request[q].pc /\ t.kind = request[q].kind
          /\ t.target = request[q].target /\ t.raced
      BY <3>1 DEF Busy, RequestState
    <3>3. request'[q] = t
      BY <1>3, <2>2
    <3> HIDE DEF t, overtaken
    <3> QED
      BY <2>2, <3>1, <3>2, <3>3
  <2>3. CASE q # r /\ ~overtaken(q)
    <3>1. request'[q] = request[q]
      BY <1>3, <2>3
    <3>2. request[q] \in RequestState
      BY DEF Inv, TypeOK
    <3> HIDE DEF overtaken
    <3> QED
      BY <2>3, <3>1, <3>2, AtWork DEF Inv
  <2> QED
    BY <2>1, <2>2, <2>3
<1>6. TypeOK'
  <2>1. role' \in [User -> {"unused", "ADMIN", "VIEWER", "removed"}]
    BY <1>2, <1>3 DEF Inv, TypeOK
  <2>2. request' \in [Request -> RequestState]
    BY <1>3, <1>5
  <2> QED
    BY <1>3, <2>1, <2>2 DEF Inv, TypeOK
<1>7. AdminsCountable'
  <2>1. Admins' \subseteq Admins \cup {u}
    BY <1>4 DEF Admins
  <2> QED
    BY <2>1, FS_AddElement, FS_Subset DEF Inv, AdminsCountable
<1>8. TargetsKnown'
  <2> SUFFICES ASSUME NEW q \in Request, request'[q].pc # "idle"
               PROVE  /\ request'[q].pc \in {"find", "check", "count", "write"} =>
                           request'[q].kind # "create"
                      /\ request'[q].pc \in {"check", "count", "write"} =>
                           role'[request'[q].target] # "unused"
    BY DEF TargetsKnown
  <2>1. request[q].target \in User
    BY <1>5 DEF Busy
  <2> HIDE DEF overtaken
  <2> QED
    BY <1>2, <1>4, <1>5, <2>1 DEF Inv, TargetsKnown
<1>9. CheckStands'
  <2> SUFFICES ASSUME NEW q \in Request, request'[q].pc = "write",
                      request'[q].kind \in {"demote", "remove"}, ~request'[q].raced,
                      role'[request'[q].target] = "ADMIN"
               PROVE  Admins' \ {request'[q].target} # {}
    BY DEF CheckStands
  <2>1. /\ request[q].pc = "write" /\ request[q].kind \in {"demote", "remove"}
        /\ ~request[q].raced /\ request'[q].target = request[q].target
        /\ request[q].target \in User /\ ~overtaken(q)
    BY <1>5 DEF Busy
  <2>2. role[request[q].target] = "ADMIN"
    BY <1>4, <2>1 DEF At
  <2>3. Admins \ {request[q].target} # {}
    BY <2>1, <2>2 DEF Inv, CheckStands
  <2>4. Admins \subseteq Admins'
    BY <1>4, <2>1 DEF At, Admins
  <2> QED
    BY <2>1, <2>3, <2>4
<1>10. OneAccountPerEmail'
  <2>1. \A v \in User : Stored(v)' => Stored(v)
    BY <1>4 DEF Stored, u
  <2> QED
    BY <1>3, <2>1 DEF Inv, OneAccountPerEmail
<1> QED
  BY <1>6, <1>7, <1>8, <1>9, <1>10 DEF Inv

----------------------------------------------------------------------------
(* The theorems.                                                           *)

\* The initial states satisfy the inductive invariant.
LEMMA InitInv == Init => Inv
<1> SUFFICES ASSUME Init PROVE Inv
  OBVIOUS
<1>1. PICK u \in User : role = [v \in User |-> IF v = u THEN "ADMIN" ELSE "unused"]
  BY DEF Init
<1>2. Admins = {u}
  BY <1>1 DEF Admins
<1>3. AdminsCountable
  BY <1>2, FS_Singleton DEF AdminsCountable
<1>4. TypeOK
  BY <1>1, SeedEmailAssumption DEF Init, TypeOK, RequestState
<1>5. \A r \in Request : request[r].pc = "idle"
  BY DEF Init, Idle
<1>6. OneAccountPerEmail
  BY <1>1 DEF OneAccountPerEmail, Stored
<1> QED
  BY <1>3, <1>4, <1>5, <1>6 DEF Inv, TargetsKnown, CheckStands

\* A request whose row is gone, refused or failed.
LEMMA EndsAlone ==
    ASSUME Inv, NEW r \in Request, End(r), UNCHANGED <<role, email>> PROVE Inv'
BY EndEnds, EndKeepsInv DEF Inv, Ended

LEMMA InvStep == Inv /\ [Next]_vars => Inv'
<1> SUFFICES ASSUME Inv, [Next]_vars PROVE Inv'
  OBVIOUS
<1> TypeOK
  BY DEF Inv
<1>1. ASSUME NEW r \in Request, NEW by \in User, NEW target \in User, NEW kind \in Kind,
             NEW e \in Email, Authorize(r, by, kind, target, e)
      PROVE  Inv'
  <2> DEFINE new == [pc |-> IF kind = "create" THEN "lookup" ELSE "find",
                     kind |-> kind, target |-> target, email |-> e, raced |-> FALSE]
  <2>1. request' = [request EXCEPT ![r] = new] /\ UNCHANGED <<role, email>>
    BY <1>1 DEF Authorize
  <2>2. /\ new \in RequestState
        /\ \/ new.pc = "lookup"
           \/ new.pc = "find" /\ new.kind # "create"
    BY DEF RequestState
  <2> HIDE DEF new
  <2>3. request' \in [Request -> RequestState]
    BY <2>1, <2>2 DEF TypeOK
  <2>4. \A q \in Request : request'[q] = request[q] \/ request'[q] = new
    BY <2>1 DEF TypeOK
  <2>5. \A q \in Request : \/ request'[q] = request[q]
                           \/ request'[q].pc = "lookup"
                           \/ request'[q].pc = "find" /\ request'[q].kind # "create"
    BY <2>2, <2>4
  <2> QED
    BY <2>1, <2>3, <2>5, EndKeepsInv
<1>2. ASSUME NEW r \in Request, FindOneOrThrow(r) PROVE Inv'
  <2>1. request[r] \in Busy /\ request[r].kind # "create" /\ UNCHANGED <<role, email>>
    BY <1>2, AtWork DEF FindOneOrThrow, At, Inv, TargetsKnown
  <2>2. CASE End(r)
    BY <2>1, <2>2, EndsAlone
  <2>3. CASE /\ Stored(request[r].target)
             /\ Goto(r, IF request[r].kind = "promote" THEN "write" ELSE "check")
    <3>1. CASE request[r].kind = "promote"
      BY <2>1, <2>3, <3>1, GotoGoesOn, ReadKeepsInv DEF Stored
    <3>2. CASE request[r].kind # "promote"
      BY <2>1, <2>3, <3>2, GotoGoesOn, ReadKeepsInv DEF Stored
    <3> QED
      BY <3>1, <3>2
  <2> QED
    BY <1>2, <2>2, <2>3 DEF FindOneOrThrow, After
<1>3. ASSUME NEW r \in Request, CheckTarget(r) PROVE Inv'
  <2>1. /\ request[r] \in Busy /\ request[r].kind # "create"
        /\ role[request[r].target] # "unused" /\ UNCHANGED <<role, email>>
    BY <1>3, AtWork DEF CheckTarget, At, Inv, TargetsKnown
  <2>2. CASE role[request[r].target] = "ADMIN"
    BY <1>3, <2>1, <2>2, GotoGoesOn, ReadKeepsInv DEF CheckTarget
  <2>3. CASE role[request[r].target] # "ADMIN"
    BY <1>3, <2>1, <2>3, GotoGoesOn, ReadKeepsInv DEF CheckTarget
  <2> QED
    BY <2>2, <2>3
<1>4. ASSUME NEW r \in Request, CountAdmins(r) PROVE Inv'
  <2>1. /\ request[r] \in Busy /\ request[r].kind # "create"
        /\ role[request[r].target] # "unused" /\ UNCHANGED <<role, email>>
    BY <1>4, AtWork DEF CountAdmins, At, Inv, TargetsKnown
  <2>2. CASE End(r)
    BY <2>1, <2>2, EndsAlone
  <2>3. CASE ~(Cardinality(Admins) <= 1) /\ Goto(r, "write")
    <3>1. Admins \ {request[r].target} # {}
      BY <2>3, AnotherOne DEF Inv, AdminsCountable
    <3> QED
      BY <2>1, <2>3, <3>1, GotoGoesOn, ReadKeepsInv
  <2> QED
    BY <1>4, <2>2, <2>3 DEF CountAdmins, After
<1>5. ASSUME NEW r \in Request, WriteTarget(r) PROVE Inv'
  BY <1>5, WriteKeepsInv, EndsAlone DEF WriteTarget
<1>6. ASSUME NEW r \in Request, LookUpEmail(r) PROVE Inv'
  <2>1. request[r] \in Busy /\ UNCHANGED <<role, email>>
    BY <1>6, AtWork DEF LookUpEmail, At
  <2>2. CASE End(r)
    BY <2>1, <2>2, EndsAlone
  <2>3. CASE Goto(r, "insert")
    BY <2>1, <2>3, GotoGoesOn, ReadKeepsInv
  <2> QED
    BY <1>6, <2>2, <2>3 DEF LookUpEmail, After
<1>7. ASSUME NEW r \in Request, CreateUser(r) PROVE Inv'
  <2>1. request[r].email \in Email
    BY <1>7, AtWork DEF CreateUser, At, Busy
  <2>2. Ended(r)
    BY <1>7, EndEnds DEF CreateUser
  <2>3. CASE EmailTaken(request[r].email) /\ UNCHANGED <<role, email>>
    BY <1>7, <2>3, EndsAlone DEF CreateUser
  <2>4. CASE ~EmailTaken(request[r].email)
    <3>1. PICK newRole \in {"ADMIN", "VIEWER"} : InsertUser(request[r].email, newRole)
      BY <1>7, <2>4 DEF CreateUser
    <3> QED
      BY <2>1, <2>2, <2>4, <3>1, InsertKeepsInv DEF Ended
  <2> QED
    BY <1>7, <2>3, <2>4 DEF CreateUser
<1>8. ASSUME NEW r \in Request, RequestFails(r) PROVE Inv'
  BY <1>8, EndsAlone DEF RequestFails
<1>9. CASE Restart
  <2>1. request' \in [Request -> RequestState] /\ \A q \in Request : request'[q].pc = "idle"
    BY <1>9 DEF Restart, RequestState, Idle
  <2>2. CASE UNCHANGED <<role, email>>
    BY <2>1, <2>2, EndKeepsInv
  <2>3. CASE ~EmailTaken(SeedEmail) /\ InsertUser(SeedEmail, "ADMIN")
    BY <2>1, <2>3, InsertKeepsInv, SeedEmailAssumption
  <2> QED
    BY <1>9, <2>2, <2>3 DEF Restart
<1>10. CASE UNCHANGED vars
  BY <1>10, EndKeepsInv DEF vars, TypeOK
<1> QED
  BY <1>1, <1>2, <1>3, <1>4, <1>5, <1>6, <1>7, <1>8, <1>9, <1>10 DEF Next

\* The inductive invariant holds in every state.
THEOREM Invariance == Spec => []Inv
BY InitInv, InvStep, PTL DEF Spec

\* Every variable keeps its type.
THEOREM TypeCorrect == Spec => []TypeOK
BY Invariance, PTL DEF Inv

\* The unique index keeps create() and the seed from making a second account of
\* one e-mail, whatever both have looked up.
THEOREM EmailsUnique == Spec => []OneAccountPerEmail
BY Invariance, PTL DEF Inv

\* assertNotLastAdmin is right about every request that no other one overtook:
\* for any number of requests and accounts, only a race removes the last ADMIN.
THEOREM OnlyARaceRemovesTheLast == Spec => LastAdminFallsOnlyToARace
<1>1. Inv /\ [Next]_vars =>
        [Admins # {} /\ Admins' = {} =>
          \E r \in Request : At(r, "write") /\ ~At(r, "write")' /\ request[r].raced]_vars
  <2> SUFFICES ASSUME Inv, [Next]_vars, Admins # {}, Admins' = {}
               PROVE  \E r \in Request : At(r, "write") /\ ~At(r, "write")' /\ request[r].raced
    OBVIOUS
  <2> role' # role
    BY DEF Admins
  <2>1. ASSUME NEW r \in Request, WriteTarget(r)
        PROVE  At(r, "write") /\ ~At(r, "write")' /\ request[r].raced
    <3> DEFINE t == request[r].target
    <3>1. /\ request[r].pc = "write" /\ Stored(t) /\ request'[r].pc = "idle"
          /\ role' = [role EXCEPT ![t] = NewRole(request[r].kind)]
      BY <2>1 DEF WriteTarget, At, Idle
    <3>2. /\ request[r] \in Busy /\ t \in User
          /\ request[r].kind \in {"promote", "demote", "remove"}
      BY <3>1, AtWork DEF Inv, TargetsKnown, Busy, Kind
    <3> HIDE DEF t
    <3>3. \A v \in User : v # t => role'[v] = role[v]
      BY <3>1, <3>2 DEF Inv, TypeOK
    <3>4. role'[t] = NewRole(request[r].kind) /\ role'[t] # "ADMIN"
      BY <3>1, <3>2 DEF Inv, TypeOK, Admins
    <3>5. request[r].kind # "promote"
      BY <3>4 DEF NewRole
    <3>6. Admins \ {t} = {}
      BY <3>3 DEF Admins
    <3>7. role[t] = "ADMIN"
      BY <3>6 DEF Admins
    <3>8. request[r].raced
      BY <3>1, <3>2, <3>5, <3>6, <3>7 DEF Inv, CheckStands, t
    <3> QED
      BY <3>1, <3>8 DEF At
  <2>2. ASSUME NEW e \in Email, NEW newRole \in {"ADMIN", "VIEWER"}, InsertUser(e, newRole)
        PROVE  FALSE
    BY <2>2 DEF InsertUser, Admins, Inv, TypeOK
  <2>3. ASSUME NEW r \in Request, CreateUser(r) PROVE FALSE
    <3>1. request[r].email \in Email
      BY <2>3, AtWork DEF CreateUser, At, Busy, Inv
    <3> QED
      BY <2>2, <2>3, <3>1 DEF CreateUser
  <2>4. CASE Restart
    BY <2>2, <2>4, SeedEmailAssumption DEF Restart
  <2> QED
    BY <2>1, <2>3, <2>4
       DEF Next, vars, Authorize, FindOneOrThrow, CheckTarget, CountAdmins, LookUpEmail,
           RequestFails
<1> QED
  BY Invariance, <1>1, PTL DEF Spec, LastAdminFallsOnlyToARace
=============================================================================
