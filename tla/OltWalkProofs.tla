---------------------------- MODULE OltWalkProofs ----------------------------
(***************************************************************************)
(* Theorems about OltWalk for every set of walks and of interfaces.  The   *)
(* safety properties need two facts more.  NewIsPending: nothing writes    *)
(* bootstrapStatus before the OLT is created.  NothingMissed: between its  *)
(* delete and its insert a walk has seen every row there is, unless the    *)
(* history says that another replacement went in beside it.                *)
(***************************************************************************)
EXTENDS OltWalk, TLAPS

NewIsPending == olt = "none" => status = "PENDING"

NothingMissed ==
    \A w \in Walk : At(w, "insert") /\ ~walk[w].beside => rows \subseteq walk[w].seen

Inv ==
    /\ TypeOK
    /\ NewIsPending
    /\ WalkingMeansWalking
    /\ NothingMissed
    /\ InterfacesReplaced

----------------------------------------------------------------------------
\* The initial states satisfy the inductive invariant.
LEMMA InitInv == Init => Inv
<1>1. Idle \in WalkState
  BY DEF Idle, WalkState, Pc
<1> QED
  BY <1>1 DEF Init, Inv, TypeOK, NewIsPending, WalkingMeansWalking, NothingMissed,
              InterfacesReplaced, Stored, At, Idle

\* Walk w is at pc now, the others stay.
GoesOn(w, pc) ==
    /\ walk' \in [Walk -> WalkState]
    /\ walk'[w].pc = pc
    /\ \A v \in Walk : v # w => walk'[v] = walk[v]

LEMMA GotoGoesOn ==
    ASSUME TypeOK, NEW w \in Walk, NEW pc \in Pc, Goto(w, pc)
    PROVE  GoesOn(w, pc)
<1> DEFINE new == [walk[w] EXCEPT !.pc = pc]
<1>1. new \in WalkState /\ new.pc = pc
  BY DEF TypeOK, WalkState
<1>2. walk' = [walk EXCEPT ![w] = new]
  BY DEF Goto
<1> HIDE DEF new
<1> QED
  BY <1>1, <1>2 DEF GoesOn, TypeOK

LEMMA IdleType == Idle \in WalkState /\ Idle.pc = "idle"
BY DEF Idle, WalkState, Pc

LEMMA ReturnGoesOn ==
    ASSUME TypeOK, NEW w \in Walk, Return(w)
    PROVE  GoesOn(w, "idle")
BY IdleType DEF Return, GoesOn, TypeOK

\* The three ways into walkGpons and its first statement.
LEMMA EntryGoesOn ==
    ASSUME TypeOK, NEW w \in Walk, CreateOlt(w) \/ SyncOlt(w)
    PROVE  \E pc \in {"refresh", "read"} : GoesOn(w, pc)
<1> DEFINE new == [Idle EXCEPT !.pc = "refresh", !.caller = "create"]
           sync == [Idle EXCEPT !.pc = "read"]
<1>1. new \in WalkState /\ new.pc = "refresh" /\ sync \in WalkState /\ sync.pc = "read"
  BY DEF Idle, WalkState, Pc
<1>2. walk' = [walk EXCEPT ![w] = new] \/ walk' = [walk EXCEPT ![w] = sync]
  BY DEF CreateOlt, SyncOlt
<1> HIDE DEF new, sync
<1> QED
  BY <1>1, <1>2 DEF GoesOn, TypeOK

LEMMA DeleteGoesOn ==
    ASSUME TypeOK, NEW w \in Walk, DeleteInterfaces(w)
    PROVE  GoesOn(w, "insert") /\ walk'[w].seen = rows
<1> DEFINE new == [walk[w] EXCEPT !.pc = "insert", !.seen = rows, !.beside = FALSE]
<1>0. walk[w] \in WalkState /\ rows \in SUBSET (Walk \X IfIndex)
  BY DEF TypeOK
<1>1. new \in WalkState /\ new.pc = "insert" /\ new.seen = rows
  BY <1>0 DEF WalkState, Pc
<1>2. walk' = [walk EXCEPT ![w] = new]
  BY DEF DeleteInterfaces
<1> HIDE DEF new
<1> QED
  BY <1>1, <1>2 DEF GoesOn, TypeOK

\* A commit sends w on; of the others it changes the history alone.
LEMMA CommitGoesOn ==
    ASSUME TypeOK, NEW w \in Walk, Commit(w)
    PROVE  /\ walk' \in [Walk -> WalkState] /\ walk'[w].pc = "onus"
           /\ \A v \in Walk : v # w =>
                /\ walk'[v].pc = walk[v].pc
                /\ walk[v].pc = "insert" => walk'[v].beside
           /\ united' = walk[w].beside /\ united' \in BOOLEAN
<1> DEFINE gone == [walk[w] EXCEPT !.pc = "onus"]
           late(v) == [walk[v] EXCEPT !.beside = walk[v].beside \/ At(v, "insert")]
<1>1. \A v \in Walk : walk[v] \in WalkState
  BY DEF TypeOK
<1>2. gone \in WalkState /\ gone.pc = "onus" /\ walk[w].beside \in BOOLEAN
  BY <1>1 DEF WalkState, Pc
<1>3. ASSUME NEW v \in Walk
      PROVE  /\ late(v) \in WalkState /\ late(v).pc = walk[v].pc
             /\ walk[v].pc = "insert" => late(v).beside
  <2>1. (walk[v].beside \/ At(v, "insert")) \in BOOLEAN
    OBVIOUS
  <2> QED
    BY <1>1, <2>1 DEF WalkState, At
<1>4. walk' = [v \in Walk |-> IF v = w THEN gone ELSE late(v)]
  BY DEF Commit
<1> HIDE DEF gone, late
<1> QED
  BY <1>2, <1>3, <1>4 DEF Commit

----------------------------------------------------------------------------
\* A walk that is not past the mark, or does not leave the marked part, changes
\* nothing the properties see.
LEMMA MoveKeepsInv ==
    ASSUME Inv, NEW w \in Walk, NEW pc \in Pc, GoesOn(w, pc),
           UNCHANGED <<olt, status, rows, united, process, cut>>,
           Marked(w) => pc \in {"session", "interfaces", "insert", "onus", "finish", "fail"},
           pc = "insert" => walk'[w].seen = rows
    PROVE  Inv'
<1>1. TypeOK'
  BY DEF Inv, TypeOK, GoesOn
<1>2. \A v \in Walk : Marked(v) => Marked(v)'
  BY DEF GoesOn, Marked
<1>3. WalkingMeansWalking'
  BY <1>2 DEF Inv, WalkingMeansWalking, Stored
<1>4. NothingMissed'
  BY DEF Inv, NothingMissed, At, GoesOn
<1> QED
  BY <1>1, <1>3, <1>4 DEF Inv, NewIsPending, InterfacesReplaced, Stored

\* The insert leaves the rows of one walk; those of others only if the delete
\* missed them, and then under other indexes.
LEMMA CommitKeepsInv ==
    ASSUME Inv, NEW w \in Walk, At(w, "insert"), Commit(w), NEW found \in SUBSET IfIndex,
           Stored \/ found = {},
           \A row \in rows \ walk[w].seen : row[2] \notin found,
           rows' = (rows \ walk[w].seen) \cup ({w} \X found),
           UNCHANGED <<olt, status, process, cut>>
    PROVE  Inv'
<1>1. TypeOK /\ rows \in SUBSET (Walk \X IfIndex)
  BY DEF Inv, TypeOK
<1>2. /\ walk' \in [Walk -> WalkState] /\ walk'[w].pc = "onus"
      /\ \A v \in Walk : v # w =>
           /\ walk'[v].pc = walk[v].pc
           /\ walk[v].pc = "insert" => walk'[v].beside
      /\ united' = walk[w].beside /\ united' \in BOOLEAN
  BY <1>1, CommitGoesOn
<1>3. TypeOK'
  BY <1>1, <1>2 DEF TypeOK
<1>4. WalkingMeansWalking'
  BY <1>2 DEF Inv, WalkingMeansWalking, Stored, Marked
<1>5. NothingMissed'
  BY <1>2 DEF NothingMissed, At
<1>6. \A row \in {w} \X found : row[1] = w /\ row[2] \in found /\ row = <<w, row[2]>>
  OBVIOUS
<1>7. ASSUME NEW r \in rows', NEW s \in rows', r[2] = s[2] PROVE r = s
  BY <1>6, <1>7 DEF Inv, InterfacesReplaced
<1>8. ~united' => \A r, s \in rows' : r[1] = s[1]
  <2>1. ASSUME ~united' PROVE rows \subseteq walk[w].seen
    BY <1>2, <2>1 DEF Inv, NothingMissed
  <2> QED
    BY <1>6, <2>1
<1>9. ~Stored' => rows' = {}
  BY DEF Inv, InterfacesReplaced, Stored
<1> QED
  BY <1>3, <1>4, <1>5, <1>7, <1>8, <1>9 DEF Inv, NewIsPending, InterfacesReplaced

\* Every walk is gone, and the history says so if one was marked.
LEMMA StopKeepsInv ==
    ASSUME Inv, walk' = [v \in Walk |-> Idle], cut' = (cut \/ \E v \in Walk : Marked(v)),
           process' \in {"up", "down"}, UNCHANGED <<olt, status, rows, united>>
    PROVE  Inv'
<1>1. (\E v \in Walk : Marked(v)) \in BOOLEAN
  OBVIOUS
<1>2. TypeOK'
  BY <1>1, IdleType DEF Inv, TypeOK
<1>3. WalkingMeansWalking'
  BY DEF Inv, WalkingMeansWalking, Stored
<1>4. NothingMissed'
  BY IdleType DEF NothingMissed, At
<1> QED
  BY <1>2, <1>3, <1>4 DEF Inv, NewIsPending, InterfacesReplaced, Stored

LEMMA InvStep == Inv /\ [Next]_vars => Inv'
<1> SUFFICES ASSUME Inv, [Next]_vars PROVE Inv'
  OBVIOUS
<1> TypeOK
  BY DEF Inv
<1>1. ASSUME NEW w \in Walk, CreateOlt(w) PROVE Inv'
  <2>1. PICK pc \in {"refresh", "read"} : GoesOn(w, pc)
    BY <1>1, EntryGoesOn
  <2>2. /\ olt = "none" /\ olt' = "stored" /\ UNCHANGED <<status, rows, united, process, cut>>
    BY <1>1 DEF CreateOlt
  <2>3. status = "PENDING"
    BY <2>2 DEF Inv, NewIsPending
  <2>4. TypeOK'
    BY <2>1, <2>2 DEF Inv, TypeOK, GoesOn
  <2> QED
    BY <2>1, <2>2, <2>3, <2>4
       DEF Inv, NewIsPending, WalkingMeansWalking, NothingMissed, InterfacesReplaced, Stored, At,
           GoesOn
<1>2. ASSUME NEW w \in Walk, SyncOlt(w) PROVE Inv'
  <2>1. PICK pc \in {"refresh", "read"} : GoesOn(w, pc)
    BY <1>2, EntryGoesOn
  <2>2. ~Marked(w) /\ UNCHANGED <<olt, status, rows, united, process, cut>>
    BY <1>2 DEF SyncOlt, At, Marked
  <2> QED
    BY <2>1, <2>2, MoveKeepsInv DEF Pc
<1>3. ASSUME NEW w \in Walk, AfterRefresh(w) \/ ReadOlt(w) PROVE Inv'
  <2>1. ~Marked(w) /\ UNCHANGED <<olt, status, rows, united, process, cut>>
    BY <1>3 DEF AfterRefresh, ReadOlt, At, Marked
  <2>2. PICK pc \in {"read", "mark", "idle"} : GoesOn(w, pc)
    BY <1>3, GotoGoesOn, ReturnGoesOn DEF AfterRefresh, ReadOlt, Pc
  <2> QED
    BY <2>1, <2>2, MoveKeepsInv DEF Pc
<1>4. ASSUME NEW w \in Walk, MarkWalking(w) PROVE Inv'
  <2>1. GoesOn(w, "session")
    BY <1>4, GotoGoesOn DEF MarkWalking, Pc
  <2>2. Marked(w)' /\ Stored /\ status' = "WALKING" /\ UNCHANGED <<olt, rows, united, process, cut>>
    BY <1>4, <2>1 DEF MarkWalking, Marked, GoesOn
  <2>3. TypeOK'
    BY <2>1, <2>2 DEF Inv, TypeOK, GoesOn
  <2> QED
    BY <2>1, <2>2, <2>3
       DEF Inv, NewIsPending, WalkingMeansWalking, NothingMissed, InterfacesReplaced, Stored, At,
           GoesOn
<1>5. ASSUME NEW w \in Walk, OpenSession(w) \/ WalkOnus(w) \/ StepFails(w) PROVE Inv'
  <2>1. PICK pc \in {"interfaces", "finish", "fail"} : GoesOn(w, pc)
    BY <1>5, GotoGoesOn DEF OpenSession, WalkOnus, StepFails, Pc
  <2>2. UNCHANGED <<olt, status, rows, united, process, cut>>
    BY <1>5 DEF OpenSession, WalkOnus, StepFails
  <2> QED
    BY <2>1, <2>2, MoveKeepsInv DEF Pc
<1>6. ASSUME NEW w \in Walk, Throw(w) PROVE Inv'
  <2>1. CASE walk[w].caller = "sync"
    <3>1. /\ GoesOn(w, "idle") /\ cut' = (cut \/ Marked(w))
          /\ UNCHANGED <<olt, status, rows, united, process>>
      BY <1>6, <2>1, ReturnGoesOn DEF Throw
    <3>2. cut' \in BOOLEAN
      BY <3>1
    <3>3. TypeOK'
      BY <3>1, <3>2 DEF Inv, TypeOK, GoesOn
    <3>4. \A v \in Walk : Marked(v) => cut' \/ Marked(v)'
      BY <3>1 DEF GoesOn, Marked
    <3>5. WalkingMeansWalking'
      BY <3>1, <3>4 DEF Inv, WalkingMeansWalking, Stored
    <3> QED
      BY <3>1, <3>3, <3>5
         DEF Inv, NewIsPending, NothingMissed, InterfacesReplaced, Stored, At, GoesOn
  <2>2. CASE walk[w].caller # "sync"
    BY <1>6, <2>2, StopKeepsInv DEF Throw
  <2> QED
    BY <2>1, <2>2
<1>7. ASSUME NEW w \in Walk, DeleteInterfaces(w) PROVE Inv'
  BY <1>7, DeleteGoesOn, MoveKeepsInv DEF DeleteInterfaces, Pc
<1>8. ASSUME NEW w \in Walk, InsertInterfaces(w) PROVE Inv'
  <2>1. PICK found \in SUBSET IfIndex :
          LET others == rows \ walk[w].seen
              collision == \E row \in others : row[2] \in found IN
          \/ /\ Stored \/ found = {}
             /\ ~collision
             /\ rows' = others \cup ({w} \X found)
             /\ Commit(w)
          \/ /\ (~Stored /\ found # {}) \/ collision
             /\ Goto(w, "fail")
             /\ UNCHANGED <<rows, united>>
    BY <1>8 DEF InsertInterfaces
  <2>2. CASE Commit(w) /\ rows' = (rows \ walk[w].seen) \cup ({w} \X found)
             /\ (Stored \/ found = {}) /\ \A row \in rows \ walk[w].seen : row[2] \notin found
    BY <1>8, <2>2, CommitKeepsInv DEF InsertInterfaces
  <2>3. CASE Goto(w, "fail") /\ UNCHANGED <<rows, united>>
    <3>1. GoesOn(w, "fail")
      BY <2>3, GotoGoesOn DEF Pc
    <3> QED
      BY <1>8, <2>3, <3>1, MoveKeepsInv DEF InsertInterfaces, Pc
  <2> QED
    BY <2>1, <2>2, <2>3
<1>9. ASSUME NEW w \in Walk, FinishWalk(w) \/ RecordFailure(w), Stored PROVE Inv'
  <2>1. /\ GoesOn(w, "idle") /\ status' \in {"ACTIVE", "FAILED"} /\ cut' = FALSE
        /\ UNCHANGED <<olt, rows, united, process>>
    BY <1>9, ReturnGoesOn DEF FinishWalk, RecordFailure
  <2>2. TypeOK'
    BY <2>1 DEF Inv, TypeOK, GoesOn
  <2> QED
    BY <1>9, <2>1, <2>2
       DEF Inv, NewIsPending, WalkingMeansWalking, NothingMissed, InterfacesReplaced, Stored, At,
           GoesOn
<1>10. ASSUME NEW w \in Walk, FinishWalk(w), ~Stored PROVE Inv'
  <2>1. GoesOn(w, "fail") /\ UNCHANGED <<olt, status, rows, united, process, cut>>
    BY <1>10, GotoGoesOn DEF FinishWalk, Pc
  <2> QED
    BY <2>1, MoveKeepsInv DEF Pc
<1>11. CASE RemoveOlt
  BY <1>11
     DEF RemoveOlt, Inv, TypeOK, NewIsPending, WalkingMeansWalking, NothingMissed,
         InterfacesReplaced, Stored, At
<1>12. CASE Crash
  BY <1>12, StopKeepsInv DEF Crash
<1>13. CASE Restart \/ UNCHANGED vars
  BY <1>13
     DEF Restart, vars, Inv, TypeOK, NewIsPending, WalkingMeansWalking, NothingMissed,
         InterfacesReplaced, Stored, At, Marked
<1> QED
  BY <1>1, <1>2, <1>3, <1>4, <1>5, <1>6, <1>7, <1>8, <1>9, <1>10, <1>11, <1>12, <1>13
     DEF Next, WalkStep, RecordFailure

----------------------------------------------------------------------------
(* The theorems.                                                           *)

\* The inductive invariant holds in every state.
THEOREM Invariance == Spec => []Inv
BY InitInv, InvStep, PTL DEF Spec

\* Every variable keeps its type.
THEOREM TypeCorrect == Spec => []TypeOK
BY Invariance, PTL DEF Inv

\* bootstrapStatus says WALKING of a stored OLT only while a call of walkGpons is
\* under way or when one was cut short, by a crash or by a rejection that left
\* it, and none has finished since: however many calls overlap.
THEOREM WalkingIsTrue == Spec => []WalkingMeansWalking
BY Invariance, PTL DEF Inv

\* The transaction of walkGponInterfaces leaves no ifIndex twice, the interfaces of
\* one walk unless another was committed between its delete and its insert,
\* and none without their OLT.
THEOREM InterfacesAreReplaced == Spec => []InterfacesReplaced
BY Invariance, PTL DEF Inv
=============================================================================
