-------------------------- MODULE AlarmIngestProofs --------------------------
(***************************************************************************)
(* Theorems about AlarmIngest for every set of handlers, operators, rows,  *)
(* keys and OLTs.  The invariants of the runs are inductive TOGETHER:      *)
(* UniqueActive rests on the index in Create alone, but HeldRowIsOwn needs *)
(* the types, and the refinement needs both (a CLEAR completes when the    *)
(* one row it holds is closed, which lowers the key only because no other  *)
(* row of the key is ACTIVE).                                              *)
(***************************************************************************)
EXTENDS AlarmIngest, TLAPS

\* The branch a handler is in is the branch of its trap's condition.
BranchOK ==
    \A h \in Handler :
      /\ handler[h].pc = "close" => handler[h].op = "CLEAR"
      /\ handler[h].pc \in {"create", "winner", "refresh"} => handler[h].op = "SET"

Inv ==
    /\ TypeOK
    /\ BranchOK
    /\ UniqueActive
    /\ HeldRowIsOwn
    /\ NoOrphanAlarm

----------------------------------------------------------------------------
\* The initial states satisfy the inductive invariant.
LEMMA InitInv == Init => Inv
BY OltOfAssumption
   DEF Init, Inv, BranchOK, TypeOK, UniqueActive, HeldRowIsOwn, NoOrphanAlarm, HandlerState,
       HandlerPc, Resting, RequestState, RequestKind, Stored

\* What Goto and Hold do to the slots, in a form the steps below can use.
Moved(h, pc, a) ==
    /\ handler' \in [Handler -> HandlerState]
    /\ handler'[h].pc = pc
    /\ handler'[h].row = a
    /\ handler'[h].key = handler[h].key
    /\ handler'[h].op = handler[h].op
    /\ \A g \in Handler : g # h => handler'[g] = handler[g]

LEMMA HoldMoves ==
    ASSUME TypeOK, NEW h \in Handler, NEW pc \in HandlerPc,
           NEW a \in AlarmId \cup {NoRow}, Hold(h, pc, a)
    PROVE  Moved(h, pc, a)
<1> DEFINE new == [handler[h] EXCEPT !.pc = pc, !.row = a]
<1>1. handler[h] \in HandlerState /\ handler \in [Handler -> HandlerState]
  BY DEF TypeOK
<1>2. /\ new \in HandlerState /\ new.pc = pc /\ new.row = a
      /\ new.key = handler[h].key /\ new.op = handler[h].op
  BY <1>1 DEF HandlerState
<1>3. handler' = [handler EXCEPT ![h] = new]
  BY DEF Hold
<1> HIDE DEF new
<1> QED
  BY <1>1, <1>2, <1>3 DEF Moved

LEMMA FinishMoves ==
    ASSUME TypeOK, NEW h \in Handler, NEW pc \in Resting, Finish(h, pc)
    PROVE  Moved(h, pc, NoRow)
BY HoldMoves DEF Finish, HandlerPc

LEMMA GotoMoves ==
    ASSUME TypeOK, NEW h \in Handler, NEW pc \in HandlerPc, Goto(h, pc)
    PROVE  Moved(h, pc, handler[h].row)
<1> DEFINE new == [handler[h] EXCEPT !.pc = pc]
<1>1. handler[h] \in HandlerState /\ handler \in [Handler -> HandlerState]
  BY DEF TypeOK
<1>2. /\ new \in HandlerState /\ new.pc = pc /\ new.row = handler[h].row
      /\ new.key = handler[h].key /\ new.op = handler[h].op
  BY <1>1 DEF HandlerState
<1>3. handler' = [handler EXCEPT ![h] = new]
  BY DEF Goto
<1> HIDE DEF new
<1> QED
  BY <1>1, <1>2, <1>3 DEF Moved

LEMMA HandlerEnds ==
    ASSUME TypeOK, NEW h \in Handler
    PROVE  [handler[h] EXCEPT !.pc = "idle", !.row = NoRow] \in HandlerState
<1>1. handler[h] \in HandlerState
  BY DEF TypeOK
<1> QED
  BY <1>1 DEF HandlerState, HandlerPc, Resting

LEMMA RequestEnds ==
    ASSUME TypeOK, NEW o \in Operator
    PROVE  [request[o] EXCEPT !.pc = "idle", !.row = NoRow] \in RequestState
<1>1. request[o] \in RequestState
  BY DEF TypeOK
<1> QED
  BY <1>1 DEF RequestState

\* No step changes the types of the state: in particular every write by id
\* goes to a row id that exists.
LEMMA TypeStep == TypeOK /\ [Next]_vars => TypeOK'
<1> SUFFICES ASSUME TypeOK, [Next]_vars PROVE TypeOK'
  OBVIOUS
<1> USE DEF TypeOK, HandlerState, HandlerPc, Resting, RequestState, RequestKind, rowVars
<1>1. ASSUME NEW h \in Handler, NEW k \in Key, NEW op \in {"SET", "CLEAR"}, Receive(h, k, op)
      PROVE  TypeOK'
  BY <1>1 DEF Receive
<1>2. ASSUME NEW h \in Handler, FindForSet(h) PROVE TypeOK'
  BY <1>2, HoldMoves, GotoMoves DEF FindForSet, ActiveRows, Moved
<1>3. ASSUME NEW h \in Handler, Create(h) PROVE TypeOK'
  BY <1>3, FinishMoves, GotoMoves DEF Create, Insert, ActiveRows, Moved
<1>4. ASSUME NEW h \in Handler, FindWinner(h) PROVE TypeOK'
  BY <1>4, FinishMoves, HoldMoves DEF FindWinner, ActiveRows, Moved
<1>5. ASSUME NEW h \in Handler, Refresh(h) PROVE TypeOK'
  BY <1>5, FinishMoves DEF Refresh, Moved
<1>6. ASSUME NEW h \in Handler, FindForClear(h) PROVE TypeOK'
  BY <1>6, FinishMoves, HoldMoves DEF FindForClear, ActiveRows, Moved
<1>7. ASSUME NEW h \in Handler, Close(h) PROVE TypeOK'
  BY <1>7, FinishMoves DEF Close, Moved
<1>8. ASSUME NEW h \in Handler, StatementFails(h) PROVE TypeOK'
  BY <1>8, FinishMoves DEF StatementFails, Moved
<1>9. ASSUME NEW o \in Operator, NEW kind \in RequestKind, NEW a \in AlarmId,
             OpenRequest(o, kind, a)
      PROVE  TypeOK'
  BY <1>9 DEF OpenRequest
<1>10. ASSUME NEW o \in Operator, WriteRequest(o) PROVE TypeOK'
  <2> DEFINE new == [request[o] EXCEPT !.pc = "idle", !.row = NoRow]
  <2>1. new \in RequestState
    BY RequestEnds
  <2>2. request' = [request EXCEPT ![o] = new]
    BY <1>10 DEF WriteRequest
  <2>3. request' \in [Operator -> RequestState]
    <3> HIDE DEF new, RequestState
    <3> QED BY <2>1, <2>2
  <2>4. /\ condition' \in [AlarmId -> {"unused", "ACTIVE", "CLEARED", "deleted"}]
        /\ confirmed' \in [AlarmId -> BOOLEAN]
    BY <1>10 DEF WriteRequest, Stored
  <2> QED
    BY <1>10, <2>3, <2>4 DEF WriteRequest
<1>11. ASSUME NEW o \in Olt, RemoveOlt(o) PROVE TypeOK'
  <2>1. \A a \in AlarmId : condition'[a] \in {"unused", "ACTIVE", "CLEARED", "deleted"}
    BY <1>11 DEF RemoveOlt
  <2>2. condition' \in [AlarmId -> {"unused", "ACTIVE", "CLEARED", "deleted"}]
    BY <1>11, <2>1 DEF RemoveOlt
  <2> QED
    BY <1>11, <2>2 DEF RemoveOlt
<1>12. CASE Crash
  <2>1. \A h \in Handler : [handler[h] EXCEPT !.pc = "idle", !.row = NoRow] \in HandlerState
    BY HandlerEnds
  <2>2. \A o \in Operator : [request[o] EXCEPT !.pc = "idle", !.row = NoRow] \in RequestState
    BY RequestEnds
  <2>3. handler' \in [Handler -> HandlerState] /\ request' \in [Operator -> RequestState]
    <3> HIDE DEF HandlerState, RequestState
    <3> QED BY <1>12, <2>1, <2>2 DEF Crash
  <2> QED
    BY <1>12, <2>3 DEF Crash
<1>13. CASE UNCHANGED vars
  BY <1>13 DEF vars
<1> QED
  BY <1>1, <1>2, <1>3, <1>4, <1>5, <1>6, <1>7, <1>8, <1>9, <1>10, <1>11, <1>12, <1>13
     DEF Next, HandlerStep

----------------------------------------------------------------------------
(* What a step may do to the table: rows only age, or one row is inserted.  *)

Ages(a) ==
    /\ keyOf'[a] = keyOf[a]
    /\ confirmed[a] => confirmed'[a]
    /\ \/ condition'[a] = condition[a]
       \/ condition[a] \in {"ACTIVE", "CLEARED"} /\ condition'[a] \in {"CLEARED", "deleted"}

TableAges ==
    /\ \A a \in AlarmId : Ages(a)
    /\ \/ olts' = olts
       \/ \E o \in Olt : /\ olts' = olts \ {o}
                       /\ \A a \in AlarmId : Stored(a)' => OltOf[keyOf[a]] # o

RowInserted ==
    \E h \in Handler, a \in AlarmId :
      /\ condition[a] = "unused"
      /\ ActiveRows(handler[h].key) = {}
      /\ OltOf[handler[h].key] \in olts
      /\ condition' = [condition EXCEPT ![a] = "ACTIVE"]
      /\ keyOf' = [keyOf EXCEPT ![a] = handler[h].key]
      /\ UNCHANGED <<olts, confirmed>>

LEMMA StillTable ==
    ASSUME UNCHANGED <<olts, rowVars>> PROVE TableAges
BY DEF TableAges, Ages, rowVars

LEMMA TableStep == TypeOK /\ [Next]_vars => TableAges \/ RowInserted
<1> SUFFICES ASSUME TypeOK, [Next]_vars PROVE TableAges \/ RowInserted
  OBVIOUS
<1>1. ASSUME NEW h \in Handler, Create(h) PROVE TableAges \/ RowInserted
  <2>1. CASE UNCHANGED rowVars
    BY <1>1, <2>1, StillTable DEF Create, Insert
  <2>2. CASE ~ UNCHANGED rowVars
    BY <1>1, <2>2 DEF Create, Insert, RowInserted
  <2> QED
    BY <2>1, <2>2
<1>2. ASSUME NEW h \in Handler, Close(h) PROVE TableAges
  BY <1>2 DEF Close, TypeOK, TableAges, Ages, Stored
<1>3. ASSUME NEW o \in Operator, WriteRequest(o) PROVE TableAges
  BY <1>3 DEF WriteRequest, TypeOK, TableAges, Ages, Stored
<1>4. ASSUME NEW o \in Olt, RemoveOlt(o) PROVE TableAges
  <2>1. \A a \in AlarmId : Ages(a)
    BY <1>4 DEF RemoveOlt, Ages, Stored, TypeOK
  <2>2. \A a \in AlarmId : Stored(a)' => OltOf[keyOf[a]] # o
    BY <1>4 DEF RemoveOlt, Stored, TypeOK
  <2> QED
    BY <1>4, <2>1, <2>2 DEF RemoveOlt, TableAges
<1>5. CASE UNCHANGED <<olts, rowVars>>
  BY <1>5, StillTable
<1> QED
  BY <1>1, <1>2, <1>3, <1>4, <1>5
     DEF Next, HandlerStep, vars, rowVars, Receive, FindForSet, FindWinner, Refresh,
         FindForClear, StatementFails, OpenRequest, Crash

\* Two SETs that found nothing never leave two ACTIVE alarms of one key.
LEMMA UniqueStep == TypeOK /\ TypeOK' /\ UniqueActive /\ [Next]_vars => UniqueActive'
<1> SUFFICES ASSUME TypeOK, TypeOK', UniqueActive, [Next]_vars PROVE UniqueActive'
  OBVIOUS
<1>1. CASE TableAges
  BY <1>1 DEF TableAges, Ages, UniqueActive
<1>2. CASE RowInserted
  BY <1>2 DEF RowInserted, ActiveRows, UniqueActive, TypeOK
<1> QED
  BY <1>1, <1>2, TableStep

\* No alarm outlives its OLT.
LEMMA OrphanStep == TypeOK /\ NoOrphanAlarm /\ [Next]_vars => NoOrphanAlarm'
<1> SUFFICES ASSUME TypeOK, NoOrphanAlarm, [Next]_vars PROVE NoOrphanAlarm'
  OBVIOUS
<1>1. CASE TableAges
  <2> SUFFICES ASSUME NEW a \in AlarmId, Stored(a)' PROVE (OltOf[keyOf[a]] \in olts)'
    BY DEF NoOrphanAlarm
  <2>1. Stored(a) /\ keyOf'[a] = keyOf[a]
    BY <1>1 DEF TableAges, Ages, Stored
  <2>2. OltOf[keyOf[a]] \in olts
    BY <2>1 DEF NoOrphanAlarm
  <2> QED
    BY <1>1, <2>1, <2>2 DEF TableAges
<1>2. CASE RowInserted
  BY <1>2 DEF RowInserted, NoOrphanAlarm, Stored, TypeOK
<1> QED
  BY <1>1, <1>2, TableStep

\* Used rows keep being used, with the key they were created with.
LEMMA RowsKept ==
    ASSUME TypeOK, TypeOK', [Next]_vars, NEW a \in AlarmId, condition[a] # "unused"
    PROVE  condition'[a] # "unused" /\ keyOf'[a] = keyOf[a]
<1>1. CASE TableAges
  BY <1>1 DEF TableAges, Ages
<1>2. CASE RowInserted
  BY <1>2 DEF RowInserted, TypeOK
<1> QED
  BY <1>1, <1>2, TableStep

\* A row id read before an await is still the handler's own row afterwards.
LEMMA HeldStep == TypeOK /\ TypeOK' /\ HeldRowIsOwn /\ [Next]_vars => HeldRowIsOwn'
<1> SUFFICES ASSUME TypeOK, TypeOK', HeldRowIsOwn, [Next]_vars,
                    NEW g \in Handler, handler'[g].pc \in {"refresh", "close"}
             PROVE  /\ handler'[g].row \in AlarmId
                    /\ condition'[handler'[g].row] # "unused"
                    /\ keyOf'[handler'[g].row] = handler'[g].key
  BY DEF HeldRowIsOwn
<1> DEFINE Own == /\ handler'[g].row \in AlarmId
                  /\ condition[handler'[g].row] # "unused"
                  /\ keyOf[handler'[g].row] = handler'[g].key
<1>1. SUFFICES Own
  BY RowsKept
<1>2. CASE handler'[g] = handler[g]
  BY <1>2 DEF HeldRowIsOwn
<1>3. ASSUME NEW h \in Handler, NEW a \in ActiveRows(handler[h].key),
             NEW pc \in {"refresh", "close"}, Moved(h, pc, a)
      PROVE  Own
  BY <1>2, <1>3 DEF Moved, ActiveRows
<1>4. ASSUME NEW h \in Handler, NEW pc \in Resting \cup {"create", "winner"},
             NEW a, Moved(h, pc, a)
      PROVE  Own
  BY <1>2, <1>4 DEF Moved, Resting
<1>5. ASSUME NEW h \in Handler, NEW k \in Key, NEW op \in {"SET", "CLEAR"}, Receive(h, k, op)
      PROVE  Own
  BY <1>2, <1>5 DEF Receive, TypeOK
<1>6. ASSUME NEW h \in Handler, FindForSet(h) PROVE Own
  BY <1>3, <1>4, <1>6, HoldMoves, GotoMoves DEF FindForSet, ActiveRows, HandlerPc
<1>7. ASSUME NEW h \in Handler, Create(h) PROVE Own
  BY <1>4, <1>7, FinishMoves, GotoMoves DEF Create, Insert, HandlerPc, Resting
<1>8. ASSUME NEW h \in Handler, FindWinner(h) PROVE Own
  BY <1>3, <1>4, <1>8, FinishMoves, HoldMoves DEF FindWinner, ActiveRows, HandlerPc, Resting
<1>9. ASSUME NEW h \in Handler, Refresh(h) PROVE Own
  BY <1>4, <1>9, FinishMoves DEF Refresh, Resting
<1>10. ASSUME NEW h \in Handler, FindForClear(h) PROVE Own
  BY <1>3, <1>4, <1>10, FinishMoves, HoldMoves DEF FindForClear, ActiveRows, HandlerPc, Resting
<1>11. ASSUME NEW h \in Handler, Close(h) PROVE Own
  BY <1>4, <1>11, FinishMoves DEF Close, Resting
<1>12. ASSUME NEW h \in Handler, StatementFails(h) PROVE Own
  BY <1>4, <1>12, FinishMoves DEF StatementFails, Resting
<1>13. CASE Crash
  BY <1>13, ZenonT(60) DEF Crash, TypeOK, HandlerState
<1>14. CASE UNCHANGED handler
  BY <1>2, <1>14
<1> QED
  BY <1>5, <1>6, <1>7, <1>8, <1>9, <1>10, <1>11, <1>12, <1>13, <1>14
     DEF Next, HandlerStep, vars, OpenRequest, WriteRequest, RemoveOlt

----------------------------------------------------------------------------
\* A handler stays in the branch it has taken.
LEMMA BranchStep == TypeOK /\ TypeOK' /\ BranchOK /\ [Next]_vars => BranchOK'
<1> SUFFICES ASSUME TypeOK, TypeOK', BranchOK, [Next]_vars PROVE BranchOK'
  OBVIOUS
<1>1. ASSUME NEW h \in Handler, NEW pc, NEW a, Moved(h, pc, a),
             pc = "close" => handler[h].op = "CLEAR",
             pc \in {"create", "winner", "refresh"} => handler[h].op = "SET"
      PROVE  BranchOK'
  BY <1>1 DEF Moved, BranchOK
<1>2. ASSUME NEW h \in Handler, NEW k \in Key, NEW op \in {"SET", "CLEAR"}, Receive(h, k, op)
      PROVE  BranchOK'
  BY <1>2 DEF Receive, BranchOK, TypeOK
<1>3. ASSUME NEW h \in Handler, FindForSet(h) PROVE BranchOK'
  BY <1>1, <1>3, HoldMoves, GotoMoves DEF FindForSet, ActiveRows, HandlerPc
<1>4. ASSUME NEW h \in Handler, Create(h) PROVE BranchOK'
  BY <1>1, <1>4, FinishMoves, GotoMoves DEF Create, Insert, BranchOK, HandlerPc, Resting
<1>5. ASSUME NEW h \in Handler, FindWinner(h) PROVE BranchOK'
  BY <1>1, <1>5, FinishMoves, HoldMoves DEF FindWinner, BranchOK, ActiveRows, HandlerPc, Resting
<1>6. ASSUME NEW h \in Handler, Refresh(h) PROVE BranchOK'
  BY <1>1, <1>6, FinishMoves DEF Refresh, Resting
<1>7. ASSUME NEW h \in Handler, FindForClear(h) PROVE BranchOK'
  BY <1>1, <1>7, FinishMoves, HoldMoves DEF FindForClear, ActiveRows, HandlerPc, Resting
<1>8. ASSUME NEW h \in Handler, Close(h) PROVE BranchOK'
  BY <1>1, <1>8, FinishMoves DEF Close, Resting
<1>9. ASSUME NEW h \in Handler, StatementFails(h) PROVE BranchOK'
  BY <1>1, <1>9, FinishMoves DEF StatementFails, Resting
<1>10. CASE Crash
  BY <1>10, ZenonT(60) DEF Crash, BranchOK, TypeOK, HandlerState
<1>11. CASE UNCHANGED handler
  BY <1>11 DEF BranchOK
<1> QED
  BY <1>2, <1>3, <1>4, <1>5, <1>6, <1>7, <1>8, <1>9, <1>10, <1>11
     DEF Next, HandlerStep, vars, OpenRequest, WriteRequest, RemoveOlt

LEMMA InvStep == Inv /\ [Next]_vars => Inv'
BY TypeStep, BranchStep, UniqueStep, HeldStep, OrphanStep DEF Inv

\* The conjunction of the type invariant and the three safety invariants
\* holds in every reachable state.
THEOREM Invariance == Spec => []Inv
<1>1. Init => Inv
  BY InitInv
<1>2. Inv /\ [Next]_vars => Inv'
  BY InvStep
<1> QED
  BY <1>1, <1>2, PTL DEF Spec

\* The state of the alarm table, the handlers and the requests keeps its type.
THEOREM TypeCorrect == Spec => []TypeOK
<1>1. Inv => TypeOK
  BY DEF Inv
<1> QED
  BY <1>1, Invariance, PTL

\* However many SETs of one key race between find and create, at most one
\* ACTIVE alarm of that key exists.
THEOREM AtMostOneActive == Spec => []UniqueActive
<1>1. Inv => UniqueActive
  BY DEF Inv
<1> QED
  BY <1>1, Invariance, PTL

\* A handler's update by id always hits a row of the handler's own key.
THEOREM NoForeignWrite == Spec => []HeldRowIsOwn
<1>1. Inv => HeldRowIsOwn
  BY DEF Inv
<1> QED
  BY <1>1, Invariance, PTL

\* An alarm of an OLT that was removed never exists, however late a handler runs.
THEOREM NoAlarmAfterOlt == Spec => []NoOrphanAlarm
<1>1. Inv => NoOrphanAlarm
  BY DEF Inv
<1> QED
  BY <1>1, Invariance, PTL

\* No step of any process reopens, re-keys or unconfirms an alarm.
THEOREM ClosedStaysClosed == Spec => HistoryIsFinal
<1>1. TypeOK /\ TypeOK' /\ [Next]_vars =>
        [\A a \in AlarmId : condition[a] # "unused" =>
          /\ condition[a] = "CLEARED" => condition'[a] \in {"CLEARED", "deleted"}
          /\ condition[a] = "deleted" => condition'[a] = "deleted"
          /\ keyOf'[a] = keyOf[a]
          /\ confirmed[a] => confirmed'[a]]_vars
  <2> SUFFICES ASSUME TypeOK, TypeOK', [Next]_vars, NEW a \in AlarmId,
                      condition[a] # "unused"
               PROVE  /\ condition[a] = "CLEARED" => condition'[a] \in {"CLEARED", "deleted"}
                      /\ condition[a] = "deleted" => condition'[a] = "deleted"
                      /\ keyOf'[a] = keyOf[a]
                      /\ confirmed[a] => confirmed'[a]
    OBVIOUS
  <2>1. CASE TableAges
    BY <2>1 DEF TableAges, Ages
  <2>2. CASE RowInserted
    BY <2>2 DEF RowInserted, TypeOK
  <2> QED
    BY <2>1, <2>2, TableStep
<1> QED
  BY <1>1, TypeCorrect, PTL DEF Spec, HistoryIsFinal

----------------------------------------------------------------------------
(* The refinement: Spec implements AlarmRegister.                           *)

LEMMA PhaseType == TypeOK => \A h \in Handler : PhaseOf(h) \in Register!Phase
BY DEF TypeOK, HandlerState, HandlerPc, Resting, PhaseOf, Register!Phase

\* A slot whose handler and whose held row's activity stay has the same image.
LEMMA SamePhase ==
    ASSUME TypeOK, HeldRowIsOwn, NEW h \in Handler, handler'[h] = handler[h],
           \A a \in AlarmId : condition[a] # "unused" =>
              (condition'[a] = "ACTIVE" <=> condition[a] = "ACTIVE")
    PROVE  PhaseOf(h)' = PhaseOf(h)
BY DEF TypeOK, HeldRowIsOwn, PhaseOf, HandlerState, HandlerPc, Resting

LEMMA StillRaised ==
    ASSUME UNCHANGED rowVars PROVE RaisedBar' = RaisedBar
BY DEF RaisedBar, ActiveRows, rowVars

\* One handler moves to an image phase q while the table stays.
LEMMA MoveBar ==
    ASSUME TypeOK, TypeOK', HeldRowIsOwn, UNCHANGED rowVars,
           NEW h \in Handler, NEW pc, NEW a, Moved(h, pc, a)
    PROVE  /\ RaisedBar' = RaisedBar
           /\ CallBar' = [CallBar EXCEPT ![h].phase = PhaseOf(h)']
<1>1. \A g \in Handler : g # h => PhaseOf(g)' = PhaseOf(g)
  BY SamePhase DEF Moved, rowVars
<1>2. \A g \in Handler : handler'[g].key = handler[g].key /\ handler'[g].op = handler[g].op
  BY DEF Moved
<1> QED
  BY <1>1, <1>2, StillRaised DEF CallBar

\* The keys of the rows that stop being ACTIVE are lowered, the CLEARs that
\* hold one of those rows complete, and nothing else happens.
LEMMA LowerBar ==
    ASSUME Inv, Inv', \A a \in AlarmId : Ages(a),
           \A g \in Handler :
             \/ handler'[g] = handler[g]
             \/ /\ handler[g].pc = "close" /\ handler'[g].pc = "done"
                /\ handler'[g].key = handler[g].key /\ handler'[g].op = handler[g].op
                /\ condition'[handler[g].row] # "ACTIVE"
    PROVE  \E ks \in SUBSET Key : Register!Lower(ks)
<1> DEFINE X == {a \in AlarmId : condition[a] = "ACTIVE" /\ condition'[a] # "ACTIVE"}
           ks == {keyOf[a] : a \in X}
           hs == {g \in Handler : handler[g].pc = "close" /\ handler[g].row \in X}
<1>1. ks \in SUBSET Key
  BY DEF Inv, TypeOK
<1>2. RaisedBar' = [k \in Key |-> RaisedBar[k] /\ k \notin ks]
  <2> SUFFICES ASSUME NEW k \in Key
               PROVE  (ActiveRows(k) # {})' <=> ActiveRows(k) # {} /\ k \notin ks
    BY DEF RaisedBar
  <2>1. ASSUME NEW a \in AlarmId, a \in ActiveRows(k)' PROVE a \in ActiveRows(k)
    BY <2>1 DEF ActiveRows, Ages
  <2>2. ASSUME NEW a \in AlarmId, a \in ActiveRows(k), k \notin ks PROVE a \in ActiveRows(k)'
    BY <2>2 DEF ActiveRows, Ages
  <2>3. ASSUME NEW a \in AlarmId, a \in ActiveRows(k)', k \in ks PROVE FALSE
    BY <2>1, <2>3 DEF ActiveRows, Inv, UniqueActive
  <2> QED
    BY <2>1, <2>2, <2>3 DEF ActiveRows
<1>3. hs \in SUBSET Register!PendingClears(ks)
  <2> SUFFICES ASSUME NEW g \in hs PROVE g \in Register!PendingClears(ks)
    OBVIOUS
  <2>1. PhaseOf(g) = "pending" /\ handler[g].op = "CLEAR"
    BY DEF Inv, BranchOK, PhaseOf
  <2>2. handler[g].key = keyOf[handler[g].row] /\ handler[g].row \in X
    BY DEF Inv, HeldRowIsOwn
  <2> QED
    BY <2>1, <2>2 DEF Register!PendingClears, CallBar
<1>4. ASSUME NEW g \in Handler
      PROVE  PhaseOf(g)' = IF g \in hs THEN "applied" ELSE PhaseOf(g)
  <2>1. CASE handler'[g] = handler[g] /\ handler[g].pc = "close"
    <3>1. handler[g].row \in AlarmId
      BY <2>1 DEF Inv, HeldRowIsOwn
    <3> QED
      BY <2>1, <3>1 DEF PhaseOf, Ages
  <2>2. CASE handler'[g] = handler[g] /\ handler[g].pc # "close"
    BY <2>2 DEF PhaseOf, Inv, TypeOK, HandlerState, HandlerPc, Resting
  <2>3. CASE handler'[g] # handler[g]
    <3>1. handler[g].pc = "close" /\ handler'[g].pc = "done" /\ condition'[handler[g].row] # "ACTIVE"
      BY <2>3
    <3>2. handler[g].row \in AlarmId
      BY <3>1 DEF Inv, HeldRowIsOwn
    <3> QED
      BY <3>1, <3>2 DEF PhaseOf
  <2> QED
    BY <2>1, <2>2, <2>3
<1>5. \A g \in Handler : handler'[g].key = handler[g].key /\ handler'[g].op = handler[g].op
  OBVIOUS
<1>6. CallBar' = [g \in Handler |->
                    IF g \in hs THEN [CallBar[g] EXCEPT !.phase = "applied"] ELSE CallBar[g]]
  <2> HIDE DEF hs
  <2> QED BY <1>4, <1>5 DEF CallBar
<1> HIDE DEF ks, hs
<1> QED
  BY <1>1, <1>2, <1>3, <1>6 DEF Register!Lower

LEMMA RefineInit == Init => Register!RegInit
<1> SUFFICES ASSUME Init PROVE Register!RegInit
  OBVIOUS
<1>1. RaisedBar = [k \in Key |-> FALSE]
  BY DEF Init, RaisedBar, ActiveRows
<1>2. \A h \in Handler : /\ PhaseOf(h) = "idle"
                         /\ handler[h].key \in Key
                         /\ handler[h].op \in {"SET", "CLEAR"}
  <2>1. \A h \in Handler : handler[h].pc = "idle" /\ handler[h].key \in Key /\ handler[h].op = "SET"
    <3>1. PICK k \in Key :
            handler = [h \in Handler |-> [pc |-> "idle", op |-> "SET", key |-> k, row |-> NoRow]]
      BY DEF Init
    <3> QED
      BY <3>1
  <2> QED
    BY <2>1 DEF PhaseOf
<1>3. CallBar \in [Handler -> Register!Call]
  BY <1>2 DEF Register!Call, Register!Phase, CallBar
<1>4. \A h \in Handler : CallBar[h].phase = "idle"
  BY <1>2 DEF CallBar
<1> QED
  BY <1>1, <1>3, <1>4 DEF Register!RegInit

\* A pending SET that meets an ACTIVE row of its key takes effect as a no-op.
LEMMA MeetsActive ==
    ASSUME Inv, Inv', UNCHANGED rowVars, NEW h \in Handler,
           NEW pc \in {"refresh", "winner"}, NEW b, Moved(h, pc, b),
           handler[h].op = "SET", PhaseOf(h) = "pending", ActiveRows(handler[h].key) # {}
    PROVE  Register!Raise(h)
<1>1. PhaseOf(h)' = "applied"
  BY DEF Moved, PhaseOf
<1>2. RaisedBar' = RaisedBar /\ CallBar' = [CallBar EXCEPT ![h].phase = "applied"]
  BY <1>1, MoveBar DEF Inv
<1>3. handler[h].key \in Key /\ RaisedBar[handler[h].key] = TRUE
  BY DEF Inv, TypeOK, HandlerState, RaisedBar
<1>4. RaisedBar' = [RaisedBar EXCEPT ![handler[h].key] = TRUE]
  BY <1>2, <1>3 DEF RaisedBar
<1> QED
  BY <1>2, <1>4 DEF Register!Raise, CallBar

\* A handler that ends in failure rejects its call.
LEMMA Rejects ==
    ASSUME Inv, Inv', UNCHANGED rowVars, NEW h \in Handler, Moved(h, "failed", NoRow),
           PhaseOf(h) \in {"pending", "applied"}
    PROVE  Register!Reject(h)
<1>1. PhaseOf(h)' = "failed"
  BY DEF Moved, PhaseOf
<1>2. RaisedBar' = RaisedBar /\ CallBar' = [CallBar EXCEPT ![h].phase = "failed"]
  BY <1>1, MoveBar DEF Inv
<1> QED
  BY <1>2 DEF Register!Reject, CallBar

\* A move inside a phase is a stutter of the register.
LEMMA Stutters ==
    ASSUME Inv, Inv', UNCHANGED rowVars, NEW h \in Handler, NEW pc, NEW a,
           Moved(h, pc, a), PhaseOf(h)' = PhaseOf(h)
    PROVE  UNCHANGED <<RaisedBar, CallBar>>
<1>1. RaisedBar' = RaisedBar /\ CallBar' = [CallBar EXCEPT ![h].phase = PhaseOf(h)]
  BY MoveBar DEF Inv
<1>2. [CallBar EXCEPT ![h].phase = PhaseOf(h)] = CallBar
  BY DEF CallBar
<1> QED
  BY <1>1, <1>2

LEMMA RefineStep == Inv /\ Inv' /\ [Next]_vars => [Register!RegNext]_(Register!regVars)
<1> SUFFICES ASSUME Inv, Inv', [Next]_vars PROVE [Register!RegNext]_(Register!regVars)
  OBVIOUS
<1> DEFINE Goal == Register!RegNext \/ UNCHANGED <<RaisedBar, CallBar>>
<1>a. SUFFICES Goal
  BY DEF Register!regVars
<1>b. TypeOK /\ TypeOK' /\ HeldRowIsOwn /\ HeldRowIsOwn' /\ BranchOK
  BY DEF Inv
<1>c. \A h \in Handler : CallBar[h].phase = PhaseOf(h) /\ CallBar[h].key = handler[h].key
                         /\ CallBar[h].op = handler[h].op
  BY DEF CallBar
<1>1. ASSUME NEW h \in Handler, NEW k \in Key, NEW op \in {"SET", "CLEAR"}, Receive(h, k, op)
      PROVE  Goal
  <2>1. PhaseOf(h) # "pending" /\ PhaseOf(h)' = "pending"
    BY <1>1, <1>b DEF Receive, PhaseOf, Resting, TypeOK
  <2>2. \A g \in Handler : g # h => handler'[g] = handler[g] /\ PhaseOf(g)' = PhaseOf(g)
    BY <1>1, <1>b, SamePhase DEF Receive, TypeOK, rowVars
  <2>3. handler'[h].key = k /\ handler'[h].op = op
    BY <1>1, <1>b DEF Receive, TypeOK
  <2>4. CallBar' = [CallBar EXCEPT ![h] = [phase |-> "pending", key |-> k, op |-> op]]
    BY <2>1, <2>2, <2>3 DEF CallBar
  <2>5. RaisedBar' = RaisedBar
    BY <1>1, StillRaised DEF Receive
  <2>6. Register!Invoke(h, k, op)
    BY <1>c, <2>1, <2>4, <2>5 DEF Register!Invoke
  <2> QED
    BY <2>6 DEF Register!RegNext
<1>2. ASSUME NEW h \in Handler, FindForSet(h) PROVE Goal
  <2>1. UNCHANGED rowVars /\ PhaseOf(h) = "pending" /\ handler[h].op = "SET"
    BY <1>2 DEF FindForSet, PhaseOf
  <2>2. CASE Goto(h, "create")
    <3>1. Moved(h, "create", handler[h].row)
      BY <1>b, <2>2, GotoMoves DEF HandlerPc
    <3>2. PhaseOf(h)' = PhaseOf(h)
      BY <2>1, <3>1 DEF Moved, PhaseOf
    <3> QED
      BY <2>1, <3>1, <3>2, Stutters
  <2>3. ASSUME NEW a \in ActiveRows(handler[h].key), Hold(h, "refresh", a) PROVE Goal
    <3>1. Moved(h, "refresh", a)
      BY <1>b, <2>3, HoldMoves DEF HandlerPc, ActiveRows
    <3>2. Register!Raise(h)
      BY <2>1, <2>3, <3>1, MeetsActive
    <3> QED
      BY <3>2 DEF Register!RegNext
  <2> QED
    BY <1>2, <2>2, <2>3 DEF FindForSet
<1>3. ASSUME NEW h \in Handler, Create(h) PROVE Goal
  <2> DEFINE k == handler[h].key
  <2>1. PhaseOf(h) = "pending" /\ handler[h].op = "SET" /\ k \in Key
    BY <1>b, <1>3 DEF Create, Insert, PhaseOf, BranchOK, TypeOK, HandlerState
  <2>2. CASE ActiveRows(k) # {} /\ Goto(h, "winner") /\ UNCHANGED rowVars
    <3>1. Moved(h, "winner", handler[h].row)
      BY <1>b, <2>2, GotoMoves DEF HandlerPc
    <3>2. Register!Raise(h)
      BY <2>1, <2>2, <3>1, MeetsActive
    <3> QED
      BY <3>2 DEF Register!RegNext
  <2>3. CASE Finish(h, "failed") /\ UNCHANGED rowVars
    <3>1. Moved(h, "failed", NoRow)
      BY <1>b, <2>3, FinishMoves DEF Resting
    <3>2. Register!Reject(h)
      BY <2>1, <2>3, <3>1, Rejects
    <3> QED
      BY <3>2 DEF Register!RegNext
  <2>4. ASSUME ActiveRows(k) = {}, Finish(h, "done"), NEW a \in AlarmId,
               condition[a] = "unused", condition' = [condition EXCEPT ![a] = "ACTIVE"],
               keyOf' = [keyOf EXCEPT ![a] = k]
        PROVE  Goal
    <3>1. Moved(h, "done", NoRow)
      BY <1>b, <2>4, FinishMoves DEF Resting
    <3>2. \A l \in Key : ActiveRows(l)' # {} <=> (ActiveRows(l) # {} \/ l = k)
      BY <1>b, <2>4 DEF ActiveRows, TypeOK
    <3>3. RaisedBar' = [RaisedBar EXCEPT ![k] = TRUE]
      BY <2>1, <3>2 DEF RaisedBar
    <3>4. \A b \in AlarmId : condition[b] # "unused" => condition'[b] = condition[b]
      BY <1>b, <2>4 DEF TypeOK
    <3>5. \A g \in Handler : g # h => handler'[g] = handler[g] /\ PhaseOf(g)' = PhaseOf(g)
      BY <1>b, <3>1, <3>4, SamePhase DEF Moved
    <3>6. PhaseOf(h)' = "applied" /\ handler'[h].key = k /\ handler'[h].op = handler[h].op
      BY <3>1 DEF Moved, PhaseOf
    <3>7. CallBar' = [CallBar EXCEPT ![h].phase = "applied"]
      BY <3>5, <3>6 DEF CallBar
    <3>8. Register!Raise(h)
      BY <1>c, <2>1, <3>3, <3>7 DEF Register!Raise
    <3> QED
      BY <3>8 DEF Register!RegNext
  <2> QED
    BY <1>3, <2>2, <2>3, <2>4 DEF Create, Insert
<1>4. ASSUME NEW h \in Handler, FindWinner(h) PROVE Goal
  <2>1. UNCHANGED rowVars /\ PhaseOf(h) = "applied"
    BY <1>4 DEF FindWinner, PhaseOf
  <2>2. ASSUME NEW a \in ActiveRows(handler[h].key), Hold(h, "refresh", a) PROVE Goal
    <3>1. Moved(h, "refresh", a)
      BY <1>b, <2>2, HoldMoves DEF HandlerPc, ActiveRows
    <3>2. PhaseOf(h)' = PhaseOf(h)
      BY <2>1, <3>1 DEF Moved, PhaseOf
    <3> QED
      BY <2>1, <3>1, <3>2, Stutters
  <2>3. CASE Finish(h, "failed")
    <3>1. Moved(h, "failed", NoRow)
      BY <1>b, <2>3, FinishMoves DEF Resting
    <3> QED
      BY <2>1, <3>1, Rejects DEF Register!RegNext
  <2> QED
    BY <1>4, <2>2, <2>3 DEF FindWinner
<1>5. ASSUME NEW h \in Handler, Refresh(h) PROVE Goal
  <2>1. UNCHANGED rowVars /\ PhaseOf(h) = "applied"
    BY <1>5 DEF Refresh, PhaseOf
  <2>2. CASE Finish(h, "done")
    <3>1. Moved(h, "done", NoRow)
      BY <1>b, <2>2, FinishMoves DEF Resting
    <3>2. PhaseOf(h)' = PhaseOf(h)
      BY <2>1, <3>1 DEF Moved, PhaseOf
    <3> QED
      BY <2>1, <3>1, <3>2, Stutters
  <2>3. CASE Finish(h, "failed")
    <3>1. Moved(h, "failed", NoRow)
      BY <1>b, <2>3, FinishMoves DEF Resting
    <3> QED
      BY <2>1, <3>1, Rejects DEF Register!RegNext
  <2> QED
    BY <1>5, <2>2, <2>3 DEF Refresh
<1>6. ASSUME NEW h \in Handler, FindForClear(h) PROVE Goal
  <2>1. UNCHANGED rowVars /\ PhaseOf(h) = "pending" /\ handler[h].op = "CLEAR"
    BY <1>6 DEF FindForClear, PhaseOf
  <2>2. ASSUME NEW a \in ActiveRows(handler[h].key), Hold(h, "close", a) PROVE Goal
    <3>1. Moved(h, "close", a)
      BY <1>b, <2>2, HoldMoves DEF HandlerPc, ActiveRows
    <3>2. PhaseOf(h)' = PhaseOf(h)
      BY <2>1, <2>2, <3>1 DEF Moved, PhaseOf, ActiveRows, rowVars
    <3> QED
      BY <2>1, <3>1, <3>2, Stutters
  <2>3. CASE ActiveRows(handler[h].key) = {} /\ Finish(h, "done")
    <3> DEFINE ks == {handler[h].key}
    <3>1. Moved(h, "done", NoRow)
      BY <1>b, <2>3, FinishMoves DEF Resting
    <3>2. PhaseOf(h)' = "applied"
      BY <3>1 DEF Moved, PhaseOf
    <3>3. RaisedBar' = RaisedBar /\ CallBar' = [CallBar EXCEPT ![h].phase = "applied"]
      BY <1>b, <2>1, <3>1, <3>2, MoveBar
    <3>4. RaisedBar' = [k \in Key |-> RaisedBar[k] /\ k \notin ks]
      BY <2>3, <3>3 DEF RaisedBar
    <3>5. {h} \in SUBSET Register!PendingClears(ks)
      BY <1>c, <2>1 DEF Register!PendingClears
    <3>6. CallBar' = [g \in Handler |->
                        IF g \in {h} THEN [CallBar[g] EXCEPT !.phase = "applied"] ELSE CallBar[g]]
      BY <3>3 DEF CallBar
    <3>7. ks \in SUBSET Key
      BY <1>b DEF TypeOK, HandlerState
    <3>8. Register!Lower(ks)
      BY <3>4, <3>5, <3>6 DEF Register!Lower
    <3> QED
      BY <3>7, <3>8 DEF Register!RegNext
  <2> QED
    BY <1>6, <2>2, <2>3 DEF FindForClear
<1>7. ASSUME NEW h \in Handler, Close(h) PROVE Goal
  <2>1. handler[h].pc = "close"
    BY <1>7 DEF Close
  <2>2. CASE Stored(handler[h].row) /\ condition[handler[h].row] = "ACTIVE"
    <3>1. Moved(h, "done", NoRow) /\ condition' = [condition EXCEPT ![handler[h].row] = "CLEARED"]
      BY <1>b, <1>7, <2>2, FinishMoves DEF Close, Resting
    <3>2. \A a \in AlarmId : Ages(a)
      BY <1>b, <1>7, <2>2, <3>1 DEF Close, Ages, Stored, TypeOK
    <3>3. condition'[handler[h].row] # "ACTIVE"
      BY <1>b, <2>1, <3>1 DEF HeldRowIsOwn, TypeOK
    <3>4. \A g \in Handler :
            \/ handler'[g] = handler[g]
            \/ /\ handler[g].pc = "close" /\ handler'[g].pc = "done"
               /\ handler'[g].key = handler[g].key /\ handler'[g].op = handler[g].op
               /\ condition'[handler[g].row] # "ACTIVE"
      BY <2>1, <3>1, <3>3 DEF Moved
    <3> QED
      BY <3>2, <3>4, LowerBar DEF Register!RegNext
  <2>3. CASE Stored(handler[h].row) /\ condition[handler[h].row] # "ACTIVE"
    <3>1. Moved(h, "done", NoRow)
      BY <1>b, <1>7, <2>3, FinishMoves DEF Close, Resting
    <3>2. UNCHANGED rowVars
      BY <1>b, <1>7, <2>3 DEF Close, Stored, TypeOK, rowVars
    <3>3. PhaseOf(h)' = PhaseOf(h)
      BY <2>1, <2>3, <3>1 DEF Moved, PhaseOf
    <3> QED
      BY <3>1, <3>2, <3>3, Stutters
  <2>4. CASE ~ Stored(handler[h].row)
    <3>1. Moved(h, "failed", NoRow) /\ UNCHANGED rowVars
      BY <1>b, <1>7, <2>4, FinishMoves DEF Close, Resting, rowVars
    <3>2. PhaseOf(h) = "applied"
      BY <2>1, <2>4 DEF PhaseOf, Stored
    <3> QED
      BY <3>1, <3>2, Rejects DEF Register!RegNext
  <2> QED
    BY <2>2, <2>3, <2>4
<1>8. ASSUME NEW h \in Handler, StatementFails(h) PROVE Goal
  <2>1. Moved(h, "failed", NoRow) /\ UNCHANGED rowVars
    BY <1>b, <1>8, FinishMoves DEF StatementFails, Resting
  <2>2. PhaseOf(h) \in {"pending", "applied"}
    BY <1>b, <1>8 DEF StatementFails, PhaseOf, TypeOK, HandlerState, HandlerPc, Resting
  <2> QED
    BY <2>1, <2>2, Rejects DEF Register!RegNext
<1>9. ASSUME NEW o \in Operator, NEW kind \in RequestKind, NEW a \in AlarmId,
             OpenRequest(o, kind, a)
      PROVE  Goal
  BY <1>9 DEF OpenRequest, RaisedBar, CallBar, PhaseOf, ActiveRows, rowVars
<1>10. ASSUME NEW o \in Operator, WriteRequest(o) PROVE Goal
  <2>1. \A a \in AlarmId : Ages(a)
    BY <1>b, <1>10 DEF WriteRequest, Ages, Stored, TypeOK
  <2> QED
    BY <1>10, <2>1, LowerBar DEF WriteRequest, Register!RegNext
<1>11. ASSUME NEW o \in Olt, RemoveOlt(o) PROVE Goal
  <2>1. \A a \in AlarmId : Ages(a)
    BY <1>b, <1>11 DEF RemoveOlt, Ages, Stored, TypeOK
  <2> QED
    BY <1>11, <2>1, LowerBar DEF RemoveOlt, Register!RegNext
<1>12. CASE Crash
  <2>1. ASSUME NEW h \in Handler
        PROVE  /\ handler'[h].pc = "idle" /\ handler'[h].key = handler[h].key
               /\ handler'[h].op = handler[h].op
    <3>1. handler'[h] = [handler[h] EXCEPT !.pc = "idle", !.row = NoRow]
      BY <1>12 DEF Crash
    <3>2. handler[h] \in HandlerState
      BY <1>b DEF TypeOK
    <3> QED
      BY <3>1, <3>2 DEF HandlerState
  <2>2. CallBar' = [h \in Handler |-> [CallBar[h] EXCEPT !.phase = "idle"]]
    BY <2>1 DEF CallBar, PhaseOf
  <2>3. Register!Forget
    BY <1>12, <2>2, StillRaised DEF Crash, Register!Forget
  <2> QED
    BY <2>3 DEF Register!RegNext
<1>13. CASE UNCHANGED vars
  BY <1>13 DEF vars, rowVars, RaisedBar, CallBar, PhaseOf, ActiveRows
<1> QED
  BY <1>1, <1>2, <1>3, <1>4, <1>5, <1>6, <1>7, <1>8, <1>9, <1>10, <1>11, <1>12, <1>13
     DEF Next, HandlerStep

\* AlarmIngest implements AlarmRegister: for any number of concurrent handlers,
\* operators and OLT removals, every ingest behaves as one atomic SET or CLEAR.
THEOREM Linearizable == Spec => LinearizableIngest
<1>1. Init => Register!RegInit
  BY RefineInit
<1>2. Inv /\ Inv' /\ [Next]_vars => [Register!RegNext]_(Register!regVars)
  BY RefineStep
<1> QED
  BY <1>1, <1>2, Invariance, PTL DEF Spec, LinearizableIngest, Register!RegSpec
=============================================================================
