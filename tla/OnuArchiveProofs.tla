--------------------------- MODULE OnuArchiveProofs ---------------------------
(***************************************************************************)
(* Theorems about OnuArchive for every set of handlers, walks, ids and     *)
(* rows.  None of the three properties is inductive: what a transaction    *)
(* commits was chosen several statements earlier, from what each statement *)
(* saw.  The strengthening says what is known in between: what a walk      *)
(* holds is still linked to its ONU (HeldOK), and what it holds is all     *)
(* that is linked to it but for the rows stored since (CollectedOK).       *)
(***************************************************************************)
EXTENDS OnuArchive, TLAPS

\* Every id held anywhere is the id of an ONU that was registered.
IdsOK ==
    /\ onu \in used \cup {None}
    /\ \A h \in Handler : handler[h].onu \in used \cup {None}
    /\ \A w \in Walk : walk[w].pc # "idle" => walk[w].onu \in used
    /\ \A r \in RowId : row[r].owner \in used \cup {None}

\* An archived row is linked to no ONU; a row of the present ONU is linked to it.
LinksOK ==
    \A r \in RowId :
      /\ row[r].removed # None => row[r].onu = None
      /\ row[r].owner \in {onu} \ {None} => row[r].onu = row[r].owner

\* Walk w is in a transaction that can still commit.
Runs(w) == InTransaction(w) /\ walk[w].onu = onu

HeldOK ==
    \A w \in Walk :
      /\ walk[w].pc = "begin" => walk[w].closed = {} /\ walk[w].moved = {}
      /\ Runs(w) => \A r \in walk[w].closed \cup walk[w].moved : row[r].onu = onu

\* What the statements of walk w run so far must have caught of row r.
Collected(w, r) ==
    /\ walk[w].pc \in {"relink", "events", "delete"} /\ row[r].state = "ACTIVE" =>
         r \in walk[w].closed
    /\ walk[w].pc \in {"events", "delete"} /\ row[r].state \in {"ACTIVE", "CLEARED"} =>
         r \in walk[w].moved
    /\ walk[w].pc = "delete" /\ row[r].state = "event" => r \in walk[w].moved

CollectedOK ==
    \A w \in Walk, r \in RowId :
      Runs(w) /\ row[r].onu = onu /\ ~row[r].late => Collected(w, r)

\* A row that was never written is linked to nothing.
UnusedOK == \A r \in RowId : row[r].state = "unused" => row[r].onu = None

Inv ==
    /\ TypeOK
    /\ IdsOK
    /\ LinksOK
    /\ HeldOK
    /\ CollectedOK
    /\ UnusedOK
    /\ ArchivedOnce
    /\ HistoryNotMixed
    /\ HistoryFollowsOnu

----------------------------------------------------------------------------
\* The initial states satisfy the inductive invariant.
LEMMA InitInv == Init => Inv
BY NoneAssumption
   DEF Init, Inv, TypeOK, IdsOK, LinksOK, HeldOK, CollectedOK, UnusedOK, ArchivedOnce,
       HistoryNotMixed, HistoryFollowsOnu, Gone, Runs, InTransaction, Unused, NoTrap, NoWalk,
       Link, RowState, HandlerState, WalkPc, WalkState

----------------------------------------------------------------------------
(* What the actions do to one slot or one row, in a form the steps use.    *)

\* Walk w is at p, for the ONU o, holding the rows c to close and m to move.
WalkBecomes(w, p, o, c, m) ==
    /\ walk' \in [Walk -> WalkState]
    /\ walk'[w].pc = p
    /\ walk'[w].onu = o
    /\ walk'[w].closed = c
    /\ walk'[w].moved = m
    /\ \A v \in Walk : v # w => walk'[v] = walk[v]

\* The slot of a walk after a statement of its transaction.
LEMMA WalkMoves ==
    ASSUME TypeOK, NEW w \in Walk, NEW p \in WalkPc,
           NEW c \in SUBSET RowId, NEW m \in SUBSET RowId,
           walk' = [walk EXCEPT ![w] = [walk[w] EXCEPT !.pc = p, !.closed = c, !.moved = m]]
    PROVE  WalkBecomes(w, p, walk[w].onu, c, m)
<1> DEFINE new == [walk[w] EXCEPT !.pc = p, !.closed = c, !.moved = m]
<1>1. walk[w] \in WalkState /\ walk \in [Walk -> WalkState]
  BY DEF TypeOK
<1>2. /\ new.pc = p /\ new.onu = walk[w].onu /\ new.closed = c /\ new.moved = m
      /\ new \in WalkState
  BY <1>1 DEF WalkState
<1>3. walk' = [walk EXCEPT ![w] = new]
  OBVIOUS
<1> HIDE DEF new
<1> QED
  BY <1>1, <1>2, <1>3 DEF WalkBecomes

\* ListRemoved gives an idle slot its ONU, Abort and the commit empty it.
LEMMA WalkLists ==
    ASSUME TypeOK, NEW w \in Walk, ListRemoved(w)
    PROVE  WalkBecomes(w, "begin", onu, {}, {})
<1> DEFINE new == [NoWalk EXCEPT !.pc = "begin", !.onu = onu]
<1>1. /\ new.pc = "begin" /\ new.onu = onu /\ new.closed = {} /\ new.moved = {}
      /\ new \in WalkState
  BY DEF TypeOK, NoWalk, WalkState, WalkPc, Link
<1>2. walk' = [walk EXCEPT ![w] = new]
  BY DEF ListRemoved
<1> HIDE DEF new
<1> QED
  BY <1>1, <1>2 DEF WalkBecomes, TypeOK

LEMMA WalkStops ==
    ASSUME TypeOK, NEW w \in Walk, walk' = [walk EXCEPT ![w] = NoWalk]
    PROVE  WalkBecomes(w, "idle", None, {}, {})
<1>1. /\ NoWalk.pc = "idle" /\ NoWalk.onu = None /\ NoWalk.closed = {} /\ NoWalk.moved = {}
      /\ NoWalk \in WalkState
  BY DEF NoWalk, WalkState, WalkPc, Link
<1> QED
  BY <1>1 DEF WalkBecomes, TypeOK

\* The four statements of a transaction before the delete.
WalkStatement(w) ==
    CreateArchive(w) \/ CloseAlarms(w) \/ RelinkAlarms(w) \/ RelinkEvents(w)

\* Each of them goes one statement further and may catch rows linked to its ONU.
Catches(w, p, c, m) ==
    /\ WalkBecomes(w, p, walk[w].onu, c, m)
    /\ UNCHANGED <<onu, used, archives, row, handler>>
    /\ \/ /\ walk[w].pc = "begin" /\ p = "close"
          /\ c = walk[w].closed /\ m = walk[w].moved
       \/ /\ walk[w].pc = "close" /\ p = "relink"
          /\ c = {r \in RowId : row[r].state = "ACTIVE" /\ row[r].onu = walk[w].onu}
          /\ m = walk[w].moved
       \/ /\ walk[w].pc = "relink" /\ p = "events"
          /\ c = walk[w].closed
          /\ m = {r \in RowId : row[r].onu = walk[w].onu
                               /\ row[r].state \in {"ACTIVE", "CLEARED"}}
       \/ /\ walk[w].pc = "events" /\ p = "delete"
          /\ c = walk[w].closed
          /\ m = walk[w].moved
                  \cup {r \in RowId : row[r].onu = walk[w].onu /\ row[r].state = "event"}

LEMMA StatementMoves ==
    ASSUME TypeOK, NEW w \in Walk, WalkStatement(w)
    PROVE  \E p \in WalkPc, c \in SUBSET RowId, m \in SUBSET RowId : Catches(w, p, c, m)
<1> DEFINE T(p, c, m) == [walk[w] EXCEPT !.pc = p, !.closed = c, !.moved = m]
           A == {r \in RowId : row[r].state = "ACTIVE" /\ row[r].onu = walk[w].onu}
           B == {r \in RowId : row[r].onu = walk[w].onu /\ row[r].state \in {"ACTIVE", "CLEARED"}}
           C == walk[w].moved
                \cup {r \in RowId : row[r].onu = walk[w].onu /\ row[r].state = "event"}
           c0 == walk[w].closed
           m0 == walk[w].moved
<1>1. /\ walk[w] \in WalkState /\ walk \in [Walk -> WalkState]
      /\ c0 \in SUBSET RowId /\ m0 \in SUBSET RowId
      /\ A \in SUBSET RowId /\ B \in SUBSET RowId /\ C \in SUBSET RowId
  BY DEF TypeOK, WalkState
<1>2. CASE CreateArchive(w)
  <2>1. [walk[w] EXCEPT !.pc = "close"] = T("close", c0, m0)
    BY <1>1 DEF WalkState
  <2>2. walk' = [walk EXCEPT ![w] = T("close", c0, m0)]
    BY <1>2, <2>1 DEF CreateArchive
  <2>3. WalkBecomes(w, "close", walk[w].onu, c0, m0)
    BY <1>1, <2>2, WalkMoves DEF WalkPc
  <2> QED
    BY <1>1, <1>2, <2>3 DEF CreateArchive, Catches, At, WalkPc
<1>3. CASE CloseAlarms(w)
  <2>1. [walk[w] EXCEPT !.pc = "relink", !.closed = A] = T("relink", A, m0)
    BY <1>1 DEF WalkState
  <2>2. walk' = [walk EXCEPT ![w] = T("relink", A, m0)]
    BY <1>3, <2>1 DEF CloseAlarms, ActiveRows
  <2>3. WalkBecomes(w, "relink", walk[w].onu, A, m0)
    BY <1>1, <2>2, WalkMoves DEF WalkPc
  <2> QED
    BY <1>1, <1>3, <2>3 DEF CloseAlarms, Catches, At, WalkPc
<1>4. CASE RelinkAlarms(w)
  <2>1. [walk[w] EXCEPT !.pc = "events", !.moved = B] = T("events", c0, B)
    BY <1>1 DEF WalkState
  <2>2. walk' = [walk EXCEPT ![w] = T("events", c0, B)]
    BY <1>4, <2>1 DEF RelinkAlarms
  <2>3. WalkBecomes(w, "events", walk[w].onu, c0, B)
    BY <1>1, <2>2, WalkMoves DEF WalkPc
  <2> QED
    BY <1>1, <1>4, <2>3 DEF RelinkAlarms, Catches, At, WalkPc
<1>5. CASE RelinkEvents(w)
  <2>1. walk' = [walk EXCEPT ![w] = [walk[w] EXCEPT !.pc = "delete", !.moved = C]]
    BY <1>5 DEF RelinkEvents
  <2>2. [walk[w] EXCEPT !.pc = "delete", !.moved = C] = T("delete", c0, C)
    BY <1>1 DEF WalkState
  <2>3. walk' = [walk EXCEPT ![w] = T("delete", c0, C)]
    BY <2>1, <2>2
  <2>4. WalkBecomes(w, "delete", walk[w].onu, c0, C)
    BY <1>1, <2>3, WalkMoves DEF WalkPc
  <2> QED
    BY <1>1, <1>5, <2>4 DEF RelinkEvents, Catches, At, WalkPc
<1> QED
  BY <1>2, <1>3, <1>4, <1>5 DEF WalkStatement

\* Row r changes to the record t, the others stay.
RowBecomes(r, t) ==
    /\ row' \in [RowId -> RowState]
    /\ row'[r] = t
    /\ \A q \in RowId : q # r => row'[q] = row[q]

\* A trap or an operator clears row r.
Cleared(r) ==
    [state |-> "CLEARED", onu |-> row[r].onu, removed |-> row[r].removed,
     owner |-> row[r].owner, late |-> row[r].late]

LEMMA RowClears ==
    ASSUME TypeOK, NEW r \in RowId, row' = [row EXCEPT ![r].state = "CLEARED"]
    PROVE  RowBecomes(r, Cleared(r))
<1> DEFINE new == [row[r] EXCEPT !.state = "CLEARED"]
<1>1. row[r] \in RowState /\ row \in [RowId -> RowState]
  BY DEF TypeOK
<1>2. new = Cleared(r) /\ new \in RowState
  BY <1>1 DEF RowState, Cleared
<1>3. row' = [row EXCEPT ![r] = new]
  OBVIOUS
<1> HIDE DEF new, Cleared
<1> QED
  BY <1>1, <1>2, <1>3 DEF RowBecomes

\* The record Insert writes.
Inserted(h, state) ==
    [state |-> state, onu |-> handler[h].onu, removed |-> None, owner |-> handler[h].onu,
     late |-> handler[h].onu # None
              /\ \E w \in Walk : InTransaction(w) /\ walk[w].onu = handler[h].onu]

LEMMA RowInserted ==
    ASSUME TypeOK, NEW h \in Handler, NEW r \in RowId, NEW state \in {"ACTIVE", "event"},
           Insert(h, r, state)
    PROVE  RowBecomes(r, Inserted(h, state))
<1>1. handler[h].onu \in Link
  BY DEF TypeOK, HandlerState
<1>2. Inserted(h, state) \in RowState
  BY <1>1 DEF RowState, Inserted, Link
<1>3. row' = [row EXCEPT ![r] = Inserted(h, state)]
  BY DEF Insert, Inserted
<1> QED
  BY <1>2, <1>3 DEF RowBecomes, TypeOK

\* The rows after the commit of walk w.
LEMMA RowsArchived ==
    ASSUME TypeOK, NEW w \in Walk, row' = [r \in RowId |-> Archived(w, r)]
    PROVE  /\ row' \in [RowId -> RowState]
           /\ \A r \in RowId :
                /\ row'[r].state = IF r \in walk[w].closed THEN "CLEARED" ELSE row[r].state
                /\ row'[r].onu = IF row[r].onu = walk[w].onu THEN None ELSE row[r].onu
                /\ row'[r].removed = IF r \in walk[w].moved THEN walk[w].onu ELSE row[r].removed
                /\ row'[r].owner = row[r].owner
                /\ row'[r].late = row[r].late
<1> SUFFICES ASSUME NEW r \in RowId
    PROVE  /\ Archived(w, r) \in RowState
           /\ Archived(w, r).state = IF r \in walk[w].closed THEN "CLEARED" ELSE row[r].state
           /\ Archived(w, r).onu = IF row[r].onu = walk[w].onu THEN None ELSE row[r].onu
           /\ Archived(w, r).removed = IF r \in walk[w].moved THEN walk[w].onu ELSE row[r].removed
           /\ Archived(w, r).owner = row[r].owner
           /\ Archived(w, r).late = row[r].late
  OBVIOUS
<1>1. row[r] \in RowState /\ walk[w].onu \in Link
  BY DEF TypeOK, WalkState
<1> QED
  BY <1>1 DEF Archived, RowState, Link

\* The slot of a handler.
HandlerBecomes(h, o) ==
    /\ handler' \in [Handler -> HandlerState]
    /\ handler'[h].onu = o
    /\ \A g \in Handler : g # h => handler'[g] = handler[g]

LEMMA HandlerReceives ==
    ASSUME TypeOK, NEW h \in Handler, NEW kind \in {"SET", "CLEAR", "EVENT"}, Receive(h, kind)
    PROVE  HandlerBecomes(h, None)
BY DEF TypeOK, Receive, HandlerBecomes, HandlerState, Link

LEMMA HandlerResolves ==
    ASSUME TypeOK, NEW h \in Handler, ResolveOnu(h)
    PROVE  HandlerBecomes(h, onu)
<1> DEFINE new == [handler[h] EXCEPT !.pc = "store", !.onu = onu]
<1>1. handler[h] \in HandlerState /\ handler \in [Handler -> HandlerState] /\ onu \in Link
  BY DEF TypeOK
<1>2. new \in HandlerState /\ new.onu = onu
  BY <1>1 DEF HandlerState
<1>3. handler' = [handler EXCEPT ![h] = new]
  BY DEF ResolveOnu
<1> HIDE DEF new
<1> QED
  BY <1>1, <1>2, <1>3 DEF HandlerBecomes

LEMMA HandlerEnds ==
    ASSUME TypeOK, NEW h \in Handler, Ends(h)
    PROVE  HandlerBecomes(h, None)
BY DEF TypeOK, Ends, HandlerBecomes, NoTrap, HandlerState, Link

\* No step changes the types of the state.
LEMMA TypeStep == TypeOK /\ [Next]_vars => TypeOK'
<1> SUFFICES ASSUME TypeOK, [Next]_vars PROVE TypeOK'
  OBVIOUS
<1>1. ASSUME NEW o \in OnuId, Register(o) PROVE TypeOK'
  BY <1>1 DEF Register, TypeOK, Link
<1>2. ASSUME NEW h \in Handler, NEW kind \in {"SET", "CLEAR", "EVENT"}, Receive(h, kind)
      PROVE  TypeOK'
  BY <1>2, HandlerReceives DEF Receive, TypeOK, HandlerBecomes
<1>3. ASSUME NEW h \in Handler, ResolveOnu(h) PROVE TypeOK'
  BY <1>3, HandlerResolves DEF ResolveOnu, TypeOK, HandlerBecomes
<1>4. ASSUME NEW h \in Handler, Store(h) PROVE TypeOK'
  <2>1. handler' \in [Handler -> HandlerState]
    BY <1>4, HandlerEnds DEF Store, HandlerBecomes
  <2>2. row' \in [RowId -> RowState]
    BY <1>4, RowInserted DEF Store, RowBecomes, TypeOK
  <2> QED
    BY <1>4, <2>1, <2>2 DEF Store, TypeOK
<1>5. ASSUME NEW h \in Handler, StoreClear(h) PROVE TypeOK'
  <2>1. handler' \in [Handler -> HandlerState]
    BY <1>5, HandlerEnds DEF StoreClear, HandlerBecomes
  <2>2. row' \in [RowId -> RowState]
    BY <1>5, RowClears DEF StoreClear, RowBecomes, TypeOK, ActiveRows
  <2> QED
    BY <1>5, <2>1, <2>2 DEF StoreClear, TypeOK
<1>6. ASSUME NEW r \in RowId, OperatorClears(r) PROVE TypeOK'
  BY <1>6, RowClears DEF OperatorClears, RowBecomes, TypeOK
<1>7. ASSUME NEW w \in Walk, ListRemoved(w) PROVE TypeOK'
  BY <1>7, WalkLists DEF ListRemoved, WalkBecomes, TypeOK
<1>8. ASSUME NEW w \in Walk, WalkStatement(w) PROVE TypeOK'
  BY <1>8, StatementMoves DEF Catches, WalkBecomes, TypeOK
<1>9. ASSUME NEW w \in Walk, DeleteAndCommit(w) PROVE TypeOK'
  <2>1. walk' \in [Walk -> WalkState]
    BY <1>9, WalkStops DEF DeleteAndCommit, WalkBecomes
  <2>2. row' \in [RowId -> RowState]
    BY <1>9, RowsArchived DEF DeleteAndCommit, TypeOK
  <2>3. onu' \in Link /\ archives' \in [OnuId -> Nat]
    BY <1>9 DEF DeleteAndCommit, TypeOK, Link
  <2> QED
    BY <1>9, <2>1, <2>2, <2>3 DEF DeleteAndCommit, TypeOK
<1>10. ASSUME NEW w \in Walk, Abort(w) PROVE TypeOK'
  BY <1>10, WalkStops DEF Abort, WalkBecomes, TypeOK
<1>11. ASSUME Crash PROVE TypeOK'
  BY <1>11 DEF Crash, TypeOK, NoTrap, NoWalk, HandlerState, WalkState, WalkPc, Link
<1>12. ASSUME UNCHANGED vars PROVE TypeOK'
  BY <1>12 DEF vars, TypeOK
<1> QED
  BY <1>1, <1>2, <1>3, <1>4, <1>5, <1>6, <1>7, <1>8, <1>9, <1>10, <1>11, <1>12
     DEF Next, WalkStatement

----------------------------------------------------------------------------
(* One lemma per kind of step.                                             *)

\* An ONU that registers has an id nothing refers to yet: no transaction under
\* way is for it, no row is its own.
LEMMA RegisterKeepsInv ==
    ASSUME Inv, NEW o \in OnuId, Register(o), TypeOK' PROVE Inv'
<1> USE DEF Register
<1>1. /\ onu' = o /\ o # None /\ o \notin used /\ used' = used \cup {o}
      /\ UNCHANGED <<archives, row, handler, walk>> /\ onu = None
  BY NoneAssumption
<1>2. IdsOK /\ LinksOK /\ HeldOK /\ CollectedOK /\ UnusedOK
      /\ ArchivedOnce /\ HistoryNotMixed /\ HistoryFollowsOnu
  BY DEF Inv
<1>3. IdsOK'
  BY <1>1, <1>2 DEF IdsOK
<1>4. LinksOK'
  BY <1>1, <1>2 DEF LinksOK, IdsOK
<1>5. \A w \in Walk : ~Runs(w)'
  BY <1>1, <1>2 DEF Runs, InTransaction, IdsOK
<1>6. HeldOK' /\ CollectedOK' /\ UnusedOK'
  BY <1>1, <1>2, <1>5 DEF HeldOK, CollectedOK, UnusedOK
<1>7. ArchivedOnce'
  BY <1>1, <1>2, NoneAssumption DEF Inv, ArchivedOnce, Gone, TypeOK
<1>8. HistoryNotMixed'
  BY <1>1, <1>2 DEF HistoryNotMixed
<1>9. HistoryFollowsOnu'
  BY <1>1, <1>2, NoneAssumption DEF Inv, HistoryFollowsOnu, Gone, IdsOK, TypeOK
<1> QED
  BY <1>3, <1>4, <1>6, <1>7, <1>8, <1>9 DEF Inv

\* A step of one handler alone keeps ids that are registered.
LEMMA HandlerKeepsInv ==
    ASSUME Inv, NEW h \in Handler, NEW o \in used \cup {None}, HandlerBecomes(h, o),
           UNCHANGED <<onu, used, archives, row, walk>>, TypeOK'
    PROVE  Inv'
<1>1. IdsOK'
  BY DEF Inv, IdsOK, HandlerBecomes
<1> QED
  BY <1>1 DEF Inv, LinksOK, HeldOK, CollectedOK, Collected, UnusedOK, ArchivedOnce, Gone, Runs,
              InTransaction, HistoryNotMixed, HistoryFollowsOnu

\* A row that is cleared while no transaction holds it: what a transaction must
\* have caught of it, it already held.
LEMMA ClearKeepsInv ==
    ASSUME Inv, NEW r \in RowId, row[r].state = "ACTIVE", ~Locked(r), RowBecomes(r, Cleared(r)),
           UNCHANGED <<onu, used, archives, walk>>, IdsOK', TypeOK'
    PROVE  Inv'
<1>1. /\ row'[r].state = "CLEARED" /\ row'[r].onu = row[r].onu
      /\ row'[r].removed = row[r].removed
      /\ row'[r].owner = row[r].owner /\ row'[r].late = row[r].late
      /\ \A q \in RowId : q # r => row'[q] = row[q]
  BY DEF RowBecomes, Cleared
<1>2. LinksOK' /\ UnusedOK' /\ HistoryNotMixed'
  BY <1>1 DEF Inv, LinksOK, UnusedOK, HistoryNotMixed
<1>3. HeldOK'
  BY <1>1 DEF Inv, HeldOK, Runs, InTransaction, TypeOK, WalkState
<1>4. CollectedOK'
  <2> SUFFICES ASSUME NEW w \in Walk, NEW q \in RowId, Runs(w)', row'[q].onu = onu', ~row'[q].late
               PROVE  Collected(w, q)'
    BY DEF CollectedOK
  <2>1. Runs(w) /\ row[q].onu = onu /\ ~row[q].late
    BY <1>1 DEF Runs, InTransaction
  <2>2. Collected(w, q)
    BY <2>1 DEF Inv, CollectedOK
  <2>3. CASE q = r
    <3>1. r \notin walk[w].closed /\ InTransaction(w)
      BY <2>1 DEF Locked, Runs
    <3> QED
      BY <1>1, <2>2, <2>3, <3>1 DEF Collected, InTransaction
  <2>4. CASE q # r
    BY <1>1, <2>2, <2>4 DEF Collected
  <2> QED
    BY <2>3, <2>4
<1>5. ArchivedOnce'
  BY DEF Inv, ArchivedOnce, Gone
<1>6. HistoryFollowsOnu'
  BY <1>1 DEF Inv, HistoryFollowsOnu, Gone
<1> QED
  BY <1>2, <1>3, <1>4, <1>5, <1>6 DEF Inv

\* A row inserted for the present ONU is late for the transactions under way;
\* the foreign key keeps out one of an ONU that is gone.
LEMMA InsertKeepsInv ==
    ASSUME Inv, NEW h \in Handler, NEW r \in RowId, NEW state \in {"ACTIVE", "event"},
           row[r] = Unused, handler[h].onu \in {None, onu},
           RowBecomes(r, Inserted(h, state)),
           UNCHANGED <<onu, used, archives, walk>>, TypeOK',
           \A g \in Handler : handler'[g].onu \in used \cup {None}
    PROVE  Inv'
<1> DEFINE o == handler[h].onu
           late == o # None /\ \E w \in Walk : InTransaction(w) /\ walk[w].onu = o
<1>0. row'[r] = Inserted(h, state) /\ \A q \in RowId : q # r => row'[q] = row[q]
  BY DEF RowBecomes
<1>1. /\ row'[r].state = state /\ row'[r].onu = o /\ row'[r].removed = None
      /\ row'[r].owner = o
      /\ o # None /\ (\E w \in Walk : Runs(w)) => row'[r].late
      /\ \A q \in RowId : q # r => row'[q] = row[q]
  <2>1. Inserted(h, state)
          = [state |-> state, onu |-> o, removed |-> None, owner |-> o, late |-> late]
    BY DEF Inserted
  <2>2. o # None /\ (\E w \in Walk : Runs(w)) => late
    BY DEF Runs
  <2> HIDE DEF late, o
  <2>3. row'[r].late = late
    BY <1>0, <2>1
  <2> QED
    BY <1>0, <2>1, <2>2, <2>3
<1>2. row[r].onu = None
  BY DEF Unused
<1>3. o \in {None, onu} /\ onu \in used \cup {None}
  BY DEF Inv, IdsOK
<1> HIDE DEF o
<1>4. IdsOK'
  BY <1>1, <1>3 DEF Inv, IdsOK
<1>5. LinksOK' /\ UnusedOK' /\ HistoryNotMixed'
  BY <1>1, <1>3 DEF Inv, LinksOK, UnusedOK, HistoryNotMixed
<1>6. HeldOK'
  <2> SUFFICES ASSUME NEW w \in Walk, Runs(w), NEW q \in walk[w].closed \cup walk[w].moved
               PROVE  row'[q].onu = onu
    BY DEF Inv, HeldOK, Runs, InTransaction
  <2>1. row[q].onu = onu /\ q \in RowId
    BY DEF Inv, HeldOK, TypeOK, WalkState
  <2>2. onu # None
    BY NoneAssumption DEF Runs, InTransaction, Inv, IdsOK, TypeOK
  <2> QED
    BY <1>1, <1>2, <2>1, <2>2
<1>7. CollectedOK'
  <2> SUFFICES ASSUME NEW w \in Walk, NEW q \in RowId, Runs(w), row'[q].onu = onu, ~row'[q].late
               PROVE  Collected(w, q)'
    BY DEF CollectedOK, Runs, InTransaction
  <2>1. onu # None
    BY NoneAssumption DEF Runs, InTransaction, Inv, IdsOK, TypeOK
  <2>2. q # r
    BY <1>1, <1>3, <2>1
  <2> QED
    BY <1>1, <2>2 DEF Inv, CollectedOK, Collected
<1>8. ArchivedOnce'
  BY DEF Inv, ArchivedOnce, Gone
<1>9. HistoryFollowsOnu'
  BY <1>1, <1>3, NoneAssumption DEF Inv, HistoryFollowsOnu, Gone, TypeOK
<1> QED
  BY <1>4, <1>5, <1>6, <1>7, <1>8, <1>9 DEF Inv

\* A step of one walk alone.  What it catches is linked to its ONU, and is all
\* that is.
LEMMA StatementKeepsInv ==
    ASSUME Inv, NEW w \in Walk, NEW p \in WalkPc, NEW c \in SUBSET RowId,
           NEW m \in SUBSET RowId, Catches(w, p, c, m), TypeOK'
    PROVE  Inv'
<1>1. /\ walk'[w].pc = p /\ walk'[w].onu = walk[w].onu
      /\ walk'[w].closed = c /\ walk'[w].moved = m
      /\ \A v \in Walk : v # w => walk'[v] = walk[v]
      /\ UNCHANGED <<onu, used, archives, row, handler>>
  BY DEF Catches, WalkBecomes
<1>2. IdsOK'
  BY <1>1 DEF Inv, IdsOK, Catches
<1>3. HeldOK'
  <2> SUFFICES ASSUME NEW v \in Walk
               PROVE  /\ walk'[v].pc = "begin" => walk'[v].closed = {} /\ walk'[v].moved = {}
                      /\ Runs(v)' => \A r \in walk'[v].closed \cup walk'[v].moved :
                                        row[r].onu = onu
    BY <1>1 DEF HeldOK
  <2>1. CASE v # w
    BY <1>1, <2>1 DEF Inv, HeldOK, Runs, InTransaction
  <2>2. CASE v = w
    <3>1. p # "begin" /\ (Runs(w)' => walk[w].onu = onu)
      BY <1>1 DEF Catches, Runs
    <3>2. ASSUME walk[w].onu = onu, walk[w].pc # "begin", NEW r \in c \cup m
          PROVE  row[r].onu = onu
      BY <3>2 DEF Catches, Inv, HeldOK, Runs, InTransaction
    <3>3. walk[w].pc = "begin" => c = {} /\ m = {}
      BY DEF Catches, Inv, HeldOK
    <3> QED
      BY <1>1, <2>2, <3>1, <3>2, <3>3
  <2> QED
    BY <2>1, <2>2
<1>4. CollectedOK'
  <2> SUFFICES ASSUME NEW v \in Walk, NEW q \in RowId, Runs(v)', row[q].onu = onu, ~row[q].late
               PROVE  Collected(v, q)'
    BY <1>1 DEF CollectedOK
  <2>1. CASE v # w
    BY <1>1, <2>1 DEF Inv, CollectedOK, Collected, Runs, InTransaction
  <2>2. CASE v = w
    <3>1. walk[w].onu = onu
      BY <1>1, <2>2 DEF Runs
    <3>2. walk[w].pc # "begin" => Collected(w, q)
      BY <3>1 DEF Catches, Inv, CollectedOK, Runs, InTransaction
    <3> QED
      BY <1>1, <2>2, <3>1, <3>2 DEF Catches, Collected
  <2> QED
    BY <2>1, <2>2
<1>5. LinksOK' /\ UnusedOK' /\ ArchivedOnce' /\ HistoryNotMixed' /\ HistoryFollowsOnu'
  BY <1>1 DEF Inv, LinksOK, UnusedOK, ArchivedOnce, HistoryNotMixed, HistoryFollowsOnu, Gone
<1> QED
  BY <1>2, <1>3, <1>4, <1>5 DEF Inv

\* A walk that holds nothing, listed or rolled back, owes nothing.
LEMMA FreshWalksKeepInv ==
    ASSUME Inv, TypeOK', IdsOK', UNCHANGED <<onu, used, archives, row>>,
           \A w \in Walk : \/ walk'[w] = walk[w]
                          \/ /\ walk'[w].pc \in {"idle", "begin"}
                             /\ walk'[w].closed = {} /\ walk'[w].moved = {}
    PROVE  Inv'
<1>1. HeldOK' /\ CollectedOK'
  BY DEF Inv, HeldOK, CollectedOK, Collected, Runs, InTransaction
<1>2. LinksOK' /\ UnusedOK' /\ ArchivedOnce' /\ HistoryNotMixed' /\ HistoryFollowsOnu'
  BY DEF Inv, LinksOK, UnusedOK, ArchivedOnce, HistoryNotMixed, HistoryFollowsOnu, Gone
<1> QED
  BY <1>1, <1>2 DEF Inv

\* The commit: the ONU goes, with it every link to it, and every transaction
\* for the same ONU can no longer commit.
LEMMA CommitKeepsInv ==
    ASSUME Inv, NEW w \in Walk, DeleteAndCommit(w), TypeOK' PROVE Inv'
<1> DEFINE o == walk[w].onu
<1>1. WalkBecomes(w, "idle", None, {}, {})
  BY WalkStops DEF Inv, DeleteAndCommit
<1>2. o \in used /\ o # None /\ used \subseteq OnuId
  BY NoneAssumption DEF DeleteAndCommit, At, Inv, IdsOK, TypeOK
<1>3. CASE UNCHANGED <<onu, archives, row>>
  <2>1. IdsOK'
    BY <1>1, <1>3 DEF DeleteAndCommit, Inv, IdsOK, WalkBecomes
  <2> QED
    BY <1>1, <1>3, <2>1, FreshWalksKeepInv DEF DeleteAndCommit, WalkBecomes
<1>4. CASE /\ onu = o /\ onu' = None
           /\ archives' = [archives EXCEPT ![onu] = @ + 1]
           /\ row' = [r \in RowId |-> Archived(w, r)]
  <2>1. \A r \in RowId :
          /\ row'[r].state = IF r \in walk[w].closed THEN "CLEARED" ELSE row[r].state
          /\ row'[r].onu = None
          /\ row'[r].removed = IF r \in walk[w].moved THEN o ELSE row[r].removed
          /\ row'[r].owner = row[r].owner
          /\ row'[r].late = row[r].late
    BY <1>4, RowsArchived DEF Inv, HistoryNotMixed
  <2>2. /\ \A r \in walk[w].closed \cup walk[w].moved : row[r].onu = o
        /\ \A r \in RowId : row[r].onu = o /\ ~row[r].late => Collected(w, r)
        /\ walk[w].pc = "delete"
    BY <1>4 DEF DeleteAndCommit, At, Inv, HeldOK, CollectedOK, Runs, InTransaction
  <2>3. \A v \in Walk : ~Runs(v)'
    BY <1>1, <1>2, <1>4, NoneAssumption
       DEF WalkBecomes, Runs, InTransaction, Inv, IdsOK, TypeOK
  <2> HIDE DEF o
  <2>4. IdsOK'
    BY <1>1, <1>4, <2>1 DEF DeleteAndCommit, Inv, IdsOK, WalkBecomes
  <2>5. LinksOK' /\ UnusedOK'
    BY <1>4, <2>1 DEF LinksOK, UnusedOK
  <2>6. HeldOK' /\ CollectedOK'
    BY <1>1, <2>3 DEF Inv, HeldOK, CollectedOK, WalkBecomes
  <2>7. ArchivedOnce'
    <3> SUFFICES ASSUME NEW i \in OnuId PROVE archives'[i] = IF Gone(i)' THEN 1 ELSE 0
      BY DEF ArchivedOnce
    <3>1. archives'[i] = IF i = o THEN archives[i] + 1 ELSE archives[i]
      BY <1>4 DEF Inv, TypeOK
    <3>2. archives[i] = IF i \in used /\ i # o THEN 1 ELSE 0
      BY <1>4 DEF Inv, ArchivedOnce, Gone
    <3>3. Gone(i)' <=> i \in used
      BY <1>2, <1>4, NoneAssumption DEF DeleteAndCommit, Gone
    <3> QED
      BY <1>2, <3>1, <3>2, <3>3
  <2>8. HistoryNotMixed'
    <3> SUFFICES ASSUME NEW r \in RowId PROVE row'[r].removed \in {None, row'[r].owner}
      BY <2>1 DEF HistoryNotMixed
    <3>1. r \in walk[w].moved => row[r].owner = o
      BY <1>2, <2>2 DEF Inv, HistoryNotMixed
    <3> QED
      BY <2>1, <3>1 DEF Inv, HistoryNotMixed
  <2>9. HistoryFollowsOnu'
    <3> SUFFICES ASSUME NEW r \in RowId, Gone(row[r].owner)', ~row[r].late
                 PROVE  row'[r].removed = row[r].owner /\ row'[r].state # "ACTIVE"
      BY <2>1 DEF HistoryFollowsOnu, Gone
    <3>1. row[r].owner \in used /\ row[r].owner # None
      BY <2>1, NoneAssumption DEF Gone, DeleteAndCommit, Inv, TypeOK
    <3>2. CASE row[r].owner = o
      <4>1. row[r].onu = o
        BY <1>2, <1>4, <3>2 DEF Inv, LinksOK
      <4>2. Collected(w, r) /\ row[r].state # "unused"
        BY <1>2, <2>2, <4>1 DEF Inv, UnusedOK
      <4>3. row[r].state \in {"unused", "ACTIVE", "CLEARED", "event"}
        BY DEF Inv, TypeOK, RowState
      <4> QED
        BY <2>1, <2>2, <3>2, <4>2, <4>3 DEF Collected
    <3>3. CASE row[r].owner # o
      <4>1. row[r].removed = row[r].owner /\ row[r].state # "ACTIVE"
        BY <1>4, <3>1, <3>3 DEF Inv, HistoryFollowsOnu, Gone
      <4>2. row[r].onu = None
        BY <3>1, <4>1 DEF Inv, LinksOK
      <4>3. r \notin walk[w].moved
        BY <1>2, <2>2, <4>2
      <4> QED
        BY <2>1, <4>1, <4>3
    <3> QED
      BY <3>2, <3>3
  <2> QED
    BY <2>4, <2>5, <2>6, <2>7, <2>8, <2>9 DEF Inv
<1> QED
  BY <1>3, <1>4 DEF DeleteAndCommit

----------------------------------------------------------------------------
(* The theorems.                                                           *)

LEMMA InvStep == Inv /\ [Next]_vars => Inv'
<1> SUFFICES ASSUME Inv, [Next]_vars PROVE Inv'
  OBVIOUS
<1> TypeOK /\ IdsOK /\ TypeOK'
  BY TypeStep DEF Inv
<1>1. ASSUME NEW o \in OnuId, Register(o) PROVE Inv'
  BY <1>1, RegisterKeepsInv
<1>2. ASSUME NEW h \in Handler, NEW kind \in {"SET", "CLEAR", "EVENT"}, Receive(h, kind)
      PROVE  Inv'
  BY <1>2, HandlerReceives, HandlerKeepsInv DEF Receive
<1>3. ASSUME NEW h \in Handler, ResolveOnu(h) PROVE Inv'
  BY <1>3, HandlerResolves, HandlerKeepsInv DEF ResolveOnu, IdsOK
<1>4. ASSUME NEW h \in Handler, Store(h) PROVE Inv'
  <2>1. HandlerBecomes(h, None)
    BY <1>4, HandlerEnds DEF Store
  <2>2. CASE UNCHANGED row
    BY <1>4, <2>1, <2>2, HandlerKeepsInv DEF Store
  <2>3. ASSUME NEW r \in RowId, NEW state \in {"ACTIVE", "event"}, row[r] = Unused,
               handler[h].onu \in {None, onu}, Insert(h, r, state)
        PROVE  Inv'
    <3>1. RowBecomes(r, Inserted(h, state))
      BY <2>3, RowInserted
    <3>2. \A g \in Handler : handler'[g].onu \in used \cup {None}
      BY <2>1 DEF HandlerBecomes, IdsOK
    <3> QED
      BY <1>4, <2>3, <3>1, <3>2, InsertKeepsInv DEF Store
  <2> QED
    BY <1>4, <2>2, <2>3 DEF Store
<1>5. ASSUME NEW h \in Handler, StoreClear(h) PROVE Inv'
  <2>1. HandlerBecomes(h, None)
    BY <1>5, HandlerEnds DEF StoreClear
  <2>2. CASE UNCHANGED row
    BY <1>5, <2>1, <2>2, HandlerKeepsInv DEF StoreClear
  <2>3. ASSUME NEW r \in ActiveRows, ~Locked(r), row' = [row EXCEPT ![r].state = "CLEARED"]
        PROVE  Inv'
    <3>1. r \in RowId /\ row[r].state = "ACTIVE" /\ RowBecomes(r, Cleared(r))
      BY <2>3, RowClears DEF ActiveRows
    <3>2. IdsOK'
      BY <1>5, <2>1, <3>1 DEF StoreClear, IdsOK, HandlerBecomes, RowBecomes, Cleared
    <3> QED
      BY <1>5, <2>3, <3>1, <3>2, ClearKeepsInv DEF StoreClear
  <2> QED
    BY <1>5, <2>2, <2>3 DEF StoreClear
<1>6. ASSUME NEW r \in RowId, OperatorClears(r) PROVE Inv'
  <2>1. RowBecomes(r, Cleared(r))
    BY <1>6, RowClears DEF OperatorClears
  <2>2. IdsOK'
    BY <1>6, <2>1, ZenonT(60) DEF OperatorClears, IdsOK, RowBecomes, Cleared
  <2> QED
    BY <1>6, <2>1, <2>2, ClearKeepsInv DEF OperatorClears
<1>7. ASSUME NEW w \in Walk, ListRemoved(w) PROVE Inv'
  <2>1. WalkBecomes(w, "begin", onu, {}, {})
    BY <1>7, WalkLists
  <2>2. IdsOK'
    BY <1>7, <2>1 DEF ListRemoved, IdsOK, WalkBecomes
  <2> QED
    BY <1>7, <2>1, <2>2, FreshWalksKeepInv DEF ListRemoved, WalkBecomes
<1>8. ASSUME NEW w \in Walk, WalkStatement(w) PROVE Inv'
  BY <1>8, StatementMoves, StatementKeepsInv
<1>9. ASSUME NEW w \in Walk, DeleteAndCommit(w) PROVE Inv'
  BY <1>9, CommitKeepsInv
<1>10. ASSUME NEW w \in Walk, Abort(w) PROVE Inv'
  <2>1. WalkBecomes(w, "idle", None, {}, {})
    BY <1>10, WalkStops DEF Abort
  <2>2. IdsOK'
    BY <1>10, <2>1 DEF Abort, IdsOK, WalkBecomes
  <2> QED
    BY <1>10, <2>1, <2>2, FreshWalksKeepInv DEF Abort, WalkBecomes
<1>11. ASSUME Crash PROVE Inv'
  <2>1. IdsOK'
    BY <1>11 DEF Crash, IdsOK, NoTrap, NoWalk
  <2> QED
    BY <1>11, <2>1, FreshWalksKeepInv DEF Crash, NoWalk
<1>12. ASSUME UNCHANGED vars PROVE Inv'
  BY <1>12, FreshWalksKeepInv DEF vars, IdsOK
<1> QED
  BY <1>1, <1>2, <1>3, <1>4, <1>5, <1>6, <1>7, <1>8, <1>9, <1>10, <1>11, <1>12
     DEF Next, WalkStatement

\* The inductive invariant holds in every state.
THEOREM Invariance == Spec => []Inv
BY InitInv, InvStep, PTL DEF Spec

\* Every variable keeps its type: no id of an ONU that never existed is stored.
THEOREM TypeCorrect == Spec => []TypeOK
BY Invariance, PTL DEF Inv

\* However many walks remove the same ONU at the same time, and whatever is
\* rolled back, reconcileRemovedOnus leaves one archive of an ONU that is gone
\* and none of one that is not.
THEOREM OneArchive == Spec => []ArchivedOnce
BY Invariance, PTL DEF Inv

\* An ONU registered at the position of one removed inherits none of its rows.
THEOREM NoMixedHistory == Spec => []HistoryNotMixed
BY Invariance, PTL DEF Inv

\* What was recorded before the removal began is with the archive, and closed.
THEOREM NothingLeftBehind == Spec => []HistoryFollowsOnu
BY Invariance, PTL DEF Inv

\* A row that went with an archive stays with it: no later removal takes it, and
\* no trap or operator opens it again.
THEOREM ArchiveStays == Spec => ArchiveIsFinal
<1> DEFINE Final == \A r \in RowId : row[r].removed # None =>
                      row'[r].removed = row[r].removed
                      /\ (row[r].state = "CLEARED" => row'[r].state = "CLEARED")
<1>1. Inv /\ [Next]_vars => [Final]_vars
  <2> SUFFICES ASSUME Inv, [Next]_vars, NEW r \in RowId, row[r].removed # None
               PROVE  /\ row'[r].removed = row[r].removed
                      /\ row[r].state = "CLEARED" => row'[r].state = "CLEARED"
    OBVIOUS
  <2>0. TypeOK
    BY DEF Inv
  <2>1. ASSUME NEW h \in Handler, Store(h) PROVE row'[r] = row[r]
    BY <2>0, <2>1, RowInserted DEF Store, RowBecomes, Unused
  <2>2. ASSUME NEW q \in RowId, row[q].state = "ACTIVE", row' = [row EXCEPT ![q].state = "CLEARED"]
        PROVE  row'[r].removed = row[r].removed /\ (row'[r] = row[r] \/ row'[r].state = "CLEARED")
    BY <2>0, <2>2, RowClears DEF RowBecomes, Cleared
  <2>3. ASSUME NEW w \in Walk, DeleteAndCommit(w)
        PROVE  row'[r].removed = row[r].removed /\ row'[r].state = row[r].state
    <3>1. CASE UNCHANGED row
      BY <3>1
    <3>2. CASE onu = walk[w].onu /\ row' = [q \in RowId |-> Archived(w, q)]
      <4>1. row[r].onu = None /\ walk[w].onu # None
        BY <2>3, NoneAssumption DEF DeleteAndCommit, At, Inv, LinksOK, IdsOK, TypeOK
      <4>2. r \notin walk[w].closed \cup walk[w].moved
        BY <2>3, <3>2, <4>1 DEF DeleteAndCommit, At, Inv, HeldOK, Runs, InTransaction
      <4> QED
        BY <2>0, <3>2, <4>2, RowsArchived
    <3> QED
      BY <2>3, <3>1, <3>2 DEF DeleteAndCommit
  <2>4. ASSUME UNCHANGED row PROVE row'[r] = row[r]
    BY <2>4
  <2> QED
    BY <2>1, <2>2, <2>3, <2>4
       DEF Next, vars, Register, Receive, ResolveOnu, StoreClear, ActiveRows, OperatorClears,
           ListRemoved, CreateArchive, CloseAlarms, RelinkAlarms, RelinkEvents, Abort, Crash
<1> QED
  BY Invariance, <1>1, PTL DEF Spec, ArchiveIsFinal
=============================================================================
