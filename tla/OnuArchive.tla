----------------------------- MODULE OnuArchive -----------------------------
(***************************************************************************)
(* The end of an ONU's life: reconcileRemovedOnus of OltBootstrapService   *)
(* moves an ONU that left a walk to OnuRemoved, in a transaction of five   *)
(* statements, while traps of that ONU keep being ingested.                *)
(*                                                                         *)
(* One position of one OLT.  An ONU that comes back after a removal is a   *)
(* new row with a new id.  Postgres runs the transaction at READ           *)
(* COMMITTED: every statement sees what was committed before it, its own   *)
(* writes are seen by others at the commit only, and a row it has written  *)
(* is locked until then.                                                   *)
(*                                                                         *)
(* AlarmIngest has the statements of an ingest one by one; here resolving  *)
(* the ONU and the rest are two steps, since only the onuId read in the    *)
(* first and written in the second can be overtaken by a removal.          *)
(***************************************************************************)
EXTENDS Naturals

CONSTANTS
    Handler,      \* slots for traps ingested at the same time
    Walk,         \* slots for walks that run at the same time
    OnuId,        \* ids of Onu rows: bounds how often the ONU comes back
    RowId,        \* ids of Alarm and Event rows: bounds the traps recorded
    None

ASSUME NoneAssumption == None \notin OnuId

VARIABLES
    onu,          \* the Onu row at the position, None without one
    used,         \* ids of Onu rows ever created
    archives,     \* archives[o]: OnuRemoved rows made for o
    row,          \* Alarm and Event rows of the position
    handler,
    walk

vars == <<onu, used, archives, row, handler, walk>>

----------------------------------------------------------------------------
Link == OnuId \cup {None}
RowState ==
    [state : {"unused", "ACTIVE", "CLEARED", "event"},
     onu : Link,             \* onuId
     removed : Link,         \* removedOnuId, named after the ONU archived
     owner : Link,           \* history: the onuId it was created with
     late : BOOLEAN]         \* history: created while its ONU was being archived
HandlerState ==
    [pc : {"idle", "resolve", "store"}, kind : {"SET", "CLEAR", "EVENT"}, onu : Link]
WalkPc == {"idle", "begin", "close", "relink", "events", "delete"}
WalkState ==
    [pc : WalkPc, onu : Link, closed : SUBSET RowId, moved : SUBSET RowId]

TypeOK ==
    /\ onu \in Link
    /\ used \in SUBSET OnuId
    /\ archives \in [OnuId -> Nat]
    /\ row \in [RowId -> RowState]
    /\ handler \in [Handler -> HandlerState]
    /\ walk \in [Walk -> WalkState]

Unused == [state |-> "unused", onu |-> None, removed |-> None, owner |-> None, late |-> FALSE]
NoTrap == [pc |-> "idle", kind |-> "SET", onu |-> None]
NoWalk == [pc |-> "idle", onu |-> None, closed |-> {}, moved |-> {}]

Init ==
    /\ onu = None
    /\ used = {}
    /\ archives = [o \in OnuId |-> 0]
    /\ row = [r \in RowId |-> Unused]
    /\ handler = [h \in Handler |-> NoTrap]
    /\ walk = [w \in Walk |-> NoWalk]

InTransaction(w) == walk[w].pc \in {"close", "relink", "events", "delete"}
Locked(r) == \E w \in Walk : InTransaction(w) /\ r \in walk[w].closed \cup walk[w].moved
ActiveRows == {r \in RowId : row[r].state = "ACTIVE"}

----------------------------------------------------------------------------
(* Traps                                                                   *)

\* The upsert of a pROVISIONED trap or of a walk registers an ONU again.
Register(o) ==
    /\ onu = None /\ o \notin used
    /\ onu' = o
    /\ used' = used \cup {o}
    /\ UNCHANGED <<archives, row, handler, walk>>

Receive(h, kind) ==
    /\ handler[h].pc = "idle"
    /\ handler' = [handler EXCEPT ![h] = [pc |-> "resolve", kind |-> kind, onu |-> None]]
    /\ UNCHANGED <<onu, used, archives, row, walk>>

\* resolveOnu: the ONU at the position of the trap, as committed now.
ResolveOnu(h) ==
    /\ handler[h].pc = "resolve"
    /\ handler' = [handler EXCEPT ![h].pc = "store", ![h].onu = onu]
    /\ UNCHANGED <<onu, used, archives, row, walk>>

Ends(h) == handler' = [handler EXCEPT ![h] = NoTrap]

Insert(h, r, state) ==
    LET o == handler[h].onu IN
    row' = [row EXCEPT ![r] =
              [state |-> state, onu |-> o, removed |-> None, owner |-> o,
               late |-> o # None /\ \E w \in Walk : InTransaction(w) /\ walk[w].onu = o]]

\* (mutant: no foreign key on onuId)
StoreNoForeignKey(h) ==
    /\ handler[h].pc = "store" /\ handler[h].kind \in {"SET", "EVENT"}
    /\ \E r \in RowId :
         /\ row[r] = Unused
         /\ Insert(h, r, IF handler[h].kind = "SET" THEN "ACTIVE" ELSE "event")
    /\ Ends(h)
    /\ UNCHANGED <<onu, used, archives, walk>>

\* raiseOrRefreshAlarm and recordEvent: a SET that finds an ACTIVE row changes
\* nothing that matters here; an insert whose ONU is gone breaks the foreign
\* key and the trap is lost, logged.
Store(h) ==
    /\ handler[h].pc = "store" /\ handler[h].kind \in {"SET", "EVENT"}
    /\ \/ /\ handler[h].kind = "SET" /\ ActiveRows # {}
          /\ UNCHANGED row
       \/ /\ handler[h].kind = "EVENT" \/ ActiveRows = {}
          /\ handler[h].onu \in {None, onu}
          /\ \E r \in RowId :
               /\ row[r] = Unused
               /\ Insert(h, r, IF handler[h].kind = "SET" THEN "ACTIVE" ELSE "event")
       \/ /\ handler[h].kind = "EVENT" \/ ActiveRows = {}
          /\ handler[h].onu \notin {None, onu}
          /\ UNCHANGED row
    /\ Ends(h)
    /\ UNCHANGED <<onu, used, archives, walk>>

\* clearMatchingAlarm; its update waits for a transaction that has the row.
StoreClear(h) ==
    /\ handler[h].pc = "store" /\ handler[h].kind = "CLEAR"
    /\ \/ \E r \in ActiveRows : ~Locked(r) /\ row' = [row EXCEPT ![r].state = "CLEARED"]
       \/ ActiveRows = {} /\ UNCHANGED row
    /\ Ends(h)
    /\ UNCHANGED <<onu, used, archives, walk>>

\* (mutant: the trap's CLEAR written where the column wants CLEARED)
OperatorClearsAsTrap(r) ==
    /\ row[r].state = "ACTIVE" /\ ~Locked(r)
    /\ row' = [row EXCEPT ![r].state = "CLEAR"]
    /\ UNCHANGED <<onu, used, archives, handler, walk>>

\* AlarmService.clear by an operator.
OperatorClears(r) ==
    /\ row[r].state = "ACTIVE" /\ ~Locked(r)
    /\ row' = [row EXCEPT ![r].state = "CLEARED"]
    /\ UNCHANGED <<onu, used, archives, handler, walk>>

----------------------------------------------------------------------------
(* The removal                                                             *)

At(w, pc) == walk[w].pc = pc

\* Another transaction that has written one of these rows is waited for.
Unlocked(w, rs) ==
    \A v \in Walk \ {w} : InTransaction(v) => rs \cap (walk[v].closed \cup walk[v].moved) = {}

\* findMany: the walk did not see the position, the database still has it.
ListRemoved(w) ==
    /\ At(w, "idle") /\ onu # None
    /\ walk' = [walk EXCEPT ![w] = [NoWalk EXCEPT !.pc = "begin", !.onu = onu]]
    /\ UNCHANGED <<onu, used, archives, row, handler>>

\* BEGIN and onuRemoved.create, of the ONU as it was listed.
CreateArchive(w) ==
    /\ At(w, "begin")
    /\ walk' = [walk EXCEPT ![w].pc = "close"]
    /\ UNCHANGED <<onu, used, archives, row, handler>>

\* (mutant: the ACTIVE alarms are not closed first)
CloseNoAlarms(w) ==
    /\ At(w, "close")
    /\ walk' = [walk EXCEPT ![w].pc = "relink"]
    /\ UNCHANGED <<onu, used, archives, row, handler>>

\* Close the ACTIVE alarms linked to the ONU.
CloseAlarms(w) ==
    /\ At(w, "close")
    /\ LET rs == {r \in ActiveRows : row[r].onu = walk[w].onu} IN
       /\ Unlocked(w, rs)
       /\ walk' = [walk EXCEPT ![w].pc = "relink", ![w].closed = rs]
    /\ UNCHANGED <<onu, used, archives, row, handler>>

\* (mutant: the alarms chosen by position, not by onuId)
RelinkAlarmsOfPosition(w) ==
    /\ At(w, "relink")
    /\ LET rs == {r \in RowId : row[r].state \in {"ACTIVE", "CLEARED"}} IN
       /\ Unlocked(w, rs)
       /\ walk' = [walk EXCEPT ![w].pc = "events", ![w].moved = rs]
    /\ UNCHANGED <<onu, used, archives, row, handler>>

\* Move the alarms linked to it to the archive.
RelinkAlarms(w) ==
    /\ At(w, "relink")
    /\ LET rs == {r \in RowId : row[r].onu = walk[w].onu /\ row[r].state \in {"ACTIVE", "CLEARED"}} IN
       /\ Unlocked(w, rs)
       /\ walk' = [walk EXCEPT ![w].pc = "events", ![w].moved = rs]
    /\ UNCHANGED <<onu, used, archives, row, handler>>

RelinkEvents(w) ==
    /\ At(w, "events")
    /\ LET rs == {r \in RowId : row[r].onu = walk[w].onu /\ row[r].state = "event"} IN
       /\ Unlocked(w, rs)
       /\ walk' = [walk EXCEPT ![w].pc = "delete", ![w].moved = @ \cup rs]
    /\ UNCHANGED <<onu, used, archives, row, handler>>

\* Delete the Onu row (the foreign key sets what still points at it to null)
\* and commit; when another walk has deleted it, delete rejects and all of it
\* is rolled back.
Archived(w, r) ==
    LET t == row[r]
        o == walk[w].onu IN
    [t EXCEPT !.state = IF r \in walk[w].closed THEN "CLEARED" ELSE @,
              !.onu = IF @ = o THEN None ELSE @,
              !.removed = IF r \in walk[w].moved THEN o ELSE @]

\* (mutant: a deleteMany, which does not reject when the row is gone)
DeleteManyAndCommit(w) ==
    /\ At(w, "delete")
    /\ onu' = IF onu = walk[w].onu THEN None ELSE onu
    /\ archives' = [archives EXCEPT ![walk[w].onu] = @ + 1]
    /\ row' = [r \in RowId |-> Archived(w, r)]
    /\ walk' = [walk EXCEPT ![w] = NoWalk]
    /\ UNCHANGED <<used, handler>>

DeleteAndCommit(w) ==
    /\ At(w, "delete")
    /\ \/ /\ onu = walk[w].onu
          /\ onu' = None
          /\ archives' = [archives EXCEPT ![onu] = @ + 1]
          /\ row' = [r \in RowId |-> Archived(w, r)]
       \/ /\ onu # walk[w].onu
          /\ UNCHANGED <<onu, archives, row>>
    /\ walk' = [walk EXCEPT ![w] = NoWalk]
    /\ UNCHANGED <<used, handler>>

\* Timeout of the transaction, lost connection: rolled back, the walk FAILED.
Abort(w) ==
    /\ walk[w].pc # "idle"
    /\ walk' = [walk EXCEPT ![w] = NoWalk]
    /\ UNCHANGED <<onu, used, archives, row, handler>>

\* The API dies: handlers are forgotten and open transactions rolled back.
Crash ==
    /\ handler' = [h \in Handler |-> NoTrap]
    /\ walk' = [w \in Walk |-> NoWalk]
    /\ UNCHANGED <<onu, used, archives, row>>

Next ==
    \/ \E o \in OnuId : Register(o)
    \/ \E h \in Handler :
         \/ \E kind \in {"SET", "CLEAR", "EVENT"} : Receive(h, kind)
         \/ ResolveOnu(h)
         \/ Store(h)
         \/ StoreClear(h)
    \/ \E r \in RowId : OperatorClears(r)
    \/ \E w \in Walk :
         \/ ListRemoved(w)
         \/ CreateArchive(w)
         \/ CloseAlarms(w)
         \/ RelinkAlarms(w)
         \/ RelinkEvents(w)
         \/ DeleteAndCommit(w)
         \/ Abort(w)
    \/ Crash

Spec == Init /\ [][Next]_vars

----------------------------------------------------------------------------
(* Properties                                                              *)

Gone(o) == o \in used /\ o # onu

\* All or nothing, also with two walks removing the same ONU and a crash at
\* any statement: an ONU is archived once if it is gone, and not before.
ArchivedOnce == \A o \in OnuId : archives[o] = IF Gone(o) THEN 1 ELSE 0

\* An Onu row registered after a removal never inherits the history of the one
\* removed, however late its traps are stored, and no row points at an ONU that
\* does not exist.  (An upsert that only changes the serial keeps the row: that
\* code treats the two ONUs as one.)
HistoryNotMixed ==
    \A r \in RowId :
      /\ row[r].onu \in {None, onu}
      /\ row[r].onu \in {None, row[r].owner}
      /\ row[r].removed \in {None, row[r].owner}

\* Nothing recorded before the removal began is lost or left open: it is with
\* the archive, and its alarm closed.
HistoryFollowsOnu ==
    \A r \in RowId : Gone(row[r].owner) /\ ~row[r].late =>
      row[r].removed = row[r].owner /\ row[r].state # "ACTIVE"

\* A history row never moves on: once archived it stays archived and closed.
ArchiveIsFinal ==
    [][\A r \in RowId : row[r].removed # None =>
          row'[r].removed = row[r].removed
          /\ (row[r].state = "CLEARED" => row'[r].state = "CLEARED")]_vars
=============================================================================
