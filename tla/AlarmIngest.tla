----------------------------- MODULE AlarmIngest -----------------------------
(***************************************************************************)
(* The Alarm table of the API and everything that writes a row of it while *)
(* the set of ONUs stays as it is: the trap handlers of AlarmIngestService *)
(* (apps/api/src/alarm/alarm-ingest.service.ts), the operators' requests   *)
(* of AlarmService (confirm, clear, confirmAndClear) and the removal of an *)
(* OLT (OltService.remove, which cascades to its alarms).                  *)
(*                                                                         *)
(* Node runs one handler until its next await, so every awaited statement  *)
(* of a handler is one action, and the statements of different handlers    *)
(* interleave freely: the receiver starts a handler per trap and waits for *)
(* none of them.                                                           *)
(*                                                                         *)
(* An alarm key stands for (oltId, trapOid, source, slotNo, portNo,        *)
(* logicalPortNo), the columns of the partial unique index.  Severity,     *)
(* texts, timestamps and the onuId link are data no property here tells    *)
(* apart; the link is the subject of module OnuArchive.                    *)
(***************************************************************************)
CONSTANTS
    Handler,    \* slots for trap handlers that run at the same time
    Operator,   \* slots for operators' requests that run at the same time
    AlarmId,    \* row ids: the bound on rows created in one behaviour
    Key,        \* alarm keys
    Olt,        \* OLTs
    OltOf,      \* the OLT a key belongs to
    NoRow       \* "no row found yet"

ASSUME OltOfAssumption == OltOf \in [Key -> Olt]
ASSUME NoRowAssumption == NoRow \notin AlarmId

VARIABLES
    olts,        \* OLT rows that still exist
    condition,   \* condition[a]: "unused", "ACTIVE", "CLEARED", or "deleted" with its OLT
    keyOf,       \* keyOf[a]: the key row a was created with
    confirmed,   \* confirmed[a]
    handler,     \* handler[h]: the trap handler in slot h
    request      \* request[o]: the operator's request in slot o

rowVars == <<condition, keyOf, confirmed>>
vars == <<olts, condition, keyOf, confirmed, handler, request>>

----------------------------------------------------------------------------
Resting == {"idle", "done", "failed"}
HandlerPc == Resting \cup {"find", "create", "winner", "refresh", "close"}
HandlerState ==
    [pc : HandlerPc, op : {"SET", "CLEAR"}, key : Key, row : AlarmId \cup {NoRow}]
RequestKind == {"confirm", "clear", "confirmAndClear"}
RequestState ==
    [pc : {"idle", "write"}, kind : RequestKind, row : AlarmId \cup {NoRow}]

TypeOK ==
    /\ olts \in SUBSET Olt
    /\ condition \in [AlarmId -> {"unused", "ACTIVE", "CLEARED", "deleted"}]
    /\ keyOf \in [AlarmId -> Key]
    /\ confirmed \in [AlarmId -> BOOLEAN]
    /\ handler \in [Handler -> HandlerState]
    /\ request \in [Operator -> RequestState]

Init ==
    /\ olts = Olt
    /\ condition = [a \in AlarmId |-> "unused"]
    /\ \E k \in Key :
         /\ keyOf = [a \in AlarmId |-> k]
         /\ handler = [h \in Handler |->
                        [pc |-> "idle", op |-> "SET", key |-> k, row |-> NoRow]]
    /\ confirmed = [a \in AlarmId |-> FALSE]
    /\ request = [o \in Operator |-> [pc |-> "idle", kind |-> "clear", row |-> NoRow]]

Stored(a) == condition[a] \in {"ACTIVE", "CLEARED"}

\* (mutant: findActiveWhere without the columns of the key)
ActiveRowsAnyKey(k) == {a \in AlarmId : condition[a] = "ACTIVE"}

\* findActiveWhere: the rows a findFirst on the key may answer with.
ActiveRows(k) == {a \in AlarmId : condition[a] = "ACTIVE" /\ keyOf[a] = k}

Goto(h, pc) == handler' = [handler EXCEPT ![h] = [@ EXCEPT !.pc = pc]]
Hold(h, pc, a) == handler' = [handler EXCEPT ![h] = [@ EXCEPT !.pc = pc, !.row = a]]
Finish(h, pc) == Hold(h, pc, NoRow)

----------------------------------------------------------------------------
(* Trap handlers                                                           *)

\* A mapped alarm trap was accepted and ingest() is called: source and onu
\* are resolved, then the branch on trap.condition is taken.
Receive(h, k, op) ==
    /\ handler[h].pc \in Resting
    /\ handler' = [handler EXCEPT ![h] = [pc |-> "find", op |-> op, key |-> k, row |-> NoRow]]
    /\ UNCHANGED <<olts, rowVars, request>>

\* (mutant: a findFirst that does not ask for ACTIVE)
FindForSetAnyRow(h) ==
    /\ handler[h].pc = "find" /\ handler[h].op = "SET"
    /\ LET found == {a \in AlarmId : Stored(a) /\ keyOf[a] = handler[h].key} IN
       \/ \E a \in found : Hold(h, "refresh", a)
       \/ found = {} /\ Goto(h, "create")
    /\ UNCHANGED <<olts, rowVars, request>>

\* raiseOrRefreshAlarm, its first findFirst.
FindForSet(h) ==
    /\ handler[h].pc = "find" /\ handler[h].op = "SET"
    /\ \/ \E a \in ActiveRows(handler[h].key) : Hold(h, "refresh", a)
       \/ ActiveRows(handler[h].key) = {} /\ Goto(h, "create")
    /\ UNCHANGED <<olts, rowVars, request>>

Insert(a, k) ==
    /\ condition[a] = "unused"
    /\ condition' = [condition EXCEPT ![a] = "ACTIVE"]
    /\ keyOf' = [keyOf EXCEPT ![a] = k]

\* (mutant: no unique index)
CreateNoIndex(h) ==
    /\ handler[h].pc = "create"
    /\ OltOf[handler[h].key] \in olts
    /\ \E a \in AlarmId : Insert(a, handler[h].key)
    /\ Finish(h, "done")
    /\ UNCHANGED <<olts, confirmed, request>>

\* (mutant: no foreign key)
CreateNoForeignKey(h) ==
    /\ handler[h].pc = "create"
    /\ ActiveRows(handler[h].key) = {}
    /\ \E a \in AlarmId : Insert(a, handler[h].key)
    /\ Finish(h, "done")
    /\ UNCHANGED <<olts, confirmed, request>>

\* The unique index turns the insert into P2002 when the key has an ACTIVE
\* row; the foreign key rejects it when the OLT is gone.
Create(h) ==
    /\ handler[h].pc = "create"
    /\ LET k == handler[h].key IN
       \/ /\ ActiveRows(k) # {}
          /\ Goto(h, "winner")
          /\ UNCHANGED rowVars
       \/ /\ ActiveRows(k) = {} /\ OltOf[k] \notin olts
          /\ Finish(h, "failed")
          /\ UNCHANGED rowVars
       \/ /\ ActiveRows(k) = {} /\ OltOf[k] \in olts
          /\ \E a \in AlarmId : Insert(a, k)
          /\ Finish(h, "done")
          /\ UNCHANGED confirmed
    /\ UNCHANGED <<olts, request>>

\* After P2002: look for the row that won; when it has been closed meanwhile
\* the P2002 is thrown again.
FindWinner(h) ==
    /\ handler[h].pc = "winner"
    /\ \/ \E a \in ActiveRows(handler[h].key) : Hold(h, "refresh", a)
       \/ ActiveRows(handler[h].key) = {} /\ Finish(h, "failed")
    /\ UNCHANGED <<olts, rowVars, request>>

\* (mutant: the refresh also writes condition ACTIVE)
RefreshReopens(h) ==
    /\ handler[h].pc = "refresh"
    /\ condition' = IF Stored(handler[h].row)
                      THEN [condition EXCEPT ![handler[h].row] = "ACTIVE"] ELSE condition
    /\ Finish(h, "done")
    /\ UNCHANGED <<olts, keyOf, confirmed, request>>

\* (mutant: a refresh that starts over until the row is gone)
RefreshStartsOver(h) ==
    /\ handler[h].pc = "refresh"
    /\ IF Stored(handler[h].row) THEN Finish(h, "find") ELSE Finish(h, "failed")
    /\ UNCHANGED <<olts, rowVars, request>>

\* update by id of raisedAt and serialNumber: whatever the row's condition is
\* by now, it stays; a row deleted meanwhile is an error.
Refresh(h) ==
    /\ handler[h].pc = "refresh"
    /\ Finish(h, IF Stored(handler[h].row) THEN "done" ELSE "failed")
    /\ UNCHANGED <<olts, rowVars, request>>

\* clearMatchingAlarm: no ACTIVE row is not an error, the handler returns null.
FindForClear(h) ==
    /\ handler[h].pc = "find" /\ handler[h].op = "CLEAR"
    /\ \/ \E a \in ActiveRows(handler[h].key) : Hold(h, "close", a)
       \/ ActiveRows(handler[h].key) = {} /\ Finish(h, "done")
    /\ UNCHANGED <<olts, rowVars, request>>

\* (mutant: the trap's CLEAR written where the column wants CLEARED)
CloseWritesTrapCondition(h) ==
    /\ handler[h].pc = "close" /\ Stored(handler[h].row)
    /\ condition' = [condition EXCEPT ![handler[h].row] = handler[h].op]
    /\ Finish(h, "done")
    /\ UNCHANGED <<olts, keyOf, confirmed, request>>

\* ... and the update by id that closes the row it found.
Close(h) ==
    /\ handler[h].pc = "close"
    /\ LET a == handler[h].row IN
       \/ /\ Stored(a)
          /\ condition' = [condition EXCEPT ![a] = "CLEARED"]
          /\ Finish(h, "done")
       \/ /\ ~Stored(a)
          /\ Finish(h, "failed")
          /\ UNCHANGED condition
    /\ UNCHANGED <<olts, keyOf, confirmed, request>>

\* Any awaited statement may reject (connection lost, pool exhausted): the
\* error leaves ingest() and the receiver logs it.
StatementFails(h) ==
    /\ handler[h].pc \notin Resting
    /\ Finish(h, "failed")
    /\ UNCHANGED <<olts, rowVars, request>>

----------------------------------------------------------------------------
(* Operators                                                               *)

\* findOneActive only checks that the row exists, ACTIVE or not; for an id
\* without a row the request ends with 404 and nothing has changed.
OpenRequest(o, kind, a) ==
    /\ request[o].pc = "idle"
    /\ Stored(a)
    /\ request' = [request EXCEPT ![o] = [pc |-> "write", kind |-> kind, row |-> a]]
    /\ UNCHANGED <<olts, rowVars, handler>>

\* The update by id; a row deleted meanwhile makes it reject.
WriteRequest(o) ==
    /\ request[o].pc = "write"
    /\ LET a == request[o].row
           kind == request[o].kind IN
       /\ condition' = IF Stored(a) /\ kind \in {"clear", "confirmAndClear"}
                         THEN [condition EXCEPT ![a] = "CLEARED"] ELSE condition
       /\ confirmed' = IF Stored(a) /\ kind \in {"confirm", "confirmAndClear"}
                         THEN [confirmed EXCEPT ![a] = TRUE] ELSE confirmed
    /\ request' = [request EXCEPT ![o] = [@ EXCEPT !.pc = "idle", !.row = NoRow]]
    /\ UNCHANGED <<olts, keyOf, handler>>

----------------------------------------------------------------------------
(* The rest of the world                                                   *)

\* OltService.remove: the delete cascades to every alarm of the OLT.
RemoveOlt(o) ==
    /\ o \in olts
    /\ olts' = olts \ {o}
    /\ condition' = [a \in AlarmId |->
                       IF Stored(a) /\ OltOf[keyOf[a]] = o THEN "deleted" ELSE condition[a]]
    /\ UNCHANGED <<keyOf, confirmed, handler, request>>

\* The API process dies and is restarted: what was in memory is gone.
Crash ==
    /\ handler' = [h \in Handler |-> [handler[h] EXCEPT !.pc = "idle", !.row = NoRow]]
    /\ request' = [o \in Operator |-> [request[o] EXCEPT !.pc = "idle", !.row = NoRow]]
    /\ UNCHANGED <<olts, rowVars>>

----------------------------------------------------------------------------
HandlerStep(h) ==
    \/ FindForSet(h)
    \/ Create(h)
    \/ FindWinner(h)
    \/ Refresh(h)
    \/ FindForClear(h)
    \/ Close(h)

Next ==
    \/ \E h \in Handler, k \in Key, op \in {"SET", "CLEAR"} : Receive(h, k, op)
    \/ \E h \in Handler : HandlerStep(h)
    \/ \E h \in Handler : StatementFails(h)
    \/ \E o \in Operator, kind \in RequestKind, a \in AlarmId : OpenRequest(o, kind, a)
    \/ \E o \in Operator : WriteRequest(o)
    \/ \E o \in Olt : RemoveOlt(o)
    \/ Crash

Spec == Init /\ [][Next]_vars

\* The event loop runs every continuation whose database call has answered.
\* (Receive, Crash and RemoveOlt are never owed.)
FairSpec ==
    /\ Spec
    /\ \A h \in Handler : WF_vars(HandlerStep(h) \/ StatementFails(h))

----------------------------------------------------------------------------
(* Properties                                                              *)

\* What the partial unique index is for: two SETs that both found nothing
\* never leave two ACTIVE alarms with the same key.
UniqueActive ==
    \A a, b \in AlarmId :
      /\ condition[a] = "ACTIVE" /\ condition[b] = "ACTIVE"
      /\ keyOf[a] = keyOf[b]
      => a = b

\* An id read before an await is still the right row when it is written: the
\* row held by a handler was created, with the handler's own key, and is only
\* ever closed or deleted, never handed to another alarm.
HeldRowIsOwn ==
    \A h \in Handler : handler[h].pc \in {"refresh", "close"} =>
      /\ handler[h].row \in AlarmId
      /\ condition[handler[h].row] # "unused"
      /\ keyOf[handler[h].row] = handler[h].key

\* No alarm outlives its OLT, however late a handler of one of its traps runs.
NoOrphanAlarm == \A a \in AlarmId : Stored(a) => OltOf[keyOf[a]] \in olts

\* History is final: no interleaving of a late refresh, a late close, an
\* operator and a P2002 retry reopens a closed alarm, gives a row another
\* key, or withdraws a confirmation.
HistoryIsFinal ==
    [][\A a \in AlarmId : condition[a] # "unused" =>
          /\ condition[a] = "CLEARED" => condition'[a] \in {"CLEARED", "deleted"}
          /\ condition[a] = "deleted" => condition'[a] = "deleted"
          /\ keyOf'[a] = keyOf[a]
          /\ confirmed[a] => confirmed'[a]]_vars

\* Liveness: every received trap is answered, recorded or logged as failed;
\* the P2002 branch retries once and never loops.
HandlersFinish ==
    \A h \in Handler : handler[h].pc = "find" ~> handler[h].pc \in Resting

----------------------------------------------------------------------------
(* The handlers are linearizable: Spec implements AlarmRegister.  The point *)
(* where a call takes effect can be read off the state.  A SET has taken    *)
(* effect when it found, met (P2002) or created an ACTIVE row; a CLEAR that  *)
(* holds a row takes effect when that row stops being ACTIVE, whoever       *)
(* closes it.                                                               *)
PhaseOf(h) ==
    CASE handler[h].pc = "idle" -> "idle"
      [] handler[h].pc = "failed" -> "failed"
      [] handler[h].pc \in {"find", "create"} -> "pending"
      [] handler[h].pc \in {"winner", "refresh", "done"} -> "applied"
      [] handler[h].pc = "close" ->
           IF condition[handler[h].row] = "ACTIVE" THEN "pending" ELSE "applied"

RaisedBar == [k \in Key |-> ActiveRows(k) # {}]
CallBar ==
    [h \in Handler |-> [phase |-> PhaseOf(h), key |-> handler[h].key, op |-> handler[h].op]]

Register == INSTANCE AlarmRegister WITH raised <- RaisedBar, call <- CallBar

\* Every trap handler behaves as one atomic change of its key's alarm, at a
\* moment between its arrival and its end, whatever else runs.
LinearizableIngest == Register!RegSpec
=============================================================================
