------------------------------ MODULE OnuStatus ------------------------------
(***************************************************************************)
(* Onu.status and the presence of the Onu rows of one OLT, kept up to date *)
(* by two sources that know nothing of each other: the traps that          *)
(* TrapReceiverService dispatches (TrapIntake), and the SNMP walk of       *)
(* OltBootstrapService.walkOnus.                                           *)
(*                                                                         *)
(* An ingest is ONE step here, a SET or a CLEAR of an alarm taking effect  *)
(* or failing: that is what AlarmIngest is shown to implement              *)
(* (AlarmRegister).  What follows it is not atomic: the reconciliation     *)
(* counts, waits, then writes.                                             *)
(*                                                                         *)
(* Of the seven states the OLT reports three are kept; the code treats the *)
(* other four like INACTIVE.  Values of serial and alias are left out.     *)
(* What the OLT has changes freely, so the tables of a walk may hold       *)
(* anything, and any of their rows may come broken.                        *)
(***************************************************************************)
EXTENDS TrapIntake, FiniteSets

CONSTANTS
    Handler,      \* slots for traps handled at the same time
    Position,     \* ONU positions (slot.port.logicalPort) of the OLT
    Notice,       \* <<position, notification>> that may arrive
    StatusTable   \* contents of the status table that a walk may read

VARIABLES
    onu,          \* status of the Onu row at a position, "absent" without a row
    active,       \* <<position, trap>> with an ACTIVE down alarm
    handler,      \* the trap handlers
    walk          \* the walk of the ONU tables

vars == <<onu, active, handler, walk>>

Status == {"ACTIVE", "INACTIVE", "DISABLE"}
Report == Status \cup {"unknown"}       \* "unknown": no row or no mapped value

ASSUME NoticeAssumption == Notice \subseteq Position \X Notification
ASSUME StatusTableAssumption == StatusTable \subseteq [Position -> Report]

\* The alarms that count against an ONU, of the notifications that may arrive.
DownTrap == {x[2].oid : x \in Notice} \cap ONU_DOWN_TRAP_OIDS

----------------------------------------------------------------------------
Idle == [pc |-> "idle"]
HandlerState == {Idle} \cup
    [pc : {"ingest", "count", "write", "blacklist", "alias", "upsert"},
     pos : Position, trap : TrapOid, op : {"SET", "CLEAR"},
     serial : BOOLEAN,     \* the notification has a serial number
     down : BOOLEAN,       \* activeDownAlarms > 0, as counted
     own : BOOLEAN]        \* history: its own SET took effect and still stands
OnuTable == {"alias", "serial", "status"}
WalkState ==
    [pc : {"idle", "read", "upsert", "list", "remove"},
     unread : SUBSET OnuTable,
     serial : SUBSET Position,              \* serialByKey
     status : [Position -> Report],         \* statusRawByKey, mapped
     rows : BOOLEAN,                        \* rawVarbindCount > 0
     todo : SUBSET Position,
     truth : SUBSET Position]               \* history: what the OLT had when serials were read

TypeOK ==
    /\ onu \in [Position -> Status \cup {"absent"}]
    /\ active \in SUBSET (Position \X DownTrap)
    /\ handler \in [Handler -> HandlerState]
    /\ walk \in WalkState

Registered(p) == onu[p] # "absent"
DownAlarms(p) == {d \in DownTrap : <<p, d>> \in active}

NoWalk ==
    [pc |-> "idle", unread |-> {}, serial |-> {}, status |-> [p \in Position |-> "unknown"],
     rows |-> FALSE, todo |-> {}, truth |-> {}]

\* A new database: no ONU registered, whatever the OLT has.
Init ==
    /\ onu = [p \in Position |-> "absent"]
    /\ active = {}
    /\ handler = [h \in Handler |-> Idle]
    /\ walk = NoWalk

----------------------------------------------------------------------------
(* Traps.  processNotification starts a handler and does not wait for it.   *)

FirstStep(call) ==
    CASE call = "upsertOnuFromProvisionedTrap" -> "alias"
      [] call = "updateOnuStatusFromTrap" -> "blacklist"
      [] call = "reconcileOnuStatusFromAlarms" -> "ingest"

TrapArrives(h, p, n) ==
    /\ <<p, n>> \in Notice
    /\ handler[h].pc = "idle"
    /\ \E call \in Calls(n) :
         handler' = [handler EXCEPT ![h] =
                       [pc |-> FirstStep(call), pos |-> p, trap |-> n.oid, op |-> Condition(n),
                        serial |-> HasSerial(n), down |-> FALSE, own |-> FALSE]]
    /\ UNCHANGED <<onu, active, walk>>

\* An alarm is lowered: handlers whose SET it was no longer stand for it.
Disown(p, ds, hs) ==
    [g \in Handler |-> IF hs[g] # Idle /\ hs[g].pos = p /\ hs[g].trap \in ds
                         THEN [hs[g] EXCEPT !.own = FALSE] ELSE hs[g]]

Ingest(h) ==
    /\ handler[h].pc = "ingest"
    /\ LET p == handler[h].pos
           d == handler[h].trap IN
       \/ /\ handler[h].op = "SET"
          /\ active' = active \cup {<<p, d>>}
          /\ handler' = [handler EXCEPT ![h].pc = "count", ![h].own = TRUE]
       \/ /\ handler[h].op = "CLEAR"
          /\ active' = active \ {<<p, d>>}
          /\ handler' = Disown(p, {d}, [handler EXCEPT ![h].pc = "count"])
    /\ UNCHANGED <<onu, walk>>

\* ingest() rejected; the .catch swallows it, so the .then still reconciles.
IngestFails(h) ==
    /\ handler[h].pc = "ingest"
    /\ handler' = [handler EXCEPT ![h].pc = "count"]
    /\ UNCHANGED <<onu, active, walk>>

\* (mutant: the count compared with the wrong bound)
CountDownAlarmsOffByOne(h) ==
    /\ handler[h].pc = "count"
    /\ handler' = [handler EXCEPT ![h].pc = "write",
                                  ![h].down = Cardinality(DownAlarms(handler[h].pos)) > 1]
    /\ UNCHANGED <<onu, active, walk>>

\* reconcileOnuStatusFromAlarms: the count ...
CountDownAlarms(h) ==
    /\ handler[h].pc = "count"
    /\ handler' = [handler EXCEPT ![h].pc = "write",
                                  ![h].down = DownAlarms(handler[h].pos) # {}]
    /\ UNCHANGED <<onu, active, walk>>

\* (mutant: the updateMany without its "status: { not: DISABLE }")
WriteStatusAlways(h) ==
    /\ handler[h].pc = "write"
    /\ LET p == handler[h].pos IN
       onu' = IF Registered(p)
                THEN [onu EXCEPT ![p] = IF handler[h].down THEN "INACTIVE" ELSE "ACTIVE"] ELSE onu
    /\ handler' = [handler EXCEPT ![h] = Idle]
    /\ UNCHANGED <<active, walk>>

\* ... and the updateMany, of a row that exists and is not DISABLE.
WriteStatus(h) ==
    /\ handler[h].pc = "write"
    /\ LET p == handler[h].pos IN
       onu' = IF onu[p] \in {"absent", "DISABLE"} THEN onu
              ELSE [onu EXCEPT ![p] = IF handler[h].down THEN "INACTIVE" ELSE "ACTIVE"]
    /\ handler' = [handler EXCEPT ![h] = Idle]
    /\ UNCHANGED <<active, walk>>

\* updateOnuStatusFromTrap(DISABLE): again an updateMany, it creates nothing.
WriteBlacklist(h) ==
    /\ handler[h].pc = "blacklist"
    /\ LET p == handler[h].pos IN
       onu' = IF Registered(p) THEN [onu EXCEPT ![p] = "DISABLE"] ELSE onu
    /\ handler' = [handler EXCEPT ![h] = Idle]
    /\ UNCHANGED <<active, walk>>

\* upsertOnuFromProvisionedTrap: the GET of the alias, answered or not ...
GetAlias(h) ==
    /\ handler[h].pc = "alias"
    /\ handler' = [handler EXCEPT ![h].pc = "upsert"]
    /\ UNCHANGED <<onu, active, walk>>

\* ... then the upsert, ACTIVE whether it creates or updates.
UpsertProvisioned(h) ==
    /\ handler[h].pc = "upsert"
    /\ onu' = [onu EXCEPT ![handler[h].pos] = "ACTIVE"]
    /\ handler' = [handler EXCEPT ![h] = Idle]
    /\ UNCHANGED <<active, walk>>

\* A database statement after the ingest rejects: caught and logged.
HandlerFails(h) ==
    /\ handler[h].pc \in {"count", "write", "blacklist", "alias", "upsert"}
    /\ handler' = [handler EXCEPT ![h] = Idle]
    /\ UNCHANGED <<onu, active, walk>>

----------------------------------------------------------------------------
(* The walk of the three ONU tables                                        *)

StartWalk ==
    /\ walk.pc = "idle"
    /\ walk' = [NoWalk EXCEPT !.pc = "read", !.unread = OnuTable]
    /\ UNCHANGED <<onu, active, handler>>

Reading(table) == walk.pc = "read" /\ table \in walk.unread

\* The tables are read in parallel, each at its own time.  A status without a
\* serial is of no use.
AfterRead(w, table) ==
    IF w.unread # {table} THEN [w EXCEPT !.unread = @ \ {table}]
    ELSE [w EXCEPT !.unread = {}, !.pc = "upsert", !.todo = w.serial,
                   !.status = [p \in Position |-> IF p \in w.serial THEN @[p] ELSE "unknown"]]

ReadAliases ==
    /\ Reading("alias")
    /\ \E some \in BOOLEAN : walk' = AfterRead([walk EXCEPT !.rows = @ \/ some], "alias")
    /\ UNCHANGED <<onu, active, handler>>

\* walkSubtree drops an erroneous row, indexByPosition one that does not parse
\* as a position (with a wrong base OID none does).
ReadSerials ==
    /\ Reading("serial")
    /\ \E there \in SUBSET Position, some \in BOOLEAN : \E parsed \in SUBSET there :
         /\ parsed # {} => some
         /\ some => there # {}
         /\ walk' = AfterRead([walk EXCEPT !.serial = parsed, !.truth = there,
                                           !.rows = @ \/ some], "serial")
    /\ UNCHANGED <<onu, active, handler>>

ReadStatuses ==
    /\ Reading("status")
    /\ \E status \in StatusTable, some \in BOOLEAN :
         /\ (\E p \in Position : status[p] # "unknown") => some
         /\ walk' = AfterRead([walk EXCEPT !.status = status, !.rows = @ \/ some], "status")
    /\ UNCHANGED <<onu, active, handler>>

\* (mutant: the create without its "?? INACTIVE")
UpsertWalkedNoDefault(p) ==
    /\ walk.pc = "upsert" /\ p \in walk.todo
    /\ onu' = [onu EXCEPT ![p] = walk.status[p]]
    /\ walk' = [walk EXCEPT !.todo = @ \ {p}]
    /\ UNCHANGED <<active, handler>>

\* One upsert of the loop over serialByKey; an unknown status leaves an
\* existing row's status alone.  What was read of p is of no use after it.
UpsertWalked(p) ==
    /\ walk.pc = "upsert" /\ p \in walk.todo
    /\ LET status == walk.status[p] IN
       onu' = [onu EXCEPT ![p] = IF status # "unknown" THEN status
                                 ELSE IF Registered(p) THEN @ ELSE "INACTIVE"]
    /\ walk' = [walk EXCEPT !.todo = @ \ {p}, !.status[p] = "unknown"]
    /\ UNCHANGED <<active, handler>>

\* (mutant: no safety net)
ListRemovedNoSafetyNet ==
    /\ walk.pc = "upsert" /\ walk.todo = {}
    /\ LET gone == {p \in Position : Registered(p)} \ walk.serial IN
       walk' = IF gone = {} THEN NoWalk
                 ELSE [walk EXCEPT !.pc = "remove", !.todo = gone]
    /\ UNCHANGED <<onu, active, handler>>

\* reconcileRemovedOnus begins with a findMany, unless the safety net says
\* that rows came but none of them could be read.
ListRemoved ==
    /\ walk.pc = "upsert" /\ walk.todo = {}
    /\ LET gone == {p \in Position : Registered(p)} \ walk.serial
           unreadable == walk.rows /\ walk.serial = {} IN
       walk' = IF unreadable \/ gone = {}
                 THEN NoWalk
                 ELSE [walk EXCEPT !.pc = "remove", !.todo = gone]
    /\ UNCHANGED <<onu, active, handler>>

\* The transaction of one removed ONU, seen from outside (OnuArchive opens
\* it): the alarms linked to it are closed, those that are not stay ACTIVE.
RemoveOnu(p) ==
    /\ walk.pc = "remove" /\ p \in walk.todo
    /\ onu' = [onu EXCEPT ![p] = "absent"]
    /\ \E linked \in SUBSET DownAlarms(p) :
         /\ active' = active \ ({p} \X linked)
         /\ handler' = Disown(p, linked, handler)
    /\ walk' = IF walk.todo = {p}
                 THEN NoWalk
                 ELSE [walk EXCEPT !.todo = @ \ {p}]

\* A timeout of a table or an error of the database ends the walk (FAILED).
WalkFails ==
    /\ walk.pc # "idle"
    /\ walk' = NoWalk
    /\ UNCHANGED <<onu, active, handler>>

----------------------------------------------------------------------------
\* AlarmService.clear, by hand: it does not touch the ONU.
OperatorClears(p, d) ==
    /\ <<p, d>> \in active
    /\ active' = active \ {<<p, d>>}
    /\ handler' = Disown(p, {d}, handler)
    /\ UNCHANGED <<onu, walk>>

Next ==
    \/ \E h \in Handler, x \in Notice : TrapArrives(h, x[1], x[2])
    \/ \E h \in Handler :
         \/ Ingest(h)
         \/ IngestFails(h)
         \/ CountDownAlarms(h)
         \/ WriteStatus(h)
         \/ WriteBlacklist(h)
         \/ GetAlias(h)
         \/ UpsertProvisioned(h)
         \/ HandlerFails(h)
    \/ StartWalk
    \/ ReadAliases
    \/ ReadSerials
    \/ ReadStatuses
    \/ \E p \in Position : UpsertWalked(p) \/ RemoveOnu(p)
    \/ ListRemoved
    \/ WalkFails
    \/ \E p \in Position, d \in DownTrap : OperatorClears(p, d)

Spec == Init /\ [][Next]_vars

----------------------------------------------------------------------------
(* Properties                                                              *)

\* A reconciliation runs after its own ingest: while the alarm a handler
\* raised stands, the handler never writes "no down alarm".
OwnAlarmCounted ==
    \A h \in Handler : handler[h].pc = "write" /\ handler[h].own => handler[h].down

\* Blacklisting survives every reconciliation, also one that counted before
\* the bLACKLISt trap and writes after it: only a pROVISIONED trap, a walk
\* or the removal of the ONU ends DISABLE.
OnlyOltLiftsDisable ==
    [][\A p \in Position : onu[p] = "DISABLE" /\ onu'[p] # "DISABLE" =>
          \/ onu'[p] = "absent"
          \/ walk.pc = "upsert" /\ walk.status[p] = onu'[p]
          \/ \E h \in Handler : handler[h].pc = "upsert" /\ handler[h].pos = p]_vars

\* Status traps never register an ONU; only what carries a serial does: a
\* pROVISIONED trap that has one, or a row of the serial table.
OnlySerialRegisters ==
    [][\A p \in Position : onu[p] = "absent" /\ onu'[p] # "absent" =>
          \/ walk.pc = "upsert" /\ p \in walk.serial
          \/ \E h \in Handler :
               /\ handler[h].pc = "upsert" /\ handler[h].pos = p
               /\ handler[h].serial /\ Definition(handler[h].trap).event = "OnuProvisioned"]_vars

\* An unreadable table never empties the database.  An ONU that the OLT had
\* when its serial table was read is archived only if its own row came broken
\* and the table as a whole did not look so: another row of it was read, or
\* none of the three tables had any.
ArchivedWasNotRead ==
    [][\A p \in Position : onu[p] # "absent" /\ onu'[p] = "absent" =>
          /\ p \notin walk.serial
          /\ p \in walk.truth => walk.serial # {} \/ ~walk.rows]_vars

\* trap-receiver.service.ts:265-266: an ONU with two down alarms goes back to
\* ACTIVE when both are cleared, not at the CLEAR of the first: no
\* reconciliation, the last of its position, writes ACTIVE beside an ACTIVE alarm.
NoUpWhileDown ==
    [][\A h \in Handler :
          WriteStatus(h) =>
            LET p == handler[h].pos IN
            \/ onu'[p] # "ACTIVE" \/ onu[p] # "INACTIVE"
            \/ DownAlarms(p) = {}
            \/ \E g \in Handler \ {h} : handler[g] # Idle /\ handler[g].pos = p]_vars

\* Only a trusted outage takes an ONU down: losing the signal or its frames,
\* a dying gasp, deactivation or a failure of power, reported for the very
\* position; a degraded signal or a lost LAN port never does.
Outage == [group : {"oltOnuAlarmIndication"}, index : {1, 2, 9, 13, 15, 16, 17, 18, 21, 22}]

OnlyOutagesLowerOnu ==
    [][\A p \in Position :
         onu[p] = "ACTIVE" /\ onu'[p] = "INACTIVE" =>
           \/ walk.pc = "upsert"
           \/ \E n \in {x[2] : x \in {y \in Notice : y[1] = p}}, h \in Handler :
                /\ handler[h] # Idle /\ handler[h].pos = p /\ handler[h].trap = n.oid
                /\ n.trusted /\ n.oid \in Outage /\ HasPosition(n)]_vars
=============================================================================
