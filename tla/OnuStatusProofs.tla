--------------------------- MODULE OnuStatusProofs ---------------------------
(***************************************************************************)
(* Theorems about OnuStatus for every set of handlers, positions and       *)
(* notifications.  OwnAlarmCounted rests on what the history variable says *)
(* of the alarms (a handler's SET that stands is in the table), the two    *)
(* properties of the walk on what it listed after reading its tables, and  *)
(* OnlyOutagesLowerOnu on the table of the MIB.                            *)
(***************************************************************************)
EXTENDS OnuStatus, TLAPS

Busy ==
    [pc : {"ingest", "count", "write", "blacklist", "alias", "upsert"},
     pos : Position, trap : TrapOid, op : {"SET", "CLEAR"},
     serial : BOOLEAN, down : BOOLEAN, own : BOOLEAN]

\* A notification the OLT was trusted with reports the trap of handler state t,
\* for its position.
ReportedDown(t) ==
    \E x \in Notice :
      /\ x[1] = t.pos /\ x[2].oid = t.trap
      /\ x[2].trusted /\ HasPosition(x[2]) /\ x[2].oid \in ONU_DOWN_TRAP_OIDS

\* A handler reconciles for a reported outage, and registers an ONU that said its
\* serial when it was provisioned.
Justified(t) ==
    /\ t.pc \in {"ingest", "count", "write"} => ReportedDown(t)
    /\ t.pc \in {"alias", "upsert"} => t.serial /\ Definition(t.trap).event = "OnuProvisioned"

\* Every handler has its reason; its SET that stands is in the table of alarms.
HandlersOK ==
    \A h \in Handler :
      handler[h] # Idle =>
        /\ Justified(handler[h])
        /\ handler[h].own => <<handler[h].pos, handler[h].trap>> \in active

\* What is upserted was read; what is removed was not, in a serial table that
\* was read at all if any table had rows.
WalkOK ==
    /\ walk.pc = "upsert" => walk.todo \subseteq walk.serial
    /\ walk.pc = "remove" => walk.todo \cap walk.serial = {} /\ (walk.serial # {} \/ ~walk.rows)

Inv ==
    /\ TypeOK
    /\ HandlersOK
    /\ WalkOK
    /\ OwnAlarmCounted

----------------------------------------------------------------------------
(* The table of the MIB and the notifications.                             *)

\* PARKS_TRAP_MAP has ten traps that take an ONU down, all of the group of ONU
\* alarms: no event, and no alarm of a PON link or of the system.
THEOREM DownTrapsAreOutages == ONU_DOWN_TRAP_OIDS = Outage
<1> USE DEF PARKS_TRAP_MAP, Mapped, Definition, ONU_DOWN_EVENTS
<1>1. ASSUME NEW oid \in TrapOid PROVE oid \in ONU_DOWN_TRAP_OIDS <=> oid \in Outage
  <2>1. /\ oid.index \in 1..47 /\ oid.group \in Group
        /\ oid = [group |-> oid.group, index |-> oid.index]
    BY DEF TrapOid
  <2>2. CASE oid.group = "oltSystemAlarmIndication"
    BY <2>1, <2>2 DEF ONU_DOWN_TRAP_OIDS, Outage, SystemAlarms, alarmEntry
  <2>3. CASE oid.group = "oltSystemAvcIndication"
    BY <2>1, <2>3 DEF ONU_DOWN_TRAP_OIDS, Outage, SystemAvcs, eventEntry
  <2>4. CASE oid.group = "oltPonLinkAlarmIndication"
    BY <2>1, <2>4 DEF ONU_DOWN_TRAP_OIDS, Outage, PonLinkAlarms, alarmEntry
  <2>5. CASE oid.group = "oltPonLinkEventIndication"
    BY <2>1, <2>5 DEF ONU_DOWN_TRAP_OIDS, Outage, PonLinkEvents, eventEntry
  <2>6. CASE oid.group = "oltOnuAlarmIndication"
    <3> DEFINE i == oid.index
    <3>1. Mapped(oid) <=> i \in 1..46
      BY <2>6 DEF OnuAlarms
    <3>2. i \in 1..46 => Definition(oid).isAlarm /\ Definition(oid).event = OnuAlarmEvent(i)
      BY <2>6 DEF OnuAlarms, alarmEntry
    <3>3. OnuAlarmEvent(i) \in ONU_DOWN_EVENTS <=> i \in {1, 2, 9, 13, 15, 16, 17, 18, 21, 22}
      BY <2>1 DEF OnuAlarmEvent
    <3>4. oid \in ONU_DOWN_TRAP_OIDS <=> i \in {1, 2, 9, 13, 15, 16, 17, 18, 21, 22}
      BY <2>1, <3>1, <3>2, <3>3 DEF ONU_DOWN_TRAP_OIDS
    <3> QED
      BY <2>1, <2>6, <3>4 DEF Outage
  <2>7. CASE oid.group = "oltOnuEventIndication"
    BY <2>1, <2>7 DEF ONU_DOWN_TRAP_OIDS, Outage, OnuEvents, eventEntry
  <2> QED
    BY <2>1, <2>2, <2>3, <2>4, <2>5, <2>6, <2>7 DEF Group
<1>2. ONU_DOWN_TRAP_OIDS \subseteq TrapOid /\ Outage \subseteq TrapOid
  BY DEF ONU_DOWN_TRAP_OIDS, Outage, TrapOid, Group
<1> QED
  BY <1>1, <1>2

\* What a call of TrapIntake says of its notification.
LEMMA CallsOf ==
    ASSUME NEW n \in Notification, NEW call \in Calls(n)
    PROVE  /\ call \in {"upsertOnuFromProvisionedTrap", "updateOnuStatusFromTrap",
                        "reconcileOnuStatusFromAlarms"}
           /\ n.oid \in TrapOid /\ n.trusted /\ HasPosition(n)
           /\ call = "reconcileOnuStatusFromAlarms" => n.oid \in ONU_DOWN_TRAP_OIDS
           /\ call = "upsertOnuFromProvisionedTrap" =>
                HasSerial(n) /\ Definition(n.oid).event = "OnuProvisioned"
<1>1. Outcome(n) = "ACCEPTED"
  BY DEF Calls
<1>2. n.oid # NoOid /\ n.trusted
  BY <1>1 DEF Outcome
<1> QED
  BY <1>1, <1>2 DEF Calls, Notification

----------------------------------------------------------------------------
(* What the actions do to the slot of a handler.                           *)

\* A handler at work is a record with all its fields.
LEMMA AtWork ==
    ASSUME TypeOK, NEW h \in Handler, handler[h].pc # "idle"
    PROVE  handler[h] \in Busy /\ handler[h] # Idle
BY DEF TypeOK, HandlerState, Idle, Busy

LEMMA BusyIsNotIdle == ASSUME NEW t \in Busy PROVE t # Idle
BY DEF Busy, Idle

\* Handler h goes on at pc for the same trap, the others stay.
GoesOn(h, pc, down, own) ==
    /\ handler' \in [Handler -> HandlerState]
    /\ handler'[h] \in Busy
    /\ handler'[h].pc = pc
    /\ handler'[h].pos = handler[h].pos
    /\ handler'[h].trap = handler[h].trap
    /\ handler'[h].serial = handler[h].serial
    /\ handler'[h].down = down
    /\ handler'[h].own = own
    /\ \A g \in Handler : g # h => handler'[g] = handler[g]

LEMMA HandlerGoesOn ==
    ASSUME TypeOK, NEW h \in Handler, handler[h] \in Busy,
           NEW pc \in {"ingest", "count", "write", "blacklist", "alias", "upsert"},
           NEW down \in BOOLEAN, NEW own \in BOOLEAN,
           handler' = [handler EXCEPT
                         ![h] = [handler[h] EXCEPT !.pc = pc, !.down = down, !.own = own]]
    PROVE  GoesOn(h, pc, down, own)
<1> DEFINE new == [handler[h] EXCEPT !.pc = pc, !.down = down, !.own = own]
<1>1. /\ new \in Busy /\ new.pc = pc /\ new.pos = handler[h].pos /\ new.trap = handler[h].trap
      /\ new.serial = handler[h].serial /\ new.down = down /\ new.own = own
  BY DEF Busy
<1>2. Busy \subseteq HandlerState /\ handler \in [Handler -> HandlerState]
  BY DEF Busy, HandlerState, TypeOK
<1>3. handler' = [handler EXCEPT ![h] = new]
  OBVIOUS
<1> HIDE DEF new, Busy, HandlerState
<1> QED
  BY <1>1, <1>2, <1>3 DEF GoesOn

\* Handler h is done, the others stay.
LEMMA HandlerEnds ==
    ASSUME TypeOK, NEW h \in Handler, handler' = [handler EXCEPT ![h] = Idle]
    PROVE  /\ handler' \in [Handler -> HandlerState]
           /\ handler'[h] = Idle
           /\ \A g \in Handler : g # h => handler'[g] = handler[g]
BY DEF TypeOK, HandlerState

\* What Disown does to one slot.
LEMMA DisownSlot ==
    ASSUME NEW t \in Busy
    PROVE  LET u == [t EXCEPT !.own = FALSE] IN
           /\ u \in Busy /\ u.pc = t.pc /\ u.pos = t.pos /\ u.trap = t.trap
           /\ u.serial = t.serial /\ u.down = t.down /\ ~u.own
BY DEF Busy

LEMMA DisownType ==
    ASSUME NEW hs \in [Handler -> HandlerState], NEW p, NEW ds
    PROVE  Disown(p, ds, hs) \in [Handler -> HandlerState]
<1>1. HandlerState = {Idle} \cup Busy
  BY DEF HandlerState, Busy
<1> QED
  BY <1>1, DisownSlot DEF Disown

\* Disown changes nothing but own, and takes it from those whose alarm went.
LEMMA DisownKeeps ==
    ASSUME NEW hs \in [Handler -> HandlerState], NEW p, NEW ds, NEW g \in Handler
    PROVE  LET new == Disown(p, ds, hs)[g] IN
           /\ new = Idle <=> hs[g] = Idle
           /\ hs[g] # Idle =>
                /\ new.pc = hs[g].pc /\ new.pos = hs[g].pos /\ new.trap = hs[g].trap
                /\ new.serial = hs[g].serial /\ new.down = hs[g].down
                /\ new.own => hs[g].own /\ ~(hs[g].pos = p /\ hs[g].trap \in ds)
<1>1. HandlerState = {Idle} \cup Busy
  BY DEF HandlerState, Busy
<1>2. Disown(p, ds, hs)[g] = IF hs[g] # Idle /\ hs[g].pos = p /\ hs[g].trap \in ds
                              THEN [hs[g] EXCEPT !.own = FALSE] ELSE hs[g]
  BY DEF Disown
<1>3. CASE hs[g] # Idle /\ hs[g].pos = p /\ hs[g].trap \in ds
  BY <1>1, <1>2, <1>3, DisownSlot, BusyIsNotIdle
<1>4. CASE ~(hs[g] # Idle /\ hs[g].pos = p /\ hs[g].trap \in ds)
  BY <1>2, <1>4
<1> QED
  BY <1>3, <1>4

----------------------------------------------------------------------------
(* The walk.                                                               *)

LEMMA NoWalkOK == NoWalk \in WalkState /\ (walk' = NoWalk => WalkOK')
BY DEF NoWalk, WalkState, Report, WalkOK

\* What the end of the reading of a table does to the record of the walk.
LEMMA AfterReadOf ==
    ASSUME NEW w \in WalkState, NEW table \in OnuTable, walk' = AfterRead(w, table),
           w.pc = "read"
    PROVE  walk' \in WalkState /\ WalkOK'
<1>1. CASE w.unread # {table}
  BY <1>1 DEF AfterRead, WalkState, WalkOK
<1>2. CASE w.unread = {table}
  <2> DEFINE status == [p \in Position |-> IF p \in w.serial THEN w.status[p] ELSE "unknown"]
  <2>1. walk' = [w EXCEPT !.unread = {}, !.pc = "upsert", !.todo = w.serial, !.status = status]
    BY <1>2 DEF AfterRead
  <2>2. status \in [Position -> Report]
    BY DEF WalkState, Report
  <2> HIDE DEF status
  <2> QED
    BY <2>1, <2>2 DEF WalkState, WalkOK
<1> QED
  BY <1>1, <1>2

\* WalkOK of a record, to be read off from its fields.
LEMMA WalkSteps ==
    ASSUME TypeOK, WalkOK,
           \/ StartWalk \/ ReadAliases \/ ReadSerials \/ ReadStatuses \/ ListRemoved \/ WalkFails
           \/ \E p \in Position : UpsertWalked(p) \/ RemoveOnu(p)
    PROVE  walk' \in WalkState /\ WalkOK'
<1>0. walk \in WalkState
  BY DEF TypeOK
<1>1. CASE StartWalk
  <2> DEFINE new == [NoWalk EXCEPT !.pc = "read", !.unread = OnuTable]
  <2>1. new \in WalkState /\ new.pc = "read"
    BY DEF NoWalk, WalkState, Report
  <2>2. walk' = new
    BY <1>1 DEF StartWalk
  <2> HIDE DEF new
  <2> QED
    BY <2>1, <2>2 DEF WalkOK
<1>2. CASE ReadAliases
  <2>1. PICK some \in BOOLEAN :
          walk' = AfterRead([walk EXCEPT !.rows = walk.rows \/ some], "alias")
    BY <1>2 DEF ReadAliases
  <2> DEFINE rows == walk.rows \/ some
             new == [walk EXCEPT !.rows = rows]
  <2>2. rows \in BOOLEAN
    BY <1>0 DEF WalkState
  <2>3. walk' = AfterRead(new, "alias") /\ walk.pc = "read"
    BY <1>2, <2>1 DEF ReadAliases, Reading
  <2> HIDE DEF rows
  <2>4. new \in WalkState /\ new.pc = walk.pc
    BY <1>0, <2>2 DEF WalkState
  <2> HIDE DEF new
  <2> QED
    BY <2>3, <2>4, AfterReadOf DEF OnuTable
<1>3. CASE ReadSerials
  <2>1. PICK there \in SUBSET Position, some \in BOOLEAN :
          \E parsed \in SUBSET there :
            walk' = AfterRead([walk EXCEPT !.serial = parsed, !.truth = there,
                                           !.rows = walk.rows \/ some], "serial")
    BY <1>3 DEF ReadSerials
  <2>2. PICK parsed \in SUBSET there :
          walk' = AfterRead([walk EXCEPT !.serial = parsed, !.truth = there,
                                         !.rows = walk.rows \/ some], "serial")
    BY <2>1
  <2> DEFINE rows == walk.rows \/ some
             new == [walk EXCEPT !.serial = parsed, !.truth = there, !.rows = rows]
  <2>3. rows \in BOOLEAN
    BY <1>0 DEF WalkState
  <2>4. walk' = AfterRead(new, "serial") /\ walk.pc = "read"
    BY <1>3, <2>2 DEF ReadSerials, Reading
  <2> HIDE DEF rows
  <2>5. new \in WalkState /\ new.pc = walk.pc
    BY <1>0, <2>3 DEF WalkState
  <2> HIDE DEF new
  <2> QED
    BY <2>4, <2>5, AfterReadOf DEF OnuTable
<1>8. CASE ReadStatuses
  <2>1. PICK status \in StatusTable, some \in BOOLEAN :
          walk' = AfterRead([walk EXCEPT !.status = status, !.rows = walk.rows \/ some], "status")
    BY <1>8 DEF ReadStatuses
  <2> DEFINE rows == walk.rows \/ some
             new == [walk EXCEPT !.status = status, !.rows = rows]
  <2>2. rows \in BOOLEAN /\ status \in [Position -> Report]
    BY <1>0, StatusTableAssumption DEF WalkState
  <2>3. walk' = AfterRead(new, "status") /\ walk.pc = "read"
    BY <1>8, <2>1 DEF ReadStatuses, Reading
  <2> HIDE DEF rows
  <2>4. new \in WalkState /\ new.pc = walk.pc
    BY <1>0, <2>2 DEF WalkState
  <2> HIDE DEF new
  <2> QED
    BY <2>3, <2>4, AfterReadOf DEF OnuTable
<1>4. ASSUME NEW p \in Position, UpsertWalked(p) PROVE walk' \in WalkState /\ WalkOK'
  <2> DEFINE new == [walk EXCEPT !.todo = @ \ {p}, !.status[p] = "unknown"]
  <2>1. new \in WalkState /\ new.pc = walk.pc /\ new.todo = walk.todo \ {p}
        /\ new.serial = walk.serial /\ new.rows = walk.rows
    BY <1>0 DEF WalkState, Report
  <2>2. walk' = new
    BY <1>4 DEF UpsertWalked
  <2> HIDE DEF new
  <2> QED
    BY <2>1, <2>2 DEF WalkOK
<1>5. CASE ListRemoved
  <2> DEFINE gone == {p \in Position : Registered(p)} \ walk.serial
             new == [walk EXCEPT !.pc = "remove", !.todo = gone]
  <2>1. \/ walk' = NoWalk
        \/ walk' = new /\ ~(walk.rows /\ walk.serial = {})
    BY <1>5 DEF ListRemoved
  <2>2. /\ new \in WalkState /\ new.pc = "remove" /\ new.todo = gone
        /\ new.serial = walk.serial /\ new.truth = walk.truth /\ new.rows = walk.rows
    BY <1>0 DEF WalkState
  <2> HIDE DEF new
  <2>3. ASSUME walk' = new, ~(walk.rows /\ walk.serial = {}) PROVE WalkOK'
    BY <2>2, <2>3 DEF WalkOK
  <2> QED
    BY <2>1, <2>2, <2>3, NoWalkOK
<1>6. ASSUME NEW p \in Position, RemoveOnu(p) PROVE walk' \in WalkState /\ WalkOK'
  <2> DEFINE new == [walk EXCEPT !.todo = @ \ {p}]
  <2>1. /\ new \in WalkState /\ new.pc = walk.pc /\ new.todo = walk.todo \ {p}
        /\ new.serial = walk.serial /\ new.truth = walk.truth /\ new.rows = walk.rows
    BY <1>0 DEF WalkState
  <2>2. walk' = NoWalk \/ walk' = new
    BY <1>6 DEF RemoveOnu
  <2> HIDE DEF new
  <2>3. walk' = new => WalkOK'
    BY <2>1 DEF WalkOK
  <2> QED
    BY <2>1, <2>2, <2>3, NoWalkOK
<1>7. CASE WalkFails
  BY <1>7, NoWalkOK DEF WalkFails
<1> QED
  BY <1>1, <1>2, <1>3, <1>4, <1>5, <1>6, <1>7, <1>8

----------------------------------------------------------------------------
(* The invariant.                                                          *)

\* The initial states satisfy the inductive invariant.
LEMMA InitInv == Init => Inv
<1> SUFFICES ASSUME Init PROVE Inv
  OBVIOUS
<1>1. walk = NoWalk /\ NoWalk \in WalkState
  BY NoWalkOK DEF Init
<1>2. WalkOK
  BY <1>1 DEF NoWalk, WalkOK
<1>3. TypeOK
  BY <1>1 DEF Init, TypeOK, HandlerState
<1>4. \A h \in Handler : handler[h] = Idle /\ handler[h].pc = "idle"
  BY DEF Init, Idle
<1> QED
  BY <1>2, <1>3, <1>4 DEF Inv, HandlersOK, OwnAlarmCounted

\* A write of one status leaves the types alone.
LEMMA WriteKeepsType ==
    ASSUME TypeOK, NEW p \in Position, NEW s \in Status \cup {"absent"},
           onu' = [onu EXCEPT ![p] = s]
    PROVE  onu' \in [Position -> Status \cup {"absent"}]
BY DEF TypeOK

\* A handler ends: what is left of the others is as it was.
LEMMA EndKeepsInv ==
    ASSUME Inv, NEW h \in Handler, handler' = [handler EXCEPT ![h] = Idle],
           UNCHANGED <<active, walk>>, onu' \in [Position -> Status \cup {"absent"}]
    PROVE  Inv'
<1>1. /\ handler' \in [Handler -> HandlerState] /\ handler'[h] = Idle
      /\ \A g \in Handler : g # h => handler'[g] = handler[g]
  BY HandlerEnds DEF Inv
<1>2. TypeOK' /\ WalkOK'
  BY <1>1 DEF Inv, TypeOK, WalkOK
<1>3. Idle.pc = "idle"
  BY DEF Idle
<1> QED
  BY <1>1, <1>2, <1>3 DEF Inv, HandlersOK, OwnAlarmCounted, Justified, ReportedDown

\* A handler that goes on without a change to the alarms.
LEMMA GoOnKeepsInv ==
    ASSUME Inv, NEW h \in Handler, NEW pc, NEW down, NEW own, GoesOn(h, pc, down, own),
           handler[h] # Idle,
           pc \in {"ingest", "count", "write"} => ReportedDown(handler[h]),
           pc \in {"alias", "upsert"} =>
             handler[h].serial /\ Definition(handler[h].trap).event = "OnuProvisioned",
           own => <<handler[h].pos, handler[h].trap>> \in active,
           pc = "write" /\ own => down,
           UNCHANGED <<onu, active, walk>>
    PROVE  Inv'
<1>1. TypeOK' /\ WalkOK'
  BY DEF Inv, TypeOK, WalkOK, GoesOn
<1>2. HandlersOK'
  <2> SUFFICES ASSUME NEW g \in Handler, handler'[g] # Idle
               PROVE  /\ Justified(handler'[g])
                      /\ handler'[g].own => <<handler'[g].pos, handler'[g].trap>> \in active
    BY DEF HandlersOK, Justified, ReportedDown
  <2>1. CASE g = h
    BY <2>1 DEF GoesOn, Justified, ReportedDown
  <2>2. CASE g # h
    BY <2>2 DEF GoesOn, Inv, HandlersOK
  <2> QED
    BY <2>1, <2>2
<1>3. OwnAlarmCounted'
  BY DEF GoesOn, Inv, OwnAlarmCounted
<1> QED
  BY <1>1, <1>2, <1>3 DEF Inv

\* Alarms ds of position p are lowered, and the handlers whose they were disowned.
LEMMA LowerKeepsInv ==
    ASSUME Inv, NEW p \in Position, NEW ds, active' = active \ ({p} \X ds),
           handler' = Disown(p, ds, handler),
           onu' \in [Position -> Status \cup {"absent"}],
           walk' \in WalkState /\ WalkOK'
    PROVE  Inv'
<1>1. handler \in [Handler -> HandlerState] /\ active \in SUBSET (Position \X DownTrap)
  BY DEF Inv, TypeOK
<1>2. handler' \in [Handler -> HandlerState]
  BY <1>1, DisownType
<1>3. TypeOK'
  BY <1>1, <1>2 DEF Inv, TypeOK
<1>4. ASSUME NEW g \in Handler
      PROVE  /\ handler'[g] # Idle <=> handler[g] # Idle
             /\ handler[g] # Idle =>
                  /\ handler'[g].pc = handler[g].pc /\ handler'[g].pos = handler[g].pos
                  /\ handler'[g].trap = handler[g].trap /\ handler'[g].down = handler[g].down
                  /\ handler'[g].serial = handler[g].serial
                  /\ handler'[g].own =>
                       handler[g].own /\ ~(handler[g].pos = p /\ handler[g].trap \in ds)
  BY <1>1, DisownKeeps
<1>5. HandlersOK'
  <2> SUFFICES ASSUME NEW g \in Handler, handler'[g] # Idle
               PROVE  /\ Justified(handler'[g])
                      /\ handler'[g].own => <<handler'[g].pos, handler'[g].trap>> \in active'
    BY DEF HandlersOK, Justified, ReportedDown
  <2>1. Justified(handler[g])
    BY <1>4 DEF Inv, HandlersOK
  <2>2. handler'[g].own => <<handler[g].pos, handler[g].trap>> \in active
                           /\ ~(handler[g].pos = p /\ handler[g].trap \in ds)
    BY <1>4 DEF Inv, HandlersOK
  <2> QED
    BY <1>4, <2>1, <2>2 DEF Justified, ReportedDown
<1>6. OwnAlarmCounted'
  <2> SUFFICES ASSUME NEW g \in Handler, handler'[g].pc = "write", handler'[g].own
               PROVE  handler'[g].down
    BY DEF OwnAlarmCounted
  <2>1. handler[g] # Idle
    BY <1>4 DEF Idle
  <2> QED
    BY <1>4, <2>1 DEF Inv, OwnAlarmCounted
<1> QED
  BY <1>3, <1>5, <1>6 DEF Inv

\* A trap starts a handler; it stands for an alarm of its own later.
LEMMA ArriveKeepsInv ==
    ASSUME Inv, NEW h \in Handler, NEW p \in Position, NEW n \in Notification,
           TrapArrives(h, p, n)
    PROVE  Inv'
<1>0. <<p, n>> \in Notice
  BY DEF TrapArrives
<1>1. PICK call \in Calls(n) :
        handler' = [handler EXCEPT ![h] =
                      [pc |-> FirstStep(call), pos |-> p, trap |-> n.oid, op |-> Condition(n),
                       serial |-> HasSerial(n), down |-> FALSE, own |-> FALSE]]
  BY DEF TrapArrives
<1>2. /\ call \in {"upsertOnuFromProvisionedTrap", "updateOnuStatusFromTrap",
                   "reconcileOnuStatusFromAlarms"}
      /\ n.oid \in TrapOid /\ n.trusted /\ HasPosition(n)
      /\ call = "reconcileOnuStatusFromAlarms" => n.oid \in ONU_DOWN_TRAP_OIDS
      /\ call = "upsertOnuFromProvisionedTrap" =>
           HasSerial(n) /\ Definition(n.oid).event = "OnuProvisioned"
  BY CallsOf
<1> DEFINE pc == FirstStep(call)
           new == [pc |-> pc, pos |-> p, trap |-> n.oid, op |-> Condition(n),
                   serial |-> HasSerial(n), down |-> FALSE, own |-> FALSE]
<1>3. /\ pc \in {"ingest", "blacklist", "alias"}
      /\ pc = "ingest" => call = "reconcileOnuStatusFromAlarms"
      /\ pc = "alias" => call = "upsertOnuFromProvisionedTrap"
  BY <1>2 DEF FirstStep
<1>4. Condition(n) \in {"SET", "CLEAR"} /\ HasSerial(n) \in BOOLEAN
  BY DEF Condition, HasSerial
<1> HIDE DEF pc
<1>5. new \in Busy /\ new.pc = pc /\ new.pos = p /\ new.trap = n.oid
      /\ new.serial = HasSerial(n) /\ ~new.own
  BY <1>2, <1>3, <1>4 DEF Busy
<1>6. handler' = [handler EXCEPT ![h] = new]
  BY <1>1 DEF pc
<1> HIDE DEF new
<1>7. handler' \in [Handler -> HandlerState]
  BY <1>5, <1>6 DEF Inv, TypeOK, HandlerState, Busy
<1>8. handler'[h] = new /\ \A g \in Handler : g # h => handler'[g] = handler[g]
  BY <1>6 DEF Inv, TypeOK
<1>9. TypeOK' /\ WalkOK'
  BY <1>7 DEF TrapArrives, Inv, TypeOK, WalkOK
<1>10. pc = "ingest" => ReportedDown(new)
  <2> <<p, n>>[1] = p /\ <<p, n>>[2] = n
    OBVIOUS
  <2> QED
    BY <1>0, <1>2, <1>3, <1>5 DEF ReportedDown
<1>13. Justified(new)
  BY <1>2, <1>3, <1>5, <1>10 DEF Justified
<1>11. HandlersOK'
  BY <1>5, <1>8, <1>13 DEF TrapArrives, Inv, HandlersOK, Justified, ReportedDown
<1>12. OwnAlarmCounted'
  BY <1>5, <1>8 DEF Inv, OwnAlarmCounted
<1> QED
  BY <1>9, <1>11, <1>12 DEF Inv

\* An ingest raises its alarm and stands for it, or lowers it and takes it from
\* those who did.
LEMMA IngestKeepsInv ==
    ASSUME Inv, NEW h \in Handler, Ingest(h) PROVE Inv'
<1> DEFINE p == handler[h].pos
           d == handler[h].trap
<1>1. handler[h] \in Busy /\ handler[h] # Idle /\ handler \in [Handler -> HandlerState]
  BY AtWork DEF Ingest, Inv, TypeOK
<1>2. p \in Position /\ d \in DownTrap /\ ReportedDown(handler[h])
  BY <1>1 DEF Busy, Ingest, Inv, HandlersOK, Justified, ReportedDown, DownTrap
<1>3. handler[h].op \in {"SET", "CLEAR"}
  BY <1>1 DEF Busy
<1>4. CASE handler[h].op = "SET"
  <2>1. active' = active \cup {<<p, d>>} /\ UNCHANGED <<onu, walk>>
    BY <1>4 DEF Ingest
  <2>2. handler' = [handler EXCEPT ![h] = [handler[h] EXCEPT !.pc = "count", !.own = TRUE]]
    BY <1>4 DEF Ingest
  <2>3. [handler[h] EXCEPT !.pc = "count", !.own = TRUE]
          = [handler[h] EXCEPT !.pc = "count", !.down = handler[h].down, !.own = TRUE]
    BY <1>1 DEF Busy
  <2>4. handler[h].down \in BOOLEAN
    BY <1>1 DEF Busy
  <2>5. GoesOn(h, "count", handler[h].down, TRUE)
    BY <1>1, <2>2, <2>3, <2>4, HandlerGoesOn DEF Inv
  <2> HIDE DEF p, d
  <2>6. TypeOK' /\ WalkOK'
    BY <1>2, <2>1, <2>5 DEF Inv, TypeOK, WalkOK, GoesOn
  <2>7. HandlersOK'
    <3> SUFFICES ASSUME NEW g \in Handler, handler'[g] # Idle
                 PROVE  /\ Justified(handler'[g])
                        /\ handler'[g].own => <<handler'[g].pos, handler'[g].trap>> \in active'
      BY DEF HandlersOK, Justified, ReportedDown
    <3>1. CASE g = h
      BY <1>2, <2>1, <2>5, <3>1 DEF GoesOn, Justified, ReportedDown, p, d
    <3>2. CASE g # h
      BY <2>1, <2>5, <3>2 DEF GoesOn, Inv, HandlersOK
    <3> QED
      BY <3>1, <3>2
  <2>8. OwnAlarmCounted'
    BY <2>5 DEF GoesOn, Inv, OwnAlarmCounted
  <2> QED
    BY <2>6, <2>7, <2>8 DEF Inv
<1>5. CASE handler[h].op = "CLEAR"
  <2> DEFINE hs == [handler EXCEPT ![h] = [handler[h] EXCEPT !.pc = "count"]]
             t == [handler[h] EXCEPT !.pc = "count"]
  <2>1. active' = active \ {<<p, d>>} /\ UNCHANGED <<onu, walk>>
    BY <1>5 DEF Ingest
  <2>2. handler' = Disown(p, {d}, hs)
    BY <1>5 DEF Ingest
  <2>3. /\ t \in Busy /\ t.pc = "count" /\ t.pos = p /\ t.trap = d
        /\ t.down = handler[h].down /\ t.own = handler[h].own
    BY <1>1 DEF Busy
  <2>4. t # Idle /\ t \in HandlerState
    BY <2>3, BusyIsNotIdle DEF Busy, HandlerState
  <2>5. hs = [handler EXCEPT ![h] = t]
    OBVIOUS
  <2> HIDE DEF t
  <2>6. /\ hs \in [Handler -> HandlerState] /\ hs[h] = t
        /\ \A g \in Handler : g # h => hs[g] = handler[g]
    BY <1>1, <2>4, <2>5
  <2> HIDE DEF hs, p, d
  <2>7. handler' \in [Handler -> HandlerState]
    BY <2>2, <2>6, DisownType
  <2>8. ASSUME NEW g \in Handler
        PROVE  /\ handler'[g] # Idle <=> hs[g] # Idle
               /\ hs[g] # Idle =>
                    /\ handler'[g].pc = hs[g].pc /\ handler'[g].pos = hs[g].pos
                    /\ handler'[g].trap = hs[g].trap /\ handler'[g].down = hs[g].down
                    /\ handler'[g].serial = hs[g].serial
                    /\ handler'[g].own => hs[g].own /\ ~(hs[g].pos = p /\ hs[g].trap \in {d})
    BY <2>2, <2>6, DisownKeeps
  <2>9. TypeOK' /\ WalkOK'
    BY <2>1, <2>7 DEF Inv, TypeOK, WalkOK
  <2>10. HandlersOK'
    <3> SUFFICES ASSUME NEW g \in Handler, handler'[g] # Idle
                 PROVE  /\ Justified(handler'[g])
                        /\ handler'[g].own => <<handler'[g].pos, handler'[g].trap>> \in active'
      BY DEF HandlersOK, Justified, ReportedDown
    <3>1. CASE g = h
      BY <1>2, <2>3, <2>6, <2>8, <3>1 DEF Justified, ReportedDown, p, d
    <3>2. CASE g # h
      <4>1. hs[g] = handler[g] /\ handler[g] # Idle
        BY <2>6, <2>8, <3>2
      <4>2. handler[g].own => <<handler[g].pos, handler[g].trap>> \in active
        BY <4>1 DEF Inv, HandlersOK
      <4>3. Justified(handler[g])
        BY <4>1 DEF Inv, HandlersOK
      <4> QED
        BY <2>1, <2>8, <4>1, <4>2, <4>3 DEF Justified, ReportedDown
    <3> QED
      BY <3>1, <3>2
  <2>11. OwnAlarmCounted'
    <3> SUFFICES ASSUME NEW g \in Handler, handler'[g].pc = "write", handler'[g].own
                 PROVE  handler'[g].down
      BY DEF OwnAlarmCounted
    <3>1. hs[g] # Idle /\ g # h
      BY <2>3, <2>4, <2>6, <2>8 DEF Idle
    <3> QED
      BY <2>6, <2>8, <3>1 DEF Inv, OwnAlarmCounted
  <2> QED
    BY <2>9, <2>10, <2>11 DEF Inv
<1> QED
  BY <1>3, <1>4, <1>5

\* The count sees the handler's own alarm, if it stands.
LEMMA CountKeepsInv ==
    ASSUME Inv, NEW h \in Handler, CountDownAlarms(h) PROVE Inv'
<1> DEFINE down == DownAlarms(handler[h].pos) # {}
<1>1. handler[h] \in Busy /\ handler[h] # Idle
  BY AtWork DEF CountDownAlarms, Inv
<1>2. handler' = [handler EXCEPT ![h] = [handler[h] EXCEPT !.pc = "write", !.down = down]]
  BY DEF CountDownAlarms
<1>3. down \in BOOLEAN /\ handler[h].own \in BOOLEAN
  BY <1>1 DEF Busy
<1>4. handler[h].own => down
  BY <1>1 DEF Inv, HandlersOK, TypeOK, DownAlarms
<1> HIDE DEF down
<1>5. [handler[h] EXCEPT !.pc = "write", !.down = down]
        = [handler[h] EXCEPT !.pc = "write", !.down = down, !.own = handler[h].own]
  BY <1>1 DEF Busy
<1>6. GoesOn(h, "write", down, handler[h].own)
  BY <1>1, <1>2, <1>3, <1>5, HandlerGoesOn DEF Inv
<1>7. handler[h].pc = "count" /\ UNCHANGED <<onu, active, walk>>
  BY DEF CountDownAlarms
<1>8. ReportedDown(handler[h]) /\ (handler[h].own => <<handler[h].pos, handler[h].trap>> \in active)
  BY <1>1, <1>7 DEF Inv, HandlersOK, Justified
<1> QED
  BY <1>1, <1>4, <1>6, <1>7, <1>8, GoOnKeepsInv

\* IngestFails and GetAlias only go on.
LEMMA PcKeepsInv ==
    ASSUME Inv, NEW h \in Handler, IngestFails(h) \/ GetAlias(h) PROVE Inv'
<1>1. handler[h] \in Busy /\ handler[h] # Idle
  BY AtWork DEF IngestFails, GetAlias, Inv
<1>2. PICK pc \in {"count", "upsert"} :
        /\ handler' = [handler EXCEPT ![h] = [handler[h] EXCEPT !.pc = pc]]
        /\ pc = "count" => handler[h].pc = "ingest"
        /\ pc = "upsert" => handler[h].pc = "alias"
  BY DEF IngestFails, GetAlias
<1>3. handler[h].down \in BOOLEAN /\ handler[h].own \in BOOLEAN
  BY <1>1 DEF Busy
<1>4. [handler[h] EXCEPT !.pc = pc]
        = [handler[h] EXCEPT !.pc = pc, !.down = handler[h].down, !.own = handler[h].own]
  BY <1>1 DEF Busy
<1>5. GoesOn(h, pc, handler[h].down, handler[h].own)
  BY <1>1, <1>2, <1>3, <1>4, HandlerGoesOn DEF Inv
<1>6. /\ pc = "count" => ReportedDown(handler[h])
      /\ pc = "upsert" =>
           handler[h].serial /\ Definition(handler[h].trap).event = "OnuProvisioned"
      /\ handler[h].own => <<handler[h].pos, handler[h].trap>> \in active
  BY <1>1, <1>2 DEF Inv, HandlersOK, Justified
<1> QED
  BY <1>1, <1>2, <1>5, <1>6, GoOnKeepsInv DEF IngestFails, GetAlias

\* The steps of the walk, but for the removal, leave handlers and alarms alone.
LEMMA WalkKeepsInv ==
    ASSUME Inv, UNCHANGED <<active, handler>>,
           walk' \in WalkState, WalkOK',
           onu' \in [Position -> Status \cup {"absent"}]
    PROVE  Inv'
BY DEF Inv, TypeOK, HandlersOK, Justified, ReportedDown, OwnAlarmCounted

LEMMA InvStep == Inv /\ [Next]_vars => Inv'
<1> SUFFICES ASSUME Inv, [Next]_vars PROVE Inv'
  OBVIOUS
<1> TypeOK /\ WalkOK
  BY DEF Inv
<1>1. ASSUME NEW h \in Handler, NEW x \in Notice, TrapArrives(h, x[1], x[2]) PROVE Inv'
  <2>1. x[1] \in Position /\ x[2] \in Notification
    BY NoticeAssumption
  <2> QED
    BY <1>1, <2>1, ArriveKeepsInv
<1>2. ASSUME NEW h \in Handler, Ingest(h) PROVE Inv'
  BY <1>2, IngestKeepsInv
<1>3. ASSUME NEW h \in Handler, IngestFails(h) \/ GetAlias(h) PROVE Inv'
  BY <1>3, PcKeepsInv
<1>4. ASSUME NEW h \in Handler, CountDownAlarms(h) PROVE Inv'
  BY <1>4, CountKeepsInv
<1>5. ASSUME NEW h \in Handler,
             WriteStatus(h) \/ WriteBlacklist(h) \/ UpsertProvisioned(h) \/ HandlerFails(h)
      PROVE  Inv'
  <2>1. handler[h].pc # "idle"
    BY <1>5 DEF WriteStatus, WriteBlacklist, UpsertProvisioned, HandlerFails
  <2>2. handler[h].pos \in Position
    BY <2>1, AtWork DEF Busy
  <2>3. onu' \in [Position -> Status \cup {"absent"}]
    BY <1>5, <2>2
       DEF WriteStatus, WriteBlacklist, UpsertProvisioned, HandlerFails, TypeOK, Status
  <2> QED
    BY <1>5, <2>3, EndKeepsInv DEF WriteStatus, WriteBlacklist, UpsertProvisioned, HandlerFails
<1>6. ASSUME \/ StartWalk \/ ReadAliases \/ ReadSerials \/ ReadStatuses
             \/ ListRemoved \/ WalkFails
      PROVE  Inv'
  <2>1. UNCHANGED <<onu, active, handler>>
    BY <1>6 DEF StartWalk, ReadAliases, ReadSerials, ReadStatuses, ListRemoved, WalkFails
  <2> QED
    BY <1>6, <2>1, WalkSteps, WalkKeepsInv DEF TypeOK
<1>7. ASSUME NEW p \in Position, UpsertWalked(p) PROVE Inv'
  <2>1. walk.status[p] \in Report
    BY DEF TypeOK, WalkState
  <2>2. onu' \in [Position -> Status \cup {"absent"}]
    BY <1>7, <2>1 DEF UpsertWalked, TypeOK, Report, Status, Registered
  <2> QED
    BY <1>7, <2>2, WalkSteps, WalkKeepsInv DEF UpsertWalked, TypeOK
<1>8. ASSUME NEW p \in Position, RemoveOnu(p) PROVE Inv'
  <2>1. PICK linked \in SUBSET DownAlarms(p) :
          active' = active \ ({p} \X linked) /\ handler' = Disown(p, linked, handler)
    BY <1>8 DEF RemoveOnu
  <2>2. onu' \in [Position -> Status \cup {"absent"}]
    BY <1>8 DEF RemoveOnu, TypeOK
  <2> QED
    BY <1>8, <2>1, <2>2, WalkSteps, LowerKeepsInv DEF RemoveOnu
<1>9. ASSUME NEW p \in Position, NEW d \in DownTrap, OperatorClears(p, d) PROVE Inv'
  <2>1. active' = active \ ({p} \X {d}) /\ walk' = walk /\ onu' = onu
    BY <1>9 DEF OperatorClears, TypeOK
  <2>2. walk' \in WalkState /\ WalkOK'
    BY <2>1 DEF TypeOK, WalkOK
  <2> QED
    BY <1>9, <2>1, <2>2, LowerKeepsInv DEF OperatorClears, TypeOK
<1>10. ASSUME UNCHANGED vars PROVE Inv'
  BY <1>10, WalkKeepsInv DEF vars, TypeOK, WalkOK
<1> QED
  BY <1>1, <1>2, <1>3, <1>4, <1>5, <1>6, <1>7, <1>8, <1>9, <1>10 DEF Next

----------------------------------------------------------------------------
(* The theorems.                                                           *)

\* The inductive invariant holds in every state.
THEOREM Invariance == Spec => []Inv
BY InitInv, InvStep, PTL DEF Spec

\* Every variable keeps its type: in particular only traps that take an ONU
\* down enter the table the reconciliation counts.
THEOREM TypeCorrect == Spec => []TypeOK
BY Invariance, PTL DEF Inv

\* reconcileOnuStatusFromAlarms never misses the alarm of its own trap, however
\* many other traps, operators and walks change the table before it counts.
THEOREM CountsItsOwn == Spec => []OwnAlarmCounted
BY Invariance, PTL DEF Inv

\* Who may write the status of an ONU, and what: the four action properties below
\* read it off.
Writes(p) ==
    \/ onu'[p] = onu[p]
    \/ \E h \in Handler :
         /\ handler[h].pc = "write" /\ handler[h].pos = p
         /\ onu[p] \notin {"absent", "DISABLE"}
         /\ onu'[p] = IF handler[h].down THEN "INACTIVE" ELSE "ACTIVE"
    \/ onu[p] # "absent" /\ onu'[p] = "DISABLE"
    \/ \E h \in Handler : handler[h].pc = "upsert" /\ handler[h].pos = p /\ onu'[p] = "ACTIVE"
    \/ /\ walk.pc = "upsert" /\ p \in walk.todo
       /\ \/ onu'[p] = walk.status[p]
          \/ onu[p] = "absent" /\ onu'[p] = "INACTIVE"
    \/ walk.pc = "remove" /\ p \in walk.todo /\ onu'[p] = "absent"

LEMMA StatusWriters ==
    ASSUME Inv, [Next]_vars, NEW p \in Position PROVE Writes(p)
<1> TypeOK
  BY DEF Inv
<1>1. ASSUME NEW h \in Handler, WriteStatus(h) PROVE Writes(p)
  BY <1>1 DEF WriteStatus, TypeOK, Writes
<1>2. ASSUME NEW h \in Handler, WriteBlacklist(h) PROVE Writes(p)
  BY <1>2 DEF WriteBlacklist, Registered, TypeOK, Writes
<1>3. ASSUME NEW h \in Handler, UpsertProvisioned(h) PROVE Writes(p)
  BY <1>3 DEF UpsertProvisioned, TypeOK, Writes
<1>4. ASSUME NEW q \in Position, UpsertWalked(q) PROVE Writes(p)
  BY <1>4 DEF UpsertWalked, Registered, TypeOK, Writes
<1>5. ASSUME NEW q \in Position, RemoveOnu(q) PROVE Writes(p)
  BY <1>5 DEF RemoveOnu, TypeOK, Writes
<1>6. ASSUME UNCHANGED onu PROVE Writes(p)
  BY <1>6 DEF Writes
<1> QED
  BY <1>1, <1>2, <1>3, <1>4, <1>5, <1>6
     DEF Next, vars, TrapArrives, Ingest, IngestFails, CountDownAlarms, GetAlias, HandlerFails,
         StartWalk, ReadAliases, ReadSerials, ReadStatuses, ListRemoved, WalkFails, OperatorClears

\* Blacklisting (updateOnuStatusFromTrap) survives every reconciliation: only a
\* pROVISIONED trap, a walk that reports another status or the removal ends it.
THEOREM BlacklistingSurvives == Spec => OnlyOltLiftsDisable
<1>1. Inv /\ [Next]_vars =>
        [\A p \in Position : onu[p] = "DISABLE" /\ onu'[p] # "DISABLE" =>
          \/ onu'[p] = "absent"
          \/ walk.pc = "upsert" /\ walk.status[p] = onu'[p]
          \/ \E h \in Handler : handler[h].pc = "upsert" /\ handler[h].pos = p]_vars
  BY StatusWriters DEF Writes
<1> QED
  BY Invariance, <1>1, PTL DEF Spec, OnlyOltLiftsDisable

\* A row of the table Onu comes from a serial: that of a pROVISIONED trap or of a
\* row of the walk's serial table; a trap without one registers nothing, nor does
\* the updateMany of a status trap.
THEOREM SerialRegisters == Spec => OnlySerialRegisters
<1>1. Inv /\ [Next]_vars =>
        [\A p \in Position : onu[p] = "absent" /\ onu'[p] # "absent" =>
          \/ walk.pc = "upsert" /\ p \in walk.serial
          \/ \E h \in Handler :
               /\ handler[h].pc = "upsert" /\ handler[h].pos = p
               /\ handler[h].serial /\ Definition(handler[h].trap).event = "OnuProvisioned"]_vars
  <2>1. Inv => (walk.pc = "upsert" => walk.todo \subseteq walk.serial)
    BY DEF Inv, WalkOK
  <2>2. ASSUME Inv, NEW h \in Handler, handler[h].pc = "upsert"
        PROVE  handler[h].serial /\ Definition(handler[h].trap).event = "OnuProvisioned"
    <3>1. handler[h] # Idle
      BY <2>2, AtWork DEF Inv
    <3> QED
      BY <2>2, <3>1 DEF Inv, HandlersOK, Justified
  <2> QED
    BY <2>1, <2>2, StatusWriters DEF Writes
<1> QED
  BY Invariance, <1>1, PTL DEF Spec, OnlySerialRegisters

\* reconcileRemovedOnus archives no ONU whose serial the walk read, and none at all
\* when rows came but no serial could be read (the safety net).
THEOREM NoFalseRemoval == Spec => ArchivedWasNotRead
<1>1. Inv /\ [Next]_vars =>
        [\A p \in Position : onu[p] # "absent" /\ onu'[p] = "absent" =>
          /\ p \notin walk.serial
          /\ p \in walk.truth => walk.serial # {} \/ ~walk.rows]_vars
  <2> SUFFICES ASSUME Inv, [Next]_vars, NEW p \in Position, onu[p] # "absent", onu'[p] = "absent"
               PROVE  p \notin walk.serial /\ (walk.serial # {} \/ ~walk.rows)
    OBVIOUS
  <2>1. walk.pc = "upsert" => walk.status[p] # "absent"
    BY DEF Inv, TypeOK, WalkState, Report, Status
  <2>2. walk.pc = "remove" /\ p \in walk.todo
    BY <2>1, StatusWriters DEF Writes
  <2> QED
    BY <2>2 DEF Inv, WalkOK
<1> QED
  BY Invariance, <1>1, PTL DEF Spec, ArchivedWasNotRead

\* An ONU is taken down by a trusted outage of its own position or by the walk.
THEOREM OutagesAlone == Spec => OnlyOutagesLowerOnu
<1>1. Inv /\ [Next]_vars =>
        [\A p \in Position :
         onu[p] = "ACTIVE" /\ onu'[p] = "INACTIVE" =>
           \/ walk.pc = "upsert"
           \/ \E n \in {x[2] : x \in {y \in Notice : y[1] = p}}, h \in Handler :
                /\ handler[h] # Idle /\ handler[h].pos = p /\ handler[h].trap = n.oid
                /\ n.trusted /\ n.oid \in Outage /\ HasPosition(n)]_vars
  <2> SUFFICES ASSUME Inv, [Next]_vars, NEW p \in Position,
                      onu[p] = "ACTIVE", onu'[p] = "INACTIVE", walk.pc # "upsert"
               PROVE  \E n \in {x[2] : x \in {y \in Notice : y[1] = p}}, h \in Handler :
                        /\ handler[h] # Idle /\ handler[h].pos = p /\ handler[h].trap = n.oid
                        /\ n.trusted /\ n.oid \in Outage /\ HasPosition(n)
    OBVIOUS
  <2>1. PICK h \in Handler : handler[h].pc = "write" /\ handler[h].pos = p
    BY StatusWriters DEF Writes
  <2>2. handler[h] # Idle
    BY <2>1, AtWork DEF Inv
  <2>3. ReportedDown(handler[h])
    BY <2>1, <2>2 DEF Inv, HandlersOK, Justified
  <2>4. PICK x \in Notice :
          /\ x[1] = p /\ x[2].oid = handler[h].trap
          /\ x[2].trusted /\ HasPosition(x[2]) /\ x[2].oid \in ONU_DOWN_TRAP_OIDS
    BY <2>1, <2>3 DEF ReportedDown
  <2>5. x[2] \in {y[2] : y \in {z \in Notice : z[1] = p}}
    BY <2>4
  <2> QED
    BY <2>1, <2>2, <2>4, <2>5, DownTrapsAreOutages
<1> QED
  BY Invariance, <1>1, PTL DEF Spec, OnlyOutagesLowerOnu
=============================================================================
