----------------------------- MODULE MCOnuStatus -----------------------------
(* Small instances of OnuStatus for TLC. *)
EXTENDS OnuStatus, TLC

CONSTANT p1       \* the ONU that sends traps; the others are seen by walks only

AlarmAt == {"oltAlarmPortNo", "oltAlarmLogicalPortNo"}
EventAt == {"oltEventPortNo", "oltEventLogicalPortNo"}

Trap(group, i, objects, condition) ==
    [error |-> FALSE, oid |-> [group |-> group, index |-> i], trusted |-> TRUE,
     objects |-> objects, condition |-> condition]
OnuAlarm(i, objects, condition) == Trap("oltOnuAlarmIndication", i, objects, condition)
OnuEvent(i, objects) == Trap("oltOnuEventIndication", i, objects, "none")

\* lOSi, raised and cleared, and dGi; sDi and lANLOS, which the status ignores;
\* a blacklisting; a provisioning with and without a serial ...
Reported ==
    {OnuAlarm(1, AlarmAt, "0"), OnuAlarm(1, AlarmAt, "1"), OnuAlarm(9, AlarmAt, "1")}
        \cup {OnuAlarm(i, AlarmAt, "none") : i \in {3, 23}}
        \cup {OnuEvent(6, EventAt), OnuEvent(7, EventAt),
              OnuEvent(7, EventAt \cup {"oltOnuSerialNumber"})}

\* ... and what never gets as far: an unknown source, no ONU position, an
\* index past the table, no OID, a broken packet.
Dropped ==
    {[OnuAlarm(2, AlarmAt, "1") EXCEPT !.trusted = FALSE],
     OnuAlarm(15, {"oltAlarmPortNo"}, "1"),
     OnuAlarm(47, AlarmAt, "1"),
     [OnuAlarm(13, AlarmAt, "1") EXCEPT !.oid = NoOid],
     [OnuAlarm(16, AlarmAt, "1") EXCEPT !.error = TRUE]}

MCNotice == {p1} \X (Reported \cup Dropped)

\* Only the status of that ONU is ever reported.
MCStatusTable == {t \in [Position -> Report] : \A p \in Position \ {p1} : t[p] = "unknown"}

Symmetry == Permutations(Handler)
=============================================================================
