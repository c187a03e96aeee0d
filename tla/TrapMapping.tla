----------------------------- MODULE TrapMapping -----------------------------
(***************************************************************************)
(* parks-trap-mapping.ts: what each notification of GPON-OLT-FAULT.mib is  *)
(* to OltGuard.  A trap is its group and its index in the group; the names *)
(* and descriptions of the MIB are left out.                               *)
(***************************************************************************)
EXTENDS Naturals

Group == {"oltSystemAlarmIndication", "oltSystemAvcIndication",
          "oltPonLinkAlarmIndication", "oltPonLinkEventIndication",
          "oltOnuAlarmIndication", "oltOnuEventIndication"}

OltInternalEvent ==
    {"OnuDiscovered", "OnuProvisioned", "OnuDown", "OnuBlacklisted", "OnuSignalLoss",
     "OnuSignalFail", "OnuSignalDegrade", "OnuPowerLoss", "OnuStatusChanged", "OnuLanLoss",
     "OnuAlarm", "OnuPerformanceTca", "OnuEvent", "PonLinkDown", "PonLinkFault",
     "PonLinkPerformanceTca", "PonLinkEvent", "OltSystemFault"}

Severity == {"info", "minor", "major", "critical"}

ParksTrapDefinition == [isAlarm : BOOLEAN, severity : Severity, event : OltInternalEvent]

alarmEntry(severity, event) == [isAlarm |-> TRUE, severity |-> severity, event |-> event]
eventEntry(severity, event) == [isAlarm |-> FALSE, severity |-> severity, event |-> event]

----------------------------------------------------------------------------
(* The six groups of the table, by index.                                  *)

SystemAlarms == [i \in 1..7 |-> alarmEntry("critical", "OltSystemFault")]

SystemAvcs == [i \in 1..4 |-> eventEntry("info", "OnuStatusChanged")]

PonLinkAlarms ==
    [i \in 1..4 |->
        CASE i = 1 -> alarmEntry("critical", "PonLinkDown")
          [] i \in {2, 3} -> alarmEntry("major", "PonLinkPerformanceTca")
          [] i = 4 -> alarmEntry("major", "PonLinkFault")]

PonLinkEvents == [i \in 1..3 |-> eventEntry(IF i = 1 THEN "critical" ELSE "info", "PonLinkEvent")]

OnuAlarmSeverity(i) ==
    CASE i \in {1, 2, 6, 7, 9} -> "critical"
      [] i \in {5, 8, 10} -> "minor"
      [] OTHER -> "major"

OnuAlarmEvent(i) ==
    CASE i = 1 -> "OnuSignalLoss"
      [] i = 2 -> "OnuSignalFail"
      [] i = 3 -> "OnuSignalDegrade"
      [] i \in {9, 21, 22} \cup (15..18) -> "OnuPowerLoss"
      [] i = 13 -> "OnuDown"
      [] i = 23 -> "OnuLanLoss"
      [] i \in 26..45 -> "OnuPerformanceTca"
      [] OTHER -> "OnuAlarm"

OnuAlarms == [i \in 1..46 |-> alarmEntry(OnuAlarmSeverity(i), OnuAlarmEvent(i))]

OnuEvents ==
    [i \in 1..10 |->
        eventEntry(CASE i \in 1..3 -> "critical" [] i = 4 -> "major" [] i = 8 -> "minor" [] OTHER -> "info",
                   CASE i = 5 -> "OnuDiscovered" [] i = 6 -> "OnuBlacklisted"
                     [] i = 7 -> "OnuProvisioned" [] OTHER -> "OnuEvent")]

PARKS_TRAP_MAP ==
    [oltSystemAlarmIndication |-> SystemAlarms,
     oltSystemAvcIndication |-> SystemAvcs,
     oltPonLinkAlarmIndication |-> PonLinkAlarms,
     oltPonLinkEventIndication |-> PonLinkEvents,
     oltOnuAlarmIndication |-> OnuAlarms,
     oltOnuEventIndication |-> OnuEvents]

\* An OID of one of the groups; an index past the end of the table is unmapped.
TrapOid == [group : Group, index : 1..47]
Mapped(oid) == oid.index \in DOMAIN PARKS_TRAP_MAP[oid.group]
Definition(oid) == PARKS_TRAP_MAP[oid.group][oid.index]

\* (mutant: a degraded signal counted as an outage)
DownEventsWithDegraded ==
    {"OnuDown", "OnuSignalLoss", "OnuSignalFail", "OnuSignalDegrade", "OnuPowerLoss"}

ONU_DOWN_EVENTS == {"OnuDown", "OnuSignalLoss", "OnuSignalFail", "OnuPowerLoss"}

ONU_DOWN_TRAP_OIDS ==
    {oid \in TrapOid :
        Mapped(oid) /\ Definition(oid).isAlarm /\ Definition(oid).event \in ONU_DOWN_EVENTS}
=============================================================================
