----------------------------- MODULE TrapIntake -----------------------------
(***************************************************************************)
(* TrapReceiverService.processNotification: what becomes of one            *)
(* notification, and which calls it ends in.  A varbind of the indication  *)
(* is its name in `objects`; its value matters for the condition alone.    *)
(***************************************************************************)
EXTENDS TrapMapping

NoOid == [group |-> "none", index |-> 0]

IndicationObject ==
    {"oltAlarmPortNo", "oltEventPortNo", "oltAlarmLogicalPortNo", "oltEventLogicalPortNo",
     "oltOnuSerialNumber"}

Notification ==
    [error : BOOLEAN,                      \* net-snmp could not read the packet
     oid : TrapOid \cup {NoOid},           \* the value of snmpTrapOID, if there is one
     trusted : BOOLEAN,                    \* validateTrap accepted its source
     objects : SUBSET IndicationObject,    \* varbinds with a number (or a serial) in them
     condition : {"0", "1", "none"}]       \* oltAlarmCondition

Outcome(n) ==
    CASE n.error -> "REJECTED"
      [] ~n.error /\ n.oid = NoOid -> "IGNORED"
      [] ~n.error /\ n.oid # NoOid /\ ~n.trusted -> "REJECTED"
      [] ~n.error /\ n.oid # NoOid /\ n.trusted /\ ~Mapped(n.oid) -> "UNMAPPED"
      [] OTHER -> "ACCEPTED"

HasPort(n) == n.objects \cap {"oltAlarmPortNo", "oltEventPortNo"} # {}
HasPosition(n) ==
    HasPort(n) /\ n.objects \cap {"oltAlarmLogicalPortNo", "oltEventLogicalPortNo"} # {}
HasSerial(n) == "oltOnuSerialNumber" \in n.objects

\* Everything but a 0 raises an alarm, also a notification without the object.
Condition(n) == IF n.condition = "0" THEN "CLEAR" ELSE "SET"

\* (mutant: an ONU is provisioned without a serial)
CallsWithoutSerial(n) ==
    LET event == Definition(n.oid).event IN
    IF Outcome(n) # "ACCEPTED" THEN {}
    ELSE {call \in {"upsertOnuFromProvisionedTrap", "updateOnuStatusFromTrap",
                    "reconcileOnuStatusFromAlarms"} :
            CASE call = "upsertOnuFromProvisionedTrap" ->
                   event = "OnuProvisioned" /\ HasPosition(n)
              [] call = "updateOnuStatusFromTrap" ->
                   HasPosition(n) /\ event = "OnuBlacklisted"
              [] call = "reconcileOnuStatusFromAlarms" ->
                   HasPosition(n) /\ event # "OnuBlacklisted" /\ n.oid \in ONU_DOWN_TRAP_OIDS}

\* What an accepted notification asks of OltBootstrapService; every accepted
\* one is ingested as well.
Calls(n) ==
    LET event == Definition(n.oid).event IN
    IF Outcome(n) # "ACCEPTED" THEN {}
    ELSE {call \in {"upsertOnuFromProvisionedTrap", "updateOnuStatusFromTrap",
                    "reconcileOnuStatusFromAlarms"} :
            CASE call = "upsertOnuFromProvisionedTrap" ->
                   event = "OnuProvisioned" /\ HasSerial(n) /\ HasPosition(n)
              [] call = "updateOnuStatusFromTrap" ->
                   HasPosition(n) /\ event = "OnuBlacklisted"
              [] call = "reconcileOnuStatusFromAlarms" ->
                   HasPosition(n) /\ event # "OnuBlacklisted" /\ n.oid \in ONU_DOWN_TRAP_OIDS}
=============================================================================
