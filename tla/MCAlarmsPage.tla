---------------------------- MODULE MCAlarmsPage ----------------------------
(* A small instance of AlarmsPage for TLC. *)
EXTENDS AlarmsPage

Row(id, olt, port, onu, severity) ==
    [id |-> id, olt |-> olt, port |-> port, onu |-> onu, severity |-> severity,
     condition |-> "ACTIVE", raisedAt |-> id, clearedAt |-> 0]

CONSTANTS o1, u1

MCAlarms == {Row(1, o1, 1, u1, "CRITICAL"), Row(2, o1, 0, None, "MINOR")}
MCEvents == {[id |-> 1, olt |-> o1, port |-> 1, onu |-> u1, occurredAt |-> 1]}
MCOnus == {[id |-> 1, olt |-> o1, port |-> 1, onu |-> u1]}

NoFilter == [severity |-> {}, port |-> 0, search |-> AnyOnu, raised |-> 1..3]
MCFilters == {NoFilter, [NoFilter EXCEPT !.severity = {"CRITICAL"}]}
MCSearch == {AnyOnu, {}}
MCPageSize == <<1>>
MCApart == {"alarms"}
=============================================================================
