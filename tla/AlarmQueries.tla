---------------------------- MODULE AlarmQueries ----------------------------
(***************************************************************************)
(* What the lists and the summaries of the API answer: AlarmService,       *)
(* EventService and OnuService.findAll, and the three summaries of         *)
(* AlarmService, as functions of the rows and the query.                   *)
(*                                                                         *)
(* A port stands for slotNo and portNo, 0 for none; a free search for the  *)
(* ONUs whose serial or alias contains the text.                           *)
(***************************************************************************)
EXTENDS Naturals, Sequences, FiniteSets, FiniteSetsExt, SequencesExt

CONSTANTS Olt, Port, Onu, None

AnyOnu == Onu \cup {None}
AlarmSeverity == {"CLEAR", "INFO", "WARNING", "MINOR", "MAJOR", "CRITICAL"}
AlarmRow ==
    [id : Nat, olt : Olt, port : Port \cup {0}, onu : AnyOnu, severity : AlarmSeverity,
     condition : {"ACTIVE", "CLEARED"}, raisedAt : Nat, clearedAt : Nat]

\* What the validation of a query lets through; {}, 0 and None are no filter.
\* The filter on logicalPortNo, one more column of the row, is left out.
QueryAlarmsDto ==
    [olts : SUBSET Olt, ports : SUBSET (Olt \X Port), onu : AnyOnu, search : SUBSET AnyOnu,
     port : Port \cup {0}, severity : SUBSET AlarmSeverity,
     condition : {"ACTIVE", "CLEARED", None}, raised : SUBSET Nat,
     page : Nat \ {0}, pageSize : 1..500]
QueryOnusDto ==
    [olts : SUBSET Olt, ports : SUBSET (Olt \X Port), onu : {None}, search : SUBSET AnyOnu,
     page : Nat \ {0}, pageSize : 1..500]

SEVERITY_RANK ==
    [CLEAR |-> 0, INFO |-> 1, WARNING |-> 2, MINOR |-> 3, MAJOR |-> 4, CRITICAL |-> 5]

----------------------------------------------------------------------------
\* The scope of a list, the most specific filter alone: the ONU, or the
\* GPONs, or the OLTs ({} for all of them).
InScope(row, q) ==
    \/ q.onu # None /\ row.onu = q.onu
    \/ q.onu = None /\ q.ports # {} /\ <<row.olt, row.port>> \in q.ports
    \/ q.onu = None /\ q.ports = {} /\ (q.olts = {} \/ row.olt \in q.olts)

\* orderBy: the row in place i has i - 1 rows before it.
InOrder(rows, before) ==
    [i \in 1..Cardinality(rows) |->
        CHOOSE row \in rows : Cardinality({r \in rows : <<r, row>> \in before}) = i - 1]

\* The newest first; rows of one moment come in any order, here by id.
NewestFirst(rows, at) ==
    LET first(a, b) == at[a] > at[b] \/ (at[a] = at[b] /\ a.id < b.id) IN
    InOrder(rows, {pair \in rows \X rows : first(pair[1], pair[2])})

\* skip and take
PageOf(seq, q) ==
    SubSeq(seq, (q.page - 1) * q.pageSize + 1, Min({Len(seq), q.page * q.pageSize}))

Listed(seq, q) == [data |-> PageOf(seq, q), total |-> Len(seq)]

\* AlarmService.findAll; a port filter counts only without GPONs and ONU.
FilteredAlarms(table, q) ==
    {row \in table :
        /\ InScope(row, q)
        /\ q.port = 0 \/ q.ports # {} \/ q.onu # None \/ row.port = q.port
        /\ row.onu \in q.search
        /\ q.severity = {} \/ row.severity \in q.severity
        /\ q.condition = None \/ row.condition = q.condition
        /\ row.raisedAt \in q.raised}

findAlarms(table, q) ==
    LET rows == FilteredAlarms(table, q)
        at == [row \in rows |-> IF q.condition = "CLEARED" THEN row.clearedAt ELSE row.raisedAt]
    IN  Listed(NewestFirst(rows, at), q)

findEvents(table, q) ==
    LET rows == {row \in table : InScope(row, q)} IN
    Listed(NewestFirst(rows, [row \in rows |-> row.occurredAt]), q)

\* By OLT and position; here by the id, which stands for that order.
findOnus(table, q) ==
    LET rows == {row \in table : InScope(row, q) /\ row.onu \in q.search} IN
    Listed(InOrder(rows, {pair \in rows \X rows : pair[1].id < pair[2].id}), q)

----------------------------------------------------------------------------
Active(table) == {row \in table : row.condition = "ACTIVE"}

\* Zero for a severity without alarms.
summary(table, q) ==
    [s \in AlarmSeverity |->
        Cardinality({row \in Active(table) : row.severity = s /\ InScope(row, q)})]

Worst(rows) ==
    IF rows = {} THEN None
    ELSE CHOOSE s \in {row.severity : row \in rows} :
           \A row \in rows : SEVERITY_RANK[row.severity] <= SEVERITY_RANK[s]

summaryByOlt(table) == [o \in Olt |-> Worst({row \in Active(table) : row.olt = o})]

\* Alarms of the OLT itself, without a port, are in no GPON.
summaryByGpon(table) ==
    [g \in Olt \X Port |-> Worst({row \in Active(table) : <<row.olt, row.port>> = g})]
=============================================================================
