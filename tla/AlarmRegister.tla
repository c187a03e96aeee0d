---------------------------- MODULE AlarmRegister ----------------------------
(***************************************************************************)
(* What AlarmIngestService promises, row ids and database calls left out:  *)
(* for every alarm key one bit, "there is an ACTIVE alarm", and trap       *)
(* handlers that take effect on it ATOMICALLY, once, at some moment        *)
(* between the arrival of the trap and the end of its handler.  Operators  *)
(* and the removal of an OLT lower bits as well.                           *)
(*                                                                         *)
(* One step may lower a key and complete several CLEARs of that key: two   *)
(* handlers that had found the same ACTIVE row are both satisfied by the   *)
(* first write that closes it.                                             *)
(***************************************************************************)
CONSTANTS Handler, Key

VARIABLES
    raised,    \* raised[k]: is there an ACTIVE alarm for key k
    call       \* call[h]: the ingest call of handler h

regVars == <<raised, call>>

Phase == {"idle", "pending", "applied", "failed"}
Call == [phase : Phase, key : Key, op : {"SET", "CLEAR"}]

RegInit ==
    /\ raised = [k \in Key |-> FALSE]
    /\ call \in [Handler -> Call]
    /\ \A h \in Handler : call[h].phase = "idle"

PendingClears(ks) ==
    {h \in Handler : call[h].phase = "pending" /\ call[h].op = "CLEAR" /\ call[h].key \in ks}

Invoke(h, k, op) ==
    /\ call[h].phase # "pending"
    /\ call' = [call EXCEPT ![h] = [phase |-> "pending", key |-> k, op |-> op]]
    /\ UNCHANGED raised

Raise(h) ==
    /\ call[h].phase = "pending"
    /\ call[h].op = "SET"
    /\ raised' = [raised EXCEPT ![call[h].key] = TRUE]
    /\ call' = [call EXCEPT ![h].phase = "applied"]

\* Keys ks are lowered, and with them some of the CLEARs pending on them done.
Lower(ks) ==
    /\ raised' = [k \in Key |-> raised[k] /\ k \notin ks]
    /\ \E hs \in SUBSET PendingClears(ks) :
         call' = [h \in Handler |->
                    IF h \in hs THEN [call[h] EXCEPT !.phase = "applied"] ELSE call[h]]

\* The call rejects: at most once it had taken effect before.
Reject(h) ==
    /\ call[h].phase \in {"pending", "applied"}
    /\ call' = [call EXCEPT ![h].phase = "failed"]
    /\ UNCHANGED raised

\* The process dies: every call is forgotten, the database is not.
Forget ==
    /\ call' = [h \in Handler |-> [call[h] EXCEPT !.phase = "idle"]]
    /\ UNCHANGED raised

RegNext ==
    \/ \E h \in Handler, k \in Key, op \in {"SET", "CLEAR"} : Invoke(h, k, op)
    \/ \E h \in Handler : Raise(h) \/ Reject(h)
    \/ \E ks \in SUBSET Key : Lower(ks)
    \/ Forget

RegSpec == RegInit /\ [][RegNext]_regVars
=============================================================================
