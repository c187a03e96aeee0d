------------------------------- MODULE OltWalk -------------------------------
(***************************************************************************)
(* The bootstrap of one OLT: its row from OltService.create to remove, the *)
(* bootstrapStatus and the GponInterface rows that walkGpons maintains,    *)
(* with as many walks at once as there are clicks on "Sincronizar", and    *)
(* the API process, which a rejection that nobody handles brings down      *)
(* (Node's default) and Docker restarts.                                   *)
(*                                                                         *)
(* Step 2 of a walk, the ONU tables, is one step here: OnuStatus and       *)
(* OnuArchive open it.                                                     *)
(***************************************************************************)
EXTENDS Naturals

CONSTANTS
    Walk,         \* slots for calls of walkGpons that run at the same time
    IfIndex       \* ifIndex of the GPON interfaces an OLT may report

VARIABLES
    olt,          \* the Olt row: "none" before create, "stored", "removed"
    status,       \* bootstrapStatus
    rows,         \* GponInterface rows: <<walk that inserted it, ifIndex>>
    walk,         \* the calls of walkGpons
    process,      \* the API process: "up" or "down"
    cut,          \* history: a walk was cut short after it had marked the OLT,
                  \* and no other has finished since
    united        \* history: the last replacement of the interfaces went in beside
                  \* one that was committed after its delete

vars == <<olt, status, rows, united, walk, process, cut>>

----------------------------------------------------------------------------
Pc == {"idle", "refresh", "read", "mark", "session", "interfaces", "insert", "onus", "finish", "fail"}
WalkState ==
    [pc : Pc, caller : {"create", "sync"},
     seen : SUBSET (Walk \X IfIndex),    \* rows its delete has found
     beside : BOOLEAN]                   \* history: another replacement came since

TypeOK ==
    /\ olt \in {"none", "stored", "removed"}
    /\ status \in {"PENDING", "WALKING", "ACTIVE", "FAILED"}
    /\ rows \in SUBSET (Walk \X IfIndex)
    /\ united \in BOOLEAN
    /\ walk \in [Walk -> WalkState]
    /\ process \in {"up", "down"}
    /\ cut \in BOOLEAN

Idle == [pc |-> "idle", caller |-> "sync", seen |-> {}, beside |-> FALSE]

Init ==
    /\ olt = "none"
    /\ status = "PENDING"
    /\ rows = {}
    /\ walk = [w \in Walk |-> Idle]
    /\ process = "up"
    /\ cut = FALSE
    /\ united = FALSE

Stored == olt = "stored"
At(w, pc) == walk[w].pc = pc
Goto(w, pc) == walk' = [walk EXCEPT ![w].pc = pc]
Return(w) == walk' = [walk EXCEPT ![w] = Idle]
\* Past the update to WALKING and not yet at an end.
Marked(w) == walk[w].pc \in {"session", "interfaces", "insert", "onus", "finish", "fail"}

----------------------------------------------------------------------------
(* OltService                                                              *)

\* create(): the row is there, then the registry is refreshed.
CreateOlt(w) ==
    /\ process = "up" /\ olt = "none" /\ At(w, "idle")
    /\ olt' = "stored"
    /\ walk' = [walk EXCEPT ![w] = [Idle EXCEPT !.pc = "refresh", !.caller = "create"]]
    /\ UNCHANGED <<status, rows, united, process, cut>>

\* ... and walkGpons is started, not awaited; when the refresh rejects, the
\* request fails and no walk starts.
AfterRefresh(w) ==
    /\ At(w, "refresh")
    /\ Goto(w, "read") \/ Return(w)
    /\ UNCHANGED <<olt, status, rows, united, process, cut>>

\* syncGpons(): findOne, then walkGpons, awaited.
SyncOlt(w) ==
    /\ process = "up" /\ Stored /\ At(w, "idle")
    /\ walk' = [walk EXCEPT ![w] = [Idle EXCEPT !.pc = "read"]]
    /\ UNCHANGED <<olt, status, rows, united, process, cut>>

\* remove(): the delete cascades to the interfaces.
RemoveOlt ==
    /\ process = "up" /\ Stored
    /\ olt' = "removed"
    /\ rows' = {}
    /\ united' = FALSE
    /\ UNCHANGED <<status, walk, process, cut>>

----------------------------------------------------------------------------
(* walkGpons                                                               *)

\* findUnique; without an OLT there is nothing to do.
ReadOlt(w) ==
    /\ At(w, "read")
    /\ IF Stored THEN Goto(w, "mark") ELSE Return(w)
    /\ UNCHANGED <<olt, status, rows, united, process, cut>>

\* The update to WALKING, before the try.
MarkWalking(w) ==
    /\ At(w, "mark") /\ Stored
    /\ status' = "WALKING"
    /\ Goto(w, "session")
    /\ UNCHANGED <<olt, rows, united, process, cut>>

\* The community is decrypted and a session made, still before the try.
OpenSession(w) ==
    /\ At(w, "session")
    /\ Goto(w, "interfaces")
    /\ UNCHANGED <<olt, status, rows, united, process, cut>>

\* A rejection that no catch of walkGpons stands around: of a statement before
\* the try, or of the update to FAILED inside the catch.  In syncGpons it
\* becomes an error response; behind the void of create() nobody handles it,
\* the process exits and takes every other walk with it.
Throw(w) ==
    /\ walk[w].pc \in {"read", "mark", "session", "fail"}
    /\ IF walk[w].caller = "sync"
         THEN /\ Return(w)
              /\ cut' = (cut \/ Marked(w))
              /\ UNCHANGED process
         ELSE /\ walk' = [v \in Walk |-> Idle]
              /\ cut' = (cut \/ \E v \in Walk : Marked(v))
              /\ process' = "down"
    /\ UNCHANGED <<olt, status, rows, united>>

\* walkGponInterfaces: ifName is walked, then a transaction deletes the rows
\* its delete statement can see ...
DeleteInterfaces(w) ==
    /\ At(w, "interfaces")
    /\ walk' = [walk EXCEPT ![w] = [@ EXCEPT !.pc = "insert", !.seen = rows, !.beside = FALSE]]
    /\ UNCHANGED <<olt, status, rows, united, process, cut>>

\* The transaction of w commits; those that have deleted before do not see it.
Commit(w) ==
    /\ walk' = [v \in Walk |->
                  IF v = w THEN [walk[v] EXCEPT !.pc = "onus"]
                  ELSE [walk[v] EXCEPT !.beside = @ \/ At(v, "insert")]]
    /\ united' = walk[w].beside

\* (mutant: no unique index on (oltId, ifIndex))
InsertInterfacesNoIndex(w) ==
    /\ At(w, "insert") /\ Stored
    /\ \E found \in SUBSET IfIndex : rows' = (rows \ walk[w].seen) \cup ({w} \X found)
    /\ Commit(w)
    /\ UNCHANGED <<olt, status, process, cut>>

\* ... and inserts those found, if any.  A row that another walk has committed
\* in between stays; the insert fails if it has the ifIndex of one of them
\* (unique per OLT) or if the OLT is gone (foreign key).
InsertInterfaces(w) ==
    /\ At(w, "insert")
    /\ \E found \in SUBSET IfIndex :
         LET others == rows \ walk[w].seen
             collision == \E row \in others : row[2] \in found IN
         \/ /\ Stored \/ found = {}
            /\ ~collision
            /\ rows' = others \cup ({w} \X found)
            /\ Commit(w)
         \/ /\ (~Stored /\ found # {}) \/ collision
            /\ Goto(w, "fail")
            /\ UNCHANGED <<rows, united>>
    /\ UNCHANGED <<olt, status, process, cut>>

WalkOnus(w) ==
    /\ At(w, "onus")
    /\ Goto(w, "finish")
    /\ UNCHANGED <<olt, status, rows, united, process, cut>>

\* (mutant: a failed step only returns)
StepFailsSilently(w) ==
    /\ walk[w].pc \in {"interfaces", "insert", "onus", "finish"}
    /\ Return(w)
    /\ UNCHANGED <<olt, status, rows, united, process, cut>>

\* A timeout of SNMP or an error of the database inside the try.
StepFails(w) ==
    /\ walk[w].pc \in {"interfaces", "insert", "onus", "finish"}
    /\ Goto(w, "fail")
    /\ UNCHANGED <<olt, status, rows, united, process, cut>>

\* (mutant: bootstrapStatus is not written at the end)
FinishWalkWithoutStatus(w) ==
    /\ At(w, "finish")
    /\ Return(w)
    /\ cut' = FALSE
    /\ UNCHANGED <<olt, status, rows, united, process>>

\* (mutant: the status of an ONU written where the OLT's belongs)
FinishWalkOnline(w) ==
    /\ At(w, "finish") /\ Stored
    /\ status' = "ONLINE"
    /\ Return(w)
    /\ UNCHANGED <<olt, rows, united, process, cut>>

\* The update to ACTIVE, inside the try.
FinishWalk(w) ==
    /\ At(w, "finish")
    /\ \/ /\ Stored
          /\ status' = "ACTIVE"
          /\ cut' = FALSE
          /\ Return(w)
       \/ /\ ~Stored
          /\ Goto(w, "fail")
          /\ UNCHANGED <<status, cut>>
    /\ UNCHANGED <<olt, rows, united, process>>

\* (mutant: the walk is tried again at once)
RecordFailureAndRetry(w) ==
    /\ At(w, "fail")
    /\ Goto(w, "mark")
    /\ UNCHANGED <<olt, status, rows, united, process, cut>>

\* The catch: the update to FAILED.
RecordFailure(w) ==
    /\ At(w, "fail") /\ Stored
    /\ status' = "FAILED"
    /\ cut' = FALSE
    /\ Return(w)
    /\ UNCHANGED <<olt, rows, united, process>>

----------------------------------------------------------------------------
\* The process is killed (deploy, out of memory, host).
Crash ==
    /\ process = "up"
    /\ process' = "down"
    /\ cut' = (cut \/ \E w \in Walk : Marked(w))
    /\ walk' = [w \in Walk |-> Idle]
    /\ UNCHANGED <<olt, status, rows, united>>

\* restart: unless-stopped.  No module looks at bootstrapStatus on the way up.
Restart ==
    /\ process = "down"
    /\ process' = "up"
    /\ UNCHANGED <<olt, status, rows, united, walk, cut>>

WalkStep(w) ==
    \/ AfterRefresh(w)
    \/ ReadOlt(w)
    \/ MarkWalking(w)
    \/ OpenSession(w)
    \/ Throw(w)
    \/ DeleteInterfaces(w)
    \/ InsertInterfaces(w)
    \/ WalkOnus(w)
    \/ StepFails(w)
    \/ FinishWalk(w)
    \/ RecordFailure(w)

Next ==
    \/ \E w \in Walk : CreateOlt(w) \/ SyncOlt(w) \/ WalkStep(w)
    \/ RemoveOlt
    \/ Crash
    \/ Restart

Spec == Init /\ [][Next]_vars

\* SNMP calls time out and database calls answer, so a walk goes on; a dead
\* container is restarted.  Nobody is obliged to click or to kill.
FairSpec ==
    /\ Spec
    /\ \A w \in Walk : WF_vars(WalkStep(w))
    /\ WF_vars(Restart)

----------------------------------------------------------------------------
(* Properties                                                              *)

\* "Walking" is never a leftover of walks that ended by themselves: however
\* many ran at once, the last to end has written its outcome over it.
WalkingMeansWalking ==
    status = "WALKING" /\ Stored => cut \/ \E w \in Walk : Marked(w)

\* A walk replaces the interfaces: what the table holds comes from one walk,
\* unless two overlapped so closely that the delete of the second missed what
\* the first inserted; even then no ifIndex is there twice.  None survives its OLT.
InterfacesReplaced ==
    /\ \A r, s \in rows : r[2] = s[2] => r = s
    /\ ~united => \A r, s \in rows : r[1] = s[1]
    /\ ~Stored => rows = {}

\* A walk ends: no schedule of syncs, removals and failures keeps it running.
WalksEnd == \A w \in Walk : ~At(w, "idle") ~> At(w, "idle")

\* The page that waits for the end of WALKING waits in vain only after a crash
\* or a rejection that left walkGpons.
WalkingSettles == (status = "WALKING") ~> (status # "WALKING" \/ cut \/ ~Stored)

\* olt.service.ts:53-55 and olt-bootstrap.service.ts:79-80: walkGpons never
\* throws, so create() need not handle a rejection; in particular not when the
\* OLT is removed while it is walked.
ThrowsForRemovedOlt(w) == Throw(w) /\ walk[w].pc \in {"mark", "fail"} /\ ~Stored
NeverThrows == [][\A w \in Walk : ~ThrowsForRemovedOlt(w)]_vars
=============================================================================
