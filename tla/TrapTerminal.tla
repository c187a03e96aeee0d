---------------------------- MODULE TrapTerminal ----------------------------
(***************************************************************************)
(* The trap terminal: the log that TrapReceiverService keeps in memory (a  *)
(* ring of LOG_BUFFER_SIZE entries numbered by seqCounter), the SSE stream *)
(* of TrapController that replays it and goes on live, and one browser     *)
(* with TrapTerminalPage open.                                             *)
(*                                                                         *)
(* The browser's EventSource is external: it reconnects by itself after a  *)
(* lost connection with the id of the last event it has dispatched, paused *)
(* page or not, and gives up when the answer is an error status.           *)
(*                                                                         *)
(* An entry is its seq and the start of the process ("epoch") that gave it *)
(* out; the contents are left out.                                         *)
(***************************************************************************)
EXTENDS Naturals, Sequences, FiniteSets

CONSTANTS
    BufferSize,    \* LOG_BUFFER_SIZE
    PageSize,      \* entries the page keeps
    MaxSeq,        \* bound: entries in one epoch
    MaxEpoch,      \* bound: starts of the API process
    None

ASSUME TerminalAssumption ==
    /\ BufferSize \in Nat \ {0} /\ PageSize \in Nat \ {0}
    /\ MaxSeq \in Nat /\ MaxEpoch \in Nat \ {0}
    /\ None \notin Nat

VARIABLES
    epoch,         \* starts of the API process so far
    buffer,        \* logBuffer, as seqs
    seqCounter,
    stream,        \* the connection: "opening", "open", "lost" or "given up"
    wire,          \* seqs sent on the open stream and not yet dispatched
    lastEventId,   \* kept by the EventSource
    entries,       \* what the page shows
    paused,
    clearing,      \* handleClear: "no", "called", "answered"
    shown,         \* history: seqs of this epoch this page has shown at some time
    excused,       \* history: seqs of this epoch the page may do without
    shadow         \* history: highest seq of earlier epochs this page has received

server == <<epoch, buffer, seqCounter>>
page == <<entries, paused, clearing>>
history == <<shown, excused, shadow>>
vars == <<server, stream, wire, lastEventId, page, history>>

----------------------------------------------------------------------------
SeqNo == 1..MaxSeq
Entry == [epoch : 1..MaxEpoch, seq : SeqNo]
Elements(s) == {s[i] : i \in 1..Len(s)}
KeepLast(s, n) == IF Len(s) <= n THEN s ELSE SubSeq(s, Len(s) - n + 1, Len(s))

TypeOK ==
    /\ epoch \in 1..MaxEpoch
    /\ buffer \in Seq(SeqNo) /\ Len(buffer) <= BufferSize
    /\ seqCounter \in 0..MaxSeq
    /\ stream \in {"opening", "open", "lost", "given up"}
    /\ wire \in Seq(SeqNo)
    /\ lastEventId \in SeqNo \cup {None}
    /\ entries \in Seq(Entry) /\ Len(entries) <= PageSize
    /\ paused \in BOOLEAN
    /\ clearing \in {"no", "called", "answered"}
    /\ shown \in SUBSET SeqNo /\ excused \in SUBSET SeqNo
    /\ shadow \in 0..MaxSeq

\* The effect of TrapTerminalPage has just made its EventSource.
Init ==
    /\ epoch = 1 /\ buffer = <<>> /\ seqCounter = 0
    /\ stream = "opening" /\ wire = <<>> /\ lastEventId = None
    /\ entries = <<>> /\ paused = FALSE /\ clearing = "no"
    /\ shown = {} /\ excused = {} /\ shadow = 0

Excuse(seqs) == excused' = excused \cup seqs

----------------------------------------------------------------------------
(* The server                                                              *)

\* (mutant: the length compared before the push)
EmitOffByOne ==
    /\ seqCounter < MaxSeq
    /\ seqCounter' = seqCounter + 1
    /\ buffer' = KeepLast(Append(buffer, seqCounter'), BufferSize + 1)
    /\ wire' = IF stream = "open" THEN Append(wire, seqCounter') ELSE wire
    /\ UNCHANGED <<epoch, stream, lastEventId, page, history>>

\* emit: push, shift, next.  What falls out of the ring with nobody connected
\* is lost to the page.
Emit ==
    /\ seqCounter < MaxSeq
    /\ seqCounter' = seqCounter + 1
    /\ buffer' = KeepLast(Append(buffer, seqCounter'), BufferSize)
    /\ wire' = IF stream = "open" THEN Append(wire, seqCounter') ELSE wire
    /\ Excuse(IF stream = "open" THEN {} ELSE Elements(buffer) \ Elements(buffer'))
    /\ UNCHANGED <<epoch, stream, lastEventId, page, shown, shadow>>

\* (mutant: Last-Event-ID is not looked at)
GetLogSinceStart(last) == buffer

\* (mutant: one entry too far)
GetLogSinceOffByOne(last) ==
    IF last = None THEN buffer ELSE SelectSeq(buffer, LAMBDA seq : seq > last + 1)

\* getLogSince: filter, as SelectSeq defines it (of which no prover knows).
GetLogSince(last) ==
    IF last = None THEN buffer
    ELSE LET since[n \in 0..Len(buffer)] ==
               IF n = 0 THEN <<>>
               ELSE IF buffer[n] > last THEN Append(since[n - 1], buffer[n]) ELSE since[n - 1]
         IN  since[Len(buffer)]

\* (mutant: the newest entry first)
AcceptStreamNewestFirst ==
    /\ stream = "opening"
    /\ stream' = "open"
    /\ LET log == GetLogSince(lastEventId) IN
       wire' = [i \in 1..Len(log) |-> log[Len(log) - i + 1]]
    /\ UNCHANGED <<server, lastEventId, page, history>>

\* stream(): the token is an ADMIN's; the log is read, replayed and followed
\* live within one turn of the event loop, so no packet is handled in between.
AcceptStream ==
    /\ stream = "opening"
    /\ stream' = "open"
    /\ wire' = GetLogSince(lastEventId)
    /\ UNCHANGED <<server, lastEventId, page, history>>

\* The token has expired or is no ADMIN's any more, or a proxy answers 502.
RefuseStream ==
    /\ stream = "opening"
    /\ stream' = "given up"
    /\ UNCHANGED <<server, wire, lastEventId, page, history>>

\* DELETE /traps/recent, by this page (which gets its answer) or by another.
ClearLog ==
    /\ buffer' = <<>>
    /\ Excuse(IF stream = "open" THEN {} ELSE Elements(buffer))
    /\ clearing' \in {clearing, IF clearing = "called" THEN "answered" ELSE clearing}
    /\ UNCHANGED <<epoch, seqCounter, stream, wire, lastEventId, entries, paused, shown, shadow>>

\* The API starts again: nothing of the log is kept, not even the number.
Restart ==
    /\ epoch < MaxEpoch
    /\ epoch' = epoch + 1
    /\ buffer' = <<>> /\ seqCounter' = 0 /\ wire' = <<>>
    /\ stream' = IF stream = "given up" THEN stream ELSE "lost"
    /\ shown' = {} /\ excused' = {}
    /\ shadow' = IF lastEventId = None \/ lastEventId < shadow THEN shadow ELSE lastEventId
    /\ UNCHANGED <<lastEventId, page>>

----------------------------------------------------------------------------
(* The browser                                                             *)

\* The connection breaks; what was on its way is lost, and may be out of the
\* ring by now.
LoseStream ==
    /\ stream \in {"opening", "open"}
    /\ stream' = "lost"
    /\ wire' = <<>>
    /\ Excuse(Elements(wire) \ Elements(buffer))
    /\ UNCHANGED <<server, lastEventId, page, shown, shadow>>

Reconnect ==
    /\ stream = "lost"
    /\ stream' = "opening"
    /\ UNCHANGED <<server, wire, lastEventId, page, history>>

\* onmessage: dropped while paused or when the page has an entry of that seq.
OnMessage ==
    /\ wire # <<>>
    /\ LET seq == Head(wire)
           known == \E i \in 1..Len(entries) : entries[i].seq = seq IN
       /\ lastEventId' = seq
       /\ entries' = IF paused \/ known THEN entries
                       ELSE Append(KeepLast(entries, PageSize - 1), [epoch |-> epoch, seq |-> seq])
       /\ shown' = IF paused \/ known THEN shown ELSE shown \cup {seq}
       /\ Excuse(IF paused THEN {seq} ELSE {})
    /\ wire' = Tail(wire)
    /\ UNCHANGED <<server, stream, paused, clearing, shadow>>

TogglePause ==
    /\ paused' = ~paused
    /\ UNCHANGED <<server, stream, wire, lastEventId, entries, clearing, history>>

\* handleClear, its call, the failure of the call, and what follows either way.
CallClear ==
    /\ clearing = "no"
    /\ clearing' = "called"
    /\ UNCHANGED <<server, stream, wire, lastEventId, entries, paused, history>>

ClearCallFails ==
    /\ clearing = "called"
    /\ clearing' = "answered"
    /\ UNCHANGED <<server, stream, wire, lastEventId, entries, paused, history>>

EmptyPage ==
    /\ clearing = "answered"
    /\ clearing' = "no"
    /\ entries' = <<>>
    /\ UNCHANGED <<server, stream, wire, lastEventId, paused, history>>

\* The page is left and opened again, with a new EventSource.
Remount ==
    /\ stream' = "opening" /\ wire' = <<>> /\ lastEventId' = None
    /\ entries' = <<>> /\ paused' = FALSE /\ clearing' = "no"
    /\ shown' = {} /\ shadow' = 0
    /\ excused' = (1..seqCounter) \ Elements(buffer)
    /\ UNCHANGED server

Next ==
    \/ Emit
    \/ AcceptStream
    \/ RefuseStream
    \/ ClearLog
    \/ Restart
    \/ LoseStream
    \/ Reconnect
    \/ OnMessage
    \/ TogglePause
    \/ CallClear
    \/ ClearCallFails
    \/ EmptyPage
    \/ Remount

Spec == Init /\ [][Next]_vars

----------------------------------------------------------------------------
(* Properties                                                              *)

\* Shown once, on its way, or still replayed by the next connection.
Delivered(seq) ==
    \/ seq \in shown
    \/ seq \in Elements(wire)
    \/ /\ stream # "open"
       /\ seq \in Elements(buffer)
       /\ lastEventId # None => seq > lastEventId

\* However often the connection breaks, and at whatever point of a replay, a
\* reconnection closes the gap: the page misses only what left the ring while
\* it was away, what came while it was paused, and, after a restart of the
\* API, numbers it had already received from the process before.
NothingLost ==
    \A seq \in 1..seqCounter : seq \in excused \/ seq <= shadow \/ Delivered(seq)

\* A reconnection brings back nothing the page has shown, also when it was
\* cleared since.
ShownOnce ==
    [][\A e \in Elements(entries') \ Elements(entries) : e.seq \notin shown]_vars

\* Replay and live entries never mix: the page lists traps as they arrived.
PageInOrder ==
    \A i, j \in 1..Len(entries) : i < j =>
      \/ entries[i].epoch < entries[j].epoch
      \/ entries[i].epoch = entries[j].epoch /\ entries[i].seq < entries[j].seq
=============================================================================
