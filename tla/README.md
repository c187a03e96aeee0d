# OltGuard in TLA+

OltGuard watches the optical line terminals (OLTs) of an internet provider: it
receives their SNMP traps, keeps alarms and the state of the customers' devices
(ONUs), and shows them in a web console. This directory holds TLA+ models of the
parts of it where the order of events matters, the TLC runs that check them and
proofs, for every value of the constants, of their safety properties. Paths below
are relative to `apps/`.

## 1. The system

One Node process (`api`), one PostgreSQL database, any number of browsers
(`web`). The process runs one piece of code until its next `await`; between two
awaits anything else may run. Nothing is locked or queued: a trap starts a
handler and is forgotten (`void`, `.catch`), a click starts a request. So every
awaited database statement or SNMP call is a point where other handlers,
requests, walks, or a restart of the container, come in between. What holds
regardless is what PostgreSQL enforces (unique indexes, foreign keys, row locks,
transactions) and what the code checks in the same statement.

| Component | Source | State | Operations |
|---|---|---|---|
| Trap receiver | `api/src/olt/trap-receiver.service.ts`, `parks-trap-mapping.ts` | ring of 200 log entries, `seqCounter` | validates, classifies, logs and dispatches a trap; `getLogSince`, `clearLog` |
| Registry | `api/src/olt/olt-registry.service.ts`, `trap-security.service.ts`, `cidr.util.ts` | cached OLTs and networks | `refresh` (every 30 s and after a change), `validateTrap` |
| Alarm ingestion | `api/src/alarm/alarm-ingest.service.ts` | rows of `Alarm`, `Event` | raise or refresh, clear, record an event |
| Alarm requests | `api/src/alarm/alarm.service.ts` | rows of `Alarm` | confirm, clear, both; queries |
| ONU status | `api/src/olt/olt-bootstrap.service.ts` | `Onu.status`, presence of `Onu` rows | reconcile from alarms, blacklist, provision; walk of the ONU tables |
| ONU archive | same, `reconcileRemovedOnus` | `OnuRemoved`, links of alarms and events | one transaction per ONU that left |
| OLT bootstrap | same, `walkGpons`; `olt.service.ts` | `bootstrapStatus`, `GponInterface` | create, sync, remove, update |
| Users | `api/src/user`, `api/src/auth`, `api/prisma/seed.js` | rows of `User`; tokens | create, update, remove; login; seed at each start |
| Trap stream | `api/src/olt/trap.controller.ts`, `web/src/pages/TrapTerminalPage.tsx` | SSE connections; the page's entries | replay and follow; pause, clear |
| Queries | `alarm.service.ts`, `event.service.ts`, `onu.service.ts` | none | lists with scope, filters and pages; summaries by severity, OLT and GPON |
| Console | `web/src/pages`, `web/src/api.ts` | what each page shows | requests and their answers |
| Browser session | `web/src/auth/AuthContext.tsx`, `web/src/api.ts`, `api/src/auth` | token in memory and in localStorage, `user` | login, logout, restart, 401 |
| Cities, networks | `city.service.ts`, `allowed-network.service.ts` | rows | create, remove |

They interact like this. The receiver asks the registry whether a trap is
trusted, logs it, starts `ingest`, and beside it the provisioning or the
blacklisting of the ONU, or (after `ingest`) the reconciliation of its status.
`OltService` starts walks; a walk rewrites interfaces and ONUs and ends with the
archive of ONUs it no longer saw. Removing an OLT cascades to all its rows, under
the feet of handlers and walks that still hold its id. `PROJECT.json` lists the
hazards that follow, each at its line, with the properties that watch it.

What makes each part correct:

- **Alarms**: one ACTIVE row per alarm; a late statement hits its own row or
  nothing; closed stays closed; each trap takes effect once, in one instant.
- **ONU status**: derived from the alarms as they are; DISABLE only lifted by the
  OLT; only a serial registers an ONU; no ONU is archived whose serial was read, and
  none because a whole table could not be.
- **Archive**: all or nothing; history goes with its ONU and stays there.
- **Bootstrap**: WALKING means that a walk is running, unless a crash or an escaped
  rejection cut one short; interfaces of one walk, unless two replaced them at once;
  no interface twice.
- **Users**: one account per e-mail; always an administrator.
- **Terminal**: every entry once and in order, over any number of reconnections.
- **Registry**: what was answered as changed is what traps are judged by; the copy
  meets the tables again after every overlap and failure; a block means its block.
- **Alarm page**: a page at rest shows what is chosen, on a page that exists; the
  automatic refresh makes up for the order of answers.
- **Cities**: an OLT that has a city keeps it until it is taken away knowingly, or by a
  removal that had counted before.
- **Session**: a live session ends by its user or by a start that gets no answer; else
  only by the late answer of an older one.

## 2. The modules

### AlarmRegister, AlarmIngest (the core)

`AlarmRegister` is what ingestion promises, with no row ids and no statements:
one bit per alarm key and calls that take effect atomically between their start
and their end. `AlarmIngest` is the code: a handler is a record with a program
counter, and each action is one awaited statement.

| Action | Code |
|---|---|
| `Receive` | `ingest` called; `resolveSource`, `resolveOnu`, the branch on the condition |
| `FindForSet`, `Create`, `FindWinner`, `Refresh` | `raiseOrRefreshAlarm`, its four statements; `Create` has the outcomes of the partial unique index and of the foreign key |
| `FindForClear`, `Close` | `clearMatchingAlarm` |
| `StatementFails` | any of these rejects; the receiver logs it |
| `OpenRequest`, `WriteRequest` | `confirm`, `clear`, `confirmAndClear`: the look-up, then the update by id |
| `RemoveOlt` | the cascade of `OltService.remove` |
| `Crash` | the process dies: handlers are forgotten, rows stay |

A key stands for the six columns of the index of migration
`20260917070000_alarm_active_dedup`. The module assumes that `OltOf` gives every
key an OLT and that `NoRow` is no row id, and nothing else about its constants.

`LinearizableIngest` is the refinement `Spec => AlarmRegister!RegSpec`. The bit of
a key is "there is an ACTIVE row". Where a call takes effect can be read from the
state: a SET is `applied` from the moment it has found, met (P2002) or inserted an
ACTIVE row; a CLEAR that holds a row is `applied` as soon as that row is no longer
ACTIVE, whoever closed it. Hence `Lower` of the register may complete several
CLEARs at once: two handlers that found the same row are satisfied by one write.

### TrapMapping, TrapIntake

`TrapMapping` is the table of 74 notifications as functions from group and index
to severity and event; `ONU_DOWN_TRAP_OIDS` is derived from it as in the code.
`TrapIntake` is `processNotification` as a function of the notification:
`Outcome` (rejected, ignored, unmapped, accepted), what is read from the varbinds,
and `Calls`, the calls an accepted notification ends in besides the ingest.

### OnuStatus

`Onu.status` and the presence of `Onu` rows, written by two sources that know
nothing of each other: trap handlers and a walk. `TrapArrives` takes any
notification of `Notice` and starts what `TrapIntake!Calls` says, so the mapping of
OIDs, the trust in the source and the position all stand between the OLT and the
row. `DownTrap` are the down alarms among those notifications. An ingest is one step here, which
is what `AlarmIngest` is shown to implement; the reconciliation after it is two
(`CountDownAlarms`, `WriteStatus`), and so is provisioning (`GetAlias`,
`UpsertProvisioned`). The walk reads its tables in any order, each at its own
time, upserts position by position, then applies the safety net and lists what to
remove (`ReadSerials`, `ReadStatuses`, `UpsertWalked`, `ListRemoved`,
`RemoveOnu`). What the OLT has changes freely, so a table may hold anything when it
is read, but that a status table is one of `StatusTable`. Rows come broken one by one:
`walkSubtree` drops those that are errors, `indexByPosition` those whose OID is no
position, so `ReadSerials` parses any part of what is there. The safety net of `ListRemoved` looks at the tables as a whole
(`rows`: any varbind in any of the three), so it does not protect an ONU whose row
alone was dropped: `ArchivedWasNotRead` says what is left of its promise. Of the seven
states ACTIVE, INACTIVE and DISABLE are kept: the code treats the other four as it
treats INACTIVE. A handler keeps whether its notification had a serial (`serial`).
`own` and `truth`, what the OLT had when the serials were read, are history
variables, read by properties only; so is `serial`.

### OnuArchive

The transaction of `reconcileRemovedOnus` opened into its statements under READ
COMMITTED: reads see what is committed, writes are seen at the commit, rows
written are locked until then (`closed`, `moved`). Beside it run the two steps of
an ingest that can be overtaken by a removal (`ResolveOnu`, `Store`), a second
walk, operators, rollback and crash. Every row remembers the ONU it was created
for (`owner`). One position suffices, since rows of different positions meet in
no statement of the transaction; the resolution of an ONU by serial at another
position is left out. A walk that finds another serial at a known position keeps
the `Onu` row: the code treats both as one ONU, and so does the model.

### OltWalk

`create`, `syncGpons` and `remove` of `OltService` with `walkGpons`, any number of
calls at once. What is inside the `try` ends in `StepFails`, and in `RecordFailure`
after that; what is outside (`ReadOlt`, `MarkWalking`, `OpenSession`, and the
update inside the `catch`) may `Throw`, which a caller of `syncGpons` receives and
which nobody receives behind the `void` of `create`: Node ends the process and
Docker starts it again. A row of `GponInterface` is the walk that inserted it with its
`ifIndex`; names are left out. `DeleteInterfaces` and `InsertInterfaces` are the two
statements of one transaction: the delete finds the rows that are committed (`seen`),
the rest is seen by others when the insert commits (`Commit`). What another walk has
committed in between stays: an `ifIndex` in common is a collision (the unique index is
on `oltId` and `ifIndex`), and without one both sets of interfaces remain. `united` is
history and says that this has happened; `cut`, that a crash or an escaped
rejection has left a walk's mark behind.

### UserAdmin

The requests of `UserController`. The guard reads the caller's role once, when
the request starts (`Authorize`); after that each statement is a step:
`FindOneOrThrow`, `CheckTarget`, `CountAdmins`, `WriteTarget`; `LookUpEmail`,
`CreateUser`. `raced` is history: since a request's check, another one took an ADMIN
away or made its target one. `Restart` includes the seed's upsert. With all ids of the model
used up a restart seeds nobody: this is the bound, not the code.

### TrapTerminal

The ring, the stream and one page. `AcceptStream` replays `getLogSince` and
follows live in one step, since no other event can run between the two
(`GetLogSince` is a recursive function over the ring). The
browser's `EventSource` is external and modelled from its standard: it comes back
with the id of the last event dispatched (paused page or not) and gives up on an
error status. `excused` and `shadow` are history: what the page may miss, and why.
After a restart the numbers start again at 1 while the browser still asks for what
follows its old number, so the page is not sent the entries below it: this is
`shadow`.

### CidrFilter, OltDirectory, TrapRegistry

`CidrFilter` is `cidr.util.ts` over words of any width, a number written as the set
of its one bits: `&` is the intersection, `<<` counts modulo the width, octets of an
entry may be out of range as its expression allows. `CidrMeansBlock` compares it
with the definition of a block: the same quotient by the number of its addresses.
`Binary` is what digits write, one after the other.

`OltDirectory` holds the tables an administrator edits and the requests that edit
them. Reads whose result is used later are steps of their own: the form that is
loaded (`OpenForm`) and sent whole afterwards (`UpdateOlt`, with `Merge` for the
fields that are not sent), and the count of a city's OLTs before its removal
(`CountOlts`, `DeleteCity` with the foreign key's SET NULL). Other clients of the API
send a PATCH of one field (`PatchOlt`). Not sent (`None`) and null (`Null`) differ:
`@IsOptional` lets a null pass and `update` writes it, so a null takes the city away.
The form cannot do that: its choice "Sem cidade" (`OltFormPage.tsx:138`) becomes
`undefined`, which is not sent, and an OLT that had a city keeps it, although the form
offers the contrary and reports success.

`TrapRegistry` composes them with the copy in memory. A refresh, started by the
interval, by a request after its change or at the start, reads two tables at two
moments and assigns both (`ReadTable`, `Assign`); it may fail (`RefreshFails`: the
request is answered with an error although its change is stored), and the process
may die (`Crash`). `Validate` is evaluated by the properties, on the copy as it is.
`answered` and `overtaken` are history.

### AlarmQueries, Session, AlarmsPage

`AlarmQueries` has the three lists and the three summaries as functions of the
tables and a query. Rows of one moment, whose order the code leaves to the
database, are listed by id. `Session` is the browser's: token in memory and in
localStorage, the tokens the API accepts, and `stray`, the tokens of requests whose
page is gone but whose answers are still to come. `AlarmsPage` composes the two: a
`reload` is seven requests that are answered each at its moment; the page takes
all seven answers or none (`Complete`, `Fail`), and none is ever cancelled. `Choose`
is a change of anything that is chosen with the two effects it triggers: the reload
of the old page, and `setPage(1)`, which is the next render (`ResetPage`) and starts
another. The state keeps which rows an answer was made of; `Answer` looks them up.
A signed-out browser shows no page (`Unmount`), and its requests become stray.
`late` and `blind` are history: an older reload was shown after a newer one; rows
changed past page 1, or "Proxima" was pressed on an old list.

## 3. The runs

| Run | Shows |
|---|---|
| `alarm_race` | `TypeOK`, `UniqueActive`, `HistoryIsFinal`, `LinearizableIngest` with three traps of one alarm and an operator |
| `alarm_olts` | `HeldRowIsOwn`, `NoOrphanAlarm`, `HandlersFinish` with two OLTs that are removed at any time |
| `onu_status` | `OwnAlarmCounted`, `OnlyOltLiftsDisable`, `OnlySerialRegisters`, `ArchivedWasNotRead`, `OnlyOutagesLowerOnu` |
| `onu_reconcile` | *violated* `NoUpWhileDown`: a reconciliation with an old count writes last |
| `onu_archive` | `ArchivedOnce`, `HistoryNotMixed`, `HistoryFollowsOnu`, `ArchiveIsFinal` |
| `olt_walk` | `WalkingMeansWalking`, `InterfacesReplaced`, `WalksEnd`, `WalkingSettles` |
| `olt_walk_throws` | *violated* `NeverThrows`: the OLT is removed while it is walked |
| `user_admin` | `OneAccountPerEmail`, `LastAdminFallsOnlyToARace` |
| `user_admin_race` | *violated* `LastAdminKept`: two administrators demoted at once |
| `trap_terminal` | `NothingLost`, `PageInOrder`, `ShownOnce` |
| `trap_registry` | `AnsweredChangeInForce`, `JudgedByTables`, `CacheConverges`, `CityLostToNullOrRace`; evaluates `CidrMeansBlock` |
| `alarms_page` | `StaleOnlyByOvertaking`, `PageExists`, `AutoRefreshHeals`, `LiveSessionLostOnlyToOlder` |

A violated run states what a comment of the code promises and finds a behaviour of
the code that breaks it; `PROJECT.json` quotes the comment. The passing properties
beside it say what does hold: for instance, that the last administrator falls to a
race only (`LastAdminFallsOnlyToARace`), that a restart is the only reason for an
unseen entry not to be sent (`shadow` in `NothingLost`), that a change answered as
done is overruled only by a refresh that had read before it
(`AnsweredChangeInForce`), that an alarm page at rest shows an old choice only when
an older reload was answered after a newer one (`StaleOnlyByOvertaking`; nothing in
`reload` compares them), that an unreadable serial table archives nobody, although one
unreadable row may (`ArchivedWasNotRead`), that interfaces of two walks are mixed only
when neither saw the other's (`InterfacesReplaced`), that an OLT loses its city to a
null or to a race (`CityLostToNullOrRace`), and that a live session is lost, besides
by logging out, only at a start (a reload of the tab) whose `/me` fails, for whatever
reason, and by the late 401 of an older token that has died
(`LiveSessionLostOnlyToOlder`).

Each property of a passing run has mutants of the code (operators marked
*mutant*, next to the action they change) under which TLC finds it violated.

**Bounds.** Handlers, requests and walks: every race found here is between two,
and three traps are run on one alarm (two that race and one that closes what they
race for). Rows: `AlarmId` has one row for each insertion that can be open at once
and one more to be created after a close; when the ids are used up `Create` waits
and nothing else changes. `OnuId` is two, so that an ONU can be removed and come
back under a new id. `TrapTerminal` has a ring of two, smaller than its page of
three, and four entries in each of two epochs, so that the ring overflows, the
page slides and numbers repeat. `OnuStatus` has two positions, since the safety net and a single broken row
differ only when another row is there. One sends thirteen notifications: two kinds of
outage, one of them with its CLEAR, a blacklisting, a provisioning with and without a
serial, and those that must not lower the ONU or never get as far. The other is only
walked, and its status never reported (`StatusTable`), so it is upserted by default.
`OltWalk` has two interfaces: one and the same, or one each, or both.
`TrapRegistry` has two requests, of the form or not, and the interval, so three refreshes overlap, two
changes and one failure, over an installation that is new or not; addresses have
two octets of two bits, enough for a prefix on and off an octet's boundary.
`AlarmsPage` has two reloads in flight, two logins, and four moves in all
(logins, clicks, changes of the alarms, failures, deaths of tokens): a login, two
changes whose answers come in the wrong order, and one more. One page is one row, so page 2 exists
with two alarms; one of the seven requests is answered apart (`Apart`), since the
other six are compared with the same rows. Sets of slots and ids are symmetric
where only safety is checked.

**Fairness.** `AlarmIngest!FairSpec`: a continuation whose statement has been
answered or rejected is run, so a handler that is not at rest makes a step
(`StatementFails` counts: a statement that never answers is cut by the pool's
timeouts). `TrapRegistry!FairSpec`: statements are answered or reject, and the interval
fires. `AlarmsPage!FairSpec`: the browser runs its effects and its interval, and a
request is answered or given up; a failure is a move, so it is never owed.
Deadlock is not checked there, because a browser may stay signed out for good.
`OltWalk!FairSpec`: SNMP requests have a timeout and statements are
answered, so a walk makes a step; Docker restarts a dead container. No arrival,
click, crash or removal is owed to anybody.

## 4. The proofs

Every safety property of the passing runs is also a theorem, for every number of
handlers, requests, walks, rows, OLTs and users (finite or not) and every value of the
bounds. Each module of proofs has the same layout: an inductive invariant `Inv`;
`Init => Inv`; a lemma per action, or per group of actions that disturb the same part;
`Invariance`, which is `Spec => []Inv`; and the theorems that follow from it.
`TypeCorrect` is there in each. What is assumed of the constants is named in the
module that declares them and evaluated by TLC: that something chosen to be no row,
no id or no value really is none (`NoRowAssumption`, `NoneAssumption`,
`RegistryAssumption`, `TerminalAssumption`), that functions and start values are of
their type and start tables finite (`OltOfAssumption`, `SeedEmailAssumption`, `NoticeAssumption`,
`DirectoryAssumption`, `StartAssumption`, `InputAssumption`), and that bounds and
widths are numbers (`BoundsAssumption`, `WidthAssumption`).

**AlarmIngestProofs.** `Inv` is `TypeOK`, `BranchOK`, `UniqueActive`, `HeldRowIsOwn`
and `NoOrphanAlarm`. `BranchOK` is the strengthening: a handler at `create`, `winner`
or `refresh` came from a SET, one at `close` from a CLEAR. `HeldRowIsOwn` is needed for
the others: without it a `Close` could hit a row of another key. `ClosedStaysClosed`:
every action either only ages the table (`TableAges`) or inserts one unused row
(`RowInserted`). `Linearizable` is the refinement `Spec => LinearizableIngest`: initial
states map to initial states; under `Inv` every action maps to one step of
`AlarmRegister` or to a stutter. `UniqueActive` enters where a row is closed: the key's
bit then really falls.

**OnuArchiveProofs.** `OneArchive`, `NoMixedHistory`, `NothingLeftBehind` and
`ArchiveStays`. None is inductive, because what a transaction commits was chosen
several statements earlier. `HeldOK` says that what a walk holds (closed, locked) is
still linked to its ONU, whoever else has run; `CollectedOK` that it is all that is
linked to it but for rows stored since; `LinksOK` that an archived row links to no ONU
and a row of the present ONU to it; `IdsOK` that every id held anywhere was given to an
ONU; `UnusedOK` that a row never written links to nothing. Row locks and the foreign key are what carries `HeldOK` through the steps of
others.

**OnuStatusProofs.** `CountsItsOwn` follows from `HandlersOK` (a handler's SET that
stands is in the table); `SerialRegisters` from `Justified`, its part that keeps what the notification
of a handler said, its serial included: only a pROVISIONED trap with one is ever at
`upsert`. It and `NoFalseRemoval` need `WalkOK`: what a walk upserts it has read as
a serial, what it removes it has not, and it removes something only if it has read some
serial or no row at all. `BlacklistingSurvives` and `OutagesAlone` are action
properties from the same invariant. The last needs
`DownTrapsAreOutages`, proved over the whole table of notifications:
`ONU_DOWN_TRAP_OIDS`, as the code computes it, is the set of outages.

**UserAdminProofs.** `EmailsUnique` and `OnlyARaceRemovesTheLast`. `CheckStands` is the
strengthening: if a request past its check is not `raced`, there is an ADMIN besides
its target. Its first attempt failed at promotions, and rightly so: with four requests
(two that demote the two ADMINs, one that demotes a VIEWER, one that promotes this
VIEWER) the last ADMIN was taken away by a request no other ADMIN's loss had
overtaken. The run has two requests and cannot reach it. `raced` now also counts a
promotion of the target, as section 2 says: that too is a change of what was checked.

**OltWalkProofs.** `WalkingIsTrue` (with the exception of `cut`) and
`InterfacesAreReplaced`. Two facts are added: nothing writes the status of an OLT
before it is created (`NewIsPending`), and the delete of a walk that is about to insert
has missed nothing unless it is marked `beside` (`NothingMissed`), which is what makes
the interfaces those of one walk.

**TrapRegistryProofs.** `AnswersAreInForce` needs to know of the refreshes under way:
what a request's refresh has read of its table is not older than the request's change
(`ReadsAfterChange`), nor is what the first refresh of a process has read older than
anything answered before (`BootReads`). `CitiesKept` needs `CountStands`: a count that
found no OLT still holds, unless `raced`; and that neither the form nor a field that
is not sent empties one that is there (`EditedForm`, `MergedRow`). `JudgedByTheTables` joins the copy with the
matching of addresses, and so rests on `MaskIsBlock`: `CidrMeansBlock` for every number
of octets of every size. The mask compares as many leading bits as the prefix is long
(`PrefixesCompared`); binary numbers whose leading digits agree have the same quotient
(`BinaryDigits`, `Quotient`, `SameDigits`).

**TrapTerminalProofs.** `NothingIsLost`, `InOrder`, `ShownOnlyOnce`, for every size of
ring and page. Ring and stream are runs of numbers that end with the newest (`Ring`,
`WireInStep`), so the id the browser keeps cuts the log exactly where the page left
off (`IdInStep`), or hides what `shadow` says; what was shown is at or below that id
(`ShownInStep`).

**AlarmsPageProofs.** `StaleOnlyIfOvertaken`: the newest reload is for what is chosen
(`NewestIsChosen`), and those overtaken come first (`LateFirst`); so the reload that is
answered last is the newest, or is marked, or has failed. `PageIsThere`: past page 1,
with rows that have not changed, the newest reload has read the rows as they are, and
they reach as far as the page (`PageInv`), since any other choice goes back to
page 1. `PageLength`, `Division` and `PagesBefore` are the arithmetic of pages.
`OnlyAnOlderSessionEndsIt` goes through the actions that end a session; it needs that
what is stored and what is sent are one token.

**Data.** The provers cannot instantiate the induction rules of the library. Where a
sum, a sequence or a recursive function of any length is reasoned about, the
induction is over a set instead: if some number up to the bound broke the rule there
would be a least one (`LeastElement`, `Induction`, from the library's well-founded
order). The definitions are written so that they can be reasoned about: `Binary`
and `GetLogSince` are recursive functions, `InOrder` gives each row its place. `SelectSeq`,
`SortSeq`, `@@` and `^` mean nothing to the provers.

**Only model-checked.** Liveness (`HandlersFinish`, `WalksEnd`, `WalkingSettles`,
`CacheConverges`, `AutoRefreshHeals`), which is outside the provers; and the three
violations, which are behaviours and need only be found.

## 5. Not modelled

- Credentials' encryption (one value at a time, no state), MIB files, SNMP
  encoding, the formatting of serials, the tables `SignalReading` and
  `ProvisioningJob` (written by nobody), Redis (used by nobody).
- Of the console: layout and wording; the tree of OLTs on the alarm page (which
  loads the GPON interfaces of an OLT once and keeps the answer, also an error);
  the window of one ONU's alarms, whose effect ignores the answer of an earlier
  one; the pages of users, settings and OLTs, which send one request per click;
  several tabs that share one localStorage.
- Passwords and their change; an administrator's reset beside it. Tokens are not
  revoked by either, which `Session` has: they die by age or with their user.
- Queries: the filters on `logicalPortNo` and on an ONU's status, the lists of one
  OLT's interfaces and ONUs.
- That the newer of a trap and a walk wins: the walk overwrites what a trap wrote
  after the table was read. `OnlyOltLiftsDisable` and `OnlyOutagesLowerOnu` count
  the walk among the writers instead.
- The order of traps: handlers of one ONU may take effect in an order other than
  that of arrival (section 2, `AlarmIngest`).
- A statement that is committed but whose answer is lost is like one that answers,
  since no handler does anything different afterwards except write a log line; the
  exceptions, a `Create` and a `Close`, end the handler either way.

## 6. Plan

Done, in this order: `AlarmRegister`, `AlarmIngest` and its proofs, `OnuStatus`,
`OnuArchive`, `OltWalk`, `UserAdmin`, `TrapTerminal`; then `TrapMapping` and
`TrapIntake` (in `OnuStatus`), `CidrFilter`, `OltDirectory` and `TrapRegistry`,
`AlarmQueries`, `Session` and `AlarmsPage`; then the proofs of the safety properties,
component by component. What is left, in order of weight:

1. An abstract registry (one table, changes in force at once or not at all) that
   `TrapRegistry` implements when no refresh is overtaken.
2. That the summaries of `AlarmQueries` agree with the lists: the worst severity of an
   OLT is one of its alarms.
3. `OltWalk` as a refinement of "one walk at a time", with the overlap it allows named.
