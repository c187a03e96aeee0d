----------------------------- MODULE AlarmsPage -----------------------------
(***************************************************************************)
(* The alarm page of the web console (AlarmsPage.tsx) in a browser that    *)
(* signs in and out (Session), against the API's lists (AlarmQueries).     *)
(*                                                                         *)
(* A reload() is seven requests, answered each at a moment of its own; the *)
(* page changes when all are there, and not at all when one fails.  Every  *)
(* change of what it depends on starts one more, and none is cancelled.    *)
(*                                                                         *)
(* Layout is left out, and with it what the tree of OLTs shows and hides.  *)
(***************************************************************************)
EXTENDS AlarmQueries, Session

CONSTANTS
    Filters,      \* the filter values an operator enters, EMPTY_FILTERS among them
    EMPTY_FILTERS,
    Search,       \* searches of the ONU tab, each the set of ONUs it matches
    PageSize,     \* PAGE_SIZE_OPTIONS, the first one the default
    Alarms,       \* the Alarm rows at the start
    Events, Onus, \* rows of the other lists, which do not change here
    Apart,        \* the requests of a reload answered apart from the others
    MaxReloads,   \* bound: reloads in flight
    MaxMoves      \* bound: logins, clicks, changes of the alarms, failed requests,
                  \* tokens that die and restarts of the browser, all together

VARIABLES
    alarms,       \* table Alarm
    page,         \* state of the component
    reloads,      \* reloads in flight, in the order they were started
    auto,         \* autoRefreshSeconds > 0, kept in localStorage
    moves,        \* those so far
    blind         \* history: past page 1 the rows changed, or an old list was relied on

vars == <<browser, alive, issued, stray, alarms, page, reloads, auto, moves, blind>>

----------------------------------------------------------------------------
Request == {"olts", "alarms", "summary", "events", "onus", "byOlt", "byGpon"}
StatusFilter == {"active", "inactive", "all"}
View == {"alarms", "events", "onus"}
Choice ==
    [olts : SUBSET Olt, ports : SUBSET (Olt \X Port), status : StatusFilter, view : View,
     filters : Filters, search : Search, page : Nat \ {0}, pageSize : Range(PageSize)]

FirstChoice ==
    [olts |-> {}, ports |-> {}, status |-> "active", view |-> "alarms",
     filters |-> EMPTY_FILTERS, search |-> AnyOnu, page |-> 1, pageSize |-> PageSize[1]]

ASSUME BoundsAssumption ==
    /\ MaxReloads \in Nat \ {0} /\ Apart \subseteq Request
    /\ MaxMoves \in Nat /\ MaxLogin \in Nat

ASSUME InputAssumption ==
    /\ Filters \subseteq [severity : SUBSET AlarmSeverity, port : Port \cup {0},
                          search : SUBSET AnyOnu, raised : SUBSET Nat]
    /\ EMPTY_FILTERS \in Filters
    /\ Search \subseteq SUBSET AnyOnu /\ AnyOnu \in Search
    /\ PageSize \in Seq(1..500) \ {<<>>}
    /\ Alarms \subseteq AlarmRow /\ IsFiniteSet(Alarms)
    /\ IsFiniteSet(Events) /\ IsFiniteSet(Onus)

Initially ==
    [choice |-> FirstChoice, resetting |-> FALSE, shown |-> <<>>, of |-> FirstChoice,
     late |-> FALSE, error |-> FALSE]

----------------------------------------------------------------------------
(* The queries of reload()                                                 *)

ALARM_STATUS_CONDITION == [active |-> "ACTIVE", inactive |-> "CLEARED", all |-> None]

\* GPONs, once chosen, stand in for the OLTs.
Scope(c) ==
    [olts |-> IF c.ports # {} THEN {} ELSE c.olts, ports |-> c.ports, onu |-> None,
     page |-> c.page, pageSize |-> c.pageSize]

AlarmQuery(c) ==
    LET f == c.filters  scope == Scope(c) IN
    [olts |-> scope.olts, ports |-> scope.ports, onu |-> scope.onu, search |-> f.search,
     port |-> f.port, severity |-> f.severity, raised |-> f.raised,
     condition |-> ALARM_STATUS_CONDITION[c.status], page |-> c.page, pageSize |-> c.pageSize]

OnuQuery(c) ==
    LET scope == Scope(c) IN
    [olts |-> scope.olts, ports |-> scope.ports, onu |-> scope.onu, search |-> c.search,
     page |-> c.page, pageSize |-> c.pageSize]

Ids(list) == [data |-> [i \in DOMAIN list.data |-> list.data[i].id], total |-> list.total]

\* The answer of a request that finds these rows in the table Alarm.  The
\* state keeps the rows; they are looked at where their answer matters.
Answer(request, rows, c) ==
    CASE request = "olts" -> Olt
      [] request = "alarms" -> Ids(findAlarms(rows, AlarmQuery(c)))
      [] request = "summary" -> summary(rows, Scope(c))
      [] request = "events" -> Ids(findEvents(Events, Scope(c)))
      [] request = "onus" -> Ids(findOnus(Onus, OnuQuery(c)))
      [] request = "byOlt" -> summaryByOlt(rows)
      [] request = "byGpon" -> summaryByGpon(rows)

TypeOK ==
    /\ SessionTypeOK
    /\ alarms \in SUBSET AlarmRow
    /\ page.choice \in Choice /\ page.of \in Choice
    /\ AlarmQuery(page.choice) \in QueryAlarmsDto /\ OnuQuery(page.choice) \in QueryOnusDto
    /\ page.resetting \in BOOLEAN /\ page.late \in BOOLEAN /\ page.error \in BOOLEAN
    /\ DOMAIN page.shown \in {{}, Request}
    /\ Len(reloads) <= MaxReloads
    /\ \A i \in 1..Len(reloads) :
         /\ reloads[i].of \in Choice /\ reloads[i].late \in BOOLEAN
         /\ DOMAIN reloads[i].got \subseteq Apart
    /\ moves \in 0..MaxMoves
    /\ auto \in BOOLEAN /\ blind \in BOOLEAN
    /\ browser.user \/ (page = Initially /\ reloads = <<>>)

----------------------------------------------------------------------------
(* Reloads                                                                 *)

Move == moves < MaxMoves /\ moves' = moves + 1

Started(c) == Append(reloads, [of |-> c, got |-> <<>>, late |-> FALSE])

\* (mutant: a dependency of reload forgotten)
ReloadKeyNoSearch(c) == <<c.olts, c.ports, c.status, c.filters, c.page, c.pageSize>>

\* What the dependencies of reload name ...
ReloadKey(c) == <<c.olts, c.ports, c.status, c.filters, c.search, c.page, c.pageSize>>

\* (mutant: a dependency of the reset of the page forgotten)
ScopeKeyNoStatus(c) == <<c.olts, c.ports, c.filters, c.search, c.view>>

\* ... and those of the reset of the page.
ScopeKey(c) == <<c.olts, c.ports, c.status, c.filters, c.search, c.view>>

\* A change is rendered, then the effects run: a reload of what is chosen
\* now, still of the old page, and setPage(1), which is the next render.
Choose(c) ==
    /\ browser.user
    /\ c # page.choice
    /\ page' = [page EXCEPT !.choice = c,
                            !.resetting = @ \/ (ScopeKey(c) # ScopeKey(page.choice) /\ c.page # 1),
                            !.error = @ /\ ReloadKey(c) = ReloadKey(page.choice)]
    /\ \/ ReloadKey(c) = ReloadKey(page.choice) /\ UNCHANGED reloads
       \/ /\ ReloadKey(c) # ReloadKey(page.choice)
          /\ Len(reloads) < MaxReloads
          /\ reloads' = Started(c)
    /\ UNCHANGED <<browser, alive, issued, stray, alarms, auto>>

Click(c) ==
    /\ Move
    /\ Choose(c)

ResetPage ==
    /\ page.resetting
    /\ LET c == [page.choice EXCEPT !.page = 1] IN
       \/ /\ c = page.choice
          /\ page' = [page EXCEPT !.resetting = FALSE]
          /\ UNCHANGED reloads
       \/ /\ c # page.choice
          /\ Len(reloads) < MaxReloads
          /\ page' = [page EXCEPT !.choice = c, !.resetting = FALSE, !.error = FALSE]
          /\ reloads' = Started(c)
    /\ blind' = FALSE
    /\ UNCHANGED <<browser, alive, issued, stray, alarms, auto, moves>>

\* "Atualizar" and the interval of the automatic refresh.
ReloadAgain ==
    /\ browser.user
    /\ Len(reloads) < MaxReloads
    /\ page' = [page EXCEPT !.error = FALSE]
    /\ reloads' = Started(page.choice)
    /\ UNCHANGED <<browser, alive, issued, stray, alarms, auto, moves, blind>>

Refresh == ReloadAgain

\* (mutant: no tick while an error is shown)
TickUnlessError == auto /\ ~page.error /\ ReloadAgain

Tick == auto /\ ReloadAgain

Answered(i, request) ==
    /\ browser.token \in alive
    /\ request \in Apart \ DOMAIN reloads[i].got
    /\ LET got == reloads[i].got IN
       reloads' = [reloads EXCEPT ![i].got =
                     [r \in DOMAIN got \cup {request} |->
                        IF r = request THEN alarms ELSE got[r]]]
    /\ UNCHANGED <<browser, alive, issued, stray, alarms, page, auto, moves, blind>>

Without(i) == SubSeq(reloads, 1, i - 1) \o SubSeq(reloads, i + 1, Len(reloads))

\* The last answers are there, and all of them are shown, also when a reload
\* started later has been shown already.
Complete(i) ==
    /\ browser.token \in alive
    /\ DOMAIN reloads[i].got = Apart
    /\ LET c == reloads[i].of
           older == [k \in 1..i-1 |-> [reloads[k] EXCEPT !.late = TRUE]] IN
       /\ page' = [page EXCEPT !.shown = [r \in Request |->
                                            IF r \in Apart THEN reloads[i].got[r] ELSE alarms],
                               !.of = c, !.late = reloads[i].late]
       /\ reloads' = older \o SubSeq(reloads, i + 1, Len(reloads))
    /\ UNCHANGED <<browser, alive, issued, stray, alarms, auto, moves, blind>>

\* One request fails (not a 401): what was shown stays, under the message.
Fail(i) ==
    /\ Move
    /\ page' = [page EXCEPT !.error = TRUE]
    /\ reloads' = Without(i)
    /\ stray' = stray \cup {browser.token}
    /\ UNCHANGED <<browser, alive, issued, alarms, auto, blind>>

----------------------------------------------------------------------------
(* The page in the session: it is mounted while somebody is signed in.     *)

Mount ==
    /\ page' = Initially
    /\ reloads' = <<[of |-> FirstChoice, got |-> <<>>, late |-> FALSE]>>
Unmount == page' = Initially /\ reloads' = <<>>

Left == IF reloads = <<>> THEN {} ELSE {browser.token}
Outside == UNCHANGED <<alarms, auto>> /\ blind' = FALSE

LogIn == Login /\ Move /\ Mount /\ Outside
LogOut == Logout /\ stray' = stray \cup Left /\ Move /\ Unmount /\ Outside
RestartBrowser == Restart /\ Move /\ Unmount /\ Outside
StartAccepted == MeAccepted /\ Mount /\ Outside /\ UNCHANGED moves
StartFails == MeFails /\ Unmount /\ Outside /\ UNCHANGED moves
Revoke(t) == TokenDies(t) /\ Move /\ UNCHANGED <<alarms, page, reloads, auto, blind>>

\* The first 401 of a reload; its other six are still to come.
Refused(i) ==
    /\ Unauthorized(browser.token)
    /\ browser' = SignedOut
    /\ stray' = stray \cup {browser.token}
    /\ UNCHANGED <<alive, issued>>
    /\ Unmount /\ Outside
    /\ UNCHANGED moves

LateAnswer(t) ==
    /\ StrayAnswered(t)
    /\ \/ /\ browser' = browser
          /\ stray' \in {stray, stray \ {t}}
          /\ UNCHANGED <<alarms, page, reloads, auto, moves, blind>>
       \/ /\ browser' # browser
          /\ \E rest \in {stray, stray \ {t}} : stray' = rest \cup Left
          /\ Unmount /\ Outside
          /\ UNCHANGED moves

----------------------------------------------------------------------------
(* The operator                                                            *)

Toggle(set, x) == IF x \in set THEN set \ {x} ELSE set \cup {x}
With(c) == Click(c) /\ UNCHANGED blind

toggleOltSelection(o) == With([page.choice EXCEPT !.olts = Toggle(@, o)])
SelectAllOlts == With([page.choice EXCEPT !.olts = {}])
toggleCitySelection(os) ==
    With([page.choice EXCEPT !.olts = IF os \subseteq @ THEN @ \ os ELSE @ \cup os])
toggleGponSelection(g) == With([page.choice EXCEPT !.ports = Toggle(@, g)])
SetStatusFilter(s) == With([page.choice EXCEPT !.status = s])
SetView(v) == With([page.choice EXCEPT !.view = v])
SetFilters(f) == With([page.choice EXCEPT !.filters = f])
SearchOnus(found) == With([page.choice EXCEPT !.search = found])
handlePageSizeChange(size) ==
    /\ Click([page.choice EXCEPT !.pageSize = size, !.page = 1])
    /\ blind' = FALSE

Shown(request) == Answer(request, page.shown[request], page.of)
List ==
    IF page.shown = <<>> THEN [data |-> <<>>, total |-> 0] ELSE Shown(page.choice.view)
TotalPages == Max({1, (List.total + page.choice.pageSize - 1) \div page.choice.pageSize})

\* The page shows what its requests would be answered now.
UpToDate ==
    /\ page.shown # <<>>
    /\ \A r \in Request : Shown(r) = Answer(r, alarms, page.choice)

NextPage ==
    /\ page.choice.page < TotalPages
    /\ Click([page.choice EXCEPT !.page = @ + 1])
    /\ blind' = (blind \/ ~UpToDate)

\* (mutant: "Anterior" never disabled)
PreviousPageAlways == Click([page.choice EXCEPT !.page = @ - 1]) /\ UNCHANGED blind

PreviousPage ==
    /\ page.choice.page > 1
    /\ Click([page.choice EXCEPT !.page = @ - 1])
    /\ UNCHANGED blind

SetAutoRefresh ==
    /\ browser.user
    /\ Move
    /\ auto' = ~auto
    /\ UNCHANGED <<browser, alive, issued, stray, alarms, page, reloads, blind>>

\* Outside: an alarm is raised or closed.
AlarmsChange ==
    /\ Move
    /\ \E row \in alarms, at \in {1 + Cardinality(alarms)} :
         \/ /\ row.condition = "ACTIVE"
            /\ alarms' = (alarms \ {row}) \cup {[row EXCEPT !.condition = "CLEARED", !.clearedAt = at]}
         \/ alarms' = alarms \cup {[row EXCEPT !.id = at, !.condition = "ACTIVE", !.raisedAt = at]}
    /\ blind' = (page.choice.page > 1)
    /\ UNCHANGED <<browser, alive, issued, stray, page, reloads, auto>>

----------------------------------------------------------------------------
Init ==
    /\ SessionInit
    /\ alarms = Alarms /\ page = Initially /\ reloads = <<>>
    /\ auto = TRUE
    /\ moves = 0
    /\ blind = FALSE

Next ==
    \/ LogIn \/ LogOut \/ RestartBrowser \/ StartAccepted \/ StartFails
    \/ \E t \in 1..issued : Revoke(t) \/ LateAnswer(t)
    \/ \E i \in 1..Len(reloads) :
         \/ \E r \in Apart : Answered(i, r)
         \/ Complete(i)
         \/ Fail(i)
         \/ Refused(i)
    \/ ResetPage
    \/ Refresh
    \/ Tick
    \/ \E o \in Olt : toggleOltSelection(o)
    \/ SelectAllOlts
    \/ toggleCitySelection(Olt)
    \/ \E g \in Olt \X Port : toggleGponSelection(g)
    \/ \E s \in StatusFilter : SetStatusFilter(s)
    \/ \E v \in View : SetView(v)
    \/ \E f \in Filters : SetFilters(f)
    \/ \E found \in Search : SearchOnus(found)
    \/ \E size \in Range(PageSize) : handlePageSizeChange(size)
    \/ NextPage
    \/ PreviousPage
    \/ SetAutoRefresh
    \/ AlarmsChange

Spec == Init /\ [][Next]_vars

\* The browser runs its effects and its timer, and every request is answered.
FairSpec ==
    /\ Spec
    /\ WF_vars(ResetPage)
    /\ WF_vars(Tick)
    /\ \A i \in 1..MaxReloads :
         /\ \A r \in Apart : WF_vars(i <= Len(reloads) /\ Answered(i, r))
         /\ WF_vars(i <= Len(reloads) /\ (Complete(i) \/ Refused(i)))

----------------------------------------------------------------------------
(* Properties                                                              *)

Settled == browser.user /\ reloads = <<>> /\ ~page.error

\* Whatever is clicked while reloads are in flight, and whichever fail, a page
\* at rest that shows no message shows what is chosen now, except where an
\* older reload was answered after a newer one.
StaleOnlyByOvertaking ==
    Settled => page.late \/ [page.of EXCEPT !.view = page.choice.view] = page.choice

\* AlarmsPage.tsx:239-241: nobody is left on a page that does not exist for
\* the new scope, unless the rows changed meanwhile or "Proxima" was pressed
\* on a list that was out of date.
PageExists ==
    Settled /\ ~page.late /\ ~page.resetting /\ ~blind
        => page.choice.page = 1 \/ Len(List.data) > 0

\* The automatic refresh makes up for every order of answers and for every
\* failure: once nothing changes, the page shows the database.
AutoRefreshHeals ==
    <>[](browser.user /\ auto) => <>[]UpToDate

\* A token the API still accepts is forgotten by logging out, by a start that
\* gets no answer to /me, or by the late refusal of a token before it.
LiveSessionLostOnlyToOlder ==
    [][browser.token \in alive /\ browser'.token = 0 =>
         \/ LogOut \/ StartFails
         \/ \E t \in stray : t # browser.token /\ t \notin alive /\ LateAnswer(t)]_vars
=============================================================================
