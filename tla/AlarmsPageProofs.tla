-------------------------- MODULE AlarmsPageProofs --------------------------
(***************************************************************************)
(* Theorems about AlarmsPage for every number of reloads in flight.  The   *)
(* page may show any of them, so nothing can be said of what it shows; but *)
(* the newest is for what is chosen (NewestIsChosen), a reload that is     *)
(* overtaken is marked, and those that are come first (LateFirst), so the  *)
(* one that is answered last is the newest, or marked, or has failed.      *)
(*                                                                         *)
(* That the page asked for exists needs arithmetic (PageLength) and one    *)
(* fact more: past page 1 the rows are what the newest reload reads        *)
(* (PageInv), since a change of anything else leads back to page 1.        *)
(***************************************************************************)
EXTENDS AlarmsPage, SequenceTheorems, FiniteSetTheorems, TLAPS

\* What a reload has got so far, and a reload.
Got == UNION {[D -> SUBSET AlarmRow] : D \in SUBSET Apart}
Reload == [of : Choice, got : Got, late : BOOLEAN]
PageState ==
    [choice : Choice, resetting : BOOLEAN, shown : {<<>>} \cup [Request -> SUBSET AlarmRow],
     of : Choice, late : BOOLEAN, error : BOOLEAN]

\* The token sent is one that was issued, and a browser that asks who it is
\* has nobody signed in yet.
BrowserOK ==
    /\ browser.user \/ browser.loading => browser.token \in 1..issued
    /\ browser.stored \in 0..issued /\ browser.stored = browser.token
    /\ ~(browser.user /\ browser.loading)

\* The state TypeOK is about, to the last part.
StateOK ==
    /\ alarms \in SUBSET AlarmRow /\ IsFiniteSet(alarms)
    /\ page \in PageState
    /\ reloads \in Seq(Reload) /\ Len(reloads) <= MaxReloads
    /\ moves \in 0..MaxMoves
    /\ auto \in BOOLEAN /\ blind \in BOOLEAN
    /\ browser.user \/ (page = Initially /\ reloads = <<>>)

\* Reloads are overtaken from the front.
LateFirst ==
    \A i, j \in 1..Len(reloads) : i < j /\ reloads[j].late => reloads[i].late

\* Two choices that differ in nothing but the tab.
SameRows(c, d) == [c EXCEPT !.view = d.view] = d

\* While no message is shown, the newest reload is for what is chosen, and when
\* it is answered, overtaken or not started, so is what is shown.
NewestIsChosen ==
    browser.user /\ ~page.error =>
      IF reloads # <<>> /\ ~reloads[Len(reloads)].late
      THEN SameRows(reloads[Len(reloads)].of, page.choice)
      ELSE page.late \/ SameRows(page.of, page.choice)

Inv ==
    /\ SessionTypeOK
    /\ BrowserOK
    /\ StateOK
    /\ LateFirst
    /\ NewestIsChosen

----------------------------------------------------------------------------
(* Choices                                                                 *)

\* The page sizes are sizes the validation of the lists lets through.
LEMMA SizesAllowed == Range(PageSize) \subseteq 1..500 /\ PageSize[1] \in Range(PageSize)
<1>1. PageSize \in Seq(1..500) /\ PageSize # <<>>
  BY InputAssumption
<1>2. DOMAIN PageSize = 1..Len(PageSize) /\ Len(PageSize) \in Nat /\ Len(PageSize) # 0
  BY <1>1, EmptySeq, LenProperties
<1>3. 1 \in DOMAIN PageSize
  BY ONLY <1>2
<1>4. ASSUME NEW i \in 1..Len(PageSize) PROVE PageSize[i] \in 1..500
  BY ONLY <1>1, i \in 1..Len(PageSize), ElementOfSeq
<1>5. \A i \in DOMAIN PageSize : PageSize[i] \in 1..500
  BY ONLY <1>2, <1>4
<1> QED
  BY ONLY <1>3, <1>5 DEF Range

\* What the page starts with is a choice.
LEMMA FirstChoiceTyped == FirstChoice \in Choice
BY SizesAllowed, InputAssumption DEF FirstChoice, Choice, StatusFilter, View

\* What a choice asks of the lists is a query their validation lets through.
LEMMA QueriesTyped ==
    ASSUME NEW c \in Choice
    PROVE  AlarmQuery(c) \in QueryAlarmsDto /\ OnuQuery(c) \in QueryOnusDto
<1>1. /\ c.olts \in SUBSET Olt /\ c.ports \in SUBSET (Olt \X Port) /\ c.status \in StatusFilter
      /\ c.filters \in [severity : SUBSET AlarmSeverity, port : Port \cup {0},
                        search : SUBSET AnyOnu, raised : SUBSET Nat]
      /\ c.search \in SUBSET AnyOnu /\ c.page \in Nat \ {0} /\ c.pageSize \in 1..500
  BY SizesAllowed, InputAssumption DEF Choice
<1>2. ALARM_STATUS_CONDITION[c.status] \in {"ACTIVE", "CLEARED", None}
  BY <1>1 DEF StatusFilter, ALARM_STATUS_CONDITION
<1>3. /\ Scope(c).olts \in SUBSET Olt /\ Scope(c).ports \in SUBSET (Olt \X Port)
      /\ Scope(c).onu = None
  BY <1>1 DEF Scope
<1>4. AlarmQuery(c) \in QueryAlarmsDto
  BY <1>1, <1>2, <1>3 DEF AlarmQuery, QueryAlarmsDto, AnyOnu
<1>5. OnuQuery(c) \in QueryOnusDto
  BY <1>1, <1>3 DEF OnuQuery, QueryOnusDto
<1> QED
  BY <1>4, <1>5

\* Two choices have the same rows when the dependencies of reload say so.
LEMMA SameRowsIsKey ==
    ASSUME NEW c \in Choice, NEW d \in Choice
    PROVE  SameRows(c, d) <=> ReloadKey(c) = ReloadKey(d)
BY DEF SameRows, ReloadKey, Choice

----------------------------------------------------------------------------
(* Sequences of reloads                                                    *)

\* What two sequences end to end are, one of them cut out of s.
LEMMA CutProperties ==
    ASSUME NEW S, NEW s \in Seq(S), NEW i \in 1..Len(s),
           NEW front \in Seq(S), Len(front) = i - 1
    PROVE  LET t == front \o SubSeq(s, i + 1, Len(s)) IN
           /\ t \in Seq(S) /\ Len(t) = Len(s) - 1
           /\ \A k \in 1..(i - 1) : t[k] = front[k]
           /\ \A k \in i..(Len(s) - 1) : t[k] = s[k + 1]
<1> DEFINE back == SubSeq(s, i + 1, Len(s))
<1>1. Len(s) \in Nat /\ i \in Nat /\ i >= 1 /\ i <= Len(s)
  BY LenProperties
<1>2. \A k \in (i + 1)..Len(s) : s[k] \in S
  BY <1>1, ElementOfSeq
<1>3. /\ back \in Seq(S)
      /\ Len(back) = IF i + 1 <= Len(s) THEN Len(s) - (i + 1) + 1 ELSE 0
      /\ \A k \in 1..(Len(s) - (i + 1) + 1) : back[k] = s[(i + 1) + k - 1]
  <2>1. i + 1 \in Int /\ Len(s) \in Int
    BY <1>1
  <2> QED
    BY <1>2, <2>1, SubSeqProperties
<1> HIDE DEF back
<1>4. Len(back) = Len(s) - i
  <2>1. Len(back) = IF i + 1 <= Len(s) THEN Len(s) - (i + 1) + 1 ELSE 0
    BY <1>3
  <2> QED
    BY <1>1, <2>1
<1>5. /\ front \o back \in Seq(S) /\ Len(front \o back) = Len(front) + Len(back)
      /\ \A k \in 1..(Len(front) + Len(back)) :
           (front \o back)[k] = IF k <= Len(front) THEN front[k] ELSE back[k - Len(front)]
  BY <1>3, ConcatProperties
<1>6. Len(front \o back) = Len(s) - 1
  BY <1>1, <1>4, <1>5
<1>7. \A k \in 1..(i - 1) : (front \o back)[k] = front[k]
  BY <1>1, <1>4, <1>5
<1>8. ASSUME NEW k \in i..(Len(s) - 1) PROVE (front \o back)[k] = s[k + 1]
  <2>1. (front \o back)[k] = back[k - (i - 1)]
    BY <1>1, <1>4, <1>5
  <2>2. k - (i - 1) \in 1..(Len(s) - (i + 1) + 1) /\ (i + 1) + (k - (i - 1)) - 1 = k + 1
    BY <1>1
  <2> QED
    BY <1>3, <2>1, <2>2
<1> QED
  BY <1>5, <1>6, <1>7, <1>8 DEF back

\* A reload that fails is cut out.
LEMMA WithoutProperties ==
    ASSUME reloads \in Seq(Reload), NEW i \in 1..Len(reloads)
    PROVE  /\ Without(i) \in Seq(Reload) /\ Len(Without(i)) = Len(reloads) - 1
           /\ \A k \in 1..(i - 1) : Without(i)[k] = reloads[k]
           /\ \A k \in i..(Len(reloads) - 1) : Without(i)[k] = reloads[k + 1]
<1> DEFINE front == SubSeq(reloads, 1, i - 1)
<1>1. Len(reloads) \in Nat /\ i \in Nat /\ i >= 1 /\ i <= Len(reloads)
  BY LenProperties
<1>2. \A k \in 1..(i - 1) : reloads[k] \in Reload
  BY <1>1, ElementOfSeq
<1>3. /\ front \in Seq(Reload) /\ Len(front) = (IF 1 <= i - 1 THEN i - 1 - 1 + 1 ELSE 0)
      /\ \A k \in 1..(i - 1 - 1 + 1) : front[k] = reloads[1 + k - 1]
  <2>1. 1 \in Int /\ i - 1 \in Int
    BY <1>1
  <2> QED
    BY <1>2, <2>1, SubSeqProperties
<1>4. Len(front) = i - 1 /\ \A k \in 1..(i - 1) : front[k] = reloads[k]
  BY <1>1, <1>3
<1> HIDE DEF front
<1>5. LET t == front \o SubSeq(reloads, i + 1, Len(reloads)) IN
      /\ t \in Seq(Reload) /\ Len(t) = Len(reloads) - 1
      /\ \A k \in 1..(i - 1) : t[k] = front[k]
      /\ \A k \in i..(Len(reloads) - 1) : t[k] = reloads[k + 1]
  BY <1>3, <1>4, CutProperties
<1> QED
  BY <1>4, <1>5 DEF Without, front

\* A reload that is started goes last.
LEMMA StartedProperties ==
    ASSUME reloads \in Seq(Reload), NEW c \in Choice
    PROVE  /\ Started(c) \in Seq(Reload) /\ Len(Started(c)) = Len(reloads) + 1
           /\ \A k \in 1..Len(reloads) : Started(c)[k] = reloads[k]
           /\ Started(c)[Len(reloads) + 1] = [of |-> c, got |-> <<>>, late |-> FALSE]
<1>1. <<>> \in Got
  <2>1. <<>> \in [{} -> SUBSET AlarmRow]
    OBVIOUS
  <2> QED
    BY <2>1 DEF Got
<1>2. [of |-> c, got |-> <<>>, late |-> FALSE] \in Reload
  BY <1>1 DEF Reload
<1> QED
  BY <1>2, AppendProperties DEF Started

\* The reloads that are left when reload i is shown, those before it marked.
LEMMA Overtaken ==
    ASSUME NEW s \in Seq(Reload), NEW i \in 1..Len(s)
    PROVE  LET older == [k \in 1..i-1 |-> [s[k] EXCEPT !.late = TRUE]]
               t == older \o SubSeq(s, i + 1, Len(s)) IN
           /\ t \in Seq(Reload) /\ Len(t) = Len(s) - 1
           /\ \A k \in 1..(i - 1) : t[k].late
           /\ \A k \in i..(Len(s) - 1) : t[k] = s[k + 1]
<1> DEFINE marked(k) == [s[k] EXCEPT !.late = TRUE]
           older == [k \in 1..(i - 1) |-> marked(k)]
           t == older \o SubSeq(s, i + 1, Len(s))
<1>1. Len(s) \in Nat /\ i \in Nat /\ i >= 1 /\ i <= Len(s) /\ i - 1 \in Nat
  BY LenProperties
<1>2. ASSUME NEW k \in 1..(i - 1) PROVE marked(k) \in Reload /\ marked(k).late
  <2>1. k \in 1..Len(s)
    BY <1>1
  <2>2. s[k] \in Reload
    BY <2>1, ElementOfSeq
  <2> QED
    BY <2>2 DEF Reload
<1>3. older \in Seq(Reload) /\ Len(older) = i - 1 /\ \A k \in 1..(i - 1) : older[k].late
  <2> HIDE DEF marked
  <2> QED
    BY <1>1, <1>2
<1> HIDE DEF older
<1>4. /\ t \in Seq(Reload) /\ Len(t) = Len(s) - 1
      /\ \A k \in 1..(i - 1) : t[k] = older[k]
      /\ \A k \in i..(Len(s) - 1) : t[k] = s[k + 1]
  BY <1>3, CutProperties
<1> QED
  BY <1>3, <1>4 DEF older

----------------------------------------------------------------------------
(* Steps that start, answer or drop a reload                               *)

\* Nobody is signed in.
LEMMA InitInv == Init => Inv
<1> SUFFICES ASSUME Init PROVE Inv
  OBVIOUS
<1>1. /\ browser = SignedOut /\ alive = {} /\ issued = 0 /\ stray = {}
      /\ alarms = Alarms /\ page = Initially /\ reloads = <<>>
      /\ auto = TRUE /\ moves = 0 /\ blind = FALSE
  BY DEF Init, SessionInit
<1>2. SessionTypeOK /\ BrowserOK
  BY <1>1, BoundsAssumption DEF SessionTypeOK, BrowserOK, SignedOut, Token
<1>3. Initially \in PageState
  BY FirstChoiceTyped DEF Initially, PageState
<1>4. StateOK
  <2>1. alarms \in SUBSET AlarmRow /\ IsFiniteSet(alarms)
    BY <1>1, InputAssumption
  <2>2. <<>> \in Seq(Reload) /\ Len(<<>>) = 0 /\ 0 <= MaxReloads /\ 0 \in 0..MaxMoves
    BY BoundsAssumption
  <2> QED
    BY <1>1, <1>3, <2>1, <2>2 DEF StateOK
<1>5. LateFirst
  BY <1>1 DEF LateFirst
<1>6. NewestIsChosen
  BY <1>1 DEF NewestIsChosen, SignedOut
<1> QED
  BY <1>2, <1>4, <1>5, <1>6 DEF Inv

\* A reload of what is chosen has been started and is the newest.
LEMMA StartedInv ==
    ASSUME Inv, NEW c \in Choice, browser.user, page' \in PageState, page'.choice = c,
           Len(reloads) < MaxReloads, reloads' = Started(c),
           moves' \in 0..MaxMoves, blind' \in BOOLEAN,
           UNCHANGED <<browser, alive, issued, stray, alarms, auto>>
    PROVE  Inv'
<1>1. SessionTypeOK /\ BrowserOK /\ StateOK /\ LateFirst
  BY DEF Inv
<1>2. reloads \in Seq(Reload) /\ Len(reloads) \in Nat /\ Len(reloads) <= MaxReloads
  BY <1>1, LenProperties DEF StateOK
<1>3. /\ reloads' \in Seq(Reload) /\ Len(reloads') = Len(reloads) + 1
      /\ \A k \in 1..Len(reloads) : reloads'[k] = reloads[k]
      /\ reloads'[Len(reloads) + 1] = [of |-> c, got |-> <<>>, late |-> FALSE]
  BY <1>2, StartedProperties
<1>4. SessionTypeOK' /\ BrowserOK'
  BY <1>1 DEF SessionTypeOK, BrowserOK
<1>5. StateOK'
  <2>1. Len(reloads') <= MaxReloads
    BY <1>2, <1>3, BoundsAssumption
  <2> QED
    BY <1>1, <1>3, <2>1 DEF StateOK
<1>6. LateFirst'
  <2> SUFFICES ASSUME NEW i \in 1..Len(reloads'), NEW j \in 1..Len(reloads'), i < j,
                      reloads'[j].late
               PROVE  reloads'[i].late
    BY DEF LateFirst
  <2>1. j # Len(reloads) + 1
    BY <1>3
  <2>2. i \in 1..Len(reloads) /\ j \in 1..Len(reloads)
    BY <1>2, <1>3, <2>1
  <2> QED
    BY <1>1, <1>3, <2>2 DEF LateFirst
<1>7. NewestIsChosen'
  <2>1. reloads' # <<>> /\ Len(reloads') = Len(reloads) + 1
    BY <1>2, <1>3
  <2>2. ~reloads'[Len(reloads')].late /\ reloads'[Len(reloads')].of = c
    BY <1>3
  <2>3. SameRows(c, c)
    BY SameRowsIsKey
  <2> QED
    BY <2>1, <2>2, <2>3 DEF NewestIsChosen, SameRows
<1> QED
  BY <1>4, <1>5, <1>6, <1>7 DEF Inv

\* Only what the reloads do not depend on has been chosen.
LEMMA SameReloadsInv ==
    ASSUME Inv, page' \in PageState, SameRows(page.choice, page'.choice),
           page'.of = page.of, page'.late = page.late, page.error => page'.error,
           browser.user,
           moves' \in 0..MaxMoves, blind' \in BOOLEAN,
           auto' \in BOOLEAN, alarms' \in SUBSET AlarmRow, IsFiniteSet(alarms)',
           SessionTypeOK', BrowserOK', browser' = browser, reloads' = reloads
    PROVE  Inv'
<1>1. StateOK /\ LateFirst /\ NewestIsChosen
  BY DEF Inv
<1>2. StateOK' /\ LateFirst'
  BY <1>1 DEF StateOK, LateFirst
<1>3. ASSUME NEW c \in Choice, SameRows(c, page.choice)
      PROVE  SameRows(c, page'.choice)
  <2>1. page.choice \in Choice /\ page'.choice \in Choice
    BY <1>1 DEF StateOK, PageState
  <2> QED
    BY <1>3, <2>1, SameRowsIsKey
<1>4. page.of \in Choice
  BY <1>1 DEF StateOK, PageState
<1>5. reloads # <<>> => reloads[Len(reloads)].of \in Choice
  <2> SUFFICES ASSUME reloads # <<>> PROVE reloads[Len(reloads)].of \in Choice
    OBVIOUS
  <2>1. reloads \in Seq(Reload)
    BY <1>1 DEF StateOK
  <2>2. Len(reloads) \in 1..Len(reloads)
    BY <2>1, EmptySeq, LenProperties
  <2>3. reloads[Len(reloads)] \in Reload
    BY <2>1, <2>2, ElementOfSeq
  <2> QED
    BY <2>3 DEF Reload
<1>6. NewestIsChosen'
  <2> SUFFICES ASSUME ~page.error
               PROVE  IF reloads # <<>> /\ ~reloads[Len(reloads)].late
                      THEN SameRows(reloads[Len(reloads)].of, page'.choice)
                      ELSE page.late \/ SameRows(page.of, page'.choice)
    BY DEF NewestIsChosen, SameRows
  <2>1. IF reloads # <<>> /\ ~reloads[Len(reloads)].late
        THEN SameRows(reloads[Len(reloads)].of, page.choice)
        ELSE page.late \/ SameRows(page.of, page.choice)
    BY <1>1 DEF NewestIsChosen
  <2> QED
    BY <1>3, <1>4, <1>5, <2>1
<1> QED
  BY <1>2, <1>6 DEF Inv

\* A change of what reload depends on starts one, any other is of the tab.
LEMMA ChooseInv ==
    ASSUME Inv, NEW c \in Choice, Choose(c), moves' \in 0..MaxMoves, blind' \in BOOLEAN
    PROVE  Inv'
<1>1. /\ browser.user
      /\ page' = [page EXCEPT !.choice = c,
                    !.resetting = @ \/ (ScopeKey(c) # ScopeKey(page.choice) /\ c.page # 1),
                    !.error = @ /\ ReloadKey(c) = ReloadKey(page.choice)]
      /\ UNCHANGED <<browser, alive, issued, stray, alarms, auto>>
  BY DEF Choose
<1>2. page \in PageState /\ SessionTypeOK /\ BrowserOK /\ StateOK
  BY DEF Inv, StateOK
<1>3. /\ page' \in PageState /\ page'.choice = c /\ page'.of = page.of /\ page'.late = page.late
      /\ page.error /\ ReloadKey(c) = ReloadKey(page.choice) => page'.error
  BY <1>1, <1>2 DEF PageState
<1>4. CASE ReloadKey(c) = ReloadKey(page.choice) /\ UNCHANGED reloads
  <2>1. SameRows(page.choice, page'.choice)
    BY <1>2, <1>3, <1>4, SameRowsIsKey DEF PageState
  <2>2. SessionTypeOK' /\ BrowserOK'
    BY <1>1, <1>2 DEF SessionTypeOK, BrowserOK
  <2>3. auto' \in BOOLEAN /\ alarms' \in SUBSET AlarmRow /\ IsFiniteSet(alarms)'
    BY <1>1, <1>2 DEF StateOK
  <2> QED
    BY <1>1, <1>3, <1>4, <2>1, <2>2, <2>3, SameReloadsInv
<1>5. CASE Len(reloads) < MaxReloads /\ reloads' = Started(c)
  BY <1>1, <1>3, <1>5, StartedInv
<1> QED
  BY <1>4, <1>5 DEF Choose

\* setPage(1), with the reload it causes.
LEMMA ResetPageInv ==
    ASSUME Inv, ResetPage
    PROVE  Inv'
<1> DEFINE c == [page.choice EXCEPT !.page = 1]
<1>1. /\ page.resetting /\ blind' = FALSE
      /\ UNCHANGED <<browser, alive, issued, stray, alarms, auto, moves>>
      /\ \/ /\ page' = [page EXCEPT !.resetting = FALSE]
            /\ UNCHANGED reloads
         \/ /\ Len(reloads) < MaxReloads
            /\ page' = [page EXCEPT !.choice = c, !.resetting = FALSE, !.error = FALSE]
            /\ reloads' = Started(c)
  BY DEF ResetPage
<1>2. page \in PageState /\ SessionTypeOK /\ BrowserOK /\ StateOK
  BY DEF Inv, StateOK
<1>3. browser.user
  BY <1>1, <1>2 DEF StateOK, Initially
<1>4. c \in Choice
  BY <1>2 DEF PageState, Choice
<1>5. moves' \in 0..MaxMoves /\ blind' \in BOOLEAN
  BY <1>1, <1>2 DEF StateOK
<1>6. CASE page' = [page EXCEPT !.resetting = FALSE] /\ UNCHANGED reloads
  <2>1. /\ page' \in PageState /\ page'.choice = page.choice /\ page'.of = page.of
        /\ page'.late = page.late /\ page'.error = page.error /\ page.choice \in Choice
    BY <1>2, <1>6 DEF PageState
  <2>2. SameRows(page.choice, page'.choice)
    BY <2>1, SameRowsIsKey
  <2>3. SessionTypeOK' /\ BrowserOK'
    BY <1>1, <1>2 DEF SessionTypeOK, BrowserOK
  <2>4. auto' \in BOOLEAN /\ alarms' \in SUBSET AlarmRow /\ IsFiniteSet(alarms)'
    BY <1>1, <1>2 DEF StateOK
  <2> QED
    BY <1>1, <1>3, <1>5, <1>6, <2>1, <2>2, <2>3, <2>4, SameReloadsInv
<1>7. CASE /\ Len(reloads) < MaxReloads
           /\ page' = [page EXCEPT !.choice = c, !.resetting = FALSE, !.error = FALSE]
           /\ reloads' = Started(c)
  <2> HIDE DEF c
  <2>1. page' \in PageState /\ page'.choice = c
    BY <1>2, <1>4, <1>7 DEF PageState
  <2> QED
    BY <1>1, <1>3, <1>4, <1>5, <1>7, <2>1, StartedInv
<1> QED
  BY <1>1, <1>6, <1>7

\* A refresh starts a reload of what is chosen already.
LEMMA ReloadAgainInv ==
    ASSUME Inv, ReloadAgain
    PROVE  Inv'
<1>1. /\ browser.user /\ Len(reloads) < MaxReloads
      /\ page' = [page EXCEPT !.error = FALSE] /\ reloads' = Started(page.choice)
      /\ UNCHANGED <<browser, alive, issued, stray, alarms, auto, moves, blind>>
  BY DEF ReloadAgain
<1>2. page \in PageState /\ StateOK
  BY DEF Inv, StateOK
<1>3. page' \in PageState /\ page'.choice = page.choice /\ page.choice \in Choice
  BY <1>1, <1>2 DEF PageState
<1>4. moves' \in 0..MaxMoves /\ blind' \in BOOLEAN
  BY <1>1, <1>2 DEF StateOK
<1> QED
  BY <1>1, <1>3, <1>4, StartedInv

\* An answer changes neither what a reload is for nor the order.
LEMMA AnsweredInv ==
    ASSUME Inv, NEW i \in 1..Len(reloads), NEW request \in Apart, Answered(i, request)
    PROVE  Inv'
<1> DEFINE got == [r \in DOMAIN reloads[i].got \cup {request} |->
                     IF r = request THEN alarms ELSE reloads[i].got[r]]
           new == [reloads[i] EXCEPT !.got = got]
<1>1. /\ reloads' = [reloads EXCEPT ![i].got = got]
      /\ UNCHANGED <<browser, alive, issued, stray, alarms, page, auto, moves, blind>>
  BY DEF Answered
<1>2. SessionTypeOK /\ BrowserOK /\ StateOK /\ LateFirst /\ NewestIsChosen
  BY DEF Inv
<1>3. reloads \in Seq(Reload) /\ alarms \in SUBSET AlarmRow
  BY <1>2 DEF StateOK
<1>4. reloads[i] \in Reload
  BY <1>3, ElementOfSeq
<1>5. got \in Got
  <2>1. PICK D \in SUBSET Apart : reloads[i].got \in [D -> SUBSET AlarmRow]
    BY <1>4 DEF Reload, Got
  <2>2. got \in [D \cup {request} -> SUBSET AlarmRow]
    BY <1>3, <2>1
  <2>3. D \cup {request} \in SUBSET Apart
    OBVIOUS
  <2> HIDE DEF got
  <2> QED
    BY <2>2, <2>3 DEF Got
<1> HIDE DEF got
<1>6. new \in Reload /\ new.of = reloads[i].of /\ new.late = reloads[i].late
  BY <1>4, <1>5 DEF Reload
<1>7. reloads' = [reloads EXCEPT ![i] = new]
  BY <1>1
<1> HIDE DEF new
<1>8. /\ reloads' \in Seq(Reload) /\ Len(reloads') = Len(reloads)
      /\ \A k \in 1..Len(reloads) :
           reloads'[k].of = reloads[k].of /\ reloads'[k].late = reloads[k].late
  BY <1>3, <1>6, <1>7, ExceptSeq
<1>9. SessionTypeOK' /\ BrowserOK'
  BY <1>1, <1>2 DEF SessionTypeOK, BrowserOK
<1>10. StateOK'
  <2>1. reloads # <<>>
    BY <1>3, EmptySeq
  <2>2. browser.user
    BY <1>2, <2>1 DEF StateOK
  <2> QED
    BY <1>1, <1>2, <1>8, <2>2 DEF StateOK
<1>11. LateFirst'
  BY <1>2, <1>8 DEF LateFirst
<1>12. NewestIsChosen'
  <2>1. Len(reloads) \in 1..Len(reloads) /\ reloads # <<>> /\ reloads' # <<>>
    BY <1>3, <1>8, EmptySeq, LenProperties
  <2>2. /\ reloads'[Len(reloads')].of = reloads[Len(reloads)].of
        /\ reloads'[Len(reloads')].late = reloads[Len(reloads)].late
    BY <1>8, <2>1
  <2> QED
    BY <1>1, <1>2, <2>1, <2>2 DEF NewestIsChosen, SameRows
<1> QED
  BY <1>9, <1>10, <1>11, <1>12 DEF Inv

\* The reloads before the one that is shown are overtaken.
LEMMA CompleteInv ==
    ASSUME Inv, NEW i \in 1..Len(reloads), Complete(i)
    PROVE  Inv'
<1> DEFINE older == [k \in 1..i-1 |-> [reloads[k] EXCEPT !.late = TRUE]]
           back == SubSeq(reloads, i + 1, Len(reloads))
           shown == [r \in Request |-> IF r \in Apart THEN reloads[i].got[r] ELSE alarms]
           last == Len(reloads)
<1>1. /\ DOMAIN reloads[i].got = Apart
      /\ page' = [page EXCEPT !.shown = shown, !.of = reloads[i].of, !.late = reloads[i].late]
      /\ reloads' = older \o back
      /\ UNCHANGED <<browser, alive, issued, stray, alarms, auto, moves, blind>>
  BY DEF Complete
<1>2. SessionTypeOK /\ BrowserOK /\ StateOK /\ LateFirst /\ NewestIsChosen
  BY DEF Inv
<1>3. /\ reloads \in Seq(Reload) /\ alarms \in SUBSET AlarmRow /\ page \in PageState
      /\ last \in Nat /\ i \in Nat /\ i >= 1 /\ i <= last
  BY <1>2, LenProperties DEF StateOK
<1>4. \A k \in 1..last : reloads[k] \in Reload
  BY <1>3, ElementOfSeq
<1>6. shown \in [Request -> SUBSET AlarmRow]
  <2>1. PICK D \in SUBSET Apart : reloads[i].got \in [D -> SUBSET AlarmRow]
    BY <1>3, <1>4 DEF Reload, Got
  <2>2. D = Apart
    BY <1>1, <2>1
  <2> QED
    BY <1>3, <2>1, <2>2
<1> HIDE DEF shown
<1>7. /\ reloads' \in Seq(Reload) /\ Len(reloads') = last - 1
      /\ \A k \in 1..(i - 1) : reloads'[k].late
      /\ \A k \in i..(last - 1) : reloads'[k] = reloads[k + 1]
  BY <1>1, <1>3, Overtaken
<1> HIDE DEF older, back
<1>8. /\ page' \in PageState /\ page'.choice = page.choice /\ page'.error = page.error
      /\ page'.of = reloads[i].of /\ page'.late = reloads[i].late
  <2>1. reloads[i].of \in Choice /\ reloads[i].late \in BOOLEAN
    BY <1>4 DEF Reload
  <2> QED
    BY <1>1, <1>3, <1>6, <2>1 DEF PageState
<1>9. SessionTypeOK' /\ BrowserOK'
  BY <1>1, <1>2 DEF SessionTypeOK, BrowserOK
<1>10. StateOK'
  <2>1. reloads # <<>>
    BY <1>3, EmptySeq
  <2>2. browser.user
    BY <1>2, <2>1 DEF StateOK
  <2>3. Len(reloads') <= MaxReloads
    BY <1>2, <1>3, <1>7, BoundsAssumption DEF StateOK
  <2> QED
    BY <1>1, <1>2, <1>7, <1>8, <2>2, <2>3 DEF StateOK
<1>11. LateFirst'
  <2> SUFFICES ASSUME NEW j \in 1..Len(reloads'), NEW k \in 1..Len(reloads'), j < k,
                      reloads'[k].late
               PROVE  reloads'[j].late
    BY DEF LateFirst
  <2>1. CASE j \in 1..(i - 1)
    BY <1>7, <2>1
  <2>2. CASE j \notin 1..(i - 1)
    <3>1. j \in i..(last - 1) /\ k \in i..(last - 1)
      BY <1>3, <1>7, <2>2
    <3>2. reloads'[j] = reloads[j + 1] /\ reloads'[k] = reloads[k + 1]
      BY <1>7, <3>1
    <3>3. j + 1 \in 1..last /\ k + 1 \in 1..last /\ j + 1 < k + 1
      BY <1>3, <3>1
    <3> QED
      BY <1>2, <3>2, <3>3 DEF LateFirst
  <2> QED
    BY <2>1, <2>2
<1>12. NewestIsChosen'
  <2> SUFFICES ASSUME browser.user, ~page.error
               PROVE  IF reloads' # <<>> /\ ~reloads'[Len(reloads')].late
                      THEN SameRows(reloads'[Len(reloads')].of, page'.choice)
                      ELSE page'.late \/ SameRows(page'.of, page'.choice)
    BY <1>1, <1>8 DEF NewestIsChosen, SameRows
  <2>1. IF ~reloads[last].late THEN SameRows(reloads[last].of, page.choice)
        ELSE page.late \/ SameRows(page.of, page.choice)
    BY <1>2, <1>3, EmptySeq DEF NewestIsChosen
  <2>2. CASE i = last
    <3>1. page'.late \/ SameRows(page'.of, page'.choice)
      BY <1>8, <2>1, <2>2
    <3>2. reloads' # <<>> => reloads'[Len(reloads')].late
      <4> SUFFICES ASSUME reloads' # <<>> PROVE reloads'[Len(reloads')].late
        OBVIOUS
      <4>1. Len(reloads') # 0
        BY <1>7, EmptySeq
      <4>2. Len(reloads') \in 1..(i - 1)
        BY <1>3, <1>7, <2>2, <4>1
      <4> QED
        BY <1>7, <4>2
    <3> QED
      BY <3>1, <3>2
  <2>3. CASE i # last
    <3>1. last - 1 \in i..(last - 1) /\ last - 1 + 1 = last /\ i < last
      BY <1>3, <2>3
    <3>2. reloads'[Len(reloads')] = reloads[last]
      BY <1>7, <3>1
    <3>3. reloads' # <<>>
      BY <1>3, <1>7, <3>1, EmptySeq
    <3>4. reloads[last].late => page'.late
      BY <1>2, <1>3, <1>8, <3>1 DEF LateFirst
    <3> QED
      BY <1>8, <2>1, <3>2, <3>3, <3>4
  <2> QED
    BY <2>2, <2>3
<1> QED
  BY <1>9, <1>10, <1>11, <1>12 DEF Inv

\* After a failure the message stays until the next reload is started.
LEMMA FailInv ==
    ASSUME Inv, NEW i \in 1..Len(reloads), Fail(i)
    PROVE  Inv'
<1>1. /\ moves < MaxMoves /\ moves' = moves + 1
      /\ page' = [page EXCEPT !.error = TRUE] /\ reloads' = Without(i)
      /\ stray' = stray \cup {browser.token}
      /\ UNCHANGED <<browser, alive, issued, alarms, auto, blind>>
  BY DEF Fail, Move
<1>2. SessionTypeOK /\ BrowserOK /\ StateOK /\ LateFirst
  BY DEF Inv
<1>3. /\ reloads \in Seq(Reload) /\ page \in PageState
      /\ Len(reloads) \in Nat /\ i \in Nat /\ i >= 1 /\ i <= Len(reloads)
  BY <1>2, LenProperties DEF StateOK
<1>4. /\ reloads' \in Seq(Reload) /\ Len(reloads') = Len(reloads) - 1
      /\ \A k \in 1..(i - 1) : reloads'[k] = reloads[k]
      /\ \A k \in i..(Len(reloads) - 1) : reloads'[k] = reloads[k + 1]
  BY <1>1, <1>3, WithoutProperties
<1>5. browser.user
  <2>1. reloads # <<>>
    BY <1>3, EmptySeq
  <2> QED
    BY <1>2, <2>1 DEF StateOK
<1>6. SessionTypeOK' /\ BrowserOK'
  BY <1>1, <1>2, <1>5 DEF SessionTypeOK, BrowserOK
<1>7. page' \in PageState /\ page'.error
  BY <1>1, <1>3 DEF PageState
<1>8. StateOK'
  <2>1. Len(reloads') <= MaxReloads
    BY <1>2, <1>3, <1>4, BoundsAssumption DEF StateOK
  <2>2. moves' \in 0..MaxMoves
    BY <1>1, <1>2, BoundsAssumption DEF StateOK
  <2> QED
    BY <1>1, <1>2, <1>4, <1>5, <1>7, <2>1, <2>2 DEF StateOK
<1>9. LateFirst'
  <2> SUFFICES ASSUME NEW j \in 1..Len(reloads'), NEW k \in 1..Len(reloads'), j < k,
                      reloads'[k].late
               PROVE  reloads'[j].late
    BY DEF LateFirst
  <2> DEFINE at(x) == IF x < i THEN x ELSE x + 1
  <2>1. ASSUME NEW x \in 1..Len(reloads')
        PROVE  at(x) \in 1..Len(reloads) /\ reloads'[x] = reloads[at(x)]
    <3>1. CASE x < i
      BY <1>3, <1>4, <3>1
    <3>2. CASE ~(x < i)
      <4>1. x \in i..(Len(reloads) - 1)
        BY <1>3, <1>4, <3>2
      <4>2. reloads'[x] = reloads[x + 1] /\ x + 1 \in 1..Len(reloads)
        BY <1>3, <1>4, <4>1
      <4> QED
        BY <3>2, <4>2
    <3> QED
      BY <3>1, <3>2
  <2>2. at(j) < at(k)
    BY <1>3, <1>4
  <2> HIDE DEF at
  <2> QED
    BY <1>2, <2>1, <2>2 DEF LateFirst
<1>10. NewestIsChosen'
  BY <1>7 DEF NewestIsChosen
<1> QED
  BY <1>6, <1>8, <1>9, <1>10 DEF Inv

----------------------------------------------------------------------------
(* Steps of the session                                                    *)

\* The page goes with whoever was signed in.
LEMMA UnmountInv ==
    ASSUME Inv, SessionTypeOK', BrowserOK', ~browser'.user, Unmount, Outside,
           moves' \in 0..MaxMoves
    PROVE  Inv'
<1>1. /\ page' = Initially /\ reloads' = <<>> /\ blind' = FALSE
      /\ UNCHANGED <<alarms, auto>>
  BY DEF Unmount, Outside
<1>2. StateOK'
  <2>1. Initially \in PageState
    BY FirstChoiceTyped DEF Initially, PageState
  <2>2. <<>> \in Seq(Reload) /\ Len(<<>>) = 0 /\ 0 <= MaxReloads
    BY BoundsAssumption
  <2>3. Initially' = Initially
    BY DEF Initially, FirstChoice, AnyOnu
  <2> QED
    BY <1>1, <2>1, <2>2, <2>3 DEF Inv, StateOK
<1>3. LateFirst'
  BY <1>1 DEF LateFirst
<1>4. NewestIsChosen'
  BY DEF NewestIsChosen
<1> QED
  BY <1>2, <1>3, <1>4 DEF Inv

\* A new page asks for the first choice.
LEMMA MountInv ==
    ASSUME Inv, SessionTypeOK', BrowserOK', browser'.user, Mount, Outside,
           moves' \in 0..MaxMoves
    PROVE  Inv'
<1> DEFINE first == [of |-> FirstChoice, got |-> <<>>, late |-> FALSE]
<1>1. /\ page' = Initially /\ reloads' = <<first>> /\ blind' = FALSE
      /\ UNCHANGED <<alarms, auto>>
  BY DEF Mount, Outside
<1>2. Initially \in PageState /\ Initially.choice = FirstChoice
  BY FirstChoiceTyped DEF Initially, PageState
<1>3. first \in Reload /\ first.of = FirstChoice /\ first.late = FALSE
  <2>1. <<>> \in [{} -> SUBSET AlarmRow]
    OBVIOUS
  <2>2. <<>> \in Got
    BY <2>1 DEF Got
  <2> QED
    BY <2>2, FirstChoiceTyped DEF Reload
<1> HIDE DEF first
<1>4. /\ reloads' \in Seq(Reload) /\ Len(reloads') = 1 /\ reloads'[1] = first
      /\ reloads' # <<>>
  BY <1>1, <1>3
<1>5. StateOK'
  <2>1. 1 <= MaxReloads
    BY BoundsAssumption
  <2> QED
    BY <1>1, <1>2, <1>4, <2>1 DEF Inv, StateOK
<1>6. LateFirst'
  BY <1>4 DEF LateFirst
<1>7. NewestIsChosen'
  <2>1. SameRows(FirstChoice, FirstChoice)
    BY FirstChoiceTyped, SameRowsIsKey
  <2>2. ~reloads'[Len(reloads')].late /\ reloads'[Len(reloads')].of = page'.choice
        /\ page'.choice = FirstChoice
    BY <1>1, <1>2, <1>3, <1>4
  <2> QED
    BY <1>4, <2>1, <2>2 DEF NewestIsChosen, SameRows
<1> QED
  BY <1>5, <1>6, <1>7 DEF Inv

\* What a session is, spelt out.
LEMMA SessionState ==
    ASSUME Inv
    PROVE  /\ browser \in [stored : Token, token : Token, user : BOOLEAN, loading : BOOLEAN]
           /\ alive \in SUBSET (1..issued) /\ stray \in SUBSET (1..issued)
           /\ issued \in 0..MaxLogin /\ MaxLogin \in Nat
           /\ browser.user \/ browser.loading => browser.token \in 1..issued
           /\ browser.stored \in 0..issued /\ browser.stored = browser.token
           /\ ~(browser.user /\ browser.loading)
           /\ Left \subseteq 1..issued
           /\ moves \in 0..MaxMoves /\ MaxMoves \in Nat
<1>1. SessionTypeOK /\ BrowserOK /\ StateOK
  BY DEF Inv
<1>2. Left \subseteq 1..issued
  BY <1>1 DEF StateOK, BrowserOK, Left
<1> QED
  BY <1>1, <1>2, BoundsAssumption DEF SessionTypeOK, BrowserOK, StateOK, Token

\* A login, and a token accepted at a start, mount the page.
LEMMA EntersInv ==
    ASSUME Inv, LogIn \/ StartAccepted
    PROVE  Inv'
<1> DEFINE t == IF LogIn THEN issued' ELSE browser.token
<1>1. /\ browser' = SignedIn(t) /\ stray' = stray /\ Mount /\ Outside
      /\ \/ issued' = issued + 1 /\ issued < MaxLogin /\ alive' = alive \cup {issued'}
            /\ t = issued' /\ moves < MaxMoves /\ moves' = moves + 1
         \/ UNCHANGED <<issued, alive, moves>> /\ t \in alive
  BY DEF LogIn, StartAccepted, Login, MeAccepted, Move
<1> HIDE DEF t
<1>2. /\ issued' \in 0..MaxLogin /\ issued <= issued' /\ t \in 1..issued'
      /\ alive' \in SUBSET (1..issued') /\ moves' \in 0..MaxMoves
  BY <1>1, SessionState
<1>3. browser' = [stored |-> t, token |-> t, user |-> TRUE, loading |-> FALSE]
  BY <1>1 DEF SignedIn
<1>4. SessionTypeOK'
  <2>1. stray' \in SUBSET (1..issued')
    BY <1>1, <1>2, SessionState
  <2>2. t \in Token
    BY <1>2, SessionState DEF Token
  <2> QED
    BY <1>2, <1>3, <2>1, <2>2 DEF SessionTypeOK, Token
<1>5. BrowserOK' /\ browser'.user
  BY <1>2, <1>3, SessionState DEF BrowserOK
<1> QED
  BY <1>1, <1>2, <1>4, <1>5, MountInv

\* A logout and a refusal take the page away.
LEMMA LeavesInv ==
    ASSUME Inv, LogOut \/ StartFails \/ (\E i \in 1..Len(reloads) : Refused(i))
    PROVE  Inv'
<1>1. /\ browser' = SignedOut /\ UNCHANGED <<alive, issued>> /\ Unmount /\ Outside
      /\ moves' = moves \/ (moves < MaxMoves /\ moves' = moves + 1)
  BY DEF LogOut, StartFails, Refused, Logout, MeFails, Move
<1>2. stray' \in SUBSET (1..issued)
  <2>1. CASE LogOut
    BY <2>1, SessionState DEF LogOut
  <2>2. CASE StartFails
    BY <2>2, SessionState DEF StartFails, MeFails
  <2>3. ASSUME NEW i \in 1..Len(reloads), Refused(i) PROVE stray' \in SUBSET (1..issued)
    <3>1. reloads # <<>>
      BY <2>3
    <3>2. browser.token \in 1..issued
      BY <3>1, SessionState DEF Left
    <3> QED
      BY <2>3, <3>2, SessionState DEF Refused
  <2> QED
    BY <2>1, <2>2, <2>3
<1>3. moves' \in 0..MaxMoves
  BY <1>1, SessionState
<1>4. browser' = [stored |-> 0, token |-> 0, user |-> FALSE, loading |-> FALSE]
  BY <1>1 DEF SignedOut
<1>5. SessionTypeOK' /\ BrowserOK' /\ ~browser'.user
  BY <1>1, <1>2, <1>4, SessionState DEF SessionTypeOK, BrowserOK, Token
<1> QED
  BY <1>1, <1>3, <1>5, UnmountInv

\* A restart keeps the token stored, and nothing else.
LEMMA RestartBrowserInv ==
    ASSUME Inv, RestartBrowser
    PROVE  Inv'
<1>1. /\ browser' = [stored |-> browser.stored, token |-> browser.stored, user |-> FALSE,
                     loading |-> browser.stored # 0]
      /\ stray' = {} /\ UNCHANGED <<alive, issued>>
      /\ Unmount /\ Outside /\ moves < MaxMoves /\ moves' = moves + 1
  BY DEF RestartBrowser, Restart, Move
<1>2. moves' \in 0..MaxMoves
  BY <1>1, SessionState
<1>3. SessionTypeOK'
  <2>1. browser.stored \in Token /\ (browser.stored # 0) \in BOOLEAN
    BY SessionState
  <2>2. browser' \in [stored : Token, token : Token, user : BOOLEAN, loading : BOOLEAN]
    BY <1>1, <2>1
  <2> QED
    BY <1>1, <2>2, SessionState DEF SessionTypeOK, Token
<1>4. BrowserOK' /\ ~browser'.user
  <2>1. /\ browser'.stored = browser.stored /\ browser'.token = browser.stored
        /\ ~browser'.user /\ (browser'.loading <=> browser.stored # 0) /\ issued' = issued
    BY <1>1
  <2> QED
    BY <2>1, SessionState DEF BrowserOK
<1> QED
  BY <1>1, <1>2, <1>3, <1>4, UnmountInv

\* Nothing but the page, its reloads and what they depend on stays.
LEMMA PageStaysInv ==
    ASSUME Inv, SessionTypeOK', UNCHANGED <<browser, issued, page, reloads>>,
           alarms' \in SUBSET AlarmRow, IsFiniteSet(alarms)',
           moves' \in 0..MaxMoves, auto' \in BOOLEAN, blind' \in BOOLEAN
    PROVE  Inv'
<1>1. BrowserOK' /\ LateFirst' /\ NewestIsChosen'
  BY DEF Inv, BrowserOK, LateFirst, NewestIsChosen, SameRows
<1>2. StateOK'
  BY DEF Inv, StateOK
<1> QED
  BY <1>1, <1>2 DEF Inv

\* A token that dies changes nothing in the browser.
LEMMA RevokeInv ==
    ASSUME Inv, NEW t \in 1..issued, Revoke(t)
    PROVE  Inv'
<1>1. /\ alive' = alive \ {t} /\ moves < MaxMoves /\ moves' = moves + 1
      /\ UNCHANGED <<browser, issued, stray, alarms, page, reloads, auto, blind>>
  BY DEF Revoke, TokenDies, Move
<1>2. SessionTypeOK'
  BY <1>1 DEF Inv, SessionTypeOK
<1>3. moves' \in 0..MaxMoves
  BY <1>1, SessionState
<1>4. /\ alarms' \in SUBSET AlarmRow /\ IsFiniteSet(alarms)'
      /\ auto' \in BOOLEAN /\ blind' \in BOOLEAN
  BY <1>1 DEF Inv, StateOK
<1> QED
  BY <1>1, <1>2, <1>3, <1>4, PageStaysInv

\* A late 401 signs out whoever is signed in.
LEMMA LateAnswerInv ==
    ASSUME Inv, NEW t \in 1..issued, LateAnswer(t)
    PROVE  Inv'
<1>1. /\ t \in stray /\ UNCHANGED <<alive, issued>>
      /\ browser' = SignedOut \/ browser' = browser
  BY DEF LateAnswer, StrayAnswered
<1>2. CASE /\ browser' = browser
           /\ stray' \in {stray, stray \ {t}}
           /\ UNCHANGED <<alarms, page, reloads, auto, moves, blind>>
  <2>1. SessionTypeOK'
    BY <1>1, <1>2 DEF Inv, SessionTypeOK
  <2>2. /\ alarms' \in SUBSET AlarmRow /\ IsFiniteSet(alarms)'
        /\ moves' \in 0..MaxMoves /\ auto' \in BOOLEAN /\ blind' \in BOOLEAN
    BY <1>2 DEF Inv, StateOK
  <2> QED
    BY <1>1, <1>2, <2>1, <2>2, PageStaysInv
<1>3. CASE /\ browser' # browser
           /\ \E rest \in {stray, stray \ {t}} : stray' = rest \cup Left
           /\ Unmount /\ Outside
           /\ UNCHANGED moves
  <2>1. browser' = [stored |-> 0, token |-> 0, user |-> FALSE, loading |-> FALSE]
    BY <1>1, <1>3 DEF SignedOut
  <2>2. stray' \in SUBSET (1..issued)
    BY <1>3, SessionState
  <2>3. SessionTypeOK' /\ BrowserOK' /\ ~browser'.user
    BY <1>1, <2>1, <2>2, SessionState DEF SessionTypeOK, BrowserOK, Token
  <2>4. moves' \in 0..MaxMoves
    BY <1>3, SessionState
  <2> QED
    BY <1>3, <2>3, <2>4, UnmountInv
<1> QED
  BY <1>2, <1>3 DEF LateAnswer

----------------------------------------------------------------------------
(* Steps of the operator, and of the alarms                                *)

\* Rows that are raised or closed are rows.
LEMMA AlarmsChangeInv ==
    ASSUME Inv, AlarmsChange
    PROVE  Inv'
<1>1. /\ moves < MaxMoves /\ moves' = moves + 1 /\ blind' = (page.choice.page > 1)
      /\ UNCHANGED <<browser, alive, issued, stray, page, reloads, auto>>
  BY DEF AlarmsChange, Move
<1>2. alarms \in SUBSET AlarmRow /\ IsFiniteSet(alarms) /\ auto \in BOOLEAN
  BY ONLY Inv DEF Inv, StateOK
<1> DEFINE at == 1 + Cardinality(alarms)
           closed(row) == [row EXCEPT !.condition = "CLEARED", !.clearedAt = at]
           raised(row) == [row EXCEPT !.id = at, !.condition = "ACTIVE", !.raisedAt = at]
<1>3. PICK row \in alarms : \/ alarms' = (alarms \ {row}) \cup {closed(row)}
                            \/ alarms' = alarms \cup {raised(row)}
  BY DEF AlarmsChange
<1>4. at \in Nat
  BY <1>2, FS_CardinalityType
<1> HIDE DEF at
<1>5. closed(row) \in AlarmRow /\ raised(row) \in AlarmRow
  BY <1>2, <1>4 DEF AlarmRow
<1> HIDE DEF closed, raised
<1>6. alarms' \in SUBSET AlarmRow
  BY <1>2, <1>3, <1>5
<1>7. IsFiniteSet(alarms)'
  <2>1. IsFiniteSet(alarms \ {row})
    BY <1>2, FS_RemoveElement
  <2>2. IsFiniteSet((alarms \ {row}) \cup {closed(row)}) /\ IsFiniteSet(alarms \cup {raised(row)})
    BY <1>2, <2>1, FS_AddElement
  <2> QED
    BY <1>3, <2>2
<1>8. SessionTypeOK'
  BY <1>1 DEF Inv, SessionTypeOK
<1>9. moves' \in 0..MaxMoves
  BY <1>1, SessionState
<1>10. blind' \in BOOLEAN /\ auto' \in BOOLEAN
  BY <1>1, <1>2
<1> QED
  BY <1>1, <1>6, <1>7, <1>8, <1>9, <1>10, PageStaysInv

\* The automatic refresh goes on or off.
LEMMA SetAutoRefreshInv ==
    ASSUME Inv, SetAutoRefresh
    PROVE  Inv'
<1>1. /\ moves < MaxMoves /\ moves' = moves + 1 /\ auto' = ~auto
      /\ UNCHANGED <<browser, alive, issued, stray, alarms, page, reloads, blind>>
  BY DEF SetAutoRefresh, Move
<1>2. SessionTypeOK'
  BY <1>1 DEF Inv, SessionTypeOK
<1>3. moves' \in 0..MaxMoves
  BY <1>1, SessionState
<1>4. /\ alarms' \in SUBSET AlarmRow /\ IsFiniteSet(alarms)'
      /\ auto' \in BOOLEAN /\ blind' \in BOOLEAN
  BY <1>1 DEF Inv, StateOK
<1> QED
  BY <1>1, <1>2, <1>3, <1>4, PageStaysInv

\* A click chooses.
LEMMA ClickInv ==
    ASSUME Inv, NEW c \in Choice, Click(c), blind' \in BOOLEAN
    PROVE  Inv'
<1>1. moves' \in 0..MaxMoves
  BY SessionState DEF Click, Move
<1> QED
  BY <1>1, ChooseInv DEF Click

\* So does one that leaves the history alone.
LEMMA WithInv ==
    ASSUME Inv, NEW c \in Choice, With(c)
    PROVE  Inv'
<1>1. blind' \in BOOLEAN /\ Click(c)
  BY DEF With, Inv, StateOK
<1> QED
  BY <1>1, ClickInv

\* Whatever the operator can click leads to a choice.
LEMMA OperatorInv ==
    ASSUME Inv,
           \/ \E o \in Olt : toggleOltSelection(o)
           \/ SelectAllOlts
           \/ toggleCitySelection(Olt)
           \/ \E g \in Olt \X Port : toggleGponSelection(g)
           \/ \E s \in StatusFilter : SetStatusFilter(s)
           \/ \E v \in View : SetView(v)
           \/ \E f \in Filters : SetFilters(f)
           \/ \E found \in Search : SearchOnus(found)
           \/ \E size \in Range(PageSize) : handlePageSizeChange(size)
           \/ NextPage
           \/ PreviousPage
    PROVE  Inv'
<1> DEFINE now == page.choice
<1>1. now \in Choice
  BY DEF Inv, StateOK, PageState
<1>2. now.page \in Nat \ {0} /\ now.olts \in SUBSET Olt /\ now.ports \in SUBSET (Olt \X Port)
  BY <1>1 DEF Choice
<1>3. CASE \E o \in Olt : toggleOltSelection(o)
  <2>1. PICK o \in Olt : With([now EXCEPT !.olts = Toggle(@, o)])
    BY <1>3 DEF toggleOltSelection
  <2>2. Toggle(now.olts, o) \in SUBSET Olt
    BY <1>2 DEF Toggle
  <2>3. [now EXCEPT !.olts = Toggle(@, o)] \in Choice
    BY <1>1, <2>2 DEF Choice
  <2> QED
    BY <2>1, <2>3, WithInv
<1>4. CASE SelectAllOlts
  <2>1. [now EXCEPT !.olts = {}] \in Choice
    BY <1>1 DEF Choice
  <2> QED
    BY <1>4, <2>1, WithInv DEF SelectAllOlts
<1>5. CASE toggleCitySelection(Olt)
  <2>1. [now EXCEPT !.olts = IF Olt \subseteq @ THEN @ \ Olt ELSE @ \cup Olt] \in Choice
    BY <1>1, <1>2 DEF Choice
  <2> QED
    BY <1>5, <2>1, WithInv DEF toggleCitySelection
<1>6. CASE \E g \in Olt \X Port : toggleGponSelection(g)
  <2>1. PICK g \in Olt \X Port : With([now EXCEPT !.ports = Toggle(@, g)])
    BY <1>6 DEF toggleGponSelection
  <2>2. Toggle(now.ports, g) \in SUBSET (Olt \X Port)
    BY <1>2 DEF Toggle
  <2>3. [now EXCEPT !.ports = Toggle(@, g)] \in Choice
    BY <1>1, <2>2 DEF Choice
  <2> QED
    BY <2>1, <2>3, WithInv
<1>7. CASE \E s \in StatusFilter : SetStatusFilter(s)
  <2>1. PICK s \in StatusFilter : With([now EXCEPT !.status = s])
    BY <1>7 DEF SetStatusFilter
  <2>2. [now EXCEPT !.status = s] \in Choice
    BY <1>1 DEF Choice
  <2> QED
    BY <2>1, <2>2, WithInv
<1>8. CASE \E v \in View : SetView(v)
  <2>1. PICK v \in View : With([now EXCEPT !.view = v])
    BY <1>8 DEF SetView
  <2>2. [now EXCEPT !.view = v] \in Choice
    BY <1>1 DEF Choice
  <2> QED
    BY <2>1, <2>2, WithInv
<1>9. CASE \E f \in Filters : SetFilters(f)
  <2>1. PICK f \in Filters : With([now EXCEPT !.filters = f])
    BY <1>9 DEF SetFilters
  <2>2. [now EXCEPT !.filters = f] \in Choice
    BY <1>1 DEF Choice
  <2> QED
    BY <2>1, <2>2, WithInv
<1>10. CASE \E found \in Search : SearchOnus(found)
  <2>1. PICK found \in Search : With([now EXCEPT !.search = found])
    BY <1>10 DEF SearchOnus
  <2>2. [now EXCEPT !.search = found] \in Choice
    BY <1>1 DEF Choice
  <2> QED
    BY <2>1, <2>2, WithInv
<1>11. CASE \E size \in Range(PageSize) : handlePageSizeChange(size)
  <2>1. PICK size \in Range(PageSize) :
          Click([now EXCEPT !.pageSize = size, !.page = 1]) /\ blind' = FALSE
    BY <1>11 DEF handlePageSizeChange
  <2>2. [now EXCEPT !.pageSize = size, !.page = 1] \in Choice
    <3>1. size \in Range(PageSize) /\ 1 \in Nat \ {0}
      OBVIOUS
    <3> HIDE DEF now
    <3> QED
      BY ONLY <1>1, <3>1 DEF Choice
  <2> QED
    BY <2>1, <2>2, ClickInv
<1>12. CASE NextPage
  <2>1. [now EXCEPT !.page = @ + 1] \in Choice
    BY <1>1, <1>2 DEF Choice
  <2>2. blind' \in BOOLEAN
    BY <1>12 DEF NextPage
  <2> QED
    BY <1>12, <2>1, <2>2, ClickInv DEF NextPage
<1>13. CASE PreviousPage
  <2>1. now.page > 1
    BY <1>13 DEF PreviousPage
  <2>2. now.page - 1 \in Nat \ {0}
    BY <1>2, <2>1
  <2>3. [now EXCEPT !.page = @ - 1] \in Choice
    BY <1>1, <2>2 DEF Choice
  <2>4. blind' \in BOOLEAN
    BY <1>13 DEF PreviousPage, Inv, StateOK
  <2> QED
    BY <1>13, <2>3, <2>4, ClickInv DEF PreviousPage
<1> QED
  BY <1>3, <1>4, <1>5, <1>6, <1>7, <1>8, <1>9, <1>10, <1>11, <1>12, <1>13

\* Every step keeps the invariant.
LEMMA NextInv == Inv /\ [Next]_vars => Inv'
<1> SUFFICES ASSUME Inv, [Next]_vars PROVE Inv'
  OBVIOUS
<1>1. CASE LogIn \/ StartAccepted
  BY <1>1, EntersInv
<1>2. CASE LogOut \/ StartFails \/ (\E i \in 1..Len(reloads) : Refused(i))
  BY <1>2, LeavesInv
<1>3. CASE RestartBrowser
  BY <1>3, RestartBrowserInv
<1>4. ASSUME NEW t \in 1..issued, Revoke(t) \/ LateAnswer(t) PROVE Inv'
  BY <1>4, RevokeInv, LateAnswerInv
<1>5. ASSUME NEW i \in 1..Len(reloads), (\E r \in Apart : Answered(i, r)) \/ Complete(i) \/ Fail(i)
      PROVE  Inv'
  BY <1>5, AnsweredInv, CompleteInv, FailInv
<1>6. CASE ResetPage
  BY <1>6, ResetPageInv
<1>7. CASE Refresh \/ Tick
  BY <1>7, ReloadAgainInv DEF Refresh, Tick
<1>8. CASE \/ \E o \in Olt : toggleOltSelection(o)
           \/ SelectAllOlts
           \/ toggleCitySelection(Olt)
           \/ \E g \in Olt \X Port : toggleGponSelection(g)
           \/ \E s \in StatusFilter : SetStatusFilter(s)
           \/ \E v \in View : SetView(v)
           \/ \E f \in Filters : SetFilters(f)
           \/ \E found \in Search : SearchOnus(found)
           \/ \E size \in Range(PageSize) : handlePageSizeChange(size)
           \/ NextPage
           \/ PreviousPage
  BY <1>8, OperatorInv
<1>9. CASE SetAutoRefresh
  BY <1>9, SetAutoRefreshInv
<1>10. CASE AlarmsChange
  BY <1>10, AlarmsChangeInv
<1>11. CASE UNCHANGED vars
  <2>1. /\ UNCHANGED <<browser, alive, issued, stray, alarms, page, reloads, auto, moves, blind>>
    BY <1>11 DEF vars
  <2>2. SessionTypeOK'
    BY <2>1 DEF Inv, SessionTypeOK
  <2>3. /\ alarms' \in SUBSET AlarmRow /\ IsFiniteSet(alarms)'
        /\ moves' \in 0..MaxMoves /\ auto' \in BOOLEAN /\ blind' \in BOOLEAN
    BY <2>1 DEF Inv, StateOK
  <2> QED
    BY <2>1, <2>2, <2>3, PageStaysInv
<1> QED
  BY <1>1, <1>2, <1>3, <1>4, <1>5, <1>6, <1>7, <1>8, <1>9, <1>10, <1>11 DEF Next

----------------------------------------------------------------------------
(* The page that is asked for exists                                       *)

\* The operator is past page 1 of rows that have not changed since.
Guarded == browser.user /\ page.choice.page > 1 /\ ~page.resetting /\ ~blind

\* The rows of the list behind a choice.
Rows(rows, c) ==
    CASE c.view = "alarms" -> FilteredAlarms(rows, AlarmQuery(c))
      [] c.view = "events" -> {row \in Events : InScope(row, Scope(c))}
      [] c.view = "onus" -> {row \in Onus : InScope(row, OnuQuery(c)) /\ row.onu \in OnuQuery(c).search}

HasPage(rows, c) == (c.page - 1) * c.pageSize < Cardinality(Rows(rows, c))

\* What RowsFresh says of a reload under way, and of what is shown.
GotFresh == \A r \in DOMAIN reloads[Len(reloads)].got : reloads[Len(reloads)].got[r] = alarms
ShownFresh == page.shown # <<>> /\ \A r \in Request : page.shown[r] = alarms

\* The newest reload has read the rows as they are, and shows them when it is
\* answered.
RowsFresh ==
    Guarded /\ ~page.error =>
      IF reloads # <<>> /\ ~reloads[Len(reloads)].late THEN GotFresh ELSE page.late \/ ShownFresh

PageInv ==
    /\ Inv
    /\ Guarded => HasPage(alarms, page.choice)
    /\ RowsFresh

\* The end of page k + 1.
LEMMA Product ==
    ASSUME NEW k \in Nat, NEW size \in Nat
    PROVE  k * size \in Nat /\ (k + 1) * size = k * size + size
<1>1. k * size \in Nat
  OBVIOUS
<1>2. (k + 1) * size = k * size + size
  OBVIOUS
<1> QED
  BY <1>1, <1>2

\* A list of n rows has something on a page that starts before its end, and
\* nothing on one that starts after it.
LEMMA PageLength ==
    ASSUME NEW seq, NEW n \in Nat, DOMAIN seq = 1..n, seq = [i \in 1..n |-> seq[i]],
           NEW q, q.page \in Nat \ {0}, q.pageSize \in Nat \ {0}
    PROVE  /\ Len(seq) = n
           /\ Len(PageOf(seq, q)) > 0 <=> (q.page - 1) * q.pageSize < n
<1> DEFINE first == (q.page - 1) * q.pageSize
           end == q.page * q.pageSize
           last == Min({n, end})
           S == {seq[i] : i \in 1..n}
<1>1. first \in Nat /\ end \in Nat /\ end = first + q.pageSize
  <2>1. q.page - 1 \in Nat /\ q.pageSize \in Nat /\ q.page = (q.page - 1) + 1
    OBVIOUS
  <2>2. first \in Nat
    BY <2>1, Product
  <2>3. end = first + q.pageSize
    BY <2>1, Product
  <2> HIDE DEF first, end
  <2> QED
    BY <2>1, <2>2, <2>3
<1>2. seq \in Seq(S) /\ Len(seq) = n
  <2>1. seq \in [1..n -> S]
    OBVIOUS
  <2>2. seq \in Seq(S)
    BY <2>1, SeqDef
  <2>3. Len(seq) \in Nat /\ DOMAIN seq = 1..Len(seq)
    BY <2>2, LenProperties
  <2>4. 1..n = 1..Len(seq)
    BY <2>3
  <2> QED
    BY <2>2, <2>3, <2>4
<1> HIDE DEF first, end
<1>3. last \in Nat /\ last <= n /\ last <= end /\ last \in {n, end}
  <2>1. \E x \in {n, end} : \A y \in {n, end} : x =< y
    BY <1>1
  <2>2. last \in {n, end} /\ \A y \in {n, end} : last =< y
    BY <2>1 DEF Min
  <2> HIDE DEF last
  <2> QED
    BY <1>1, <2>2
<1> HIDE DEF last
<1>4. PageOf(seq, q) = SubSeq(seq, first + 1, last)
  BY <1>2 DEF PageOf, first, end, last
<1>5. \A k \in (first + 1)..last : seq[k] \in S
  BY <1>1, <1>3
<1> HIDE DEF S
<1>6. Len(SubSeq(seq, first + 1, last)) = IF first + 1 <= last THEN last - (first + 1) + 1 ELSE 0
  <2>1. first + 1 \in Int /\ last \in Int
    BY <1>1, <1>3
  <2> QED
    BY <1>5, <2>1, SubSeqProperties
<1>7. first + 1 <= last <=> first < n
  BY <1>1, <1>3
<1>8. Len(PageOf(seq, q)) > 0 <=> first + 1 <= last
  BY <1>1, <1>3, <1>4, <1>6
<1> QED
  BY <1>2, <1>7, <1>8 DEF first

\* The rows of a list are finitely many.
LEMMA RowsFinite ==
    ASSUME NEW c \in Choice, NEW rows, IsFiniteSet(rows)
    PROVE  Cardinality(Rows(rows, c)) \in Nat
<1>1. IsFiniteSet(FilteredAlarms(rows, AlarmQuery(c)))
  BY FS_Subset DEF FilteredAlarms
<1>2. IsFiniteSet({row \in Events : InScope(row, Scope(c))})
  BY InputAssumption, FS_Subset
<1>3. IsFiniteSet({row \in Onus : InScope(row, OnuQuery(c)) /\ row.onu \in OnuQuery(c).search})
  BY InputAssumption, FS_Subset
<1>4. c.view \in {"alarms", "events", "onus"}
  BY DEF Choice, View
<1> HIDE DEF Choice
<1>5. IsFiniteSet(Rows(rows, c))
  BY <1>1, <1>2, <1>3, <1>4 DEF Rows
<1> QED
  BY <1>5, FS_CardinalityType

\* A list of rows in any order is a sequence as long as they are many.
LEMMA OrderIsSequence ==
    ASSUME NEW rows, NEW before
    PROVE  LET n == Cardinality(rows)  seq == InOrder(rows, before) IN
           DOMAIN seq = 1..n /\ seq = [i \in 1..n |-> seq[i]]
<1> DEFINE e(i) == CHOOSE row \in rows : Cardinality({r \in rows : <<r, row>> \in before}) = i - 1
<1>1. InOrder(rows, before) = [i \in 1..Cardinality(rows) |-> e(i)]
  BY DEF InOrder
<1> HIDE DEF e
<1> QED
  BY <1>1

\* The answer of a list counts its rows, and is empty on a page it does not have.
LEMMA ListOf ==
    ASSUME NEW c \in Choice, NEW rows, IsFiniteSet(rows)
    PROVE  /\ Answer(c.view, rows, c).total = Cardinality(Rows(rows, c))
           /\ Len(Answer(c.view, rows, c).data) > 0 <=> HasPage(rows, c)
<1> DEFINE n == Cardinality(Rows(rows, c))
           Right(answer) == answer.total = n /\ (Len(answer.data) > 0 <=> HasPage(rows, c))
<1> SUFFICES Right(Answer(c.view, rows, c))
  OBVIOUS
<1>1. n \in Nat
  BY RowsFinite
<1>2. c.page \in Nat \ {0} /\ c.pageSize \in 1..500 /\ c.view \in View
  BY SizesAllowed DEF Choice
<1> HIDE DEF n
<1>3. ASSUME NEW seq, DOMAIN seq = 1..n, seq = [i \in 1..n |-> seq[i]],
             NEW q, q.page = c.page, q.pageSize = c.pageSize
      PROVE  Right(Ids(Listed(seq, q)))
  <2> DEFINE data == PageOf(seq, q)
  <2>0. q.page \in Nat \ {0} /\ q.pageSize \in Nat \ {0}
    BY ONLY <1>2, q.page = c.page, q.pageSize = c.pageSize
  <2>1. Len(seq) = n /\ (Len(data) > 0 <=> (c.page - 1) * c.pageSize < n)
    BY <1>1, <1>3, <2>0, PageLength
  <2>2. DOMAIN data = 1..Len(data) /\ Len(data) \in Nat
    BY <1>1, <1>2, <1>3
  <2>3. Len([i \in DOMAIN data |-> data[i].id]) = Len(data)
    BY <2>2
  <2>4. Ids(Listed(seq, q)) = [data |-> [i \in DOMAIN data |-> data[i].id], total |-> Len(seq)]
    BY DEF Ids, Listed
  <2> HIDE DEF data
  <2> QED
    BY <2>1, <2>3, <2>4 DEF HasPage, n
<1> HIDE DEF Right
<1>4. CASE c.view = "alarms"
  <2> DEFINE q == AlarmQuery(c)
             listed == FilteredAlarms(rows, q)
             at == [row \in listed |-> IF q.condition = "CLEARED" THEN row.clearedAt ELSE row.raisedAt]
             seq == NewestFirst(listed, at)
  <2>1. n = Cardinality(listed)
    BY <1>4 DEF Rows, n
  <2>2. DOMAIN seq = 1..n /\ seq = [i \in 1..n |-> seq[i]]
    BY <2>1, OrderIsSequence DEF NewestFirst
  <2>3. q.page = c.page /\ q.pageSize = c.pageSize
    BY DEF AlarmQuery
  <2>4. Answer(c.view, rows, c) = Ids(Listed(seq, q))
    BY <1>4 DEF Answer, findAlarms
  <2> HIDE DEF q, seq
  <2> QED
    BY <1>3, <2>2, <2>3, <2>4
<1>5. CASE c.view = "events"
  <2> DEFINE q == Scope(c)
             listed == {row \in Events : InScope(row, q)}
             seq == NewestFirst(listed, [row \in listed |-> row.occurredAt])
  <2>1. n = Cardinality(listed)
    BY <1>5 DEF Rows, n
  <2>2. DOMAIN seq = 1..n /\ seq = [i \in 1..n |-> seq[i]]
    BY <2>1, OrderIsSequence DEF NewestFirst
  <2>3. q.page = c.page /\ q.pageSize = c.pageSize
    BY DEF Scope
  <2>4. Answer(c.view, rows, c) = Ids(Listed(seq, q))
    BY <1>5 DEF Answer, findEvents
  <2> HIDE DEF q, seq
  <2> QED
    BY <1>3, <2>2, <2>3, <2>4
<1>6. CASE c.view = "onus"
  <2> DEFINE q == OnuQuery(c)
             listed == {row \in Onus : InScope(row, q) /\ row.onu \in q.search}
             seq == InOrder(listed, {pair \in listed \X listed : pair[1].id < pair[2].id})
  <2>1. n = Cardinality(listed)
    BY <1>6 DEF Rows, n
  <2>2. DOMAIN seq = 1..n /\ seq = [i \in 1..n |-> seq[i]]
    BY <2>1, OrderIsSequence
  <2>3. q.page = c.page /\ q.pageSize = c.pageSize
    BY DEF OnuQuery
  <2>4. Answer(c.view, rows, c) = Ids(Listed(seq, q))
    BY <1>6 DEF Answer, findOnus
  <2> HIDE DEF q, seq
  <2> QED
    BY <1>3, <2>2, <2>3, <2>4
<1> QED
  BY <1>2, <1>4, <1>5, <1>6 DEF View

\* The answers are the same when the dependencies of reload are.
LEMMA RowsOfKey ==
    ASSUME NEW c \in Choice, NEW d \in Choice, NEW rows, ReloadKey(c) = ReloadKey(d)
    PROVE  /\ AlarmQuery(c) = AlarmQuery(d) /\ OnuQuery(c) = OnuQuery(d) /\ Scope(c) = Scope(d)
           /\ \A r \in Request : Answer(r, rows, c) = Answer(r, rows, d)
<1>1. /\ c.olts = d.olts /\ c.ports = d.ports /\ c.status = d.status /\ c.filters = d.filters
      /\ c.search = d.search /\ c.page = d.page /\ c.pageSize = d.pageSize
  BY DEF ReloadKey
<1>2. Scope(c) = Scope(d)
  BY <1>1 DEF Scope
<1>3. AlarmQuery(c) = AlarmQuery(d) /\ OnuQuery(c) = OnuQuery(d)
  BY <1>1, <1>2 DEF AlarmQuery, OnuQuery
<1>4. ASSUME NEW r \in Request PROVE Answer(r, rows, c) = Answer(r, rows, d)
  BY <1>2, <1>3 DEF Answer
<1> QED
  BY <1>2, <1>3, <1>4

\* The rows of a list do not depend on the page of it that is asked for.
LEMMA RowsOfPage ==
    ASSUME NEW c \in Choice, NEW p, NEW rows
    PROVE  Rows(rows, [c EXCEPT !.page = p]) = Rows(rows, c)
<1> DEFINE d == [c EXCEPT !.page = p]
<1>1. /\ d.olts = c.olts /\ d.ports = c.ports /\ d.status = c.status /\ d.view = c.view
      /\ d.filters = c.filters /\ d.search = c.search
  BY DEF Choice
<1> HIDE DEF d
<1>2. \A row : InScope(row, Scope(d)) <=> InScope(row, Scope(c))
  BY <1>1 DEF InScope, Scope
<1>3. /\ OnuQuery(d).search = OnuQuery(c).search
      /\ \A row : InScope(row, OnuQuery(d)) <=> InScope(row, OnuQuery(c))
  BY <1>1 DEF InScope, OnuQuery, Scope
<1>4. FilteredAlarms(rows, AlarmQuery(d)) = FilteredAlarms(rows, AlarmQuery(c))
  BY <1>1 DEF FilteredAlarms, InScope, AlarmQuery, Scope
<1>5. Rows(rows, d) = Rows(rows, c)
  BY <1>1, <1>2, <1>3, <1>4 DEF Rows
<1> QED
  BY <1>5 DEF d

\* The number of pages is the last that starts before the end.
LEMMA Division ==
    ASSUME NEW n \in Nat, NEW size \in Nat \ {0}
    PROVE  LET last == (n + size - 1) \div size IN
           last \in Nat /\ last * size < n + size
<1> DEFINE m == n + size - 1
<1>1. m \in Nat /\ m < n + size
  OBVIOUS
<1> HIDE DEF m
<1>2. m \div size \in Nat
  BY <1>1
<1>3. (m \div size) * size <= m
  BY <1>1
<1>4. (m \div size) * size \in Nat
  BY <1>2
<1> QED
  BY <1>1, <1>2, <1>3, <1>4 DEF m

\* A page before the last one ends before the rows do.
LEMMA PagesBefore ==
    ASSUME NEW n \in Nat, NEW size \in Nat \ {0}, NEW last \in Nat, NEW k \in Nat,
           last * size < n + size, k < last
    PROVE  k * size < n
<1>1. PICK d \in Nat : last = (k + 1) + d
  <2>1. last - (k + 1) \in Nat /\ last = (k + 1) + (last - (k + 1))
    OBVIOUS
  <2> QED
    BY <2>1
<1>2. last * size = (k + 1) * size + d * size
  BY <1>1
<1>3. d * size \in Nat /\ k * size \in Nat /\ (k + 1) * size = k * size + size
  BY Product
<1> QED
  BY <1>2, <1>3

\* Page 1 needs no rows, and neither does one that is about to be reset.
LEMMA NotGuarded ==
    ASSUME Inv', ~Guarded'
    PROVE  PageInv'
BY DEF PageInv, RowsFresh

\* Nothing the page depends on has changed.
LEMMA SamePage ==
    ASSUME PageInv, Inv', UNCHANGED <<browser, alarms, page, reloads, blind>>
    PROVE  PageInv'
<1>1. Guarded => HasPage(alarms, page.choice)
  BY DEF PageInv
<1>2. Guarded' <=> Guarded
  BY DEF Guarded
<1>3. RowsFresh'
  BY <1>2 DEF PageInv, RowsFresh, GotFresh, ShownFresh
<1> QED
  BY <1>1, <1>2, <1>3 DEF PageInv, HasPage

\* A reload that has just been started has read nothing yet.
LEMMA StartedPage ==
    ASSUME PageInv, Inv', NEW c \in Choice, page'.choice = c, reloads' = Started(c),
           UNCHANGED alarms, Guarded' => HasPage(alarms, c)
    PROVE  PageInv'
<1>1. reloads \in Seq(Reload) /\ Len(reloads) \in Nat
  BY LenProperties DEF PageInv, Inv, StateOK
<1>2. /\ Len(reloads') = Len(reloads) + 1 /\ reloads' # <<>>
      /\ reloads'[Len(reloads')] = [of |-> c, got |-> <<>>, late |-> FALSE]
  BY <1>1, StartedProperties
<1>3. GotFresh'
  <2>1. DOMAIN <<>> = {}
    OBVIOUS
  <2> QED
    BY <1>2, <2>1 DEF GotFresh
<1>4. RowsFresh'
  BY <1>2, <1>3 DEF RowsFresh
<1>5. Guarded' => HasPage(alarms', page'.choice)
  OBVIOUS
<1> QED
  BY <1>4, <1>5 DEF PageInv, HasPage

\* A choice of a page of the same scope starts a reload; any other goes to page 1.
LEMMA ChoosePage ==
    ASSUME PageInv, Inv', NEW c \in Choice, Choose(c), Guarded' => HasPage(alarms, c)
    PROVE  PageInv'
<1>1. page \in PageState
  BY DEF PageInv, Inv, StateOK
<1>2. /\ page'.choice = c /\ c # page.choice /\ UNCHANGED alarms
      /\ page'.resetting = (page.resetting \/ (ScopeKey(c) # ScopeKey(page.choice) /\ c.page # 1))
  BY <1>1 DEF Choose, PageState
<1>3. CASE ReloadKey(c) = ReloadKey(page.choice) /\ UNCHANGED reloads
  <2>1. c.view # page.choice.view
    BY <1>1, <1>2, <1>3 DEF PageState, Choice, ReloadKey
  <2>2. ScopeKey(c) # ScopeKey(page.choice)
    BY <2>1 DEF ScopeKey
  <2>3. page'.choice.page = 1 \/ page'.resetting
    BY <1>2, <2>2
  <2>4. ~Guarded'
    BY <2>3 DEF Guarded
  <2> QED
    BY <2>4, NotGuarded
<1>4. CASE reloads' = Started(c)
  BY <1>2, <1>4, StartedPage
<1> QED
  BY <1>3, <1>4 DEF Choose

\* What is chosen besides the page changes the scope.
LEMMA OtherScope ==
    ASSUME PageInv, Inv', NEW c \in Choice, With(c),
           c.page = page.choice.page, c.pageSize = page.choice.pageSize
    PROVE  PageInv'
<1>1. page \in PageState /\ Choose(c) /\ c # page.choice
  BY DEF PageInv, Inv, StateOK, With, Click, Choose
<1>2. ScopeKey(c) # ScopeKey(page.choice)
  BY <1>1 DEF PageState, Choice, ScopeKey
<1>3. page'.choice.page = 1 \/ page'.resetting
  BY <1>1, <1>2 DEF Choose, PageState
<1>4. ~Guarded'
  BY <1>3 DEF Guarded
<1> QED
  BY <1>4, NotGuarded

\* "Proxima" is pressed on a list that is as the rows are, or blind is set.
LEMMA NextPageThere ==
    ASSUME PageInv, Inv', NextPage
    PROVE  PageInv'
<1> DEFINE now == page.choice
           c == [now EXCEPT !.page = @ + 1]
           total == Cardinality(Rows(alarms, now))
<1>1. now \in Choice /\ IsFiniteSet(alarms)
  BY DEF PageInv, Inv, StateOK, PageState
<1>2. now.page \in Nat \ {0} /\ now.pageSize \in Nat \ {0} /\ now.view \in View
  <2>1. now.page \in Nat \ {0} /\ now.pageSize \in 1..500 /\ now.view \in View
    BY <1>1, SizesAllowed DEF Choice
  <2> HIDE DEF now
  <2> QED
    BY <2>1
<1>3. c \in Choice /\ c.page = now.page + 1 /\ c.pageSize = now.pageSize
  BY <1>1, <1>2 DEF Choice
<1>4. Choose(c) /\ now.page < TotalPages /\ blind' = (blind \/ ~UpToDate)
  BY DEF NextPage, Click
<1>5. total \in Nat /\ Rows(alarms, c) = Rows(alarms, now)
  BY <1>1, RowsFinite, RowsOfPage
<1> HIDE DEF c, total
<1>6. ASSUME UpToDate PROVE HasPage(alarms, c)
  <2>1. List.total = total
    <3>1. now.view \in Request
      BY <1>2 DEF View, Request
    <3>2. List = Answer(now.view, alarms, now)
      BY <1>6, <3>1 DEF UpToDate, List
    <3> QED
      BY <1>1, <3>2, ListOf DEF total
  <2> DEFINE last == (total + now.pageSize - 1) \div now.pageSize
  <2>2. last \in Nat /\ last * now.pageSize < total + now.pageSize
    BY <1>2, <1>5, Division
  <2>3. TotalPages = Max({1, last})
    BY <2>1 DEF TotalPages
  <2> HIDE DEF last
  <2>4. TotalPages \in {1, last}
    <3>1. \E x \in {1, last} : \A y \in {1, last} : x >= y
      BY <2>2
    <3> QED
      BY <2>3, <3>1 DEF Max
  <2>5. now.page < last
    BY <1>2, <1>4, <2>4
  <2>6. now.page * now.pageSize < total
    BY <1>2, <1>5, <2>2, <2>5, PagesBefore
  <2>7. c.page - 1 = now.page
    BY <1>2, <1>3
  <2> QED
    BY <1>3, <1>5, <2>6, <2>7 DEF HasPage, total
<1>7. Guarded' => HasPage(alarms, c)
  BY <1>4, <1>6 DEF Guarded
<1> QED
  BY <1>3, <1>4, <1>7, ChoosePage

\* The page before one that exists exists.
LEMMA PreviousPageThere ==
    ASSUME PageInv, Inv', PreviousPage
    PROVE  PageInv'
<1> DEFINE now == page.choice
           c == [now EXCEPT !.page = @ - 1]
<1>1. now \in Choice /\ page \in PageState /\ IsFiniteSet(alarms)
  BY DEF PageInv, Inv, StateOK, PageState
<1>2. now.page - 2 \in Nat /\ now.page \in Nat /\ now.page > 1 /\ now.pageSize \in Nat
  <2>1. now.page \in Nat \ {0} /\ now.page > 1 /\ now.pageSize \in 1..500
    BY <1>1, SizesAllowed DEF Choice, PreviousPage
  <2> HIDE DEF now
  <2> QED
    BY <2>1
<1>3. c \in Choice /\ c.page = now.page - 1 /\ c.pageSize = now.pageSize
  BY <1>1, <1>2 DEF Choice
<1>4. Choose(c) /\ blind' = blind
  BY DEF PreviousPage, Click
<1>5. Rows(alarms, c) = Rows(alarms, now) /\ Cardinality(Rows(alarms, now)) \in Nat
  BY <1>1, RowsOfPage, RowsFinite
<1> HIDE DEF c
<1>6. Guarded' => Guarded
  BY <1>1, <1>2, <1>4 DEF Guarded, Choose, PageState
<1>7. ASSUME HasPage(alarms, now) PROVE HasPage(alarms, c)
  <2>1. (now.page - 1) * now.pageSize < Cardinality(Rows(alarms, now))
    BY <1>7 DEF HasPage
  <2>2. /\ (now.page - 2) * now.pageSize \in Nat
        /\ (now.page - 1) * now.pageSize = (now.page - 2) * now.pageSize + now.pageSize
    <3>1. now.page - 1 = (now.page - 2) + 1
      BY <1>2
    <3> QED
      BY <1>2, <3>1, Product
  <2>4. c.page - 1 = now.page - 2
    BY <1>2, <1>3
  <2> QED
    BY <1>2, <1>3, <1>5, <2>1, <2>2, <2>4 DEF HasPage
<1>8. Guarded' => HasPage(alarms, c)
  BY <1>6, <1>7 DEF PageInv
<1> QED
  BY <1>3, <1>4, <1>8, ChoosePage

\* An answer has the rows as they are.
LEMMA AnsweredPage ==
    ASSUME PageInv, Inv', NEW i \in 1..Len(reloads), NEW request \in Apart, Answered(i, request)
    PROVE  PageInv'
<1> DEFINE got == [r \in DOMAIN reloads[i].got \cup {request} |->
                     IF r = request THEN alarms ELSE reloads[i].got[r]]
           new == [reloads[i] EXCEPT !.got = got]
           last == Len(reloads)
<1>1. /\ reloads' = [reloads EXCEPT ![i] = new]
      /\ UNCHANGED <<browser, alarms, page, blind>>
  BY DEF Answered
<1>2. reloads \in Seq(Reload) /\ last \in 1..last /\ reloads # <<>>
  <2>1. reloads \in Seq(Reload)
    BY DEF PageInv, Inv, StateOK
  <2> QED
    BY <2>1, EmptySeq, LenProperties
<1>3. reloads' \in Seq(Reload) /\ DOMAIN reloads = 1..last /\ DOMAIN reloads' = 1..last
  <2>1. reloads' \in Seq(Reload)
    BY DEF Inv, StateOK
  <2>2. DOMAIN reloads' = DOMAIN reloads
    BY <1>1
  <2> QED
    BY <1>2, <2>1, <2>2, LenProperties
<1>4. Len(reloads') = last /\ reloads' # <<>>
  <2>1. /\ Len(reloads') \in Nat /\ last \in Nat /\ last >= 1
        /\ DOMAIN reloads' = 1..Len(reloads')
    BY <1>2, <1>3, LenProperties
  <2>2. last \in 1..Len(reloads')
    BY <1>2, <1>3, <2>1
  <2>3. Len(reloads') \in 1..Len(reloads')
    BY <2>1, <2>2
  <2>4. Len(reloads') \in 1..last
    BY <1>3, <2>1, <2>3
  <2>5. Len(reloads') = last
    BY <2>1, <2>2, <2>4
  <2> QED
    BY <1>3, <2>1, <2>5, EmptySeq
<1>5. reloads[i] \in Reload
  BY <1>2, ElementOfSeq
<1>6. new.got = got /\ new.late = reloads[i].late
  BY <1>5 DEF Reload
<1>7. ASSUME i = last
      PROVE  reloads'[last].late = reloads[last].late /\ reloads'[last].got = got
  BY <1>1, <1>2, <1>3, <1>6, <1>7
<1>8. ASSUME i # last PROVE reloads'[last] = reloads[last]
  BY <1>1, <1>2, <1>3, <1>8
<1>9. ASSUME GotFresh PROVE GotFresh'
  <2>1. \A r \in DOMAIN reloads[last].got : reloads[last].got[r] = alarms
    BY <1>9 DEF GotFresh
  <2>2. CASE i = last
    <3>1. \A r \in DOMAIN got : got[r] = alarms
      BY <2>1, <2>2
    <3> QED
      BY <1>1, <1>4, <1>7, <2>2, <3>1 DEF GotFresh
  <2>3. CASE i # last
    BY <1>1, <1>4, <1>8, <2>1, <2>3 DEF GotFresh
  <2> QED
    BY <2>2, <2>3
<1>10. reloads'[Len(reloads')].late = reloads[last].late
  <2>1. reloads'[last].late = reloads[last].late
    BY ONLY <1>7, <1>8
  <2> QED
    BY ONLY <1>4, <2>1
<1>11. (Guarded' <=> Guarded) /\ (ShownFresh' <=> ShownFresh)
  BY ONLY <1>1 DEF Guarded, ShownFresh
<1> HIDE DEF got, new
<1>12. RowsFresh'
  BY <1>1, <1>2, <1>4, <1>9, <1>10, <1>11 DEF PageInv, RowsFresh
<1> QED
  BY <1>1, <1>11, <1>12 DEF PageInv, HasPage

\* When the newest is answered, what is shown is the rows as they are.
LEMMA CompletePage ==
    ASSUME PageInv, Inv', NEW i \in 1..Len(reloads), Complete(i)
    PROVE  PageInv'
<1> DEFINE older == [k \in 1..i-1 |-> [reloads[k] EXCEPT !.late = TRUE]]
           back == SubSeq(reloads, i + 1, Len(reloads))
           shown == [r \in Request |-> IF r \in Apart THEN reloads[i].got[r] ELSE alarms]
           last == Len(reloads)
<1>1. /\ DOMAIN reloads[i].got = Apart
      /\ page' = [page EXCEPT !.shown = shown, !.of = reloads[i].of, !.late = reloads[i].late]
      /\ reloads' = older \o back
      /\ UNCHANGED <<browser, alarms, blind>>
  BY DEF Complete
<1>2. /\ reloads \in Seq(Reload) /\ page \in PageState /\ LateFirst
      /\ last \in Nat /\ i \in Nat /\ i >= 1 /\ i <= last
  BY LenProperties DEF PageInv, Inv, StateOK
<1>3. reloads # <<>>
  BY <1>2, EmptySeq
<1>4. /\ page'.shown = shown /\ page'.late = reloads[i].late /\ page'.choice = page.choice
      /\ page'.resetting = page.resetting /\ page'.error = page.error
  BY <1>1, <1>2 DEF PageState
<1>5. Guarded' <=> Guarded
  BY <1>1, <1>4 DEF Guarded
<1>6. /\ Len(reloads') = last - 1
      /\ \A k \in 1..(i - 1) : reloads'[k].late
      /\ \A k \in i..(last - 1) : reloads'[k] = reloads[k + 1]
  BY <1>1, <1>2, Overtaken
<1> HIDE DEF older, back
<1>7. CASE i = last
  <2>1. reloads' # <<>> => reloads'[Len(reloads')].late
    <3> SUFFICES ASSUME reloads' # <<>> PROVE reloads'[Len(reloads')].late
      OBVIOUS
    <3>1. reloads' \in Seq(Reload)
      BY DEF Inv, StateOK
    <3>2. Len(reloads') # 0
      BY <3>1, EmptySeq
    <3> QED
      BY <1>2, <1>6, <1>7, <3>2
  <2>2. ASSUME Guarded, ~page.error PROVE page'.late \/ ShownFresh'
    <3>1. ~reloads[last].late => GotFresh
      BY <1>3, <2>2 DEF PageInv, RowsFresh
    <3>2. ASSUME GotFresh PROVE ShownFresh'
      <4>1. \A r \in Request : shown[r] = alarms
        BY <1>1, <1>7, <3>2 DEF GotFresh
      <4>2. shown # <<>>
        <5>1. DOMAIN shown = Request /\ "alarms" \in Request /\ DOMAIN <<>> = {}
          BY DEF Request
        <5> QED
          BY <5>1
      <4> HIDE DEF shown
      <4> QED
        BY <1>1, <1>4, <4>1, <4>2 DEF ShownFresh
    <3> QED
      BY <1>4, <1>7, <3>1, <3>2
  <2>3. RowsFresh'
    BY <1>4, <1>5, <2>1, <2>2 DEF RowsFresh
  <2> QED
    BY <1>1, <1>4, <1>5, <2>3 DEF PageInv, HasPage
<1>8. CASE i # last
  <2>1. last - 1 \in i..(last - 1) /\ last - 1 + 1 = last /\ i < last
    BY <1>2, <1>8
  <2>2. reloads'[Len(reloads')] = reloads[last]
    BY <1>6, <2>1
  <2>3. reloads' # <<>>
    <3>1. reloads' \in Seq(Reload) /\ Len(reloads') # 0
      BY <1>2, <1>6, <2>1 DEF Inv, StateOK
    <3> QED
      BY <3>1, EmptySeq
  <2>4. reloads[last].late => page'.late
    BY <1>2, <1>4, <2>1 DEF LateFirst
  <2>5. GotFresh => GotFresh'
    BY <1>1, <2>2 DEF GotFresh
  <2>6. RowsFresh'
    BY <1>3, <1>4, <1>5, <2>2, <2>3, <2>4, <2>5 DEF PageInv, RowsFresh
  <2> QED
    BY <1>1, <1>4, <1>5, <2>6 DEF PageInv, HasPage
<1> QED
  BY <1>7, <1>8

\* The message of a failure is shown.
LEMMA FailPage ==
    ASSUME PageInv, Inv', NEW i \in 1..Len(reloads), Fail(i)
    PROVE  PageInv'
<1>1. page \in PageState
  BY DEF PageInv, Inv, StateOK
<1>2. /\ page'.error /\ page'.choice = page.choice /\ page'.resetting = page.resetting
      /\ UNCHANGED <<browser, alarms, blind>>
  BY <1>1 DEF Fail, PageState
<1>3. Guarded' <=> Guarded
  BY <1>2 DEF Guarded
<1> QED
  BY <1>2, <1>3 DEF PageInv, RowsFresh, HasPage

\* A refresh reads again.
LEMMA ReloadAgainPage ==
    ASSUME PageInv, Inv', ReloadAgain
    PROVE  PageInv'
<1>1. page \in PageState /\ page.choice \in Choice
  BY DEF PageInv, Inv, StateOK, PageState
<1>2. /\ page'.choice = page.choice /\ page'.resetting = page.resetting
      /\ reloads' = Started(page.choice) /\ UNCHANGED <<browser, alarms, blind>>
  BY <1>1 DEF ReloadAgain, PageState
<1>3. Guarded' => HasPage(alarms, page.choice)
  BY <1>2 DEF Guarded, PageInv
<1> QED
  BY <1>1, <1>2, <1>3, StartedPage

\* What leads to page 1 needs no rows.
LEMMA FirstPage ==
    ASSUME PageInv, Inv',
           \/ ResetPage \/ AlarmsChange
           \/ LogIn \/ LogOut \/ RestartBrowser \/ StartAccepted \/ StartFails
           \/ \E i \in 1..Len(reloads) : Refused(i)
           \/ \E size \in Range(PageSize) : handlePageSizeChange(size)
    PROVE  PageInv'
<1>1. page \in PageState
  BY DEF PageInv, Inv, StateOK
<1>2. CASE page' = Initially
  <2>1. page'.choice.page = 1
    BY <1>2 DEF Initially, FirstChoice
  <2>2. ~Guarded'
    BY <2>1 DEF Guarded
  <2> QED
    BY <2>2, NotGuarded
<1>3. CASE ResetPage
  <2>1. [page.choice EXCEPT !.page = 1].page = 1
    BY <1>1 DEF PageState, Choice
  <2>2. page'.choice = [page.choice EXCEPT !.page = 1]
    BY <1>1, <1>3 DEF ResetPage, PageState
  <2>3. page'.choice.page = 1
    BY <2>1, <2>2
  <2>4. ~Guarded'
    BY <2>3 DEF Guarded
  <2> QED
    BY <2>4, NotGuarded
<1>4. CASE AlarmsChange
  <2>1. page' = page /\ blind' = (page.choice.page > 1)
    BY <1>4 DEF AlarmsChange
  <2>2. ~Guarded'
    BY <2>1 DEF Guarded
  <2> QED
    BY <2>2, NotGuarded
<1>5. ASSUME NEW size \in Range(PageSize), handlePageSizeChange(size) PROVE PageInv'
  <2>1. page'.choice.page = 1
    BY <1>1, <1>5 DEF handlePageSizeChange, Click, Choose, PageState, Choice
  <2>2. ~Guarded'
    BY <2>1 DEF Guarded
  <2> QED
    BY <2>2, NotGuarded
<1> QED
  BY <1>2, <1>3, <1>4, <1>5 DEF LogIn, LogOut, RestartBrowser, StartAccepted, StartFails,
     Refused, Mount, Unmount

\* What an operator chooses besides the page is another scope.
LEMMA ScopePage ==
    ASSUME PageInv, Inv',
           \/ \E o \in Olt : toggleOltSelection(o)
           \/ SelectAllOlts
           \/ toggleCitySelection(Olt)
           \/ \E g \in Olt \X Port : toggleGponSelection(g)
           \/ \E s \in StatusFilter : SetStatusFilter(s)
           \/ \E v \in View : SetView(v)
           \/ \E f \in Filters : SetFilters(f)
           \/ \E found \in Search : SearchOnus(found)
    PROVE  PageInv'
<1> DEFINE now == page.choice
<1>1. now \in Choice /\ now.olts \in SUBSET Olt /\ now.ports \in SUBSET (Olt \X Port)
  BY DEF PageInv, Inv, StateOK, PageState, Choice
<1>2. \E c \in Choice : With(c) /\ c.page = now.page /\ c.pageSize = now.pageSize
  <2>1. CASE (\E o \in Olt : toggleOltSelection(o)) \/ SelectAllOlts \/ toggleCitySelection(Olt)
    <3>1. PICK olts \in SUBSET Olt : With([now EXCEPT !.olts = olts])
      BY <1>1, <2>1 DEF toggleOltSelection, SelectAllOlts, toggleCitySelection, Toggle
    <3> QED
      BY <1>1, <3>1 DEF Choice
  <2>2. CASE \E g \in Olt \X Port : toggleGponSelection(g)
    <3>1. PICK ports \in SUBSET (Olt \X Port) : With([now EXCEPT !.ports = ports])
      BY <1>1, <2>2 DEF toggleGponSelection, Toggle
    <3> QED
      BY <1>1, <3>1 DEF Choice
  <2>3. CASE \E s \in StatusFilter : SetStatusFilter(s)
    BY <1>1, <2>3 DEF SetStatusFilter, Choice
  <2>4. CASE \E v \in View : SetView(v)
    BY <1>1, <2>4 DEF SetView, Choice
  <2>5. CASE \E f \in Filters : SetFilters(f)
    BY <1>1, <2>5 DEF SetFilters, Choice
  <2>6. CASE \E found \in Search : SearchOnus(found)
    BY <1>1, <2>6 DEF SearchOnus, Choice
  <2> QED
    BY <2>1, <2>2, <2>3, <2>4, <2>5, <2>6
<1> QED
  BY <1>2, OtherScope

\* Every step keeps it.
LEMMA PageNext == PageInv /\ Inv' /\ [Next]_vars => PageInv'
<1> SUFFICES ASSUME PageInv, Inv', [Next]_vars PROVE PageInv'
  OBVIOUS
<1>1. CASE \/ ResetPage \/ AlarmsChange
           \/ LogIn \/ LogOut \/ RestartBrowser \/ StartAccepted \/ StartFails
           \/ \E i \in 1..Len(reloads) : Refused(i)
           \/ \E size \in Range(PageSize) : handlePageSizeChange(size)
  BY <1>1, FirstPage
<1>2. CASE \/ \E o \in Olt : toggleOltSelection(o)
           \/ SelectAllOlts
           \/ toggleCitySelection(Olt)
           \/ \E g \in Olt \X Port : toggleGponSelection(g)
           \/ \E s \in StatusFilter : SetStatusFilter(s)
           \/ \E v \in View : SetView(v)
           \/ \E f \in Filters : SetFilters(f)
           \/ \E found \in Search : SearchOnus(found)
  BY <1>2, ScopePage
<1>3. CASE NextPage \/ PreviousPage
  BY <1>3, NextPageThere, PreviousPageThere
<1>4. CASE Refresh \/ Tick
  BY <1>4, ReloadAgainPage DEF Refresh, Tick
<1>5. ASSUME NEW i \in 1..Len(reloads), (\E r \in Apart : Answered(i, r)) \/ Complete(i) \/ Fail(i)
      PROVE  PageInv'
  BY <1>5, AnsweredPage, CompletePage, FailPage
<1>6. ASSUME NEW t \in 1..issued, Revoke(t) PROVE PageInv'
  BY <1>6, SamePage DEF Revoke, TokenDies
<1>7. ASSUME NEW t \in 1..issued, LateAnswer(t) PROVE PageInv'
  <2>1. CASE UNCHANGED <<browser, alarms, page, reloads, blind>>
    BY <2>1, SamePage
  <2>2. CASE page' = Initially
    <3>1. page'.choice.page = 1
      BY <2>2 DEF Initially, FirstChoice
    <3>2. ~Guarded'
      BY <3>1 DEF Guarded
    <3> QED
      BY <3>2, NotGuarded
  <2> QED
    BY <1>7, <2>1, <2>2 DEF LateAnswer, Unmount
<1>8. CASE SetAutoRefresh \/ UNCHANGED vars
  BY <1>8, SamePage DEF SetAutoRefresh, vars
<1> QED
  BY <1>1, <1>2, <1>3, <1>4, <1>5, <1>6, <1>7, <1>8 DEF Next

----------------------------------------------------------------------------
(* The theorems                                                            *)

\* The invariant holds of every state, for any rows, searches, page sizes and
\* number of reloads in flight.
THEOREM Invariance == Spec => []Inv
<1> QED
  BY InitInv, NextInv, PTL DEF Spec

\* The page asks its lists only what their validation lets through, and has no
\* state and no reloads while nobody is signed in.
THEOREM TypeCorrect == Spec => []TypeOK
<1>1. Inv => TypeOK
  <2> SUFFICES ASSUME Inv PROVE TypeOK
    OBVIOUS
  <2>1. SessionTypeOK /\ StateOK /\ page \in PageState /\ reloads \in Seq(Reload)
    BY DEF Inv, StateOK
  <2>2. page.choice \in Choice /\ page.of \in Choice
        /\ page.resetting \in BOOLEAN /\ page.late \in BOOLEAN /\ page.error \in BOOLEAN
    BY <2>1 DEF PageState
  <2>3. AlarmQuery(page.choice) \in QueryAlarmsDto /\ OnuQuery(page.choice) \in QueryOnusDto
    BY <2>2, QueriesTyped
  <2>4. DOMAIN page.shown \in {{}, Request}
    <3>1. page.shown \in {<<>>} \cup [Request -> SUBSET AlarmRow]
      BY <2>1 DEF PageState
    <3>2. DOMAIN <<>> = {}
      OBVIOUS
    <3> QED
      BY <3>1, <3>2
  <2>5. ASSUME NEW i \in 1..Len(reloads)
        PROVE  /\ reloads[i].of \in Choice /\ reloads[i].late \in BOOLEAN
               /\ DOMAIN reloads[i].got \subseteq Apart
    <3>1. reloads[i] \in Reload
      BY <2>1, ElementOfSeq
    <3>2. PICK D \in SUBSET Apart : reloads[i].got \in [D -> SUBSET AlarmRow]
      BY <3>1 DEF Reload, Got
    <3> QED
      BY <3>1, <3>2 DEF Reload
  <2> QED
    BY <2>1, <2>2, <2>3, <2>4, <2>5 DEF TypeOK, StateOK
<1> QED
  BY Invariance, <1>1, PTL

\* A page at rest without a message shows what is chosen now, whatever was
\* clicked and whichever requests failed, unless an older reload was answered
\* after a newer one.
THEOREM StaleOnlyIfOvertaken == Spec => []StaleOnlyByOvertaking
<1>1. Inv => StaleOnlyByOvertaking
  <2> SUFFICES ASSUME Inv, Settled
               PROVE  page.late \/ [page.of EXCEPT !.view = page.choice.view] = page.choice
    BY DEF StaleOnlyByOvertaking
  <2> QED
    BY DEF Inv, NewestIsChosen, SameRows, Settled
<1> QED
  BY Invariance, <1>1, PTL

\* Nobody is left on a page that does not exist for what is chosen, unless the
\* rows changed meanwhile or the list was out of date when "Proxima" was pressed.
THEOREM PageIsThere == Spec => []PageExists
<1>1. Init => PageInv
  <2> SUFFICES ASSUME Init PROVE PageInv
    OBVIOUS
  <2>1. ~Guarded
    BY DEF Init, SessionInit, SignedOut, Guarded
  <2> QED
    BY <2>1, InitInv DEF PageInv, RowsFresh
<1>2. PageInv => PageExists
  <2> SUFFICES ASSUME PageInv, Settled, ~page.late, ~page.resetting, ~blind, page.choice.page # 1
               PROVE  Len(List.data) > 0
    BY DEF PageExists
  <2>1. /\ page.choice \in Choice /\ page.of \in Choice /\ IsFiniteSet(alarms)
        /\ page.choice.view \in View /\ page.choice.page \in Nat \ {0}
    BY DEF PageInv, Inv, StateOK, PageState, Choice
  <2>2. Guarded /\ ~page.error /\ reloads = <<>>
    BY <2>1 DEF Settled, Guarded
  <2>3. ShownFresh /\ HasPage(alarms, page.choice)
    BY <2>2 DEF PageInv, RowsFresh
  <2>4. ReloadKey(page.of) = ReloadKey(page.choice)
    BY <2>1, <2>2, SameRowsIsKey DEF Guarded, PageInv, Inv, NewestIsChosen
  <2>5. page.choice.view \in Request
    BY <2>1 DEF View, Request
  <2>6. List = Answer(page.choice.view, alarms, page.of)
    BY <2>3, <2>5 DEF List, Shown, ShownFresh
  <2>7. List = Answer(page.choice.view, alarms, page.choice)
    BY <2>1, <2>4, <2>5, <2>6, RowsOfKey
  <2> QED
    BY <2>1, <2>3, <2>7, ListOf
<1> QED
  BY Invariance, <1>1, <1>2, PageNext, PTL DEF Spec

\* AuthContext forgets a token the API accepts only at a logout, at a start whose
\* /me fails, or at the late 401 of an older token.
THEOREM OnlyAnOlderSessionEndsIt == Spec => LiveSessionLostOnlyToOlder
<1>1. Inv /\ [Next]_vars =>
        [browser.token \in alive /\ browser'.token = 0 =>
           \/ LogOut \/ StartFails
           \/ \E t \in stray : t # browser.token /\ t \notin alive /\ LateAnswer(t)]_vars
  <2> SUFFICES ASSUME Inv, Next, browser.token \in alive, browser'.token = 0
               PROVE  \/ LogOut \/ StartFails
                      \/ \E t \in stray : t # browser.token /\ t \notin alive /\ LateAnswer(t)
    OBVIOUS
  <2>1. browser' # browser /\ browser.token # 0 /\ browser.stored = browser.token
    BY SessionState
  <2>2. CASE LogOut \/ StartFails
    BY <2>2
  <2>3. CASE LogIn \/ StartAccepted
    <3>1. CASE LogIn
      BY <2>1, <3>1, SessionState DEF LogIn, Login, SignedIn
    <3>2. CASE StartAccepted
      BY <2>1, <3>2 DEF StartAccepted, MeAccepted, SignedIn
    <3> QED
      BY <2>3, <3>1, <3>2
  <2>10. CASE RestartBrowser
    BY <2>1, <2>10 DEF RestartBrowser, Restart
  <2>4. ASSUME NEW t \in 1..issued, LateAnswer(t)
        PROVE  t \in stray /\ t # browser.token /\ t \notin alive
    BY <2>1, <2>4 DEF LateAnswer, StrayAnswered, Unauthorized
  <2>5. ASSUME NEW i \in 1..Len(reloads), Refused(i) PROVE FALSE
    BY <2>5 DEF Refused, Unauthorized
  <2>6. ASSUME NEW t \in 1..issued, Revoke(t) PROVE FALSE
    BY <2>1, <2>6 DEF Revoke, TokenDies
  <2>7. ASSUME NEW i \in 1..Len(reloads),
               (\E r \in Apart : Answered(i, r)) \/ Complete(i) \/ Fail(i)
        PROVE  FALSE
    BY <2>1, <2>7 DEF Answered, Complete, Fail
  <2>8. CASE \/ ResetPage \/ Refresh \/ Tick \/ SetAutoRefresh \/ AlarmsChange
    BY <2>1, <2>8 DEF ResetPage, Refresh, Tick, ReloadAgain, SetAutoRefresh, AlarmsChange
  <2>9. CASE \/ \E o \in Olt : toggleOltSelection(o)
             \/ SelectAllOlts
             \/ toggleCitySelection(Olt)
             \/ \E g \in Olt \X Port : toggleGponSelection(g)
             \/ \E s \in StatusFilter : SetStatusFilter(s)
             \/ \E v \in View : SetView(v)
             \/ \E f \in Filters : SetFilters(f)
             \/ \E found \in Search : SearchOnus(found)
             \/ \E size \in Range(PageSize) : handlePageSizeChange(size)
             \/ NextPage
             \/ PreviousPage
    <3>1. PICK c : Click(c)
      BY <2>9 DEF toggleOltSelection, SelectAllOlts, toggleCitySelection, toggleGponSelection,
                  SetStatusFilter, SetView, SetFilters, SearchOnus, handlePageSizeChange,
                  NextPage, PreviousPage, With
    <3> QED
      BY <2>1, <3>1 DEF Click, Choose
  <2> QED
    BY <2>2, <2>3, <2>4, <2>5, <2>6, <2>7, <2>8, <2>9, <2>10 DEF Next
<1> QED
  BY Invariance, <1>1, PTL DEF Spec, LiveSessionLostOnlyToOlder
=============================================================================
