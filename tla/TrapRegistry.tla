---------------------------- MODULE TrapRegistry -----------------------------
(***************************************************************************)
(* OltRegistryService and TrapSecurityService, over OltDirectory.           *)
(* The registry keeps in memory what OltDirectory stores and every trap is *)
(* judged by that copy.  refresh() runs every 30 s, after every change and *)
(* at the start; it reads two tables at once, each at its own moment, and  *)
(* then assigns both copies; refreshes overlap.                            *)
(***************************************************************************)
EXTENDS OltDirectory

CONSTANTS
    Timer,         \* the refresher of setInterval and of the start
    MaxFailures    \* bound on refreshes that reject and processes that die

ASSUME RegistryAssumption ==
    /\ Timer \notin Request
    /\ None \notin [ipAddress : OltIp, snmpCommunity : Community]
    /\ MaxFailures \in Nat

VARIABLES
    cache,         \* trustedOlts and allowedNetworks
    refresh,       \* refresh[s]: what refresher s still reads and has read
    booting,       \* onModuleInit has not finished
    failures,
    answered,      \* history: the newest change of each table that was answered as done
    overtaken      \* history: an older copy was assigned over a newer one

vars == <<olt, network, city, request, version,
          cache, refresh, booting, failures, answered, overtaken>>
registry == <<cache, refresh, booting, failures, answered, overtaken>>

----------------------------------------------------------------------------
Read == {"olts", "networks"}
Refresher == Request \cup {Timer}
TrustedOlt == [ipAddress : OltIp, snmpCommunity : Community]
Copy == [olts : [Olt -> TrustedOlt \cup {None}], networks : SUBSET Cidr,
         at : [Read -> 0..MaxChanges]]       \* history: the version that was read

Resting == [pc |-> "resting"]
RefreshState == {Resting} \cup [pc : {"reading"}, todo : SUBSET Read, copy : Copy]

TypeOK ==
    /\ DirectoryTypeOK
    /\ cache \in Copy
    /\ refresh \in [Refresher -> RefreshState]
    /\ booting \in BOOLEAN /\ overtaken \in BOOLEAN
    /\ failures \in 0..MaxFailures
    /\ answered \in [Read -> 0..MaxChanges]

Empty == [olts |-> [o \in Olt |-> None], networks |-> {}, at |-> [t \in Read |-> 0]]

\* What a SELECT returns now; the community is decrypted after it.
TrustedOlts ==
    [o \in Olt |-> IF o \in StoredOlts
                     THEN [ipAddress |-> olt[o].ipAddress, snmpCommunity |-> olt[o].snmpCommunity]
                     ELSE None]
AllowedNetworks == {network[n] : n \in StoredNetworks}

Reading == [pc |-> "reading", todo |-> Read, copy |-> Empty]

\* The process has just started over tables that somebody has filled before.
Init ==
    /\ \E tables \in Start :
         olt = tables.olt /\ network = tables.network /\ city = tables.city
    /\ request = [r \in Request |-> Idle]
    /\ version = [t \in Table |-> 0]
    /\ cache = Empty
    /\ refresh = [s \in Refresher |-> IF s = Timer THEN Reading ELSE Resting]
    /\ booting = TRUE
    /\ failures = 0
    /\ answered = [t \in Read |-> 0]
    /\ overtaken = FALSE

----------------------------------------------------------------------------
(* Refreshes                                                               *)

\* The HTTP server listens when onModuleInit is done.
Serve(r) ==
    /\ ~booting
    /\ RequestStep(r)
    /\ UNCHANGED registry

ServeCity ==
    /\ ~booting
    /\ CreateCity
    /\ UNCHANGED registry

StartRefresh(s) ==
    /\ refresh[s] = Resting
    /\ refresh' = [refresh EXCEPT ![s] = Reading]
    /\ UNCHANGED <<directory, cache, booting, failures, answered, overtaken>>

RefreshAfterChange(r) == At(r, "refresh") /\ StartRefresh(r)

\* (mutant: the interval reads the OLTs only)
TimerFiresOltsOnly ==
    /\ ~booting /\ refresh[Timer] = Resting
    /\ refresh' = [refresh EXCEPT ![Timer] = [pc |-> "reading", todo |-> {"olts"}, copy |-> cache]]
    /\ UNCHANGED <<directory, cache, booting, failures, answered, overtaken>>

\* setInterval; two of its refreshes at once are one more overlap than the
\* slots of the model have.
TimerFires == ~booting /\ StartRefresh(Timer)

ReadTable(s, t) ==
    /\ refresh[s].pc = "reading" /\ t \in refresh[s].todo
    /\ refresh' = [refresh EXCEPT
            ![s].todo = @ \ {t},
            ![s].copy = IF t = "olts" THEN [@ EXCEPT !.olts = TrustedOlts, !.at["olts"] = version["olts"]]
                                      ELSE [@ EXCEPT !.networks = AllowedNetworks,
                                                     !.at["networks"] = version["networks"]]]
    /\ UNCHANGED <<directory, cache, booting, failures, answered, overtaken>>

\* The end of a refresh: for a request, its answer; for the start, listen().
Finish(s) ==
    /\ refresh' = [refresh EXCEPT ![s] = Resting]
    /\ booting' = (booting /\ s # Timer)
    /\ IF s = Timer
         THEN UNCHANGED <<request, answered>>
         ELSE /\ request' = [request EXCEPT ![s] = Idle]
              /\ answered' = [answered EXCEPT ![request[s].table] =
                                 IF request[s].made > @ THEN request[s].made ELSE @]
    /\ UNCHANGED <<olt, network, city, version, failures>>

Overtaken(copy) ==
    IF \E t \in Read : copy.at[t] < cache.at[t] THEN TRUE
    ELSE IF \A t \in Read : copy.at[t] >= answered[t] THEN FALSE ELSE overtaken

\* (mutant: the networks are kept from the start)
AssignOltsOnly(s) ==
    /\ refresh[s].pc = "reading" /\ refresh[s].todo = {}
    /\ cache' = IF booting THEN refresh[s].copy
                ELSE [cache EXCEPT !.olts = refresh[s].copy.olts, !.at["olts"] = refresh[s].copy.at["olts"]]
    /\ overtaken' = Overtaken(refresh[s].copy)
    /\ Finish(s)

\* Promise.all has both answers: both copies are assigned in one go.
Assign(s) ==
    /\ refresh[s].pc = "reading" /\ refresh[s].todo = {}
    /\ cache' = refresh[s].copy
    /\ overtaken' = Overtaken(refresh[s].copy)
    /\ Finish(s)

Fail == failures < MaxFailures /\ failures' = failures + 1

\* A statement or a decryption rejects: the interval logs it, a request is
\* answered with an error although its change is stored.
RefreshFails(s) ==
    /\ refresh[s].pc = "reading" /\ ~booting
    /\ Fail
    /\ refresh' = [refresh EXCEPT ![s] = Resting]
    /\ request' = IF s = Timer THEN request ELSE [request EXCEPT ![s] = Idle]
    /\ UNCHANGED <<olt, network, city, version, cache, booting, answered, overtaken>>

\* The process dies, as it does when the refresh of the start rejects, and
\* Docker starts it again with an empty copy.
Crash ==
    /\ Fail
    /\ cache' = Empty
    /\ refresh' = [s \in Refresher |-> IF s = Timer THEN Reading ELSE Resting]
    /\ booting' = TRUE
    /\ overtaken' = FALSE
    /\ request' = [r \in Request |-> IF At(r, "form") THEN request[r] ELSE Idle]
    /\ UNCHANGED <<olt, network, city, version, answered>>

----------------------------------------------------------------------------
\* TrapSecurityService.validate, which the receiver calls for every trap at
\* any time, also while booting; it changes nothing.
Sender(source) == {o \in Olt : cache.olts[o] # None /\ cache.olts[o].ipAddress = source}

\* (mutant: an empty list authorises nobody)
ValidateEmptyList(source, community) ==
    IF ~\E c \in cache.networks : ipMatchesCidr(source, c)
      THEN "NETWORK_NOT_ALLOWED"
    ELSE IF Sender(source) = {} THEN "UNKNOWN_SOURCE_IP"
    ELSE IF \E o \in Sender(source) : cache.olts[o].snmpCommunity = community
      THEN "accepted" ELSE "COMMUNITY_MISMATCH"

Validate(source, community) ==
    IF cache.networks # {} /\ ~\E c \in cache.networks : ipMatchesCidr(source, c)
      THEN "NETWORK_NOT_ALLOWED"
    ELSE IF Sender(source) = {} THEN "UNKNOWN_SOURCE_IP"
    ELSE IF \E o \in Sender(source) : cache.olts[o].snmpCommunity = community
      THEN "accepted" ELSE "COMMUNITY_MISMATCH"

Next ==
    \/ \E r \in Request : Serve(r) \/ RefreshAfterChange(r)
    \/ ServeCity
    \/ TimerFires
    \/ \E s \in Refresher : Assign(s) \/ RefreshFails(s) \/ \E t \in Read : ReadTable(s, t)
    \/ Crash

Spec == Init /\ [][Next]_vars

\* Statements are answered or reject, continuations run and the interval
\* fires; nobody owes a change.
FairSpec ==
    /\ Spec
    /\ WF_vars(TimerFires)
    /\ \A s \in Refresher :
         WF_vars(Assign(s) \/ RefreshFails(s) \/ \E t \in Read : ReadTable(s, t))

----------------------------------------------------------------------------
(* Properties                                                              *)

InForce == cache.olts = TrustedOlts /\ cache.networks = AllowedNetworks

\* What an ADMIN was told is done is what traps are judged by: the copy is
\* never older than an answered change, unless a refresh that had read the
\* tables before the change was the last to assign (or the process started).
AnsweredChangeInForce ==
    booting \/ overtaken \/ \A t \in Read : cache.at[t] >= answered[t]

\* When the tables are left alone the copy agrees with them for good, whatever
\* overlapped, was overtaken, failed or died before.
CacheConverges == <>[]InForce

\* While the copy is that of the tables, a trap gets through if and only if
\* an OLT of that address and community is stored and the address lies in one
\* of the authorised blocks (or no block restricts it).
TrustedByTables(source, community) ==
    /\ StoredNetworks = {} \/ \E m \in StoredNetworks : InBlock(source, network[m])
    /\ \E o \in StoredOlts : olt[o].ipAddress = source /\ olt[o].snmpCommunity = community

JudgedByTables ==
    InForce => \A source \in Address, community \in Community :
                  Validate(source, community) = "accepted" <=> TrustedByTables(source, community)

\* "Existem OLTs cadastradas nessa cidade": an OLT loses its city only to a
\* removal that had counted before the OLT was given the city, or to a PATCH
\* that sends null for it; never to one, or to a form, that says nothing of it.
CityLostToNullOrRace ==
    [][\A o \in StoredOlts :
          olt[o].cityId # None /\ o \in StoredOlts' /\ olt'[o].cityId = None =>
              \E r \in Request :
                \/ At(r, "delete") /\ ~At(r, "delete")' /\ request[r].raced
                \/ PatchOlt(r, o, NullCity)]_vars
=============================================================================
