---------------------------- MODULE OltDirectory -----------------------------
(***************************************************************************)
(* The tables an ADMIN edits, by hand or as a client of the API: OLTs      *)
(* (OltService and OltFormPage), authorised networks                       *)
(* (AllowedNetworkService) and cities (CityService).                       *)
(* A request that has changed what the trap receiver trusts waits at       *)
(* "refresh" for the registry (TrapRegistry).  Kept of an OLT: its         *)
(* address, community and city.                                            *)
(*                                                                         *)
(* A look-up before a write that only decides between 404 or 409 and the   *)
(* write is part of the write: what it would refuse the write refuses too, *)
(* for want of a row or by a unique index.  Two reads are steps of their   *)
(* own, since what they return is used later: the form's and the count of  *)
(* a city's OLTs.                                                          *)
(***************************************************************************)
EXTENDS CidrFilter

CONSTANTS
    Request,      \* slots for requests served at the same time
    Olt, Network, City,   \* ids: each is used once
    OltIp, Community, Cidr,   \* values that are typed in
    None,         \* not there: no city, a field not sent, an id not used yet
    Null,         \* sent as null
    Gone,         \* the row of an id that was removed
    Start,        \* contents the tables may start with
    MaxChanges    \* bound on the changes of the three tables

ASSUME DirectoryAssumption ==
    /\ OltIp \subseteq Address /\ Cidr \subseteq CidrEntry
    /\ MaxChanges \in Nat
    /\ None \notin City \cup Community
    /\ None \notin OltIp
    /\ Null \notin City \cup {None}

VARIABLES
    olt,          \* olt[o]: its row, None or Gone
    network,      \* network[n]: its cidr, None or Gone
    city,         \* city[c]: "unused", "stored" or "removed"
    request,      \* request[r]: the request in slot r, or the form before it
    version       \* history: how often each table was changed

directory == <<olt, network, city, request, version>>

----------------------------------------------------------------------------
Table == {"olts", "networks", "cities"}
Row == [ipAddress : OltIp, snmpCommunity : Community, cityId : City \cup {None}]
\* The body of a PATCH; @IsOptional lets a null pass.  A null address is refused
\* by the table and a null community is like none, so only the city has one.
Dto == [ipAddress : OltIp \cup {None}, snmpCommunity : Community \cup {None},
        cityId : City \cup {None, Null}]
\* The body OltFormPage sends.
FormDto == [ipAddress : OltIp, snmpCommunity : Community \cup {None}, cityId : City \cup {None}]

Idle == [pc |-> "idle"]
RequestState ==
    {Idle}
    \cup [pc : {"form"}, olt : Olt, dto : FormDto]
    \cup [pc : {"delete"}, city : City,
          raced : BOOLEAN]       \* history: an OLT was given the city since the count
    \cup [pc : {"refresh"}, table : Table, made : 0..MaxChanges]

\* Contents that the constraints of the schema allow.
Tables == [olt : [Olt -> Row \cup {None}], network : [Network -> Cidr \cup {None}],
           city : [City -> {"unused", "stored"}]]
Consistent(tables) ==
    /\ \A o, p \in Olt :
         tables.olt[o] # None /\ tables.olt[p] # None /\ o # p =>
             tables.olt[o].ipAddress # tables.olt[p].ipAddress
    /\ \A m, n \in Network : tables.network[m] # None /\ m # n => tables.network[m] # tables.network[n]
    /\ \A o \in Olt :
         tables.olt[o] # None =>
             tables.olt[o].cityId \in {None} \cup {c \in City : tables.city[c] = "stored"}

ASSUME StartAssumption == \A tables \in Start : tables \in Tables /\ Consistent(tables)

DirectoryTypeOK ==
    /\ olt \in [Olt -> Row \cup {None, Gone}]
    /\ network \in [Network -> Cidr \cup {None, Gone}]
    /\ city \in [City -> {"unused", "stored", "removed"}]
    /\ request \in [Request -> RequestState]
    /\ version \in [Table -> 0..MaxChanges]

StoredOlts == {o \in Olt : olt[o] \notin {None, Gone}}
StoredNetworks == {n \in Network : network[n] \notin {None, Gone}}
StoredCities == {c \in City : city[c] = "stored"}
OltsOf(c) == {o \in StoredOlts : olt[o].cityId = c}

At(r, pc) == request[r].pc = pc
Begin(r, record) == At(r, "idle") /\ request' = [request EXCEPT ![r] = record]
End(r) == request' = [request EXCEPT ![r] = Idle]
TablesUnchanged == UNCHANGED <<olt, network, city, version>>

Change(table) ==
    /\ version["olts"] + version["networks"] + version["cities"] < MaxChanges
    /\ version' = [version EXCEPT ![table] = @ + 1]

\* Every service awaits registry.refresh() before it answers.
AwaitRefresh(req, r, table) ==
    request' = [req EXCEPT ![r] = [pc |-> "refresh", table |-> table, made |-> version'[table]]]

----------------------------------------------------------------------------
(* OLTs                                                                    *)

\* The unique index on ipAddress and the foreign key to City.
Fits(row, o) ==
    /\ \A p \in StoredOlts \ {o} : olt[p].ipAddress # row.ipAddress
    /\ row.cityId \in StoredCities \cup {None}

\* The row of o is written, and the requests that remove its city overtaken.
StoreOlt(r, o, row) ==
    /\ Fits(row, o)
    /\ olt' = [olt EXCEPT ![o] = row]
    /\ Change("olts")
    /\ AwaitRefresh([q \in Request |->
                        IF At(q, "delete") /\ request[q].city = row.cityId
                          THEN [request[q] EXCEPT !.raced = TRUE] ELSE request[q]],
                    r, "olts")
    /\ UNCHANGED <<network, city>>

CreateOlt(r) ==
    /\ At(r, "idle")
    /\ \E o \in Olt, row \in Row : olt[o] = None /\ StoreOlt(r, o, row)

\* OltFormPage loads the OLT to be edited; the community is never sent back.
OpenForm(r, o) ==
    /\ o \in StoredOlts
    /\ Begin(r, [pc |-> "form", olt |-> o, dto |-> [olt[o] EXCEPT !.snmpCommunity = None]])
    /\ TablesUnchanged

\* The form sends every field, edited or as it was loaded, but for a blank
\* community and "Sem cidade" (so an OLT with a city keeps it).  Here at most
\* one field is edited.
Edited(dto) ==
    {dto} \cup {[dto EXCEPT !.ipAddress = a] : a \in OltIp}
          \cup {[dto EXCEPT !.snmpCommunity = c] : c \in Community}
          \cup {[dto EXCEPT !.cityId = c] : c \in City \cup {None}}

MergeField(old, sent) == IF sent = None THEN old ELSE sent

\* (mutant: a blank community is saved)
MergeBlank(row, dto) ==
    [ipAddress |-> MergeField(row.ipAddress, dto.ipAddress),
     snmpCommunity |-> dto.snmpCommunity,
     cityId |-> IF dto.cityId = Null THEN None ELSE MergeField(row.cityId, dto.cityId)]

\* A field that is not sent is left as it is; a null takes the city away.
Merge(row, dto) ==
    [ipAddress |-> MergeField(row.ipAddress, dto.ipAddress),
     snmpCommunity |-> MergeField(row.snmpCommunity, dto.snmpCommunity),
     cityId |-> IF dto.cityId = Null THEN None ELSE MergeField(row.cityId, dto.cityId)]

UpdateOlt(r) ==
    /\ At(r, "form") /\ request[r].olt \in StoredOlts
    /\ LET o == request[r].olt IN
       \E dto \in Edited(request[r].dto) : StoreOlt(r, o, Merge(olt[o], dto))

\* A PATCH of another client of the API than the form, with one field or none.
NothingSent == [ipAddress |-> None, snmpCommunity |-> None, cityId |-> None]
NullCity == [NothingSent EXCEPT !.cityId = Null]
Body == Edited(NothingSent) \cup {NullCity}

PatchOlt(r, o, dto) ==
    /\ At(r, "idle") /\ o \in StoredOlts
    /\ StoreOlt(r, o, Merge(olt[o], dto))

RemoveOlt(r, o) ==
    /\ At(r, "idle") /\ o \in StoredOlts
    /\ olt' = [olt EXCEPT ![o] = Gone]
    /\ Change("olts")
    /\ AwaitRefresh(request, r, "olts")
    /\ UNCHANGED <<network, city>>

\* The form is left, or its OLT is gone, or the constraints refuse the update.
LeaveForm(r) ==
    /\ At(r, "form")
    /\ End(r)
    /\ TablesUnchanged

----------------------------------------------------------------------------
(* Authorised networks                                                     *)

\* Under the unique index on cidr.
CreateNetwork(r) ==
    /\ At(r, "idle")
    /\ \E n \in Network, c \in Cidr :
         /\ network[n] = None /\ \A m \in StoredNetworks : network[m] # c
         /\ network' = [network EXCEPT ![n] = c]
    /\ Change("networks")
    /\ AwaitRefresh(request, r, "networks")
    /\ UNCHANGED <<olt, city>>

RemoveNetwork(r, n) ==
    /\ At(r, "idle") /\ n \in StoredNetworks
    /\ network' = [network EXCEPT ![n] = Gone]
    /\ Change("networks")
    /\ AwaitRefresh(request, r, "networks")
    /\ UNCHANGED <<olt, city>>

----------------------------------------------------------------------------
(* Cities, whose unique names are left out                                 *)

CreateCity ==
    /\ \E c \in City : city[c] = "unused" /\ city' = [city EXCEPT ![c] = "stored"]
    /\ Change("cities")
    /\ UNCHANGED <<olt, network, request>>

\* (mutant: the count is not looked at)
CountOltsIgnored(r, c) ==
    /\ c \in StoredCities
    /\ Begin(r, [pc |-> "delete", city |-> c, raced |-> FALSE])
    /\ TablesUnchanged

\* remove() finds the city with the number of its OLTs; with OLTs it ends (409).
CountOlts(r, c) ==
    /\ c \in StoredCities /\ OltsOf(c) = {}
    /\ Begin(r, [pc |-> "delete", city |-> c, raced |-> FALSE])
    /\ TablesUnchanged

\* The delete: ON DELETE SET NULL for the OLTs that have the city by now.
DeleteCity(r) ==
    /\ At(r, "delete") /\ request[r].city \in StoredCities
    /\ city' = [city EXCEPT ![request[r].city] = "removed"]
    /\ olt' = [o \in Olt |-> IF o \in OltsOf(request[r].city)
                               THEN [olt[o] EXCEPT !.cityId = None] ELSE olt[o]]
    /\ Change("cities")
    /\ End(r)
    /\ UNCHANGED network

\* The delete rejects, for one because the city is gone.
DeleteCityFails(r) ==
    /\ At(r, "delete")
    /\ End(r)
    /\ TablesUnchanged

RequestStep(r) ==
    \/ CreateOlt(r)
    \/ \E o \in Olt : OpenForm(r, o) \/ RemoveOlt(r, o)
    \/ UpdateOlt(r)
    \/ \E o \in Olt, dto \in Body : PatchOlt(r, o, dto)
    \/ LeaveForm(r)
    \/ CreateNetwork(r)
    \/ \E n \in Network : RemoveNetwork(r, n)
    \/ \E c \in City : CountOlts(r, c)
    \/ DeleteCity(r)
    \/ DeleteCityFails(r)
=============================================================================
