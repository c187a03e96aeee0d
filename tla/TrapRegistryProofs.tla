------------------------- MODULE TrapRegistryProofs --------------------------
(***************************************************************************)
(* Theorems about TrapRegistry for all tables, requests and bounds.  What  *)
(* an ADMIN was told is in force needs to know of the refreshes under way  *)
(* (ReadsAfterChange, BootReads): what a request's refresh has read of its *)
(* table is not older than its change, nor is what the first refresh of a  *)
(* process has read older than anything that was answered before.          *)
(***************************************************************************)
EXTENDS TrapRegistry, WellFoundedInduction, TLAPS

\* A request that waits for the registry has changed a table the registry
\* reads, and nothing is answered before it is made.
ChangesAreMade ==
    /\ \A r \in Request :
         At(r, "refresh") => /\ request[r].table \in Read
                             /\ request[r].made <= version[request[r].table]
    /\ \A t \in Read : answered[t] <= version[t]

\* A request's refresh starts after its change.
ReadsAfterChange ==
    \A r \in Request :
      refresh[r].pc = "reading" =>
        /\ At(r, "refresh")
        /\ \/ request[r].table \in refresh[r].todo
           \/ refresh[r].copy.at[request[r].table] >= request[r].made

\* Nothing is changed before the first refresh of a process is done.
BootReads ==
    booting =>
      /\ \A r \in Request : At(r, "idle") \/ At(r, "form")
      /\ refresh[Timer].pc = "reading" =>
           \A t \in Read \ refresh[Timer].todo : refresh[Timer].copy.at[t] >= answered[t]

\* A count of a city's OLTs still stands when the request is not overtaken.
CountStands ==
    \A r \in Request :
      At(r, "delete") /\ ~request[r].raced => OltsOf(request[r].city) = {}

Inv ==
    /\ TypeOK
    /\ ChangesAreMade
    /\ ReadsAfterChange
    /\ BootReads
    /\ AnsweredChangeInForce
    /\ CountStands

----------------------------------------------------------------------------
(* What a request does to the slots and to the versions                    *)

Deleting == [pc : {"delete"}, city : City, raced : BOOLEAN]

\* What the registry has to know of a step of request r.
Served(r) ==
    /\ DirectoryTypeOK'
    /\ \A t \in Table : version'[t] >= version[t]
    /\ ~At(r, "refresh")
    /\ At(r, "refresh")' => /\ request'[r].table \in Read
                            /\ request'[r].made <= version'[request'[r].table]
    /\ \A q \in Request \ {r} :
         /\ request'[q].pc = request[q].pc
         /\ At(q, "refresh") => request'[q] = request[q]

\* A slot that removes a city is a record with its fields.
LEMMA DeletingSlot ==
    ASSUME DirectoryTypeOK, NEW r \in Request, At(r, "delete")
    PROVE  request[r] \in Deleting
BY DEF DirectoryTypeOK, RequestState, Idle, At, Deleting

\* A change is counted once, for its table, within the bound.
LEMMA ChangeCounts ==
    ASSUME DirectoryTypeOK, NEW t \in Table, Change(t)
    PROVE  /\ version' \in [Table -> 0..MaxChanges]
           /\ \A u \in Table : version'[u] >= version[u]
<1>1. MaxChanges \in Nat
  BY DirectoryAssumption
<1>2. version["olts"] \in Nat /\ version["networks"] \in Nat /\ version["cities"] \in Nat
  BY <1>1 DEF DirectoryTypeOK, Table
<1>3. version[t] + 1 <= MaxChanges
  BY <1>1, <1>2 DEF Change, Table
<1> QED
  BY <1>1, <1>2, <1>3 DEF Change, DirectoryTypeOK, Table

\* The slot of a request that has made its change.
LEMMA Awaiting ==
    ASSUME NEW req \in [Request -> RequestState], NEW r \in Request, NEW t \in Read,
           version' \in [Table -> 0..MaxChanges], AwaitRefresh(req, r, t)
    PROVE  /\ request' \in [Request -> RequestState]
           /\ request'[r].pc = "refresh" /\ request'[r].table = t
           /\ request'[r].made = version'[t]
           /\ \A q \in Request \ {r} : request'[q] = req[q]
<1> DEFINE new == [pc |-> "refresh", table |-> t, made |-> version'[t]]
<1>1. t \in Table
  BY DEF Read, Table
<1>2. new \in RequestState
  BY <1>1 DEF RequestState
<1>3. new.pc = "refresh" /\ new.table = t /\ new.made = version'[t]
  OBVIOUS
<1>4. request' = [req EXCEPT ![r] = new]
  BY DEF AwaitRefresh
<1> HIDE DEF new
<1> QED
  BY <1>2, <1>3, <1>4

\* A change of a table the registry reads, by request r, which had not
\* changed anything yet, with the slots marked as in req.
LEMMA ServedChange ==
    ASSUME DirectoryTypeOK, NEW r \in Request, ~At(r, "refresh"), NEW t \in Read,
           NEW req \in [Request -> RequestState], Change(t), AwaitRefresh(req, r, t),
           \A q \in Request : /\ req[q].pc = request[q].pc
                              /\ At(q, "refresh") => req[q] = request[q],
           olt' \in [Olt -> Row \cup {None, Gone}],
           network' \in [Network -> Cidr \cup {None, Gone}],
           city' \in [City -> {"unused", "stored", "removed"}]
    PROVE  Served(r)
<1>1. t \in Table
  BY DEF Read, Table
<1>2. version' \in [Table -> 0..MaxChanges] /\ \A u \in Table : version'[u] >= version[u]
  BY <1>1, ChangeCounts
<1>3. /\ request' \in [Request -> RequestState]
      /\ request'[r].table = t /\ request'[r].made = version'[t]
      /\ \A q \in Request \ {r} : request'[q] = req[q]
  BY <1>2, Awaiting
<1>4. version'[t] <= version'[t]
  BY <1>1, <1>2, DirectoryAssumption
<1>5. DirectoryTypeOK'
  BY <1>2, <1>3 DEF DirectoryTypeOK
<1> QED
  BY <1>2, <1>3, <1>4, <1>5 DEF Served, At

\* A step that writes the slot of r alone, with a record that is no change.
LEMMA ServedSlot ==
    ASSUME DirectoryTypeOK, NEW r \in Request, ~At(r, "refresh"),
           NEW new \in RequestState, new.pc # "refresh",
           request' = [request EXCEPT ![r] = new], TablesUnchanged
    PROVE  Served(r)
<1>1. \A t \in Table : version'[t] >= version[t]
  BY DirectoryAssumption DEF DirectoryTypeOK, TablesUnchanged
<1>2. request' \in [Request -> RequestState]
  BY DEF DirectoryTypeOK
<1>3. DirectoryTypeOK'
  BY <1>2 DEF DirectoryTypeOK, TablesUnchanged
<1> QED
  BY <1>1, <1>3 DEF Served, At, DirectoryTypeOK

----------------------------------------------------------------------------
(* The steps of a request                                                  *)

\* The slots with those marked that are about to remove the city.
Marked(c) ==
    [q \in Request |-> IF At(q, "delete") /\ request[q].city = c
                        THEN [request[q] EXCEPT !.raced = TRUE] ELSE request[q]]

LEMMA Marking ==
    ASSUME DirectoryTypeOK, NEW c
    PROVE  /\ Marked(c) \in [Request -> RequestState]
           /\ \A q \in Request :
                /\ Marked(c)[q].pc = request[q].pc
                /\ ~At(q, "delete") => Marked(c)[q] = request[q]
                /\ At(q, "delete") =>
                     /\ Marked(c)[q].city = request[q].city
                     /\ ~Marked(c)[q].raced => ~request[q].raced /\ request[q].city # c
<1> DEFINE new(q) == [request[q] EXCEPT !.raced = TRUE]
<1>1. \A q \in Request : request[q] \in RequestState
  BY DEF DirectoryTypeOK
<1>2. ASSUME NEW q \in Request, At(q, "delete")
      PROVE  /\ new(q) \in RequestState /\ new(q).pc = request[q].pc
             /\ new(q).city = request[q].city /\ new(q).raced
  <2>1. request[q] \in Deleting
    BY <1>2, DeletingSlot
  <2>2. new(q) \in Deleting
    BY <2>1 DEF Deleting
  <2>3. new(q) \in RequestState
    BY <2>2 DEF RequestState, Deleting
  <2> QED
    BY <2>1, <2>3 DEF Deleting
<1>3. ASSUME NEW q \in Request
      PROVE  Marked(c)[q] = IF At(q, "delete") /\ request[q].city = c
                              THEN new(q) ELSE request[q]
  BY DEF Marked
<1>4. \A q \in Request : Marked(c)[q] \in RequestState
  BY <1>1, <1>2, <1>3
<1>5. Marked(c) \in [Request -> RequestState]
  BY <1>4 DEF Marked
<1> HIDE DEF new
<1> QED
  BY <1>2, <1>3, <1>5

\* A body is merged into a row, which loses its city only to a null.
LEMMA MergedRow ==
    ASSUME NEW row \in Row, NEW dto \in Dto
    PROVE  /\ Merge(row, dto) \in Row
           /\ row.cityId # None /\ dto.cityId # Null => Merge(row, dto).cityId # None
<1>1. /\ dto.ipAddress \in OltIp \cup {None} /\ dto.snmpCommunity \in Community \cup {None}
      /\ dto.cityId \in City \cup {None, Null}
  BY DEF Dto
<1>2. /\ row.ipAddress \in OltIp /\ row.snmpCommunity \in Community
      /\ row.cityId \in City \cup {None}
  BY DEF Row
<1> QED
  BY <1>1, <1>2 DEF Merge, MergeField, Row

\* A form sends a body without a null.
LEMMA EditedForm ==
    ASSUME NEW dto0 \in FormDto, NEW dto \in Edited(dto0)
    PROVE  dto \in Dto /\ dto.cityId # Null
<1>1. dto \in FormDto
  <2> DEFINE a(x) == [dto0 EXCEPT !.ipAddress = x]
             c(x) == [dto0 EXCEPT !.snmpCommunity = x]
             d(x) == [dto0 EXCEPT !.cityId = x]
  <2>1. \A x \in OltIp : a(x) \in FormDto
    BY DEF FormDto
  <2>2. \A x \in Community : c(x) \in FormDto
    BY DEF FormDto
  <2>3. \A x \in City \cup {None} : d(x) \in FormDto
    BY DEF FormDto
  <2> QED
    BY <2>1, <2>2, <2>3 DEF Edited
<1> QED
  BY <1>1, DirectoryAssumption DEF FormDto, Dto

\* A client's body has a null only where it says nothing else.
LEMMA ClientBody ==
    ASSUME NEW dto \in Body
    PROVE  dto \in Dto /\ (dto.cityId = Null => dto = NullCity)
<1> DEFINE a(x) == [NothingSent EXCEPT !.ipAddress = x]
           c(x) == [NothingSent EXCEPT !.snmpCommunity = x]
           d(x) == [NothingSent EXCEPT !.cityId = x]
<1>1. Null \notin City \cup {None}
  BY DirectoryAssumption
<1>2. NothingSent \in Dto /\ NothingSent.cityId # Null
  BY <1>1 DEF NothingSent, Dto
<1>3. \A x \in OltIp : a(x) \in Dto /\ a(x).cityId # Null
  BY <1>1 DEF NothingSent, Dto
<1>4. \A x \in Community : c(x) \in Dto /\ c(x).cityId # Null
  BY <1>1 DEF NothingSent, Dto
<1>5. \A x \in City \cup {None} : d(x) \in Dto /\ d(x).cityId # Null
  BY <1>1 DEF NothingSent, Dto
<1>6. NullCity \in Dto
  BY DEF NullCity, NothingSent, Dto
<1>7. \/ dto = NothingSent \/ dto = NullCity
      \/ \E x \in OltIp : dto = a(x)
      \/ \E x \in Community : dto = c(x)
      \/ \E x \in City \cup {None} : dto = d(x)
  BY DEF Body, Edited
<1> HIDE DEF a, c, d
<1> QED
  BY <1>2, <1>3, <1>4, <1>5, <1>6, <1>7

\* A row is written: counts of the city the OLT is given are marked.
LEMMA OltStored ==
    ASSUME DirectoryTypeOK, CountStands, NEW r \in Request, At(r, "idle") \/ At(r, "form"),
           NEW o \in Olt, NEW row \in Row, StoreOlt(r, o, row)
    PROVE  Served(r) /\ CountStands'
<1> DEFINE marked == Marked(row.cityId)
<1>1. AwaitRefresh(marked, r, "olts") /\ Change("olts") /\ UNCHANGED <<network, city>>
  BY DEF StoreOlt, Marked
<1>2. olt' = [olt EXCEPT ![o] = row]
  BY DEF StoreOlt
<1>3. "olts" \in Read /\ "olts" \in Table /\ ~At(r, "refresh")
  BY DEF Read, Table, At
<1>4. /\ marked \in [Request -> RequestState]
      /\ \A q \in Request :
           /\ marked[q].pc = request[q].pc
           /\ ~At(q, "delete") => marked[q] = request[q]
           /\ At(q, "delete") =>
                /\ marked[q].city = request[q].city
                /\ ~marked[q].raced => ~request[q].raced /\ request[q].city # row.cityId
  BY Marking
<1> HIDE DEF marked
<1>5. \A q \in Request : At(q, "refresh") => marked[q] = request[q]
  BY <1>4 DEF At
<1>6. olt' \in [Olt -> Row \cup {None, Gone}]
  BY <1>2 DEF DirectoryTypeOK
<1>7. /\ network' \in [Network -> Cidr \cup {None, Gone}]
      /\ city' \in [City -> {"unused", "stored", "removed"}]
  BY <1>1 DEF DirectoryTypeOK
<1>8. Served(r)
  BY <1>1, <1>3, <1>4, <1>5, <1>6, <1>7, ServedChange
<1>9. request'[r].pc = "refresh" /\ \A q \in Request \ {r} : request'[q] = marked[q]
  BY <1>1, <1>3, <1>4, ChangeCounts, Awaiting
<1>10. ASSUME NEW q \in Request, At(q, "delete")', ~request'[q].raced
       PROVE  (OltsOf(request[q].city) = {})'
  <2>1. request'[q] = marked[q]
    BY <1>9, <1>10 DEF At
  <2>2. /\ At(q, "delete") /\ ~request[q].raced
        /\ request'[q].city = request[q].city /\ request[q].city # row.cityId
    BY <1>4, <1>10, <2>1 DEF At
  <2>3. OltsOf(request[q].city) = {}
    BY <2>2 DEF CountStands
  <2> QED
    BY <1>2, <2>2, <2>3 DEF OltsOf, StoredOlts, DirectoryTypeOK
<1> QED
  BY <1>8, <1>10 DEF CountStands

\* No OLT is given a city: the counts stand, that of r too if it is new.
LEMMA CountsStay ==
    ASSUME DirectoryTypeOK, CountStands, NEW r \in Request,
           \A q \in Request \ {r} : request'[q] = request[q],
           At(r, "delete")' => /\ request'[r].city \in City
                              /\ \A o \in OltsOf(request'[r].city) : FALSE,
           \A o \in Olt :
             o \in StoredOlts' => /\ o \in StoredOlts
                                 /\ olt'[o].cityId \in {olt[o].cityId, None}
    PROVE  CountStands'
<1>1. ASSUME NEW q \in Request, At(q, "delete")', ~request'[q].raced
      PROVE  (OltsOf(request[q].city) = {})'
  <2>1. /\ request'[q].city \in City
        /\ \A o \in OltsOf(request'[q].city) : FALSE
    <3>1. CASE q = r
      BY <1>1, <3>1
    <3>2. CASE q # r
      <4>1. request'[q] = request[q] /\ At(q, "delete") /\ ~request[q].raced
        BY <1>1, <3>2 DEF At
      <4> QED
        BY <4>1, DeletingSlot DEF CountStands, Deleting
    <3> QED
      BY <3>1, <3>2
  <2>2. request'[q].city # None
    BY <2>1, DirectoryAssumption
  <2> QED
    BY <2>1, <2>2 DEF OltsOf, StoredOlts
<1> QED
  BY <1>1 DEF CountStands

LEMMA IdleSlot == Idle \in RequestState /\ Idle.pc = "idle"
BY DEF Idle, RequestState

\* The step of a request, of whatever kind.
LEMMA RequestServed ==
    ASSUME DirectoryTypeOK, CountStands, NEW r \in Request, RequestStep(r)
    PROVE  Served(r) /\ CountStands'
<1> DEFINE NoCityGiven ==
               \A o \in Olt :
                 o \in StoredOlts' => /\ o \in StoredOlts
                                     /\ olt'[o].cityId \in {olt[o].cityId, None}
<1>1. request[r] \in RequestState
  BY DEF DirectoryTypeOK
<1>2. ASSUME UNCHANGED olt PROVE NoCityGiven
  BY <1>2 DEF StoredOlts
<1>3. ASSUME NEW t \in Read, At(r, "idle"), AwaitRefresh(request, r, t), Change(t),
             olt' \in [Olt -> Row \cup {None, Gone}], NoCityGiven,
             network' \in [Network -> Cidr \cup {None, Gone}], city' = city
      PROVE  Served(r) /\ CountStands'
  <2>1. t \in Table /\ ~At(r, "refresh") /\ request \in [Request -> RequestState]
    BY <1>3 DEF Read, Table, At, DirectoryTypeOK
  <2>2. city' \in [City -> {"unused", "stored", "removed"}]
    BY <1>3 DEF DirectoryTypeOK
  <2>3. Served(r)
    BY <1>3, <2>1, <2>2, ServedChange
  <2>4. request'[r].pc = "refresh" /\ \A q \in Request \ {r} : request'[q] = request[q]
    BY <1>3, <2>1, ChangeCounts, Awaiting
  <2> QED
    BY <1>3, <2>3, <2>4, CountsStay DEF At
<1>4. ASSUME NEW new \in RequestState, new.pc \notin {"refresh", "delete"},
             ~At(r, "refresh"), request' = [request EXCEPT ![r] = new], TablesUnchanged
      PROVE  Served(r) /\ CountStands'
  <2>1. Served(r)
    BY <1>4, ServedSlot
  <2>2. request'[r] = new /\ \A q \in Request \ {r} : request'[q] = request[q]
    BY <1>4 DEF DirectoryTypeOK
  <2>3. NoCityGiven
    BY <1>2, <1>4 DEF TablesUnchanged
  <2> QED
    BY <1>4, <2>1, <2>2, <2>3, CountsStay DEF At
<1> HIDE DEF NoCityGiven
<1>5. CASE CreateOlt(r)
  BY <1>5, OltStored DEF CreateOlt
<1>6. ASSUME NEW o \in Olt, OpenForm(r, o) PROVE Served(r) /\ CountStands'
  <2> DEFINE dto == [olt[o] EXCEPT !.snmpCommunity = None]
             new == [pc |-> "form", olt |-> o, dto |-> dto]
  <2>1. olt[o] \in Row
    BY <1>6 DEF OpenForm, StoredOlts, DirectoryTypeOK
  <2>2. dto \in FormDto
    BY <2>1 DEF Row, FormDto
  <2> HIDE DEF dto
  <2>3. new \in RequestState /\ new.pc = "form"
    BY <2>2 DEF RequestState
  <2>4. request' = [request EXCEPT ![r] = new] /\ At(r, "idle") /\ TablesUnchanged
    BY <1>6 DEF OpenForm, Begin, dto
  <2> HIDE DEF new
  <2> QED
    BY <1>4, <2>3, <2>4 DEF At
<1>7. ASSUME NEW o \in Olt, RemoveOlt(r, o) PROVE Served(r) /\ CountStands'
  <2>1. olt' = [olt EXCEPT ![o] = Gone]
    BY <1>7 DEF RemoveOlt
  <2>2. olt' \in [Olt -> Row \cup {None, Gone}]
    BY <2>1 DEF DirectoryTypeOK
  <2>3. NoCityGiven
    BY <2>1 DEF NoCityGiven, StoredOlts, DirectoryTypeOK
  <2>4. "olts" \in Read /\ network' \in [Network -> Cidr \cup {None, Gone}] /\ city' = city
    BY <1>7 DEF RemoveOlt, Read, DirectoryTypeOK
  <2> QED
    BY <1>3, <1>7, <2>2, <2>3, <2>4 DEF RemoveOlt
<1>8. CASE UpdateOlt(r)
  <2>1. At(r, "form") /\ request[r].olt \in StoredOlts
    BY <1>8 DEF UpdateOlt
  <2>2. request[r].dto \in FormDto
    BY <1>1, <2>1 DEF RequestState, Idle, At
  <2>3. PICK dto \in Edited(request[r].dto) :
          StoreOlt(r, request[r].olt, Merge(olt[request[r].olt], dto))
    BY <1>8 DEF UpdateOlt
  <2>4. request[r].olt \in Olt /\ olt[request[r].olt] \in Row
    BY <2>1 DEF StoredOlts, DirectoryTypeOK
  <2>5. Merge(olt[request[r].olt], dto) \in Row
    BY <2>2, <2>4, EditedForm, MergedRow
  <2> QED
    BY <2>1, <2>3, <2>4, <2>5, OltStored
<1>14. ASSUME NEW o \in Olt, NEW dto \in Body, PatchOlt(r, o, dto) PROVE Served(r) /\ CountStands'
  <2>1. At(r, "idle") /\ olt[o] \in Row /\ StoreOlt(r, o, Merge(olt[o], dto))
    BY <1>14 DEF PatchOlt, StoredOlts, DirectoryTypeOK
  <2>2. Merge(olt[o], dto) \in Row
    BY <2>1, ClientBody, MergedRow
  <2> QED
    BY <2>1, <2>2, OltStored
<1>9. CASE LeaveForm(r) \/ DeleteCityFails(r)
  BY <1>4, <1>9, IdleSlot DEF LeaveForm, DeleteCityFails, End, At
<1>10. CASE CreateNetwork(r)
  <2>1. PICK n \in Network, c \in Cidr : network' = [network EXCEPT ![n] = c]
    BY <1>10 DEF CreateNetwork
  <2>2. "networks" \in Read /\ network' \in [Network -> Cidr \cup {None, Gone}]
    BY <2>1 DEF Read, DirectoryTypeOK
  <2>3. UNCHANGED olt /\ city' = city
    BY <1>10 DEF CreateNetwork
  <2> QED
    BY <1>2, <1>3, <1>10, <2>2, <2>3 DEF CreateNetwork, DirectoryTypeOK
<1>11. ASSUME NEW n \in Network, RemoveNetwork(r, n) PROVE Served(r) /\ CountStands'
  <2>1. "networks" \in Read /\ network' \in [Network -> Cidr \cup {None, Gone}]
    BY <1>11 DEF Read, DirectoryTypeOK, RemoveNetwork
  <2>2. UNCHANGED olt /\ city' = city
    BY <1>11 DEF RemoveNetwork
  <2> QED
    BY <1>2, <1>3, <1>11, <2>1, <2>2 DEF RemoveNetwork, DirectoryTypeOK
<1>12. ASSUME NEW c \in City, CountOlts(r, c) PROVE Served(r) /\ CountStands'
  <2> DEFINE new == [pc |-> "delete", city |-> c, raced |-> FALSE]
  <2>1. new \in RequestState /\ new.pc = "delete" /\ new.city = c
    BY DEF RequestState
  <2>2. /\ request' = [request EXCEPT ![r] = new] /\ At(r, "idle") /\ TablesUnchanged
        /\ OltsOf(c) = {}
    BY <1>12 DEF CountOlts, Begin
  <2> HIDE DEF new
  <2>3. Served(r)
    BY <2>1, <2>2, ServedSlot DEF At
  <2>4. request'[r] = new /\ \A q \in Request \ {r} : request'[q] = request[q]
    BY <2>2 DEF DirectoryTypeOK
  <2>5. NoCityGiven
    BY <1>2, <2>2 DEF TablesUnchanged
  <2> QED
    BY <2>1, <2>2, <2>3, <2>4, <2>5, CountsStay DEF NoCityGiven
<1>13. CASE DeleteCity(r)
  <2>1. /\ request' = [request EXCEPT ![r] = Idle] /\ At(r, "delete")
        /\ Change("cities") /\ network' = network
        /\ city' = [city EXCEPT ![request[r].city] = "removed"]
    BY <1>13 DEF DeleteCity, End
  <2>2. request'[r] = Idle /\ \A q \in Request \ {r} : request'[q] = request[q]
    BY <2>1 DEF DirectoryTypeOK
  <2>3. \A o \in StoredOlts :
          /\ [olt[o] EXCEPT !.cityId = None] \in Row
          /\ [olt[o] EXCEPT !.cityId = None].cityId = None
    BY DEF StoredOlts, DirectoryTypeOK, Row
  <2>4. OltsOf(request[r].city) \subseteq StoredOlts
    BY DEF OltsOf
  <2> DEFINE row(o) == IF o \in OltsOf(request[r].city)
                         THEN [olt[o] EXCEPT !.cityId = None] ELSE olt[o]
  <2>5. olt' = [o \in Olt |-> row(o)]
    BY <1>13 DEF DeleteCity
  <2>6. ASSUME NEW o \in Olt
        PROVE  /\ row(o) \in Row \cup {None, Gone}
               /\ row(o) = olt[o] \/ (o \in StoredOlts /\ row(o).cityId = None)
    BY <2>3, <2>4 DEF DirectoryTypeOK
  <2> HIDE DEF row
  <2>7. olt' \in [Olt -> Row \cup {None, Gone}]
    BY <2>5, <2>6
  <2>8. NoCityGiven
    BY <2>5, <2>6 DEF NoCityGiven, StoredOlts
  <2>9. CountStands'
    BY <2>2, <2>8, CountsStay, IdleSlot DEF NoCityGiven, At
  <2>10. "cities" \in Table
    BY DEF Table
  <2>11. version' \in [Table -> 0..MaxChanges] /\ \A t \in Table : version'[t] >= version[t]
    BY <2>1, <2>10, ChangeCounts
  <2>12. request' \in [Request -> RequestState]
    BY <2>1, IdleSlot DEF DirectoryTypeOK
  <2>13. DirectoryTypeOK'
    BY <2>1, <2>7, <2>11, <2>12 DEF DirectoryTypeOK
  <2> QED
    BY <2>1, <2>2, <2>9, <2>11, <2>13, IdleSlot DEF Served, At
<1> QED
  BY <1>5, <1>6, <1>7, <1>8, <1>9, <1>10, <1>11, <1>12, <1>13, <1>14 DEF RequestStep

----------------------------------------------------------------------------
(* Refreshes                                                               *)

Underway == [pc : {"reading"}, todo : SUBSET Read, copy : Copy]

LEMMA UnderwaySlot ==
    ASSUME TypeOK, NEW s \in Refresher, refresh[s].pc = "reading"
    PROVE  refresh[s] \in Underway
BY DEF TypeOK, RefreshState, Resting, Underway

LEMMA EmptyCopy == Empty \in Copy /\ Reading \in RefreshState
<1>1. 0 \in 0..MaxChanges
  BY DirectoryAssumption
<1>2. Empty \in Copy
  BY <1>1 DEF Empty, Copy
<1> QED
  BY <1>2 DEF Reading, RefreshState

\* What a SELECT returns is of the copy's types.
LEMMA TablesTyped ==
    ASSUME DirectoryTypeOK
    PROVE  TrustedOlts \in [Olt -> TrustedOlt \cup {None}] /\ AllowedNetworks \in SUBSET Cidr
<1>1. \A o \in StoredOlts : o \in Olt /\ olt[o] \in Row
  BY DEF StoredOlts, DirectoryTypeOK
<1>2. \A o \in StoredOlts :
        [ipAddress |-> olt[o].ipAddress, snmpCommunity |-> olt[o].snmpCommunity] \in TrustedOlt
  BY <1>1 DEF Row, TrustedOlt
<1>3. \A n \in StoredNetworks : network[n] \in Cidr
  BY DEF StoredNetworks, DirectoryTypeOK
<1> QED
  BY <1>2, <1>3 DEF TrustedOlts, AllowedNetworks

LEMMA RestingSlot == Resting \in RefreshState /\ Resting.pc # "reading"
BY DEF Resting, RefreshState

\* One more failure, within the bound.
LEMMA FailCounts ==
    ASSUME TypeOK, Fail PROVE failures' \in 0..MaxFailures
BY RegistryAssumption DEF TypeOK, Fail

\* Refresher s has read table t.
LEMMA TableRead ==
    ASSUME TypeOK, NEW s \in Refresher, NEW t \in Read, ReadTable(s, t)
    PROVE  /\ refresh' \in [Refresher -> RefreshState]
           /\ refresh'[s].pc = "reading" /\ refresh'[s].todo = refresh[s].todo \ {t}
           /\ refresh'[s].copy.at = [refresh[s].copy.at EXCEPT ![t] = version[t]]
           /\ refresh[s].pc = "reading" /\ refresh[s].copy \in Copy
           /\ \A q \in Refresher \ {s} : refresh'[q] = refresh[q]
<1> DEFINE copy == refresh[s].copy
           read == IF t = "olts"
                     THEN [copy EXCEPT !.olts = TrustedOlts, !.at["olts"] = version["olts"]]
                     ELSE [copy EXCEPT !.networks = AllowedNetworks,
                                       !.at["networks"] = version["networks"]]
           new == [refresh[s] EXCEPT !.todo = @ \ {t}, !.copy = read]
<1>1. refresh[s] \in Underway
  BY UnderwaySlot DEF ReadTable
<1>2. copy \in Copy
  BY <1>1 DEF Underway
<1>3. /\ TrustedOlts \in [Olt -> TrustedOlt \cup {None}] /\ AllowedNetworks \in SUBSET Cidr
      /\ version["olts"] \in 0..MaxChanges /\ version["networks"] \in 0..MaxChanges
  BY TablesTyped DEF TypeOK, DirectoryTypeOK, Table
<1>4. read \in Copy /\ read.at = [copy.at EXCEPT ![t] = version[t]]
  BY <1>2, <1>3 DEF Copy, Read
<1> HIDE DEF read
<1>5. refresh' = [refresh EXCEPT ![s] = new]
  <2>1. refresh' = [refresh EXCEPT ![s].todo = @ \ {t}, ![s].copy = read]
    BY DEF ReadTable, read
  <2> QED
    BY <1>1, <2>1 DEF TypeOK, Underway
<1>6. /\ new \in RefreshState /\ new.pc = "reading" /\ new.copy = read
      /\ new.todo = refresh[s].todo \ {t}
  BY <1>1, <1>4 DEF Underway, RefreshState
<1> HIDE DEF new
<1>7. refresh' \in [Refresher -> RefreshState]
  BY <1>5, <1>6 DEF TypeOK
<1>8. refresh'[s] = new /\ \A q \in Refresher \ {s} : refresh'[q] = refresh[q]
  BY <1>5 DEF TypeOK
<1>9. refresh[s].pc = "reading"
  BY DEF ReadTable
<1> QED
  BY <1>2, <1>4, <1>6, <1>7, <1>8, <1>9

\* Steps that leave the directory, the copy and the answers alone.
LEMMA DirectoryKept ==
    ASSUME Inv, UNCHANGED directory
    PROVE  /\ DirectoryTypeOK' /\ CountStands'
           /\ answered' = answered => ChangesAreMade'
<1>1. DirectoryTypeOK'
  BY DEF Inv, TypeOK, DirectoryTypeOK, directory
<1>2. CountStands'
  BY DEF Inv, CountStands, OltsOf, StoredOlts, At, directory
<1> QED
  BY <1>1, <1>2 DEF Inv, ChangesAreMade, At, directory

----------------------------------------------------------------------------
(* The invariant                                                           *)

LEMMA InitInv == Init => Inv
<1> SUFFICES ASSUME Init PROVE Inv
  OBVIOUS
<1>1. 0 \in 0..MaxChanges /\ 0 \in 0..MaxFailures
  BY DirectoryAssumption, RegistryAssumption
<1>2. PICK tables \in Start : olt = tables.olt /\ network = tables.network /\ city = tables.city
  BY DEF Init
<1>3. tables \in Tables
  BY StartAssumption
<1>4. /\ olt \in [Olt -> Row \cup {None, Gone}]
      /\ network \in [Network -> Cidr \cup {None, Gone}]
      /\ city \in [City -> {"unused", "stored", "removed"}]
  BY <1>2, <1>3 DEF Tables
<1>5. TypeOK
  BY <1>1, <1>4, IdleSlot, EmptyCopy, RestingSlot DEF Init, TypeOK, DirectoryTypeOK
<1>6. \A r \in Request : At(r, "idle")
  BY IdleSlot DEF Init, At
<1>7. \A t \in Read : answered[t] = 0 /\ version[t] = 0
  BY DEF Init, Read, Table
<1>8. ChangesAreMade /\ CountStands
  BY <1>6, <1>7 DEF ChangesAreMade, CountStands, At
<1>9. ReadsAfterChange
  BY RestingSlot, RegistryAssumption DEF Init, ReadsAfterChange, Refresher
<1>10. refresh[Timer] = Reading
  BY DEF Init, Refresher
<1>11. BootReads
  BY <1>6, <1>10 DEF BootReads, Reading
<1> QED
  BY <1>5, <1>8, <1>9, <1>11 DEF Inv, AnsweredChangeInForce, Init

\* A request changes no refresh under way but may start to wait for one.
LEMMA ServeInv ==
    ASSUME Inv, NEW r \in Request, Serve(r)
    PROVE  Inv'
<1>1. Served(r) /\ CountStands' /\ UNCHANGED registry /\ ~booting
  BY RequestServed DEF Serve, Inv, TypeOK
<1>2. TypeOK'
  BY <1>1 DEF Inv, TypeOK, Served, registry
<1>3. \A t \in Read : answered[t] <= version'[t]
  <2> SUFFICES ASSUME NEW t \in Read PROVE answered[t] <= version'[t]
    OBVIOUS
  <2>1. /\ answered[t] \in Int /\ version[t] \in Int /\ version'[t] \in Int
        /\ t \in Table
    BY <1>2, DirectoryAssumption DEF Inv, TypeOK, DirectoryTypeOK, Table, Read
  <2> QED
    BY <1>1, <2>1 DEF Inv, ChangesAreMade, Served
<1>4. ASSUME NEW q \in Request, At(q, "refresh")'
      PROVE  request'[q].table \in Read /\ request'[q].made <= version'[request'[q].table]
  <2>1. CASE q = r
    BY <1>1, <1>4, <2>1 DEF Served
  <2>2. CASE q # r
    <3>1. At(q, "refresh") /\ request'[q] = request[q]
      BY <1>1, <1>4, <2>2 DEF Served, At
    <3>2. request[q].table \in Read /\ request[q].made <= version[request[q].table]
      BY <3>1 DEF Inv, ChangesAreMade
    <3> DEFINE t == request[q].table
    <3>3. /\ request[q].made \in Int /\ version[t] \in Int /\ version'[t] \in Int
          /\ t \in Table
      BY <1>2, <3>1, <3>2, DirectoryAssumption
      DEF Inv, TypeOK, DirectoryTypeOK, RequestState, Idle, At, Table, Read
    <3>4. version'[t] >= version[t]
      BY <1>1, <3>3 DEF Served
    <3> QED
      BY <3>1, <3>2, <3>3, <3>4
  <2> QED
    BY <2>1, <2>2
<1>5. ChangesAreMade'
  BY <1>1, <1>3, <1>4 DEF ChangesAreMade, registry
<1>6. ReadsAfterChange'
  BY <1>1 DEF Inv, ReadsAfterChange, Served, registry, At
<1> QED
  BY <1>1, <1>2, <1>5, <1>6 DEF Inv, BootReads, AnsweredChangeInForce, registry

LEMMA CreateCityInv ==
    ASSUME Inv, ServeCity
    PROVE  Inv'
<1>1. /\ Change("cities") /\ UNCHANGED <<olt, network, request>> /\ UNCHANGED registry
      /\ "cities" \in Table
  BY DEF ServeCity, CreateCity, Table
<1>2. PICK c \in City : city' = [city EXCEPT ![c] = "stored"]
  BY DEF ServeCity, CreateCity
<1>3. version' \in [Table -> 0..MaxChanges] /\ \A u \in Table : version'[u] >= version[u]
  BY <1>1, ChangeCounts DEF Inv, TypeOK
<1>4. DirectoryTypeOK'
  BY <1>1, <1>2, <1>3 DEF Inv, TypeOK, DirectoryTypeOK
<1>5. \A t \in Read : version'[t] = version[t]
  BY <1>1 DEF Change, Inv, TypeOK, DirectoryTypeOK, Read, Table
<1>6. ChangesAreMade'
  BY <1>1, <1>5 DEF Inv, ChangesAreMade, At, registry
<1>7. CountStands'
  BY <1>1 DEF Inv, CountStands, OltsOf, StoredOlts, At
<1> QED
  BY <1>1, <1>4, <1>6, <1>7
  DEF Inv, TypeOK, ReadsAfterChange, BootReads, AnsweredChangeInForce, At, registry

LEMMA StartInv ==
    ASSUME Inv, NEW s \in Refresher, StartRefresh(s),
           s \in Request => At(s, "refresh"), s = Timer => ~booting
    PROVE  Inv'
<1>1. /\ UNCHANGED <<directory, cache, booting, failures, answered, overtaken>>
      /\ refresh' = [refresh EXCEPT ![s] = Reading]
  BY DEF StartRefresh
<1>2. DirectoryTypeOK' /\ CountStands' /\ ChangesAreMade'
  BY <1>1, DirectoryKept
<1>3. refresh' \in [Refresher -> RefreshState]
  BY <1>1, EmptyCopy DEF Inv, TypeOK
<1>4. refresh'[s] = Reading /\ \A q \in Refresher \ {s} : refresh'[q] = refresh[q]
  BY <1>1 DEF Inv, TypeOK
<1>5. TypeOK'
  BY <1>1, <1>2, <1>3 DEF Inv, TypeOK
<1>6. ASSUME NEW q \in Request, refresh'[q].pc = "reading"
      PROVE  /\ At(q, "refresh")
             /\ \/ request[q].table \in refresh'[q].todo
                \/ refresh'[q].copy.at[request[q].table] >= request[q].made
  <2>1. CASE q = s
    BY <1>4, <2>1 DEF Inv, ChangesAreMade, Reading
  <2>2. CASE q # s
    BY <1>4, <1>6, <2>2 DEF Inv, ReadsAfterChange, Refresher
  <2> QED
    BY <2>1, <2>2
<1>7. ReadsAfterChange'
  BY <1>1, <1>6 DEF ReadsAfterChange, At, directory
<1>8. BootReads'
  <2>1. CASE s = Timer
    BY <1>1, <2>1 DEF BootReads
  <2>2. CASE s # Timer
    BY <1>1, <1>4, <2>2 DEF Inv, BootReads, At, directory, Refresher
  <2> QED
    BY <2>1, <2>2
<1> QED
  BY <1>1, <1>2, <1>5, <1>7, <1>8 DEF Inv, AnsweredChangeInForce

LEMMA ReadInv ==
    ASSUME Inv, NEW s \in Refresher, NEW t \in Read, ReadTable(s, t)
    PROVE  Inv'
<1>1. UNCHANGED <<directory, cache, booting, failures, answered, overtaken>>
  BY DEF ReadTable
<1>2. DirectoryTypeOK' /\ CountStands' /\ ChangesAreMade'
  BY <1>1, DirectoryKept
<1> DEFINE copy == refresh[s].copy
           new == refresh'[s].copy
<1>3. /\ refresh' \in [Refresher -> RefreshState]
      /\ refresh'[s].pc = "reading" /\ refresh'[s].todo = refresh[s].todo \ {t}
      /\ new.at = [copy.at EXCEPT ![t] = version[t]]
      /\ refresh[s].pc = "reading" /\ copy \in Copy
      /\ \A q \in Refresher \ {s} : refresh'[q] = refresh[q]
  BY TableRead DEF Inv
<1>4. TypeOK'
  BY <1>1, <1>2, <1>3 DEF Inv, TypeOK
<1>5. new.at[t] = version[t] /\ \A u \in Read \ {t} : new.at[u] = copy.at[u]
  BY <1>3 DEF Copy
<1> HIDE DEF new
<1>6. ASSUME NEW q \in Request, refresh'[q].pc = "reading"
      PROVE  /\ At(q, "refresh")
             /\ \/ request[q].table \in refresh'[q].todo
                \/ refresh'[q].copy.at[request[q].table] >= request[q].made
  <2>1. q \in Refresher
    BY DEF Refresher
  <2>2. CASE q = s
    <3>1. /\ At(q, "refresh")
          /\ \/ request[q].table \in refresh[q].todo
             \/ copy.at[request[q].table] >= request[q].made
      BY <1>3, <2>2 DEF Inv, ReadsAfterChange
    <3>2. request[q].table \in Read /\ request[q].made <= version[request[q].table]
      BY <3>1 DEF Inv, ChangesAreMade
    <3>3. request[q].made \in Int /\ version[request[q].table] \in Int
      BY <3>1, <3>2, DirectoryAssumption
      DEF Inv, TypeOK, DirectoryTypeOK, RequestState, Idle, At, Table, Read
    <3>4. CASE request[q].table = t
      <4>1. new.at[request[q].table] >= request[q].made
        BY <1>5, <3>2, <3>3, <3>4
      <4> QED
        BY <2>2, <3>1, <4>1 DEF new
    <3>5. CASE request[q].table # t
      <4>1. new.at[request[q].table] = copy.at[request[q].table]
        BY <1>5, <3>2, <3>5
      <4> QED
        BY <1>3, <2>2, <3>1, <3>5, <4>1 DEF new
    <3> QED
      BY <3>4, <3>5
  <2>3. CASE q # s
    BY <1>3, <1>6, <2>1, <2>3 DEF Inv, ReadsAfterChange
  <2> QED
    BY <2>2, <2>3
<1>7. ReadsAfterChange'
  BY <1>1, <1>6 DEF ReadsAfterChange, At, directory
<1>8. ASSUME booting, NEW u \in Read \ refresh'[Timer].todo, refresh'[Timer].pc = "reading"
      PROVE  refresh'[Timer].copy.at[u] >= answered[u]
  <2>1. /\ Timer \in Refresher
        /\ refresh[Timer].pc = "reading" =>
             \A v \in Read \ refresh[Timer].todo : refresh[Timer].copy.at[v] >= answered[v]
    BY <1>8 DEF Inv, BootReads, Refresher
  <2>2. CASE s # Timer
    BY <1>3, <1>8, <2>1, <2>2
  <2>3. CASE s = Timer /\ u # t
    <3>1. new.at[u] = copy.at[u] /\ u \in Read \ refresh[Timer].todo
      BY <1>3, <1>5, <1>8, <2>3
    <3> QED
      BY <1>3, <2>1, <2>3, <3>1 DEF new
  <2>4. CASE s = Timer /\ u = t
    <3>1. answered[u] <= version[u] /\ answered[u] \in Int /\ version[u] \in Int
      BY DirectoryAssumption
      DEF Inv, ChangesAreMade, TypeOK, DirectoryTypeOK, Table, Read
    <3> QED
      BY <1>5, <2>4, <3>1 DEF new
  <2> QED
    BY <2>2, <2>3, <2>4
<1>9. BootReads'
  BY <1>1, <1>8 DEF Inv, BootReads, At, directory
<1> QED
  BY <1>1, <1>2, <1>4, <1>7, <1>9 DEF Inv, AnsweredChangeInForce

\* Refresher s rests and, if it is a request's, the request is done.
LEMMA Rested ==
    ASSUME Inv, NEW s \in Refresher, refresh' = [refresh EXCEPT ![s] = Resting],
           request' = IF s = Timer THEN request ELSE [request EXCEPT ![s] = Idle],
           UNCHANGED <<olt, network, city, version>>, answered' \in [Read -> 0..MaxChanges],
           \A t \in Read : answered'[t] <= version[t],
           booting' => booting /\ answered' = answered
    PROVE  /\ refresh' \in [Refresher -> RefreshState]
           /\ DirectoryTypeOK' /\ ChangesAreMade' /\ ReadsAfterChange' /\ CountStands'
           /\ BootReads'
<1>1. refresh'[s] = Resting /\ \A q \in Refresher \ {s} : refresh'[q] = refresh[q]
  BY DEF Inv, TypeOK
<1>2. refresh' \in [Refresher -> RefreshState]
  BY RestingSlot DEF Inv, TypeOK
<1>3. \A q \in Request : request'[q] = IF q = s THEN Idle ELSE request[q]
  BY RegistryAssumption DEF Inv, TypeOK, DirectoryTypeOK, Refresher
<1>4. request' \in [Request -> RequestState]
  BY IdleSlot DEF Inv, TypeOK, DirectoryTypeOK
<1>5. DirectoryTypeOK'
  BY <1>4 DEF Inv, TypeOK, DirectoryTypeOK
<1>6. ChangesAreMade'
  BY <1>3, IdleSlot DEF Inv, ChangesAreMade, At
<1>7. CountStands'
  BY <1>3, IdleSlot DEF Inv, CountStands, OltsOf, StoredOlts, At
<1>8. ReadsAfterChange'
  BY <1>1, <1>3, RestingSlot DEF Inv, ReadsAfterChange, At, Refresher
<1>9. BootReads'
  BY <1>1, <1>3, IdleSlot, RestingSlot DEF Inv, BootReads, At, Refresher
<1> QED
  BY <1>2, <1>5, <1>6, <1>7, <1>8, <1>9

\* The copy assigned is newer than what is answered, that of s included, or
\* it has overtaken a newer one.
LEMMA AssignInv ==
    ASSUME Inv, NEW s \in Refresher, Assign(s)
    PROVE  Inv'
<1> DEFINE copy == refresh[s].copy
<1>1. /\ refresh[s].pc = "reading" /\ refresh[s].todo = {} /\ cache' = copy
      /\ overtaken' = Overtaken(copy) /\ Finish(s)
  BY DEF Assign
<1>2. copy \in Copy
  BY <1>1, UnderwaySlot DEF Inv, Underway
<1>3. /\ cache \in Copy /\ overtaken \in BOOLEAN /\ booting \in BOOLEAN
      /\ answered \in [Read -> 0..MaxChanges]
  BY DEF Inv, TypeOK
<1>4. /\ refresh' = [refresh EXCEPT ![s] = Resting] /\ booting' = (booting /\ s # Timer)
      /\ request' = IF s = Timer THEN request ELSE [request EXCEPT ![s] = Idle]
      /\ UNCHANGED <<olt, network, city, version, failures>>
  BY <1>1 DEF Finish
<1>5. \A t \in Read : /\ copy.at[t] \in Int /\ cache.at[t] \in Int
                      /\ answered[t] \in Int /\ version[t] \in Int
  BY <1>2, <1>3, DirectoryAssumption DEF Copy, Inv, TypeOK, DirectoryTypeOK, Table, Read
<1>6. /\ answered' \in [Read -> 0..MaxChanges]
      /\ \A t \in Read : answered'[t] <= version[t]
      /\ \A t \in Read : copy.at[t] >= answered[t] => copy.at[t] >= answered'[t]
  <2>1. CASE s = Timer
    <3>1. answered' = answered
      BY <1>1, <2>1 DEF Finish
    <3> QED
      BY <1>3, <3>1 DEF Inv, ChangesAreMade
  <2>2. CASE s # Timer
    <3> DEFINE table == request[s].table
               made == request[s].made
    <3>1. s \in Request
      BY <2>2 DEF Refresher
    <3>2. At(s, "refresh") /\ copy.at[table] >= made
      BY <1>1, <3>1 DEF Inv, ReadsAfterChange
    <3>3. table \in Read /\ made <= version[table]
      BY <3>1, <3>2 DEF Inv, ChangesAreMade
    <3>4. made \in 0..MaxChanges
      BY <3>1, <3>2 DEF Inv, TypeOK, DirectoryTypeOK, RequestState, Idle, At
    <3>5. made \in Int
      BY <3>4
    <3>6. answered' = [answered EXCEPT ![table] = IF made > @ THEN made ELSE @]
      BY <1>1, <2>2 DEF Finish
    <3> HIDE DEF table, made, copy
    <3>7. answered' \in [Read -> 0..MaxChanges]
      BY <1>3, <3>3, <3>4, <3>6
    <3>8. ASSUME NEW t \in Read
          PROVE  /\ answered'[t] <= version[t]
                 /\ copy.at[t] >= answered[t] => copy.at[t] >= answered'[t]
      <4>1. answered'[t] = IF t = table /\ made > answered[t] THEN made ELSE answered[t]
        BY <1>3, <3>6
      <4>2. answered[t] <= version[t]
        BY DEF Inv, ChangesAreMade
      <4> QED
        BY <1>5, <3>2, <3>3, <3>5, <4>1, <4>2
    <3> QED
      BY <3>7, <3>8
  <2> QED
    BY <2>1, <2>2
<1>7. booting => s = Timer
  <2>1. s \in Request => At(s, "refresh")
    BY <1>1 DEF Inv, ReadsAfterChange
  <2> QED
    BY <2>1 DEF Inv, BootReads, At, Refresher
<1>8. booting => \A t \in Read : copy.at[t] >= answered[t]
  BY <1>1, <1>7 DEF Inv, BootReads
<1>9. /\ refresh' \in [Refresher -> RefreshState]
      /\ DirectoryTypeOK' /\ ChangesAreMade' /\ ReadsAfterChange' /\ CountStands'
      /\ BootReads'
  BY <1>4, <1>6, <1>7, Rested
<1>10. overtaken' \in BOOLEAN /\ booting' \in BOOLEAN
  BY <1>1, <1>3, <1>4 DEF Overtaken
<1>11. TypeOK'
  BY <1>1, <1>2, <1>4, <1>6, <1>9, <1>10 DEF Inv, TypeOK
<1>12. ASSUME ~overtaken' PROVE \A t \in Read : copy.at[t] >= answered[t]
  <2>1. ~\E t \in Read : copy.at[t] < cache.at[t]
    BY <1>1, <1>12 DEF Overtaken
  <2>2. CASE \A t \in Read : copy.at[t] >= answered[t]
    BY <2>2
  <2>3. CASE ~\A t \in Read : copy.at[t] >= answered[t]
    <3>1. ~overtaken
      BY <1>1, <1>12, <2>1, <2>3 DEF Overtaken
    <3>2. \A t \in Read : cache.at[t] >= answered[t]
      BY <1>8, <2>3, <3>1 DEF Inv, AnsweredChangeInForce
    <3> QED
      BY <1>5, <2>1, <3>2
  <2> QED
    BY <2>2, <2>3
<1>13. AnsweredChangeInForce'
  BY <1>1, <1>6, <1>12 DEF AnsweredChangeInForce
<1> QED
  BY <1>9, <1>11, <1>13 DEF Inv

LEMMA RefreshFailsInv ==
    ASSUME Inv, NEW s \in Refresher, RefreshFails(s)
    PROVE  Inv'
<1>1. /\ refresh' = [refresh EXCEPT ![s] = Resting] /\ Fail
      /\ request' = IF s = Timer THEN request ELSE [request EXCEPT ![s] = Idle]
      /\ UNCHANGED <<olt, network, city, version, cache, booting, answered, overtaken>>
  BY DEF RefreshFails
<1>2. /\ answered' \in [Read -> 0..MaxChanges] /\ \A t \in Read : answered'[t] <= version[t]
      /\ booting' => booting /\ answered' = answered
  BY <1>1 DEF Inv, TypeOK, ChangesAreMade
<1>3. /\ refresh' \in [Refresher -> RefreshState]
      /\ DirectoryTypeOK' /\ ChangesAreMade' /\ ReadsAfterChange' /\ CountStands'
      /\ BootReads'
  BY <1>1, <1>2, Rested
<1>4. failures' \in 0..MaxFailures
  BY <1>1, FailCounts DEF Inv
<1>5. TypeOK'
  BY <1>1, <1>3, <1>4 DEF Inv, TypeOK
<1> QED
  BY <1>1, <1>3, <1>5 DEF Inv, AnsweredChangeInForce

LEMMA CrashInv ==
    ASSUME Inv, Crash
    PROVE  Inv'
<1>1. /\ Fail /\ cache' = Empty /\ booting' = TRUE /\ overtaken' = FALSE
      /\ refresh' = [s \in Refresher |-> IF s = Timer THEN Reading ELSE Resting]
      /\ request' = [r \in Request |-> IF At(r, "form") THEN request[r] ELSE Idle]
      /\ UNCHANGED <<olt, network, city, version, answered>>
  BY DEF Crash
<1>2. failures' \in 0..MaxFailures
  BY <1>1, FailCounts DEF Inv
<1>3. /\ request' \in [Request -> RequestState]
      /\ \A r \in Request : request'[r].pc \in {"idle", "form"}
  BY <1>1, IdleSlot DEF Inv, TypeOK, DirectoryTypeOK, At
<1>4. DirectoryTypeOK'
  BY <1>1, <1>3 DEF Inv, TypeOK, DirectoryTypeOK
<1>5. refresh' \in [Refresher -> RefreshState]
  BY <1>1, EmptyCopy, RestingSlot
<1>6. TypeOK'
  BY <1>1, <1>2, <1>4, <1>5, EmptyCopy DEF Inv, TypeOK
<1>7. ChangesAreMade' /\ CountStands'
  BY <1>1, <1>3 DEF Inv, ChangesAreMade, CountStands, At
<1>8. ReadsAfterChange'
  BY <1>1, RestingSlot, RegistryAssumption DEF ReadsAfterChange, Refresher
<1>9. refresh'[Timer] = Reading
  BY <1>1 DEF Refresher
<1>10. BootReads'
  BY <1>3, <1>9 DEF BootReads, At, Reading
<1> QED
  BY <1>1, <1>6, <1>7, <1>8, <1>10 DEF Inv, AnsweredChangeInForce

LEMMA NextInv == Inv /\ [Next]_vars => Inv'
<1> SUFFICES ASSUME Inv, [Next]_vars PROVE Inv'
  OBVIOUS
<1>1. ASSUME NEW r \in Request, Serve(r) PROVE Inv'
  BY <1>1, ServeInv
<1>2. ASSUME NEW r \in Request, RefreshAfterChange(r) PROVE Inv'
  BY <1>2, StartInv, RegistryAssumption DEF RefreshAfterChange, Refresher
<1>3. CASE ServeCity
  BY <1>3, CreateCityInv
<1>4. CASE TimerFires
  BY <1>4, StartInv, RegistryAssumption DEF TimerFires, Refresher
<1>5. ASSUME NEW s \in Refresher, Assign(s) PROVE Inv'
  BY <1>5, AssignInv
<1>6. ASSUME NEW s \in Refresher, RefreshFails(s) PROVE Inv'
  BY <1>6, RefreshFailsInv
<1>7. ASSUME NEW s \in Refresher, NEW t \in Read, ReadTable(s, t) PROVE Inv'
  BY <1>7, ReadInv
<1>8. CASE Crash
  BY <1>8, CrashInv
<1>9. CASE UNCHANGED vars
  <2>1. UNCHANGED directory /\ UNCHANGED registry
    BY <1>9 DEF vars, directory, registry
  <2>2. DirectoryTypeOK' /\ CountStands' /\ ChangesAreMade'
    BY <2>1, DirectoryKept DEF registry
  <2> QED
    BY <2>1, <2>2
    DEF Inv, TypeOK, ReadsAfterChange, BootReads, AnsweredChangeInForce, At, directory, registry
<1> QED
  BY <1>1, <1>2, <1>3, <1>4, <1>5, <1>6, <1>7, <1>8, <1>9 DEF Next

----------------------------------------------------------------------------
(* Theorems                                                                *)

\* The invariant, on which the other theorems rest.
THEOREM Invariance == Spec => []Inv
<1> QED
  BY InitInv, NextInv, PTL DEF Spec

\* Every variable keeps to its type, the bounds included.
THEOREM TypeCorrect == Spec => []TypeOK
<1>1. Inv => TypeOK
  BY DEF Inv
<1> QED
  BY Invariance, <1>1, PTL

\* What an ADMIN was told is done is what traps are judged by, until an older
\* refresh is the last to assign: registry.refresh() starts after the change.
THEOREM AnswersAreInForce == Spec => []AnsweredChangeInForce
<1>1. Inv => AnsweredChangeInForce
  BY DEF Inv
<1> QED
  BY Invariance, <1>1, PTL

\* CityService.remove() takes an OLT's city away only when the OLT was given
\* it between the count and the delete, and OltService.update() only for a null.
THEOREM CitiesKept == Spec => CityLostToNullOrRace
<1> DEFINE Lost(o) == /\ o \in StoredOlts /\ olt[o].cityId # None
                      /\ o \in StoredOlts' /\ olt'[o].cityId = None
           Why(o) == \E r \in Request :
                       \/ At(r, "delete") /\ ~At(r, "delete")' /\ request[r].raced
                       \/ PatchOlt(r, o, NullCity)
<1>1. ASSUME Inv, NEW o \in Olt, Lost(o), NEW r \in Request, RequestStep(r)
      PROVE  Why(o)
  <2>1. olt \in [Olt -> Row \cup {None, Gone}] /\ olt[o] \in Row
    BY <1>1 DEF Inv, TypeOK, DirectoryTypeOK, StoredOlts
  <2>2. olt' # olt
    BY <1>1
  <2>3. ASSUME NEW p \in Olt, NEW row, row.cityId # None \/ p # o, olt' = [olt EXCEPT ![p] = row]
        PROVE  FALSE
    BY <1>1, <2>1, <2>3
  <2>4. CASE CreateOlt(r)
    <3>1. PICK p \in Olt, row \in Row : olt[p] = None /\ olt' = [olt EXCEPT ![p] = row]
      BY <2>4 DEF CreateOlt, StoreOlt
    <3> QED
      BY <1>1, <2>3, <3>1 DEF StoredOlts
  <2>5. ASSUME NEW p \in Olt, RemoveOlt(r, p) PROVE Why(o)
    <3>1. olt' = [olt EXCEPT ![p] = Gone]
      BY <2>5 DEF RemoveOlt
    <3> QED
      BY <1>1, <2>1, <2>3, <3>1 DEF StoredOlts
  <2>6. CASE UpdateOlt(r)
    <3> DEFINE p == request[r].olt
    <3>1. PICK dto \in Edited(request[r].dto) : olt' = [olt EXCEPT ![p] = Merge(olt[p], dto)]
      BY <2>6 DEF UpdateOlt, StoreOlt
    <3>2. p \in Olt /\ olt[p] \in Row
      BY <2>1, <2>6 DEF UpdateOlt, StoredOlts
    <3>3. request[r].dto \in FormDto
      BY <1>1, <2>6 DEF UpdateOlt, Inv, TypeOK, DirectoryTypeOK, RequestState, Idle, At
    <3>4. olt[p].cityId # None => Merge(olt[p], dto).cityId # None
      BY <3>2, <3>3, EditedForm, MergedRow
    <3> QED
      BY <1>1, <2>3, <3>1, <3>2, <3>4
  <2>8. ASSUME NEW p \in Olt, NEW dto \in Body, PatchOlt(r, p, dto) PROVE Why(o)
    <3>1. olt[p] \in Row /\ olt' = [olt EXCEPT ![p] = Merge(olt[p], dto)]
      BY <2>1, <2>8 DEF PatchOlt, StoreOlt, StoredOlts
    <3>2. p = o
      BY <1>1, <2>3, <3>1
    <3>3. dto.cityId = Null
      BY <1>1, <2>1, <2>3, <3>1, <3>2, ClientBody, MergedRow
    <3>4. dto = NullCity
      BY <3>3, ClientBody
    <3> QED
      BY <2>8, <3>2, <3>4
  <2>7. CASE DeleteCity(r)
    <3>1. At(r, "delete") /\ request' = [request EXCEPT ![r] = Idle]
      BY <2>7 DEF DeleteCity, End
    <3>2. ~At(r, "delete")'
      <4>1. DOMAIN request = Request
        BY <1>1 DEF Inv, TypeOK, DirectoryTypeOK
      <4>2. request'[r] = Idle
        BY <3>1, <4>1
      <4> QED
        BY <4>2, IdleSlot DEF At
    <3>3. o \in OltsOf(request[r].city)
      BY <1>1, <2>7 DEF DeleteCity
    <3>4. request[r].raced
      <4>1. CountStands
        BY <1>1 DEF Inv
      <4> QED
        BY ONLY <3>1, <3>3, <4>1, r \in Request DEF CountStands
    <3> QED
      BY <3>1, <3>2, <3>4
  <2> QED
    BY <1>1, <2>2, <2>4, <2>5, <2>6, <2>7, <2>8
    DEF RequestStep, OpenForm, LeaveForm, CreateNetwork, RemoveNetwork, CountOlts,
        DeleteCityFails, TablesUnchanged
<1>2. ASSUME Inv, [Next]_vars, NEW o \in Olt, Lost(o)
      PROVE  Why(o)
  <2>1. ASSUME UNCHANGED olt PROVE FALSE
    BY <1>2, <2>1
  <2>2. CASE \E r \in Request : Serve(r)
    BY <1>1, <1>2, <2>2 DEF Serve
  <2> QED
    BY <1>2, <2>1, <2>2
    DEF Next, vars, RefreshAfterChange, StartRefresh, ServeCity, CreateCity, TimerFires,
        Assign, Finish, RefreshFails, ReadTable, Crash, directory
<1>3. Inv /\ [Next]_vars =>
        [\A o \in StoredOlts :
           olt[o].cityId # None /\ o \in StoredOlts' /\ olt'[o].cityId = None =>
               \E r \in Request :
                 \/ At(r, "delete") /\ ~At(r, "delete")' /\ request[r].raced
                 \/ PatchOlt(r, o, NullCity)]_vars
  BY <1>2 DEF StoredOlts
<1> QED
  BY Invariance, <1>3, PTL DEF Spec, CityLostToNullOrRace

----------------------------------------------------------------------------
(* The masks of cidr.util.ts                                               *)

LEMMA SmallModulo ==
    ASSUME NEW w \in Nat, NEW n \in Nat, n < w
    PROVE  n % w = n
OBVIOUS

\* ~0 << (32 - bits) keeps the bits of the prefix and no others, for every
\* length but 0, where the shift would be none.
LEMMA MaskIsPrefix ==
    ASSUME NEW bits \in 1..Width
    PROVE  ShiftLeft(Ones, Width - bits) = {b \in Bit : b >= Width - bits}
<1>1. Width \in Nat /\ Width >= 1
  BY WidthAssumption DEF Width
<1> DEFINE n == Width - bits
<1>2. n \in Nat /\ n < Width
  BY <1>1
<1>3. n % Width = n
  BY <1>1, <1>2, SmallModulo
<1>4. ShiftLeft(Ones, n) = {b \in Bit : b - n \in Bit}
  BY <1>3 DEF ShiftLeft, Ones
<1> QED
  BY <1>1, <1>2, <1>4 DEF Bit

\* ipMatchesCidr compares the first bits of the two addresses, as many as the
\* prefix is long, for every width and every prefix, /0 and /32 included.
THEOREM PrefixesCompared ==
    ASSUME NEW ip \in Address, NEW entry \in CidrEntry, entry.slash
    PROVE  ipMatchesCidr(ip, entry) <=>
             /\ IsNumber(entry.range)
             /\ \A b \in (Width - entry.bits)..(Width - 1) :
                  b \in ipv4ToInt(ip) <=> b \in ipv4ToInt(entry.range)
<1> DEFINE bits == entry.bits
           mask == ShiftLeft(Ones, Width - bits)
           prefix == (Width - bits)..(Width - 1)
           Same == ipv4ToInt(ip) \cap mask = ipv4ToInt(entry.range) \cap mask
           Agree == \A b \in prefix : b \in ipv4ToInt(ip) <=> b \in ipv4ToInt(entry.range)
<1>1. Width \in Nat /\ Width >= 1
  BY WidthAssumption DEF Width
<1>2. bits \in 0..Width
  BY DEF CidrEntry
<1>3. ipMatchesCidr(ip, entry) <=> IsNumber(entry.range) /\ (bits = 0 \/ Same)
  BY DEF ipMatchesCidr
<1>4. CASE bits = 0
  <2>1. prefix = {}
    BY <1>1, <1>4
  <2>2. Agree
    BY <2>1
  <2> QED
    BY <1>3, <1>4, <2>2
<1>5. CASE bits # 0
  <2>1. bits \in 1..Width
    BY <1>1, <1>2, <1>5
  <2>2. mask = {b \in Bit : b >= Width - bits}
    BY <2>1, MaskIsPrefix
  <2>3. mask = prefix
    <3>1. Bit = 0..(Width - 1)
      BY DEF Bit
    <3>2. {b \in Bit : b >= Width - bits} = prefix
      BY <1>1, <2>1, <3>1
    <3> QED
      BY <2>2, <3>2
  <2> HIDE DEF mask, prefix
  <2>4. Same <=> Agree
    BY <2>3
  <2> QED
    BY <1>3, <1>5, <2>4 DEF prefix
<1> QED
  BY <1>4, <1>5

----------------------------------------------------------------------------
(* Addresses as numbers.  The recursion of Binary is reasoned about by the *)
(* least number of digits that breaks a rule (LeastElement, Induction).    *)

\* The order of the numbers, as the set of pairs the library reasons about.
LessThan == {ss \in Nat \X Nat : ss[1] < ss[2]}

\* The order is well-founded: the library says it of its own form of the order.
LEMMA LessThanWellFounded == IsWellFoundedOn(LessThan, Nat)
<1>1. OpToRel(<, Nat) = LessThan
  BY DEF OpToRel, LessThan
<1> QED
  BY <1>1, NatLessThanWellFounded

\* A set of numbers has a least.
LEMMA LeastElement ==
    ASSUME NEW T \in SUBSET Nat, T # {}
    PROVE  \E x \in T : \A y \in T : x <= y
<1>1. IsWellFoundedOn(LessThan, Nat)
  BY LessThanWellFounded
<1>2. PICK x \in T : \A y \in T : ~(<<y, x>> \in LessThan)
  BY <1>1, WFMin
<1>3. ASSUME NEW y \in T PROVE x <= y
  <2>1. x \in Nat /\ y \in Nat
    OBVIOUS
  <2>2. <<y, x>> \in Nat \X Nat /\ <<y, x>>[1] = y /\ <<y, x>>[2] = x
    BY <2>1
  <2>3. ~(y < x)
    BY <1>2, <2>2 DEF LessThan
  <2> QED
    BY <2>1, <2>3
<1> QED
  BY <1>3

\* Induction up to L, on the set of the numbers that are good.
LEMMA Induction ==
    ASSUME NEW L \in Nat, NEW S, 0 \in S, \A n \in 1..L : n - 1 \in S => n \in S
    PROVE  \A n \in 0..L : n \in S
<1> DEFINE Bad == {n \in 0..L : n \notin S}
<1> SUFFICES ASSUME Bad # {} PROVE FALSE
  OBVIOUS
<1>1. Bad \in SUBSET Nat
  OBVIOUS
<1>2. PICK m \in Bad : \A n \in Bad : m <= n
  <2> HIDE DEF Bad
  <2> QED
    BY <1>1, LeastElement
<1>3. m \in 1..L /\ m - 1 \notin Bad /\ m - 1 \in 0..L
  BY <1>2
<1> QED
  BY <1>3

LEMMA WidthIsNat == Width \in Nat /\ Width >= 1
BY WidthAssumption DEF Width

\* One more digit doubles the number and adds the digit.
LEMMA BinaryDigits ==
    ASSUME NEW first \in Nat, NEW ones
    PROVE  LET number == Binary(first, ones) IN
           /\ number[0] = first
           /\ \A n \in 1..Width :
                number[n] = 2 * number[n - 1] + (IF Width - n \in ones THEN 1 ELSE 0)
           /\ \A n \in 0..Width : number[n] \in Nat
<1> DEFINE bit(n) == IF Width - n \in ones THEN 1 ELSE 0
           Def(f) == f = [n \in 0..Width |-> IF n = 0 THEN first
                            ELSE 2 * f[n - 1] + (IF Width - n \in ones THEN 1 ELSE 0)]
           Good(f, m) == f[0] = first /\ \A n \in 1..m : f[n] = 2 * f[n - 1] + bit(n)
           S == {m \in 0..Width : \E f \in [0..Width -> Nat] : Good(f, m)}
           number == CHOOSE f : Def(f)
<1>1. Width \in Nat
  BY WidthIsNat
<1>2. \A n \in 1..Width : bit(n) \in Nat
  OBVIOUS
<1>3. 0 \in S
  <2> DEFINE f == [n \in 0..Width |-> first]
  <2>1. f \in [0..Width -> Nat] /\ Good(f, 0)
    BY <1>1
  <2> HIDE DEF f, Good
  <2> QED
    BY <1>1, <2>1
<1>4. ASSUME NEW m \in 1..Width, m - 1 \in S PROVE m \in S
  <2>1. PICK f \in [0..Width -> Nat] : Good(f, m - 1)
    BY <1>4
  <2> DEFINE g == [f EXCEPT ![m] = 2 * f[m - 1] + bit(m)]
  <2>2. m \in 0..Width /\ m - 1 \in 0..Width /\ m # 0 /\ m # m - 1
    BY <1>1
  <2>3. 2 * f[m - 1] + bit(m) \in Nat
    BY <1>2, <2>2
  <2> HIDE DEF bit
  <2>4. g \in [0..Width -> Nat]
    BY <2>3
  <2>5. g[m] = 2 * f[m - 1] + bit(m) /\ \A n \in 0..Width : n # m => g[n] = f[n]
    BY <2>2
  <2> HIDE DEF g
  <2>6. g[0] = first
    BY <1>1, <2>1, <2>2, <2>5
  <2>7. ASSUME NEW n \in 1..m PROVE g[n] = 2 * g[n - 1] + bit(n)
    <3>1. n \in 0..Width /\ n - 1 \in 0..Width /\ n - 1 # m
      BY <1>1
    <3>2. CASE n = m
      BY <2>5, <3>1, <3>2
    <3>3. CASE n # m
      <4>1. n \in 1..(m - 1)
        BY <1>1, <3>3
      <4>2. f[n] = 2 * f[n - 1] + bit(n)
        BY <2>1, <4>1
      <4> QED
        BY <2>5, <3>1, <3>3, <4>2
    <3> QED
      BY <3>2, <3>3
  <2>8. Good(g, m)
    BY <2>6, <2>7
  <2> HIDE DEF Good
  <2> QED
    BY <2>2, <2>4, <2>8
<1>5. Width \in S
  <2>1. \A m \in 0..Width : m \in S
    <3> HIDE DEF S
    <3> QED
      BY <1>1, <1>3, <1>4, Induction
  <2> QED
    BY <1>1, <2>1
<1>6. \E f : Def(f)
  <2>1. PICK f \in [0..Width -> Nat] : Good(f, Width)
    BY <1>5
  <2> DEFINE e(n) == IF n = 0 THEN first ELSE 2 * f[n - 1] + bit(n)
  <2>2. ASSUME NEW n \in 0..Width PROVE f[n] = e(n)
    <3>1. CASE n = 0
      BY <2>1, <3>1
    <3>2. CASE n # 0
      <4>1. n \in 1..Width
        BY <1>1, <3>2
      <4> QED
        BY <2>1, <3>2, <4>1
    <3> QED
      BY <3>1, <3>2
  <2> HIDE DEF e
  <2>3. f = [n \in 0..Width |-> e(n)]
    BY <2>2
  <2>4. Def(f)
    BY <2>3 DEF e
  <2> QED
    BY <2>4
<1>7. Def(number)
  <2> HIDE DEF Def
  <2> QED
    BY <1>6
<1>8. number = Binary(first, ones)
  BY DEF Binary
<1> HIDE DEF number
<1>9. number[0] = first /\ \A n \in 1..Width : number[n] = 2 * number[n - 1] + bit(n)
  <2> DEFINE e(n) == IF n = 0 THEN first ELSE 2 * number[n - 1] + bit(n)
  <2>1. number = [n \in 0..Width |-> e(n)]
    BY <1>7
  <2> HIDE DEF e
  <2>2. \A n \in 0..Width : number[n] = e(n)
    BY ONLY <2>1
  <2> QED
    BY ONLY <1>1, <2>2 DEF e
<1>10. \A n \in 0..Width : number[n] \in Nat
  <2> DEFINE N == {n \in 0..Width : number[n] \in Nat}
  <2>1. 0 \in N
    BY <1>1, <1>9
  <2>2. ASSUME NEW n \in 1..Width, n - 1 \in N PROVE n \in N
    <3>1. number[n] = 2 * number[n - 1] + bit(n) /\ number[n - 1] \in Nat /\ bit(n) \in Nat
      BY <1>2, <1>9, <2>2
    <3> HIDE DEF bit
    <3> QED
      BY <1>1, <3>1
  <2>3. \A n \in 0..Width : n \in N
    <3> HIDE DEF N
    <3> QED
      BY <1>1, <2>1, <2>2, Induction
  <2> QED
    BY <2>3
<1> QED
  BY <1>8, <1>9, <1>10

\* Cutting off the last m digits divides by the power of two.
LEMMA Quotient ==
    ASSUME NEW ones, NEW k \in 0..Width
    PROVE  \A m \in 0..(Width - k) :
             Binary(0, ones)[k + m] \div PowerOfTwo[m] = Binary(0, ones)[k]
<1> DEFINE number == Binary(0, ones)
           power == Binary(1, {})
           S == {m \in 0..(Width - k) :
                   /\ power[m] > 0
                   /\ \E r \in Nat : r < power[m] /\ number[k + m] = number[k] * power[m] + r}
<1>1. Width \in Nat /\ k \in Nat /\ Width - k \in Nat
  BY WidthIsNat
<1>2. /\ \A n \in 1..Width :
           number[n] = 2 * number[n - 1] + (IF Width - n \in ones THEN 1 ELSE 0)
      /\ \A n \in 0..Width : number[n] \in Nat
  BY BinaryDigits
<1>3. /\ power[0] = 1 /\ \A n \in 0..Width : power[n] \in Nat
      /\ \A n \in 1..Width : power[n] = 2 * power[n - 1]
  <2>1. /\ power[0] = 1 /\ \A n \in 0..Width : power[n] \in Nat
        /\ \A n \in 1..Width : power[n] = 2 * power[n - 1] + (IF Width - n \in {} THEN 1 ELSE 0)
    BY BinaryDigits
  <2> HIDE DEF power
  <2>2. ASSUME NEW n \in 1..Width PROVE power[n] = 2 * power[n - 1]
    <3>1. power[n] = 2 * power[n - 1] + 0
      BY <2>1
    <3>2. n - 1 \in 0..Width
      BY <1>1
    <3> QED
      BY <2>1, <3>1, <3>2
  <2> QED
    BY <2>1, <2>2
<1> HIDE DEF number, power
<1>4. 0 \in S
  <2>1. number[k] \in Nat
    BY <1>2
  <2>2. number[k + 0] = number[k] * 1 + 0
    BY <1>1, <2>1
  <2> QED
    BY <1>1, <1>3, <2>2
<1>5. ASSUME NEW m \in 1..(Width - k), m - 1 \in S PROVE m \in S
  <2>1. PICK r \in Nat :
          /\ power[m - 1] > 0 /\ r < power[m - 1]
          /\ number[k + (m - 1)] = number[k] * power[m - 1] + r
    BY <1>5
  <2> DEFINE d == IF Width - (k + m) \in ones THEN 1 ELSE 0
  <2>2. k + m \in 1..Width /\ k + m - 1 = k + (m - 1) /\ m \in 1..Width /\ m - 1 \in 0..Width
    BY <1>1
  <2>3. number[k + m] = 2 * number[k + (m - 1)] + d /\ power[m] = 2 * power[m - 1]
    BY <1>2, <1>3, <2>2
  <2>4. number[k] \in Nat /\ power[m - 1] \in Nat /\ d \in {0, 1}
    BY <1>2, <1>3, <2>2
  <2> HIDE DEF d
  <2>5. number[k] * (2 * power[m - 1]) = 2 * (number[k] * power[m - 1])
    BY <2>4
  <2>6. /\ 2 * r + d \in Nat /\ 2 * r + d < power[m] /\ power[m] > 0
        /\ number[k + m] = number[k] * power[m] + (2 * r + d)
    <3> DEFINE p == number[k] * power[m - 1]
    <3>1. p \in Nat
      BY <2>4
    <3> HIDE DEF p
    <3>2. number[k + m] = 2 * (p + r) + d /\ number[k] * power[m] = 2 * p
      BY <2>1, <2>3, <2>5 DEF p
    <3> QED
      BY <2>1, <2>3, <2>4, <3>1, <3>2
  <2> QED
    BY <1>1, <2>6
<1>6. \A m \in 0..(Width - k) : m \in S
  <2> HIDE DEF S
  <2> QED
    BY <1>1, <1>4, <1>5, Induction
<1>7. ASSUME NEW x \in Nat, NEW s \in Nat, NEW r \in Nat, r < s PROVE (x * s + r) \div s = x
  BY <1>7
<1>8. ASSUME NEW m \in 0..(Width - k) PROVE number[k + m] \div power[m] = number[k]
  <2>1. PICK r \in Nat : r < power[m] /\ number[k + m] = number[k] * power[m] + r
    BY <1>6
  <2>2. power[m] \in Nat /\ number[k] \in Nat
    BY <1>1, <1>2, <1>3
  <2> QED
    BY <1>7, <2>1, <2>2
<1> QED
  BY <1>8 DEF number, power, PowerOfTwo

\* The first n digits are the same when the numbers they write are.
LEMMA SameDigits ==
    ASSUME NEW a, NEW c, NEW k \in 0..Width
    PROVE  Binary(0, a)[k] = Binary(0, c)[k] <=>
             \A b \in (Width - k)..(Width - 1) : b \in a <=> b \in c
<1> DEFINE x == Binary(0, a)
           y == Binary(0, c)
           Agree(n) == \A b \in (Width - n)..(Width - 1) : b \in a <=> b \in c
           S == {n \in 0..Width : x[n] = y[n] <=> Agree(n)}
<1>1. Width \in Nat
  BY WidthIsNat
<1>2. /\ x[0] = 0 /\ \A n \in 0..Width : x[n] \in Nat
      /\ \A n \in 1..Width : x[n] = 2 * x[n - 1] + (IF Width - n \in a THEN 1 ELSE 0)
  BY BinaryDigits
<1>3. /\ y[0] = 0 /\ \A n \in 0..Width : y[n] \in Nat
      /\ \A n \in 1..Width : y[n] = 2 * y[n - 1] + (IF Width - n \in c THEN 1 ELSE 0)
  BY BinaryDigits
<1> HIDE DEF x, y
<1>4. 0 \in S
  <2>1. Agree(0)
    BY <1>1
  <2> QED
    BY <1>1, <1>2, <1>3, <2>1
<1>5. ASSUME NEW n \in 1..Width, n - 1 \in S PROVE n \in S
  <2>1. x[n - 1] = y[n - 1] <=> Agree(n - 1)
    BY <1>5
  <2>2. n - 1 \in 0..Width /\ n \in 0..Width
    BY <1>1
  <2>3. /\ x[n] = 2 * x[n - 1] + (IF Width - n \in a THEN 1 ELSE 0)
        /\ y[n] = 2 * y[n - 1] + (IF Width - n \in c THEN 1 ELSE 0)
        /\ x[n - 1] \in Nat /\ y[n - 1] \in Nat
    BY <1>2, <1>3, <2>2
  <2>4. x[n] = y[n] <=> x[n - 1] = y[n - 1] /\ (Width - n \in a <=> Width - n \in c)
    BY <2>3
  <2>5. Agree(n) <=> Agree(n - 1) /\ (Width - n \in a <=> Width - n \in c)
    <3>1. (Width - n)..(Width - 1) = ((Width - (n - 1))..(Width - 1)) \cup {Width - n}
      BY <1>1
    <3> QED
      BY <3>1
  <2> HIDE DEF Agree
  <2> QED
    BY <2>1, <2>2, <2>4, <2>5
<1>6. \A n \in 0..Width : n \in S
  <2> HIDE DEF S
  <2> QED
    BY <1>1, <1>4, <1>5, Induction
<1> QED
  BY <1>6 DEF x, y

\* An entry lets through exactly the addresses of its block: the mask of
\* ipMatchesCidr is the block of 2^(32 - bits) addresses, for every width and
\* every prefix.
THEOREM MaskIsBlock == CidrMeansBlock
<1> SUFFICES ASSUME NEW ip \in Address, NEW cidr \in CidrEntry
             PROVE  ipMatchesCidr(ip, cidr) <=> InBlock(ip, cidr)
  BY DEF CidrMeansBlock
<1>1. CASE ~cidr.slash
  BY <1>1 DEF ipMatchesCidr, InBlock
<1>2. CASE cidr.slash
  <2> DEFINE a == ipv4ToInt(ip)
             c == ipv4ToInt(cidr.range)
             k == cidr.bits
             m == Width - cidr.bits
  <2>1. k \in 0..Width /\ m \in 0..(Width - k) /\ k + m = Width
    BY WidthIsNat DEF CidrEntry
  <2>2. ipMatchesCidr(ip, cidr) <=>
          IsNumber(cidr.range) /\ \A b \in m..(Width - 1) : b \in a <=> b \in c
    BY <1>2, PrefixesCompared
  <2>3. InBlock(ip, cidr) <=>
          /\ IsNumber(cidr.range)
          /\ Binary(0, a)[Width] \div PowerOfTwo[m] = Binary(0, c)[Width] \div PowerOfTwo[m]
    BY <1>2 DEF InBlock, Value
  <2> HIDE DEF a, c
  <2>4. /\ Binary(0, a)[k + m] \div PowerOfTwo[m] = Binary(0, a)[k]
        /\ Binary(0, c)[k + m] \div PowerOfTwo[m] = Binary(0, c)[k]
    BY <2>1, Quotient
  <2>5. Binary(0, a)[k] = Binary(0, c)[k] <=>
          \A b \in (Width - k)..(Width - 1) : b \in a <=> b \in c
    BY <2>1, SameDigits
  <2> QED
    BY <2>1, <2>2, <2>3, <2>4, <2>5
<1> QED
  BY <1>1, <1>2

\* Traps are judged by the tables that are in force: TrapSecurityService.validate
\* accepts what an OLT and a block of the tables let through, and nothing else.
THEOREM JudgedByTheTables == Spec => []JudgedByTables
<1>1. TypeOK => JudgedByTables
  <2> SUFFICES ASSUME TypeOK, InForce, NEW source \in Address, NEW community \in Community
               PROVE  Validate(source, community) = "accepted"
                        <=> TrustedByTables(source, community)
    BY DEF JudgedByTables
  <2> DEFINE Allowed == cache.networks = {} \/ \E c \in cache.networks : ipMatchesCidr(source, c)
             Known == \E o \in Sender(source) : cache.olts[o].snmpCommunity = community
  <2>1. Validate(source, community) = "accepted" <=> Allowed /\ Known
    BY DEF Validate
  <2>2. \A n \in StoredNetworks : network[n] \in CidrEntry
    BY DirectoryAssumption DEF TypeOK, DirectoryTypeOK, StoredNetworks
  <2>3. cache.networks = {network[n] : n \in StoredNetworks}
    BY DEF InForce, AllowedNetworks
  <2>4. Allowed <=> StoredNetworks = {} \/ \E m \in StoredNetworks : InBlock(source, network[m])
    BY <2>2, <2>3, MaskIsBlock DEF CidrMeansBlock
  <2>5. \A o \in StoredOlts :
          /\ o \in Olt /\ TrustedOlts[o] # None
          /\ TrustedOlts[o].ipAddress = olt[o].ipAddress
          /\ TrustedOlts[o].snmpCommunity = olt[o].snmpCommunity
    <3> SUFFICES ASSUME NEW o \in StoredOlts
                 PROVE  /\ o \in Olt /\ TrustedOlts[o] # None
                        /\ TrustedOlts[o].ipAddress = olt[o].ipAddress
                        /\ TrustedOlts[o].snmpCommunity = olt[o].snmpCommunity
      OBVIOUS
    <3> DEFINE trusted == [ipAddress |-> olt[o].ipAddress,
                           snmpCommunity |-> olt[o].snmpCommunity]
    <3>1. o \in Olt /\ olt[o] \in Row
      BY DEF StoredOlts, TypeOK, DirectoryTypeOK
    <3>2. trusted # None
      BY <3>1, RegistryAssumption DEF Row
    <3> QED
      BY <3>1, <3>2 DEF TrustedOlts
  <2>6. \A o \in Olt \ StoredOlts : TrustedOlts[o] = None
    BY DEF TrustedOlts
  <2>7. Known <=> \E o \in StoredOlts :
                    olt[o].ipAddress = source /\ olt[o].snmpCommunity = community
    BY <2>5, <2>6 DEF InForce, Sender, StoredOlts
  <2> QED
    BY <2>1, <2>4, <2>7 DEF TrustedByTables
<1> QED
  BY TypeCorrect, <1>1, PTL
=============================================================================
