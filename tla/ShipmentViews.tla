---------------------------- MODULE ShipmentViews ----------------------------
(***************************************************************************)
(* What clients are told about shipments while handlers go on changing     *)
(* them: the timeline of one shipment, the list that the MCP tools walk     *)
(* page by page (api_get_all), their walk over the statuses under way, and  *)
(* the summary of the logistics service.  Every answer is put together from *)
(* several SELECTs without a transaction.                                  *)
(*                                                                         *)
(* The writers are single steps here: any handler of ShipmentService may    *)
(* write any status at any time.  Readers change nothing, so one request    *)
(* is followed at a time, and a behaviour has one kind of request with the  *)
(* writers of the columns it reads.                                        *)
(***************************************************************************)
EXTENDS ShipmentStatus, Naturals, FiniteSets, Sequences, SequencesExt, FiniteSetsExt

CONSTANTS
    Shipment,   \* shipment ids
    Carrier,    \* carrier ids
    Stored,     \* the shipments there are at the start, a sequence by created_at
    Target,     \* the statuses handlers write
    Moving,     \* shipments whose status they write
    Tried,      \* shipments with failed attempts
    MaxTries,   \* bound on them
    PageSize,   \* page_size of api_get_all
    MaxLimit,   \* maxLimit of the services
    HardCap,    \* hard_cap of api_get_all
    MaxGroups   \* LIMIT of the summary's groups by carrier

ASSUME ViewsAssumption ==
    /\ Stored \in Seq(Shipment) /\ IsInjective(Stored) /\ Target \subseteq Status
    /\ Moving \subseteq Shipment /\ Tried \subseteq Shipment
    /\ Carrier # {} /\ MaxTries \in Nat
    /\ MaxLimit \in Nat /\ PageSize \in 1..MaxLimit /\ HardCap \in Nat /\ MaxGroups \in Nat

VARIABLES
    row,        \* row[s]: logistics.shipment, or NoRow
    stamp,      \* stamp[s]: the row a CreateShipment is about to insert, or NoRow
    tries,      \* tries[s]: rows of delivery_attempt
    told,       \* told[s]: timeline rows RecordAttempt has written
    known,      \* logistics.carrier: the carriers that have a row
    asks,       \* the kind of request this behaviour is about
    reader,     \* the request that reads
    base,       \* the shipments it should tell of (history)
    moved       \* moved[s]: how the status of s changed since it began (history)

writers   == <<row, stamp, tries, told, known, asks>>
viewsVars == <<writers, reader, base, moved>>

Kind == {"timeline", "walk", "trip", "summary"}

NoRow  == [status |-> "none"]
Row    == [status : Status, carrier : Carrier, created : Nat, attempts : Nat]
Exists == {s \in Shipment : row[s] # NoRow}
Idle   == [kind |-> "idle"]

\* The statuses shipments_in_transit_summary asks for, in its order.
TransitList ==
    <<"created", "label_created", "awaiting_pickup", "picked_up", "in_transit",
      "at_hub", "out_for_delivery", "delivery_attempted", "held_at_office",
      "redirected">>

\* activeStatusesSQL.
ActiveStatus == ToSet(TransitList) \ {"redirected"}

\* The requests that read, with what they have read so far.
Timeline == [kind : {"timeline"}, pc : {"events", "attempts", "done"}, ship : Shipment,
             attempts : Nat, told : Nat, tries : Nat]
Walk     == [kind : {"walk"}, pc : {"count", "page", "done"}, desc : BOOLEAN,
             offset : Nat, got : Seq(Shipment)]
Trip     == [kind : {"trip"}, pc : 1..(Len(TransitList) + 1), got : SUBSET Shipment,
             failed : BOOLEAN]

\* Type correctness of the tables and of the request that reads them.
ViewsTypeOK ==
    /\ row \in [Shipment -> Row \cup {NoRow}] /\ stamp \in [Shipment -> Row \cup {NoRow}]
    /\ tries \in [Shipment -> 0..MaxTries] /\ told \in [Shipment -> 0..MaxTries]
    /\ known \subseteq Carrier
    /\ asks \in Kind /\ reader.kind \in {"idle", asks}
    /\ reader \in {Idle} \cup Timeline \cup Walk \cup Trip \/ reader.kind = "summary"
    /\ base \subseteq Shipment /\ moved \in [Shipment -> {"still", "forward", "other"}]

FirstRow(i) ==
    [status |-> "label_created", carrier |-> CHOOSE c \in Carrier : TRUE,
     created |-> i, attempts |-> 0]

ViewsInit ==
    /\ row   = [s \in Shipment |-> IF s \in ToSet(Stored)
                                   THEN FirstRow(CHOOSE i \in DOMAIN Stored : Stored[i] = s)
                                   ELSE NoRow]
    /\ stamp = [s \in Shipment |-> NoRow]
    /\ tries = [s \in Shipment |-> 0]
    /\ told  = [s \in Shipment |-> 0]
    /\ known = {CHOOSE c \in Carrier : TRUE}
    /\ asks \in Kind
    /\ reader = Idle
    /\ base   = {}
    /\ moved  = [s \in Shipment |-> "still"]

-----------------------------------------------------------------------------
(* Writers: shipments.                                                     *)

\* created_at is taken before the row is inserted; no two are equal.
Stamp(s, c) ==
    /\ row[s] = NoRow /\ stamp[s] = NoRow
    /\ c \in known                          \* GetCarrierByID; is_active is not asked
    /\ stamp' = [stamp EXCEPT ![s] = [FirstRow(0) EXCEPT !.carrier = c,
             !.created = 1 + Cardinality({t \in Shipment : row[t] # NoRow \/ stamp[t] # NoRow})]]
    /\ UNCHANGED <<row, tries, told, known, asks, reader, base, moved>>

InsertShipment(s) ==
    /\ row[s] = NoRow /\ stamp[s] # NoRow
    /\ row' = [row EXCEPT ![s] = stamp[s]]
    /\ UNCHANGED <<stamp, tries, told, known, asks, reader, base, moved>>

\* Where a status stands on the list of the walk over the statuses; 0 off it.
Station(status) ==
    IF status \in ToSet(TransitList)
    THEN CHOOSE i \in DOMAIN TransitList : TransitList[i] = status ELSE 0

Moved(s, to) ==
    CASE reader = Idle \/ Station(row[s].status) = Station(to)           -> moved[s]
      [] 0 < Station(row[s].status) /\ Station(row[s].status) < Station(to)
                                    /\ moved[s] # "other"                -> "forward"
      [] OTHER                                                           -> "other"

SetStatus(s, to) ==
    /\ s \in Exists \cap Moving /\ row[s].status # to
    /\ row' = [row EXCEPT ![s].status = to]
    /\ moved' = [moved EXCEPT ![s] = Moved(s, to)]
    /\ UNCHANGED <<stamp, tries, told, known, asks, reader, base>>

\* The counter of the row and the attempt's own row, in two transactions.
InsertAttempt_Apart(s) ==
    /\ s \in Exists \cap Tried /\ tries[s] < MaxTries
    /\ \/ row[s].attempts = tries[s] /\ row' = [row EXCEPT ![s].attempts = @ + 1] /\ UNCHANGED tries
       \/ row[s].attempts > tries[s] /\ tries' = [tries EXCEPT ![s] = @ + 1] /\ UNCHANGED row
    /\ UNCHANGED <<stamp, told, known, asks, reader, base, moved>>

\* The transaction of RecordDeliveryAttempt.
InsertAttempt(s) ==
    /\ s \in Exists \cap Tried /\ tries[s] < MaxTries
    /\ tries' = [tries EXCEPT ![s] = @ + 1]
    /\ row'   = [row EXCEPT ![s].attempts = @ + 1]
    /\ UNCHANGED <<stamp, told, known, asks, reader, base, moved>>

\* The timeline row of an attempt comes after it, or never.  (Rows of that type that
\* are posted to /events by hand are not counted.)
TellAttempt(s) ==
    /\ told[s] < tries[s]
    /\ told' = [told EXCEPT ![s] = @ + 1]
    /\ UNCHANGED <<row, stamp, tries, known, asks, reader, base, moved>>

-----------------------------------------------------------------------------
(* Writers: carriers.                                                      *)

CreateCarrier(c) ==
    /\ known' = known \cup {c}
    /\ UNCHANGED <<row, stamp, tries, told, asks, reader, base, moved>>

\* What ReassignCarrierByCity touches if the request names no statuses.
ReassignStatus ==
    {"created", "label_created", "awaiting_pickup", "picked_up", "in_transit", "at_hub"}

Candidates(from) == {s \in Exists : row[s].carrier = from /\ row[s].status \in ReassignStatus}

\* One UPDATE; the carrier must exist (foreign key), active or not.
ReassignCarrier(from, to) ==
    /\ from # to /\ to \in known /\ Candidates(from) # {}
    /\ row' = [s \in Shipment |->
                  IF s \in Candidates(from) THEN [row[s] EXCEPT !.carrier = to] ELSE row[s]]
    /\ UNCHANGED <<stamp, tries, told, known, asks, reader, base, moved>>

-----------------------------------------------------------------------------
(* Readers.                                                                *)

Begin(request, about) ==
    /\ reader = Idle /\ asks = request.kind
    /\ reader' = request
    /\ base' = about
    /\ UNCHANGED <<writers, moved>>

Reads(request) ==
    /\ reader' = request
    /\ UNCHANGED <<writers, base, moved>>

\* The client has its answer, or the error of a statement.
Finish ==
    /\ reader # Idle
    /\ reader' = Idle /\ base' = {} /\ moved' = [s \in Shipment |-> "still"]
    /\ UNCHANGED writers

\* GetTimeline, also by tracking number and with masked names for the public.
GetTimeline(s) ==
    /\ s \in Exists
    /\ Begin([kind |-> "timeline", pc |-> "events", ship |-> s, attempts |-> row[s].attempts,
              told |-> 0, tries |-> 0], {s})

\* The attempts are listed before the events.
ReadEvents_Last ==
    /\ reader.kind = "timeline" /\ reader.pc \in {"events", "attempts"}
    /\ Reads(IF reader.pc = "events"
             THEN [reader EXCEPT !.pc = "attempts", !.tries = tries[reader.ship]]
             ELSE [reader EXCEPT !.pc = "done", !.told = told[reader.ship]])

ReadEvents ==
    /\ reader.kind = "timeline" /\ reader.pc = "events"
    /\ Reads([reader EXCEPT !.pc = "attempts", !.told = told[reader.ship]])

GetDeliveryAttempts ==
    /\ reader.kind = "timeline" /\ reader.pc = "attempts"
    /\ Reads([reader EXCEPT !.pc = "done", !.tries = tries[reader.ship]])

\* PageFromRequest: the limit a request asks for, cut to what the service gives.
Limit_Strict(asked) == IF asked >= MaxLimit THEN MaxLimit - 1 ELSE asked
Limit(asked) == IF asked > MaxLimit THEN MaxLimit ELSE asked

\* ORDER BY created_at, ascending or descending.
Before(s, t, desc) ==
    IF desc THEN row[s].created > row[t].created ELSE row[s].created < row[t].created

Listed(desc) ==
    CHOOSE q \in SetToSeqs(Exists) :
        \A i, j \in DOMAIN q : i < j => Before(q[i], q[j], desc)

\* api_get_all on GET /shipments.
ApiGetAll(desc) ==
    Begin([kind |-> "walk", pc |-> "count", desc |-> desc, offset |-> 0, got |-> <<>>], Exists)

\* The first statement of ListShipments; without rows the second is not run.
CountShipments ==
    /\ reader.kind = "walk" /\ reader.pc = "count"
    /\ Reads([reader EXCEPT !.pc = IF Exists = {} THEN "done" ELSE "page"])

\* The page, and what the walk makes of it: a short page is the last one.
ListShipments ==
    /\ reader.kind = "walk" /\ reader.pc = "page"
    /\ LET limit == Limit(PageSize)
           data  == SubSeq(Listed(reader.desc), reader.offset + 1,
                           Min({reader.offset + limit, Cardinality(Exists)}))
           got   == reader.got \o data
           last  == Len(data) < PageSize \/ Len(got) >= HardCap
       IN  Reads([reader EXCEPT !.got = got, !.pc = IF last THEN "done" ELSE "count",
                                !.offset = IF last THEN @ ELSE @ + PageSize])

\* shipments_in_transit_summary: one status after the other.
InTransitTool ==
    Begin([kind |-> "trip", pc |-> 1, got |-> {}, failed |-> FALSE],
          {s \in Exists : Station(row[s].status) > 0})

\* The statuses are asked for in an order of their own.
TripStatus_Backward ==
    /\ reader.kind = "trip" /\ reader.pc <= Len(TransitList)
    /\ Reads([reader EXCEPT !.pc = @ + 1,
          !.got = @ \cup {s \in Exists : row[s].status = Reverse(TransitList)[reader.pc]}])

\* A status whose request fails is left out.  One page holds it.
TripStatus ==
    /\ reader.kind = "trip" /\ reader.pc <= Len(TransitList)
    /\ \/ Reads([reader EXCEPT !.pc = @ + 1,
                     !.got = @ \cup {s \in Exists : row[s].status = TransitList[reader.pc]}])
       \/ Reads([reader EXCEPT !.pc = @ + 1, !.failed = TRUE])

\* InTransitSummary of the service: the total, then the groups by status and carrier.
\* Those by hub, and what is estimated for today, are left out.
Active == {s \in Exists : row[s].status \in ActiveStatus}

InTransitSummary ==
    Begin([kind |-> "summary", pc |-> "status", total |-> Cardinality(Active),
           byStatus |-> 0, byCarrier |-> 0, groups |-> 0], Exists)

Total(counts) == FoldSet(LAMBDA x, n : counts[x] + n, 0, DOMAIN counts)

\* The groups count what the list of the tool counts.
GroupByStatus_Tool ==
    /\ reader.kind = "summary" /\ reader.pc = "status"
    /\ Reads([reader EXCEPT !.pc = "carrier", !.byStatus = Total([x \in ToSet(TransitList) |->
                 Cardinality({s \in Exists : row[s].status = x})])])

\* Of the groups the sum of their counts is kept.
GroupByStatus ==
    /\ reader.kind = "summary" /\ reader.pc = "status"
    /\ Reads([reader EXCEPT !.pc = "carrier", !.byStatus = Total([x \in ActiveStatus |->
                 Cardinality({s \in Active : row[s].status = x})])])

\* Carriers by COUNT(*) DESC, equal ones in any order, up to the LIMIT.
OfCarrier(c) == Cardinality({s \in Active : row[s].carrier = c})

GroupByCarrier ==
    /\ reader.kind = "summary" /\ reader.pc = "carrier"
    /\ LET carriers == {row[s].carrier : s \in Active}
       IN  \E top \in SUBSET carriers :
               /\ Cardinality(top) = Min({MaxGroups, Cardinality(carriers)})
               /\ \A c \in top, d \in carriers \ top : OfCarrier(c) >= OfCarrier(d)
               /\ Reads([reader EXCEPT !.pc = "done", !.groups = Cardinality(top),
                             !.byCarrier = Total([c \in top |-> OfCarrier(c)])])

-----------------------------------------------------------------------------
Write ==
    \/ /\ asks = "timeline"
       /\ \E s \in Shipment : InsertAttempt(s) \/ TellAttempt(s)
    \/ /\ asks = "walk"
       /\ \E s \in Shipment : InsertShipment(s) \/ \E c \in Carrier : Stamp(s, c)
    \/ /\ asks \in {"trip", "summary"}
       /\ \E s \in Shipment, to \in Target : SetStatus(s, to)
    \/ /\ asks = "summary"
       /\ \E c \in Carrier : CreateCarrier(c) \/ \E to \in Carrier : ReassignCarrier(c, to)

Read ==
    \/ \E s \in Shipment : GetTimeline(s)
    \/ ReadEvents \/ GetDeliveryAttempts
    \/ \E desc \in BOOLEAN : ApiGetAll(desc)
    \/ CountShipments \/ ListShipments
    \/ InTransitTool \/ TripStatus
    \/ InTransitSummary \/ GroupByStatus \/ GroupByCarrier
    \/ Finish

ViewsNext == Write \/ Read

ViewsSpec == ViewsInit /\ [][ViewsNext]_viewsVars

-----------------------------------------------------------------------------
(* Properties.                                                             *)

\* GetTimeline reads the row, the events and the attempts one after the other:
\* whatever is recorded in between, an attempt that the row counts or the
\* timeline mentions is among the attempts of the same answer.
TimelineConsistent ==
    reader.kind = "timeline" /\ reader.pc = "done" =>
        reader.attempts <= reader.tries /\ reader.told <= reader.tries

\* api_get_all: rows inserted during the walk, even with an older created_at,
\* may repeat a shipment but never hide one that was there from the start.
WalkMissesNothing ==
    reader.kind = "walk" /\ reader.pc = "done" /\ Len(reader.got) < HardCap =>
        base \subseteq ToSet(reader.got)

\* shipments_in_transit_summary of the tools: a shipment that was under way and
\* since then only moved on along the tool's list is found, at whatever moments
\* its statuses are read.
TransitFindsForward ==
    reader.kind = "trip" /\ reader.pc > Len(TransitList) /\ ~reader.failed =>
        \A s \in base : moved[s] # "other" => s \in reader.got

\* InTransitSummary of the service: while no status changes, the groups of its
\* answer add up to its total, whatever is reassigned in between; those by
\* carrier when they are fewer than the LIMIT, or there are no more carriers
\* than that, and otherwise never to more than the total.
SummaryAddsUp ==
    reader.kind = "summary" /\ reader.pc = "done"
        /\ (\A s \in base : moved[s] = "still") =>
    /\ reader.byStatus = reader.total /\ reader.byCarrier <= reader.total
    /\ reader.groups < MaxGroups \/ Cardinality(known) <= MaxGroups
           => reader.byCarrier = reader.total

\* The two walks of the tools, over pages and over statuses, miss nothing.
ListsMissNothing == WalkMissesNothing /\ TransitFindsForward
=============================================================================
