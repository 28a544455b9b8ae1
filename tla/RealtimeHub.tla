----------------------------- MODULE RealtimeHub -----------------------------
(***************************************************************************)
(* The stream of events the API gateway offers to browsers: one goroutine   *)
(* per NATS subject puts each event into the buffer of every stream that is *)
(* registered, and one goroutine per stream writes its buffer out.  Nothing *)
(* but the table of streams is locked, so a stream may end between the      *)
(* moment broadcast copies the table and the moment it sends; the send on   *)
(* the closed channel panics and takes the process with it.                 *)
(***************************************************************************)
EXTENDS Naturals, Sequences, SequencesExt

CONSTANTS
    Stream,     \* SSE requests, each opened once
    StreamRole, \* StreamRole[s]: X-User-Role of the request
    Subject,    \* subjects the hub subscribes to
    Buffer,     \* capacity of a stream's channel
    MaxEvents   \* bound on the events of a subject

ASSUME HubAssumption == Buffer \in Nat \ {0} /\ MaxEvents \in Nat

VARIABLES
    gateway,    \* "up", "stopping" after a signal, or "down"
    attached,   \* h.attached
    published,  \* published[j]: events of the subject there have been; its number names an event
    taken,      \* taken[j]: the last one its subscription has handled
    fanout,     \* fanout[j]: the event being sent and the streams left, or NoFanout
    stream,     \* stream[s]: where its handler is, its buffer, and whether it was shut down
    subs,       \* h.subs
    written,    \* written[s]: events written to the client
    from,       \* from[s]: taken when the stream registered (history)
    skipped     \* skipped[s]: events it missed because its buffer was full (history)

hubVars == <<gateway, attached, published, taken, fanout, stream, subs, written, from, skipped>>

Event    == [subject : Subject, n : 1..MaxEvents]
NoFanout == [event |-> 0, left |-> {}]
NewStream == [at |-> "new", buffer |-> <<>>, shut |-> FALSE]

ForWarehouse == {"inventory.stock_changed", "inventory.low_stock", "order.created",
                 "order.status_changed", "order.cancelled", "notification.created",
                 "analytics.aggregate_updated"}
ForLogistics == {"logistics.shipment_created", "logistics.shipment_status_changed",
                 "logistics.shipment_out_for_delivery", "logistics.shipment_delivered",
                 "logistics.shipment_attempted", "logistics.shipment_returned",
                 "logistics.shipment_redirected", "notification.created",
                 "analytics.aggregate_updated"}

roleAllows(role, j) ==
    \/ role \in {"admin", "operator"}
    \/ role = "warehouse_manager" /\ j \in ForWarehouse
    \/ role = "logistics_manager" /\ j \in ForLogistics
    \/ role = "analyst" /\ j \in {"analytics.aggregate_updated", "notification.created"}

\* Type correctness of the hub's tables.
HubTypeOK ==
    /\ gateway \in {"up", "stopping", "down"} /\ attached \in BOOLEAN
    /\ published \in [Subject -> 0..MaxEvents] /\ taken \in [Subject -> 0..MaxEvents]
    /\ \A j \in Subject : taken[j] <= published[j]
    /\ fanout \in [Subject -> [event : 0..MaxEvents, left : SUBSET Stream]]
    /\ stream \in [Stream -> [at : {"new", "open", "leaving", "gone"}, buffer : Seq(Event),
                              shut : BOOLEAN]]
    /\ \A s \in Stream : Len(stream[s].buffer) <= Buffer
    /\ subs \subseteq Stream
    /\ written \in [Stream -> Seq(Event)] /\ skipped \in [Stream -> SUBSET Event]
    /\ from \in [Stream -> [Subject -> 0..MaxEvents]]

HubInit ==
    /\ gateway   = "up"
    /\ attached  = FALSE
    /\ published = [j \in Subject |-> 0]
    /\ taken     = [j \in Subject |-> 0]
    /\ fanout    = [j \in Subject |-> NoFanout]
    /\ stream    = [s \in Stream |-> NewStream]
    /\ subs      = {}
    /\ written   = [s \in Stream |-> <<>>]
    /\ from      = [s \in Stream |-> [j \in Subject |-> 0]]
    /\ skipped   = [s \in Stream |-> {}]

\* A service publishes: core NATS keeps nothing for a subscriber that is not
\* there yet.
Publish(j) ==
    /\ published[j] < MaxEvents   \* bound
    /\ published' = [published EXCEPT ![j] = @ + 1]
    /\ taken' = IF attached /\ gateway = "up" THEN taken
                                              ELSE [taken EXCEPT ![j] = @ + 1]
    /\ UNCHANGED <<gateway, attached, fanout, stream, subs, written, from, skipped>>

\* The boot goroutine has reached NATS.  A subject whose Subscribe fails is one of
\* which no event comes.
Attach ==
    /\ gateway = "up" /\ ~attached
    /\ attached' = TRUE
    /\ UNCHANGED <<gateway, published, taken, fanout, stream, subs, written, from, skipped>>

\* broadcast, up to RUnlock: the copy of the table.
Copied(j) == {s \in subs : roleAllows(StreamRole[s], j)}

\* The goroutine of the subject takes the next message and copies the table.
onMessage(j) ==
    /\ gateway = "up" /\ attached /\ fanout[j] = NoFanout /\ taken[j] < published[j]
    /\ taken' = [taken EXCEPT ![j] = @ + 1]
    /\ fanout' = [fanout EXCEPT ![j] = IF Copied(j) = {} THEN NoFanout
                                       ELSE [event |-> taken[j] + 1, left |-> Copied(j)]]
    /\ UNCHANGED <<gateway, attached, published, stream, subs, written, from, skipped>>

\* select { case s.ch <- ev: default: }
Offered_Newest(buffer, ev) == IF Len(buffer) < Buffer THEN Append(buffer, ev)
                              ELSE Append(Tail(buffer), ev)
Offered_Unbounded(buffer, ev) == Append(buffer, ev)
Offered(buffer, ev) == IF Len(buffer) < Buffer THEN Append(buffer, ev) ELSE buffer

\* The loop over the copy goes on with another stream.
Left(f, s) == IF f.left = {s} THEN NoFanout ELSE [f EXCEPT !.left = @ \ {s}]

\* What is left of the process's memory when it ends.
Gone ==
    /\ gateway' = "down" /\ attached' = FALSE
    /\ fanout' = [j \in Subject |-> NoFanout]
    /\ subs' = {}
    /\ stream' = [s \in Stream |-> IF stream[s].at = "new" THEN NewStream
                                   ELSE [at |-> "gone", buffer |-> <<>>, shut |-> TRUE]]
    /\ taken' = published
    /\ UNCHANGED <<published, written, from, skipped>>

\* broadcast sends to one stream of its copy.
Send(j, s) ==
    LET ev == [subject |-> j, n |-> fanout[j].event]
    IN  /\ s \in fanout[j].left
        /\ ~stream[s].shut
        /\ stream' = [stream EXCEPT ![s].buffer = Offered(@, ev)]
        /\ skipped' = [skipped EXCEPT ![s] =
                           IF Len(stream[s].buffer) < Buffer THEN @ ELSE @ \cup {ev}]
        /\ fanout' = [fanout EXCEPT ![j] = Left(@, s)]
        /\ UNCHANGED <<gateway, attached, published, taken, subs, written, from>>

\* ... or finds its channel closed and panics.
SendOnClosed(j, s) ==
    /\ s \in fanout[j].left /\ stream[s].shut
    /\ Gone

\* Handle, up to the hello: 503 until the hub is attached.  (A request without a user
\* is refused before that, and changes nothing.)
Handle(s) ==
    /\ gateway # "down" /\ stream[s].at = "new" /\ attached
    /\ stream' = [stream EXCEPT ![s].at = "open"]
    /\ subs' = subs \cup {s}
    /\ from' = [from EXCEPT ![s] = taken]
    /\ UNCHANGED <<gateway, attached, published, taken, fanout, written, skipped>>

\* case ev := <-sub.ch, with ok
writeSSE(s) ==
    /\ stream[s].at = "open" /\ stream[s].buffer # <<>>
    /\ written' = [written EXCEPT ![s] = Append(@, Head(stream[s].buffer))]
    /\ stream' = [stream EXCEPT ![s].buffer = Tail(@)]
    /\ UNCHANGED <<gateway, attached, published, taken, fanout, subs, from, skipped>>

\* The client goes, or the handler sees done: the deferred function deletes it
\* from the table ...
Leave(s) ==
    /\ stream[s].at = "open"
    /\ stream' = [stream EXCEPT ![s].at = "leaving"]
    /\ subs' = subs \ {s}
    /\ UNCHANGED <<gateway, attached, published, taken, fanout, written, from, skipped>>

\* ... and then shuts it down.
shutdown(s) ==
    /\ stream[s].at = "leaving"
    /\ stream' = [stream EXCEPT ![s] = [at |-> "gone", buffer |-> <<>>, shut |-> TRUE]]
    /\ UNCHANGED <<gateway, attached, published, taken, fanout, subs, written, from, skipped>>

\* hub.Stop on a signal: unsubscribe, shut every stream down, empty the table.
Stop ==
    /\ gateway = "up"
    /\ gateway' = "stopping"
    /\ taken' = published
    /\ stream' = [s \in Stream |-> IF s \in subs THEN [stream[s] EXCEPT !.shut = TRUE]
                                   ELSE stream[s]]
    /\ subs' = {}
    /\ UNCHANGED <<attached, published, fanout, written, from, skipped>>

\* srv.Shutdown returned or gave up after its ten seconds.
Exit == gateway = "stopping" /\ Gone

\* The container is started again.
Restart ==
    /\ gateway = "down"
    /\ gateway' = "up"
    /\ UNCHANGED <<attached, published, taken, fanout, stream, subs, written, from, skipped>>

HubNext ==
    \/ Attach \/ Stop \/ Exit \/ Restart
    \/ \E j \in Subject : Publish(j) \/ onMessage(j)
    \/ \E j \in Subject, s \in Stream : Send(j, s) \/ SendOnClosed(j, s)
    \/ \E s \in Stream : Handle(s) \/ writeSSE(s) \/ Leave(s) \/ shutdown(s)

HubSpec == HubInit /\ [][HubNext]_hubVars

-----------------------------------------------------------------------------
\* What a stream has been given so far, in order.
Given(s) == written[s] \o stream[s].buffer

\* A client is given each subject's events in the order they were published,
\* and an event handled while its stream was registered is missing only
\* because the buffer was full when it came, or because it is being sent.
GapsOnlyWhenFull ==
    \A s \in Stream :
        /\ \A i, k \in DOMAIN Given(s) :
               i < k /\ Given(s)[i].subject = Given(s)[k].subject
                   => Given(s)[i].n < Given(s)[k].n
        /\ gateway = "up" /\ s \in subs => \A j \in {j \in Subject : roleAllows(StreamRole[s], j)} :
               \A n \in (from[s][j] + 1)..taken[j] :
                   \/ [subject |-> j, n |-> n] \in ToSet(Given(s)) \cup skipped[s]
                   \/ fanout[j].event = n /\ s \in fanout[j].left
=============================================================================
