------------------------ MODULE NotificationDelivery ------------------------
(***************************************************************************)
(* The notification service: each NATS subscription and each HTTP request   *)
(* is a goroutine that creates notifications one after the other.  Creating *)
(* one reads the user's preferences, inserts a row, writes it to the user's  *)
(* WebSocket connections and hands it to the e-mail and SMS adapters, in    *)
(* separate steps.  Nothing keeps two goroutines, or one and the pinger,     *)
(* from writing to one connection at once, which the WebSocket library      *)
(* answers with a panic or a corrupted frame.                              *)
(***************************************************************************)
EXTENDS Naturals, Sequences, FiniteSets

CONSTANTS
    Person,         \* user ids
    NoteType,       \* notification.Type
    NoteId,         \* ids of notifications.notification
    Listened,       \* subjects of Consumer.Start
    HttpRequest,    \* requests that may run at once
    Socket,         \* WebSocket connections, each opened once
    SocketUser,     \* SocketUser[c]: X-User-ID of the upgrade request
    PrefRequest,    \* bodies of PUT /notifications/preferences
    BulkUsers       \* user_ids of POST /notifications/bulk

ASSUME NotificationAssumption ==
    /\ SocketUser \in [Socket -> Person] /\ "system" \in Person
    /\ BulkUsers \in Seq(Person) /\ BulkUsers # <<>>   \* 400 without users
    /\ "none" \notin Socket \cup NoteId
    /\ PrefRequest \subseteq [inApp : {"", "on", "off"}, email : {"", "on", "off"},
                              sms : {"", "on", "off"}]

VARIABLES
    prefs,      \* notifications.notification_preference
    notes,      \* notifications.notification
    work,       \* work[g]: what a goroutine is creating, or NoWork
    reads,      \* reads[g]: the row a MarkAsRead has loaded, or "none"
    conns,      \* conns[c]: "new", "open" (in h.conns), "broken" (its peer is gone), "gone"
    pinging,    \* connections a pingPump is writing to
    pushed,     \* pushed[c]: notifications written to the connection
    cut,        \* notifications whose goroutine ended in a panic (history)
    unwanted,   \* deliveries over channels that were off all along (history)
    answered    \* answered[n]: times MarkAsRead was answered with its change (history)

noteVars == <<prefs, notes, work, reads, conns, pinging, pushed, cut, unwanted, answered>>

Goroutine == Listened \cup HttpRequest
Channel   == {"inApp", "email", "sms"}
NoPref    == [inApp |-> TRUE, email |-> TRUE, sms |-> FALSE, row |-> FALSE]
NoNote    == [status |-> "none"]
NoWork    == [at |-> "free"]

Pref == [inApp : BOOLEAN, email : BOOLEAN, sms : BOOLEAN, row : BOOLEAN]
Note == [status : {"pending", "read"}, user : Person, open : SUBSET Socket]
Work == [at : {"prefs", "insert", "push", "write", "external"}, todo : Seq(Person),
         type : NoteType, pref : Pref, off : SUBSET Channel, note : NoteId \cup {"none"},
         left : SUBSET Socket, writes : Socket \cup {"none"}]

\* Type correctness of the tables, the hub's map and the goroutines' locals.
NotificationTypeOK ==
    /\ prefs \in [Person -> [NoteType -> Pref]]
    /\ notes \in [NoteId -> Note \cup {NoNote}]
    /\ work \in [Goroutine -> Work \cup {NoWork}]
    /\ reads \in [HttpRequest -> NoteId \cup {"none"}]
    /\ conns \in [Socket -> {"new", "open", "broken", "gone"}] /\ pinging \subseteq Socket
    /\ pushed \in [Socket -> SUBSET NoteId] /\ cut \subseteq NoteId
    /\ unwanted \subseteq [user : Person, channel : Channel]
    /\ answered \in [NoteId -> Nat]

NotificationInit ==
    /\ prefs = [u \in Person |-> [t \in NoteType |-> NoPref]]
    /\ notes = [n \in NoteId |-> NoNote]
    /\ work  = [g \in Goroutine |-> NoWork]
    /\ reads = [h \in HttpRequest |-> "none"]
    /\ conns = [c \in Socket |-> "new"]
    /\ pinging  = {}
    /\ pushed   = [c \in Socket |-> {}]
    /\ cut      = {}
    /\ unwanted = {}
    /\ answered = [n \in NoteId |-> 0]

-----------------------------------------------------------------------------
\* What a domain event is turned into; all of them are addressed to "system".
TypeOf(subject) ==
    CASE subject = "order.created"                -> "order_created"
      [] subject = "order.status_changed"         -> "order_updated"
      [] subject = "order.cancelled"              -> "order_cancelled"
      [] subject = "inventory.low_stock"          -> "low_stock"
      [] subject = "logistics.shipment_created"   -> "shipment_created"
      [] OTHER                                    -> "shipment_updated"

\* What the subjects are turned into the service knows how to store.
ASSUME SubjectsAssumption ==
    \A j \in Listened \ {"events.notifications.send"} : TypeOf(j) \in NoteType

\* The channels a user has turned off.
Off(u, t) == {ch \in Channel : prefs[u][t].row /\ ~prefs[u][t][ch]}

Job(todo, t) ==
    [at |-> "prefs", todo |-> todo, type |-> t, pref |-> NoPref,
     off |-> Off(Head(todo), t), note |-> "none", left |-> {}, writes |-> "none"]

BeginJob(g, todo, t) ==
    /\ work[g] = NoWork
    /\ work' = [work EXCEPT ![g] = Job(todo, t)]
    /\ UNCHANGED <<prefs, notes, reads, conns, pinging, pushed, cut, unwanted, answered>>

\* broadcastNotification
handleDomainEvent(g) ==
    /\ g \in Listened \ {"events.notifications.send"}
    /\ BeginJob(g, <<"system">>, TypeOf(g))

handleNotificationSend(g, u, t) ==
    /\ g \in Listened /\ g = "events.notifications.send"
    /\ BeginJob(g, <<u>>, t)

\* POST /notifications and /notifications/bulk, by an administrator.
Create(g, u, t) == g \in HttpRequest /\ reads[g] = "none" /\ BeginJob(g, <<u>>, t)
Bulk(g, t)      == g \in HttpRequest /\ reads[g] = "none" /\ BeginJob(g, BulkUsers, t)

UserOf(g) == Head(work[g].todo)

\* findPreference, among the rows of the user.
findPreference_First(u, t) ==
    LET rows == {s \in NoteType : prefs[u][s].row}
    IN  IF rows = {} THEN NoPref ELSE prefs[u][CHOOSE s \in rows : TRUE]
findPreference(u, t) == IF prefs[u][t].row THEN prefs[u][t] ELSE NoPref

\* GetPreferences: when it fails the notification is delivered anyway.
GetPreferences(g) ==
    /\ work[g].at = "prefs"
    /\ \E blind \in BOOLEAN :
           LET p == IF blind THEN NoPref ELSE findPreference(UserOf(g), work[g].type)
           IN  work' = [work EXCEPT ![g].pref = p, ![g].off = IF blind THEN {} ELSE @,
                                    ![g].at = IF p.inApp THEN "insert" ELSE "external"]
    /\ UNCHANGED <<prefs, notes, reads, conns, pinging, pushed, cut, unwanted, answered>>

\* The connections of the user in h.conns.
userConns(u) == {c \in Socket : conns[c] \in {"open", "broken"} /\ SocketUser[c] = u}

\* Deliveries over a channel that was off from the event to now, by preferences
\* that could be read.
Against(g, ch) ==
    IF ch \in work[g].off THEN {[user |-> UserOf(g), channel |-> ch]} ELSE {}

InsertNotification(g, n) ==
    /\ work[g].at = "insert" /\ notes[n] = NoNote
    /\ notes' = [notes EXCEPT ![n] = [status |-> "pending", user |-> UserOf(g),
                                      open |-> userConns(UserOf(g))]]
    /\ work' = [work EXCEPT ![g].at = "push", ![g].note = n]
    /\ unwanted' = unwanted \cup Against(g, "inApp")
    /\ UNCHANGED <<prefs, reads, conns, pinging, pushed, cut, answered>>

\* What a goroutine does when a CreateNotification has returned: the bulk goes
\* on with the next user, the others are done.
Returned(g) ==
    IF Len(work[g].todo) > 1 THEN Job(Tail(work[g].todo), work[g].type) ELSE NoWork

\* The INSERT fails: 500, one more in Failed, or an event that is lost.
InsertFails(g) ==
    /\ work[g].at = "insert"
    /\ work' = [work EXCEPT ![g] = Returned(g)]
    /\ UNCHANGED <<prefs, notes, reads, conns, pinging, pushed, cut, unwanted, answered>>

\* Push copies the user's connections under the lock ...
CopyConns(g) ==
    /\ work[g].at = "push"
    /\ work' = [work EXCEPT ![g].left = userConns(UserOf(g)),
                            ![g].at = IF userConns(UserOf(g)) = {} THEN "external" ELSE "write"]
    /\ UNCHANGED <<prefs, notes, reads, conns, pinging, pushed, cut, unwanted, answered>>

Writers(c) == {g \in Goroutine : work[g] # NoWork /\ work[g].writes = c}

\* ... and writes to them one by one.
BeginWrite(g, c) ==
    /\ work[g].at = "write" /\ work[g].writes = "none" /\ c \in work[g].left
    /\ Writers(c) = {} /\ c \notin pinging
    /\ work' = [work EXCEPT ![g].writes = c]
    /\ UNCHANGED <<prefs, notes, reads, conns, pinging, pushed, cut, unwanted, answered>>

\* The loop goes on with the connections left.
Written_FirstError(w, c) ==
    IF w.left = {c} \/ conns[c] # "open" THEN [w EXCEPT !.writes = "none", !.left = {}, !.at = "external"]
    ELSE [w EXCEPT !.writes = "none", !.left = @ \ {c}]
Written(w, c) ==
    IF w.left = {c} THEN [w EXCEPT !.writes = "none", !.left = {}, !.at = "external"]
    ELSE [w EXCEPT !.writes = "none", !.left = @ \ {c}]

EndWrite(g) ==
    LET c == work[g].writes
    IN  /\ work[g].at = "write" /\ c # "none"
        /\ work' = [work EXCEPT ![g] = Written(@, c)]
        /\ IF conns[c] = "open"
           THEN /\ pushed' = [pushed EXCEPT ![c] = @ \cup {work[g].note}]
                /\ UNCHANGED conns
           ELSE /\ conns' = [conns EXCEPT ![c] = "gone"]   \* removeConn and Close
                /\ UNCHANGED pushed
        /\ UNCHANGED <<prefs, notes, reads, pinging, cut, unwanted, answered>>

\* deliverExternal
deliverExternal(g) ==
    LET p == work[g].pref
    IN  /\ work[g].at = "external"
        /\ unwanted' = unwanted \cup (IF p.email THEN Against(g, "email") ELSE {})
                                \cup (IF p.sms THEN Against(g, "sms") ELSE {})
        /\ work' = [work EXCEPT ![g] = Returned(g)]
        /\ UNCHANGED <<prefs, notes, reads, conns, pinging, pushed, cut, answered>>

-----------------------------------------------------------------------------
\* pingPump: a ping is written like any other message.
BeginPing(c) ==
    /\ conns[c] \in {"open", "broken"} /\ c \notin pinging /\ Writers(c) = {}
    /\ pinging' = pinging \cup {c}
    /\ UNCHANGED <<prefs, notes, work, reads, conns, pushed, cut, unwanted, answered>>

EndPing(c) ==
    /\ c \in pinging /\ pinging' = pinging \ {c}
    /\ UNCHANGED <<prefs, notes, work, reads, conns, pushed, cut, unwanted, answered>>

Pushing(gs) == {work[g].note : g \in {h \in gs : work[h].at \in {"push", "write"}}}

\* The process ends and is started again: connections and goroutines are gone.
RestartNotifications ==
    /\ work' = [g \in Goroutine |-> NoWork]
    /\ reads' = [h \in HttpRequest |-> "none"]
    /\ conns' = [c \in Socket |-> IF conns[c] = "new" THEN "new" ELSE "gone"]
    /\ pinging' = {}
    /\ cut' = cut \cup Pushing(Goroutine)
    /\ UNCHANGED <<prefs, notes, pushed, unwanted, answered>>

\* A second writer comes while c is being written to: the panic of a
\* subscription or of a pinger ends the process, that of an HTTP handler only
\* its request; unnoticed, the frames are mixed up and the peer hangs up.
Clash(g, c) ==
    /\ work[g].at = "write" /\ work[g].writes = "none" /\ c \in work[g].left
    /\ Writers(c) # {} \/ c \in pinging
    /\ \/ /\ g \in Listened \/ c \in pinging \/ Writers(c) \cap Listened # {}
          /\ RestartNotifications
       \/ \E h \in HttpRequest \cap (Writers(c) \cup {g}) :
             /\ work' = [work EXCEPT ![h] = NoWork]
             /\ cut' = cut \cup Pushing({h})
             /\ UNCHANGED <<prefs, notes, reads, conns, pinging, pushed, unwanted, answered>>
       \/ /\ conns' = [conns EXCEPT ![c] = IF @ = "open" THEN "broken" ELSE @]
          /\ work' = [work EXCEPT ![g].writes = c]
          /\ UNCHANGED <<prefs, notes, reads, pinging, pushed, cut, unwanted, answered>>

\* The second writer is the pinger, whose own panic ends the process.
ClashPing(c) ==
    /\ conns[c] \in {"open", "broken"} /\ c \notin pinging /\ Writers(c) # {}
    /\ \/ RestartNotifications
       \/ \E h \in HttpRequest \cap Writers(c) :
             /\ work' = [work EXCEPT ![h] = NoWork]
             /\ cut' = cut \cup Pushing({h})
             /\ UNCHANGED <<prefs, notes, reads, conns, pinging, pushed, unwanted, answered>>
       \/ /\ conns' = [conns EXCEPT ![c] = "broken"]
          /\ pinging' = pinging \cup {c}
          /\ UNCHANGED <<prefs, notes, work, reads, pushed, cut, unwanted, answered>>

\* HandleWebSocket, up to addConn.
HandleWebSocket(c) ==
    /\ conns[c] = "new" /\ conns' = [conns EXCEPT ![c] = "open"]
    /\ UNCHANGED <<prefs, notes, work, reads, pinging, pushed, cut, unwanted, answered>>

PeerLeaves(c) ==
    /\ conns[c] = "open" /\ conns' = [conns EXCEPT ![c] = "broken"]
    /\ UNCHANGED <<prefs, notes, work, reads, pinging, pushed, cut, unwanted, answered>>

\* readPump sees the error, or waits for the next pong in vain.
readPump(c) ==
    /\ conns[c] = "broken" /\ conns' = [conns EXCEPT ![c] = "gone"]
    /\ UNCHANGED <<prefs, notes, work, reads, pinging, pushed, cut, unwanted, answered>>

-----------------------------------------------------------------------------
\* Fields a request leaves out take the defaults, whatever the row had.
Filled(q) == [inApp |-> q.inApp # "off", email |-> q.email # "off", sms |-> q.sms = "on",
              row |-> TRUE]

\* PUT /notifications/preferences
UpdatePreference(u, t, q) ==
    LET on == {ch \in Channel : Filled(q)[ch]}
    IN  /\ prefs' = [prefs EXCEPT ![u][t] = Filled(q)]
        /\ work' = [g \in Goroutine |->
                       IF work[g] # NoWork /\ UserOf(g) = u /\ work[g].type = t
                       THEN [work[g] EXCEPT !.off = @ \ on] ELSE work[g]]
        /\ UNCHANGED <<notes, reads, conns, pinging, pushed, cut, unwanted, answered>>

\* PUT /notifications/{id}/read by the owner or an administrator: the row is
\* loaded, and one that is read already is answered as it is ...
MarkAsRead(h, n) ==
    /\ work[h] = NoWork /\ reads[h] = "none" /\ notes[n].status = "pending"
    /\ reads' = [reads EXCEPT ![h] = n]
    /\ UNCHANGED <<prefs, notes, work, conns, pinging, pushed, cut, unwanted, answered>>

\* ... then the row is changed if it is pending still; 404 if it is not.
StillPending(n) == notes[n].status = "pending"

UpdateRead(h) ==
    LET n == reads[h]
    IN  /\ n # "none"
        /\ IF StillPending(n)
           THEN /\ notes' = [notes EXCEPT ![n].status = "read"]
                /\ answered' = [answered EXCEPT ![n] = @ + 1]
           ELSE UNCHANGED <<notes, answered>>
        /\ reads' = [reads EXCEPT ![h] = "none"]
        /\ UNCHANGED <<prefs, work, conns, pinging, pushed, cut, unwanted>>

NotificationNext ==
    \/ \E g \in Listened : handleDomainEvent(g)
    \/ \E g \in Goroutine, u \in Person \ {"system"}, t \in NoteType :
           handleNotificationSend(g, u, t) \/ Create(g, u, t)
    \/ \E g \in Goroutine, t \in NoteType : Bulk(g, t)
    \/ \E g \in Goroutine :
           \/ GetPreferences(g) \/ InsertFails(g) \/ CopyConns(g) \/ EndWrite(g)
           \/ deliverExternal(g)
           \/ \E n \in NoteId : InsertNotification(g, n)
           \/ \E c \in Socket : BeginWrite(g, c) \/ Clash(g, c)
    \/ \E c \in Socket : BeginPing(c) \/ ClashPing(c) \/ EndPing(c) \/ HandleWebSocket(c)
                         \/ PeerLeaves(c) \/ readPump(c)
    \/ \E u \in Person \ {"system"}, t \in NoteType, q \in PrefRequest : UpdatePreference(u, t, q)
    \/ \E h \in HttpRequest, n \in NoteId : MarkAsRead(h, n)
    \/ \E h \in HttpRequest : UpdateRead(h)
    \/ RestartNotifications

NotificationSpec == NotificationInit /\ [][NotificationNext]_noteVars

-----------------------------------------------------------------------------
Rows == {n \in NoteId : notes[n] # NoNote}

\* Every connection of the user that was open when the row was inserted, and
\* still is, has been written the notification, unless the goroutine that
\* pushes it is not there yet or ended in a panic.
PushReachesOpen ==
    \A n \in Rows \ (cut \cup Pushing(Goroutine)) :
        \A c \in notes[n].open : n \in pushed[c] \/ conns[c] # "open"

\* Nothing goes over a channel the user had turned off before the event came
\* and did not turn on since, unless the preferences could not be read.
PrefRespected == unwanted = {}

\* Of all the requests that mark a notification as read, one is answered so.
ReadOnce == \A n \in NoteId : answered[n] <= 1

NotifiedAsAsked == PushReachesOpen /\ PrefRespected /\ ReadOnce
=============================================================================
