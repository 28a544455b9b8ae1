----------------------------- MODULE MCObservers -----------------------------
(***************************************************************************)
(* The services that watch, count and prod the others: the lists and        *)
(* timelines clients read, the notification service, the analytics service  *)
(* and the simulator.  They share no state here, so each behaviour plays    *)
(* one scene, the others keep their initial states, and the state spaces    *)
(* add up instead of multiplying.                                          *)
(***************************************************************************)
EXTENDS ShipmentViews, NotificationDelivery, Simulator, AnalyticsDaily, AnalyticsAdvice, TLC

SocketOf  == ("c1" :> "p1" @@ "c2" :> "p1")
SameTwice == <<"p1", "p1">>
ThreeStored == <<"s1", "s2", "s3">>
Preferences == {[inApp |-> "off", email |-> "", sms |-> "on"],
                [inApp |-> "", email |-> "off", sms |-> ""]}

VARIABLE scene

\* Of the notification service: two goroutines that push to one user's sockets,
\* one of which is pinged; preferences, with no socket open; and read marks.
Busy(gs) == \A g \in Goroutine \ gs : work'[g] = NoWork

Pushes ==
    /\ NotificationNext
    /\ UNCHANGED <<prefs, reads>>
    /\ Busy({"events.notifications.send", "h1"}) /\ pinging' \subseteq {"c1"}
    /\ \A g \in Goroutine : work'[g] # NoWork =>
           work'[g].todo = <<"p1">> /\ work'[g].type = "order_created"

Prefers ==
    /\ NotificationNext
    /\ UNCHANGED <<conns, reads>>
    /\ Busy({"events.notifications.send", "h1"}) /\ notes'["n2"] = NoNote

Reading ==
    /\ NotificationNext
    /\ UNCHANGED <<conns, prefs>>
    /\ Busy({"events.notifications.send"})

Notifies ==
    \/ scene = "pushes" /\ Pushes
    \/ scene = "preferences" /\ Prefers
    \/ scene = "reads" /\ Reading
    \/ scene = "domain" /\ NotificationNext /\ UNCHANGED <<prefs, reads, conns>>
                        /\ Busy({"order.created"})

\* Some of the simulator's actors, among others who move the rows they look at.
Acting(cast, rows) ==
    /\ SimulatorNext
    /\ \A a \in Actor \ cast : actor'[a] = actor[a]
    /\ actor' = actor => UNCHANGED rows

Simulates ==
    \/ scene = "orders"  /\ Acting({"order_spawner", "order_progressor"}, parcel)
    \/ scene = "parcels" /\ Acting({"shipment_progressor"}, order)
    \/ scene = "rest"    /\ Acting({"inventory_fluctuator", "notification_actor"},
                                   <<order, parcel>>)

Counts ==
    \/ scene = "sales"    /\ EventsOf({OrderCreated, "order.cancelled"})
    \/ scene = "shipping" /\ EventsOf(Counting \ {OrderCreated}) /\ UNCHANGED scan

ObserversInit ==
    /\ scene \in {"views", "pushes", "preferences", "reads", "domain", "orders", "parcels",
                  "rest", "sales", "shipping", "advice"}
    /\ ViewsInit /\ NotificationInit /\ SimulatorInit /\ DailyInit /\ AdviceInit
    /\ scene # "views" => asks = "walk"

ObserversNext ==
    /\ UNCHANGED scene
    /\ \/ scene = "views" /\ ViewsNext /\ UNCHANGED <<noteVars, simVars, dailyVars, question>>
       \/ Notifies /\ UNCHANGED <<viewsVars, simVars, dailyVars, question>>
       \/ Simulates /\ UNCHANGED <<viewsVars, noteVars, dailyVars, question>>
       \/ Counts /\ UNCHANGED <<viewsVars, noteVars, simVars, question>>
       \/ scene = "advice" /\ AdviceNext /\ UNCHANGED <<viewsVars, noteVars, simVars, dailyVars>>

ObserversSpec ==
    ObserversInit /\ [][ObserversNext]_<<scene, viewsVars, noteVars, simVars, dailyVars, question>>

\* Type correctness of every module's state.
ReadTypesOK ==
    ViewsTypeOK /\ NotificationTypeOK /\ SimulatorTypeOK /\ DailyTypeOK /\ AdviceTypeOK
=============================================================================
