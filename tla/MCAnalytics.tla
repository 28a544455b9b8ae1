----------------------------- MODULE MCAnalytics -----------------------------
(***************************************************************************)
(* The sales rows and the alarms of the analytics service for TLC.          *)
(***************************************************************************)
EXTENDS AnalyticsDaily

AnalyticsSpec == DailyInit /\ [][EventsOf({OrderCreated})]_dailyVars
=============================================================================
