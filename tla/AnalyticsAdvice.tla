--------------------------- MODULE AnalyticsAdvice ---------------------------
(***************************************************************************)
(* Questions put to the analytics service whose answers are computed from   *)
(* one read: each behaviour asks one of them.                              *)
(***************************************************************************)
EXTENDS AnalyticsRules

CONSTANTS
    Revenues,   \* what a day may have earned
    MaxDays,    \* longest window of any such days asked about
    MaxLong,    \* longest window of the least and the most they may have earned
    Demands,    \* values of a steady series
    MaxHistory, \* longest history_days of a forecast (365)
    MaxHorizon, \* longest horizon_days of a forecast (90)
    Quantities, \* quantities on hand
    Minimums,   \* min_threshold of a stock row
    Warehouse,  \* warehouses that may hold the product
    Prices,     \* unit prices
    Multipliers, \* overstock_multiplier
    MaxOutbound \* units that may have left in 30 days

ASSUME AdviceAssumption ==
    /\ MaxDays \in Nat /\ MaxLong \in Nat /\ MaxOutbound \in Nat
    /\ MaxHistory \in Nat /\ MaxHorizon \in Nat
    /\ Quantities \subseteq Int /\ Minimums \subseteq Int
    /\ Revenues \subseteq Nat /\ Demands \subseteq Nat \ {0}

VARIABLE question   \* the request, or NoQuestion

NoQuestion == [kind |-> "none"]

\* A day that earned nothing had no order, any other had one.
Days(revenues) ==
    [i \in DOMAIN revenues |-> [day |-> i, orders |-> IF revenues[i] = 0 THEN 0 ELSE 1,
                                revenue |-> revenues[i]]]

Extremes == {r \in Revenues : (\A x \in Revenues : r <= x) \/ (\A x \in Revenues : x <= r)}

Windows == (UNION {[1..n -> Revenues] : n \in 2..MaxDays})
           \cup (UNION {[1..n -> Extremes] : n \in (MaxDays + 1)..MaxLong})

AdviceInit == question = NoQuestion

\* GET /analytics/anomalies, /forecast, /optimization and /rebalancing
AskAnomalies ==
    \E w \in Windows : question' = [kind |-> "anomalies", revenues |-> w]
AskForecast ==
    \E v \in Demands, n \in 7..MaxHistory, i \in 1..MaxHorizon :
        question' = [kind |-> "forecast", steady |-> v, days |-> n, ahead |-> i]
AskReorder ==
    \E q \in Quantities, m \in Minimums, out \in 0..MaxOutbound :
        LET c == [available |-> q, min |-> m, outbound |-> out]
        IN  GetReorderCandidates(c) /\ question' = [kind |-> "reorder", row |-> c]
AskRebalancing ==
    \E stock \in [Warehouse -> [quantity : Quantities, min : Minimums]],
       m \in Multipliers, price \in Prices :
        question' = [kind |-> "rebalancing", stock |-> stock, multiplier |-> m, price |-> price]

AdviceNext ==
    /\ question = NoQuestion
    /\ AskAnomalies \/ AskForecast \/ AskReorder \/ AskRebalancing

AdviceSpec == AdviceInit /\ [][AdviceNext]_question

\* The question is one of those the service answers.
AdviceTypeOK == question.kind \in {"none", "anomalies", "forecast", "reorder", "rebalancing"}

-----------------------------------------------------------------------------
\* Deviations are measured in the standard deviation of the very days they are
\* looked for among, the outlier included: fewer than 5 days cannot show one
\* beyond two of it, nor fewer than 10 one beyond three, whatever they earned.
AlarmsNeedDays ==
    question.kind = "anomalies" =>
        LET days   == Days(question.revenues)
            sold   == Cardinality({i \in DOMAIN days : days[i].orders > 0})
        IN  \A a \in DetectAnomalies(days, <<>>) :
                /\ a.metric = "total_revenue" => Len(days) >= 5
                /\ a.severity = "critical" =>
                       (IF a.metric = "avg_order_value" THEN sold ELSE Len(days)) >= 10

\* The series of a steady demand, v on each of the last whole days.
Steady(n, v) == fillMissingDays([i \in 1..n |-> v])

\* The part of a day that has passed counts as a day without demand: a steady
\* demand is forecast too low, by a seventh, and by the straight line lower the
\* further ahead.
ForecastLags ==
    question.kind = "forecast" =>
        LET v == question.steady
            h == Steady(question.days, v)
        IN  /\ forecastRollingAvg(h) = 6 * v
            /\ forecastLinear(h, question.ahead) < Denominator(h) * v
            /\ forecastLinear(h, question.ahead + 1) <= forecastLinear(h, question.ahead)

\* An order of the recommended size that arrives after the lead time, in which
\* the usual demand went out, brings the stock back to the reorder point; and
\* what runs out before it arrives is critical.
ReorderLasts ==
    question.kind = "reorder" =>
        LET c == question.row
            advice == GetOptimizations(c)
        IN  /\ c.available - CeilDiv(c.outbound * 7, 30) + advice.recommended >= advice.point
            /\ RunsOutIn(c, 7) => advice.urgency = "critical"

\* The stock after one recommendation has been carried out.
Transferred(stock, p) ==
    [stock EXCEPT ![p.donor].quantity = @ - p.qty, ![p.acceptor].quantity = @ + p.qty]

\* Carrying out a recommendation makes its donor no acceptor, and nothing is
\* ever recommended back, for any overstock multiplier.
NothingSentBack ==
    question.kind = "rebalancing" =>
        \A p \in GetRebalancingRecommendations(question.stock, question.multiplier,
                                               question.price) :
            LET after == Transferred(question.stock, p)
            IN  /\ p.donor \notin Acceptors(after)
                /\ \A q \in GetRebalancingRecommendations(after, question.multiplier,
                                                          question.price) :
                       q.donor # p.acceptor

AdviceHolds == ForecastLags /\ ReorderLasts /\ NothingSentBack
=============================================================================
