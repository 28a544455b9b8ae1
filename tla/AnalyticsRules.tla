--------------------------- MODULE AnalyticsRules ---------------------------
(***************************************************************************)
(* What the analytics service computes from the rows it has read: sums,     *)
(* alarms, forecasts, reorder and rebalancing advice.  Constant-level.      *)
(* Amounts are in cents and rates in hundredths of a per cent; comparisons  *)
(* of averages and deviations are multiplied out, where the code uses       *)
(* floating point.                                                         *)
(***************************************************************************)
EXTENDS Integers, Sequences, FiniteSets, SequencesExt, FiniteSetsExt

SumOf(s) == FoldFunction(LAMBDA x, y : x + y, 0, s)

\* ROUND(x / y, n) of NUMERIC, for x >= 0 and y > 0.
Rounded(x, y) == (2 * x + y) \div (2 * y)

CeilDiv(x, y) == (x + y - 1) \div y

-----------------------------------------------------------------------------
\* Rows of analytics.sales_daily by date: the window's totals.
GetSalesSummary(rows) ==
    [orderCount   |-> SumOf([i \in DOMAIN rows |-> rows[i].orders]),
     totalRevenue |-> SumOf([i \in DOMAIN rows |-> rows[i].revenue])]

\* Rows of analytics.logistics_daily: the rate is that of the sums, not of the
\* rows' rates.
GetLogisticsPerformance(rows) ==
    LET total     == SumOf([i \in DOMAIN rows |-> rows[i].shipments])
        delivered == SumOf([i \in DOMAIN rows |-> rows[i].delivered])
    IN  [totalShipments |-> total, deliveredCount |-> delivered,
         failedCount |-> SumOf([i \in DOMAIN rows |-> rows[i].failed]),
         onTimeRate  |-> IF total > 0 THEN Rounded(10000 * delivered, total) ELSE 0]

-----------------------------------------------------------------------------
\* n times the deviation of x from the mean of the n values of s, and n^2 times
\* their variance (of the population); the code takes the root of the same difference
\* in floating point.
Number(s) == Cardinality(DOMAIN s)
Deviation(x, s) == Number(s) * x - SumOf(s)
Spread(s) == Number(s) * SumOf([i \in DOMAIN s |-> s[i] * s[i]]) - SumOf(s) * SumOf(s)

\* deviation > k * stddev in float64: where the two are equal its rounding decides,
\* and the alarm is counted.
Beyond_Variance(x, s, k) == LET d == Deviation(x, s) IN d * d >= k * Spread(s)
Beyond(x, s, k) == LET d == Deviation(x, s) IN d * d >= k * k * Spread(s)

Severity(x, s) == IF Beyond(x, s, 3) THEN "critical" ELSE "warning"

\* Days whose revenue is far from the mean, and days without orders.
detectSalesAnomalies(rows) ==
    LET r == [i \in DOMAIN rows |-> rows[i].revenue]
    IN  (IF Spread(r) > 0
         THEN {[day |-> rows[i].day, metric |-> "total_revenue", severity |-> Severity(r[i], r)] :
                  i \in {k \in DOMAIN r : Beyond(r[k], r, 2)}}
         ELSE {})
        \cup {[day |-> rows[i].day, metric |-> "total_orders", severity |-> "warning"] :
                  i \in {k \in DOMAIN rows : rows[k].orders = 0}}

\* Days whose average order value is far below the mean of those averages.
detectBusinessAnomalies(rows) ==
    LET sold == {i \in DOMAIN rows : rows[i].orders > 0}
        aov  == [i \in sold |-> rows[i].revenue \div rows[i].orders]
    IN  IF Number(aov) >= 5 /\ Spread(aov) > 0
        THEN {[day |-> rows[i].day, metric |-> "avg_order_value",
               severity |-> Severity(aov[i], aov)] :
                 i \in {k \in DOMAIN aov : Deviation(aov[k], aov) < 0 /\ Beyond(aov[k], aov, 2)}}
        ELSE {}

detectLogisticsAnomalies(rows) ==
    {[day |-> rows[i].day, metric |-> "failure_rate", severity |-> "critical"] :
        i \in {k \in DOMAIN rows : rows[k].shipments > 0
                                   /\ rows[k].failed * 100 > 20 * rows[k].shipments}}
    \cup {[day |-> rows[i].day, metric |-> "on_time_rate", severity |-> "warning"] :
        i \in {k \in DOMAIN rows : rows[k].rate > 0 /\ rows[k].rate < 8000}}

\* DetectAnomalies; analytics.inventory_snapshot has no writer in the service,
\* so the rule about low stock sees no row.
DetectAnomalies(sales, logistics) ==
    (IF Len(sales) >= 2 THEN detectSalesAnomalies(sales) ELSE {})
    \cup detectLogisticsAnomalies(logistics)
    \cup (IF Len(sales) >= 7 THEN detectBusinessAnomalies(sales) ELSE {})

-----------------------------------------------------------------------------
\* The series GetForecast works on: the value of each whole day, and today,
\* whose orders come after the midnight the query ends at.
fillMissingDays_WholeDays(values) == values
fillMissingDays(values) == Append(values, 0)

\* forecastRollingAvg, times the window it has used.
Window(h) == IF 7 > Len(h) THEN Len(h) ELSE 7
forecastRollingAvg(h) == SumOf(SubSeq(h, Len(h) - Window(h) + 1, Len(h)))

\* forecastLinear for the i-th day ahead, times the denominator: least squares
\* over x = 0, 1, ...
SumX(h)  == SumOf([i \in DOMAIN h |-> i - 1])
SumXX(h) == SumOf([i \in DOMAIN h |-> (i - 1) * (i - 1)])
SumXY(h) == SumOf([i \in DOMAIN h |-> (i - 1) * h[i]])
Denominator(h) == Len(h) * (Len(h) * SumXX(h) - SumX(h) * SumX(h))

forecastLinear(h, i) ==
    LET n == Len(h)
        slope     == n * SumXY(h) - SumX(h) * SumOf(h)   \* over Denominator / n
        intercept == SumOf(h) * (n * SumXX(h) - SumX(h) * SumX(h)) - slope * SumX(h)
        v == intercept + n * slope * (n - 1 + i)
    IN  IF v < 0 THEN 0 ELSE v

-----------------------------------------------------------------------------
\* GetReorderCandidates: rows of inventory.stock below their threshold.
GetReorderCandidates(c) == c.min > 0 /\ c.available < c.min

\* GetOptimizations, over 30 days of outbound movements and a lead time of 7.
SafetyStock(c) == CeilDiv(c.outbound * 3, 60)
ReorderPoint(c) ==
    LET p == CeilDiv(c.outbound * 7, 30) + SafetyStock(c)
    IN  IF p < c.min THEN c.min ELSE p

targetStock_Once(c) == ReorderPoint(c) + SafetyStock(c)
targetStock(c) == ReorderPoint(c) * 2 + SafetyStock(c)

RecommendedOrder(c) == Max({targetStock(c) - c.available, c.min, 1})

\* available / daily demand < days
RunsOutIn(c, days) == c.outbound > 0 /\ c.available * 30 < days * c.outbound

Urgency(c) ==
    IF c.available <= 0 \/ RunsOutIn(c, 7) THEN "critical"
    ELSE IF c.available * 2 < c.min \/ RunsOutIn(c, 14) THEN "warning" ELSE "info"

GetOptimizations(c) ==
    [point |-> ReorderPoint(c), recommended |-> RecommendedOrder(c), urgency |-> Urgency(c)]

-----------------------------------------------------------------------------
\* GetRebalancingRecommendations for one product; stock[w] is its row in
\* warehouse w, the multiplier is overstock_multiplier, the price is in cents.
Donors(stock, multiplier) ==
    {w \in DOMAIN stock : stock[w].min > 0 /\ stock[w].quantity > stock[w].min * multiplier}
Acceptors(stock) ==
    {w \in DOMAIN stock : stock[w].min > 0 /\ stock[w].quantity < stock[w].min}

Greatest0(x) == IF x > 0 THEN x ELSE 0
TransferQty_Spare(d, a) == Greatest0(d.quantity - d.min * 2)
TransferQty(d, a) == Min({Greatest0(d.quantity - d.min * 2), Greatest0(a.min * 2 - a.quantity)})

\* Savings of 0.05 % a day for 30 days, against $50 and $1.50 a unit, in
\* thousandths of a cent.
NetBenefit(qty, price) == qty * price * 15 - (5000000 + qty * 150000)

Pair(stock, d, a, price) ==
    [donor |-> d, acceptor |-> a, qty |-> TransferQty(stock[d], stock[a]),
     net |-> NetBenefit(TransferQty(stock[d], stock[a]), price), has |-> stock[d].quantity]

\* ROW_NUMBER = 1 within the acceptor; equal rows may come in any order.
Ranked(pairs) ==
    {p \in pairs : \A q \in pairs : q.acceptor = p.acceptor =>
                       p.net > q.net \/ (p.net = q.net /\ p.has >= q.has)}

GetRebalancingRecommendations(stock, multiplier, price) ==
    {p \in Ranked({p \in {Pair(stock, d, a, price) :
                            d \in Donors(stock, multiplier), a \in Acceptors(stock)} :
                     p.donor # p.acceptor /\ p.qty > 0}) : p.net > 0}
=============================================================================
