----------------------------- MODULE ChatBudget -----------------------------
(***************************************************************************)
(* The turns of the chats one user has open with the assistant (mcp-host):  *)
(* rounds of the language model, each checked against the token budget      *)
(* before and counted after, and each tool call judged by the loop guard.   *)
(* The session is the user, so chats share the counters and the window, in   *)
(* Redis, or in the process while Redis fails.  Histories, plans and the     *)
(* tools themselves (ToolCalls) are left out; a round calls one tool.        *)
(***************************************************************************)
EXTENDS Naturals, Sequences, FiniteSets

CONSTANTS
    Talk,           \* WebSocket connections of the user
    Called,         \* tools
    SessionCap,     \* tokens for a session
    HourCap,        \* tokens for a user in an hour
    RoundTokens,    \* bound on the tokens of a round
    Rounds,         \* MAX_TOOL_ROUNDS
    Recent,         \* WINDOW of the loop guard
    LoopAt,         \* THRESHOLD of the loop guard
    Turns,          \* bound on the turns of a chat
    Outages         \* bound on the failures of Redis

ASSUME BudgetAssumption == Rounds \in Nat \ {0} /\ Recent \in Nat \ {0}
ASSUME CapAssumption    == {SessionCap, HourCap} \subseteq Nat /\ RoundTokens \in Nat \ {0}
ASSUME TalkAssumption   == Talk # {} /\ IsFiniteSet(Talk) /\ {Turns, Outages} \subseteq Nat

VARIABLES
    used,       \* used[k]: tokens counted in Redis (budget:session, budget:user:hour)
    spare,      \* spare[k]: _fallback, what the process counted while Redis failed
    recent,     \* loopguard: the tools of the latest calls
    turn,       \* turn[c]: what the turn of c does next, its round, the turns so far,
                \* and the tokens add_usage has yet to count for the hour
    outages     \* failures of Redis so far

budgetVars == <<used, spare, recent, turn, outages>>

Counter == {"session", "hour"}

\* Type correctness of the counters, the window and the turns.
BudgetTypeOK ==
    /\ used \in [Counter -> Nat] /\ spare \in [Counter -> Nat]
    /\ recent \in Seq(Called) /\ Len(recent) <= Recent
    /\ turn \in [Talk -> [next  : {"listen", "check", "hour", "model", "count", "guard", "tool"},
                          round : 0..Rounds, turns : 0..Turns, tokens : 0..RoundTokens]]
    /\ outages \in 0..Outages

BudgetInit ==
    /\ used = [k \in Counter |-> 0] /\ spare = [k \in Counter |-> 0]
    /\ recent = <<>>
    /\ turn = [c \in Talk |-> [next |-> "listen", round |-> 0, turns |-> 0, tokens |-> 0]]
    /\ outages = 0

Goes(c, label) == turn' = [turn EXCEPT ![c].next = label]
Quits(c) == turn' = [turn EXCEPT ![c].next = "listen", ![c].round = 0, ![c].tokens = 0]

\* After the last round comes the summary, which is neither checked nor counted.
NextRound(c) ==
    IF turn[c].round = Rounds THEN Quits(c)
    ELSE turn' = [turn EXCEPT ![c].next = "check", ![c].round = @ + 1]

Outage == outages < Outages /\ outages' = outages + 1       \* bound

\* websocket_chat receives a message.
Ask(c) ==
    /\ turn[c].next = "listen" /\ turn[c].turns < Turns
    /\ turn' = [turn EXCEPT ![c].next = "check", ![c].round = 1, ![c].turns = @ + 1]
    /\ UNCHANGED <<used, spare, recent, outages>>

\* It receives /clear.  The counter of the hour stays.
Clear(c) ==
    /\ turn[c].next = "listen"
    /\ \/ used' = [used EXCEPT !.session = 0] /\ UNCHANGED outages
       \/ Outage /\ UNCHANGED used
    /\ spare' = [spare EXCEPT !.session = 0]
    /\ recent' = <<>>
    /\ UNCHANGED turn

Cap(k) == IF k = "session" THEN SessionCap ELSE HourCap

\* The check at the first round of a turn only.
Exceeded_FirstRound(c, k, n) == turn[c].round = 1 /\ n >= Cap(k)

\* What get_status says of a counter that reads n.
Exceeded(c, k, n) == n >= Cap(k)

Judge(c, k, n) ==
    IF Exceeded(c, k, n) THEN Quits(c) ELSE Goes(c, IF k = "session" THEN "hour" ELSE "model")

\* The counters are read one after the other, the session's first: each from
\* Redis, or in the process where that fails.  After a session over its cap, what
\* the second says decides nothing, and that read is left out.
CheckBudget(c, k) ==
    /\ turn[c].next = IF k = "session" THEN "check" ELSE "hour"
    /\ \/ Judge(c, k, used[k]) /\ UNCHANGED outages
       \/ Judge(c, k, spare[k]) /\ Outage
    /\ UNCHANGED <<used, spare, recent>>

\* _incr adds tokens in Redis, in the process where that fails, and in both where
\* only setting the time to live failed.
Count(k, n) ==
    LET added(s) == [s EXCEPT ![k] = @ + n]
    IN  \/ used' = added(used) /\ UNCHANGED <<spare, outages>>
        \/ used' \in {used, added(used)} /\ spare' = added(spare) /\ Outage

\* The model answers, and add_usage counts the tokens for the session (none for an
\* answer that does not say how many it took) ...
Generate(c) ==
    /\ turn[c].next = "model"
    /\ \E n \in 0..RoundTokens :
          /\ Count("session", n)
          /\ turn' = [turn EXCEPT ![c].next = "count", ![c].tokens = n]
    /\ UNCHANGED recent

\* ... then for the hour.  The answer was a text, or a tool call.
CountHour(c) ==
    /\ turn[c].next = "count"
    /\ Count("hour", turn[c].tokens)
    /\ Quits(c) \/ turn' = [turn EXCEPT ![c].next = "guard", ![c].tokens = 0]
    /\ UNCHANGED recent

\* The turn ends early: no model is available, or the connection is gone when the
\* turn next has something to tell it.
Breaks(c) ==
    /\ turn[c].next \in {"check", "model", "guard"}
    /\ Quits(c)
    /\ UNCHANGED <<used, spare, recent, outages>>

\* A tool the role may not use is not called, nor seen by the guard.
Forbidden(c) ==
    /\ turn[c].next = "guard"
    /\ NextRound(c)
    /\ UNCHANGED <<used, spare, recent, outages>>

\* LoopGuard.check counts the call, then judges it.
GuardLoop(c, t) ==
    LET window == IF Len(recent) < Recent THEN Append(recent, t) ELSE Append(Tail(recent), t)
    IN  /\ turn[c].next = "guard"
        /\ recent' = window
        /\ IF Len(SelectSeq(window, LAMBDA u : u = t)) >= LoopAt
           THEN NextRound(c) ELSE Goes(c, "tool")
        /\ UNCHANGED <<used, spare, outages>>

\* call_tool has returned, with an answer or an error.
ToolDone(c) ==
    /\ turn[c].next = "tool"
    /\ NextRound(c)
    /\ UNCHANGED <<used, spare, recent, outages>>

\* The time to live of a counter is over.
ExpireCount ==
    /\ \E k \in Counter : used[k] # 0 /\ used' = [used EXCEPT ![k] = 0]
    /\ UNCHANGED <<spare, recent, turn, outages>>

\* The host restarts: its own counters and its turns are gone, Redis stays.
RestartChats ==
    /\ spare' = [k \in Counter |-> 0]
    /\ turn' = [c \in Talk |-> [turn[c] EXCEPT !.next = "listen", !.round = 0, !.tokens = 0]]
    /\ UNCHANGED <<used, recent, outages>>

BudgetNext ==
    \/ \E c \in Talk :
          \/ Ask(c) \/ Clear(c) \/ (\E k \in Counter : CheckBudget(c, k))
          \/ Generate(c) \/ CountHour(c) \/ Breaks(c)
          \/ Forbidden(c) \/ (\E t \in Called : GuardLoop(c, t)) \/ ToolDone(c)
    \/ ExpireCount \/ RestartChats

BudgetSpec == BudgetInit /\ [][BudgetNext]_budgetVars

\* The budget is read before a round and counted after it, by chats that do not
\* wait for each other: what is counted passes a cap by less than one round per
\* chat and per failure of Redis, and /clear does not lift the cap of the hour.
BudgetBound ==
    LET over == (Cardinality(Talk) + outages) * RoundTokens
    IN  used.session < SessionCap + over /\ used.hour < HourCap + over
=============================================================================
