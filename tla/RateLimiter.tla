----------------------------- MODULE RateLimiter -----------------------------
(***************************************************************************)
(* The per-address rate limiter the API gateway runs before it looks at the *)
(* token.  A window starts with the first request of an address and is      *)
(* thrown away by the first request after it, or by the ticker that sweeps  *)
(* the table once per window.                                              *)
(***************************************************************************)
EXTENDS Naturals, Sequences

CONSTANTS
    Address,    \* client addresses
    Limit429,   \* limit: requests admitted per window
    Window,     \* window, in ticks of the clock
    MaxTime     \* bound on the clock

\* With a limit of 0 the first request of a window would still be let through.
ASSUME LimiterAssumption == {Limit429, Window} \subseteq Nat \ {0} /\ MaxTime \in Nat

VARIABLES
    entries,    \* entries[ip]: the window that runs, or NoEntry
    now,        \* time.Now()
    ticker,     \* when the sweep's ticker fires next, and whether its channel holds a tick
    admitted    \* admitted[ip]: when requests were let through, in order (history)

limiterVars == <<entries, now, ticker, admitted>>

Time    == 0..MaxTime
NoEntry == [count |-> 0, resetAt |-> 0]

\* Type correctness of the limiter's table.
LimiterTypeOK ==
    /\ entries \in [Address -> [count : 0..(Limit429 + 1), resetAt : 0..(MaxTime + Window)]]
    /\ now \in Time /\ ticker \in [due : Nat, held : BOOLEAN]
    /\ admitted \in [Address -> Seq(Time)]

LimiterInit ==
    /\ entries  = [ip \in Address |-> NoEntry]
    /\ now      = 0
    /\ ticker   \in [due : Window..(2 * Window - 1), held : {FALSE}]
    /\ admitted = [ip \in Address |-> <<>>]

\* The address a request is counted for: what the proxies in front say, then
\* the peer.
extractIP(r) ==
    IF r.xff # <<>> THEN Head(r.xff) ELSE IF r.xri # "none" THEN r.xri ELSE r.remote

\* now.After(e.resetAt)
Expired(e) == e.count > 0 /\ now > e.resetAt

\* allow: a window that begins lets its first request through.
Admits(e) == e = NoEntry \/ Expired(e) \/ e.count < Limit429

\* The entry after allow has counted one more request of the address.
Counted(e) ==
    IF e = NoEntry \/ Expired(e) THEN [count |-> 1, resetAt |-> now + Window]
                                 ELSE [e EXCEPT !.count = @ + 1]

\* Middleware: 429, or on to the JWT middleware.
Request(r) ==
    LET ip == extractIP(r)
    IN  /\ entries[ip].count <= Limit429 \/ Expired(entries[ip])   \* bound
        /\ entries'  = [entries EXCEPT ![ip] = Counted(@)]
        /\ admitted' = [admitted EXCEPT ![ip] =
                            IF Admits(entries[ip]) THEN Append(@, now) ELSE @]
        /\ UNCHANGED <<now, ticker>>

\* What the sweep leaves of an entry.
Swept_Early(e) == IF e.count > 0 /\ now >= e.resetAt THEN NoEntry ELSE e
Swept(e) == IF Expired(e) THEN NoEntry ELSE e

\* The goroutine sweeps for the tick it finds in the channel, however late.
cleanup ==
    /\ ticker.held
    /\ entries' = [ip \in Address |-> Swept(entries[ip])]
    /\ ticker' = [ticker EXCEPT !.held = FALSE]
    /\ UNCHANGED <<now, admitted>>

\* The ticker fires every Window; the channel holds one tick, and one more is dropped.
Tick ==
    /\ now < MaxTime /\ now' = now + 1                              \* bound
    /\ ticker' = IF now' = ticker.due THEN [due |-> ticker.due + Window, held |-> TRUE]
                                      ELSE ticker
    /\ UNCHANGED <<entries, admitted>>

\* A request straight from its address, through one proxy, or through two.
Arrives ==
    \E ip \in Address :
        \/ Request([xff |-> <<>>, xri |-> "none", remote |-> ip])
        \/ \E p \in Address : \/ Request([xff |-> <<>>, xri |-> ip, remote |-> p])
                              \/ Request([xff |-> <<ip, p>>, xri |-> p, remote |-> p])

LimiterNext == Arrives \/ cleanup \/ Tick

LimiterSpec == LimiterInit /\ [][LimiterNext]_limiterVars

\* However the requests fall and whenever the sweep runs, no stretch of one
\* window's length lets an address through more than twice the limit: windows
\* start with a request, so two can touch it, but never a third.
AdmitsAtMostTwice ==
    \A ip \in Address : LET log == admitted[ip] IN
        \A i \in DOMAIN log : i + 2 * Limit429 \in DOMAIN log =>
            log[i + 2 * Limit429] > log[i] + Window
=============================================================================
