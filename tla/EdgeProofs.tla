----------------------------- MODULE EdgeProofs -----------------------------
(***************************************************************************)
(* Proofs about what stands between the clients and the services, for every *)
(* value of the constants: the gateway's limiter and stream (RateLimiter,   *)
(* RealtimeHub), the user service (UserAccounts, PasswordResets), the       *)
(* assistant's tool answers and budget (ToolCalls, ChatBudget), and all of  *)
(* them side by side (MCEdge).                                             *)
(***************************************************************************)
EXTENDS MCEdge, FiniteSetTheorems, SequenceTheorems, TLAPS

-----------------------------------------------------------------------------
(* The rate limiter.                                                       *)

WindowEntry == [count : 0..(Limit429 + 1), resetAt : 0..(MaxTime + Window)]

\* Requests the running window has let through.
Passed(e) == IF e.count <= Limit429 THEN e.count ELSE Limit429

\* Without a window, what an address was let through lies behind, and all but the
\* last window's requests more than a window behind.
IdleLog(ip) ==
    \A i \in DOMAIN admitted[ip] :
        /\ admitted[ip][i] < now
        /\ i + Limit429 <= Len(admitted[ip]) => admitted[ip][i] + Window < now

\* A window that runs has let Passed requests through; those before it came before
\* it began, and all but the last window's of those more than a window before.
RunningLog(ip) ==
    /\ entries[ip].resetAt <= now + Window
    /\ \A i \in DOMAIN admitted[ip] :
          /\ admitted[ip][i] <= entries[ip].resetAt
          /\ i + Passed(entries[ip]) <= Len(admitted[ip]) =>
                 admitted[ip][i] + Window < entries[ip].resetAt
          /\ i + Passed(entries[ip]) + Limit429 <= Len(admitted[ip]) =>
                 admitted[ip][i] + 2 * Window < entries[ip].resetAt

LogHolds(ip) ==
    /\ entries[ip].count = 0 => entries[ip] = NoEntry
    /\ Passed(entries[ip]) <= Len(admitted[ip])
    /\ \A i \in DOMAIN admitted[ip] : admitted[ip][i] <= now
    /\ IF entries[ip] = NoEntry THEN IdleLog(ip) ELSE RunningLog(ip)

\* AdmitsAtMostTwice for one address.
TwiceAtMost(log) ==
    \A i \in DOMAIN log : i + 2 * Limit429 \in DOMAIN log =>
        log[i + 2 * Limit429] > log[i] + Window

LimiterInv ==
    /\ LimiterTypeOK
    /\ \A ip \in Address : LogHolds(ip) /\ TwiceAtMost(admitted[ip])

\* What a request does to the address it is counted for.
RequestOf(ip) ==
    /\ entries[ip].count <= Limit429 \/ Expired(entries[ip])
    /\ entries'  = [entries EXCEPT ![ip] = Counted(@)]
    /\ admitted' = [admitted EXCEPT ![ip] =
                        IF Admits(entries[ip]) THEN Append(@, now) ELSE @]
    /\ UNCHANGED <<now, ticker>>

LEMMA ArrivesIs == Arrives => \E ip \in Address : RequestOf(ip)
  <1> SUFFICES ASSUME Arrives PROVE \E ip \in Address : RequestOf(ip)
    OBVIOUS
  <1>1. ASSUME NEW r, NEW ip \in Address, extractIP(r) = ip, Request(r)
        PROVE  \E x \in Address : RequestOf(x)
    BY <1>1 DEF Request, RequestOf
  <1>2. PICK ip \in Address :
           \/ Request([xff |-> <<>>, xri |-> "none", remote |-> ip])
           \/ \E p \in Address : \/ Request([xff |-> <<>>, xri |-> ip, remote |-> p])
                                 \/ Request([xff |-> <<ip, p>>, xri |-> p, remote |-> p])
    BY DEF Arrives
  <1>3. /\ extractIP([xff |-> <<>>, xri |-> "none", remote |-> ip]) = ip
        /\ \A p \in Address : extractIP([xff |-> <<>>, xri |-> ip, remote |-> p]) \in {ip, p}
        /\ \A p \in Address : extractIP([xff |-> <<ip, p>>, xri |-> p, remote |-> p]) = ip
    BY DEF extractIP
  <1> QED
    BY <1>1, <1>2, <1>3

LEMMA LimiterConstants ==
  Limit429 \in Nat /\ 1 <= Limit429 /\ Window \in Nat /\ 1 <= Window /\ MaxTime \in Nat
  BY LimiterAssumption

\* What the types say of one address, in numbers.
LEMMA EntryNumbers ==
  ASSUME LimiterTypeOK, NEW ip \in Address
  PROVE  /\ entries[ip] \in WindowEntry /\ entries[ip].count \in Nat /\ entries[ip].resetAt \in Nat
         /\ admitted[ip] \in Seq(Time) /\ Len(admitted[ip]) \in Nat
         /\ DOMAIN admitted[ip] = 1..Len(admitted[ip])
         /\ \A i \in DOMAIN admitted[ip] : admitted[ip][i] \in Nat
         /\ now \in Nat /\ Passed(entries[ip]) \in Nat /\ Passed(entries[ip]) <= Limit429
  <1>1. entries[ip] \in WindowEntry /\ admitted[ip] \in Seq(Time)
    BY DEF LimiterTypeOK, WindowEntry
  <1>2. entries[ip].count \in Nat /\ entries[ip].resetAt \in Nat
    BY <1>1, LimiterConstants DEF WindowEntry
  <1>3. /\ Len(admitted[ip]) \in Nat /\ DOMAIN admitted[ip] = 1..Len(admitted[ip])
        /\ \A i \in DOMAIN admitted[ip] : admitted[ip][i] \in Time
    BY <1>1, LenProperties
  <1>4. now \in Nat /\ \A t \in Time : t \in Nat
    BY LimiterConstants DEF LimiterTypeOK, Time
  <1> QED
    BY <1>1, <1>2, <1>3, <1>4, LimiterConstants DEF Passed

\* When no window runs, or the one that ran is over, the log is that of an idle
\* address.
LEMMA IdleWhenOver ==
  ASSUME LimiterTypeOK, NEW ip \in Address, LogHolds(ip),
         entries[ip] = NoEntry \/ Expired(entries[ip])
  PROVE  IdleLog(ip)
  <1>1. CASE entries[ip] = NoEntry
    BY <1>1 DEF LogHolds
  <1>2. CASE entries[ip] # NoEntry
    <2>1. RunningLog(ip) /\ entries[ip].resetAt < now
      BY <1>2, EntryNumbers DEF LogHolds, Expired
    <2>2. ASSUME NEW i \in DOMAIN admitted[ip]
          PROVE  /\ admitted[ip][i] < now
                 /\ i + Limit429 <= Len(admitted[ip]) => admitted[ip][i] + Window < now
      <3>1. /\ admitted[ip][i] <= entries[ip].resetAt
            /\ i + Passed(entries[ip]) <= Len(admitted[ip]) =>
                   admitted[ip][i] + Window < entries[ip].resetAt
        BY <2>1 DEF RunningLog
      <3>2. i \in Nat /\ admitted[ip][i] \in Nat
        BY EntryNumbers
      <3> QED
        BY <2>1, <3>1, <3>2, EntryNumbers, LimiterConstants
    <2> QED
      BY <2>2 DEF IdleLog
  <1> QED
    BY <1>1, <1>2

LEMMA LimiterInitInv == LimiterInit => LimiterInv
  <1> SUFFICES ASSUME LimiterInit PROVE LimiterInv
    OBVIOUS
  <1>1. NoEntry \in WindowEntry /\ NoEntry.count = 0 /\ Passed(NoEntry) = 0
    BY LimiterConstants DEF NoEntry, WindowEntry, Passed
  <1>2. /\ \A ip \in Address : entries[ip] = NoEntry /\ admitted[ip] = <<>>
        /\ 0 \in Time /\ now = 0
    BY LimiterConstants DEF LimiterInit, Time
  <1>3. LimiterTypeOK
    <2>1. ticker \in [due : Nat, held : BOOLEAN]
      <3>1. Window..(2 * Window - 1) \subseteq Nat
        BY LimiterConstants
      <3> QED
        BY <3>1 DEF LimiterInit
    <2>2. /\ entries \in [Address -> WindowEntry]
          /\ admitted \in [Address -> Seq(Time)]
      BY <1>1, <1>2 DEF LimiterInit
    <2> QED
      BY <1>2, <2>1, <2>2 DEF LimiterTypeOK, WindowEntry
  <1>4. ASSUME NEW ip \in Address PROVE LogHolds(ip) /\ TwiceAtMost(admitted[ip])
    BY <1>1, <1>2 DEF LogHolds, IdleLog, TwiceAtMost
  <1> QED
    BY <1>3, <1>4 DEF LimiterInv

\* A log that has one more request in it, let through now.
LEMMA LogGrows ==
  ASSUME LimiterTypeOK, NEW ip \in Address, admitted' = [admitted EXCEPT ![ip] = Append(@, now)]
  PROVE  /\ admitted'[ip] \in Seq(Time) /\ Len(admitted'[ip]) = Len(admitted[ip]) + 1
         /\ DOMAIN admitted'[ip] = 1..(Len(admitted[ip]) + 1)
         /\ admitted'[ip][Len(admitted[ip]) + 1] = now
         /\ \A i \in DOMAIN admitted[ip] : admitted'[ip][i] = admitted[ip][i]
  <1>1. admitted'[ip] = Append(admitted[ip], now) /\ admitted[ip] \in Seq(Time) /\ now \in Time
    BY DEF LimiterTypeOK
  <1> DEFINE log == admitted[ip]
  <1>2. /\ Append(log, now) \in Seq(Time) /\ Len(Append(log, now)) = Len(log) + 1
        /\ \A i \in 1..Len(log) : Append(log, now)[i] = log[i]
        /\ Append(log, now)[Len(log) + 1] = now
    BY <1>1, AppendProperties
  <1>3. DOMAIN Append(log, now) = 1..(Len(log) + 1) /\ DOMAIN log = 1..Len(log)
    BY <1>1, <1>2, LenProperties
  <1> QED
    BY <1>1, <1>2, <1>3

\* The first request of a window.
LEMMA WindowBegins ==
  ASSUME LimiterInv, NEW ip \in Address, RequestOf(ip),
         entries[ip] = NoEntry \/ Expired(entries[ip])
  PROVE  /\ entries'[ip] \in WindowEntry /\ admitted'[ip] \in Seq(Time)
         /\ LogHolds(ip)' /\ TwiceAtMost(admitted[ip])'
  <1> DEFINE n == Len(admitted[ip])
  <1>1. LimiterTypeOK /\ LogHolds(ip) /\ TwiceAtMost(admitted[ip])
    BY DEF LimiterInv
  <1>2. /\ IdleLog(ip) /\ n \in Nat /\ now \in Nat /\ now \in Time
        /\ DOMAIN admitted[ip] = 1..n
        /\ \A i \in 1..n : admitted[ip][i] \in Nat
    BY <1>1, IdleWhenOver, EntryNumbers DEF LimiterTypeOK
  <1>3. entries'[ip] = [count |-> 1, resetAt |-> now + Window] /\ now' = now
    BY <1>1 DEF RequestOf, Counted, LimiterTypeOK
  <1>4. /\ entries'[ip].count = 1 /\ entries'[ip].resetAt = now + Window
        /\ entries'[ip] # NoEntry /\ Passed(entries[ip])' = 1 /\ entries'[ip] \in WindowEntry
    <2>1. NoEntry.count = 0
      BY DEF NoEntry
    <2>2. 1 \in 0..(Limit429 + 1) /\ now + Window \in 0..(MaxTime + Window)
      BY <1>2, LimiterConstants DEF Time
    <2> QED
      BY <1>3, <2>1, <2>2, LimiterConstants DEF WindowEntry, Passed
  <1>5. admitted' = [admitted EXCEPT ![ip] = Append(@, now)]
    BY DEF RequestOf, Admits
  <1>6. /\ admitted'[ip] \in Seq(Time) /\ Len(admitted'[ip]) = n + 1
        /\ DOMAIN admitted'[ip] = 1..(n + 1)
        /\ admitted'[ip][n + 1] = now
        /\ \A i \in 1..n : admitted'[ip][i] = admitted[ip][i]
    BY <1>1, <1>2, <1>5, LogGrows
  <1> HIDE DEF n
  <1>7. ASSUME NEW i \in 1..(n + 1)
        PROVE  /\ admitted'[ip][i] <= now /\ admitted'[ip][i] <= now + Window
               /\ i + 1 <= n + 1 => admitted'[ip][i] + Window < now + Window
               /\ i + 1 + Limit429 <= n + 1 => admitted'[ip][i] + 2 * Window < now + Window
               /\ i + 2 * Limit429 \in 1..(n + 1) =>
                      admitted'[ip][i + 2 * Limit429] > admitted'[ip][i] + Window
    <2>1. CASE i = n + 1
      BY <1>2, <1>6, <2>1, LimiterConstants
    <2>2. CASE i \in 1..n
      <3>1. /\ admitted'[ip][i] = admitted[ip][i] /\ admitted[ip][i] \in Nat
            /\ admitted[ip][i] < now
            /\ i + Limit429 <= n => admitted[ip][i] + Window < now
        BY <1>2, <1>6, <2>2 DEF IdleLog, n
      <3>2. CASE i + 2 * Limit429 = n + 1
        <4>1. i + Limit429 <= n
          BY <1>2, <2>2, <3>2, LimiterConstants
        <4>2. admitted[ip][i] + Window < now
          BY <3>1, <4>1
        <4>3. admitted'[ip][i + 2 * Limit429] = now
          BY <1>6, <3>2
        <4>4. i + 1 + Limit429 <= n + 1 => admitted[ip][i] + 2 * Window < now + Window
          BY <1>2, <3>1, <4>2, LimiterConstants
        <4> QED
          BY <1>2, <3>1, <4>2, <4>3, <4>4, LimiterConstants
      <3>3. CASE i + 2 * Limit429 \in 1..n
        <4>1. admitted[ip][i + 2 * Limit429] > admitted[ip][i] + Window
          BY <1>1, <1>2, <2>2, <3>3 DEF TwiceAtMost
        <4> QED
          BY <1>2, <1>6, <2>2, <3>1, <3>3, <4>1, LimiterConstants
      <3> QED
        BY <1>2, <2>2, <3>1, <3>2, <3>3, LimiterConstants
    <2> QED
      BY <1>2, <2>1, <2>2
  <1>8. LogHolds(ip)'
    <2>1. RunningLog(ip)'
      <3>1. \A i \in DOMAIN admitted'[ip] :
               /\ admitted'[ip][i] <= now + Window
               /\ i + 1 <= n + 1 => admitted'[ip][i] + Window < now + Window
               /\ i + 1 + Limit429 <= n + 1 => admitted'[ip][i] + 2 * Window < now + Window
        BY <1>6, <1>7
      <3>2. entries'[ip].resetAt <= now' + Window
        BY <1>2, <1>3, <1>4, LimiterConstants
      <3> QED
        BY <1>4, <1>6, <3>1, <3>2 DEF RunningLog
    <2> QED
      BY <1>2, <1>3, <1>4, <1>6, <1>7, <2>1 DEF LogHolds
  <1>9. TwiceAtMost(admitted[ip])'
    BY <1>6, <1>7 DEF TwiceAtMost
  <1> QED
    BY <1>4, <1>6, <1>8, <1>9

\* A request that the window that runs lets through.
LEMMA WindowPasses ==
  ASSUME LimiterInv, NEW ip \in Address, RequestOf(ip),
         entries[ip] # NoEntry, ~Expired(entries[ip]), entries[ip].count < Limit429
  PROVE  /\ entries'[ip] \in WindowEntry /\ admitted'[ip] \in Seq(Time)
         /\ LogHolds(ip)' /\ TwiceAtMost(admitted[ip])'
  <1> DEFINE n == Len(admitted[ip])
             k == entries[ip].count
             end == entries[ip].resetAt
  <1>1. LimiterTypeOK /\ LogHolds(ip) /\ RunningLog(ip) /\ TwiceAtMost(admitted[ip])
    BY DEF LimiterInv, LogHolds
  <1>2. /\ n \in Nat /\ k \in Nat /\ end \in Nat /\ now \in Nat
        /\ DOMAIN admitted[ip] = 1..n /\ entries[ip] \in WindowEntry
        /\ \A i \in 1..n : admitted[ip][i] \in Nat
        /\ Passed(entries[ip]) = k /\ k < Limit429 /\ 0 < k
        /\ now <= end /\ end <= now + Window
    <2>1. k > 0 => now <= end
      BY <1>1, EntryNumbers DEF Expired
    <2>2. k # 0
      BY <1>1 DEF LogHolds
    <2> QED
      BY <1>1, <2>1, <2>2, EntryNumbers, LimiterConstants DEF Passed, RunningLog
  <1>3. entries'[ip] = [entries[ip] EXCEPT !.count = @ + 1] /\ now' = now
    BY <1>1 DEF RequestOf, Counted, LimiterTypeOK
  <1>4. /\ entries'[ip].count = k + 1 /\ entries'[ip].resetAt = end
        /\ entries'[ip] \in WindowEntry
    <2>1. k + 1 \in 0..(Limit429 + 1)
      BY <1>2, LimiterConstants
    <2> QED
      BY <1>2, <1>3, <2>1 DEF WindowEntry
  <1>5. admitted' = [admitted EXCEPT ![ip] = Append(@, now)]
    BY DEF RequestOf, Admits
  <1>6. /\ admitted'[ip] \in Seq(Time) /\ Len(admitted'[ip]) = n + 1
        /\ DOMAIN admitted'[ip] = 1..(n + 1)
        /\ admitted'[ip][n + 1] = now
        /\ \A i \in 1..n : admitted'[ip][i] = admitted[ip][i]
    BY <1>1, <1>2, <1>5, LogGrows
  <1>7. \A i \in 1..n :
           /\ admitted[ip][i] <= end /\ admitted[ip][i] <= now
           /\ i + k <= n => admitted[ip][i] + Window < end
           /\ i + k + Limit429 <= n => admitted[ip][i] + 2 * Window < end
    BY <1>1, <1>2 DEF RunningLog, LogHolds
  <1>8. k <= n
    BY <1>1, <1>2 DEF LogHolds
  <1>9. entries'[ip] # NoEntry /\ Passed(entries[ip])' = k + 1
    <2>1. NoEntry.count = 0
      BY DEF NoEntry
    <2> QED
      BY <1>2, <1>4, <2>1, LimiterConstants DEF Passed
  <1> HIDE DEF n, k, end
  <1>10. ASSUME NEW i \in 1..(n + 1)
         PROVE  /\ admitted'[ip][i] <= now /\ admitted'[ip][i] <= end
                /\ i + (k + 1) <= n + 1 => admitted'[ip][i] + Window < end
                /\ i + (k + 1) + Limit429 <= n + 1 => admitted'[ip][i] + 2 * Window < end
                /\ i + 2 * Limit429 \in 1..(n + 1) =>
                       admitted'[ip][i + 2 * Limit429] > admitted'[ip][i] + Window
    <2>1. CASE i = n + 1
      <3>1. admitted'[ip][i] = now /\ now <= now /\ now <= end
        BY <1>2, <1>6, <2>1
      <3>2. ~(i + (k + 1) <= n + 1) /\ ~(i + (k + 1) + Limit429 <= n + 1) /\ ~(i + 2 * Limit429 \in 1..(n + 1))
        BY <1>2, <2>1, LimiterConstants
      <3> QED
        BY <3>1, <3>2
    <2>2. CASE i \in 1..n
      <3>1. /\ admitted'[ip][i] = admitted[ip][i] /\ admitted[ip][i] \in Nat
            /\ admitted[ip][i] <= end /\ admitted[ip][i] <= now
            /\ i + k <= n => admitted[ip][i] + Window < end
            /\ i + k + Limit429 <= n => admitted[ip][i] + 2 * Window < end
        BY <1>2, <1>6, <1>7, <2>2
      <3>2. /\ i + (k + 1) <= n + 1 => admitted'[ip][i] + Window < end
            /\ i + (k + 1) + Limit429 <= n + 1 => admitted'[ip][i] + 2 * Window < end
        <4>1. (i + (k + 1) <= n + 1 => i + k <= n)
              /\ (i + (k + 1) + Limit429 <= n + 1 => i + k + Limit429 <= n)
          BY <1>2, <2>2, LimiterConstants
        <4> QED
          BY <3>1, <4>1
      <3>3. ASSUME i + 2 * Limit429 \in 1..(n + 1)
            PROVE  admitted'[ip][i + 2 * Limit429] > admitted'[ip][i] + Window
        <4>1. CASE i + 2 * Limit429 = n + 1
          <5>1. i + k + Limit429 <= n
            BY <1>2, <2>2, <4>1, LimiterConstants
          <5>2. admitted[ip][i] + Window < now
            BY <1>2, <3>1, <5>1, LimiterConstants
          <5>3. admitted'[ip][i + 2 * Limit429] = now
            BY <1>6, <4>1
          <5> QED
            BY <1>2, <3>1, <5>2, <5>3, LimiterConstants
        <4>2. CASE i + 2 * Limit429 \in 1..n
          <5>1. admitted[ip][i + 2 * Limit429] > admitted[ip][i] + Window
            BY <1>1, <1>2, <2>2, <4>2 DEF TwiceAtMost
          <5>2. admitted'[ip][i + 2 * Limit429] = admitted[ip][i + 2 * Limit429]
            BY <1>6, <4>2
          <5> QED
            BY <3>1, <5>1, <5>2
        <4>3. i + 2 * Limit429 = n + 1 \/ i + 2 * Limit429 \in 1..n
          BY <1>2, <2>2, <3>3, LimiterConstants
        <4> QED
          BY <4>1, <4>2, <4>3
      <3> QED
        BY <3>1, <3>2, <3>3
    <2> QED
      BY <1>2, <2>1, <2>2
  <1>11. LogHolds(ip)'
    <2>1. RunningLog(ip)'
      <3>1. \A i \in DOMAIN admitted'[ip] :
               /\ admitted'[ip][i] <= end
               /\ i + (k + 1) <= n + 1 => admitted'[ip][i] + Window < end
               /\ i + (k + 1) + Limit429 <= n + 1 => admitted'[ip][i] + 2 * Window < end
        BY <1>6, <1>10
      <3>2. entries'[ip].resetAt <= now' + Window
        BY <1>2, <1>3, <1>4
      <3> QED
        BY <1>4, <1>6, <1>9, <3>1, <3>2 DEF RunningLog
    <2> QED
      BY <1>2, <1>3, <1>4, <1>6, <1>8, <1>9, <1>10, <2>1 DEF LogHolds
  <1>12. TwiceAtMost(admitted[ip])'
    BY <1>6, <1>10 DEF TwiceAtMost
  <1> QED
    BY <1>4, <1>6, <1>11, <1>12

\* A request that the window that runs counts and refuses.
LEMMA WindowRefuses ==
  ASSUME LimiterInv, NEW ip \in Address, RequestOf(ip),
         entries[ip] # NoEntry, ~Expired(entries[ip]), ~(entries[ip].count < Limit429)
  PROVE  /\ entries'[ip] \in WindowEntry /\ admitted'[ip] \in Seq(Time)
         /\ LogHolds(ip)' /\ TwiceAtMost(admitted[ip])'
  <1>1. LimiterTypeOK /\ LogHolds(ip) /\ RunningLog(ip) /\ TwiceAtMost(admitted[ip])
    BY DEF LimiterInv, LogHolds
  <1>2. entries'[ip] = [entries[ip] EXCEPT !.count = @ + 1] /\ UNCHANGED <<now, ticker>>
    BY <1>1 DEF RequestOf, Counted, LimiterTypeOK
  <1>3. entries[ip].count = Limit429 /\ entries[ip] \in WindowEntry
    BY <1>1, EntryNumbers, LimiterConstants DEF RequestOf
  <1>4. /\ entries'[ip].count = Limit429 + 1 /\ entries'[ip].resetAt = entries[ip].resetAt
        /\ entries'[ip] \in WindowEntry
    <2>1. Limit429 + 1 \in 0..(Limit429 + 1)
      BY LimiterConstants
    <2> QED
      BY <1>2, <1>3, <2>1 DEF WindowEntry
  <1>5. admitted'[ip] = admitted[ip]
    BY <1>1 DEF RequestOf, Admits, LimiterTypeOK
  <1>6. Passed(entries[ip]) = Limit429 /\ Passed(entries[ip])' = Limit429
    BY <1>3, <1>4, LimiterConstants DEF Passed
  <1>7. entries'[ip] # NoEntry
    BY <1>4, LimiterConstants DEF NoEntry
  <1>8. RunningLog(ip)'
    BY <1>1, <1>2, <1>4, <1>5, <1>6 DEF RunningLog
  <1>9. LogHolds(ip)'
    BY <1>1, <1>2, <1>4, <1>5, <1>6, <1>7, <1>8, LimiterConstants DEF LogHolds
  <1> QED
    BY <1>1, <1>4, <1>5, <1>9, EntryNumbers DEF TwiceAtMost

LEMMA RequestInv ==
  ASSUME LimiterInv, NEW ip \in Address, RequestOf(ip)
  PROVE  LimiterInv'
  <1>1. /\ entries'[ip] \in WindowEntry /\ admitted'[ip] \in Seq(Time)
        /\ LogHolds(ip)' /\ TwiceAtMost(admitted[ip])'
    BY WindowBegins, WindowPasses, WindowRefuses
  <1>2. /\ entries' = [entries EXCEPT ![ip] = entries'[ip]]
        /\ admitted' = [admitted EXCEPT ![ip] = admitted'[ip]]
        /\ now' = now /\ ticker' = ticker
    BY DEF RequestOf, LimiterInv, LimiterTypeOK
  <1>3. LimiterTypeOK'
    BY <1>1, <1>2 DEF LimiterInv, LimiterTypeOK, WindowEntry
  <1>4. ASSUME NEW x \in Address \ {ip} PROVE LogHolds(x)' /\ TwiceAtMost(admitted[x])'
    <2>1. entries'[x] = entries[x] /\ admitted'[x] = admitted[x]
      BY <1>2 DEF LimiterInv, LimiterTypeOK
    <2>2. LogHolds(x) /\ TwiceAtMost(admitted[x])
      BY DEF LimiterInv
    <2> QED
      BY <1>2, <2>1, <2>2 DEF LogHolds, IdleLog, RunningLog, Passed, TwiceAtMost
  <1> QED
    BY <1>1, <1>3, <1>4 DEF LimiterInv

LEMMA SweepInv == LimiterInv /\ cleanup => LimiterInv'
  <1> SUFFICES ASSUME LimiterInv, cleanup PROVE LimiterInv'
    OBVIOUS
  <1>1. LimiterTypeOK /\ NoEntry \in WindowEntry /\ now' = now /\ admitted' = admitted
    BY LimiterConstants DEF LimiterInv, cleanup, NoEntry, WindowEntry
  <1>2. LimiterTypeOK'
    <2>1. \A ip \in Address : Swept(entries[ip]) \in WindowEntry
      BY <1>1, EntryNumbers DEF Swept
    <2> QED
      BY <1>1, <2>1 DEF cleanup, LimiterTypeOK, WindowEntry
  <1>3. ASSUME NEW ip \in Address PROVE LogHolds(ip)' /\ TwiceAtMost(admitted[ip])'
    <2>1. entries'[ip] = Swept(entries[ip]) /\ LogHolds(ip) /\ TwiceAtMost(admitted[ip])
      BY DEF cleanup, LimiterInv
    <2>2. CASE entries[ip] # NoEntry /\ Expired(entries[ip])
      <3>1. entries'[ip] = NoEntry /\ Passed(entries[ip])' = 0
        BY <2>1, <2>2, LimiterConstants DEF Swept, Passed, NoEntry
      <3>2. IdleLog(ip)
        BY <1>1, <2>1, <2>2, IdleWhenOver
      <3>3. IdleLog(ip)'
        BY <1>1, <3>2 DEF IdleLog
      <3> QED
        BY <1>1, <2>1, <3>1, <3>3, EntryNumbers DEF LogHolds, TwiceAtMost
    <2>3. CASE entries[ip] = NoEntry \/ ~Expired(entries[ip])
      <3>1. entries'[ip] = entries[ip]
        BY <2>1, <2>3 DEF Swept, Expired
      <3> QED
        BY <1>1, <2>1, <3>1 DEF LogHolds, IdleLog, RunningLog, Passed, TwiceAtMost
    <2> QED
      BY <2>2, <2>3
  <1> QED
    BY <1>2, <1>3 DEF LimiterInv

LEMMA TickInv == LimiterInv /\ Tick => LimiterInv'
  <1> SUFFICES ASSUME LimiterInv, Tick PROVE LimiterInv'
    OBVIOUS
  <1>1. LimiterTypeOK /\ now' = now + 1 /\ now' \in Time /\ UNCHANGED <<entries, admitted>>
    BY LimiterConstants DEF LimiterInv, Tick, LimiterTypeOK, Time
  <1>2. LimiterTypeOK'
    <2>1. ticker' \in [due : Nat, held : BOOLEAN]
      BY <1>1, LimiterConstants DEF Tick, LimiterTypeOK
    <2> QED
      BY <1>1, <2>1 DEF LimiterTypeOK
  <1>3. ASSUME NEW ip \in Address PROVE LogHolds(ip)' /\ TwiceAtMost(admitted[ip])'
    <2>1. LogHolds(ip) /\ TwiceAtMost(admitted[ip])
      BY DEF LimiterInv
    <2>2. /\ \A i \in DOMAIN admitted[ip] : admitted[ip][i] \in Nat
          /\ now \in Nat /\ entries[ip].resetAt \in Nat
      BY <1>1, EntryNumbers
    <2>3. IdleLog(ip) => IdleLog(ip)'
      BY <1>1, <2>2, LimiterConstants DEF IdleLog
    <2>4. RunningLog(ip) => RunningLog(ip)'
      BY <1>1, <2>2, LimiterConstants DEF RunningLog, Passed
    <2>5. \A i \in DOMAIN admitted[ip] : admitted[ip][i] <= now'
      BY <1>1, <2>1, <2>2 DEF LogHolds
    <2> QED
      BY <1>1, <2>1, <2>3, <2>4, <2>5 DEF LogHolds, Passed, TwiceAtMost
  <1> QED
    BY <1>2, <1>3 DEF LimiterInv

LEMMA LimiterInvariant == LimiterSpec => []LimiterInv
  <1>1. LimiterInv /\ UNCHANGED limiterVars => LimiterInv'
    BY DEF limiterVars, LimiterInv, LimiterTypeOK, LogHolds, IdleLog, RunningLog, Passed, TwiceAtMost
  <1>2. LimiterInv /\ Arrives => LimiterInv'
    BY ArrivesIs, RequestInv
  <1>3. LimiterInv /\ [LimiterNext]_limiterVars => LimiterInv'
    BY <1>1, <1>2, SweepInv, TickInv DEF LimiterNext
  <1> QED
    BY <1>3, LimiterInitInv, PTL DEF LimiterSpec

\* The limiter's counters and windows keep their types.
THEOREM LimiterTypeCorrect == LimiterSpec => []LimiterTypeOK
  <1>1. LimiterInv => LimiterTypeOK
    BY DEF LimiterInv
  <1> QED
    BY <1>1, LimiterInvariant, PTL

\* For any limit, any window and any addresses, however the requests fall and
\* whenever the sweep runs: no stretch of one window's length lets an address
\* through more than twice the limit.
THEOREM NeverAThirdWindow == LimiterSpec => []AdmitsAtMostTwice
  <1>1. LimiterInv => AdmitsAtMostTwice
    BY DEF LimiterInv, TwiceAtMost, AdmitsAtMostTwice
  <1> QED
    BY <1>1, LimiterInvariant, PTL

-----------------------------------------------------------------------------
(* The hub.                                                                *)

StreamState == [at : {"new", "open", "leaving", "gone"}, buffer : Seq(Event), shut : BOOLEAN]

\* The table of streams is empty unless the hub is attached, and holds open ones.
TableHolds ==
    /\ subs # {} => attached
    /\ gateway = "down" => ~attached
    /\ \A s \in subs : stream[s].at = "open"

\* What a stream was given the hub has handled, and not the event under way to it.
Behind(s) ==
    /\ \A i \in DOMAIN Given(s) : Given(s)[i].n <= taken[Given(s)[i].subject]
    /\ \A j \in Subject : s \in fanout[j].left =>
          /\ 1 <= fanout[j].event /\ fanout[j].event <= taken[j]
          /\ \A i \in DOMAIN Given(s) : Given(s)[i].subject = j => Given(s)[i].n < fanout[j].event

\* The two parts of GapsOnlyWhenFull.
InOrder(s) ==
    \A i, k \in DOMAIN Given(s) :
        i < k /\ Given(s)[i].subject = Given(s)[k].subject => Given(s)[i].n < Given(s)[k].n

Accounted(s, j, n) ==
    \/ [subject |-> j, n |-> n] \in ToSet(Given(s)) \cup skipped[s]
    \/ fanout[j].event = n /\ s \in fanout[j].left

NoGap(s) ==
    gateway = "up" /\ s \in subs =>
        \A j \in Subject : roleAllows(StreamRole[s], j) =>
            \A n \in (from[s][j] + 1)..taken[j] : Accounted(s, j, n)

HubInv ==
    /\ HubTypeOK /\ TableHolds
    /\ \A s \in Stream : Behind(s) /\ InOrder(s) /\ NoGap(s)

LEMMA HubConstants == Buffer \in Nat /\ 1 <= Buffer /\ MaxEvents \in Nat
  BY HubAssumption

\* What one stream was given: what was written to it, then its buffer.
LEMMA GivenIs ==
  ASSUME HubTypeOK, NEW s \in Stream
  PROVE  /\ stream[s] \in StreamState /\ written[s] \in Seq(Event) /\ stream[s].buffer \in Seq(Event)
         /\ Given(s) \in Seq(Event) /\ Len(Given(s)) \in Nat
         /\ DOMAIN Given(s) = 1..Len(Given(s))
         /\ \A i \in DOMAIN Given(s) : /\ Given(s)[i] \in Event
                                       /\ Given(s)[i].subject \in Subject /\ Given(s)[i].n \in Nat
         /\ DOMAIN written[s] \subseteq DOMAIN Given(s)
         /\ \A i \in DOMAIN written[s] : Given(s)[i] = written[s][i]
  <1>1. stream[s] \in StreamState /\ written[s] \in Seq(Event)
    BY DEF HubTypeOK, StreamState
  <1>2. stream[s].buffer \in Seq(Event)
    BY <1>1 DEF StreamState
  <1>3. /\ Given(s) \in Seq(Event)
        /\ Len(Given(s)) = Len(written[s]) + Len(stream[s].buffer)
        /\ \A i \in 1..Len(written[s]) + Len(stream[s].buffer) :
              Given(s)[i] = IF i <= Len(written[s]) THEN written[s][i]
                            ELSE stream[s].buffer[i - Len(written[s])]
    BY <1>1, <1>2, ConcatProperties DEF Given
  <1>4. /\ DOMAIN Given(s) = 1..Len(Given(s)) /\ Len(Given(s)) \in Nat
        /\ DOMAIN written[s] = 1..Len(written[s]) /\ Len(written[s]) \in Nat
        /\ Len(stream[s].buffer) \in Nat
    BY <1>1, <1>2, <1>3, LenProperties
  <1>5. \A i \in DOMAIN Given(s) : Given(s)[i] \in Event
    BY <1>3, <1>4, ElementOfSeq
  <1>6. \A e \in Event : e.subject \in Subject /\ e.n \in Nat
    BY HubConstants DEF Event
  <1>7. \A a, b \in Nat : \A i \in 1..a : i \in 1..a + b /\ i <= a
    OBVIOUS
  <1>8. ASSUME NEW i \in DOMAIN written[s] PROVE i \in DOMAIN Given(s) /\ Given(s)[i] = written[s][i]
    <2>1. i \in 1..Len(written[s]) + Len(stream[s].buffer) /\ i <= Len(written[s])
      BY <1>4, <1>7
    <2> QED
      BY <1>3, <1>4, <2>1
  <1>9. \A i \in DOMAIN Given(s) : Given(s)[i].subject \in Subject /\ Given(s)[i].n \in Nat
    BY <1>5, <1>6
  <1> QED
    BY <1>1, <1>2, <1>3, <1>4, <1>5, <1>8, <1>9

LEMMA HubInitInv == HubInit => HubInv
  <1> SUFFICES ASSUME HubInit PROVE HubInv
    OBVIOUS
  <1>1. NoFanout \in [event : 0..MaxEvents, left : SUBSET Stream] /\ NoFanout.left = {}
    BY HubConstants DEF NoFanout
  <1>2. <<>> \in Seq(Event) /\ Len(<<>>) = 0
    BY EmptySeq
  <1>3. NewStream \in StreamState /\ NewStream.buffer = <<>>
    BY <1>2 DEF NewStream, StreamState
  <1>4. HubTypeOK
    <2>1. stream \in [Stream -> StreamState] /\ \A s \in Stream : Len(stream[s].buffer) <= Buffer
      BY <1>2, <1>3, HubConstants DEF HubInit
    <2>2. fanout \in [Subject -> [event : 0..MaxEvents, left : SUBSET Stream]]
      BY <1>1 DEF HubInit
    <2>3. 0 \in 0..MaxEvents /\ 0 <= 0
      BY HubConstants
    <2>4. /\ published \in [Subject -> 0..MaxEvents] /\ taken \in [Subject -> 0..MaxEvents]
          /\ \A j \in Subject : taken[j] <= published[j]
          /\ from \in [Stream -> [Subject -> 0..MaxEvents]]
      BY <2>3 DEF HubInit
    <2>5. written \in [Stream -> Seq(Event)] /\ skipped \in [Stream -> SUBSET Event]
      BY <1>2 DEF HubInit
    <2> QED
      BY <2>1, <2>2, <2>4, <2>5 DEF HubInit, HubTypeOK, StreamState
  <1>5. TableHolds
    BY DEF HubInit, TableHolds
  <1>6. ASSUME NEW s \in Stream PROVE Behind(s) /\ InOrder(s) /\ NoGap(s)
    <2>1. Given(s) = <<>>
      BY <1>2, <1>3, ConcatEmptySeq DEF HubInit, Given
    <2>2. \A j \in Subject : fanout[j].left = {}
      BY <1>1 DEF HubInit
    <2>3. DOMAIN Given(s) = {}
      BY <2>1
    <2> QED
      BY <2>2, <2>3 DEF Behind, InOrder, NoGap, HubInit
  <1> QED
    BY <1>4, <1>5, <1>6 DEF HubInv

\* A stream that was given no more than before, and is sent nothing it was not
\* sent before, stays in order.
LEMMA OrderKept ==
  ASSUME HubInv, NEW s \in Stream,
         DOMAIN Given(s)' \subseteq DOMAIN Given(s),
         \A i \in DOMAIN Given(s)' : Given(s)'[i] = Given(s)[i],
         \A j \in Subject : taken[j] <= taken'[j] /\ taken'[j] \in Nat,
         \A j \in Subject : s \in fanout'[j].left =>
             s \in fanout[j].left /\ fanout'[j].event = fanout[j].event
  PROVE  Behind(s)' /\ InOrder(s)'
  <1>1. /\ HubTypeOK /\ Behind(s) /\ InOrder(s)
        /\ \A j \in Subject : taken[j] \in Nat /\ fanout[j].event \in Nat
    BY HubConstants DEF HubInv, HubTypeOK
  <1>2. \A i \in DOMAIN Given(s) : Given(s)[i].subject \in Subject /\ Given(s)[i].n \in Nat
    BY <1>1, GivenIs
  <1>3. ASSUME NEW i \in DOMAIN Given(s)' PROVE Given(s)'[i].n <= taken'[Given(s)'[i].subject]
    <2>1. Given(s)'[i] = Given(s)[i] /\ Given(s)[i].n <= taken[Given(s)[i].subject]
      BY <1>1 DEF Behind
    <2>2. PICK j \in Subject : j = Given(s)[i].subject
      BY <1>2
    <2> QED
      BY <1>1, <1>2, <2>1, <2>2
  <1>4. ASSUME NEW j \in Subject, s \in fanout'[j].left
        PROVE  /\ 1 <= fanout'[j].event /\ fanout'[j].event <= taken'[j]
               /\ \A i \in DOMAIN Given(s)' :
                     Given(s)'[i].subject = j => Given(s)'[i].n < fanout'[j].event
    <2>1. /\ fanout'[j].event = fanout[j].event
          /\ 1 <= fanout[j].event /\ fanout[j].event <= taken[j]
          /\ \A i \in DOMAIN Given(s) : Given(s)[i].subject = j => Given(s)[i].n < fanout[j].event
      BY <1>1, <1>4 DEF Behind
    <2> QED
      BY <1>1, <2>1
  <1>5. Behind(s)'
    BY <1>3, <1>4 DEF Behind
  <1>6. InOrder(s)'
    BY <1>1 DEF InOrder
  <1> QED
    BY <1>5, <1>6

\* Nothing is missing of a stream that stays in the table while nothing is handled.
LEMMA NoGapKept ==
  ASSUME HubInv, NEW s \in Stream, Given(s)' = Given(s),
         UNCHANGED <<gateway, taken, fanout>>, from'[s] = from[s], skipped[s] \subseteq skipped'[s],
         s \in subs' => s \in subs
  PROVE  NoGap(s)'
  <1>1. NoGap(s)
    BY DEF HubInv
  <1> QED
    BY <1>1 DEF NoGap, Accounted

\* What the steps do to the hub's tables: the types, and what is in the table.
LEMMA HubNumbers ==
  ASSUME HubTypeOK, NEW j \in Subject
  PROVE  /\ published[j] \in Nat /\ taken[j] \in Nat /\ taken[j] <= published[j]
         /\ published[j] <= MaxEvents /\ fanout[j].event \in Nat
         /\ fanout[j].left \subseteq Stream
  BY HubConstants DEF HubTypeOK

\* An event given to a stream is an event, whichever way its buffer took it.
LEMMA OfferedIs ==
  ASSUME NEW b \in Seq(Event), NEW ev \in Event, Len(b) <= Buffer
  PROVE  Offered(b, ev) \in Seq(Event) /\ Len(Offered(b, ev)) <= Buffer
  <1>1. Len(b) \in Nat /\ Append(b, ev) \in Seq(Event) /\ Len(Append(b, ev)) = Len(b) + 1
    BY AppendProperties, LenProperties
  <1> QED
    BY <1>1, HubConstants DEF Offered

LEMMA PublishType == ASSUME HubTypeOK, TableHolds, NEW j \in Subject, Publish(j)
                     PROVE  HubTypeOK' /\ TableHolds'
  <1>1. published[j] + 1 \in 0..MaxEvents /\ taken[j] + 1 \in 0..MaxEvents
    BY HubNumbers, HubConstants DEF Publish
  <1>2. \A i \in Subject : published[i] \in Nat /\ taken[i] \in Nat /\ taken[i] <= published[i]
    BY HubNumbers
  <1>3. published' \in [Subject -> 0..MaxEvents] /\ taken' \in [Subject -> 0..MaxEvents]
    BY <1>1 DEF Publish, HubTypeOK
  <1>4. ASSUME NEW i \in Subject PROVE taken'[i] <= published'[i]
    BY <1>2 DEF Publish, HubTypeOK
  <1> QED
    BY <1>3, <1>4 DEF Publish, HubTypeOK, TableHolds

LEMMA SwitchType == ASSUME HubTypeOK, TableHolds, Attach \/ Restart
                    PROVE  HubTypeOK' /\ TableHolds'
  BY DEF Attach, Restart, HubTypeOK, TableHolds

LEMMA onMessageType == ASSUME HubTypeOK, TableHolds, NEW j \in Subject, onMessage(j)
                       PROVE  HubTypeOK' /\ TableHolds'
  <1>1. /\ taken[j] + 1 \in 0..MaxEvents /\ taken[j] + 1 <= published[j]
        /\ 0 \in 0..MaxEvents
    BY HubNumbers, HubConstants DEF onMessage
  <1>2. NoFanout \in [event : 0..MaxEvents, left : SUBSET Stream]
    BY <1>1 DEF NoFanout
  <1>3. Copied(j) \in SUBSET Stream
    BY DEF Copied, HubTypeOK
  <1>4. [event |-> taken[j] + 1, left |-> Copied(j)] \in [event : 0..MaxEvents, left : SUBSET Stream]
    BY <1>1, <1>3
  <1>5. fanout' \in [Subject -> [event : 0..MaxEvents, left : SUBSET Stream]]
    BY <1>2, <1>4 DEF onMessage, HubTypeOK
  <1>6. taken' \in [Subject -> 0..MaxEvents] /\ \A i \in Subject : taken'[i] <= published[i]
    BY <1>1 DEF onMessage, HubTypeOK
  <1> QED
    BY <1>5, <1>6 DEF onMessage, HubTypeOK, TableHolds

LEMMA SendType == ASSUME HubInv, NEW j \in Subject, NEW s \in Stream, Send(j, s)
                  PROVE  HubTypeOK' /\ TableHolds'
  <1> DEFINE ev == [subject |-> j, n |-> fanout[j].event]
             fan == [event : 0..MaxEvents, left : SUBSET Stream]
  <1>1. /\ HubTypeOK /\ TableHolds /\ fanout[j] \in fan /\ NoFanout \in fan
        /\ 1 <= fanout[j].event
    BY HubConstants DEF HubInv, HubTypeOK, NoFanout, Behind, Send
  <1>2. ev \in Event
    BY <1>1, HubConstants DEF Event
  <1>3. fanout' \in [Subject -> fan]
    <2>1. Left(fanout[j], s) \in fan
      BY <1>1 DEF Left
    <2> QED
      BY <1>1, <2>1 DEF Send, HubTypeOK
  <1>4. skipped' \in [Stream -> SUBSET Event]
    BY <1>1, <1>2 DEF Send, HubTypeOK
  <1>5. /\ stream[s] \in StreamState /\ Len(stream[s].buffer) <= Buffer
        /\ stream[s].buffer \in Seq(Event)
    BY <1>1, GivenIs DEF HubTypeOK
  <1>6. /\ Offered(stream[s].buffer, ev) \in Seq(Event)
        /\ Len(Offered(stream[s].buffer, ev)) <= Buffer
    BY <1>2, <1>5, OfferedIs
  <1>7. /\ [stream[s] EXCEPT !.buffer = Offered(stream[s].buffer, ev)] \in StreamState
        /\ [stream[s] EXCEPT !.buffer = Offered(stream[s].buffer, ev)].buffer
               = Offered(stream[s].buffer, ev)
        /\ [stream[s] EXCEPT !.buffer = Offered(stream[s].buffer, ev)].at = stream[s].at
    BY <1>5, <1>6 DEF StreamState
  <1>8. /\ stream \in [Stream -> StreamState]
        /\ stream' = [stream EXCEPT ![s] = [stream[s] EXCEPT !.buffer = Offered(stream[s].buffer, ev)]]
    BY <1>1 DEF HubTypeOK, StreamState, Send
  <1> HIDE DEF ev, fan
  <1>9. /\ stream' \in [Stream -> StreamState]
        /\ \A r \in Stream : stream'[r].at = stream[r].at
        /\ \A r \in Stream : Len(stream'[r].buffer) <= Buffer
    BY <1>1, <1>6, <1>7, <1>8 DEF HubTypeOK
  <1>10. UNCHANGED <<gateway, attached, published, taken, subs, written, from>>
    BY DEF Send
  <1>11. HubTypeOK'
    BY <1>1, <1>3, <1>4, <1>9, <1>10 DEF HubTypeOK, StreamState, fan
  <1>12. TableHolds'
    BY <1>1, <1>9, <1>10 DEF TableHolds, HubTypeOK
  <1> QED
    BY <1>11, <1>12

\* A step of one stream's own handler leaves it a stream.
LEMMA StreamType ==
  ASSUME HubTypeOK, NEW s \in Stream, NEW row \in StreamState, Len(row.buffer) <= Buffer,
         stream' = [stream EXCEPT ![s] = row]
  PROVE  /\ stream' \in [Stream -> StreamState]
         /\ \A r \in Stream : Len(stream'[r].buffer) <= Buffer
         /\ stream'[s] = row /\ \A r \in Stream \ {s} : stream'[r] = stream[r]
  BY DEF HubTypeOK, StreamState

LEMMA HandleType == ASSUME HubTypeOK, TableHolds, NEW s \in Stream, Handle(s)
                    PROVE  HubTypeOK' /\ TableHolds'
  <1> DEFINE row == [stream[s] EXCEPT !.at = "open"]
  <1>1. stream[s] \in StreamState /\ Len(stream[s].buffer) <= Buffer
    BY DEF HubTypeOK, StreamState
  <1>2. row \in StreamState /\ row.buffer = stream[s].buffer /\ row.at = "open"
    BY <1>1 DEF StreamState
  <1>3. stream' = [stream EXCEPT ![s] = row]
    BY DEF Handle
  <1> HIDE DEF row
  <1>4. /\ stream' \in [Stream -> StreamState]
        /\ \A r \in Stream : Len(stream'[r].buffer) <= Buffer
        /\ stream'[s] = row /\ \A r \in Stream \ {s} : stream'[r] = stream[r]
    BY <1>1, <1>2, <1>3, StreamType
  <1>5. from' \in [Stream -> [Subject -> 0..MaxEvents]]
    BY DEF Handle, HubTypeOK
  <1>6. HubTypeOK'
    BY <1>4, <1>5 DEF Handle, HubTypeOK, StreamState
  <1> QED
    BY <1>2, <1>4, <1>6 DEF Handle, TableHolds, HubTypeOK

LEMMA writeSSEType == ASSUME HubTypeOK, TableHolds, NEW s \in Stream, writeSSE(s)
                      PROVE  HubTypeOK' /\ TableHolds'
  <1> DEFINE row == [stream[s] EXCEPT !.buffer = Tail(stream[s].buffer)]
  <1>1. /\ stream[s] \in StreamState /\ Len(stream[s].buffer) <= Buffer
        /\ stream[s].buffer \in Seq(Event) /\ stream[s].buffer # <<>>
        /\ written[s] \in Seq(Event)
    BY GivenIs DEF HubTypeOK, writeSSE
  <1>2. /\ Tail(stream[s].buffer) \in Seq(Event)
        /\ Len(Tail(stream[s].buffer)) = Len(stream[s].buffer) - 1
        /\ Len(stream[s].buffer) \in Nat /\ Len(Tail(stream[s].buffer)) \in Nat
    BY <1>1, HeadTailProperties, LenProperties
  <1>3. Len(Tail(stream[s].buffer)) <= Buffer
    BY <1>1, <1>2, HubConstants
  <1>4. row \in StreamState /\ row.buffer = Tail(stream[s].buffer) /\ row.at = stream[s].at
    BY <1>1, <1>2 DEF StreamState
  <1>5. stream' = [stream EXCEPT ![s] = row]
    BY DEF writeSSE
  <1> HIDE DEF row
  <1>6. /\ stream' \in [Stream -> StreamState]
        /\ \A r \in Stream : Len(stream'[r].buffer) <= Buffer
        /\ \A r \in Stream : stream'[r].at = stream[r].at
    BY <1>3, <1>4, <1>5, StreamType
  <1>7. Head(stream[s].buffer) \in Event
    BY <1>1, HeadTailProperties
  <1>8. Append(written[s], Head(stream[s].buffer)) \in Seq(Event)
    BY <1>1, <1>7, AppendProperties
  <1>9. written' \in [Stream -> Seq(Event)]
    BY <1>8 DEF writeSSE, HubTypeOK
  <1>10. HubTypeOK'
    BY <1>6, <1>9 DEF writeSSE, HubTypeOK, StreamState
  <1> QED
    BY <1>6, <1>10 DEF writeSSE, TableHolds, HubTypeOK

LEMMA LeaveType == ASSUME HubTypeOK, TableHolds, NEW s \in Stream, Leave(s)
                   PROVE  HubTypeOK' /\ TableHolds'
  <1> DEFINE row == [stream[s] EXCEPT !.at = "leaving"]
  <1>1. stream[s] \in StreamState /\ Len(stream[s].buffer) <= Buffer
    BY DEF HubTypeOK, StreamState
  <1>2. row \in StreamState /\ row.buffer = stream[s].buffer
    BY <1>1 DEF StreamState
  <1>3. stream' = [stream EXCEPT ![s] = row]
    BY DEF Leave
  <1> HIDE DEF row
  <1>4. /\ stream' \in [Stream -> StreamState]
        /\ \A r \in Stream : Len(stream'[r].buffer) <= Buffer
        /\ \A r \in Stream \ {s} : stream'[r] = stream[r]
    BY <1>1, <1>2, <1>3, StreamType
  <1>5. HubTypeOK'
    BY <1>4 DEF Leave, HubTypeOK, StreamState
  <1> QED
    BY <1>4, <1>5 DEF Leave, TableHolds, HubTypeOK

LEMMA shutdownType == ASSUME HubTypeOK, TableHolds, NEW s \in Stream, shutdown(s)
                      PROVE  HubTypeOK' /\ TableHolds'
  <1> DEFINE row == [at |-> "gone", buffer |-> <<>>, shut |-> TRUE]
  <1>1. row \in StreamState /\ Len(row.buffer) <= Buffer
    BY EmptySeq, HubConstants DEF StreamState
  <1>2. stream' = [stream EXCEPT ![s] = row]
    BY DEF shutdown
  <1> HIDE DEF row
  <1>3. /\ stream' \in [Stream -> StreamState]
        /\ \A r \in Stream : Len(stream'[r].buffer) <= Buffer
        /\ \A r \in Stream \ {s} : stream'[r] = stream[r]
    BY <1>1, <1>2, StreamType
  <1>4. HubTypeOK'
    BY <1>3 DEF shutdown, HubTypeOK, StreamState
  <1> QED
    BY <1>3, <1>4 DEF shutdown, TableHolds, HubTypeOK

LEMMA GoneType == ASSUME HubTypeOK, Gone
                  PROVE  HubTypeOK' /\ TableHolds'
  <1>1. /\ <<>> \in Seq(Event) /\ Len(<<>>) = 0 /\ 0 <= Buffer /\ 0 \in 0..MaxEvents
    BY EmptySeq, HubConstants
  <1>2. NewStream \in StreamState /\ NewStream.buffer = <<>>
    BY <1>1 DEF NewStream, StreamState
  <1>3. [at |-> "gone", buffer |-> <<>>, shut |-> TRUE] \in StreamState
    BY <1>1 DEF StreamState
  <1>4. stream' \in [Stream -> StreamState] /\ \A s \in Stream : stream'[s].buffer = <<>>
    BY <1>2, <1>3 DEF Gone
  <1>5. NoFanout \in [event : 0..MaxEvents, left : SUBSET Stream]
    BY <1>1 DEF NoFanout
  <1>6. \A j \in Subject : taken'[j] <= published'[j]
    BY HubNumbers DEF Gone, HubTypeOK
  <1>7. \A s \in Stream : Len(stream'[s].buffer) <= Buffer
    BY <1>1, <1>4
  <1>8. HubTypeOK'
    BY <1>4, <1>5, <1>6, <1>7 DEF Gone, HubTypeOK, StreamState
  <1> QED
    BY <1>8 DEF Gone, TableHolds

LEMMA StopType == ASSUME HubTypeOK, TableHolds, Stop
                  PROVE  HubTypeOK' /\ TableHolds'
  <1>1. \A row \in StreamState : /\ [row EXCEPT !.shut = TRUE] \in StreamState
                                 /\ [row EXCEPT !.shut = TRUE].buffer = row.buffer
    BY DEF StreamState
  <1>2. stream \in [Stream -> StreamState]
    BY DEF HubTypeOK, StreamState
  <1>3. /\ stream' \in [Stream -> StreamState]
        /\ \A s \in Stream : stream'[s].buffer = stream[s].buffer
    BY <1>1, <1>2 DEF Stop
  <1>4. \A j \in Subject : taken'[j] <= published'[j]
    BY HubNumbers DEF Stop, HubTypeOK
  <1>5. HubTypeOK'
    BY <1>3, <1>4 DEF Stop, HubTypeOK, StreamState
  <1> QED
    BY <1>5 DEF Stop, TableHolds

\* A stream whose buffer and whose client's events are as before was given the same.
LEMMA GivenSame ==
  ASSUME HubTypeOK, NEW s \in Stream, written'[s] = written[s],
         stream'[s].buffer = stream[s].buffer
  PROVE  /\ Given(s)' = Given(s) /\ DOMAIN Given(s)' \subseteq DOMAIN Given(s)
         /\ \A i \in DOMAIN Given(s)' : Given(s)'[i] = Given(s)[i]
  BY DEF Given

\* When the process takes its streams' buffers away, what was written stays.
LEMMA GivenCut ==
  ASSUME HubTypeOK, NEW s \in Stream, written'[s] = written[s], stream'[s].buffer = <<>>
  PROVE  /\ DOMAIN Given(s)' \subseteq DOMAIN Given(s)
         /\ \A i \in DOMAIN Given(s)' : Given(s)'[i] = Given(s)[i]
  <1>1. /\ written[s] \in Seq(Event) /\ DOMAIN written[s] \subseteq DOMAIN Given(s)
        /\ \A i \in DOMAIN written[s] : Given(s)[i] = written[s][i]
    BY GivenIs
  <1>2. Given(s)' = written[s]
    BY <1>1, ConcatEmptySeq DEF Given
  <1> QED
    BY <1>1, <1>2

\* No stream's order is disturbed, and none is in the table of a process that is up.
LEMMA HubQuiet ==
  ASSUME HubInv, HubTypeOK', TableHolds', ~(gateway' = "up" /\ subs' # {}),
         \A s \in Stream : written'[s] = written[s]
                           /\ (stream'[s].buffer = stream[s].buffer \/ stream'[s].buffer = <<>>),
         \A j \in Subject : taken[j] <= taken'[j] /\ taken'[j] \in Nat,
         \A j \in Subject, s \in Stream : s \in fanout'[j].left =>
             s \in fanout[j].left /\ fanout'[j].event = fanout[j].event
  PROVE  HubInv'
  <1>1. HubTypeOK
    BY DEF HubInv
  <1>2. ASSUME NEW s \in Stream PROVE Behind(s)' /\ InOrder(s)'
    <2>1. /\ DOMAIN Given(s)' \subseteq DOMAIN Given(s)
          /\ \A i \in DOMAIN Given(s)' : Given(s)'[i] = Given(s)[i]
      BY <1>1, GivenSame, GivenCut
    <2> QED
      BY <2>1, OrderKept
  <1>3. ASSUME NEW s \in Stream PROVE NoGap(s)'
    BY DEF NoGap
  <1> QED
    BY <1>2, <1>3 DEF HubInv

\* No stream was given more, and nothing is handled.
LEMMA HubStill ==
  ASSUME HubInv, HubTypeOK', TableHolds',
         UNCHANGED <<gateway, taken, fanout, skipped>>,
         \A s \in Stream :
             \/ /\ Given(s)' = Given(s) /\ from'[s] = from[s] /\ (s \in subs' => s \in subs)
             \/ /\ s \notin subs' /\ written'[s] = written[s] /\ stream'[s].buffer = <<>>
  PROVE  HubInv'
  <1>1. HubTypeOK /\ \A j \in Subject : taken[j] <= taken'[j] /\ taken'[j] \in Nat
    BY HubNumbers DEF HubInv
  <1>2. ASSUME NEW s \in Stream PROVE Behind(s)' /\ InOrder(s)' /\ NoGap(s)'
    <2>1. /\ DOMAIN Given(s)' \subseteq DOMAIN Given(s)
          /\ \A i \in DOMAIN Given(s)' : Given(s)'[i] = Given(s)[i]
      BY <1>1, GivenCut
    <2>2. Behind(s)' /\ InOrder(s)'
      BY <1>1, <2>1, OrderKept
    <2>3. NoGap(s)'
      <3>1. CASE s \notin subs'
        BY <3>1 DEF NoGap
      <3>2. CASE s \in subs'
        BY <3>2, NoGapKept
      <3> QED
        BY <3>1, <3>2
    <2> QED
      BY <2>2, <2>3
  <1> QED
    BY <1>2 DEF HubInv

LEMMA PublishInv == ASSUME HubInv, NEW j \in Subject, Publish(j) PROVE HubInv'
  <1>1. HubTypeOK /\ TableHolds /\ HubTypeOK' /\ TableHolds'
    BY PublishType DEF HubInv
  <1>2. CASE attached /\ gateway = "up"
    <2>1. \A s \in Stream : Given(s)' = Given(s)
      BY DEF Publish, Given
    <2> QED
      BY <1>1, <1>2, <2>1, HubStill DEF Publish
  <1>3. CASE ~(attached /\ gateway = "up")
    <2>1. ~(gateway' = "up" /\ subs' # {})
      BY <1>1, <1>3 DEF Publish, TableHolds
    <2>2. \A i \in Subject : taken[i] <= taken'[i] /\ taken'[i] \in Nat
      <3>1. \A i \in Subject : taken[i] \in Nat /\ taken[i] <= taken[i] /\ taken[i] <= taken[i] + 1
        BY <1>1, HubNumbers
      <3> QED
        BY <1>1, <3>1 DEF Publish, HubTypeOK
    <2> QED
      BY <1>1, <2>1, <2>2, HubQuiet DEF Publish
  <1> QED
    BY <1>2, <1>3

LEMMA SwitchInv == ASSUME HubInv, Attach \/ Restart PROVE HubInv'
  <1>1. HubTypeOK /\ TableHolds /\ HubTypeOK' /\ TableHolds'
    BY SwitchType DEF HubInv
  <1>2. CASE Attach
    <2>1. \A s \in Stream : Given(s)' = Given(s)
      BY <1>2 DEF Attach, Given
    <2> QED
      BY <1>1, <1>2, <2>1, HubStill DEF Attach
  <1>3. CASE Restart
    <2>1. ~(gateway' = "up" /\ subs' # {})
      BY <1>1, <1>3 DEF Restart, TableHolds
    <2>2. \A i \in Subject : taken[i] <= taken'[i] /\ taken'[i] \in Nat
      BY <1>1, <1>3, HubNumbers DEF Restart
    <2> QED
      BY <1>1, <1>3, <2>1, <2>2, HubQuiet DEF Restart
  <1> QED
    BY <1>2, <1>3

LEMMA GoneInv == ASSUME HubInv, Gone PROVE HubInv'
  <1>1. HubTypeOK /\ TableHolds /\ HubTypeOK' /\ TableHolds'
    BY GoneType DEF HubInv
  <1>2. \A s \in Stream : stream'[s].buffer = <<>>
    BY DEF Gone, NewStream
  <1>3. \A j \in Subject : taken[j] <= taken'[j] /\ taken'[j] \in Nat
    BY <1>1, HubNumbers DEF Gone
  <1>4. \A j \in Subject : fanout'[j].left = {}
    BY DEF Gone, NoFanout
  <1> QED
    BY <1>1, <1>2, <1>3, <1>4, HubQuiet DEF Gone

LEMMA StopInv == ASSUME HubInv, Stop PROVE HubInv'
  <1>1. HubTypeOK /\ TableHolds /\ HubTypeOK' /\ TableHolds'
    BY StopType DEF HubInv
  <1>2. \A s \in Stream : stream'[s].buffer = stream[s].buffer
    BY <1>1 DEF Stop, HubTypeOK
  <1>3. \A j \in Subject : taken[j] <= taken'[j] /\ taken'[j] \in Nat
    BY <1>1, HubNumbers DEF Stop
  <1> QED
    BY <1>1, <1>2, <1>3, HubQuiet DEF Stop

LEMMA LeaveInv == ASSUME HubInv, NEW s \in Stream, Leave(s) \/ shutdown(s) PROVE HubInv'
  <1>1. HubTypeOK /\ TableHolds /\ HubTypeOK' /\ TableHolds'
    BY LeaveType, shutdownType DEF HubInv
  <1>2. CASE Leave(s)
    <2>1. \A r \in Stream : stream'[r].buffer = stream[r].buffer
      BY <1>1, <1>2 DEF Leave, HubTypeOK
    <2>2. \A r \in Stream : Given(r)' = Given(r)
      BY <1>2, <2>1 DEF Leave, Given
    <2> QED
      BY <1>1, <1>2, <2>2, HubStill DEF Leave
  <1>3. CASE shutdown(s)
    <2>1. s \notin subs' /\ stream'[s].buffer = <<>>
      BY <1>1, <1>3 DEF shutdown, TableHolds, HubTypeOK
    <2>2. \A r \in Stream \ {s} : stream'[r] = stream[r]
      BY <1>1, <1>3 DEF shutdown, HubTypeOK
    <2>3. \A r \in Stream \ {s} : Given(r)' = Given(r)
      BY <1>3, <2>2 DEF shutdown, Given
    <2> QED
      BY <1>1, <1>3, <2>1, <2>3, HubStill DEF shutdown
  <1> QED
    BY <1>2, <1>3

\* What is written to the client is the first event of the buffer: it was given already.
LEMMA writeSSEInv == ASSUME HubInv, NEW s \in Stream, writeSSE(s) PROVE HubInv'
  <1>1. HubTypeOK /\ TableHolds /\ HubTypeOK' /\ TableHolds'
    BY writeSSEType DEF HubInv
  <1>2. /\ written[s] \in Seq(Event) /\ stream[s].buffer \in Seq(Event)
        /\ stream[s].buffer # <<>>
    BY <1>1, GivenIs DEF writeSSE
  <1>3. \A a, b \in Seq(Event) : b # <<>> => Append(a, Head(b)) \o Tail(b) = a \o b
    <2> SUFFICES ASSUME NEW a \in Seq(Event), NEW b \in Seq(Event), b # <<>>
                 PROVE  Append(a, Head(b)) \o Tail(b) = a \o b
      OBVIOUS
    <2>1. /\ Head(b) \in Event /\ Tail(b) \in Seq(Event) /\ <<Head(b)>> \in Seq(Event)
          /\ b = <<Head(b)>> \o Tail(b)
      BY HeadTailProperties, HeadTailAppend
    <2>2. Append(a, Head(b)) = a \o <<Head(b)>>
      BY <2>1, AppendIsConcat
    <2>3. (a \o <<Head(b)>>) \o Tail(b) = a \o (<<Head(b)>> \o Tail(b))
      BY <2>1, ConcatAssociative
    <2> QED
      BY <2>1, <2>2, <2>3
  <1>4. ASSUME NEW r \in Stream PROVE Given(r)' = Given(r)
    <2>1. CASE r = s
      <3>1. /\ written'[s] = Append(written[s], Head(stream[s].buffer))
            /\ stream'[s].buffer = Tail(stream[s].buffer)
        BY <1>1 DEF writeSSE, HubTypeOK
      <3> QED
        BY <1>2, <1>3, <2>1, <3>1 DEF Given
    <2>2. CASE r # s
      BY <1>1, <2>2 DEF writeSSE, HubTypeOK, Given
    <2> QED
      BY <2>1, <2>2
  <1> QED
    BY <1>1, <1>4, HubStill DEF writeSSE

\* A stream that registers has nothing to account for yet.
LEMMA HandleInv == ASSUME HubInv, NEW s \in Stream, Handle(s) PROVE HubInv'
  <1>1. HubTypeOK /\ TableHolds /\ HubTypeOK' /\ TableHolds'
    BY HandleType DEF HubInv
  <1>2. \A r \in Stream : stream'[r].buffer = stream[r].buffer
    BY <1>1 DEF Handle, HubTypeOK
  <1>3. /\ \A r \in Stream : Given(r)' = Given(r)
        /\ \A j \in Subject : taken[j] <= taken'[j] /\ taken'[j] \in Nat
    <2>1. taken' = taken
      BY DEF Handle
    <2>2. \A j \in Subject : taken[j] \in Nat /\ taken[j] <= taken[j]
      BY <1>1, HubNumbers
    <2>3. \A r \in Stream : Given(r)' = Given(r)
      BY <1>2 DEF Handle, Given
    <2> QED
      BY <2>1, <2>2, <2>3
  <1>4. ASSUME NEW r \in Stream PROVE Behind(r)' /\ InOrder(r)'
    BY <1>3, OrderKept DEF Handle
  <1>5. ASSUME NEW r \in Stream PROVE NoGap(r)'
    <2>1. CASE r = s
      <3>1. ASSUME NEW j \in Subject PROVE from'[s][j] = taken'[j] /\ taken'[j] \in Nat
        BY <1>1, <1>3 DEF Handle, HubTypeOK
      <3>2. \A j \in Subject : (from'[s][j] + 1)..taken'[j] = {}
        BY <3>1
      <3> QED
        BY <2>1, <3>2 DEF NoGap
    <2>2. CASE r # s
      <3>1. from'[r] = from[r] /\ (r \in subs' => r \in subs)
        BY <1>1, <2>2 DEF Handle, HubTypeOK
      <3> QED
        BY <1>3, <3>1, NoGapKept DEF Handle
    <2> QED
      BY <2>1, <2>2
  <1> QED
    BY <1>1, <1>4, <1>5 DEF HubInv

\* An event the hub takes is newer than all it has handled, and is on its way
\* to every stream in the table that may see it.
LEMMA onMessageInv == ASSUME HubInv, NEW j \in Subject, onMessage(j) PROVE HubInv'
  <1>1. HubTypeOK /\ TableHolds /\ HubTypeOK' /\ TableHolds'
    BY onMessageType DEF HubInv
  <1>2. /\ taken[j] \in Nat /\ taken'[j] = taken[j] + 1
        /\ \A i \in Subject \ {j} : taken'[i] = taken[i] /\ fanout'[i] = fanout[i]
        /\ fanout[j].left = {}
        /\ fanout'[j] = IF Copied(j) = {} THEN NoFanout
                        ELSE [event |-> taken[j] + 1, left |-> Copied(j)]
    BY <1>1, HubNumbers DEF onMessage, HubTypeOK, NoFanout
  <1>3. /\ fanout'[j].left = Copied(j)
        /\ \A s \in Copied(j) : fanout'[j].event = taken[j] + 1
    BY <1>2 DEF NoFanout
  <1>4. \A s \in Stream : Given(s)' = Given(s)
    BY DEF onMessage, Given
  <1>5. ASSUME NEW s \in Stream PROVE Behind(s)'
    <2>1. /\ Behind(s)
          /\ \A i \in DOMAIN Given(s) : Given(s)[i].subject \in Subject /\ Given(s)[i].n \in Nat
          /\ \A i \in Subject : taken[i] \in Nat
      BY <1>1, GivenIs, HubNumbers DEF HubInv
    <2>2. ASSUME NEW i \in DOMAIN Given(s) PROVE Given(s)[i].n <= taken'[Given(s)[i].subject]
      <3>1. Given(s)[i].n <= taken[Given(s)[i].subject]
        BY <2>1 DEF Behind
      <3>2. PICK m \in Subject : m = Given(s)[i].subject
        BY <2>1
      <3>3. CASE m = j
        BY <1>2, <2>1, <3>1, <3>2, <3>3
      <3>4. CASE m # j
        BY <1>2, <2>1, <3>1, <3>2, <3>4
      <3> QED
        BY <3>3, <3>4
    <2>3. ASSUME NEW m \in Subject, s \in fanout'[m].left
          PROVE  /\ 1 <= fanout'[m].event /\ fanout'[m].event <= taken'[m]
                 /\ \A i \in DOMAIN Given(s) : Given(s)[i].subject = m => Given(s)[i].n < fanout'[m].event
      <3>1. CASE m = j
        <4>1. fanout'[m].event = taken[j] + 1
          BY <1>3, <2>3, <3>1
        <4>2. \A i \in DOMAIN Given(s) : Given(s)[i].subject = m => Given(s)[i].n <= taken[j]
          BY <2>1, <3>1 DEF Behind
        <4> QED
          BY <1>2, <2>1, <3>1, <4>1, <4>2
      <3>2. CASE m # j
        <4>1. fanout'[m] = fanout[m] /\ taken'[m] = taken[m]
          BY <1>2, <3>2
        <4> QED
          BY <2>1, <2>3, <4>1 DEF Behind
      <3> QED
        BY <3>1, <3>2
    <2> QED
      BY <1>4, <2>2, <2>3 DEF Behind
  <1>6. ASSUME NEW s \in Stream PROVE InOrder(s)'
    BY <1>4 DEF HubInv, InOrder
  <1>7. ASSUME NEW s \in Stream PROVE NoGap(s)'
    <2> SUFFICES ASSUME gateway = "up", s \in subs, NEW m \in Subject, roleAllows(StreamRole[s], m),
                        NEW n \in (from[s][m] + 1)..taken'[m]
                 PROVE  Accounted(s, m, n)'
      BY DEF NoGap, onMessage
    <2>1. /\ from[s][m] \in Nat /\ taken[m] \in Nat
      BY <1>1, HubConstants, HubNumbers DEF HubTypeOK
    <2>2. CASE n \in (from[s][m] + 1)..taken[m]
      <3>1. Accounted(s, m, n)
        BY <2>2 DEF HubInv, NoGap
      <3>2. skipped' = skipped
        BY DEF onMessage
      <3>3. CASE m = j
        BY <1>2, <1>4, <3>1, <3>2, <3>3 DEF Accounted
      <3>4. CASE m # j
        BY <1>2, <1>4, <3>1, <3>2, <3>4 DEF Accounted
      <3> QED
        BY <3>3, <3>4
    <2>3. CASE n \notin (from[s][m] + 1)..taken[m]
      <3>1. m = j
        BY <1>2, <2>3
      <3>2. n = taken[j] + 1
        BY <1>2, <2>1, <2>3, <3>1
      <3>3. s \in Copied(j)
        BY <3>1 DEF Copied
      <3> QED
        BY <1>3, <3>1, <3>2, <3>3 DEF Accounted
    <2> QED
      BY <2>2, <2>3
  <1> QED
    BY <1>1, <1>5, <1>6, <1>7 DEF HubInv

\* What an offer leaves of what a stream was given.
LEMMA GivenAfterOffer ==
  ASSUME HubTypeOK, NEW s \in Stream, NEW ev \in Event,
         written'[s] = written[s], stream'[s].buffer = Offered(stream[s].buffer, ev)
  PROVE  /\ Len(stream[s].buffer) < Buffer => Given(s)' = Append(Given(s), ev)
         /\ ~(Len(stream[s].buffer) < Buffer) => Given(s)' = Given(s)
  <1>1. written[s] \in Seq(Event) /\ stream[s].buffer \in Seq(Event) /\ <<ev>> \in Seq(Event)
        /\ Given(s) \in Seq(Event)
    BY GivenIs
  <1>2. CASE Len(stream[s].buffer) < Buffer
    <2>1. stream'[s].buffer = stream[s].buffer \o <<ev>>
      BY <1>1, <1>2, AppendIsConcat DEF Offered
    <2>2. written[s] \o (stream[s].buffer \o <<ev>>) = Given(s) \o <<ev>>
      <3>1. \A a, b, c \in Seq(Event) : (a \o b) \o c = a \o (b \o c)
        BY ConcatAssociative
      <3> QED
        BY <1>1, <3>1 DEF Given
    <2>3. Given(s) \o <<ev>> = Append(Given(s), ev)
      BY <1>1, AppendIsConcat
    <2>4. Given(s)' = written[s] \o stream'[s].buffer
      BY DEF Given
    <2> QED
      BY <1>2, <2>1, <2>2, <2>3, <2>4
  <1>3. CASE ~(Len(stream[s].buffer) < Buffer)
    BY <1>3 DEF Offered, Given
  <1> QED
    BY <1>2, <1>3

LEMMA SendInv == ASSUME HubInv, NEW j \in Subject, NEW s \in Stream, Send(j, s) PROVE HubInv'
  <1> DEFINE ev == [subject |-> j, n |-> fanout[j].event]
  <1>1. HubTypeOK /\ TableHolds /\ HubTypeOK' /\ TableHolds'
    BY SendType DEF HubInv
  <1>2. /\ s \in fanout[j].left /\ fanout[j].event \in Nat /\ taken[j] \in Nat
        /\ 1 <= fanout[j].event /\ fanout[j].event <= taken[j] /\ fanout[j].event <= MaxEvents
        /\ \A i \in DOMAIN Given(s) : Given(s)[i].subject = j => Given(s)[i].n < fanout[j].event
    <2>1. s \in fanout[j].left /\ Behind(s) /\ fanout[j].event \in Nat /\ taken[j] \in Nat
      BY <1>1, HubNumbers DEF HubInv, Send
    <2>2. fanout[j].event <= MaxEvents
      BY <1>1, HubConstants DEF HubTypeOK
    <2> QED
      BY <2>1, <2>2 DEF Behind
  <1>3. ev \in Event /\ ev.subject = j /\ ev.n = fanout[j].event
    BY <1>2, HubConstants DEF Event
  <1>4. /\ UNCHANGED <<gateway, taken, subs, from, written>>
        /\ stream'[s].buffer = Offered(stream[s].buffer, ev)
        /\ \A r \in Stream \ {s} : stream'[r] = stream[r] /\ skipped'[r] = skipped[r]
        /\ skipped'[s] = IF Len(stream[s].buffer) < Buffer THEN skipped[s] ELSE skipped[s] \cup {ev}
    BY <1>1 DEF Send, HubTypeOK
  <1>5. /\ \A i \in Subject \ {j} : fanout'[i] = fanout[i]
        /\ fanout'[j].left = fanout[j].left \ {s}
        /\ fanout'[j].left # {} => fanout'[j].event = fanout[j].event
    BY <1>1 DEF Send, Left, NoFanout, HubTypeOK
  <1> HIDE DEF ev
  <1>6. ASSUME NEW i \in Subject, NEW r \in Stream, r \in fanout'[i].left
        PROVE  r \in fanout[i].left /\ fanout'[i].event = fanout[i].event
    BY <1>5, <1>6
  <1>7. \A i \in Subject : taken[i] <= taken'[i] /\ taken'[i] \in Nat
    BY <1>1, <1>4, HubNumbers
  <1>8. ASSUME NEW r \in Stream, r # s PROVE Behind(r)' /\ InOrder(r)' /\ NoGap(r)'
    <2>1. Given(r)' = Given(r)
      BY <1>4, <1>8 DEF Given
    <2>2. Behind(r)' /\ InOrder(r)'
      BY <1>6, <1>7, <2>1, OrderKept
    <2>3. ASSUME NEW m \in Subject, NEW n, Accounted(r, m, n) PROVE Accounted(r, m, n)'
      <3>1. \A i \in Subject : r \in fanout[i].left => r \in fanout'[i].left
        BY <1>5, <1>8
      <3> QED
        BY <1>4, <1>6, <1>8, <2>1, <2>3, <3>1 DEF Accounted
    <2>4. NoGap(r)'
      BY <1>4, <2>3 DEF HubInv, NoGap
    <2> QED
      BY <2>2, <2>4
  <1>9. /\ Given(s) \in Seq(Event) /\ Len(Given(s)) \in Nat /\ DOMAIN Given(s) = 1..Len(Given(s))
        /\ \A i \in DOMAIN Given(s) : Given(s)[i].subject \in Subject /\ Given(s)[i].n \in Nat
    BY <1>1, GivenIs
  <1>10. \/ Given(s)' = Append(Given(s), ev)
         \/ Given(s)' = Given(s) /\ ev \in skipped'[s]
    BY <1>1, <1>3, <1>4, GivenAfterOffer
  <1>11. Behind(s)' /\ InOrder(s)'
    <2>1. CASE Given(s)' = Given(s)
      BY <1>6, <1>7, <2>1, OrderKept
    <2>2. CASE Given(s)' = Append(Given(s), ev)
      <3>1. /\ DOMAIN Given(s)' = 1..(Len(Given(s)) + 1)
            /\ \A i \in 1..Len(Given(s)) : Given(s)'[i] = Given(s)[i]
            /\ Given(s)'[Len(Given(s)) + 1] = ev
        BY <1>3, <1>9, <2>2, AppendProperties, LenProperties
      <3>2. ASSUME NEW i \in DOMAIN Given(s)'
            PROVE  \/ i \in DOMAIN Given(s) /\ Given(s)'[i] = Given(s)[i]
                   \/ i = Len(Given(s)) + 1 /\ Given(s)'[i] = ev
        BY <1>9, <3>1
      <3>3. Behind(s) /\ InOrder(s)
        BY DEF HubInv
      <3>4. ASSUME NEW i \in DOMAIN Given(s)' PROVE Given(s)'[i].n <= taken[Given(s)'[i].subject]
        BY <1>2, <1>3, <3>2, <3>3 DEF Behind
      <3>5. ASSUME NEW m \in Subject, s \in fanout'[m].left
            PROVE  /\ 1 <= fanout'[m].event /\ fanout'[m].event <= taken[m]
                   /\ \A i \in DOMAIN Given(s)' :
                         Given(s)'[i].subject = m => Given(s)'[i].n < fanout'[m].event
        <4>1. m # j /\ s \in fanout[m].left /\ fanout'[m].event = fanout[m].event
          BY <1>5, <1>6, <3>5
        <4> QED
          BY <1>3, <3>2, <3>3, <4>1 DEF Behind
      <3>6. Behind(s)'
        BY <1>4, <3>4, <3>5 DEF Behind
      <3>7. ASSUME NEW i \in DOMAIN Given(s)', NEW k \in DOMAIN Given(s)', i < k,
                   Given(s)'[i].subject = Given(s)'[k].subject
            PROVE  Given(s)'[i].n < Given(s)'[k].n
        <4>1. i \in DOMAIN Given(s) /\ Given(s)'[i] = Given(s)[i]
          BY <1>9, <3>1, <3>7
        <4>2. CASE k \in DOMAIN Given(s) /\ Given(s)'[k] = Given(s)[k]
          BY <3>3, <3>7, <4>1, <4>2 DEF InOrder
        <4>3. CASE Given(s)'[k] = ev
          BY <1>2, <1>3, <3>7, <4>1, <4>3
        <4> QED
          BY <3>2, <4>2, <4>3
      <3>8. InOrder(s)'
        BY <3>7 DEF InOrder
      <3> QED
        BY <3>6, <3>8
    <2> QED
      BY <1>10, <2>1, <2>2
  <1>12. ASSUME NEW m \in Subject, NEW n, Accounted(s, m, n) PROVE Accounted(s, m, n)'
    <2>1. skipped[s] \subseteq skipped'[s]
      BY <1>4
    <2>2. ToSet(Given(s)) \subseteq ToSet(Given(s)')
      <3>1. CASE Given(s)' = Given(s)
        BY <3>1
      <3>2. CASE Given(s)' = Append(Given(s), ev)
        <4>1. /\ DOMAIN Given(s)' = 1..(Len(Given(s)) + 1)
              /\ \A i \in 1..Len(Given(s)) : Given(s)'[i] = Given(s)[i]
          BY <1>3, <1>9, <3>2, AppendProperties, LenProperties
        <4>2. \A i \in 1..Len(Given(s)) : i \in 1..(Len(Given(s)) + 1)
          BY <1>9
        <4> QED
          BY <1>9, <4>1, <4>2 DEF ToSet
      <3> QED
        BY <1>10, <3>1, <3>2
    <2>3. ev \in ToSet(Given(s)') \cup skipped'[s]
      <3>1. CASE Given(s)' = Append(Given(s), ev)
        <4>1. /\ DOMAIN Given(s)' = 1..(Len(Given(s)) + 1)
              /\ Given(s)'[Len(Given(s)) + 1] = ev
          BY <1>3, <1>9, <3>1, AppendProperties, LenProperties
        <4>2. Len(Given(s)) + 1 \in 1..(Len(Given(s)) + 1)
          BY <1>9
        <4> QED
          BY <4>1, <4>2 DEF ToSet
      <3> QED
        BY <1>10, <3>1
    <2>4. CASE [subject |-> m, n |-> n] \in ToSet(Given(s)) \cup skipped[s]
      BY <2>1, <2>2, <2>4 DEF Accounted
    <2>5. CASE fanout[m].event = n /\ s \in fanout[m].left
      <3>1. CASE m = j
        <4>1. [subject |-> m, n |-> n] = ev
          BY <2>5, <3>1 DEF ev
        <4> QED
          BY <2>3, <4>1 DEF Accounted
      <3>2. CASE m # j
        BY <1>5, <2>5, <3>2 DEF Accounted
      <3> QED
        BY <3>1, <3>2
    <2> QED
      BY <1>12, <2>4, <2>5 DEF Accounted
  <1>13. NoGap(s)'
    BY <1>4, <1>12 DEF HubInv, NoGap
  <1> QED
    BY <1>1, <1>8, <1>11, <1>13 DEF HubInv

LEMMA HubInvariant == HubSpec => []HubInv
  <1>1. HubInv /\ UNCHANGED hubVars => HubInv'
    <2> SUFFICES ASSUME HubInv, UNCHANGED hubVars PROVE HubInv'
      OBVIOUS
    <2>1. /\ UNCHANGED <<gateway, attached, published, taken, fanout, stream, subs>>
          /\ UNCHANGED <<written, from, skipped>>
      BY DEF hubVars
    <2>2. HubTypeOK' /\ TableHolds'
      BY <2>1 DEF HubInv, HubTypeOK, TableHolds
    <2>3. \A s \in Stream : Given(s)' = Given(s)
      BY <2>1 DEF Given
    <2> QED
      BY <2>1, <2>2, <2>3, HubStill
  <1>2. HubInv /\ HubNext => HubInv'
    <2>1. ASSUME HubInv, Attach \/ Stop \/ Exit \/ Restart PROVE HubInv'
      BY <2>1, SwitchInv, StopInv, GoneInv DEF Exit
    <2>2. ASSUME HubInv, NEW j \in Subject, Publish(j) \/ onMessage(j) PROVE HubInv'
      BY <2>2, PublishInv, onMessageInv
    <2>3. ASSUME HubInv, NEW j \in Subject, NEW s \in Stream, Send(j, s) \/ SendOnClosed(j, s)
          PROVE  HubInv'
      BY <2>3, SendInv, GoneInv DEF SendOnClosed
    <2>4. ASSUME HubInv, NEW s \in Stream, Handle(s) \/ writeSSE(s) \/ Leave(s) \/ shutdown(s)
          PROVE  HubInv'
      BY <2>4, HandleInv, writeSSEInv, LeaveInv
    <2> QED
      BY <2>1, <2>2, <2>3, <2>4 DEF HubNext
  <1>3. HubInv /\ [HubNext]_hubVars => HubInv'
    BY <1>1, <1>2
  <1> QED
    BY <1>3, HubInitInv, PTL DEF HubSpec

\* The hub's tables keep their types: no stream's buffer holds more than its
\* channel does, and no subject is handled ahead of what was published.
THEOREM HubTypeCorrect == HubSpec => []HubTypeOK
  <1>1. HubInv => HubTypeOK
    BY DEF HubInv
  <1> QED
    BY <1>1, HubInvariant, PTL

\* For any subjects, roles, streams and buffer, through panics, signals and
\* restarts: a client gets a subject's events in order, and one handled while
\* its stream was in the table is missing only if the buffer was full or the
\* send is still to come.
THEOREM GapsAreFullBuffers == HubSpec => []GapsOnlyWhenFull
  <1>1. HubInv => GapsOnlyWhenFull
    BY DEF HubInv, InOrder, NoGap, Accounted, GapsOnlyWhenFull
  <1> QED
    BY <1>1, HubInvariant, PTL

-----------------------------------------------------------------------------
(* Accounts.                                                               *)

\* The handlers that have read a row and not yet written it.
Reading == {r \in Task : task[r] # Free}

\* A row that was read stays, deleted or not.
ReadRowsStay == \A r \in Reading : account[task[r].user] # Nobody

\* What a handler will write as the role: the one its request names; without one,
\* the role last given, unless another was given since or the row it read was
\* behind already.
RolesToWrite ==
    \A r \in Reading :
        IF task[r].role # "" THEN task[r].new.role = task[r].role
        ELSE task[r].new.role = granted[task[r].user] \/ task[r].overtaken

\* RoleAsGiven, also of deleted rows, which WriteUser leaves alone.
RolesHold == \A u \in User : account[u] # Nobody => account[u].role = granted[u] \/ u \in raced

AccountsInv == AccountsTypeOK /\ ReadRowsStay /\ RolesToWrite /\ RolesHold

LEMMA AccountConstants ==
    /\ "none" \notin Email /\ AdminEmail \in Email /\ AdminPassword \in Password
    /\ "admin" \in AccountRole
  BY AccountsAssumption

\* A handler's locals are an update, or it is free.
LEMMA UpdateIsNotFree == Free \notin Update /\ \A x \in Update : x.op = "update" /\ x # Free
  <1>1. \A x \in Update : x.op = "update"
    BY DEF Update
  <1>2. Free.op = "free"
    BY DEF Free
  <1> QED
    BY <1>1, <1>2

LEMMA MemberOrNot == ASSUME NEW x, NEW S PROVE (x \in S) \in BOOLEAN
  OBVIOUS

\* A row with an address is a row.
LEMMA RowIsSomebody == \A x \in UserRow : x # Nobody /\ x.email # "none"
  <1>1. \A x \in UserRow : x.email \in Email
    BY DEF UserRow
  <1>2. Nobody.email = "none"
    BY DEF Nobody
  <1> QED
    BY <1>1, <1>2, AccountConstants

LEMMA AccountsInitInv == AccountsInit => AccountsInv
  <1> SUFFICES ASSUME AccountsInit PROVE AccountsInv
    OBVIOUS
  <1>1. PICK admin \in User :
           /\ account = [u \in User |-> IF u = admin THEN NewRow(AdminEmail, "admin", AdminPassword)
                                        ELSE Nobody]
           /\ granted = [u \in User |-> IF u = admin THEN "admin" ELSE "none"]
           /\ jwt  = {}
           /\ task = [r \in Task |-> Free]
           /\ raced = {}
    BY DEF AccountsInit
  <1>2. NewRow(AdminEmail, "admin", AdminPassword) \in UserRow
    BY AccountConstants DEF NewRow, UserRow
  <1>3. AccountsTypeOK
    <2>1. ASSUME NEW u \in User, NEW v \in User, account[u] # Nobody,
                 account[u].email = account[v].email
          PROVE  u = v
      <3>1. u = admin /\ account[u].email = AdminEmail
        BY <1>1, <2>1 DEF NewRow
      <3>2. v # admin => account[v].email = "none"
        BY <1>1 DEF Nobody
      <3> QED
        BY <2>1, <3>1, <3>2, AccountConstants
    <2> QED
      BY <1>1, <1>2, <2>1, AccountConstants DEF AccountsTypeOK
  <1>4. Reading = {}
    BY <1>1 DEF Reading
  <1>5. RolesHold
    BY <1>1 DEF RolesHold, NewRow
  <1> QED
    BY <1>3, <1>4, <1>5 DEF AccountsInv, ReadRowsStay, RolesToWrite

\* Steps that hand out or drop tokens.
LEMMA TokensInv ==
  ASSUME AccountsInv, UNCHANGED <<account, task, granted, raced>>,
         jwt' \subseteq [kind : {"access", "refresh"}, user : User, role : AccountRole \cup {"none"}]
  PROVE  AccountsInv'
  BY DEF AccountsInv, AccountsTypeOK, ReadRowsStay, RolesToWrite, RolesHold, Reading

LEMMA TokenPairs ==
  ASSUME AccountsInv, NEW u \in GetUserByID, GenerateTokenPair(u)
  PROVE  jwt' \subseteq [kind : {"access", "refresh"}, user : User, role : AccountRole \cup {"none"}]
  <1>1. u \in User /\ account[u] \in UserRow
    BY DEF GetUserByID, AccountsInv, AccountsTypeOK
  <1>2. account[u].role \in AccountRole
    BY <1>1 DEF UserRow
  <1> QED
    BY <1>1, <1>2 DEF GenerateTokenPair, AccountsInv, AccountsTypeOK

\* A new row, by an administrator or by the seed after a restart, which finds
\* every handler gone.
LEMMA CreateInv ==
  ASSUME AccountsInv, NEW u, NEW e \in Email, NEW role \in AccountRole, NEW p \in Password,
         CreateUserRow(u, e, role, p), UNCHANGED jwt,
         UNCHANGED task \/ task' = [r \in Task |-> Free]
  PROVE  AccountsInv'
  <1>1. u \in User /\ account[u] = Nobody /\ NewRow(e, role, p) \in UserRow
    BY DEF CreateUserRow, Unused, NewRow, UserRow
  <1>2. account' = [account EXCEPT ![u] = NewRow(e, role, p)]
    BY DEF CreateUserRow
  <1>3. NewRow(e, role, p).email = e /\ NewRow(e, role, p).role = role
    BY DEF NewRow
  <1>4. \A v \in User \ {u} : account'[v] = account[v] /\ granted'[v] = granted[v]
    BY <1>1, <1>2 DEF CreateUserRow, AccountsInv, AccountsTypeOK
  <1>5. account'[u] = NewRow(e, role, p) /\ granted'[u] = role
    BY <1>1, <1>2 DEF CreateUserRow, AccountsInv, AccountsTypeOK
  <1>6. AccountsTypeOK'
    <2>1. account' \in [User -> UserRow \cup {Nobody}]
      BY <1>1, <1>2 DEF AccountsInv, AccountsTypeOK
    <2>2. ASSUME NEW v \in User, NEW w \in User, account'[v] # Nobody,
                 account'[v].email = account'[w].email
          PROVE  v = w
      <3>1. \A x \in User : account[x] # Nobody => account[x].email # e
        BY DEF CreateUserRow, Taken
      <3>2. \A x \in User : account[x] = Nobody => account[x].email # e
        BY AccountConstants DEF Nobody
      <3>3. v # u /\ w # u => v = w
        BY <1>4, <2>2 DEF AccountsInv, AccountsTypeOK
      <3> QED
        BY <1>3, <1>4, <1>5, <2>2, <3>1, <3>2, <3>3
    <2>3. granted' \in [User -> AccountRole \cup {"none"}]
      BY <1>1 DEF CreateUserRow, AccountsInv, AccountsTypeOK
    <2>4. task' \in [Task -> Update \cup {Free}]
      BY DEF AccountsInv, AccountsTypeOK
    <2> QED
      BY <2>1, <2>2, <2>3, <2>4 DEF CreateUserRow, AccountsInv, AccountsTypeOK
  <1>7. ASSUME NEW r \in Reading'
        PROVE  /\ r \in Reading /\ task'[r] = task[r]
               /\ task[r].user \in User /\ task[r].user # u
    <2>1. r \in Task /\ task'[r] # Free
      BY DEF Reading
    <2>2. task' = task
      BY <2>1
    <2>3. r \in Reading /\ task[r] \in Update
      BY <2>1, <2>2 DEF Reading, AccountsInv, AccountsTypeOK
    <2> QED
      BY <1>1, <2>2, <2>3 DEF Update, AccountsInv, ReadRowsStay
  <1>8. ReadRowsStay'
    BY <1>4, <1>7 DEF AccountsInv, ReadRowsStay
  <1>9. RolesToWrite'
    <2>1. ASSUME NEW r \in Reading'
          PROVE  IF task'[r].role # "" THEN task'[r].new.role = task'[r].role
                 ELSE task'[r].new.role = granted'[task'[r].user] \/ task'[r].overtaken
      <3>1. IF task[r].role # "" THEN task[r].new.role = task[r].role
            ELSE task[r].new.role = granted[task[r].user] \/ task[r].overtaken
        BY <1>7 DEF AccountsInv, RolesToWrite
      <3>2. granted'[task[r].user] = granted[task[r].user] /\ task'[r] = task[r]
        BY <1>4, <1>7
      <3> QED
        BY <3>1, <3>2
    <2> QED
      BY <2>1 DEF RolesToWrite
  <1>10. RolesHold'
    BY <1>3, <1>4, <1>5 DEF CreateUserRow, AccountsInv, RolesHold
  <1> QED
    BY <1>6, <1>8, <1>9, <1>10 DEF AccountsInv

\* A handler reads a row.
LEMMA ReadInv ==
  ASSUME AccountsInv, NEW r \in Task, NEW u, NEW e \in Email \cup {""},
         NEW role \in AccountRole \cup {""}, ReadUser(r, u, e, role)
  PROVE  AccountsInv'
  <1> DEFINE new == Merged(account[u], e, role)
             local == [op |-> "update", user |-> u, role |-> role, new |-> new,
                       overtaken |-> u \in raced]
  <1>1. u \in User /\ account[u] # Nobody /\ account[u] \in UserRow
    BY DEF ReadUser, GetUserByID, AccountsInv, AccountsTypeOK
  <1>2. new \in [email : Email, role : AccountRole]
    BY <1>1 DEF Merged, UserRow
  <1>3. new.role = IF role = "" THEN account[u].role ELSE role
    BY DEF Merged
  <1>4. task' = [task EXCEPT ![r] = local] /\ UNCHANGED <<account, jwt, granted, raced>>
    BY DEF ReadUser
  <1>5. local \in Update
    <2>1. \A n \in [email : Email, role : AccountRole], late \in BOOLEAN :
             [op |-> "update", user |-> u, role |-> role, new |-> n, overtaken |-> late] \in Update
      BY <1>1 DEF Update
    <2>2. (u \in raced) \in BOOLEAN
      BY MemberOrNot
    <2> HIDE DEF new
    <2> QED
      BY <1>2, <2>1, <2>2
  <1>6. local.user = u /\ local.role = role /\ local.new = new /\ (local.overtaken <=> u \in raced)
    OBVIOUS
  <1> HIDE DEF new, local
  <1>7. AccountsTypeOK'
    BY <1>4, <1>5 DEF AccountsInv, AccountsTypeOK
  <1>8. task'[r] = local /\ \A q \in Task \ {r} : task'[q] = task[q]
    BY <1>4 DEF AccountsInv, AccountsTypeOK
  <1>9. \A q \in Reading' : q = r \/ (q \in Reading /\ task'[q] = task[q])
    BY <1>8 DEF Reading
  <1>10. ReadRowsStay'
    BY <1>1, <1>4, <1>6, <1>8, <1>9 DEF AccountsInv, ReadRowsStay
  <1>11. RolesToWrite'
    <2>1. role = "" => new.role = granted[u] \/ u \in raced
      BY <1>1, <1>3 DEF AccountsInv, RolesHold
    <2>2. IF role # "" THEN local.new.role = local.role
          ELSE local.new.role = granted[local.user] \/ local.overtaken
      BY <1>3, <1>6, <2>1
    <2>3. ASSUME NEW q \in Reading'
          PROVE  IF task'[q].role # "" THEN task'[q].new.role = task'[q].role
                 ELSE task'[q].new.role = granted[task'[q].user] \/ task'[q].overtaken
      <3>1. CASE q = r
        BY <1>6, <1>8, <2>2, <3>1
      <3>2. CASE q \in Reading /\ task'[q] = task[q]
        BY <3>2 DEF AccountsInv, RolesToWrite
      <3> QED
        BY <1>9, <3>1, <3>2
    <2> QED
      BY <1>4, <2>3 DEF RolesToWrite
  <1>12. RolesHold'
    BY <1>4 DEF AccountsInv, RolesHold
  <1> QED
    BY <1>7, <1>10, <1>11, <1>12 DEF AccountsInv

\* WriteUser: the fields of the row it changes, and the locals it marks.
LEMMA WriteInv ==
  ASSUME AccountsInv, NEW r \in Task, WriteUser(r)
  PROVE  AccountsInv'
  <1> DEFINE t == task[r]
             u == t.user
             ok == u \in GetUserByID /\ ~Taken(t.new.email, {u})
  <1>1. /\ t \in Update /\ r \in Reading /\ u \in User /\ account[u] \in UserRow
        /\ account[u] # Nobody
    <2>1. t.op = "update" /\ Free.op = "free"
      BY DEF WriteUser, Free
    <2>2. t \in Update /\ r \in Reading
      BY <2>1 DEF Reading, AccountsInv, AccountsTypeOK
    <2>3. u \in User
      BY <2>2 DEF Update
    <2> QED
      BY <2>2, <2>3 DEF AccountsInv, AccountsTypeOK, ReadRowsStay
  <1>2. t.new.email \in Email /\ t.new.role \in AccountRole /\ t.role \in AccountRole \cup {""}
    BY <1>1 DEF Update
  <1>3. /\ account' = IF ok THEN [account EXCEPT ![u].email = t.new.email, ![u].role = t.new.role]
                      ELSE account
        /\ granted' = IF ok /\ t.role # "" THEN [granted EXCEPT ![u] = t.role] ELSE granted
        /\ raced' = IF ~ok THEN raced
                    ELSE IF t.role # "" THEN raced \ {u}
                    ELSE IF t.overtaken THEN raced \cup {u} ELSE raced
        /\ task' = [q \in Task |->
                       IF q = r THEN Free
                       ELSE IF ok /\ t.role # "" /\ task[q] # Free /\ task[q].user = u
                       THEN [task[q] EXCEPT !.overtaken = TRUE] ELSE task[q]]
        /\ jwt' = jwt
    BY DEF WriteUser
  <1>4. ok => ~Taken(t.new.email, {u})
    OBVIOUS
  <1> HIDE DEF ok, u, t
  <1>5. \A v \in User \ {u} : account'[v] = account[v] /\ granted'[v] = granted[v]
    BY <1>3 DEF AccountsInv, AccountsTypeOK
  <1>6. ok => /\ account'[u] \in UserRow /\ account'[u].email = t.new.email
              /\ account'[u].role = t.new.role
    <2>1. ok => account'[u] = [[account[u] EXCEPT !.email = t.new.email] EXCEPT !.role = t.new.role]
      BY <1>1, <1>3 DEF AccountsInv, AccountsTypeOK
    <2> QED
      BY <1>1, <1>2, <2>1 DEF UserRow
  <1>7. ~ok => UNCHANGED <<account, granted, raced>>
    BY <1>3
  <1>8. account' \in [User -> UserRow \cup {Nobody}]
    <2>1. CASE ok
      <3>1. DOMAIN account' = User /\ account' = [v \in User |-> account'[v]]
        BY <1>3, <2>1 DEF AccountsInv, AccountsTypeOK
      <3> QED
        BY <1>5, <1>6, <2>1, <3>1 DEF AccountsInv, AccountsTypeOK
    <2> QED
      BY <1>7, <2>1 DEF AccountsInv, AccountsTypeOK
  <1>9. ASSUME NEW v \in User, NEW w \in User, account'[v] # Nobody,
               account'[v].email = account'[w].email
        PROVE  v = w
    <2>1. CASE ok
      <3>1. \A x \in User \ {u} : account[x] # Nobody => account[x].email # t.new.email
        BY <1>4, <2>1 DEF Taken
      <3>2. \A x \in User : account[x] = Nobody => account[x].email # t.new.email
        <4>1. Nobody.email = "none" /\ t.new.email # "none"
          BY <1>2, AccountConstants DEF Nobody
        <4> QED
          BY <4>1
      <3>3. v # u /\ w # u => v = w
        BY <1>5, <1>9 DEF AccountsInv, AccountsTypeOK
      <3> QED
        BY <1>5, <1>6, <1>9, <2>1, <3>1, <3>2, <3>3
    <2>2. CASE ~ok
      BY <1>7, <1>9, <2>2 DEF AccountsInv, AccountsTypeOK
    <2> QED
      BY <2>1, <2>2
  <1>10. task' \in [Task -> Update \cup {Free}]
    <2>1. ASSUME NEW x \in Update PROVE [x EXCEPT !.overtaken = TRUE] \in Update
      BY DEF Update
    <2>2. \A q \in Task : task[q] \in Update \/ task[q] = Free
      BY DEF AccountsInv, AccountsTypeOK
    <2> QED
      BY <1>3, <2>1, <2>2
  <1>11. granted' \in [User -> AccountRole \cup {"none"}] /\ raced' \subseteq User
    <2>1. t.role # "" => t.role \in AccountRole
      BY <1>2
    <2> QED
      BY <1>1, <1>3, <2>1 DEF AccountsInv, AccountsTypeOK
  <1>12. AccountsTypeOK'
    BY <1>3, <1>8, <1>9, <1>10, <1>11 DEF AccountsInv, AccountsTypeOK
  <1>13. ASSUME NEW q \in Reading'
         PROVE  /\ q \in Reading /\ task'[q].user = task[q].user /\ task'[q].role = task[q].role
                /\ task'[q].new = task[q].new
                /\ task[q].overtaken \/ (ok /\ t.role # "" /\ task[q].user = u) => task'[q].overtaken
    <2>1. q \in Task /\ task'[q] # Free
      BY DEF Reading
    <2>2. q # r /\ task'[q] = IF ok /\ t.role # "" /\ task[q] # Free /\ task[q].user = u
                              THEN [task[q] EXCEPT !.overtaken = TRUE] ELSE task[q]
      BY <1>3, <2>1
    <2>3. task[q] # Free /\ task[q] \in Update /\ q \in Reading
      BY <2>1, <2>2 DEF Reading, AccountsInv, AccountsTypeOK
    <2> QED
      BY <2>2, <2>3 DEF Update
  <1>14. ASSUME NEW q \in Reading PROVE task[q].user \in User
    <2>1. task[q] \in Update
      BY DEF Reading, AccountsInv, AccountsTypeOK
    <2> QED
      BY <2>1 DEF Update
  <1>15. ReadRowsStay'
    <2>1. \A v \in User : account[v] # Nobody => account'[v] # Nobody
      BY <1>5, <1>6, <1>7, RowIsSomebody
    <2> QED
      BY <1>13, <1>14, <2>1 DEF AccountsInv, ReadRowsStay
  <1>16. RolesToWrite'
    <2>1. ASSUME NEW q \in Reading'
          PROVE  IF task'[q].role # "" THEN task'[q].new.role = task'[q].role
                 ELSE task'[q].new.role = granted'[task'[q].user] \/ task'[q].overtaken
      <3>1. IF task[q].role # "" THEN task[q].new.role = task[q].role
            ELSE task[q].new.role = granted[task[q].user] \/ task[q].overtaken
        BY <1>13 DEF AccountsInv, RolesToWrite
      <3>2. granted'[task[q].user] = granted[task[q].user]
              \/ (ok /\ t.role # "" /\ task[q].user = u)
        BY <1>3, <1>5, <1>13, <1>14
      <3> QED
        BY <1>13, <3>1, <3>2
    <2> QED
      BY <2>1 DEF RolesToWrite
  <1>17. RolesHold'
    <2>1. ASSUME NEW v \in User \ {u}, account'[v] # Nobody
          PROVE  account'[v].role = granted'[v] \/ v \in raced'
      BY <1>3, <1>5, <2>1 DEF AccountsInv, RolesHold
    <2>2. CASE ok
      <3>1. IF t.role # "" THEN t.new.role = t.role
            ELSE t.new.role = granted[u] \/ t.overtaken
        BY <1>1 DEF AccountsInv, RolesToWrite, t, u
      <3>2. t.role # "" => granted'[u] = t.role
        BY <1>1, <1>3, <2>2 DEF AccountsInv, AccountsTypeOK
      <3>3. t.role = "" => granted'[u] = granted[u] /\ (t.overtaken => u \in raced')
        BY <1>3, <2>2
      <3>4. account'[u].role = granted'[u] \/ u \in raced'
        BY <1>6, <2>2, <3>1, <3>2, <3>3
      <3> QED
        BY <2>1, <3>4 DEF RolesHold
    <2>3. CASE ~ok
      BY <1>7, <2>3 DEF AccountsInv, RolesHold
    <2> QED
      BY <2>2, <2>3
  <1> QED
    BY <1>12, <1>15, <1>16, <1>17 DEF AccountsInv

\* The row of a deleted user stays, with its address and role.
LEMMA DeleteInv ==
  ASSUME AccountsInv, NEW u \in GetUserByID, account' = [account EXCEPT ![u].deleted = TRUE],
         UNCHANGED <<jwt, task, granted, raced>>
  PROVE  AccountsInv'
  <1>1. u \in User /\ account[u] \in UserRow
    BY DEF GetUserByID, AccountsInv, AccountsTypeOK
  <1>2. account'[u] = [account[u] EXCEPT !.deleted = TRUE] /\ \A v \in User \ {u} : account'[v] = account[v]
    BY <1>1 DEF AccountsInv, AccountsTypeOK
  <1>3. account'[u] \in UserRow /\ account'[u].email = account[u].email /\ account'[u].role = account[u].role
    <2>1. \A x \in UserRow : /\ [x EXCEPT !.deleted = TRUE] \in UserRow
                            /\ [x EXCEPT !.deleted = TRUE].email = x.email
                            /\ [x EXCEPT !.deleted = TRUE].role = x.role
      BY DEF UserRow
    <2> QED
      BY <1>1, <1>2, <2>1
  <1>4. account' \in [User -> UserRow \cup {Nobody}]
    <2>1. [account[u] EXCEPT !.deleted = TRUE] \in UserRow
      BY <1>2, <1>3
    <2> QED
      BY <2>1 DEF AccountsInv, AccountsTypeOK
  <1>5. \A v \in User : /\ account'[v].email = account[v].email /\ account'[v].role = account[v].role
                        /\ account'[v] # Nobody <=> account[v] # Nobody
    BY <1>1, <1>2, <1>3, RowIsSomebody
  <1>6. AccountsTypeOK'
    BY <1>4, <1>5 DEF AccountsInv, AccountsTypeOK
  <1>7. \A q \in Reading : task[q].user \in User
    <2>1. \A q \in Reading : task[q] \in Update
      BY DEF Reading, AccountsInv, AccountsTypeOK
    <2> QED
      BY <2>1 DEF Update
  <1>8. Reading' = Reading
    BY DEF Reading
  <1>9. ReadRowsStay' /\ RolesToWrite'
    BY <1>5, <1>7, <1>8 DEF AccountsInv, ReadRowsStay, RolesToWrite
  <1>10. RolesHold'
    BY <1>5 DEF AccountsInv, RolesHold
  <1> QED
    BY <1>6, <1>9, <1>10 DEF AccountsInv

\* The handlers are gone and nothing else has changed.
LEMMA HandlersGoneInv ==
  ASSUME AccountsInv, task' = [r \in Task |-> Free], UNCHANGED <<account, jwt, granted, raced>>
  PROVE  AccountsInv'
  <1>1. Reading' = {}
    BY DEF Reading
  <1> QED
    BY <1>1 DEF AccountsInv, AccountsTypeOK, ReadRowsStay, RolesToWrite, RolesHold

LEMMA AccountsStep == AccountsInv /\ [AccountsNext]_accountVars => AccountsInv'
  <1> SUFFICES ASSUME AccountsInv, [AccountsNext]_accountVars PROVE AccountsInv'
    OBVIOUS
  <1>1. CASE UNCHANGED accountVars
    BY <1>1 DEF accountVars, AccountsInv, AccountsTypeOK, ReadRowsStay, RolesToWrite, RolesHold,
                Reading
  <1>2. ASSUME NEW e \in Email, NEW p \in Password, Login(e, p) PROVE AccountsInv'
    <2>1. PICK u \in GetUserByEmail(e) : GenerateTokenPair(u)
      BY <1>2 DEF Login
    <2>2. u \in GetUserByID
      BY DEF GetUserByEmail
    <2> QED
      BY <1>2, <2>1, <2>2, TokenPairs, TokensInv DEF Login
  <1>3. ASSUME NEW k \in jwt, Refresh(k) PROVE AccountsInv'
    BY <1>3, TokenPairs, TokensInv DEF Refresh
  <1>4. ASSUME NEW k \in jwt, ExpireToken(k) PROVE AccountsInv'
    BY <1>4, TokensInv DEF ExpireToken, AccountsInv, AccountsTypeOK
  <1>5. ASSUME NEW k \in jwt, NEW u \in User, NEW e \in Email, NEW role \in AccountRole,
               NEW p \in Password, Register(k, u, e, role, p) \/ CreateUser(k, u, e, role, p)
        PROVE  AccountsInv'
    BY <1>5, CreateInv DEF Register, CreateUser
  <1>6. ASSUME NEW r \in Task, NEW k \in jwt, NEW e \in Email \cup {""}, UpdateProfile(r, k, e)
        PROVE  AccountsInv'
    <2>1. "" \in AccountRole \cup {""} /\ ReadUser(r, Headers(k).user, e, "")
      BY <1>6 DEF UpdateProfile
    <2> QED
      BY <2>1, ReadInv
  <1>7. ASSUME NEW r \in Task, NEW k \in jwt, NEW e \in Email \cup {""}, NEW u \in User,
               NEW role \in AccountRole \cup {""}, UpdateUser(r, k, u, e, role)
        PROVE  AccountsInv'
    BY <1>7, ReadInv DEF UpdateUser
  <1>8. ASSUME NEW k \in jwt, NEW u \in User, DeleteUser(k, u) PROVE AccountsInv'
    BY <1>8, DeleteInv DEF DeleteUser
  <1>9. ASSUME NEW r \in Task, WriteUser(r) PROVE AccountsInv'
    BY <1>9, WriteInv
  <1>10. CASE RestartUsers
    <2>1. task' = [r \in Task |-> Free] /\ UNCHANGED jwt
      BY <1>10 DEF RestartUsers
    <2>2. \/ UNCHANGED <<account, granted, raced>>
          \/ \E u \in Unused : CreateUserRow(u, AdminEmail, "admin", AdminPassword)
      BY <1>10 DEF RestartUsers
    <2> QED
      BY <2>1, <2>2, HandlersGoneInv, CreateInv, AccountConstants
  <1> QED
    BY <1>1, <1>2, <1>3, <1>4, <1>5, <1>6, <1>7, <1>8, <1>9, <1>10 DEF AccountsNext

LEMMA AccountsInvariant == AccountsSpec => []AccountsInv
  BY AccountsInitInv, AccountsStep, PTL DEF AccountsSpec

\* The tables keep their types, and no two users, deleted or not, ever have one
\* address, although updates check and write in handlers that do not wait for
\* each other.
THEOREM AccountsTypeCorrect == AccountsSpec => []AccountsTypeOK
  <1>1. AccountsInv => AccountsTypeOK
    BY DEF AccountsInv
  <1> QED
    BY <1>1, AccountsInvariant, PTL

\* For any users, roles and handlers: a user has the role an administrator last
\* gave, unless an update that had read the row before that wrote the old one back.
THEOREM RolesAreAsGiven == AccountsSpec => []RoleAsGiven
  <1>1. AccountsInv => RoleAsGiven
    BY DEF AccountsInv, RolesHold, RoleAsGiven, GetUserByID
  <1> QED
    BY <1>1, AccountsInvariant, PTL

-----------------------------------------------------------------------------
(* Password resets.                                                        *)

\* A token that a request was told it used is marked as used, and no more than
\* one was told so.
ToldOnce ==
    \A t \in ResetToken : confirmed[t] <= 1 /\ (confirmed[t] = 1 => reset[t].used)

Marks(r) == confirm[r] # NoConfirm /\ confirm[r].at = "mark"

\* A request that has written the hash and not yet marked its token: what it wrote
\* is in force, unless another wrote while it was there.
WrittenHolds ==
    \A r \in Confirm : Marks(r) =>
        hash[confirm[r].user] = confirm[r].password \/ confirm[r].user \in untold

\* The second part of ResetIsTold.
InForce == \A u \in Owner : hash[u] = told[u] \/ u \in untold \cup Marking

\* The token a request brought has a row, of the user whose hash it writes.
TokensKnown ==
    \A r \in Confirm : confirm[r].at \in {"hash", "mark"} =>
        confirm[r].token \in Inserted /\ reset[confirm[r].token].user = confirm[r].user

ResetsInv == ResetsTypeOK /\ TokensKnown /\ ToldOnce /\ WrittenHolds /\ InForce

\* What a handler has read tells where it is.
LEMMA ConfirmCases ==
  ASSUME ResetsTypeOK, NEW r \in Confirm
  PROVE  /\ confirm[r] = NoConfirm => confirm[r].at = "free"
         /\ confirm[r].at = "insert" => confirm[r] \in Requested /\ confirm[r].user \in Owner
         /\ confirm[r].at \in {"hash", "mark"} => confirm[r] \in Confirming
         /\ Marks(r) <=> confirm[r].at = "mark"
  <1>1. NoConfirm.at = "free"
    BY DEF NoConfirm
  <1>2. \A c \in Requested : c.at = "insert" /\ c.user \in Owner
    BY DEF Requested
  <1>3. \A c \in Confirming : c.at \in {"hash", "mark"}
    BY DEF Confirming
  <1>4. confirm[r] \in Requested \/ confirm[r] \in Confirming \/ confirm[r] = NoConfirm
    BY DEF ResetsTypeOK
  <1> QED
    BY <1>1, <1>2, <1>3, <1>4 DEF Marks

LEMMA ConfirmFields ==
  \A c \in Confirming : /\ c.token \in ResetToken /\ c.user \in Owner /\ c.password \in Secret
                       /\ [c EXCEPT !.at = "mark"] \in Confirming
                       /\ [c EXCEPT !.at = "mark"].at = "mark"
                       /\ [c EXCEPT !.at = "mark"].user = c.user
                       /\ [c EXCEPT !.at = "mark"].password = c.password
  BY DEF Confirming

LEMMA MarkingIs == ASSUME ResetsTypeOK
                   PROVE  Marking = {confirm[r].user : r \in {q \in Confirm : Marks(q)}}
  BY ConfirmCases DEF Marking

LEMMA ResetsInitInv == ResetsInit => ResetsInv
  <1> SUFFICES ASSUME ResetsInit PROVE ResetsInv
    OBVIOUS
  <1>1. NoReset \in [user : Owner \cup {"none"}, used : BOOLEAN, expired : BOOLEAN]
    BY DEF NoReset
  <1>2. ResetsTypeOK
    BY <1>1, ResetsAssumption DEF ResetsInit, ResetsTypeOK, Inserted
  <1>3. ToldOnce
    BY DEF ResetsInit, ToldOnce
  <1>4. \A r \in Confirm : ~Marks(r) /\ confirm[r].at = "free"
    BY DEF ResetsInit, Marks, NoConfirm
  <1> QED
    BY <1>2, <1>3, <1>4 DEF ResetsInv, TokensKnown, WrittenHolds, InForce, ResetsInit

\* A step of a handler that writes neither a hash nor what a client is told, and
\* neither begins nor ends a marking.
LEMMA UnmarkedInv ==
  ASSUME ResetsInv, ResetsTypeOK', TokensKnown', UNCHANGED <<hash, told, untold, confirmed>>,
         \A t \in ResetToken : reset[t].used => reset'[t].used,
         \A r \in Confirm : \/ confirm'[r] = confirm[r]
                           \/ (confirm'[r].at # "mark" /\ confirm[r].at # "mark")
  PROVE  ResetsInv'
  <1>1. ASSUME NEW r \in Confirm
        PROVE  (Marks(r)' <=> Marks(r)) /\ (Marks(r) => confirm'[r] = confirm[r])
    BY ConfirmCases DEF ResetsInv, Marks
  <1>2. ToldOnce'
    BY DEF ResetsInv, ToldOnce
  <1>3. WrittenHolds'
    BY <1>1 DEF ResetsInv, WrittenHolds
  <1>4. {q \in Confirm : confirm'[q].at = "mark"} = {q \in Confirm : confirm[q].at = "mark"}
    OBVIOUS
  <1>5. Marking' = Marking
    BY <1>4 DEF Marking
  <1>6. InForce'
    BY <1>5 DEF ResetsInv, InForce
  <1> QED
    BY <1>2, <1>3, <1>6 DEF ResetsInv

LEMMA ResetsTypeStep == ResetsInv /\ [ResetsNext]_resetVars => ResetsTypeOK'
  <1> SUFFICES ASSUME ResetsInv, ResetsTypeOK, [ResetsNext]_resetVars PROVE ResetsTypeOK'
    BY DEF ResetsInv
  <1>1. CASE UNCHANGED resetVars
    BY <1>1 DEF resetVars, ResetsTypeOK, Inserted
  <1>2. ASSUME NEW u \in Owner, SoftDeleteUser(u) PROVE ResetsTypeOK'
    BY <1>2 DEF SoftDeleteUser, ResetsTypeOK, Inserted
  <1>3. ASSUME NEW r \in Confirm, NEW u \in Owner, RequestPasswordReset(r, u) PROVE ResetsTypeOK'
    <2>1. [at |-> "insert", user |-> u] \in Requested
      BY DEF Requested
    <2> QED
      BY <1>3, <2>1 DEF RequestPasswordReset, ResetsTypeOK, Inserted
  <1>4. ASSUME NEW r \in Confirm, NEW t \in ResetToken, NEW p \in Secret,
               ConfirmPasswordReset(r, t, p)
        PROVE  ResetsTypeOK'
    <2>1. reset[t].user \in Owner
      BY <1>4 DEF ConfirmPasswordReset, GetPasswordResetToken, ResetsTypeOK
    <2>2. [at |-> "hash", token |-> t, user |-> reset[t].user, password |-> p] \in Confirming
      BY <2>1 DEF Confirming
    <2> QED
      BY <1>4, <2>2 DEF ConfirmPasswordReset, ResetsTypeOK, Inserted
  <1>5. ASSUME NEW r \in Confirm, NEW t \in ResetToken, CreatePasswordResetToken(r, t)
        PROVE  ResetsTypeOK'
    <2> DEFINE row == [user |-> confirm[r].user, used |-> FALSE, expired |-> FALSE]
    <2>1. confirm[r].user \in Owner
      BY <1>5, ConfirmCases DEF CreatePasswordResetToken
    <2>2. row \in [user : Owner \cup {"none"}, used : BOOLEAN, expired : BOOLEAN] /\ row.user \in Owner
      BY <2>1
    <2> HIDE DEF row
    <2>3. reset' = [reset EXCEPT ![t] = row] /\ confirm' = [confirm EXCEPT ![r] = NoConfirm]
      BY <1>5 DEF CreatePasswordResetToken, row
    <2>4. \A s \in Inserted' : reset'[s].user \in Owner
      BY <2>2, <2>3 DEF ResetsTypeOK, Inserted
    <2> QED
      BY <1>5, <2>2, <2>3, <2>4 DEF CreatePasswordResetToken, ResetsTypeOK
  <1>6. ASSUME NEW t \in ResetToken, ExpireReset(t) PROVE ResetsTypeOK'
    <2>1. /\ [reset[t] EXCEPT !.expired = TRUE] \in
                [user : Owner \cup {"none"}, used : BOOLEAN, expired : BOOLEAN]
          /\ [reset[t] EXCEPT !.expired = TRUE].user = reset[t].user
      BY DEF ResetsTypeOK
    <2>2. \A s \in Inserted' : reset'[s].user \in Owner
      BY <1>6, <2>1 DEF ExpireReset, ResetsTypeOK, Inserted
    <2> QED
      BY <1>6, <2>1, <2>2 DEF ExpireReset, ResetsTypeOK
  <1>7. ASSUME NEW r \in Confirm, UpdatePasswordHash(r) PROVE ResetsTypeOK'
    <2>1. confirm[r] \in Confirming
      BY <1>7, ConfirmCases DEF UpdatePasswordHash
    <2>2. /\ confirm[r].user \in Owner /\ confirm[r].password \in Secret
          /\ [confirm[r] EXCEPT !.at = "mark"] \in Confirming
      BY <2>1, ConfirmFields
    <2> QED
      BY <1>7, <2>2 DEF UpdatePasswordHash, ResetsTypeOK, Inserted
  <1>8. ASSUME NEW r \in Confirm, MarkPasswordResetTokenUsed(r) PROVE ResetsTypeOK'
    <2> DEFINE t == confirm[r].token
    <2>1. confirm[r] \in Confirming
      BY <1>8, ConfirmCases DEF MarkPasswordResetTokenUsed
    <2>2. t \in ResetToken /\ confirm[r].user \in Owner /\ confirm[r].password \in Secret
      BY <2>1, ConfirmFields
    <2>3. reset' = [reset EXCEPT ![t].used = TRUE]
      BY <1>8 DEF MarkPasswordResetTokenUsed
    <2>4. \/ /\ UNCHANGED <<told, confirmed>>
             /\ untold' = untold \cup {confirm[r].user}
          \/ /\ told' = [told EXCEPT ![confirm[r].user] = confirm[r].password]
             /\ confirmed' = [confirmed EXCEPT ![t] = @ + 1] /\ UNCHANGED untold
      BY <1>8 DEF MarkPasswordResetTokenUsed
    <2> HIDE DEF t
    <2>5. /\ [reset[t] EXCEPT !.used = TRUE] \in
                [user : Owner \cup {"none"}, used : BOOLEAN, expired : BOOLEAN]
          /\ [reset[t] EXCEPT !.used = TRUE].user = reset[t].user
      BY <2>2 DEF ResetsTypeOK
    <2>6. reset' \in [ResetToken -> [user : Owner \cup {"none"}, used : BOOLEAN, expired : BOOLEAN]]
      BY <2>2, <2>3, <2>5 DEF ResetsTypeOK
    <2>7. ASSUME NEW s \in Inserted' PROVE reset'[s].user \in Owner
      <3>1. CASE s = t
        <4>1. reset[t].user \in Owner
          BY <1>8 DEF ResetsInv, TokensKnown, MarkPasswordResetTokenUsed, ResetsTypeOK, t
        <4> QED
          BY <2>2, <2>3, <2>5, <3>1, <4>1 DEF ResetsTypeOK
      <3> QED
        BY <2>2, <2>3, <3>1 DEF Inserted, ResetsTypeOK
    <2>8. confirmed' \in [ResetToken -> Nat] /\ told' \in [Owner -> Secret] /\ untold' \subseteq Owner
      BY <2>2, <2>4 DEF ResetsTypeOK
    <2> QED
      BY <1>8, <2>6, <2>7, <2>8 DEF MarkPasswordResetTokenUsed, ResetsTypeOK
  <1>9. CASE RestartResets
    <2>1. Marking \subseteq Owner
      BY ConfirmCases, ConfirmFields DEF Marking
    <2> QED
      BY <1>9, <2>1 DEF RestartResets, ResetsTypeOK, Inserted
  <1> QED
    BY <1>1, <1>2, <1>3, <1>4, <1>5, <1>6, <1>7, <1>8, <1>9 DEF ResetsNext

\* Rows of tokens stay, and so does whose they are; what is used stays so.
LEMMA RowsOfTokensStay ==
  ASSUME ResetsInv, [ResetsNext]_resetVars, NEW t \in ResetToken
  PROVE  /\ t \in Inserted => t \in Inserted' /\ reset'[t].user = reset[t].user
         /\ reset[t].used => reset'[t].used
  <1> DEFINE Kept == /\ t \in Inserted => t \in Inserted' /\ reset'[t].user = reset[t].user
                     /\ reset[t].used => reset'[t].used
  <1>1. NoReset.used = FALSE /\ NoReset.expired = FALSE
    BY DEF NoReset
  <1>2. CASE UNCHANGED reset
    BY <1>2 DEF Inserted
  <1>3. ASSUME NEW r \in Confirm, NEW s \in ResetToken, CreatePasswordResetToken(r, s) PROVE Kept
    <2>1. s \notin Inserted /\ \A x \in ResetToken \ {s} : reset'[x] = reset[x]
      BY <1>3 DEF CreatePasswordResetToken, ResetsInv, ResetsTypeOK
    <2>2. CASE s = t
      BY <1>1, <2>1, <2>2 DEF Inserted
    <2>3. CASE s # t
      BY <2>1, <2>3 DEF Inserted
    <2> QED
      BY <2>2, <2>3
  <1>4. ASSUME NEW s \in ResetToken,
               \/ reset' = [reset EXCEPT ![s].expired = TRUE]
               \/ reset' = [reset EXCEPT ![s].used = TRUE]
        PROVE  Kept
    <2>1. reset[s] \in [user : Owner \cup {"none"}, used : BOOLEAN, expired : BOOLEAN]
      BY DEF ResetsInv, ResetsTypeOK
    <2>2. \A x \in ResetToken \ {s} : reset'[x] = reset[x]
      BY <1>4 DEF ResetsInv, ResetsTypeOK
    <2>3. \/ reset'[s] = [reset[s] EXCEPT !.expired = TRUE]
          \/ reset'[s] = [reset[s] EXCEPT !.used = TRUE]
      BY <1>4 DEF ResetsInv, ResetsTypeOK
    <2>4. /\ reset'[s].user = reset[s].user
          /\ reset[s].used => reset'[s].used
          /\ reset'[s].expired \/ reset'[s].used
      BY <2>1, <2>3
    <2>5. reset'[s] # NoReset
      BY <1>1, <2>4
    <2>6. CASE s = t
      BY <2>4, <2>5, <2>6 DEF Inserted
    <2>7. CASE s # t
      BY <2>2, <2>7 DEF Inserted
    <2> QED
      BY <2>6, <2>7
  <1>5. ASSUME NEW s \in ResetToken, ExpireReset(s) PROVE Kept
    BY <1>4, <1>5 DEF ExpireReset
  <1>6. ASSUME NEW r \in Confirm, MarkPasswordResetTokenUsed(r) PROVE Kept
    <2>1. confirm[r].token \in ResetToken
      BY <1>6, ConfirmCases, ConfirmFields DEF MarkPasswordResetTokenUsed, ResetsInv
    <2> QED
      BY <1>4, <1>6, <2>1 DEF MarkPasswordResetTokenUsed
  <1>7. ASSUME NEW r \in Confirm, UpdatePasswordHash(r) PROVE Kept
    BY <1>2, <1>7 DEF UpdatePasswordHash
  <1>8. CASE \/ \E u \in Owner : SoftDeleteUser(u)
             \/ \E r \in Confirm, u \in Owner : RequestPasswordReset(r, u)
             \/ \E r \in Confirm, s \in ResetToken, p \in Secret : ConfirmPasswordReset(r, s, p)
             \/ RestartResets \/ UNCHANGED resetVars
    <2>1. UNCHANGED reset
      BY <1>8 DEF SoftDeleteUser, RequestPasswordReset, ConfirmPasswordReset, RestartResets, resetVars
    <2> QED
      BY <1>2, <2>1
  <1>9. Kept
    <2>1. CASE \E r \in Confirm, s \in ResetToken : CreatePasswordResetToken(r, s)
      BY <1>3, <2>1
    <2>2. CASE \E s \in ResetToken : ExpireReset(s)
      BY <1>5, <2>2
    <2>3. CASE \E r \in Confirm : UpdatePasswordHash(r) \/ MarkPasswordResetTokenUsed(r)
      BY <1>6, <1>7, <2>3
    <2> QED
      BY <1>8, <2>1, <2>2, <2>3 DEF ResetsNext
  <1> QED
    BY <1>9 DEF Kept

LEMMA TokensKnownStep == ResetsInv /\ [ResetsNext]_resetVars => TokensKnown'
  <1> SUFFICES ASSUME ResetsInv, [ResetsNext]_resetVars,
                      NEW r \in Confirm, confirm'[r].at \in {"hash", "mark"}
               PROVE  /\ confirm'[r].token \in Inserted'
                      /\ reset'[confirm'[r].token].user = confirm'[r].user
    BY DEF TokensKnown
  <1>1. ASSUME confirm[r].at \in {"hash", "mark"}, confirm'[r].token = confirm[r].token,
               confirm'[r].user = confirm[r].user
        PROVE  /\ confirm'[r].token \in Inserted'
               /\ reset'[confirm'[r].token].user = confirm'[r].user
    <2>1. confirm[r].token \in ResetToken
      BY <1>1, ConfirmCases, ConfirmFields DEF ResetsInv
    <2> QED
      BY <1>1, <2>1, RowsOfTokensStay DEF ResetsInv, TokensKnown
  <1>2. CASE confirm'[r] = confirm[r]
    BY <1>1, <1>2
  <1>3. ASSUME NEW u \in Owner, confirm' = [confirm EXCEPT ![r] = [at |-> "insert", user |-> u]]
        PROVE  FALSE
    BY <1>3 DEF ResetsInv, ResetsTypeOK
  <1>4. ASSUME \/ confirm' = [confirm EXCEPT ![r] = NoConfirm]
               \/ confirm' = [q \in Confirm |-> NoConfirm]
        PROVE  FALSE
    BY <1>4 DEF ResetsInv, ResetsTypeOK, NoConfirm
  <1>5. ASSUME NEW t \in ResetToken, NEW p \in Secret, ConfirmPasswordReset(r, t, p)
        PROVE  /\ confirm'[r].token \in Inserted'
               /\ reset'[confirm'[r].token].user = confirm'[r].user
    BY <1>5 DEF ConfirmPasswordReset, GetPasswordResetToken, Inserted, ResetsInv, ResetsTypeOK
  <1>6. ASSUME UpdatePasswordHash(r)
        PROVE  /\ confirm'[r].token \in Inserted'
               /\ reset'[confirm'[r].token].user = confirm'[r].user
    <2>1. confirm[r] \in Confirming
      BY <1>6, ConfirmCases DEF UpdatePasswordHash, ResetsInv
    <2>2. CASE confirm' = [confirm EXCEPT ![r] = [confirm[r] EXCEPT !.at = "mark"]]
      <3>1. confirm'[r].token = confirm[r].token /\ confirm'[r].user = confirm[r].user
        BY <2>1, <2>2 DEF Confirming, ResetsInv, ResetsTypeOK
      <3> QED
        BY <1>1, <1>6, <3>1 DEF UpdatePasswordHash
    <2> QED
      BY <1>4, <1>6, <2>2 DEF UpdatePasswordHash
  <1>7. ASSUME NEW q \in Confirm \ {r}, UpdatePasswordHash(q) \/ MarkPasswordResetTokenUsed(q)
        PROVE  confirm'[r] = confirm[r]
    BY <1>7 DEF UpdatePasswordHash, MarkPasswordResetTokenUsed, ResetsInv, ResetsTypeOK
  <1>8. ASSUME NEW q \in Confirm \ {r}, NEW u \in Owner, RequestPasswordReset(q, u)
        PROVE  confirm'[r] = confirm[r]
    BY <1>8 DEF RequestPasswordReset, ResetsInv, ResetsTypeOK
  <1>9. ASSUME NEW q \in Confirm \ {r}, NEW t \in ResetToken,
               \/ CreatePasswordResetToken(q, t)
               \/ \E p \in Secret : ConfirmPasswordReset(q, t, p)
        PROVE  confirm'[r] = confirm[r]
    BY <1>9 DEF CreatePasswordResetToken, ConfirmPasswordReset, ResetsInv, ResetsTypeOK
  <1>10. CASE UNCHANGED resetVars
    BY <1>2, <1>10 DEF resetVars
  <1>11. CASE \E u \in Owner : SoftDeleteUser(u)
    BY <1>2, <1>11 DEF SoftDeleteUser
  <1>12. CASE \E q \in Confirm, u \in Owner : RequestPasswordReset(q, u)
    BY <1>2, <1>3, <1>8, <1>12 DEF RequestPasswordReset
  <1>13. CASE \E q \in Confirm, t \in ResetToken, p \in Secret : ConfirmPasswordReset(q, t, p)
    BY <1>2, <1>5, <1>9, <1>13
  <1>14. CASE \E q \in Confirm, t \in ResetToken : CreatePasswordResetToken(q, t)
    BY <1>2, <1>4, <1>9, <1>14 DEF CreatePasswordResetToken
  <1>15. CASE \E t \in ResetToken : ExpireReset(t)
    BY <1>2, <1>15 DEF ExpireReset
  <1>16. CASE \E q \in Confirm : UpdatePasswordHash(q) \/ MarkPasswordResetTokenUsed(q)
    BY <1>2, <1>4, <1>6, <1>7, <1>16 DEF MarkPasswordResetTokenUsed
  <1>17. CASE RestartResets
    BY <1>4, <1>17 DEF RestartResets
  <1> QED
    BY <1>10, <1>11, <1>12, <1>13, <1>14, <1>15, <1>16, <1>17 DEF ResetsNext

\* The hash is written: who marks meanwhile no longer knows what is in force, and
\* his user is untold.
LEMMA WriteHashInv ==
  ASSUME ResetsInv, ResetsTypeOK', TokensKnown', NEW r \in Confirm, UpdatePasswordHash(r)
  PROVE  ResetsInv'
  <1> DEFINE u == confirm[r].user
  <1>1. /\ confirm[r] \in Confirming /\ u \in Owner /\ confirm[r].at = "hash"
        /\ UNCHANGED <<live, reset, told, confirmed>>
    BY ConfirmCases, ConfirmFields DEF UpdatePasswordHash, ResetsInv
  <1>2. ToldOnce'
    BY <1>1 DEF ResetsInv, ToldOnce
  <1>3. CASE u \notin live
    <2>1. UNCHANGED <<hash, untold>> /\ confirm' = [confirm EXCEPT ![r] = NoConfirm]
      BY <1>3 DEF UpdatePasswordHash
    <2>2. \A q \in Confirm : \/ confirm'[q] = confirm[q]
                            \/ (confirm'[q].at # "mark" /\ confirm[q].at # "mark")
      BY <1>1, <2>1 DEF NoConfirm, ResetsInv, ResetsTypeOK
    <2>3. \A t \in ResetToken : reset[t].used => reset'[t].used
      BY <1>1
    <2> QED
      BY <1>1, <2>1, <2>2, <2>3, UnmarkedInv
  <1>4. CASE u \in live
    <2>1. /\ hash' = [hash EXCEPT ![u] = confirm[r].password]
          /\ confirm' = [confirm EXCEPT ![r] = [confirm[r] EXCEPT !.at = "mark"]]
          /\ untold' = IF u \in Marking THEN untold \cup {u} ELSE untold
      BY <1>4 DEF UpdatePasswordHash
    <2>2. /\ confirm'[r].user = u /\ confirm'[r].password = confirm[r].password
          /\ confirm'[r].at = "mark"
      BY <1>1, <2>1, ConfirmFields DEF ResetsInv, ResetsTypeOK
    <2>3. \A q \in Confirm \ {r} : confirm'[q] = confirm[q]
      BY <2>1 DEF ResetsInv, ResetsTypeOK
    <2>4. hash'[u] = confirm[r].password /\ \A v \in Owner \ {u} : hash'[v] = hash[v]
      BY <1>1, <2>1 DEF ResetsInv, ResetsTypeOK
    <2>5. WrittenHolds'
      <3>1. ASSUME NEW q \in Confirm \ {r}, Marks(q)'
            PROVE  hash'[confirm'[q].user] = confirm'[q].password \/ confirm'[q].user \in untold'
        <4>1. Marks(q)
          BY <2>3, <3>1 DEF Marks
        <4>2. confirm[q].user \in Marking /\ confirm[q].user \in Owner
          BY <4>1, ConfirmCases, ConfirmFields DEF Marking, ResetsInv
        <4>3. confirm[q].user = u => u \in untold'
          BY <2>1, <4>2
        <4>4. confirm[q].user # u => hash'[confirm[q].user] = hash[confirm[q].user]
          BY <2>4, <4>2
        <4>5. hash[confirm[q].user] = confirm[q].password \/ confirm[q].user \in untold
          BY <4>1 DEF ResetsInv, WrittenHolds
        <4>6. untold \subseteq untold'
          BY <2>1
        <4> QED
          BY <2>3, <4>3, <4>4, <4>5, <4>6
      <3> QED
        BY <2>2, <2>4, <3>1 DEF WrittenHolds
    <2>6. Marking \subseteq Marking' /\ u \in Marking' /\ untold \subseteq untold'
      <3>1. {q \in Confirm : confirm'[q].at = "mark"} = {q \in Confirm : confirm[q].at = "mark"} \cup {r}
        BY <2>2, <2>3
      <3>2. \A q \in Confirm : confirm[q].at = "mark" => q # r
        BY <1>1
      <3> QED
        BY <2>1, <2>2, <2>3, <3>1, <3>2 DEF Marking
    <2>7. InForce'
      BY <1>1, <2>4, <2>6 DEF ResetsInv, InForce
    <2> QED
      BY <1>2, <2>5, <2>7 DEF ResetsInv
  <1> QED
    BY <1>3, <1>4

\* The token is marked: the first of two is told that its password is in force,
\* and the second, who is not, leaves the user untold.
LEMMA MarkInv ==
  ASSUME ResetsInv, ResetsTypeOK', TokensKnown', NEW r \in Confirm, MarkPasswordResetTokenUsed(r)
  PROVE  ResetsInv'
  <1> DEFINE u == confirm[r].user
             t == confirm[r].token
  <1>1. /\ t \in ResetToken /\ u \in Owner /\ confirm[r].at = "mark"
        /\ reset[t] \in [user : Owner \cup {"none"}, used : BOOLEAN, expired : BOOLEAN]
        /\ hash' = hash /\ reset' = [reset EXCEPT ![t].used = TRUE]
        /\ confirm' = [confirm EXCEPT ![r] = NoConfirm]
    BY ConfirmCases, ConfirmFields DEF MarkPasswordResetTokenUsed, ResetsInv, ResetsTypeOK
  <1>2. \/ /\ reset[t].used /\ untold' = untold \cup {u} /\ UNCHANGED <<told, confirmed>>
        \/ /\ ~reset[t].used /\ told' = [told EXCEPT ![u] = confirm[r].password]
           /\ confirmed' = [confirmed EXCEPT ![t] = @ + 1] /\ UNCHANGED untold
    BY DEF MarkPasswordResetTokenUsed, Unmarked
  <1>3. hash[u] = confirm[r].password \/ u \in untold
    BY <1>1, ConfirmCases DEF ResetsInv, WrittenHolds
  <1> HIDE DEF u, t
  <1>4. ToldOnce'
    <2>1. reset'[t].used /\ \A s \in ResetToken \ {t} : reset'[s] = reset[s]
      BY <1>1 DEF ResetsInv, ResetsTypeOK
    <2>2. ASSUME NEW s \in ResetToken
          PROVE  confirmed'[s] <= 1 /\ (confirmed'[s] = 1 => reset'[s].used)
      <3>1. confirmed[s] <= 1 /\ (confirmed[s] = 1 => reset[s].used) /\ confirmed[s] \in Nat
        BY DEF ResetsInv, ToldOnce, ResetsTypeOK
      <3>2. s # t => confirmed'[s] = confirmed[s]
        BY <1>2 DEF ResetsInv, ResetsTypeOK
      <3>3. \/ confirmed'[t] = confirmed[t]
            \/ ~reset[t].used /\ confirmed'[t] = confirmed[t] + 1
        BY <1>1, <1>2 DEF ResetsInv, ResetsTypeOK
      <3> QED
        BY <2>1, <3>1, <3>2, <3>3
    <2> QED
      BY <2>2 DEF ToldOnce
  <1>5. confirm'[r] = NoConfirm /\ \A q \in Confirm \ {r} : confirm'[q] = confirm[q]
    BY <1>1 DEF ResetsInv, ResetsTypeOK
  <1>6. untold \subseteq untold'
    BY <1>2
  <1>7. WrittenHolds'
    BY <1>1, <1>5, <1>6 DEF ResetsInv, WrittenHolds, Marks
  <1>8. \A v \in Marking : v = u \/ v \in Marking'
    BY <1>5 DEF Marking, u
  <1>9. InForce'
    <2>1. ASSUME NEW v \in Owner \ {u} PROVE hash'[v] = told'[v] \/ v \in untold' \cup Marking'
      <3>1. told'[v] = told[v]
        BY <1>2 DEF ResetsInv, ResetsTypeOK
      <3> QED
        BY <1>1, <1>6, <1>8, <3>1 DEF ResetsInv, InForce
    <2>2. hash'[u] = told'[u] \/ u \in untold'
      BY <1>1, <1>2, <1>3 DEF ResetsInv, ResetsTypeOK
    <2> QED
      BY <2>1, <2>2 DEF InForce
  <1> QED
    BY <1>4, <1>7, <1>9 DEF ResetsInv

\* A restart leaves no one marking, and the users of those who were are untold.
LEMMA RestartResetsInv ==
  ASSUME ResetsInv, ResetsTypeOK', TokensKnown', RestartResets
  PROVE  ResetsInv'
  <1>1. ToldOnce'
    BY DEF RestartResets, ResetsInv, ToldOnce
  <1>2. WrittenHolds'
    BY DEF RestartResets, WrittenHolds, Marks
  <1>3. InForce'
    BY DEF RestartResets, ResetsInv, InForce
  <1> QED
    BY <1>1, <1>2, <1>3 DEF ResetsInv

LEMMA ResetsStep == ResetsInv /\ [ResetsNext]_resetVars => ResetsInv'
  <1> SUFFICES ASSUME ResetsInv, [ResetsNext]_resetVars PROVE ResetsInv'
    OBVIOUS
  <1>1. /\ ResetsTypeOK' /\ TokensKnown'
        /\ \A t \in ResetToken : reset[t].used => reset'[t].used
    BY ResetsTypeStep, TokensKnownStep, RowsOfTokensStay
  <1>2. ASSUME UNCHANGED <<hash, told, untold, confirmed>>,
               \A r \in Confirm : \/ confirm'[r] = confirm[r]
                                 \/ (confirm'[r].at # "mark" /\ confirm[r].at # "mark")
        PROVE  ResetsInv'
    BY <1>1, <1>2, UnmarkedInv
  <1>3. CASE \/ UNCHANGED resetVars \/ \E u \in Owner : SoftDeleteUser(u)
             \/ \E t \in ResetToken : ExpireReset(t)
    BY <1>2, <1>3 DEF resetVars, SoftDeleteUser, ExpireReset
  <1>4. ASSUME NEW r \in Confirm, NEW c, c.at # "mark", confirm[r].at # "mark",
               confirm' = [confirm EXCEPT ![r] = c], UNCHANGED <<hash, told, untold, confirmed>>
        PROVE  ResetsInv'
    <2>1. \A q \in Confirm \ {r} : confirm'[q] = confirm[q]
      BY <1>4 DEF ResetsInv, ResetsTypeOK
    <2>2. confirm'[r] = c
      BY <1>4 DEF ResetsInv, ResetsTypeOK
    <2> QED
      BY <1>2, <1>4, <2>1, <2>2
  <1>5. ASSUME NEW r \in Confirm, NEW u \in Owner, RequestPasswordReset(r, u) PROVE ResetsInv'
    <2>1. [at |-> "insert", user |-> u].at # "mark" /\ confirm[r].at # "mark"
      BY <1>5 DEF RequestPasswordReset, NoConfirm
    <2> QED
      BY <1>4, <1>5, <2>1 DEF RequestPasswordReset
  <1>6. ASSUME NEW r \in Confirm, NEW t \in ResetToken, NEW p \in Secret,
               ConfirmPasswordReset(r, t, p)
        PROVE  ResetsInv'
    <2>1. /\ [at |-> "hash", token |-> t, user |-> reset[t].user, password |-> p].at # "mark"
          /\ confirm[r].at # "mark"
      BY <1>6 DEF ConfirmPasswordReset, NoConfirm
    <2> QED
      BY <1>4, <1>6, <2>1 DEF ConfirmPasswordReset
  <1>7. ASSUME NEW r \in Confirm, NEW t \in ResetToken, CreatePasswordResetToken(r, t)
        PROVE  ResetsInv'
    <2>1. NoConfirm.at # "mark" /\ confirm[r].at # "mark"
      BY <1>7 DEF CreatePasswordResetToken, NoConfirm
    <2> QED
      BY <1>4, <1>7, <2>1 DEF CreatePasswordResetToken
  <1>8. ASSUME NEW r \in Confirm, UpdatePasswordHash(r) \/ MarkPasswordResetTokenUsed(r)
        PROVE  ResetsInv'
    BY <1>1, <1>8, WriteHashInv, MarkInv
  <1>9. CASE RestartResets
    BY <1>1, <1>9, RestartResetsInv
  <1> QED
    BY <1>3, <1>5, <1>6, <1>7, <1>8, <1>9 DEF ResetsNext

LEMMA ResetsInvariant == ResetsSpec => []ResetsInv
  BY ResetsInitInv, ResetsStep, PTL DEF ResetsSpec

\* For any users, tokens and handlers: of all the requests that bring one token at
\* most one is told that it set the password, and the password in force is the one
\* last told, except where a second one wrote, was refused, or a restart came.
THEOREM ResetsAreTold == ResetsSpec => []ResetIsTold
  <1>1. ResetsInv => ResetIsTold
    BY DEF ResetsInv, ToldOnce, InForce, ResetIsTold
  <1> QED
    BY <1>1, ResetsInvariant, PTL

-----------------------------------------------------------------------------
(* The cache.                                                              *)

\* What a call under way holds.
CallsHold ==
    \A c \in Chat :
        /\ at[c] \in {"lookup", "store"} => call[c].tool \in Read
        /\ Pending(c) => call[c].answer \in 1..version

\* An answer that a scan has not found was stored after it, so after the change
\* that made somebody scan.
ScanIsLater ==
    \A c \in Chat : at[c] = "delete" =>
        \A t \in Read \ call[c].keys :
            toolcache[t].there => call[c].answer <= toolcache[t].stored

ToolsInv ==
    /\ ToolsTypeOK
    /\ CallsHold
    /\ ScanIsLater
    /\ StaleForAReason

-----------------------------------------------------------------------------
(* Type correctness of the cache.                                          *)

LEMMA ToolsTypeInit == ToolsInit => ToolsTypeOK
  BY CallAssumption DEF ToolsInit, ToolsTypeOK, NoAnswer, NoCall, Entry, CallAt

\* What was a version stays one when there are more changes.
LEMMA Widen ==
  ASSUME ToolsTypeOK, NEW v \in version..Changes
  PROVE  /\ toolcache \in [Read -> Entry(v)]
         /\ call \in [Chat -> CallAt(v)]
         /\ unheard \subseteq 1..v
         /\ version \in Nat /\ v \in 0..Changes
  <1>1. /\ version \in Nat /\ v \in Nat /\ version <= v
        /\ Changes \in Nat
    BY CallAssumption DEF ToolsTypeOK
  <1>2. 0..version \subseteq 0..v /\ 1..version \subseteq 1..v
    BY <1>1
  <1>3. Entry(version) \subseteq Entry(v) /\ CallAt(version) \subseteq CallAt(v)
    BY <1>2 DEF Entry, CallAt
  <1> QED
    BY <1>1, <1>2, <1>3 DEF ToolsTypeOK

\* A step of one call.
LEMMA OneCall ==
  ASSUME ToolsTypeOK, NEW c \in Chat, NEW v \in version..Changes, NEW x \in CallAt(v),
         NEW label \in {"idle", "lookup", "call", "answer", "store", "scan", "delete"},
         call' = [call EXCEPT ![c] = x], GoesTo(c, label)
  PROVE  /\ call' \in [Chat -> CallAt(v)] /\ call'[c] = x /\ at'[c] = label
         /\ at' \in [Chat -> {"idle", "lookup", "call", "answer", "store", "scan", "delete"}]
         /\ \A d \in Chat \ {c} : call'[d] = call[d] /\ at'[d] = at[d]
  <1>1. call \in [Chat -> CallAt(v)]
    BY Widen
  <1> QED
    BY <1>1 DEF ToolsTypeOK, GoesTo

\* The call is over.
LEMMA ReturnsType ==
  ASSUME ToolsTypeOK, NEW c \in Chat, NEW v \in version..Changes, Returns(c)
  PROVE  /\ call' \in [Chat -> CallAt(v)] /\ at'[c] = "idle"
         /\ at' \in [Chat -> {"idle", "lookup", "call", "answer", "store", "scan", "delete"}]
         /\ \A d \in Chat \ {c} : call'[d] = call[d] /\ at'[d] = at[d]
  <1> DEFINE x == [NoCall EXCEPT !.made = call[c].made]
  <1>1. call[c].made \in 0..Calls /\ v \in Nat
    BY CallAssumption DEF ToolsTypeOK, CallAt
  <1>2. x \in CallAt(v)
    BY <1>1, CallAssumption DEF NoCall, CallAt
  <1>3. call' = [call EXCEPT ![c] = x] /\ GoesTo(c, "idle")
    BY DEF Returns
  <1> HIDE DEF x
  <1> QED
    BY <1>2, <1>3, OneCall

\* A step changes nothing, or one change is made.
LEMMA VersionStep ==
  ASSUME ToolsTypeOK, UNCHANGED version \/ Changed
  PROVE  version' \in version..Changes /\ version' \in {version, version + 1}
  BY CallAssumption DEF ToolsTypeOK, Changed

\* What a chat forgets is a change that was made.
LEMMA ForgetsIs ==
  ASSUME ToolsTypeOK, CallsHold, NEW S \in SUBSET Chat, Forgets(S)
  PROVE  /\ unheard \subseteq unheard' /\ unheard' \subseteq 1..version
         /\ \A c \in S : Pending(c) => call[c].answer \in unheard'
  BY DEF Forgets, CallsHold, ToolsTypeOK

LEMMA FailsType ==
  ASSUME ToolsTypeOK, CallsHold, NEW c \in Chat, Fails(c)
  PROVE  /\ UNCHANGED <<toolcache, version, faults>> /\ version \in version..Changes
         /\ version \in Nat /\ adrift' \in 0..Changes
         /\ unheard \subseteq unheard' /\ unheard' \subseteq 1..version
         /\ Pending(c) => call[c].answer \in unheard'
  <1>1. /\ version \in 0..Changes /\ adrift \in 0..Changes /\ Changes \in Nat
    BY CallAssumption DEF ToolsTypeOK
  <1>2. UNCHANGED adrift \/ (version + adrift < Changes /\ adrift' = adrift + 1)
    BY DEF Fails
  <1>3. adrift' \in 0..Changes
    BY <1>1, <1>2
  <1> QED
    BY <1>1, <1>3, ForgetsIs DEF Fails

-----------------------------------------------------------------------------
(* No stale answer without a reason.                                       *)

\* The steps of a call that leave the cache alone.  A change that was pending is
\* pending still or counts as unheard, and a change just made is one or the other.
LEMMA CacheUntouched ==
  ASSUME ToolsInv, NEW c \in Chat,
         version' \in version..Changes, version' \in {version, version + 1},
         adrift' \in 0..Changes, faults' \in 0..Faults, toolcache' = toolcache,
         call' \in [Chat -> CallAt(version')],
         at' \in [Chat -> {"idle", "lookup", "call", "answer", "store", "scan", "delete"}],
         \A d \in Chat \ {c} : call'[d] = call[d] /\ at'[d] = at[d],
         unheard \subseteq unheard', unheard' \subseteq 1..version',
         at'[c] \in {"lookup", "store"} => call'[c].tool \in Read,
         Pending(c)' => call'[c].answer \in 1..version',
         at'[c] = "delete" => /\ call'[c].answer = call[c].answer
                             /\ call'[c].keys = FoundKeys(toolcache),
         Pending(c) => \/ call[c].answer \in unheard'
                       \/ Pending(c)' /\ call'[c].answer = call[c].answer,
         \A v \in (1..version') \ (1..version) :
            v \in unheard' \/ (Pending(c)' /\ call'[c].answer = v)
  PROVE  ToolsInv'
  <1>0. ToolsTypeOK /\ CallsHold /\ ScanIsLater /\ StaleForAReason
    BY DEF ToolsInv
  <1>1. /\ toolcache \in [Read -> Entry(version')] /\ version \in Nat
        /\ version' \in 0..Changes /\ 1..version \subseteq 1..version'
    BY <1>0, Widen
  <1>2. ToolsTypeOK'
    BY <1>0, <1>1 DEF ToolsTypeOK
  <1>3. CallsHold'
    <2> SUFFICES ASSUME NEW d \in Chat
                 PROVE  /\ at'[d] \in {"lookup", "store"} => call'[d].tool \in Read
                        /\ Pending(d)' => call'[d].answer \in 1..version'
      BY DEF CallsHold
    <2>1. CASE d # c
      BY <1>0, <1>1, <2>1 DEF CallsHold, Pending
    <2>2. CASE d = c
      BY <2>2
    <2> QED
      BY <2>1, <2>2
  <1>4. ScanIsLater'
    <2> SUFFICES ASSUME NEW d \in Chat, at'[d] = "delete", NEW t \in Read \ call'[d].keys,
                        toolcache[t].there
                 PROVE  call'[d].answer <= toolcache[t].stored
      BY DEF ScanIsLater
    <2>1. CASE d # c
      BY <1>0, <2>1 DEF ScanIsLater
    <2>2. CASE d = c
      BY <2>2 DEF FoundKeys
    <2> QED
      BY <2>1, <2>2
  <1>5. StaleForAReason'
    <2> SUFFICES ASSUME NEW t \in Read, NEW v \in 1..version',
                        toolcache[t].there, toolcache[t].version < v
                 PROVE  \/ v \in unheard' \/ v <= toolcache[t].stored
                        \/ \E d \in Chat : Pending(d)' /\ call'[d].answer = v
      BY DEF StaleForAReason
    <2>1. CASE v \notin 1..version
      BY <2>1
    <2>2. CASE v \in unheard \/ v <= toolcache[t].stored
      BY <2>2
    <2>3. ASSUME NEW d \in Chat, Pending(d), call[d].answer = v
          PROVE  \/ v \in unheard'
                 \/ \E e \in Chat : Pending(e)' /\ call'[e].answer = v
      <3>1. CASE d # c
        BY <2>3, <3>1 DEF Pending
      <3>2. CASE d = c
        BY <2>3, <3>2
      <3> QED
        BY <3>1, <3>2
    <2> QED
      BY <1>0, <2>1, <2>2, <2>3 DEF StaleForAReason
  <1> QED
    BY <1>2, <1>3, <1>4, <1>5 DEF ToolsInv

LEMMA CallToolInv ==
  ASSUME ToolsInv, NEW c \in Chat, NEW t \in Tool, CallTool(c, t)
  PROVE  ToolsInv'
  <1> DEFINE x == [call[c] EXCEPT !.made = @ + 1, !.tool = t]
             label == IF t \in Read THEN "lookup" ELSE "call"
  <1>0. /\ ToolsTypeOK /\ call[c] \in CallAt(version) /\ at[c] = "idle"
        /\ version \in version..Changes /\ call[c].made < Calls
    BY CallAssumption DEF ToolsInv, ToolsTypeOK, CallTool
  <1>1. x \in CallAt(version) /\ x.tool = t
    <2>1. call[c].made \in 0..Calls
      BY <1>0 DEF CallAt
    <2>2. call[c].made + 1 \in 0..Calls
      BY <1>0, <2>1, CallAssumption
    <2> QED
      BY <1>0, <2>2 DEF CallAt
  <1>2. call' = [call EXCEPT ![c] = x] /\ GoesTo(c, label)
    BY <1>0 DEF CallTool, ToolsTypeOK
  <1>3. label \in {"lookup", "call"} /\ (label = "lookup" => t \in Read)
    OBVIOUS
  <1> HIDE DEF x, label
  <1>4. /\ call' \in [Chat -> CallAt(version)] /\ call'[c] = x /\ at'[c] = label
        /\ at' \in [Chat -> {"idle", "lookup", "call", "answer", "store", "scan", "delete"}]
        /\ \A d \in Chat \ {c} : call'[d] = call[d] /\ at'[d] = at[d]
    BY <1>0, <1>1, <1>2, <1>3, OneCall
  <1>5. UNCHANGED <<toolcache, version, adrift, unheard, faults>>
    BY DEF CallTool
  <1> QED
    BY <1>0, <1>1, <1>3, <1>4, <1>5, CacheUntouched DEF ToolsTypeOK, Pending

LEMMA LookupInv ==
  ASSUME ToolsInv, NEW c \in Chat, Lookup(c)
  PROVE  ToolsInv'
  <1>0. /\ ToolsTypeOK /\ at[c] = "lookup" /\ version \in version..Changes
        /\ UNCHANGED <<toolcache, version, adrift, unheard>>
        /\ call \in [Chat -> CallAt(version)]
    BY CallAssumption DEF ToolsInv, ToolsTypeOK, Lookup
  <1>1. faults' \in 0..Faults
    BY <1>0, CallAssumption DEF Lookup, RedisFails, ToolsTypeOK
  <1>2. CASE Returns(c)
    BY <1>0, <1>1, <1>2, ReturnsType, CacheUntouched DEF ToolsTypeOK, Pending
  <1>3. CASE GoesTo(c, "call") /\ UNCHANGED call
    <2>1. /\ at'[c] = "call" /\ \A d \in Chat \ {c} : at'[d] = at[d]
          /\ at' \in [Chat -> {"idle", "lookup", "call", "answer", "store", "scan", "delete"}]
      BY <1>0, <1>3 DEF GoesTo, ToolsTypeOK
    <2> QED
      BY <1>0, <1>1, <1>3, <2>1, CacheUntouched DEF ToolsTypeOK, Pending
  <1> QED
    BY <1>2, <1>3 DEF Lookup

LEMMA PerformedInv ==
  ASSUME ToolsInv, NEW c \in Chat, Performed(c)
  PROVE  ToolsInv'
  <1>0. /\ ToolsTypeOK /\ at[c] = "call" /\ UNCHANGED <<toolcache, adrift, unheard, faults>>
        /\ version \in Nat /\ call[c] \in CallAt(version)
    BY DEF ToolsInv, ToolsTypeOK, Performed
  <1>1. /\ version' \in version..Changes /\ version' \in {version, version + 1}
        /\ call[c].tool \notin Read => version' = version + 1
        /\ call[c].tool \in Read => version' = version
    BY <1>0, VersionStep DEF Performed, Changed
  <1>2. /\ call \in [Chat -> CallAt(version')] /\ unheard \subseteq 1..version'
        /\ (1..version') \ (1..version) = IF version' = version THEN {} ELSE {version'}
    BY <1>0, <1>1, Widen
  <1> DEFINE x == [call[c] EXCEPT !.answer = version']
  <1>3. call' = [call EXCEPT ![c] = x] /\ GoesTo(c, "answer")
    BY <1>0 DEF Performed, ToolsTypeOK
  <1>4. x \in CallAt(version') /\ x.answer = version' /\ x.tool = call[c].tool
    BY <1>0, <1>1, <1>2 DEF CallAt
  <1> HIDE DEF x
  <1>5. /\ call' \in [Chat -> CallAt(version')] /\ call'[c] = x /\ at'[c] = "answer"
        /\ at' \in [Chat -> {"idle", "lookup", "call", "answer", "store", "scan", "delete"}]
        /\ \A d \in Chat \ {c} : call'[d] = call[d] /\ at'[d] = at[d]
    BY <1>0, <1>1, <1>3, <1>4, OneCall
  <1>6. /\ Pending(c)' <=> call[c].tool \notin Read
        /\ Pending(c)' => call'[c].answer \in 1..version'
    BY <1>0, <1>1, <1>4, <1>5 DEF Pending
  <1>7. \A v \in (1..version') \ (1..version) : Pending(c)' /\ call'[c].answer = v
    BY <1>0, <1>1, <1>2, <1>4, <1>5, <1>6
  <1>8. ~Pending(c)
    BY <1>0 DEF Pending
  <1> QED
    BY <1>0, <1>1, <1>2, <1>5, <1>6, <1>7, <1>8, CacheUntouched DEF ToolsTypeOK

LEMMA AnsweredInv ==
  ASSUME ToolsInv, NEW c \in Chat, Answered(c)
  PROVE  ToolsInv'
  <1>0. /\ ToolsTypeOK /\ CallsHold /\ at[c] = "answer"
        /\ UNCHANGED <<toolcache, version, adrift, faults>>
        /\ version \in Nat /\ version \in version..Changes /\ call \in [Chat -> CallAt(version)]
    BY CallAssumption DEF ToolsInv, ToolsTypeOK, Answered
  <1>1. CASE Forgets({c}) /\ Returns(c)
    <2>1. /\ unheard \subseteq unheard' /\ unheard' \subseteq 1..version
          /\ Pending(c) => call[c].answer \in unheard'
      BY <1>0, <1>1, ForgetsIs
    <2> QED
      BY <1>0, <1>1, <2>1, ReturnsType, CacheUntouched DEF ToolsTypeOK, Pending
  <1>2. CASE /\ GoesTo(c, IF call[c].tool \in Read THEN "store" ELSE "scan")
             /\ UNCHANGED <<call, unheard>>
    <2>1. /\ at'[c] = IF call[c].tool \in Read THEN "store" ELSE "scan"
          /\ \A d \in Chat \ {c} : at'[d] = at[d]
          /\ at' \in [Chat -> {"idle", "lookup", "call", "answer", "store", "scan", "delete"}]
      BY <1>0, <1>2 DEF GoesTo, ToolsTypeOK
    <2>2. /\ at'[c] = "store" => call'[c].tool \in Read
          /\ at'[c] \notin {"lookup", "delete"}
          /\ Pending(c)' <=> Pending(c)
      BY <1>0, <1>2, <2>1 DEF Pending
    <2>3. Pending(c) => call[c].answer \in 1..version
      BY <1>0 DEF CallsHold
    <2> QED
      BY <1>0, <1>2, <2>1, <2>2, <2>3, CacheUntouched DEF ToolsTypeOK
  <1> QED
    BY <1>1, <1>2 DEF Answered

LEMMA RefusedInv ==
  ASSUME ToolsInv, NEW c \in Chat, Refused(c)
  PROVE  ToolsInv'
  <1>0. ToolsTypeOK /\ CallsHold /\ Fails(c) /\ Returns(c)
    BY DEF ToolsInv, Refused
  <1> QED
    BY <1>0, FailsType, ReturnsType, CacheUntouched DEF ToolsTypeOK, Pending

LEMMA TimedOutInv ==
  ASSUME ToolsInv, NEW c \in Chat, TimedOut(c)
  PROVE  ToolsInv'
  <1>0. ToolsTypeOK /\ CallsHold /\ Fails(c) /\ call \in [Chat -> CallAt(version)]
    BY DEF ToolsInv, ToolsTypeOK, TimedOut
  <1>1. CASE Returns(c)
    BY <1>0, <1>1, FailsType, ReturnsType, CacheUntouched DEF ToolsTypeOK, Pending
  <1>2. CASE /\ call[c].attempt + 1 < Attempts /\ GoesTo(c, "call")
             /\ call' = [call EXCEPT ![c].attempt = @ + 1, ![c].answer = 0]
    <2> DEFINE x == [call[c] EXCEPT !.attempt = @ + 1, !.answer = 0]
    <2>1. call[c].attempt + 1 \in 0..(Attempts - 1) /\ 0 \in 0..version
      BY <1>0, <1>2, CallAssumption, FailsType DEF CallAt
    <2>2. x \in CallAt(version)
      BY <1>0, <2>1 DEF CallAt
    <2>3. call' = [call EXCEPT ![c] = x]
      BY <1>0, <1>2
    <2> HIDE DEF x
    <2>4. /\ call' \in [Chat -> CallAt(version)] /\ at'[c] = "call"
          /\ at' \in [Chat -> {"idle", "lookup", "call", "answer", "store", "scan", "delete"}]
          /\ \A d \in Chat \ {c} : call'[d] = call[d] /\ at'[d] = at[d]
      BY <1>0, <1>2, <2>2, <2>3, FailsType, OneCall
    <2> QED
      BY <1>0, <2>4, FailsType, CacheUntouched DEF ToolsTypeOK, Pending
  <1> QED
    BY <1>1, <1>2 DEF TimedOut

LEMMA ScanCacheInv ==
  ASSUME ToolsInv, NEW c \in Chat, ScanCache(c)
  PROVE  ToolsInv'
  <1>0. /\ ToolsTypeOK /\ at[c] = "scan" /\ UNCHANGED <<toolcache, version, adrift>>
        /\ version \in Nat /\ version \in version..Changes
        /\ call \in [Chat -> CallAt(version)] /\ call[c].answer \in 1..version /\ CallsHold
        /\ Pending(c)
    BY CallAssumption DEF ToolsInv, ToolsTypeOK, ScanCache, CallsHold, Pending
  <1>1. faults' \in 0..Faults
    BY <1>0, CallAssumption DEF ScanCache, RedisFails, ToolsTypeOK
  <1>2. CASE Returns(c) /\ Forgets({c})
    <2>1. /\ unheard \subseteq unheard' /\ unheard' \subseteq 1..version
          /\ call[c].answer \in unheard'
      BY <1>0, <1>2, ForgetsIs
    <2> QED
      BY <1>0, <1>1, <1>2, <2>1, ReturnsType, CacheUntouched DEF ToolsTypeOK, Pending
  <1>3. CASE /\ GoesTo(c, "delete") /\ UNCHANGED unheard
             /\ call' = [call EXCEPT ![c].keys = FoundKeys(toolcache)]
    <2> DEFINE x == [call[c] EXCEPT !.keys = FoundKeys(toolcache)]
    <2>1. x \in CallAt(version) /\ x.keys = FoundKeys(toolcache) /\ x.answer = call[c].answer
      BY <1>0 DEF CallAt, FoundKeys
    <2>2. call' = [call EXCEPT ![c] = x]
      BY <1>0, <1>3
    <2> HIDE DEF x
    <2>3. /\ call' \in [Chat -> CallAt(version)] /\ call'[c] = x /\ at'[c] = "delete"
          /\ at' \in [Chat -> {"idle", "lookup", "call", "answer", "store", "scan", "delete"}]
          /\ \A d \in Chat \ {c} : call'[d] = call[d] /\ at'[d] = at[d]
      BY <1>0, <1>3, <2>1, <2>2, OneCall
    <2> QED
      BY <1>0, <1>1, <1>3, <2>1, <2>3, CacheUntouched DEF ToolsTypeOK, Pending
  <1> QED
    BY <1>2, <1>3 DEF ScanCache

\* The steps that touch the cache.
LEMMA StoreAnswerInv ==
  ASSUME ToolsInv, NEW c \in Chat, StoreAnswer(c)
  PROVE  ToolsInv'
  <1>0. /\ ToolsTypeOK /\ at[c] = "store" /\ UNCHANGED <<version, adrift, unheard>>
        /\ version \in Nat /\ version \in version..Changes /\ Returns(c)
        /\ call[c].tool \in Read /\ call[c] \in CallAt(version)
    BY CallAssumption DEF ToolsInv, ToolsTypeOK, StoreAnswer, CallsHold
  <1>1. faults' \in 0..Faults
    BY <1>0, CallAssumption DEF StoreAnswer, RedisFails, ToolsTypeOK
  <1>2. /\ call' \in [Chat -> CallAt(version)] /\ at'[c] = "idle"
        /\ at' \in [Chat -> {"idle", "lookup", "call", "answer", "store", "scan", "delete"}]
        /\ \A d \in Chat \ {c} : call'[d] = call[d] /\ at'[d] = at[d]
    BY <1>0, ReturnsType
  <1>3. CASE UNCHANGED toolcache
    BY <1>0, <1>1, <1>2, <1>3, CacheUntouched DEF ToolsTypeOK, Pending
  <1>4. CASE toolcache' = [toolcache EXCEPT ![call[c].tool] =
                   [version |-> call[c].answer, stored |-> version, there |-> TRUE]]
    <2>1. PICK t \in Read : t = call[c].tool
      BY <1>0
    <2>2. PICK e \in Entry(version) : /\ e = [version |-> call[c].answer, stored |-> version, there |-> TRUE]
                                     /\ e.version <= version /\ e.stored = version
      <3>1. call[c].answer \in 0..version
        BY <1>0 DEF CallAt
      <3> DEFINE e == [version |-> call[c].answer, stored |-> version, there |-> TRUE]
      <3>2. e \in Entry(version) /\ e.version <= version /\ e.stored = version
        BY <1>0, <3>1 DEF Entry
      <3> QED
        BY <3>2
    <2>3. toolcache' \in [Read -> Entry(version)] /\ toolcache'[t] = e
          /\ \A u \in Read \ {t} : toolcache'[u] = toolcache[u]
      BY <1>0, <1>4, <2>1, <2>2 DEF ToolsTypeOK
    <2>4. ToolsTypeOK'
      BY <1>0, <1>1, <1>2, <2>2, <2>3 DEF ToolsTypeOK
    <2>5. \A d \in Chat : Pending(d)' => Pending(d) /\ call'[d] = call[d] /\ at'[d] = at[d]
      BY <1>2 DEF Pending
    <2>6. CallsHold'
      BY <1>0, <1>2, <2>5 DEF ToolsInv, CallsHold
    <2>7. ScanIsLater'
      <3> SUFFICES ASSUME NEW d \in Chat, at'[d] = "delete", NEW u \in Read \ call'[d].keys,
                          toolcache'[u].there
                   PROVE  call'[d].answer <= toolcache'[u].stored
        BY DEF ScanIsLater
      <3>1. at[d] = "delete" /\ call'[d] = call[d] /\ call[d].answer <= version
        BY <1>0, <1>2 DEF ToolsTypeOK, CallAt
      <3>2. CASE u = t
        BY <2>2, <2>3, <3>1, <3>2
      <3>3. CASE u # t
        BY <2>3, <3>1, <3>3 DEF ToolsInv, ScanIsLater
      <3> QED
        BY <3>2, <3>3
    <2>8. StaleForAReason'
      <3> SUFFICES ASSUME NEW u \in Read, NEW v \in 1..version,
                          toolcache'[u].there, toolcache'[u].version < v
                   PROVE  \/ v \in unheard \/ v <= toolcache'[u].stored
                          \/ \E d \in Chat : Pending(d)' /\ call'[d].answer = v
        BY <1>0 DEF StaleForAReason
      <3>1. CASE u = t
        BY <2>2, <2>3, <3>1
      <3>2. CASE u # t
        <4>1. \A d \in Chat : Pending(d) => at'[d] = at[d] /\ call'[d] = call[d]
          BY <1>0, <1>2 DEF Pending
        <4> QED
          BY <2>3, <3>2, <4>1 DEF ToolsInv, StaleForAReason, Pending
      <3> QED
        BY <3>1, <3>2
    <2> QED
      BY <2>4, <2>6, <2>7, <2>8 DEF ToolsInv
  <1> QED
    BY <1>3, <1>4 DEF StoreAnswer

\* An answer that stays has kept its place and its age.
LEMMA RemovalInv ==
  ASSUME ToolsInv, UNCHANGED version, adrift' \in 0..Changes,
         toolcache' \in [Read -> Entry(version)],
         \A t \in Read : toolcache'[t] = toolcache[t] \/ toolcache'[t] = NoAnswer,
         call' \in [Chat -> CallAt(version)],
         at' \in [Chat -> {"idle", "lookup", "call", "answer", "store", "scan", "delete"}],
         \A d \in Chat : at'[d] = "idle" \/ (at'[d] = at[d] /\ call'[d] = call[d]),
         unheard \subseteq unheard', unheard' \subseteq 1..version, faults' \in 0..Faults,
         \A d \in Chat, t \in Read : Pending(d) /\ toolcache'[t].there =>
            \/ call[d].answer \in unheard' \/ call[d].answer <= toolcache[t].stored
            \/ at'[d] = at[d] /\ call'[d] = call[d]
  PROVE  ToolsInv'
  <1>1. ToolsTypeOK'
    BY DEF ToolsInv, ToolsTypeOK, NoAnswer
  <1>2. CallsHold'
    BY DEF ToolsInv, CallsHold, Pending
  <1>3. \A t \in Read : toolcache'[t].there => toolcache'[t] = toolcache[t]
    BY DEF NoAnswer
  <1>4. ScanIsLater'
    BY <1>3 DEF ToolsInv, ScanIsLater
  <1>5. StaleForAReason'
    <2> SUFFICES ASSUME NEW t \in Read, NEW v \in 1..version,
                        toolcache'[t].there, toolcache[t].there, toolcache[t].version < v
                 PROVE  \/ v \in unheard' \/ v <= toolcache[t].stored
                        \/ \E d \in Chat : Pending(d)' /\ call'[d].answer = v
      BY <1>3 DEF StaleForAReason
    <2> QED
      BY DEF ToolsInv, StaleForAReason, Pending
  <1> QED
    BY <1>1, <1>2, <1>4, <1>5 DEF ToolsInv

LEMMA NoAnswerType == ASSUME NEW v \in Nat PROVE NoAnswer \in Entry(v)
  BY DEF NoAnswer, Entry

LEMMA DeleteKeysInv ==
  ASSUME ToolsInv, NEW c \in Chat, DeleteKeys(c)
  PROVE  ToolsInv'
  <1>0. /\ ToolsTypeOK /\ at[c] = "delete" /\ UNCHANGED <<version, adrift>>
        /\ version \in Nat /\ version \in version..Changes /\ Returns(c)
        /\ toolcache \in [Read -> Entry(version)] /\ call[c].answer \in 1..version
        /\ unheard \subseteq 1..version /\ adrift' \in 0..Changes /\ CallsHold /\ Pending(c)
    BY CallAssumption DEF ToolsInv, ToolsTypeOK, DeleteKeys, CallsHold, Pending
  <1>1. faults' \in 0..Faults
    BY <1>0, CallAssumption DEF DeleteKeys, RedisFails, ToolsTypeOK
  <1>2. /\ call' \in [Chat -> CallAt(version)] /\ at'[c] = "idle"
        /\ at' \in [Chat -> {"idle", "lookup", "call", "answer", "store", "scan", "delete"}]
        /\ \A d \in Chat \ {c} : call'[d] = call[d] /\ at'[d] = at[d]
    BY <1>0, ReturnsType
  <1>3. CASE /\ unheard' = unheard
             /\ toolcache' = [t \in Read |-> IF t \in call[c].keys THEN NoAnswer ELSE toolcache[t]]
    <2>1. /\ toolcache' \in [Read -> Entry(version)]
          /\ \A t \in Read : toolcache'[t] = toolcache[t] \/ toolcache'[t] = NoAnswer
      BY <1>0, <1>3, NoAnswerType
    <2>2. \A t \in Read : toolcache'[t].there => call[c].answer <= toolcache[t].stored
      <3>1. \A t \in Read : toolcache'[t].there => t \notin call[c].keys /\ toolcache[t].there
        BY <1>3 DEF NoAnswer
      <3> QED
        BY <1>0, <3>1 DEF ToolsInv, ScanIsLater
    <2> QED
      BY <1>0, <1>1, <1>2, <1>3, <2>1, <2>2, RemovalInv
  <1>4. CASE Forgets({c}) /\ UNCHANGED toolcache
    <2>1. /\ unheard \subseteq unheard' /\ unheard' \subseteq 1..version
          /\ call[c].answer \in unheard'
      BY <1>0, <1>4, ForgetsIs
    <2> QED
      BY <1>0, <1>1, <1>2, <1>4, <2>1, RemovalInv
  <1> QED
    BY <1>3, <1>4 DEF DeleteKeys

LEMMA ExpireAnswerInv ==
  ASSUME ToolsInv, ExpireAnswer
  PROVE  ToolsInv'
  <1>0. /\ ToolsTypeOK /\ UNCHANGED <<at, call, version, adrift, unheard, faults>>
        /\ version \in Nat /\ toolcache \in [Read -> Entry(version)]
    BY DEF ToolsInv, ToolsTypeOK, ExpireAnswer
  <1>1. /\ toolcache' \in [Read -> Entry(version)]
        /\ \A t \in Read : toolcache'[t] = toolcache[t] \/ toolcache'[t] = NoAnswer
    BY <1>0, NoAnswerType DEF ExpireAnswer
  <1> QED
    BY <1>0, <1>1, RemovalInv DEF ToolsTypeOK

LEMMA RestartHostInv ==
  ASSUME ToolsInv, RestartHost
  PROVE  ToolsInv'
  <1>0. /\ ToolsTypeOK /\ CallsHold /\ UNCHANGED <<toolcache, version, faults>>
        /\ version \in Nat /\ call \in [Chat -> CallAt(version)]
    BY DEF ToolsInv, ToolsTypeOK, RestartHost
  <1>1. \A c \in Chat : [NoCall EXCEPT !.made = call[c].made] \in CallAt(version)
    <2> SUFFICES ASSUME NEW c \in Chat
                 PROVE  [NoCall EXCEPT !.made = call[c].made] \in CallAt(version)
      OBVIOUS
    <2>1. call[c].made \in 0..Calls
      BY <1>0 DEF CallAt
    <2> QED
      BY <1>0, <2>1, CallAssumption DEF NoCall, CallAt
  <1>2. /\ call' \in [Chat -> CallAt(version)]
        /\ at' \in [Chat -> {"idle", "lookup", "call", "answer", "store", "scan", "delete"}]
        /\ \A d \in Chat : at'[d] = "idle"
    BY <1>1 DEF RestartHost
  <1>3. /\ \A d \in Chat : Pending(d) => call[d].answer \in unheard'
        /\ unheard \subseteq unheard' /\ unheard' \subseteq 1..version
    BY <1>0, ForgetsIs DEF RestartHost
  <1>4. adrift' \in 0..Changes
    <2>1. PICK late \in SUBSET {c \in Chat : at[c] = "call" /\ call[c].tool \notin Read} :
             /\ late = {} \/ version + adrift + Cardinality(late) <= Changes
             /\ adrift' = adrift + Cardinality(late)
      BY DEF RestartHost
    <2>2. Cardinality(late) \in Nat /\ (late = {} => Cardinality(late) = 0)
      <3>1. IsFiniteSet(late)
        BY <2>1, ChatAssumption, FS_Subset
      <3> QED
        BY <3>1, FS_CardinalityType, FS_EmptySet
    <2> QED
      BY <1>0, <2>1, <2>2, CallAssumption DEF ToolsTypeOK
  <1> QED
    BY <1>0, <1>2, <1>3, <1>4, RemovalInv DEF ToolsTypeOK

LEMMA FinishAdriftInv ==
  ASSUME ToolsInv, FinishAdrift
  PROVE  ToolsInv'
  <1>0. /\ ToolsTypeOK /\ UNCHANGED <<toolcache, at, call, faults>>
        /\ version \in Nat /\ version' = version + 1 /\ unheard' = unheard \cup {version'}
    BY DEF ToolsInv, ToolsTypeOK, FinishAdrift, Changed
  <1>1. version' \in version..Changes /\ adrift' \in 0..Changes
    BY <1>0, CallAssumption DEF FinishAdrift, Changed, ToolsTypeOK
  <1>2. /\ toolcache \in [Read -> Entry(version')] /\ call \in [Chat -> CallAt(version')]
        /\ unheard \subseteq 1..version' /\ version' \in 0..Changes
        /\ \A v \in 1..version' : v = version' \/ v \in 1..version
        /\ 1..version \subseteq 1..version'
    BY <1>0, <1>1, Widen
  <1>3. ToolsTypeOK'
    BY <1>0, <1>1, <1>2 DEF ToolsTypeOK
  <1>4. CallsHold' /\ ScanIsLater'
    BY <1>0, <1>2 DEF ToolsInv, CallsHold, ScanIsLater, Pending
  <1>5. StaleForAReason'
    BY <1>0, <1>2 DEF ToolsInv, StaleForAReason, Pending
  <1> QED
    BY <1>3, <1>4, <1>5 DEF ToolsInv

LEMMA ToolsInitInv == ToolsInit => ToolsInv
  BY ToolsTypeInit DEF ToolsInit, ToolsInv, CallsHold, ScanIsLater, StaleForAReason, Pending,
     NoAnswer

LEMMA ToolsStepInv == ToolsInv /\ [ToolsNext]_toolVars => ToolsInv'
  <1> SUFFICES ASSUME ToolsInv, [ToolsNext]_toolVars PROVE ToolsInv'
    OBVIOUS
  <1>1. CASE UNCHANGED toolVars
    BY <1>1 DEF toolVars, ToolsInv, ToolsTypeOK, CallsHold, ScanIsLater, StaleForAReason, Pending
  <1>2. CASE ToolsNext
    BY <1>2, CallToolInv, LookupInv, PerformedInv, AnsweredInv, RefusedInv, TimedOutInv, StoreAnswerInv,
       ScanCacheInv, DeleteKeysInv, FinishAdriftInv, ExpireAnswerInv, RestartHostInv DEF ToolsNext
  <1> QED
    BY <1>1, <1>2

LEMMA ToolsInvariant == ToolsSpec => []ToolsInv
  BY ToolsInitInv, ToolsStepInv, PTL DEF ToolsSpec

\* The cache and the calls keep their types, with calls that are retried, with
\* Redis failing and with the host restarting: in particular no answer is stored
\* that is newer than the data.
THEOREM ToolsTypeCorrect == ToolsSpec => []ToolsTypeOK
  <1>1. ToolsInv => ToolsTypeOK
    BY DEF ToolsInv
  <1> QED
    BY <1>1, ToolsInvariant, PTL

\* A cached answer hides a change only for one of the reasons that the invalidation
\* after a change leaves open, for any number of chats, tools and changes.
THEOREM StaleAnswersHaveReasons == ToolsSpec => []StaleForAReason
  <1>1. ToolsInv => StaleForAReason
    BY DEF ToolsInv
  <1> QED
    BY <1>1, ToolsInvariant, PTL

-----------------------------------------------------------------------------
(* The budget.                                                             *)

\* The chats that have read a counter below its cap and have not added to it yet.
Unpaid(k) ==
    {c \in Talk : turn[c].next \in IF k = "session" THEN {"hour", "model"} ELSE {"model", "count"}}

\* The tokens counted and those to come pass a cap by no more than a round for
\* each chat and each failure of Redis.
Covered(k) ==
    used[k] + Cardinality(Unpaid(k)) * RoundTokens
        < Cap(k) + (Cardinality(Talk) + outages) * RoundTokens

DebtBounded == \A k \in Counter : Covered(k)

BudgetInv == BudgetTypeOK /\ DebtBounded

Place == {"listen", "check", "hour", "model", "count", "guard", "tool"}
TurnRecord == [next : Place, round : 0..Rounds, turns : 0..Turns, tokens : 0..RoundTokens]

LEMMA BudgetConstants ==
  /\ Rounds \in Nat \ {0} /\ Recent \in Nat \ {0} /\ Turns \in Nat /\ Outages \in Nat
  /\ SessionCap \in Nat /\ HourCap \in Nat /\ RoundTokens \in Nat \ {0}
  /\ \A k \in Counter : Cap(k) \in Nat
  BY BudgetAssumption, CapAssumption, TalkAssumption DEF Cap, Counter

LEMMA Arithmetic ==
  ASSUME NEW a \in Nat, NEW b \in Nat, NEW n \in Nat
  PROVE  /\ (a + 1) * n = a * n + n /\ a * n \in Nat
         /\ a <= b => a * n <= b * n
  <1>1. (a + 1) * n = a * n + n /\ a * n \in Nat
    OBVIOUS
  <1>2. ASSUME a <= b PROVE a * n <= b * n
    <2>1. PICK d \in Nat : b = a + d
      BY <1>2
    <2>2. b * n = a * n + d * n /\ d * n \in Nat
      BY <2>1
    <2> QED
      BY <2>2
  <1> QED
    BY <1>1, <1>2

\* Chats that owe, counted.
LEMMA UnpaidCount ==
  /\ Cardinality(Talk) \in Nat /\ Cardinality(Talk) >= 1
  /\ \A S \in SUBSET Talk : IsFiniteSet(S) /\ Cardinality(S) \in Nat
                              /\ Cardinality(S) <= Cardinality(Talk)
  <1>1. IsFiniteSet(Talk) /\ Talk # {}
    BY TalkAssumption
  <1>2. \A S \in SUBSET Talk : /\ IsFiniteSet(S) /\ Cardinality(S) \in Nat
                               /\ Cardinality(S) <= Cardinality(Talk)
    BY <1>1, FS_Subset, FS_CardinalityType
  <1>3. Cardinality(Talk) \in Nat /\ Cardinality(Talk) # 0
    BY <1>1, FS_CardinalityType, FS_EmptySet
  <1> QED
    BY <1>2, <1>3

\* The types, by the parts that steps share.
LEMMA TurnTypes ==
  ASSUME BudgetTypeOK, NEW c \in Talk,
         \/ \E label \in Place : Goes(c, label)
         \/ Quits(c) \/ NextRound(c)
  PROVE  /\ turn' \in [Talk -> TurnRecord]
         /\ \A d \in Talk \ {c} : turn'[d] = turn[d]
  <1>0. turn \in [Talk -> TurnRecord] /\ turn[c] \in TurnRecord
        /\ 0 \in 0..Rounds /\ 0 \in 0..RoundTokens
    BY BudgetConstants DEF BudgetTypeOK, TurnRecord, Place
  <1>1. ASSUME NEW label \in Place, Goes(c, label)
        PROVE  turn' \in [Talk -> TurnRecord] /\ \A d \in Talk \ {c} : turn'[d] = turn[d]
    <2>1. [turn[c] EXCEPT !.next = label] \in TurnRecord
      BY <1>0 DEF TurnRecord
    <2>2. turn' = [turn EXCEPT ![c] = [turn[c] EXCEPT !.next = label]]
      BY <1>0, <1>1 DEF Goes
    <2> QED
      BY <1>0, <2>1, <2>2
  <1>2. ASSUME Quits(c)
        PROVE  turn' \in [Talk -> TurnRecord] /\ \A d \in Talk \ {c} : turn'[d] = turn[d]
    <2>1. [turn[c] EXCEPT !.next = "listen", !.round = 0, !.tokens = 0] \in TurnRecord
      BY <1>0 DEF TurnRecord, Place
    <2>2. turn' = [turn EXCEPT ![c] = [turn[c] EXCEPT !.next = "listen", !.round = 0, !.tokens = 0]]
      BY <1>0, <1>2 DEF Quits
    <2> QED
      BY <1>0, <2>1, <2>2
  <1>3. ASSUME NextRound(c), ~Quits(c)
        PROVE  turn' \in [Talk -> TurnRecord] /\ \A d \in Talk \ {c} : turn'[d] = turn[d]
    <2>1. /\ turn[c].round # Rounds
          /\ turn' = [turn EXCEPT ![c] = [turn[c] EXCEPT !.next = "check", !.round = @ + 1]]
      BY <1>0, <1>3 DEF NextRound
    <2>2. turn[c].round + 1 \in 0..Rounds
      BY <1>0, <2>1, BudgetConstants DEF TurnRecord
    <2>3. [turn[c] EXCEPT !.next = "check", !.round = @ + 1] \in TurnRecord
      BY <1>0, <2>2 DEF TurnRecord, Place
    <2> QED
      BY <1>0, <2>1, <2>3
  <1> QED
    BY <1>1, <1>2, <1>3

LEMMA OutageType ==
  ASSUME BudgetTypeOK, UNCHANGED outages \/ Outage
  PROVE  /\ outages' \in 0..Outages /\ outages \in Nat /\ outages' \in Nat /\ outages <= outages'
         /\ Outage => outages' = outages + 1
  BY BudgetConstants DEF BudgetTypeOK, Outage

\* The two sides of Covered(k), before and after a step.
LEMMA DebtNumbers ==
  ASSUME BudgetTypeOK, BudgetTypeOK', NEW k \in Counter
  PROVE  /\ Unpaid(k) \subseteq Talk /\ Unpaid(k)' \subseteq Talk
         /\ IsFiniteSet(Unpaid(k)) /\ IsFiniteSet(Unpaid(k)')
         /\ Cardinality(Unpaid(k)) \in Nat /\ Cardinality(Unpaid(k)') \in Nat
         /\ Cardinality(Unpaid(k)') <= Cardinality(Talk)
         /\ Cardinality(Talk) + outages \in Nat /\ Cardinality(Talk) + outages' \in Nat
         /\ Cardinality(Talk) \in Nat /\ outages \in Nat /\ outages' \in Nat
         /\ used[k] \in Nat /\ used'[k] \in Nat /\ Cap(k) \in Nat /\ RoundTokens \in Nat
  <1>1. Unpaid(k) \subseteq Talk /\ Unpaid(k)' \subseteq Talk
    BY DEF Unpaid
  <1>2. outages \in Nat /\ outages' \in Nat /\ used[k] \in Nat /\ used'[k] \in Nat
    BY DEF BudgetTypeOK
  <1> QED
    BY <1>1, <1>2, UnpaidCount, BudgetConstants

\* A step that adds to the counter no more than its debts go down, in rounds,
\* keeps the bound.
LEMMA DebtNotRaised ==
  ASSUME BudgetTypeOK, BudgetTypeOK', NEW k \in Counter, Covered(k),
         Unpaid(k)' \subseteq Unpaid(k), outages <= outages', used'[k] <= used[k]
  PROVE  Covered(k)'
  <1> DEFINE m == Cardinality(Unpaid(k))
             n == Cardinality(Unpaid(k)')
             b == Cardinality(Talk) + outages
             e == Cardinality(Talk) + outages'
  <1>1. n <= m
    BY DebtNumbers, FS_Subset
  <1>2. /\ m \in Nat /\ n \in Nat /\ b \in Nat /\ e \in Nat /\ b <= e
        /\ used[k] \in Nat /\ used'[k] \in Nat /\ Cap(k) \in Nat /\ RoundTokens \in Nat
    BY DebtNumbers
  <1>3. used[k] + m * RoundTokens < Cap(k) + b * RoundTokens
    BY DEF Covered
  <1> HIDE DEF m, n, b, e
  <1>4. n * RoundTokens <= m * RoundTokens /\ b * RoundTokens <= e * RoundTokens
    BY <1>1, <1>2, Arithmetic
  <1>5. /\ n * RoundTokens \in Nat /\ m * RoundTokens \in Nat
        /\ b * RoundTokens \in Nat /\ e * RoundTokens \in Nat
    BY <1>2, Arithmetic
  <1>6. used'[k] + n * RoundTokens < Cap(k) + e * RoundTokens
    BY <1>2, <1>3, <1>4, <1>5
  <1> QED
    BY <1>6 DEF Covered, Cap, n, e

\* One more debt is covered by the cap if Redis answered, and by its failure if
\* it did not.
LEMMA DebtTaken ==
  ASSUME BudgetTypeOK, BudgetTypeOK', NEW k \in Counter, Covered(k),
         NEW c \in Talk, c \notin Unpaid(k), Unpaid(k)' = Unpaid(k) \cup {c},
         used'[k] = used[k],
         outages' = outages + 1 \/ (outages' = outages /\ used[k] < Cap(k))
  PROVE  Covered(k)'
  <1> DEFINE m == Cardinality(Unpaid(k))
             b == Cardinality(Talk) + outages
  <1>1. Cardinality(Unpaid(k)') = m + 1
    BY DebtNumbers, FS_AddElement
  <1>2. m \in Nat /\ b \in Nat /\ m + 1 <= b
    <2>1. PICK t \in Nat : t = Cardinality(Talk)
      BY DebtNumbers
    <2>2. m \in Nat /\ outages \in Nat
      BY DebtNumbers
    <2>3. m + 1 <= t
      BY <1>1, <2>1, DebtNumbers
    <2>4. b = t + outages
      BY <2>1
    <2> HIDE DEF m, b
    <2> QED
      BY <2>1, <2>2, <2>3, <2>4
  <1>3. used[k] \in Nat /\ Cap(k) \in Nat /\ RoundTokens \in Nat
    BY DebtNumbers
  <1>4. CASE outages' = outages /\ used[k] < Cap(k)
    <2>1. Cardinality(Talk) + outages' = b
      BY <1>4
    <2> HIDE DEF m, b
    <2>2. (m + 1) * RoundTokens <= b * RoundTokens
      <3>1. m + 1 \in Nat
        BY <1>2
      <3> QED
        BY <1>2, <1>3, <3>1, Arithmetic
    <2>3. (m + 1) * RoundTokens \in Nat /\ b * RoundTokens \in Nat
      BY <1>2, <1>3, Arithmetic
    <2>4. used'[k] + (m + 1) * RoundTokens < Cap(k) + b * RoundTokens
      BY <1>3, <1>4, <2>2, <2>3
    <2> QED
      BY <1>1, <2>1, <2>4 DEF Covered, Cap
  <1>5. CASE outages' = outages + 1
    <2>1. Cardinality(Talk) + outages' = b + 1
      BY <1>5, DebtNumbers
    <2>2. used[k] + m * RoundTokens < Cap(k) + b * RoundTokens
      BY DEF Covered
    <2> HIDE DEF m, b
    <2>3. /\ (m + 1) * RoundTokens = m * RoundTokens + RoundTokens
          /\ (b + 1) * RoundTokens = b * RoundTokens + RoundTokens
          /\ m * RoundTokens \in Nat /\ b * RoundTokens \in Nat
      BY <1>2, <1>3, Arithmetic
    <2>4. used'[k] + (m + 1) * RoundTokens < Cap(k) + (b + 1) * RoundTokens
      BY <1>3, <2>2, <2>3
    <2> QED
      BY <1>1, <2>1, <2>4 DEF Covered, Cap
  <1> QED
    BY <1>4, <1>5

\* A round that is counted pays for its check.
LEMMA DebtPaid ==
  ASSUME BudgetTypeOK, BudgetTypeOK', NEW k \in Counter, Covered(k),
         NEW c \in Talk, c \in Unpaid(k), Unpaid(k)' = Unpaid(k) \ {c},
         used'[k] <= used[k] + RoundTokens, outages <= outages'
  PROVE  Covered(k)'
  <1> DEFINE n == Cardinality(Unpaid(k)')
             b == Cardinality(Talk) + outages
             e == Cardinality(Talk) + outages'
  <1>1. Cardinality(Unpaid(k)') = Cardinality(Unpaid(k)) - 1
    BY DebtNumbers, FS_RemoveElement
  <1>2. Cardinality(Unpaid(k)) = n + 1
    BY <1>1, DebtNumbers
  <1>3. /\ n \in Nat /\ b \in Nat /\ e \in Nat /\ b <= e
        /\ used[k] \in Nat /\ used'[k] \in Nat /\ Cap(k) \in Nat /\ RoundTokens \in Nat
    BY DebtNumbers
  <1>4. used[k] + (n + 1) * RoundTokens < Cap(k) + b * RoundTokens
    BY <1>2 DEF Covered
  <1> HIDE DEF n, b, e
  <1>5. /\ (n + 1) * RoundTokens = n * RoundTokens + RoundTokens
        /\ b * RoundTokens <= e * RoundTokens
        /\ n * RoundTokens \in Nat /\ b * RoundTokens \in Nat /\ e * RoundTokens \in Nat
    BY <1>3, Arithmetic
  <1>6. used'[k] + n * RoundTokens < Cap(k) + e * RoundTokens
    BY <1>3, <1>4, <1>5
  <1> QED
    BY <1>6 DEF Covered, Cap, n, e

\* Each step keeps the types.
LEMMA GuardType ==
  ASSUME BudgetTypeOK, NEW c \in Talk, NEW t \in Called, GuardLoop(c, t)
  PROVE  BudgetTypeOK'
  <1> DEFINE window == IF Len(recent) < Recent THEN Append(recent, t)
                                               ELSE Append(Tail(recent), t)
  <1>1. recent \in Seq(Called) /\ Len(recent) <= Recent /\ Recent \in Nat \ {0}
    BY BudgetConstants DEF BudgetTypeOK
  <1>2. window \in Seq(Called) /\ Len(window) <= Recent
    <2>1. CASE Len(recent) < Recent
      <3>1. Append(recent, t) \in Seq(Called) /\ Len(Append(recent, t)) = Len(recent) + 1
        BY <1>1
      <3> QED
        BY <1>1, <2>1, <3>1
    <2>2. CASE ~(Len(recent) < Recent)
      <3>1. Tail(recent) \in Seq(Called) /\ Len(Tail(recent)) = Len(recent) - 1
        BY <1>1, <2>2
      <3>2. /\ Append(Tail(recent), t) \in Seq(Called)
            /\ Len(Append(Tail(recent), t)) = Len(Tail(recent)) + 1
        BY <3>1
      <3> QED
        BY <1>1, <2>2, <3>1, <3>2
    <2> QED
      BY <2>1, <2>2
  <1>3. recent' = window /\ UNCHANGED <<used, spare, outages>>
    BY DEF GuardLoop
  <1>4. turn' \in [Talk -> TurnRecord]
    BY TurnTypes DEF GuardLoop, Place
  <1> HIDE DEF window
  <1> QED
    BY <1>2, <1>3, <1>4 DEF BudgetTypeOK, TurnRecord, Place

\* What counting does to a turn, and which counter it is about.
LEMMA CountingTurn ==
  ASSUME BudgetTypeOK, NEW c \in Talk, Generate(c) \/ CountHour(c)
  PROVE  /\ turn' \in [Talk -> TurnRecord] /\ \A d \in Talk \ {c} : turn'[d] = turn[d]
         /\ \E k \in Counter, n \in 0..RoundTokens : Count(k, n) /\ UNCHANGED recent
         /\ Generate(c) =>
               /\ turn[c].next = "model" /\ turn'[c].next = "count"
               /\ \E n \in 0..RoundTokens : Count("session", n)
         /\ CountHour(c) =>
               /\ turn[c].next = "count" /\ turn'[c].next \in {"listen", "guard"}
               /\ \E n \in 0..RoundTokens : Count("hour", n)
  <1>1. /\ turn \in [Talk -> TurnRecord] /\ turn[c] \in TurnRecord
        /\ 0 \in 0..Rounds /\ 0 \in 0..RoundTokens
        /\ "session" \in Counter /\ "hour" \in Counter
    BY BudgetConstants DEF BudgetTypeOK, TurnRecord, Place, Counter
  <1>2. CASE Generate(c)
    <2>1. PICK n \in 0..RoundTokens :
             /\ Count("session", n)
             /\ turn' = [turn EXCEPT ![c].next = "count", ![c].tokens = n]
      BY <1>2 DEF Generate
    <2>2. turn' = [turn EXCEPT ![c] = [turn[c] EXCEPT !.next = "count", !.tokens = n]]
      BY <1>1, <2>1
    <2>3. [turn[c] EXCEPT !.next = "count", !.tokens = n] \in TurnRecord
      BY <1>1 DEF TurnRecord, Place
    <2>4. /\ turn' \in [Talk -> TurnRecord] /\ \A d \in Talk \ {c} : turn'[d] = turn[d]
          /\ turn'[c].next = "count"
      BY <1>1, <2>2, <2>3 DEF TurnRecord
    <2>5. turn[c].next = "model" /\ UNCHANGED recent /\ n \in 0..RoundTokens
      BY <1>1, <1>2 DEF Generate
    <2>6. ~CountHour(c)
      BY <2>5 DEF CountHour
    <2> QED
      BY <1>1, <2>1, <2>4, <2>5, <2>6
  <1>3. CASE CountHour(c)
    <2>1. /\ turn[c].next = "count" /\ UNCHANGED recent /\ Count("hour", turn[c].tokens)
          /\ turn[c].tokens \in 0..RoundTokens
      BY <1>1, <1>3 DEF CountHour, TurnRecord
    <2>2. ~Generate(c)
      BY <2>1 DEF Generate
    <2>3. CASE Quits(c)
      <3>1. turn' \in [Talk -> TurnRecord] /\ \A d \in Talk \ {c} : turn'[d] = turn[d]
        BY <2>3, TurnTypes
      <3>2. turn'[c].next = "listen"
        BY <1>1, <2>3 DEF Quits, TurnRecord
      <3> QED
        BY <1>1, <2>1, <2>2, <3>1, <3>2
    <2>4. CASE turn' = [turn EXCEPT ![c].next = "guard", ![c].tokens = 0]
      <3>1. turn' = [turn EXCEPT ![c] = [turn[c] EXCEPT !.next = "guard", !.tokens = 0]]
        BY <1>1, <2>4
      <3>2. [turn[c] EXCEPT !.next = "guard", !.tokens = 0] \in TurnRecord
        BY <1>1 DEF TurnRecord, Place
      <3>3. /\ turn' \in [Talk -> TurnRecord] /\ \A d \in Talk \ {c} : turn'[d] = turn[d]
            /\ turn'[c].next = "guard"
        BY <1>1, <3>1, <3>2 DEF TurnRecord
      <3> QED
        BY <1>1, <2>1, <2>2, <3>3
    <2> QED
      BY <1>3, <2>3, <2>4 DEF CountHour
  <1> QED
    BY <1>2, <1>3

\* What counting does to the counters.
LEMMA CountType ==
  ASSUME BudgetTypeOK, NEW k \in Counter, NEW n \in 0..RoundTokens, Count(k, n)
  PROVE  /\ outages' \in 0..Outages /\ outages <= outages'
         /\ used' \in [Counter -> Nat] /\ spare' \in [Counter -> Nat]
         /\ used'[k] <= used[k] + RoundTokens
         /\ \A j \in Counter \ {k} : used'[j] = used[j]
  <1>1. /\ used \in [Counter -> Nat] /\ spare \in [Counter -> Nat] /\ n \in Nat
        /\ n <= RoundTokens /\ RoundTokens \in Nat
        /\ used[k] \in Nat /\ spare[k] \in Nat /\ used[k] + n \in Nat /\ spare[k] + n \in Nat
    BY BudgetConstants DEF BudgetTypeOK
  <1>2. outages' \in 0..Outages /\ outages <= outages'
    BY OutageType DEF Count
  <1>3. /\ used' = used \/ used' = [used EXCEPT ![k] = used[k] + n]
        /\ spare' = spare \/ spare' = [spare EXCEPT ![k] = spare[k] + n]
    BY DEF Count
  <1> QED
    BY <1>1, <1>2, <1>3

LEMMA BudgetTypeStep == BudgetTypeOK /\ [BudgetNext]_budgetVars => BudgetTypeOK'
  <1> SUFFICES ASSUME BudgetTypeOK, [BudgetNext]_budgetVars PROVE BudgetTypeOK'
    OBVIOUS
  <1>1. CASE UNCHANGED budgetVars
    BY <1>1 DEF budgetVars, BudgetTypeOK
  <1>2. ASSUME NEW c \in Talk, Ask(c) PROVE BudgetTypeOK'
    <2>1. /\ turn \in [Talk -> TurnRecord] /\ turn[c] \in TurnRecord
          /\ turn[c].turns + 1 \in 0..Turns /\ 1 \in 0..Rounds
      BY <1>2, BudgetConstants DEF Ask, BudgetTypeOK, TurnRecord, Place
    <2>2. turn' = [turn EXCEPT ![c] = [turn[c] EXCEPT !.next = "check", !.round = 1, !.turns = @ + 1]]
      BY <1>2, <2>1 DEF Ask
    <2>3. [turn[c] EXCEPT !.next = "check", !.round = 1, !.turns = @ + 1] \in TurnRecord
      BY <2>1 DEF TurnRecord, Place
    <2>4. turn' \in [Talk -> TurnRecord]
      BY <2>1, <2>2, <2>3
    <2> QED
      BY <1>2, <2>4 DEF Ask, BudgetTypeOK, TurnRecord, Place
  <1>3. ASSUME NEW c \in Talk, Clear(c) PROVE BudgetTypeOK'
    <2>1. outages' \in 0..Outages
      BY <1>3, OutageType DEF Clear
    <2>2. used' \in [Counter -> Nat] /\ spare' \in [Counter -> Nat]
      <3>1. "session" \in Counter /\ 0 \in Nat
        BY DEF Counter
      <3>2. used' = used \/ used' = [used EXCEPT !["session"] = 0]
        BY <1>3 DEF Clear
      <3>3. spare' = [spare EXCEPT !["session"] = 0]
        BY <1>3 DEF Clear
      <3> QED
        BY <3>1, <3>2, <3>3 DEF BudgetTypeOK
    <2>3. recent' \in Seq(Called) /\ Len(recent') <= Recent
      BY <1>3, BudgetConstants DEF Clear
    <2> QED
      BY <1>3, <2>1, <2>2, <2>3 DEF Clear, BudgetTypeOK
  <1>4. ASSUME NEW c \in Talk, NEW k \in Counter, CheckBudget(c, k) PROVE BudgetTypeOK'
    <2>1. turn' \in [Talk -> TurnRecord]
      BY <1>4, TurnTypes DEF CheckBudget, Judge, Place
    <2>2. outages' \in 0..Outages
      BY <1>4, OutageType DEF CheckBudget
    <2> QED
      BY <1>4, <2>1, <2>2 DEF CheckBudget, BudgetTypeOK, TurnRecord, Place
  <1>5. ASSUME NEW c \in Talk, Generate(c) \/ CountHour(c) PROVE BudgetTypeOK'
    <2>1. turn' \in [Talk -> TurnRecord]
      BY <1>5, CountingTurn
    <2>2. PICK k \in Counter, n \in 0..RoundTokens : Count(k, n) /\ UNCHANGED recent
      BY <1>5, CountingTurn
    <2>3. /\ outages' \in 0..Outages
          /\ used' \in [Counter -> Nat] /\ spare' \in [Counter -> Nat]
      BY <2>2, CountType
    <2> QED
      BY <2>1, <2>2, <2>3 DEF BudgetTypeOK, TurnRecord, Place
  <1>6. ASSUME NEW c \in Talk, Breaks(c) \/ Forbidden(c) \/ ToolDone(c) PROVE BudgetTypeOK'
    <2>1. turn' \in [Talk -> TurnRecord]
      BY <1>6, TurnTypes DEF Breaks, Forbidden, ToolDone
    <2> QED
      BY <1>6, <2>1 DEF Breaks, Forbidden, ToolDone, BudgetTypeOK, TurnRecord, Place
  <1>7. ASSUME NEW c \in Talk, NEW t \in Called, GuardLoop(c, t) PROVE BudgetTypeOK'
    BY <1>7, GuardType
  <1>8. CASE ExpireCount
    BY <1>8 DEF ExpireCount, BudgetTypeOK
  <1>9. CASE RestartChats
    <2>1. ASSUME NEW c \in Talk
          PROVE  [turn[c] EXCEPT !.next = "listen", !.round = 0, !.tokens = 0] \in TurnRecord
      <3>1. turn[c] \in TurnRecord /\ 0 \in 0..Rounds /\ 0 \in 0..RoundTokens
        BY BudgetConstants DEF BudgetTypeOK, TurnRecord, Place
      <3> QED
        BY <3>1 DEF TurnRecord, Place
    <2>2. turn' \in [Talk -> TurnRecord] /\ spare' \in [Counter -> Nat]
      BY <1>9, <2>1 DEF RestartChats
    <2> QED
      BY <1>9, <2>2 DEF RestartChats, BudgetTypeOK, TurnRecord, Place
  <1> QED
    BY <1>1, <1>2, <1>3, <1>4, <1>5, <1>6, <1>7, <1>8, <1>9 DEF BudgetNext

\* A check that lets a chat through takes one more debt for the counter it has
\* read; the chat then owes both.
LEMMA CheckBudgetDebt ==
  ASSUME BudgetTypeOK, DebtBounded, BudgetTypeOK',
         NEW c \in Talk, NEW k \in Counter, CheckBudget(c, k)
  PROVE  DebtBounded'
  <1> DEFINE on == IF k = "session" THEN "hour" ELSE "model"
  <1>1. /\ turn[c].next = IF k = "session" THEN "check" ELSE "hour"
        /\ UNCHANGED used /\ outages <= outages'
        /\ \A d \in Talk \ {c} : turn'[d] = turn[d]
    BY OutageType, TurnTypes DEF CheckBudget, Judge, Place
  <1>2. \A j \in Counter : used'[j] <= used[j] /\ used'[j] = used[j]
    BY <1>1 DEF BudgetTypeOK
  <1>3. CASE Quits(c)
    <2>1. turn'[c].next = "listen"
      BY <1>3 DEF Quits, BudgetTypeOK
    <2>2. \A j \in Counter : Unpaid(j)' \subseteq Unpaid(j)
      BY <1>1, <2>1 DEF Unpaid
    <2> QED
      BY <1>1, <1>2, <2>2, DebtNotRaised DEF DebtBounded
  <1>4. CASE Goes(c, on) /\ ~Quits(c)
    <2>1. turn'[c].next = on
      BY <1>4 DEF Goes, BudgetTypeOK
    <2>2. Unpaid(k)' = Unpaid(k) \cup {c} /\ c \notin Unpaid(k)
      BY <1>1, <2>1 DEF Unpaid
    <2>3. \A j \in Counter \ {k} : Unpaid(j)' \subseteq Unpaid(j)
      <3>1. CASE k = "session"
        BY <1>1, <2>1, <3>1 DEF Unpaid, Counter
      <3>2. CASE k = "hour"
        BY <1>1, <2>1, <3>2 DEF Unpaid, Counter
      <3> QED
        BY <3>1, <3>2 DEF Counter
    <2>4. outages' = outages + 1 \/ (outages' = outages /\ used[k] < Cap(k))
      <3>1. \/ Outage
            \/ UNCHANGED outages /\ ~Exceeded(c, k, used[k])
        BY <1>4 DEF CheckBudget, Judge
      <3>2. used[k] \in Nat /\ Cap(k) \in Nat
        BY DebtNumbers
      <3> QED
        BY <3>1, <3>2, OutageType DEF Exceeded
    <2>5. Covered(k)'
      BY <1>2, <2>2, <2>4, DebtTaken DEF DebtBounded
    <2>6. \A j \in Counter \ {k} : Covered(j)'
      BY <1>1, <1>2, <2>3, DebtNotRaised DEF DebtBounded
    <2> QED
      BY <2>5, <2>6 DEF DebtBounded
  <1> QED
    BY <1>3, <1>4 DEF CheckBudget, Judge

\* Counting for the session pays that debt and leaves the other; counting for the
\* hour pays the other.
LEMMA CountDebt ==
  ASSUME BudgetTypeOK, DebtBounded, BudgetTypeOK', NEW c \in Talk,
         Generate(c) \/ CountHour(c)
  PROVE  DebtBounded'
  <1>1. \A d \in Talk \ {c} : turn'[d] = turn[d]
    BY CountingTurn
  <1>2. ASSUME NEW k \in Counter, NEW n \in 0..RoundTokens, Count(k, n),
               c \in Unpaid(k), Unpaid(k)' = Unpaid(k) \ {c},
               \A j \in Counter \ {k} : Unpaid(j)' \subseteq Unpaid(j)
        PROVE  DebtBounded'
    <2>1. /\ outages <= outages' /\ used'[k] <= used[k] + RoundTokens
          /\ \A j \in Counter \ {k} : used'[j] = used[j]
      BY <1>2, CountType
    <2>2. Covered(k)'
      BY <1>2, <2>1, DebtPaid DEF DebtBounded
    <2>3. ASSUME NEW j \in Counter \ {k} PROVE Covered(j)'
      <3>1. used'[j] <= used[j]
        BY <2>1, DebtNumbers
      <3> QED
        BY <1>2, <2>1, <3>1, DebtNotRaised DEF DebtBounded
    <2> QED
      BY <2>2, <2>3 DEF DebtBounded
  <1>3. CASE Generate(c)
    <2>1. PICK n \in 0..RoundTokens : Count("session", n)
      BY <1>3, CountingTurn
    <2>2. turn[c].next = "model" /\ turn'[c].next = "count"
      BY <1>3, CountingTurn
    <2>3. /\ "session" \in Counter /\ c \in Unpaid("session")
          /\ Unpaid("session")' = Unpaid("session") \ {c}
          /\ \A j \in Counter \ {"session"} : Unpaid(j)' \subseteq Unpaid(j)
      BY <1>1, <2>2 DEF Unpaid, Counter
    <2> QED
      BY <1>2, <2>1, <2>3
  <1>4. CASE CountHour(c)
    <2>1. PICK n \in 0..RoundTokens : Count("hour", n)
      BY <1>4, CountingTurn
    <2>2. turn[c].next = "count" /\ turn'[c].next \in {"listen", "guard"}
      BY <1>4, CountingTurn
    <2>3. /\ "hour" \in Counter /\ c \in Unpaid("hour")
          /\ Unpaid("hour")' = Unpaid("hour") \ {c}
          /\ \A j \in Counter \ {"hour"} : Unpaid(j)' \subseteq Unpaid(j)
      BY <1>1, <2>2 DEF Unpaid, Counter
    <2> QED
      BY <1>2, <2>1, <2>3
  <1> QED
    BY <1>3, <1>4

LEMMA OtherDebt ==
  ASSUME BudgetTypeOK, DebtBounded, BudgetTypeOK', [BudgetNext]_budgetVars,
         \A c \in Talk : ~Generate(c) /\ ~CountHour(c) /\ \A k \in Counter : ~CheckBudget(c, k)
  PROVE  DebtBounded'
  <1>0. ASSUME \A k \in Counter : Unpaid(k)' \subseteq Unpaid(k) /\ used'[k] <= used[k],
               outages <= outages'
        PROVE  DebtBounded'
    BY <1>0, DebtNotRaised DEF DebtBounded
  <1>1. CASE UNCHANGED budgetVars
    BY <1>1 DEF budgetVars, DebtBounded, Covered, Unpaid, Cap
  <1>2. ASSUME NEW c \in Talk, turn'[c].next \in {"listen", "check", "tool"},
               \A d \in Talk \ {c} : turn'[d] = turn[d]
        PROVE  \A k \in Counter : Unpaid(k)' \subseteq Unpaid(k)
    BY <1>2 DEF Unpaid
  <1>3. ASSUME NEW c \in Talk, Ask(c) \/ Clear(c) PROVE DebtBounded'
    <2>1. \A k \in Counter : Unpaid(k)' \subseteq Unpaid(k)
      <3>1. CASE Ask(c)
        <4>1. turn'[c].next = "check" /\ \A d \in Talk \ {c} : turn'[d] = turn[d]
          BY <3>1 DEF Ask, BudgetTypeOK
        <4> QED
          BY <4>1, <1>2
      <3>2. CASE Clear(c)
        BY <3>2 DEF Clear, Unpaid
      <3> QED
        BY <1>3, <3>1, <3>2
    <2>2. outages <= outages'
      BY <1>3, OutageType DEF Ask, Clear
    <2>3. \A k \in Counter : used'[k] <= used[k]
      BY <1>3 DEF Ask, Clear, BudgetTypeOK, Counter
    <2> QED
      BY <1>0, <2>1, <2>2, <2>3
  <1>4. ASSUME NEW c \in Talk,
               Breaks(c) \/ Forbidden(c) \/ ToolDone(c) \/ \E t \in Called : GuardLoop(c, t)
        PROVE  DebtBounded'
    <2>1. UNCHANGED <<used, outages>> /\ (Quits(c) \/ NextRound(c) \/ Goes(c, "tool"))
      BY <1>4 DEF Breaks, Forbidden, ToolDone, GuardLoop
    <2>2. turn'[c].next \in {"listen", "check", "tool"}
      BY <2>1 DEF Quits, NextRound, Goes, BudgetTypeOK
    <2>3. \A k \in Counter : Unpaid(k)' \subseteq Unpaid(k)
      BY <1>2, <2>1, <2>2, TurnTypes DEF Place
    <2>4. outages <= outages' /\ \A k \in Counter : used'[k] <= used[k]
      BY <2>1 DEF BudgetTypeOK
    <2> QED
      BY <1>0, <2>3, <2>4
  <1>5. CASE ExpireCount
    <2>1. \A k \in Counter : Unpaid(k)' \subseteq Unpaid(k)
      BY <1>5 DEF ExpireCount, Unpaid
    <2>3. outages <= outages'
      BY <1>5 DEF ExpireCount, BudgetTypeOK
    <2>2. \A k \in Counter : used'[k] <= used[k]
      BY <1>5 DEF ExpireCount, BudgetTypeOK
    <2> QED
      BY <1>0, <2>1, <2>2, <2>3
  <1>6. CASE RestartChats
    <2>1. \A d \in Talk : turn'[d].next = "listen"
      BY <1>6 DEF RestartChats, BudgetTypeOK
    <2>2. \A k \in Counter : Unpaid(k)' \subseteq Unpaid(k)
      BY <2>1 DEF Unpaid
    <2>3. used' = used /\ outages' = outages /\ outages \in Nat
      BY <1>6, OutageType DEF RestartChats
    <2>4. outages <= outages' /\ \A k \in Counter : used'[k] <= used[k]
      BY <2>3 DEF BudgetTypeOK
    <2> QED
      BY <1>0, <2>2, <2>4
  <1> QED
    BY <1>1, <1>3, <1>4, <1>5, <1>6 DEF BudgetNext

LEMMA BudgetInitInv == BudgetInit => BudgetInv
  <1> SUFFICES ASSUME BudgetInit PROVE BudgetInv
    OBVIOUS
  <1>1. BudgetTypeOK
    BY BudgetConstants DEF BudgetInit, BudgetTypeOK
  <1>2. \A k \in Counter : Unpaid(k) = {} /\ Cardinality(Unpaid(k)) = 0
    BY FS_EmptySet DEF BudgetInit, Unpaid
  <1>3. ASSUME NEW k \in Counter
        PROVE  0 + 0 * RoundTokens < Cap(k) + (Cardinality(Talk) + 0) * RoundTokens
    <2>1. RoundTokens \in Nat \ {0} /\ Cap(k) \in Nat
      BY BudgetConstants
    <2>2. PICK b \in Nat : b = Cardinality(Talk) /\ 1 <= b
      BY UnpaidCount
    <2>3. 1 * RoundTokens <= b * RoundTokens /\ b * RoundTokens \in Nat
      BY <2>1, <2>2, Arithmetic
    <2> QED
      BY <2>1, <2>2, <2>3
  <1> QED
    BY <1>1, <1>2, <1>3 DEF BudgetInv, DebtBounded, Covered, BudgetInit

LEMMA BudgetInvariant == BudgetSpec => []BudgetInv
  <1>1. BudgetInv /\ [BudgetNext]_budgetVars => BudgetInv'
    BY BudgetTypeStep, CheckBudgetDebt, CountDebt, OtherDebt DEF BudgetInv
  <1> QED
    BY <1>1, BudgetInitInv, PTL DEF BudgetSpec

\* Counters, loop guard and turns keep their types: no turn goes past its last
\* round, and the window of the guard never outgrows its size.
THEOREM BudgetTypeCorrect == BudgetSpec => []BudgetTypeOK
  <1>1. BudgetInv => BudgetTypeOK
    BY DEF BudgetInv
  <1> QED
    BY <1>1, BudgetInvariant, PTL

\* For any number of chats that check and count without waiting for each other,
\* and any caps: what is counted passes a cap by less than one round for each chat
\* and each failure of Redis.
THEOREM BudgetIsBounded == BudgetSpec => []BudgetBound
  <1>1. ASSUME BudgetInv, NEW k \in Counter
        PROVE  used[k] < Cap(k) + (Cardinality(Talk) + outages) * RoundTokens
    <2>1. Cardinality(Unpaid(k)) \in Nat /\ RoundTokens \in Nat
      BY UnpaidCount, BudgetConstants DEF Unpaid
    <2>2. Cardinality(Unpaid(k)) * RoundTokens \in Nat
      BY <2>1, Arithmetic
    <2>3. PICK b \in Nat : b = Cardinality(Talk) + outages
      BY <1>1, UnpaidCount DEF BudgetInv, BudgetTypeOK
    <2>4. b * RoundTokens \in Nat /\ used[k] \in Nat /\ Cap(k) \in Nat
      BY <1>1, <2>1, <2>3, Arithmetic, BudgetConstants DEF BudgetInv, BudgetTypeOK
    <2>5. used[k] + Cardinality(Unpaid(k)) * RoundTokens < Cap(k) + b * RoundTokens
      BY <1>1, <2>3 DEF BudgetInv, DebtBounded, Covered
    <2> QED
      BY <2>2, <2>3, <2>4, <2>5
  <1>2. BudgetInv => BudgetBound
    BY <1>1 DEF BudgetBound, Cap, Counter
  <1> QED
    BY <1>2, BudgetInvariant, PTL

-----------------------------------------------------------------------------
(* Side by side.                                                           *)

\* Every behaviour of the six together is one of each of them.
THEOREM EdgeImplementsParts ==
  EdgeSpec => /\ LimiterSpec /\ HubSpec /\ AccountsSpec /\ ResetsSpec
              /\ BudgetSpec /\ ToolsSpec
  <1>1. EdgeInit => /\ LimiterInit /\ HubInit /\ AccountsInit /\ ResetsInit
                    /\ BudgetInit /\ ToolsInit
    BY DEF EdgeInit
  <1>2. [EdgeNext]_<<scene, gatewayVars, userVars, hostVars>> =>
          /\ [LimiterNext]_limiterVars /\ [HubNext]_hubVars
          /\ [AccountsNext]_accountVars /\ [ResetsNext]_resetVars
          /\ [BudgetNext]_budgetVars /\ [ToolsNext]_toolVars
    BY DEF EdgeNext, gatewayVars, userVars, hostVars
  <1> QED
    BY <1>1, <1>2, PTL
       DEF EdgeSpec, LimiterSpec, HubSpec, AccountsSpec, ResetsSpec, BudgetSpec, ToolsSpec

\* The state of the limiter, the hub, the user service and the assistant keeps
\* its types.
THEOREM EdgeTypesCorrect == EdgeSpec => []EdgeTypesOK
  <1>1. LimiterTypeOK /\ HubTypeOK /\ AccountsTypeOK /\ ResetsTypeOK /\ BudgetTypeOK
          /\ ToolsTypeOK => EdgeTypesOK
    BY DEF EdgeTypesOK
  <1>2. ResetsInv => ResetsTypeOK
    BY DEF ResetsInv
  <1> QED
    BY <1>1, <1>2, EdgeImplementsParts, LimiterTypeCorrect, HubTypeCorrect, AccountsTypeCorrect,
       ResetsInvariant, BudgetTypeCorrect, ToolsTypeCorrect, PTL

=============================================================================
