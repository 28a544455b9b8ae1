------------------------------ MODULE ToolCalls ------------------------------
(***************************************************************************)
(* The assistant's client of the tool server (mcp-host/mcp_client.py), used *)
(* by every chat of the process at once.  Answers of read tools are cached  *)
(* in Redis until they expire or a change empties the cache; calls are made *)
(* again when they time out.  Every await is a step.                        *)
(***************************************************************************)
EXTENDS Naturals, FiniteSets

CONSTANTS
    Chat,           \* turns that call tools, one at a time each
    Read,           \* tools whose answers are cached
    Hinted,         \* tools that change data and have a hint of it in their name
    Quiet,          \* tools that change data and have none, as shipments_redirect
    Attempts,       \* RETRY_MAX_ATTEMPTS
    Calls,          \* bound on the calls of a chat
    Changes,        \* bound on the changes to the data
    Faults          \* bound on the failures of Redis

Tool == Read \cup Hinted \cup Quiet

ASSUME ToolAssumption == Read \cap (Hinted \cup Quiet) = {} /\ Hinted \cap Quiet = {}
ASSUME CallAssumption == Attempts \in Nat \ {0} /\ {Calls, Changes, Faults} \subseteq Nat
ASSUME ChatAssumption == IsFiniteSet(Chat)

VARIABLES
    toolcache,  \* toolcache[t]: the answer of t, or NoAnswer
    at,         \* at[c]: what the call of c does next
    call,       \* call[c]: calls so far, the tool, its attempt, its answer, keys found
    version,    \* changes to the data so far: an answer shows a version of it
    adrift,     \* changes given up on that may still happen
    unheard,    \* changes that no answer led to emptying the cache (history)
    faults      \* failures of Redis so far

toolVars == <<toolcache, at, call, version, adrift, unheard, faults>>

NoAnswer == [version |-> 0, stored |-> 0, there |-> FALSE]
NoCall   == [made |-> 0, tool |-> "none", attempt |-> 0, answer |-> 0, keys |-> {}]

\* An entry of the cache and a call under way, after v changes.
Entry(v)  == [version : 0..v, stored : 0..v, there : BOOLEAN]
CallAt(v) == [made : 0..Calls, tool : Tool \cup {"none"}, attempt : 0..(Attempts - 1),
              answer : 0..v, keys : SUBSET Read]

\* Type correctness of the cache and of the calls.
ToolsTypeOK ==
    /\ toolcache \in [Read -> Entry(version)]
    /\ \A t \in Read : toolcache[t].version <= toolcache[t].stored
    /\ version \in 0..Changes /\ adrift \in 0..Changes /\ unheard \subseteq 1..version
    /\ at \in [Chat -> {"idle", "lookup", "call", "answer", "store", "scan", "delete"}]
    /\ call \in [Chat -> CallAt(version)]
    /\ faults \in 0..Faults

ToolsInit ==
    /\ toolcache = [t \in Read |-> NoAnswer]
    /\ at = [c \in Chat |-> "idle"] /\ call = [c \in Chat |-> NoCall]
    /\ version = 0 /\ adrift = 0 /\ unheard = {} /\ faults = 0

GoesTo(c, label) == at' = [at EXCEPT ![c] = label]

Returns(c) ==
    /\ GoesTo(c, "idle")
    /\ call' = [call EXCEPT ![c] = [NoCall EXCEPT !.made = call[c].made]]

RedisFails == faults < Faults /\ faults' = faults + 1       \* bound

\* call_tool: only answers of read tools are looked for in the cache.
CallTool(c, t) ==
    /\ at[c] = "idle" /\ call[c].made < Calls
    /\ GoesTo(c, IF t \in Read THEN "lookup" ELSE "call")
    /\ call' = [call EXCEPT ![c].made = @ + 1, ![c].tool = t]
    /\ UNCHANGED <<toolcache, version, adrift, unheard, faults>>

\* A hit ends the call; a miss, or Redis failing, goes on to the tool server.
Lookup(c) ==
    /\ at[c] = "lookup"
    /\ \/ toolcache[call[c].tool].there /\ Returns(c) /\ UNCHANGED faults
       \/ /\ \/ ~toolcache[call[c].tool].there /\ UNCHANGED faults
             \/ RedisFails
          /\ GoesTo(c, "call") /\ UNCHANGED call
    /\ UNCHANGED <<toolcache, version, adrift, unheard>>

Changed == version < Changes /\ version' = version + 1      \* bound

\* The change of a call has been made, and the call may still empty the cache.
Pending(c) ==
    \/ at[c] = "answer" /\ call[c].tool \notin Read
    \/ at[c] \in {"scan", "delete"}

Forgets(S) == unheard' = unheard \cup {call[c].answer : c \in {d \in S : Pending(d)}}

\* The tool server does what the call asks for.
Performed(c) ==
    /\ at[c] = "call"
    /\ IF call[c].tool \in Read THEN UNCHANGED version ELSE Changed
    /\ GoesTo(c, "answer")
    /\ call' = [call EXCEPT ![c].answer = version']
    /\ UNCHANGED <<toolcache, adrift, unheard, faults>>

\* Its answer comes in time.  Only a change with a hint in its name will empty the
\* cache.
Answered(c) ==
    /\ at[c] = "answer"
    /\ IF call[c].tool \in Quiet
       THEN Forgets({c}) /\ Returns(c)
       ELSE /\ GoesTo(c, IF call[c].tool \in Read THEN "store" ELSE "scan")
            /\ UNCHANGED <<call, unheard>>
    /\ UNCHANGED <<toolcache, version, adrift, faults>>

\* A call that failed has been performed, or has not, or will be.
Fails(c) ==
    /\ at[c] \in {"call", "answer"}
    /\ Forgets({c})
    /\ \/ UNCHANGED adrift
       \/ /\ at[c] = "call" /\ call[c].tool \notin Read
          /\ version + adrift < Changes /\ adrift' = adrift + 1      \* bound
    /\ UNCHANGED <<toolcache, version, faults>>

\* The answer is an error of the tool, which may have failed after its change, or
\* the failure is not worth a retry.
Refused(c) == Fails(c) /\ Returns(c)

\* A timeout, or a failure that is worth a retry: up to the limit of attempts the
\* call is made again, changes included.
TimedOut(c) ==
    /\ Fails(c)
    /\ IF call[c].attempt + 1 < Attempts
       THEN /\ GoesTo(c, "call")
            /\ call' = [call EXCEPT ![c].attempt = @ + 1, ![c].answer = 0]
       ELSE Returns(c)

\* The tool server finishes a call that nobody waits for.
FinishAdrift ==
    /\ adrift > 0 /\ adrift' = adrift - 1
    /\ Changed /\ unheard' = unheard \cup {version'}
    /\ UNCHANGED <<toolcache, at, call, faults>>

\* _cache_set
StoreAnswer(c) ==
    /\ at[c] = "store"
    /\ \/ /\ toolcache' = [toolcache EXCEPT ![call[c].tool] =
                 [version |-> call[c].answer, stored |-> version, there |-> TRUE]]
          /\ UNCHANGED faults
       \/ RedisFails /\ UNCHANGED toolcache
    /\ Returns(c)
    /\ UNCHANGED <<version, adrift, unheard>>

\* The first page only.
FoundKeys_FirstPage(entries) ==
    LET keys == {t \in Read : entries[t].there}
    IN  IF keys = {} THEN {} ELSE {CHOOSE t \in keys : TRUE}

\* The keys that SCAN finds, page after page.
FoundKeys(entries) == {t \in Read : entries[t].there}

\* _cache_invalidate_all looks for the keys and then deletes those it found.
ScanCache(c) ==
    /\ at[c] = "scan"
    /\ \/ /\ GoesTo(c, "delete")
          /\ call' = [call EXCEPT ![c].keys = FoundKeys(toolcache)]
          /\ UNCHANGED <<unheard, faults>>
       \/ RedisFails /\ Returns(c) /\ Forgets({c})
    /\ UNCHANGED <<toolcache, version, adrift>>

DeleteKeys(c) ==
    /\ at[c] = "delete"
    /\ \/ /\ toolcache' = [t \in Read |-> IF t \in call[c].keys THEN NoAnswer ELSE toolcache[t]]
          /\ UNCHANGED <<unheard, faults>>
       \/ RedisFails /\ Forgets({c}) /\ UNCHANGED toolcache
    /\ Returns(c)
    /\ UNCHANGED <<version, adrift>>

\* The time to live of an answer is over.
ExpireAnswer ==
    /\ \E t \in Read : /\ toolcache[t].there
                       /\ toolcache' = [toolcache EXCEPT ![t] = NoAnswer]
    /\ UNCHANGED <<at, call, version, adrift, unheard, faults>>

\* The host stops in the middle of its calls; Redis and the data stay, and the
\* tool server may still perform the calls it was sent.
RestartHost ==
    /\ at' = [c \in Chat |-> "idle"]
    /\ call' = [c \in Chat |-> [NoCall EXCEPT !.made = call[c].made]]
    /\ Forgets(Chat)
    /\ \E late \in SUBSET {c \in Chat : at[c] = "call" /\ call[c].tool \notin Read} :
          /\ late = {} \/ version + adrift + Cardinality(late) <= Changes    \* bound
          /\ adrift' = adrift + Cardinality(late)
    /\ UNCHANGED <<toolcache, version, faults>>

ToolsNext ==
    \/ \E c \in Chat :
          \/ \E t \in Tool : CallTool(c, t)
          \/ Lookup(c) \/ Performed(c) \/ Answered(c) \/ Refused(c) \/ TimedOut(c)
          \/ StoreAnswer(c) \/ ScanCache(c) \/ DeleteKeys(c)
    \/ FinishAdrift \/ ExpireAnswer \/ RestartHost

ToolsSpec == ToolsInit /\ [][ToolsNext]_toolVars

\* A change that a cached answer does not show has a reason not to be seen: it was
\* not heard of (no hint in the tool's name, an error or no answer, Redis or the host
\* failed), its answer is on the way or it is still emptying the cache, or it came
\* before a slow read stored what it had read earlier.
StaleForAReason ==
    \A t \in Read : \A v \in 1..version :
        toolcache[t].there /\ toolcache[t].version < v =>
            \/ v \in unheard \/ v <= toolcache[t].stored
            \/ \E c \in Chat : Pending(c) /\ call[c].answer = v
=============================================================================
