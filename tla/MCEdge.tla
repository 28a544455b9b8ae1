------------------------------- MODULE MCEdge -------------------------------
(***************************************************************************)
(* The gateway's limiter and stream, the user service, and the assistant's   *)
(* budget and tool calls, side by side.                                      *)
(* They share no state, so each behaviour plays one scene: the others keep  *)
(* their initial states, and the state spaces add up instead of             *)
(* multiplying.                                                            *)
(***************************************************************************)
EXTENDS RateLimiter, RealtimeHub, UserAccounts, PasswordResets,
        ChatBudget, ToolCalls, TLC

CONSTANTS u1, u2, t1, t2

TwoUsers == {u1, u2}
TwoTasks == {t1, t2}

\* Requests and chats play in different scenes and are the same two values.
EdgeSymmetry == Permutations(TwoUsers) \cup Permutations(TwoTasks)

RoleOf == ("s1" :> "admin" @@ "s2" :> "warehouse_manager")

VARIABLE scene

EdgeInit ==
    /\ scene \in {"limiter", "hub", "accounts", "resets", "budget", "tools"}
    /\ LimiterInit /\ HubInit /\ AccountsInit /\ ResetsInit /\ BudgetInit /\ ToolsInit

gatewayVars == <<limiterVars, hubVars>>
userVars    == <<accountVars, resetVars>>
hostVars    == <<budgetVars, toolVars>>

EdgeNext ==
    /\ UNCHANGED scene
    /\ \/ scene = "limiter" /\ LimiterNext /\ UNCHANGED <<hubVars, userVars, hostVars>>
       \/ scene = "hub" /\ HubNext /\ UNCHANGED <<limiterVars, userVars, hostVars>>
       \/ scene = "accounts" /\ AccountsNext /\ UNCHANGED <<gatewayVars, resetVars, hostVars>>
       \/ scene = "resets" /\ ResetsNext /\ UNCHANGED <<gatewayVars, accountVars, hostVars>>
       \/ scene = "budget" /\ BudgetNext /\ UNCHANGED <<gatewayVars, userVars, toolVars>>
       \/ scene = "tools" /\ ToolsNext /\ UNCHANGED <<gatewayVars, userVars, budgetVars>>

EdgeSpec == EdgeInit /\ [][EdgeNext]_<<scene, gatewayVars, userVars, hostVars>>

\* Type correctness of every module's state.
EdgeTypesOK ==
    /\ LimiterTypeOK /\ HubTypeOK /\ AccountsTypeOK /\ ResetsTypeOK
    /\ BudgetTypeOK /\ ToolsTypeOK
=============================================================================
