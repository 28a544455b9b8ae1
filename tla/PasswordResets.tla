--------------------------- MODULE PasswordResets ---------------------------
(***************************************************************************)
(* Password resets of the user service.  Confirming one takes three         *)
(* statements without a transaction: the token is read, the hash written,   *)
(* the token marked as used.  Two requests with one token may both have     *)
(* read it, then both write, and only one is told so.                      *)
(***************************************************************************)
EXTENDS Naturals

CONSTANTS
    Owner,      \* users, each with an address of its own
    Secret,     \* passwords, Old the one each user has at first
    Old,
    ResetToken, \* rows of users.password_reset_tokens
    Confirm     \* handlers that may run at once

ASSUME ResetsAssumption == Old \in Secret

VARIABLES
    hash,       \* hash[u]: the password the row's hash is of
    live,       \* users that are not deleted
    reset,      \* users.password_reset_tokens
    confirm,    \* confirm[r]: what a handler has read and has left to do, or NoConfirm
    told,       \* told[u]: the password u was last told is in force (history)
    untold,     \* users with a password change nobody was told of (history)
    confirmed   \* confirmed[t]: times a reset with t was answered 200 (history)

resetVars == <<hash, live, reset, confirm, told, untold, confirmed>>

NoReset   == [user |-> "none", used |-> FALSE, expired |-> FALSE]
NoConfirm == [at |-> "free"]
Inserted  == {t \in ResetToken : reset[t] # NoReset}

Requested  == [at : {"insert"}, user : Owner]
Confirming == [at : {"hash", "mark"}, token : ResetToken, user : Owner, password : Secret]

\* Type correctness of the tables and of the handlers' locals.
ResetsTypeOK ==
    /\ hash \in [Owner -> Secret] /\ told \in [Owner -> Secret]
    /\ live \subseteq Owner /\ untold \subseteq Owner
    /\ reset \in [ResetToken -> [user : Owner \cup {"none"}, used : BOOLEAN, expired : BOOLEAN]]
    /\ \A t \in Inserted : reset[t].user \in Owner
    /\ confirm \in [Confirm -> Requested \cup Confirming \cup {NoConfirm}]
    /\ confirmed \in [ResetToken -> Nat]

ResetsInit ==
    /\ hash      = [u \in Owner |-> Old]
    /\ live      = Owner
    /\ reset     = [t \in ResetToken |-> NoReset]
    /\ confirm   = [r \in Confirm |-> NoConfirm]
    /\ told      = hash
    /\ untold    = {}
    /\ confirmed = [t \in ResetToken |-> 0]

\* Whose password handlers are about to mark as changed.
Marking == {confirm[r].user : r \in {q \in Confirm : confirm[q].at = "mark"}}

\* SoftDeleteUser, by an administrator.
SoftDeleteUser(u) ==
    /\ u \in live /\ live' = live \ {u}
    /\ UNCHANGED <<hash, reset, confirm, told, untold, confirmed>>

\* RequestPasswordReset: an unknown address is answered 200 as well ...
RequestPasswordReset(r, u) ==
    /\ confirm[r] = NoConfirm /\ u \in live
    /\ confirm' = [confirm EXCEPT ![r] = [at |-> "insert", user |-> u]]
    /\ UNCHANGED <<hash, live, reset, told, untold, confirmed>>

\* ... and a known one is sent a token.
CreatePasswordResetToken(r, t) ==
    /\ confirm[r].at = "insert" /\ t \notin Inserted
    /\ reset' = [reset EXCEPT ![t] = [user |-> confirm[r].user, used |-> FALSE, expired |-> FALSE]]
    /\ confirm' = [confirm EXCEPT ![r] = NoConfirm]
    /\ UNCHANGED <<hash, live, told, untold, confirmed>>

\* An hour has passed.
ExpireReset(t) ==
    /\ t \in Inserted /\ ~reset[t].expired
    /\ reset' = [reset EXCEPT ![t].expired = TRUE]
    /\ UNCHANGED <<hash, live, confirm, told, untold, confirmed>>

\* ConfirmPasswordReset, first statement: GetPasswordResetToken answers 400 for
\* a token that is used, expired or unknown.
GetPasswordResetToken(t) == t \in Inserted /\ ~reset[t].used /\ ~reset[t].expired

ConfirmPasswordReset(r, t, p) ==
    /\ confirm[r] = NoConfirm /\ GetPasswordResetToken(t)
    /\ confirm' = [confirm EXCEPT ![r] = [at |-> "hash", token |-> t, user |-> reset[t].user,
                                          password |-> p]]
    /\ UNCHANGED <<hash, live, reset, told, untold, confirmed>>

\* Second: UpdatePasswordHash, 500 when the user has been deleted.
UpdatePasswordHash(r) ==
    LET c == confirm[r]
        found == c.user \in live
    IN  /\ c.at = "hash"
        /\ hash' = IF found THEN [hash EXCEPT ![c.user] = c.password] ELSE hash
        /\ confirm' = [confirm EXCEPT ![r] = IF found THEN [c EXCEPT !.at = "mark"]
                                             ELSE NoConfirm]
        /\ untold' = IF found /\ c.user \in Marking THEN untold \cup {c.user} ELSE untold
        /\ UNCHANGED <<live, reset, told, confirmed>>

\* The rows the UPDATE of used_at touches.
Unmarked_Any(t) == {reset[t]}
Unmarked(t) == {x \in {reset[t]} : ~x.used}

\* Third: MarkPasswordResetTokenUsed, which tells the second of two 400
\* although its password was written.
MarkPasswordResetTokenUsed(r) ==
    LET c == confirm[r]
    IN  /\ c.at = "mark"
        /\ reset' = [reset EXCEPT ![c.token].used = TRUE]
        /\ confirm' = [confirm EXCEPT ![r] = NoConfirm]
        /\ IF Unmarked(c.token) = {}
           THEN /\ untold' = untold \cup {c.user}
                /\ UNCHANGED <<told, confirmed>>
           ELSE /\ told' = [told EXCEPT ![c.user] = c.password]
                /\ confirmed' = [confirmed EXCEPT ![c.token] = @ + 1]
                /\ UNCHANGED untold
        /\ UNCHANGED <<hash, live>>

\* The service is started again: what its handlers had left to do is not done.
RestartResets ==
    /\ confirm' = [r \in Confirm |-> NoConfirm]
    /\ untold' = untold \cup Marking
    /\ UNCHANGED <<hash, live, reset, told, confirmed>>

ResetsNext ==
    \/ \E u \in Owner : SoftDeleteUser(u)
    \/ \E r \in Confirm, u \in Owner : RequestPasswordReset(r, u)
    \/ \E r \in Confirm, t \in ResetToken, p \in Secret : ConfirmPasswordReset(r, t, p)
    \/ \E r \in Confirm, t \in ResetToken : CreatePasswordResetToken(r, t)
    \/ \E t \in ResetToken : ExpireReset(t)
    \/ \E r \in Confirm : UpdatePasswordHash(r) \/ MarkPasswordResetTokenUsed(r)
    \/ RestartResets

ResetsSpec == ResetsInit /\ [][ResetsNext]_resetVars

-----------------------------------------------------------------------------
\* Of all the requests that bring one reset token, at most one is told that it
\* set the password; and the password in force is the one last told, unless a
\* second request wrote before the first had marked its token, or a request
\* that wrote was answered 400 or cut off by a restart.
ResetIsTold ==
    /\ \A t \in ResetToken : confirmed[t] <= 1
    /\ \A u \in Owner : hash[u] = told[u] \/ u \in untold \cup Marking
=============================================================================
