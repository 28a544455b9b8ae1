---------------------------- MODULE UserAccounts ----------------------------
(***************************************************************************)
(* The user service and the JWT middleware of the gateway.  Every handler   *)
(* that reads a row and writes it back does so in separate statements, so   *)
(* the row may change in between.  Names, hashing and signing are left out: *)
(* a hash is the password it is of, a token the claims it carries.  Password *)
(* resets, which touch no column but the hash, are in PasswordResets.       *)
(***************************************************************************)
EXTENDS Naturals, FiniteSets

CONSTANTS
    User,           \* ids of users.users
    Email,          \* addresses
    AccountRole,    \* user.ValidRoles
    Password,       \* passwords
    Weak,           \* those ValidatePassword refuses
    AdminEmail,     \* cfg.AdminEmail
    AdminPassword,  \* cfg.AdminPassword
    Task,           \* handlers that may run at once
    MaxTokens       \* bound on the tokens that have not expired

ASSUME AccountsAssumption ==
    /\ "none" \notin Email        \* no address
    /\ AdminEmail \in Email /\ AdminPassword \in Password \ Weak
    /\ "admin" \in AccountRole /\ Weak \subseteq Password

VARIABLES
    account,    \* users.users
    jwt,        \* the tokens clients hold that have not expired
    task,       \* task[r]: what a handler has read and has left to do, or Free
    granted,    \* granted[u]: the role an administrator last gave u (history)
    raced       \* users whose row was written by a handler that read it before that (history)

accountVars == <<account, jwt, task, granted, raced>>

Nobody == [email |-> "none", role |-> "none", password |-> "none", deleted |-> FALSE]
Free   == [op |-> "free"]

Unused == {u \in User : account[u] = Nobody}

\* GetUserByID and GetUserByEmail: rows with deleted_at IS NULL.
GetUserByID    == {u \in User : account[u] # Nobody /\ ~account[u].deleted}
GetUserByEmail(e) == {u \in GetUserByID : account[u].email = e}

\* The unique index on email also covers deleted rows.
Taken(e, except) == \E u \in User \ except : account[u] # Nobody /\ account[u].email = e

UserRow == [email : Email, role : AccountRole, password : Password, deleted : BOOLEAN]
Update  == [op : {"update"}, user : User, role : AccountRole \cup {""},
            new : [email : Email, role : AccountRole], overtaken : BOOLEAN]

\* Type correctness of the tables and of the handlers' locals.
AccountsTypeOK ==
    /\ account \in [User -> UserRow \cup {Nobody}]
    /\ \A u, v \in User : account[u] # Nobody /\ account[u].email = account[v].email => u = v
    /\ jwt \subseteq [kind : {"access", "refresh"}, user : User, role : AccountRole \cup {"none"}]
    /\ task \in [Task -> Update \cup {Free}]
    /\ granted \in [User -> AccountRole \cup {"none"}] /\ raced \subseteq User

NewRow(e, role, p) == [email |-> e, role |-> role, password |-> p, deleted |-> FALSE]

\* seedAdminUser on an empty table.
AccountsInit ==
    \E admin \in User :
        /\ account = [u \in User |-> IF u = admin THEN NewRow(AdminEmail, "admin", AdminPassword)
                                     ELSE Nobody]
        /\ granted = [u \in User |-> IF u = admin THEN "admin" ELSE "none"]
        /\ jwt  = {}
        /\ task = [r \in Task |-> Free]
        /\ raced = {}

-----------------------------------------------------------------------------
\* GenerateTokenPair: the access token carries the role of the row read.
GenerateTokenPair(u) ==
    /\ jwt' = jwt \cup {[kind |-> "access", user |-> u, role |-> account[u].role],
                        [kind |-> "refresh", user |-> u, role |-> "none"]}
    /\ Cardinality(jwt') <= MaxTokens   \* bound

Login(e, p) ==
    /\ \E u \in GetUserByEmail(e) : account[u].password = p /\ GenerateTokenPair(u)
    /\ UNCHANGED <<account, task, granted, raced>>

\* RefreshToken: the claims of either kind of token name their subject, and
\* the row is read again.
Refresh(k) ==
    /\ k.user \in GetUserByID
    /\ GenerateTokenPair(k.user)
    /\ UNCHANGED <<account, task, granted, raced>>

\* A token's time is up.
ExpireToken(k) ==
    /\ jwt' = jwt \ {k}
    /\ UNCHANGED <<account, task, granted, raced>>

\* JWTMiddleware: the headers a service sees.  A refresh token passes too, with
\* no user id and no role.
Headers(k) == IF k.kind = "access" THEN [user |-> k.user, role |-> k.role]
              ELSE [user |-> "", role |-> ""]

requireAdmin(k) == Headers(k).role = "admin"

CreateUserRow(u, e, role, p) ==
    /\ u \in Unused /\ ~Taken(e, {})
    /\ account' = [account EXCEPT ![u] = NewRow(e, role, p)]
    /\ granted' = [granted EXCEPT ![u] = role]
    /\ UNCHANGED raced

\* POST /auth/register
Register(k, u, e, role, p) ==
    /\ requireAdmin(k) /\ p \notin Weak
    /\ CreateUserRow(u, e, role, p)
    /\ UNCHANGED <<jwt, task>>

\* POST /users, which does not look at the password's strength.
CreateUser(k, u, e, role, p) ==
    /\ requireAdmin(k)
    /\ CreateUserRow(u, e, role, p)
    /\ UNCHANGED <<jwt, task>>

-----------------------------------------------------------------------------
\* Fields a request leaves empty keep what the row had.
Merged_Default(row, e, role) ==
    [email |-> IF e = "" THEN row.email ELSE e,
     role  |-> IF role = "" THEN CHOOSE r \in AccountRole : r # "admin" ELSE role]
Merged(row, e, role) == [email |-> IF e = "" THEN row.email ELSE e,
                         role  |-> IF role = "" THEN row.role ELSE role]

\* Service.UpdateUser and UpdateProfile up to the SELECT.
ReadUser(r, u, e, role) ==
    /\ task[r] = Free /\ u \in GetUserByID
    /\ task' = [task EXCEPT ![r] = [op |-> "update", user |-> u, role |-> role,
                                    new |-> Merged(account[u], e, role),
                                    overtaken |-> u \in raced]]
    /\ UNCHANGED <<account, jwt, granted, raced>>

\* PUT /users/me
UpdateProfile(r, k, e) ==
    /\ Headers(k).user # ""
    /\ ReadUser(r, Headers(k).user, e, "")

\* PUT /users/{id}
UpdateUser(r, k, u, e, role) ==
    /\ requireAdmin(k)
    /\ ReadUser(r, u, e, role)

\* storage.UpdateUser: 404 or 409, or every column but the password is written,
\* the ones the request did not name as they were read.  (overtaken, raced and
\* granted are history.)
WriteUser(r) ==
    LET t == task[r]
        ok == t.user \in GetUserByID /\ ~Taken(t.new.email, {t.user})
    IN  /\ t.op = "update"
        /\ account' = IF ok THEN [account EXCEPT ![t.user].email = t.new.email,
                                                 ![t.user].role  = t.new.role]
                      ELSE account
        /\ granted' = IF ok /\ t.role # "" THEN [granted EXCEPT ![t.user] = t.role] ELSE granted
        /\ raced' = IF ~ok THEN raced
                    ELSE IF t.role # "" THEN raced \ {t.user}
                    ELSE IF t.overtaken THEN raced \cup {t.user} ELSE raced
        /\ task' = [q \in Task |->
                       IF q = r THEN Free
                       ELSE IF ok /\ t.role # "" /\ task[q] # Free /\ task[q].user = t.user
                       THEN [task[q] EXCEPT !.overtaken = TRUE] ELSE task[q]]
        /\ UNCHANGED jwt

\* DELETE /users/{id}: the row stays, its tokens stay valid until they expire.
DeleteUser(k, u) ==
    /\ requireAdmin(k) /\ u \in GetUserByID
    /\ account' = [account EXCEPT ![u].deleted = TRUE]
    /\ UNCHANGED <<jwt, task, granted, raced>>

\* The service is started again, and seeds the administrator its table lacks.
RestartUsers ==
    /\ task' = [r \in Task |-> Free]
    /\ UNCHANGED jwt
    /\ IF Taken(AdminEmail, {}) \/ Unused = {}   \* bound
       THEN UNCHANGED <<account, granted, raced>>
       ELSE \E u \in Unused :
                CreateUserRow(u, AdminEmail, "admin", AdminPassword)

AccountsNext ==
    \/ \E e \in Email, p \in Password : Login(e, p)
    \/ \E k \in jwt : Refresh(k) \/ ExpireToken(k)
    \/ \E k \in jwt, u \in User, e \in Email, role \in AccountRole, p \in Password :
           Register(k, u, e, role, p) \/ CreateUser(k, u, e, role, p)
    \/ \E r \in Task, k \in jwt, e \in Email \cup {""} :
           \/ UpdateProfile(r, k, e)
           \/ \E u \in User, role \in AccountRole \cup {""} : UpdateUser(r, k, u, e, role)
    \/ \E k \in jwt, u \in User : DeleteUser(k, u)
    \/ \E r \in Task : WriteUser(r)
    \/ RestartUsers

AccountsSpec == AccountsInit /\ [][AccountsNext]_accountVars

-----------------------------------------------------------------------------
\* A user has the role an administrator last gave, unless an update that had
\* read the row before that wrote the old role back.
RoleAsGiven == \A u \in GetUserByID : account[u].role = granted[u] \/ u \in raced
=============================================================================
