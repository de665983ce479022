------------------------------- MODULE Access -------------------------------
(***************************************************************************)
(* The gateway (app/main.py) in front of the account services, and the     *)
(* auth service (services/auth) that issues its access tokens.             *)
(*                                                                         *)
(* A token carries the role that the user had when it was issued; the      *)
(* gateway looks at the token alone (common/auth/dependencies.py).         *)
(* Changing or deactivating a user reaches its next token.                 *)
(***************************************************************************)
EXTENDS Accounts

CONSTANTS
    TokenLifetime,  \* access_token_expire_minutes
    None            \* no login in progress, no admission

ASSUME TokenLifetimeAssumption == TokenLifetime \in Nat

VARIABLES
    login,      \* a client's POST /v1/auth/token
    tokens,     \* the tokens that were issued; any request may carry one
    admission,  \* history: the client's last admission and the token it used
    standing    \* history: the roles and passwords with which a user was
                \* active at a moment

accessVars == <<login, tokens, admission, standing>>
allVars == <<clock, accountVars, accessVars>>

ActiveAs(u) == { <<r.role, r.hashed_password>> :
                     r \in {table[u]} \cap [ hashed_password : Passwords,
                                             role : Roles, is_active : {TRUE} ] }

AccessInit ==
    /\ Init
    /\ login = [c \in Clients |-> None]
    /\ tokens = {}
    /\ admission = [c \in Clients |-> None]
    /\ standing = [u \in Users |-> [t \in Times |->
                      IF t = 0 THEN ActiveAs(u) ELSE {}]]

\* Whatever a step does to the users and the clock is noted.
Track ==
    standing' = [u \in Users |-> [t \in Times |->
        IF t = clock' THEN standing[u][t] \cup ActiveAs(u)' ELSE standing[u][t]]]

----------------------------------------------------------------------------
AtRest(c) == pc[c] \notin Stages \ {"idle"} /\ login[c] = None

Login(c, u, password) ==
    /\ AtRest(c)
    /\ calls < MaxCalls
    /\ calls' = calls + 1
    /\ login' = [login EXCEPT ![c] =
           [stage |-> "select", user |-> u, password |-> password,
            since |-> clock, role |-> None]]
    /\ UNCHANGED <<clock, table, clients, inserts, held, raced, tokens, admission>>

\* Variant: an inactive user is found too.
FoundInactive(l) ==
    table[l.user] # NoRow /\ table[l.user].hashed_password = l.password

\* authenticate: the user is active and the password is its own.
Found(l) ==
    /\ table[l.user] # NoRow
    /\ table[l.user].is_active
    /\ table[l.user].hashed_password = l.password

Authenticate(c) ==
    /\ login[c] # None /\ login[c].stage = "select"
    /\ Found(login[c])
    /\ login' = [login EXCEPT ![c].stage = "issue",
                              ![c].role = table[login[c].user].role]
    /\ UNCHANGED <<clock, accountVars, tokens, admission>>

\* 401 Invalid credentials, or the SELECT fails.
RefuseLogin(c) ==
    /\ login[c] # None /\ login[c].stage = "select"
    /\ login' = [login EXCEPT ![c] = None]
    /\ UNCHANGED <<clock, accountVars, tokens, admission>>

\* create_access_token: it runs when the event loop resumes the coroutine.
CreateToken(c) ==
    LET l == login[c]
    IN  /\ l # None /\ l.stage = "issue"
        /\ tokens' = tokens \cup
               {[user |-> l.user, role |-> l.role, exp |-> clock + TokenLifetime,
                 password |-> l.password, since |-> l.since, issued |-> clock]}
        /\ login' = [login EXCEPT ![c] = None]
        /\ UNCHANGED <<clock, accountVars, admission>>

\* Variant: the expiry of a token is not looked at.
ValidForever(t) == t \in tokens

\* decode_access_token
Valid(t) == t \in tokens /\ clock <= t.exp

\* The role-access matrix for the account services.
Allowed(k) ==
    IF k.key \in Agents THEN Roles ELSE {Admin}

\* require_role lets the request through to its handler.
Admit(c, t, k) ==
    /\ AtRest(c)
    /\ Valid(t)
    /\ t.role \in Allowed(k)
    /\ Call(c, k)
    /\ admission' = [admission EXCEPT ![c] = [at |-> clock, token |-> t]]
    /\ UNCHANGED <<login, tokens>>

AccessStep(c) ==
    \/ \E u \in Users, password \in Passwords : Login(c, u, password)
    \/ Authenticate(c) \/ RefuseLogin(c) \/ CreateToken(c)
    \/ \E t \in tokens, k \in Calls : Admit(c, t, k)
    \/ (Step(c) \/ Abort(c)) /\ UNCHANGED <<login, tokens, admission>>

AccessNext ==
    /\ \/ \E c \in Clients : AccessStep(c)
       \/ Tick /\ UNCHANGED <<login, tokens, admission>>
    /\ Track

AccessSpec == AccessInit /\ [][AccessNext]_allVars

----------------------------------------------------------------------------
\* A token's role is one that its user, active and with the password that was
\* given, had at some moment of the login it comes from; and an admitted
\* request carries a token that was issued no longer than a lifetime ago.  So a
\* user who was deactivated, or who lost a role, is admitted with what it lost
\* for one lifetime after its last login at most, however logins, updates and
\* the clock interleave (AuthService, get_current_user, require_role).
AccessIsEarned ==
    /\ \A t \in tokens : \E m \in t.since .. t.issued :
           <<t.role, t.password>> \in standing[t.user][m]
    /\ \A c \in Clients : admission[c] # None =>
           /\ admission[c].token \in tokens
           /\ admission[c].at <= admission[c].token.issued + TokenLifetime

=============================================================================
