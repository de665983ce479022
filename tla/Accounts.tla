------------------------------ MODULE Accounts ------------------------------
(***************************************************************************)
(* The three services that keep one row per name: tenants                  *)
(* (services/tenant, by slug), users (services/users, by e-mail address)   *)
(* and agent profiles (services/registry, by tenant_id and agent_id).      *)
(*                                                                         *)
(* A client is one HTTP request: its coroutine gives way at the SELECT and *)
(* at the COMMIT.  Its session holds the column values it loaded, and the  *)
(* COMMIT is an UPDATE of the columns whose value the request changed.     *)
(*                                                                         *)
(* `updated_at' is computed by the database on every UPDATE                *)
(* (TimestampMixin): the session forgets its value, and the object that    *)
(* was updated cannot be read whole outside a database call.               *)
(***************************************************************************)
EXTENDS Integers

CONSTANTS
    Clients,        \* requests that can be in flight at the same time
    Tenants,        \* slugs
    Users,          \* e-mail addresses
    Agents,         \* pairs of a tenant_id and an agent_id
    Names,          \* the descriptive columns, name to tags
    Tiers,          \* SubscriptionTier
    Roles,          \* UserRole
    Passwords,
    Admin,          \* the role of the users that are there at the start
    FirstUsers,     \* users that are there at the start
    LastTime,       \* bound: the moments that are explored
    MaxCalls,       \* bound: the calls made in a behaviour
    Never,          \* last_seen_at of an agent that was never heard of
    NoRow           \* scalar_one_or_none() returned None

Keys == Tenants \cup Users \cup Agents
Times == 0 .. LastTime

ASSUME KeysAssumption ==
    /\ Tenants \cap Users = {} /\ Tenants \cap Agents = {} /\ Users \cap Agents = {}
    /\ Keys # {}
    /\ FirstUsers \subseteq Users

ASSUME BoundsAssumption == LastTime \in Nat /\ MaxCalls \in Nat

ASSUME ValuesAssumption == Admin \in Roles /\ Passwords # {} /\ Never \notin Times

\* The columns a request can assign; `name' stands for all descriptive ones.
TenantRow == [name : Names, subscription_tier : Tiers, is_active : BOOLEAN]

\* hashed_password is shown as the password that it verifies.
UserRow == [hashed_password : Passwords, role : Roles, is_active : BOOLEAN]

AgentRow == [name : Names, is_active : BOOLEAN, last_seen_at : Times \cup {Never}]

Row == TenantRow \cup UserRow \cup AgentRow

ASSUME NoRowAssumption == NoRow \notin Row

RowsOf(k) ==
    CASE k \in Tenants -> TenantRow [] k \in Users -> UserRow [] OTHER -> AgentRow

\* A part of a row: what is left of model_dump(exclude_none=True).
Parts(rows, columns) ==
    UNION { { [col \in S |-> row[col]] : row \in rows } : S \in SUBSET columns }

----------------------------------------------------------------------------
\* What the routes call.  An id is that of the row of `key'; `values' are the
\* columns that the handler sets.

NoValues == Parts(Row, {})

\* TenantUpdate, UserUpdate, AgentProfileUpdate
TenantUpdate == Parts(TenantRow, {"name", "subscription_tier", "is_active"})
UserUpdate == Parts(UserRow, {"role", "is_active"})
AgentProfileUpdate == Parts(AgentRow, {"name", "is_active"})

TenantCalls ==
    [op : {"create"}, key : Tenants, values : {r \in TenantRow : r.is_active}]
    \cup [op : {"get"}, key : Tenants, values : NoValues]
    \cup [op : {"update"}, key : Tenants, values : TenantUpdate]
    \cup [op : {"deactivate"}, key : Tenants, values : {[is_active |-> FALSE]}]
    \cup [op : {"activate"}, key : Tenants, values : {[is_active |-> TRUE]}]

UserCalls ==
    [op : {"create"}, key : Users, values : {r \in UserRow : r.is_active}]
    \cup [op : {"get"}, key : Users, values : NoValues]
    \cup [op : {"update"}, key : Users, values : UserUpdate]
    \cup [op : {"deactivate"}, key : Users, values : {[is_active |-> FALSE]}]
    \cup [op : {"change_password"}, key : Users,
          values : [hashed_password : Passwords]]

AgentCalls ==
    [op : {"create"}, key : Agents,
     values : {r \in AgentRow : r.is_active /\ r.last_seen_at = Never}]
    \cup [op : {"get"}, key : Agents, values : NoValues]
    \cup [op : {"update"}, key : Agents, values : AgentProfileUpdate]
    \cup [op : {"deactivate"}, key : Agents, values : {[is_active |-> FALSE]}]
    \cup [op : {"heartbeat"}, key : Agents, values : NoValues]

Calls == TenantCalls \cup UserCalls \cup AgentCalls

\* The routes that answer with TenantResponse, UserResponse or
\* AgentProfileResponse, which read every column of the object, updated_at too.
TenantRoutesReadRow == {"create", "get", "update", "activate"}
UserRoutesReadRow == {"create", "get", "update", "change_password"}
AgentRoutesReadRow == {"create", "get", "update"}

ReadsRow(k) ==
    CASE k.key \in Tenants -> k.op \in TenantRoutesReadRow
      [] k.key \in Users -> k.op \in UserRoutesReadRow
      [] OTHER -> k.op \in AgentRoutesReadRow

Stages == {"idle", "select", "insert", "commit"}

\* failed: a fault; integrity: an IntegrityError that nothing catches; unread:
\* the object could not be serialised.  All three are a 500 to the caller.
Answers == {"ok", "not_found", "conflict", "integrity", "unread", "failed"}

VARIABLES
    clock,      \* the current moment
    table,      \* the row of each key
    pc,         \* where a client's coroutine is, or how it answered
    call,       \* what the client called
    loaded,     \* the column values the client's session loaded
    patch,      \* the columns the client's handler set
    calls,      \* calls made so far
    inserts,    \* history: how often a key's row was inserted
    held,       \* history: what a row should hold after the assignments so far
    raced       \* history: the columns of the client's row that others have
                \* assigned since it was loaded

clients == <<pc, call, loaded, patch>>
accountVars == <<table, clients, calls, inserts, held, raced>>

NoCall == [op |-> "none"]

FirstUser(p) == [hashed_password |-> p, role |-> Admin, is_active |-> TRUE]

Init ==
    /\ clock = 0
    /\ \E p \in Passwords :
           table = [k \in Keys |-> IF k \in FirstUsers THEN FirstUser(p) ELSE NoRow]
    /\ pc = [c \in Clients |-> "idle"]
    /\ call = [c \in Clients |-> NoCall]
    /\ loaded = [c \in Clients |-> NoRow]
    /\ patch = [c \in Clients |-> NoRow]
    /\ calls = 0
    /\ inserts = [k \in Keys |-> IF k \in FirstUsers THEN 1 ELSE 0]
    /\ held = table
    /\ raced = [c \in Clients |-> {}]

----------------------------------------------------------------------------
\* The call is answered, and what it held is dropped with it.
Answer(c, a) ==
    /\ pc' = [pc EXCEPT ![c] = a]
    /\ call' = [call EXCEPT ![c] = NoCall]
    /\ loaded' = [loaded EXCEPT ![c] = NoRow]
    /\ patch' = [patch EXCEPT ![c] = NoRow]

\* The route calls the service.
Call(c, k) ==
    /\ pc[c] \in {"idle"} \cup Answers
    /\ calls < MaxCalls
    /\ calls' = calls + 1
    /\ pc' = [pc EXCEPT ![c] = "select"]
    /\ call' = [call EXCEPT ![c] = k]
    /\ raced' = [raced EXCEPT ![c] = {}]
    /\ UNCHANGED <<clock, table, loaded, patch, inserts, held>>

\* create found a row: ConflictError, 409.
Conflict(c) ==
    /\ pc[c] = "select" /\ call[c].op = "create"
    /\ table[call[c].key] # NoRow
    /\ Answer(c, "conflict")
    /\ UNCHANGED <<clock, table, calls, inserts, held, raced>>

\* create found none: the row is built and its INSERT awaited.
Build(c) ==
    /\ pc[c] = "select" /\ call[c].op = "create"
    /\ table[call[c].key] = NoRow
    /\ pc' = [pc EXCEPT ![c] = "insert"]
    /\ UNCHANGED <<clock, table, call, loaded, patch, calls, inserts, held, raced>>

\* NotFoundError, 404.
Missing(c) ==
    /\ pc[c] = "select" /\ call[c].op # "create"
    /\ table[call[c].key] = NoRow
    /\ Answer(c, "not_found")
    /\ UNCHANGED <<clock, table, calls, inserts, held, raced>>

Get(c) ==
    /\ pc[c] = "select" /\ call[c].op = "get"
    /\ table[call[c].key] # NoRow
    /\ Answer(c, "ok")
    /\ UNCHANGED <<clock, table, calls, inserts, held, raced>>

\* Variant: a missing row is not noticed.
LoadAny(c) ==
    LET k == call[c]
    IN  /\ pc[c] = "select" /\ k.op \notin {"create", "get"}
        /\ loaded' = [loaded EXCEPT ![c] = table[k.key]]
        /\ patch' = [patch EXCEPT ![c] = k.values]
        /\ pc' = [pc EXCEPT ![c] = "commit"]
        /\ UNCHANGED <<clock, table, call, calls, inserts, held, raced>>

\* The row is loaded, its columns are set, and the COMMIT is awaited.  heartbeat
\* sets the time of that moment.
Load(c) ==
    LET k == call[c]
    IN  /\ pc[c] = "select" /\ k.op \notin {"create", "get"}
        /\ table[k.key] # NoRow
        /\ loaded' = [loaded EXCEPT ![c] = table[k.key]]
        /\ patch' = [patch EXCEPT ![c] =
               IF k.op = "heartbeat" THEN [last_seen_at |-> clock] ELSE k.values]
        /\ pc' = [pc EXCEPT ![c] = "commit"]
        /\ UNCHANGED <<clock, table, call, calls, inserts, held, raced>>

\* The acknowledgement of a commit may be lost.
AnswerCommitted(c, a) == Answer(c, a) \/ Answer(c, "failed")

\* Variant: the column of the name is not unique.
InsertAnother(c) ==
    LET k == call[c]
    IN  /\ pc[c] = "insert"
        /\ table' = [table EXCEPT ![k.key] = k.values]
        /\ held' = [held EXCEPT ![k.key] = k.values]
        /\ inserts' = [inserts EXCEPT ![k.key] = @ + 1]
        /\ AnswerCommitted(c, "ok")
        /\ UNCHANGED <<clock, calls, raced>>

\* INSERT and COMMIT; the INSERT returns the two timestamps.
Insert(c) ==
    LET k == call[c]
    IN  /\ pc[c] = "insert"
        /\ table[k.key] = NoRow
        /\ table' = [table EXCEPT ![k.key] = k.values]
        /\ held' = [held EXCEPT ![k.key] = k.values]
        /\ inserts' = [inserts EXCEPT ![k.key] = @ + 1]
        /\ AnswerCommitted(c, "ok")
        /\ UNCHANGED <<clock, calls, raced>>

\* The unique constraint refuses a second row.
InsertRefused(c) ==
    /\ pc[c] = "insert"
    /\ table[call[c].key] # NoRow
    /\ Answer(c, "integrity")
    /\ UNCHANGED <<clock, table, calls, inserts, held, raced>>

\* Variant: the UPDATE writes the whole object.
WholeRow(c) == DOMAIN loaded[c]

\* The columns of the UPDATE: those set to another value than the loaded one.
\* A password is hashed with a fresh salt and a time is later than the last.
Changed(c) ==
    { col \in DOMAIN patch[c] : \/ col \in {"hashed_password", "last_seen_at"}
                                \/ patch[c][col] # loaded[c][col] }

\* The object's value of a column.
Value(c, col) == IF col \in DOMAIN patch[c] THEN patch[c][col] ELSE loaded[c][col]

\* COMMIT: the UPDATE, when there is something to update, and the answer.
Commit(c) ==
    LET k == call[c].key
        row == [col \in DOMAIN loaded[c] |->
                   IF col \in Changed(c) THEN Value(c, col) ELSE table[k][col]]
        due == [col \in DOMAIN loaded[c] |->
                   IF col \notin DOMAIN patch[c] THEN held[k][col]
                   ELSE IF col \in raced[c] THEN row[col] ELSE patch[c][col]]
    IN  /\ pc[c] = "commit"
        /\ table' = [table EXCEPT ![k] = row]
        /\ held' = [held EXCEPT ![k] = due]
        /\ raced' = [d \in Clients |->
               IF d # c /\ pc[d] = "commit" /\ call[d].key = k
               THEN raced[d] \cup DOMAIN patch[c] ELSE raced[d]]
        /\ AnswerCommitted(c, IF Changed(c) # {} /\ ReadsRow(call[c])
                              THEN "unread" ELSE "ok")
        /\ UNCHANGED <<clock, calls, inserts>>

\* The awaited statement fails: a lost connection, a client that went away, a
\* process that stops.  Nothing is written.
Abort(c) ==
    /\ pc[c] \in {"select", "insert", "commit"}
    /\ Answer(c, "failed")
    /\ UNCHANGED <<clock, table, calls, inserts, held, raced>>

Tick ==
    /\ clock < LastTime
    /\ clock' = clock + 1
    /\ UNCHANGED accountVars

\* The steps of a call that has been made.
Step(c) ==
    \/ Conflict(c) \/ Build(c) \/ Missing(c) \/ Get(c) \/ Load(c)
    \/ Insert(c) \/ InsertRefused(c) \/ Commit(c)

----------------------------------------------------------------------------
TypeOK ==
    /\ clock \in Times
    /\ \A k \in Keys : table[k] \in RowsOf(k) \cup {NoRow}
    /\ \A c \in Clients :
        /\ pc[c] \in Stages \cup Answers
        /\ pc[c] \notin Stages \ {"idle"} => call[c] = NoCall
        /\ pc[c] \in Stages \ {"idle"} => call[c] \in Calls
        /\ pc[c] = "commit" =>
               /\ loaded[c] \in RowsOf(call[c].key)
               /\ DOMAIN patch[c] \subseteq DOMAIN loaded[c]
    /\ calls \in 0 .. MaxCalls

\* Whatever creates overlap, a slug, an e-mail address or an agent's name gets
\* one row, once, and a row stays: check and insert are two steps of create,
\* and only the unique constraint lies between them.
CreatedOnce ==
    \A k \in Keys : inserts[k] = IF table[k] = NoRow THEN 0 ELSE 1

\* A column holds what the last request to set it set it to, unless that
\* request overlapped another that set the same column: a request that loaded
\* the row earlier never brings back a column that it does not set (update,
\* deactivate, activate, change_password, heartbeat).
WritesHold == table = held

\* An update that the database has committed and acknowledged is answered with
\* the updated row (update_user, change_password, update_tenant,
\* activate_tenant, update_agent).
UpdateIsAnswered == \A c \in Clients : pc[c] # "unread"

=============================================================================
