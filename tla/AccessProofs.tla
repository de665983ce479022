---------------------------- MODULE AccessProofs ----------------------------
(***************************************************************************)
(* What the account services and the gateway guarantee however requests,   *)
(* logins and the clock interleave, for every set of clients, tenants,     *)
(* users, agents and column values.                                        *)
(***************************************************************************)
EXTENDS Access, TLAPS

USE KeysAssumption, BoundsAssumption, ValuesAssumption, NoRowAssumption,
    TokenLifetimeAssumption

\* The values of each column of a row.
Columns(k) ==
    CASE k \in Tenants -> [name |-> Names, subscription_tier |-> Tiers,
                           is_active |-> BOOLEAN]
      [] k \in Users -> [hashed_password |-> Passwords, role |-> Roles,
                         is_active |-> BOOLEAN]
      [] OTHER -> [name |-> Names, is_active |-> BOOLEAN,
                   last_seen_at |-> Times \cup {Never}]

\* A function by its values.
IsTable(f, S) == f = [x \in S |-> f[x]]

Shapes ==
    /\ IsTable(table, Keys) /\ IsTable(inserts, Keys)
    /\ pc \in [Clients -> Stages \cup Answers]
    /\ IsTable(call, Clients) /\ IsTable(loaded, Clients)
    /\ IsTable(patch, Clients) /\ IsTable(raced, Clients)

\* What a request that awaits its COMMIT knows: its row is there, and every
\* column of it is as it was loaded, but for those that others have assigned.
Loaded(c) ==
    LET k == call[c].key
    IN  /\ table[k] # NoRow
        /\ \A col \in DOMAIN patch[c] : patch[c][col] \in Columns(k)[col]
        /\ \A col \in DOMAIN loaded[c] :
               col \in raced[c] \/ table[k][col] = loaded[c][col]

InFlight == \A c \in Clients : /\ pc[c] = "insert" => call[c].op = "create"
                               /\ pc[c] = "commit" => Loaded(c)

AccountsInv == Shapes /\ TypeOK /\ CreatedOnce /\ WritesHold /\ InFlight

----------------------------------------------------------------------------
Logins ==
    [stage : {"select", "issue"}, user : Users, password : Passwords,
     since : Times, role : Roles \cup {None}]

Tokens == [user : Users, role : Roles, exp : Nat, password : Passwords,
           since : Times, issued : Times]

\* By a record of who stood when, the user had the role and the password between
\* two moments.
Stood(record, u, role, password, from, to) ==
    \E m \in from .. to : <<role, password>> \in record[u][m]

\* A login that has found its user has seen it standing.
LoginsInv ==
    /\ login \in [Clients -> Logins \cup {None}]
    /\ \A c \in Clients : login[c] # None =>
           /\ login[c].since <= clock
           /\ login[c].stage = "issue" =>
                  /\ login[c].role \in Roles
                  /\ Stood(standing, login[c].user, login[c].role, login[c].password,
                           login[c].since, clock)

TokensInv ==
    /\ tokens \subseteq Tokens
    /\ \A t \in tokens :
           /\ t.exp = t.issued + TokenLifetime
           /\ Stood(standing, t.user, t.role, t.password, t.since, t.issued)

AdmissionsInv ==
    /\ IsTable(admission, Clients)
    /\ \A c \in Clients : admission[c] # None =>
           /\ admission[c].token \in tokens
           /\ admission[c].at <= admission[c].token.issued + TokenLifetime

\* The present is noted.
StandingInv == \A u \in Users : ActiveAs(u) \subseteq standing[u][clock]

AccessInv == LoginsInv /\ TokensInv /\ AdmissionsInv /\ StandingInv

IInv == AccountsInv /\ AccessInv

----------------------------------------------------------------------------
\* A row is what has its columns, each with a value of the column.
LEMMA RowsByColumn ==
    ASSUME NEW k \in Keys, NEW r
    PROVE  r \in RowsOf(k) <=>
               /\ r = [col \in DOMAIN Columns(k) |-> r[col]]
               /\ \A col \in DOMAIN Columns(k) : r[col] \in Columns(k)[col]
<1>1. CASE k \in Tenants
  <2>1. /\ RowsOf(k) = TenantRow
        /\ Columns(k) = [name |-> Names, subscription_tier |-> Tiers,
                         is_active |-> BOOLEAN]
    BY <1>1 DEF RowsOf, Columns
  <2>2. QED  BY <2>1 DEF TenantRow
<1>2. CASE k \in Users
  <2>1. /\ RowsOf(k) = UserRow
        /\ Columns(k) = [hashed_password |-> Passwords, role |-> Roles,
                         is_active |-> BOOLEAN]
    BY <1>2 DEF RowsOf, Columns
  <2>2. QED  BY <2>1 DEF UserRow
<1>3. CASE k \in Agents
  <2>1. /\ RowsOf(k) = AgentRow
        /\ Columns(k) = [name |-> Names, is_active |-> BOOLEAN,
                         last_seen_at |-> Times \cup {Never}]
    BY <1>3 DEF RowsOf, Columns
  <2>2. QED  BY <2>1 DEF AgentRow
<1>4. QED  BY <1>1, <1>2, <1>3 DEF Keys

LEMMA RowsAreNotNoRow == \A k \in Keys : NoRow \notin RowsOf(k)
BY DEF RowsOf, Row

\* The columns that a request sets are columns of its row.
Fits(k, values) ==
    /\ DOMAIN values \subseteq DOMAIN Columns(k)
    /\ \A col \in DOMAIN values : values[col] \in Columns(k)[col]

LEMMA PartsFacts ==
    ASSUME NEW k \in Keys, NEW cols, NEW values \in Parts(RowsOf(k), cols),
           cols \subseteq DOMAIN Columns(k)
    PROVE  Fits(k, values)
<1>1. PICK S \in SUBSET cols, row \in RowsOf(k) : values = [col \in S |-> row[col]]
  BY DEF Parts
<1>2. QED  BY <1>1, RowsByColumn DEF Fits

LEMMA FlagFits ==
    ASSUME NEW k \in Keys, NEW b \in BOOLEAN
    PROVE  Fits(k, [is_active |-> b])
<1>1. "is_active" \in DOMAIN Columns(k) /\ Columns(k)["is_active"] = BOOLEAN
  BY DEF Columns
<1>2. QED  BY <1>1 DEF Fits

LEMMA CallFacts ==
    ASSUME NEW k \in Calls
    PROVE  /\ k.key \in Keys
           /\ k.op = "create" => k.values \in RowsOf(k.key)
           /\ k.op \notin {"create", "get", "heartbeat"} => Fits(k.key, k.values)
           /\ k.op = "heartbeat" => k.key \in Agents
<1>1. CASE k \in TenantCalls
  <2>1. k.key \in Tenants /\ RowsOf(k.key) = TenantRow /\ k.key \in Keys
    BY <1>1 DEF TenantCalls, RowsOf, Keys
  <2>2. DOMAIN Columns(k.key) = {"name", "subscription_tier", "is_active"}
        /\ Columns(k.key)["is_active"] = BOOLEAN
    BY <2>1 DEF Columns
  <2>3. k.op = "update" => Fits(k.key, k.values)
    BY <1>1, <2>1, <2>2, PartsFacts DEF TenantCalls, TenantUpdate
  <2>4. k.op \in {"deactivate", "activate"} => Fits(k.key, k.values)
    <3>1. k.op \in {"deactivate", "activate"} =>
              k.values = [is_active |-> FALSE] \/ k.values = [is_active |-> TRUE]
      BY <1>1 DEF TenantCalls
    <3>2. QED  BY <2>1, <3>1, FlagFits
  <2>5. QED  BY <1>1, <2>1, <2>3, <2>4 DEF TenantCalls
<1>2. CASE k \in UserCalls
  <2>1. k.key \in Users /\ RowsOf(k.key) = UserRow /\ k.key \in Keys
    BY <1>2 DEF UserCalls, RowsOf, Keys
  <2>2. DOMAIN Columns(k.key) = {"hashed_password", "role", "is_active"}
        /\ Columns(k.key)["is_active"] = BOOLEAN
        /\ Columns(k.key)["hashed_password"] = Passwords
    BY <2>1 DEF Columns
  <2>3. k.op = "update" => Fits(k.key, k.values)
    BY <1>2, <2>1, <2>2, PartsFacts DEF UserCalls, UserUpdate
  <2>4. k.op \in {"deactivate", "change_password"} => Fits(k.key, k.values)
    <3>1. k.op = "deactivate" => k.values = [is_active |-> FALSE]
      BY <1>2 DEF UserCalls
    <3>2. k.op = "change_password" => k.values \in [hashed_password : Passwords]
      BY <1>2 DEF UserCalls
    <3>3. ASSUME NEW v \in [hashed_password : Passwords]
          PROVE  Fits(k.key, v)
      BY <2>2 DEF Fits
    <3>4. QED  BY <2>1, <3>1, <3>2, <3>3, FlagFits
  <2>5. QED  BY <1>2, <2>1, <2>3, <2>4 DEF UserCalls
<1>3. CASE k \in AgentCalls
  <2>1. k.key \in Agents /\ RowsOf(k.key) = AgentRow /\ k.key \in Keys
    BY <1>3 DEF AgentCalls, RowsOf, Keys
  <2>2. DOMAIN Columns(k.key) = {"name", "is_active", "last_seen_at"}
        /\ Columns(k.key)["is_active"] = BOOLEAN
    BY <2>1 DEF Columns
  <2>3. k.op = "update" => Fits(k.key, k.values)
    BY <1>3, <2>1, <2>2, PartsFacts DEF AgentCalls, AgentProfileUpdate
  <2>4. k.op = "deactivate" => Fits(k.key, k.values)
    <3>1. k.op = "deactivate" => k.values = [is_active |-> FALSE]
      BY <1>3 DEF AgentCalls
    <3>2. QED  BY <2>1, <3>1, FlagFits
  <2>5. QED  BY <1>3, <2>1, <2>3, <2>4 DEF AgentCalls
<1>4. QED  BY <1>1, <1>2, <1>3 DEF Calls

----------------------------------------------------------------------------
\* The steps of the account services.

LEMMA InitAccounts == Init => AccountsInv
<1> SUFFICES ASSUME Init PROVE AccountsInv
  OBVIOUS
<1>1. PICK p \in Passwords :
          table = [k \in Keys |-> IF k \in FirstUsers THEN FirstUser(p) ELSE NoRow]
  BY DEF Init
<1>2. FirstUser(p) \in UserRow
  BY DEF FirstUser, UserRow
<1>3. \A k \in Keys : table[k] \in RowsOf(k) \cup {NoRow}
  BY <1>1, <1>2 DEF RowsOf, Keys
<1>4. Shapes
  BY <1>1 DEF Init, Shapes, IsTable, Stages
<1>5. TypeOK
  BY <1>3 DEF Init, TypeOK, Times, Stages, Answers
<1>6. CreatedOnce
  <2>1. FirstUser(p) # NoRow
    BY <1>2 DEF Row
  <2>2. QED  BY <1>1, <2>1 DEF Init, CreatedOnce
<1>7. WritesHold /\ InFlight
  BY DEF Init, WritesHold, InFlight
<1>8. QED  BY <1>4, <1>5, <1>6, <1>7 DEF AccountsInv

\* A client that is answered holds nothing, and no other client notices.
LEMMA AnswerFacts ==
    ASSUME Shapes, NEW c \in Clients, NEW a, Answer(c, a)
    PROVE  /\ pc'[c] = a /\ call'[c] = NoCall
           /\ IsTable(call, Clients)' /\ IsTable(loaded, Clients)'
           /\ IsTable(patch, Clients)'
           /\ a \in Answers => pc' \in [Clients -> Stages \cup Answers]
           /\ \A d \in Clients :
                  d # c => /\ pc'[d] = pc[d] /\ call'[d] = call[d]
                           /\ loaded'[d] = loaded[d] /\ patch'[d] = patch[d]
BY DEF Shapes, IsTable, Answer

LEMMA AnswerStep ==
    ASSUME AccountsInv, NEW c \in Clients, NEW a \in Answers, Answer(c, a),
           UNCHANGED <<clock, table, calls, inserts, held, raced>>
    PROVE  AccountsInv'
<1>1. Shapes'
  BY AnswerFacts DEF AccountsInv, Shapes, IsTable
<1>2. TypeOK'
  BY AnswerFacts DEF AccountsInv, TypeOK, Answers, Stages
<1>3. CreatedOnce' /\ WritesHold'
  BY DEF AccountsInv, CreatedOnce, WritesHold
<1>4. InFlight'
  BY AnswerFacts DEF AccountsInv, InFlight, Loaded, Answers
<1>5. QED  BY <1>1, <1>2, <1>3, <1>4 DEF AccountsInv

LEMMA CallStep ==
    ASSUME AccountsInv, NEW c \in Clients, NEW k \in Calls, Call(c, k)
    PROVE  AccountsInv'
<1>1. /\ calls < MaxCalls /\ calls' = calls + 1
      /\ pc' = [pc EXCEPT ![c] = "select"]
      /\ call' = [call EXCEPT ![c] = k]
      /\ raced' = [raced EXCEPT ![c] = {}]
      /\ UNCHANGED <<clock, table, loaded, patch, inserts, held>>
  BY DEF Call
<1>2. /\ pc'[c] = "select" /\ call'[c] = k
      /\ \A d \in Clients : d # c => /\ pc'[d] = pc[d] /\ call'[d] = call[d]
                                     /\ raced'[d] = raced[d]
  BY <1>1 DEF AccountsInv, Shapes, IsTable
<1>3. Shapes'
  BY <1>1 DEF AccountsInv, Shapes, IsTable, Stages
<1>4. TypeOK'
  BY <1>1, <1>2 DEF AccountsInv, TypeOK, Stages
<1>5. CreatedOnce' /\ WritesHold'
  BY <1>1 DEF AccountsInv, CreatedOnce, WritesHold
<1>6. InFlight'
  BY <1>1, <1>2 DEF AccountsInv, InFlight, Loaded
<1>7. QED  BY <1>3, <1>4, <1>5, <1>6 DEF AccountsInv

LEMMA BuildStep ==
    ASSUME AccountsInv, NEW c \in Clients, Build(c)
    PROVE  AccountsInv'
<1>1. /\ pc[c] = "select" /\ call[c].op = "create"
      /\ pc' = [pc EXCEPT ![c] = "insert"]
      /\ UNCHANGED <<clock, table, call, loaded, patch, calls, inserts, held, raced>>
  BY DEF Build
<1>2. /\ pc'[c] = "insert"
      /\ \A d \in Clients : d # c => pc'[d] = pc[d]
  BY <1>1 DEF AccountsInv, Shapes
<1>3. Shapes'
  BY <1>1 DEF AccountsInv, Shapes, IsTable, Stages
<1>4. TypeOK'
  BY <1>1, <1>2 DEF AccountsInv, TypeOK, Stages
<1>5. CreatedOnce' /\ WritesHold'
  BY <1>1 DEF AccountsInv, CreatedOnce, WritesHold
<1>6. InFlight'
  BY <1>1, <1>2 DEF AccountsInv, InFlight, Loaded
<1>7. QED  BY <1>3, <1>4, <1>5, <1>6 DEF AccountsInv

LEMMA LoadStep ==
    ASSUME AccountsInv, NEW c \in Clients, Load(c)
    PROVE  AccountsInv'
<1> DEFINE k == call[c]
           values == IF k.op = "heartbeat" THEN [last_seen_at |-> clock] ELSE k.values
<1>1. /\ pc[c] = "select" /\ k.op \notin {"create", "get"}
      /\ table[k.key] # NoRow
      /\ loaded' = [loaded EXCEPT ![c] = table[k.key]]
      /\ patch' = [patch EXCEPT ![c] = values]
      /\ pc' = [pc EXCEPT ![c] = "commit"]
      /\ UNCHANGED <<clock, table, call, calls, inserts, held, raced>>
  BY DEF Load
<1>2. k \in Calls /\ clock \in Times
  BY <1>1 DEF AccountsInv, TypeOK, Stages
<1>3. k.key \in Keys /\ Fits(k.key, values)
  <2>1. CASE k.op # "heartbeat"
    BY <1>1, <1>2, <2>1, CallFacts
  <2>2. CASE k.op = "heartbeat"
    <3>1. k.key \in Agents /\ k.key \notin Tenants /\ k.key \notin Users
      BY <1>2, <2>2, CallFacts
    <3>2. Columns(k.key) = [name |-> Names, is_active |-> BOOLEAN,
                            last_seen_at |-> Times \cup {Never}]
      BY <3>1 DEF Columns
    <3>3. "last_seen_at" \in DOMAIN Columns(k.key)
          /\ clock \in Columns(k.key)["last_seen_at"]
      BY <1>2, <3>2
    <3>4. Fits(k.key, [last_seen_at |-> clock])
      BY <3>3 DEF Fits
    <3>5. QED  BY <2>2, <3>1, <3>4 DEF Keys
  <2>3. QED  BY <2>1, <2>2
<1>4. table[k.key] \in RowsOf(k.key)
      /\ DOMAIN table[k.key] = DOMAIN Columns(k.key)
  <2>1. table[k.key] \in RowsOf(k.key)
    BY <1>1, <1>3 DEF AccountsInv, TypeOK
  <2>2. QED  BY <1>3, <2>1, RowsByColumn
<1> HIDE DEF values
<1>5. /\ pc'[c] = "commit" /\ loaded'[c] = table[k.key] /\ patch'[c] = values
      /\ \A d \in Clients : d # c => /\ pc'[d] = pc[d] /\ loaded'[d] = loaded[d]
                                     /\ patch'[d] = patch[d]
  BY <1>1 DEF AccountsInv, Shapes, IsTable
<1>6. Shapes'
  BY <1>1 DEF AccountsInv, Shapes, IsTable, Stages
<1>7. TypeOK'
  BY <1>1, <1>2, <1>3, <1>4, <1>5 DEF AccountsInv, TypeOK, Stages, Fits
<1>8. CreatedOnce' /\ WritesHold'
  BY <1>1 DEF AccountsInv, CreatedOnce, WritesHold
<1>9. InFlight'
  BY <1>1, <1>3, <1>5 DEF AccountsInv, InFlight, Loaded, Fits
<1>10. QED  BY <1>6, <1>7, <1>8, <1>9 DEF AccountsInv

LEMMA InsertStep ==
    ASSUME AccountsInv, NEW c \in Clients, Insert(c)
    PROVE  AccountsInv'
<1> DEFINE k == call[c]
<1>1. PICK a \in {"ok", "failed"} :
          /\ pc[c] = "insert" /\ table[k.key] = NoRow
          /\ table' = [table EXCEPT ![k.key] = k.values]
          /\ held' = [held EXCEPT ![k.key] = k.values]
          /\ inserts' = [inserts EXCEPT ![k.key] = @ + 1]
          /\ Answer(c, a)
          /\ UNCHANGED <<clock, calls, raced>>
  BY DEF Insert, AnswerCommitted
<1>2. /\ k \in Calls /\ k.op = "create" /\ k.key \in Keys
      /\ k.values \in RowsOf(k.key) /\ k.values # NoRow
  BY <1>1, CallFacts, RowsAreNotNoRow DEF AccountsInv, TypeOK, Stages, InFlight
<1>3. /\ table'[k.key] = k.values /\ held'[k.key] = k.values
      /\ inserts[k.key] = 0 /\ inserts'[k.key] = 1
      /\ \A q \in Keys : q # k.key => /\ table'[q] = table[q] /\ held'[q] = held[q]
                                      /\ inserts'[q] = inserts[q]
  BY <1>1, <1>2 DEF AccountsInv, Shapes, IsTable, CreatedOnce, WritesHold
<1>4. a \in Answers
  BY DEF Answers
<1> HIDE DEF k
<1>5. Shapes'
  <2>1. IsTable(table, Keys)' /\ IsTable(inserts, Keys)'
    BY <1>1 DEF AccountsInv, Shapes, IsTable
  <2>2. IsTable(raced, Clients)'
    BY <1>1 DEF AccountsInv, Shapes, IsTable
  <2>3. QED  BY <1>1, <1>4, <2>1, <2>2, AnswerFacts DEF AccountsInv, Shapes
<1>6. TypeOK'
  <2>1. \A q \in Keys : table'[q] \in RowsOf(q) \cup {NoRow}
    BY <1>2, <1>3 DEF AccountsInv, TypeOK
  <2>2. QED  BY <1>1, <1>4, <2>1, AnswerFacts DEF AccountsInv, TypeOK, Answers, Stages
<1>7. CreatedOnce'
  BY <1>2, <1>3 DEF AccountsInv, CreatedOnce
<1>8. WritesHold'
  BY <1>1 DEF AccountsInv, WritesHold
<1>9. InFlight'
  <2> SUFFICES ASSUME NEW d \in Clients
               PROVE  /\ pc'[d] = "insert" => call'[d].op = "create"
                      /\ pc'[d] = "commit" => Loaded(d)'
    BY DEF InFlight
  <2>1. CASE d = c
    BY <1>1, <2>1, AnswerFacts DEF AccountsInv
  <2>2. CASE d # c
    <3>1. /\ pc'[d] = pc[d] /\ call'[d] = call[d]
          /\ loaded'[d] = loaded[d] /\ patch'[d] = patch[d] /\ raced'[d] = raced[d]
      BY <1>1, <2>2, AnswerFacts DEF AccountsInv
    <3>2. pc[d] = "commit" => /\ call[d].key \in Keys /\ Loaded(d)
                              /\ call[d].key # k.key
      BY <1>1, CallFacts DEF AccountsInv, TypeOK, Stages, InFlight, Loaded, k
    <3>3. QED  BY <1>3, <3>1, <3>2 DEF AccountsInv, InFlight, Loaded
  <2>3. QED  BY <2>1, <2>2
<1>10. QED  BY <1>5, <1>6, <1>7, <1>8, <1>9 DEF AccountsInv

LEMMA CommitStep ==
    ASSUME AccountsInv, NEW c \in Clients, Commit(c)
    PROVE  AccountsInv'
<1> DEFINE k == call[c].key
           row == [col \in DOMAIN loaded[c] |->
                      IF col \in Changed(c) THEN Value(c, col) ELSE table[k][col]]
           due == [col \in DOMAIN loaded[c] |->
                      IF col \notin DOMAIN patch[c] THEN held[k][col]
                      ELSE IF col \in raced[c] THEN row[col] ELSE patch[c][col]]
<1>1. PICK a \in {"unread", "ok", "failed"} :
          /\ pc[c] = "commit"
          /\ table' = [table EXCEPT ![k] = row]
          /\ held' = [held EXCEPT ![k] = due]
          /\ raced' = [d \in Clients |->
                 IF d # c /\ pc[d] = "commit" /\ call[d].key = k
                 THEN raced[d] \cup DOMAIN patch[c] ELSE raced[d]]
          /\ Answer(c, a)
          /\ UNCHANGED <<clock, calls, inserts>>
  BY DEF Commit, AnswerCommitted
<1>2. /\ k \in Keys /\ loaded[c] \in RowsOf(k) /\ Loaded(c)
      /\ DOMAIN patch[c] \subseteq DOMAIN loaded[c]
      /\ table[k] # NoRow /\ table[k] \in RowsOf(k)
  BY <1>1, CallFacts DEF AccountsInv, TypeOK, Stages, InFlight, Loaded
<1>3. /\ DOMAIN loaded[c] = DOMAIN Columns(k)
      /\ DOMAIN table[k] = DOMAIN Columns(k)
      /\ \A col \in DOMAIN Columns(k) : table[k][col] \in Columns(k)[col]
  BY <1>2, RowsByColumn
<1>4. \A col \in DOMAIN Columns(k) :
          row[col] = IF col \in Changed(c) THEN patch[c][col] ELSE table[k][col]
  BY <1>2, <1>3 DEF Value, Changed
<1>5. row \in RowsOf(k) /\ row # NoRow
  <2>1. /\ row = [col \in DOMAIN Columns(k) |-> row[col]]
        /\ \A col \in DOMAIN Columns(k) : row[col] \in Columns(k)[col]
    <3>1. \A col \in Changed(c) : patch[c][col] \in Columns(k)[col]
      BY <1>2 DEF Changed, Loaded
    <3>2. \A col \in DOMAIN Columns(k) : row[col] \in Columns(k)[col]
      BY <1>3, <1>4, <3>1
    <3>3. QED  BY <1>3, <3>2
  <2> HIDE DEF k, row
  <2>2. QED  BY <1>2, <2>1, RowsByColumn, RowsAreNotNoRow
<1>6. due = row
  <2>1. ASSUME NEW col \in DOMAIN loaded[c]
        PROVE  due[col] = row[col]
    <3>1. CASE col \notin DOMAIN patch[c]
      BY <1>2, <1>3, <1>4, <3>1 DEF AccountsInv, WritesHold, Changed
    <3>2. CASE col \in DOMAIN patch[c] /\ col \in raced[c]
      BY <3>2
    <3>3. CASE col \in DOMAIN patch[c] /\ col \notin raced[c]
      <4>1. table[k][col] = loaded[c][col]
        BY <1>2, <3>3 DEF Loaded
      <4>2. col \notin Changed(c) => patch[c][col] = loaded[c][col]
        BY <3>3 DEF Changed
      <4>3. due[col] = patch[c][col]
        BY <3>3
      <4>4. QED  BY <1>3, <1>4, <4>1, <4>2, <4>3
    <3>4. QED  BY <3>1, <3>2, <3>3
  <2>2. DOMAIN due = DOMAIN loaded[c] /\ DOMAIN row = DOMAIN loaded[c]
    OBVIOUS
  <2>3. QED  BY <2>1, <2>2
<1>7. a \in Answers
  BY DEF Answers
<1> HIDE DEF row, due
<1>8. /\ table'[k] = row
      /\ \A q \in Keys : q # k => table'[q] = table[q]
  BY <1>1, <1>2 DEF AccountsInv, Shapes, IsTable
<1>9. Shapes'
  <2>1. IsTable(table, Keys)' /\ IsTable(inserts, Keys)' /\ IsTable(raced, Clients)'
    BY <1>1 DEF AccountsInv, Shapes, IsTable
  <2>2. QED  BY <1>1, <1>7, <2>1, AnswerFacts DEF AccountsInv, Shapes
<1>10. TypeOK'
  <2>1. \A q \in Keys : table'[q] \in RowsOf(q) \cup {NoRow}
    BY <1>5, <1>8 DEF AccountsInv, TypeOK
  <2>2. QED  BY <1>1, <1>7, <2>1, AnswerFacts DEF AccountsInv, TypeOK, Answers, Stages
<1>11. CreatedOnce'
  BY <1>1, <1>2, <1>5, <1>8 DEF AccountsInv, CreatedOnce
<1>12. WritesHold'
  BY <1>1, <1>6 DEF AccountsInv, WritesHold
<1>13. InFlight'
  <2> SUFFICES ASSUME NEW d \in Clients
               PROVE  /\ pc'[d] = "insert" => call'[d].op = "create"
                      /\ pc'[d] = "commit" => Loaded(d)'
    BY DEF InFlight
  <2>1. CASE d = c
    BY <1>1, <2>1, AnswerFacts DEF AccountsInv
  <2>2. CASE d # c
    <3>1. /\ pc'[d] = pc[d] /\ call'[d] = call[d]
          /\ loaded'[d] = loaded[d] /\ patch'[d] = patch[d]
      BY <1>1, <2>2, AnswerFacts DEF AccountsInv
    <3>2. pc[d] = "commit" => /\ call[d].key \in Keys /\ Loaded(d)
                              /\ loaded[d] \in RowsOf(call[d].key)
      BY CallFacts DEF AccountsInv, TypeOK, Stages, InFlight
    <3>3. CASE pc[d] = "commit" /\ call[d].key = k
      <4>1. raced'[d] = raced[d] \cup DOMAIN patch[c]
        BY <1>1, <2>2, <3>3
      <4>2. DOMAIN loaded[d] = DOMAIN Columns(k)
        BY <1>2, <3>2, <3>3, RowsByColumn
      <4>3. \A col \in DOMAIN loaded[d] :
                col \in DOMAIN patch[c] \/ row[col] = table[k][col]
        BY <1>4, <4>2 DEF Changed
      <4>4. QED  BY <1>5, <1>8, <3>1, <3>2, <3>3, <4>1, <4>3 DEF Loaded
    <3>4. CASE pc[d] = "commit" /\ call[d].key # k
      <4>1. raced'[d] = raced[d]
        BY <1>1, <3>4
      <4>2. QED  BY <1>8, <3>1, <3>2, <3>4, <4>1 DEF Loaded
    <3>5. CASE pc[d] # "commit"
      BY <3>1, <3>5 DEF AccountsInv, InFlight
    <3>6. QED  BY <3>3, <3>4, <3>5
  <2>3. QED  BY <2>1, <2>2
<1>14. QED  BY <1>9, <1>10, <1>11, <1>12, <1>13 DEF AccountsInv

\* Every step of a request, and its abortion, preserves the services' invariant.
LEMMA ServiceStep ==
    ASSUME AccountsInv, NEW c \in Clients, Step(c) \/ Abort(c)
    PROVE  AccountsInv'
<1>1. CASE Conflict(c) \/ Missing(c) \/ Get(c) \/ InsertRefused(c) \/ Abort(c)
  BY <1>1, AnswerStep DEF Conflict, Missing, Get, InsertRefused, Abort, Answers
<1>2. CASE Build(c) \/ Load(c) \/ Insert(c) \/ Commit(c)
  BY <1>2, BuildStep, LoadStep, InsertStep, CommitStep
<1>3. QED  BY <1>1, <1>2 DEF Step

----------------------------------------------------------------------------
\* The steps of the gateway.

\* What stood stays: the record of a moment only grows.
LEMMA TrackFacts ==
    ASSUME Track, clock' \in Times
    PROVE  /\ StandingInv'
           /\ \A u \in Users, m \in Times : standing[u][m] \subseteq standing'[u][m]
<1>1. \A u \in Users, m \in Times :
          standing'[u][m] = IF m = clock' THEN standing[u][m] \cup ActiveAs(u)'
                            ELSE standing[u][m]
  BY DEF Track
<1>2. QED  BY <1>1 DEF StandingInv

\* A later record of a longer time shows no less.
LEMMA StoodStays ==
    ASSUME Track, clock' \in Times, NEW u \in Users, NEW role, NEW password,
           NEW from \in Times, NEW to \in Times, NEW later \in Times, to <= later,
           Stood(standing, u, role, password, from, to)
    PROVE  Stood(standing', u, role, password, from, later)
<1>1. PICK m \in from .. to : <<role, password>> \in standing[u][m]
  BY DEF Stood
<1>2. m \in Times /\ m \in from .. later
  BY DEF Times
<1>3. <<role, password>> \in standing'[u][m]
  BY <1>1, <1>2, TrackFacts
<1>4. QED  BY <1>2, <1>3 DEF Stood

\* A step that issues no token leaves those there are earned.
LEMMA TokensKept ==
    ASSUME TokensInv, UNCHANGED tokens, Track, clock' \in Times
    PROVE  TokensInv'
<1>1. ASSUME NEW t \in tokens
      PROVE  Stood(standing', t.user, t.role, t.password, t.since, t.issued)
  <2>1. t \in Tokens /\ Stood(standing, t.user, t.role, t.password, t.since, t.issued)
    BY <1>1 DEF TokensInv
  <2>2. t.user \in Users /\ t.since \in Times /\ t.issued \in Times
        /\ t.issued <= t.issued
    BY <2>1 DEF Tokens, Times
  <2>3. QED  BY <2>1, <2>2, StoodStays
<1>2. QED  BY <1>1 DEF TokensInv

\* A login that is left alone has seen its user standing still.
LEMMA LoginKept ==
    ASSUME LoginsInv, Track, clock \in Times, clock' \in Times, clock <= clock',
           NEW c \in Clients, login'[c] = login[c], login[c] # None
    PROVE  /\ login'[c].since <= clock'
           /\ login'[c].stage = "issue" =>
                  /\ login'[c].role \in Roles
                  /\ Stood(standing', login'[c].user, login'[c].role,
                           login'[c].password, login'[c].since, clock')
<1> DEFINE l == login[c]
<1>1. /\ l \in Logins /\ l.since <= clock
      /\ l.stage = "issue" =>
             l.role \in Roles
             /\ Stood(standing, l.user, l.role, l.password, l.since, clock)
  BY DEF LoginsInv
<1>2. l.user \in Users /\ l.since \in Times
  BY <1>1 DEF Logins
<1>3. l.since <= clock'
  BY <1>1, <1>2 DEF Times
<1> HIDE DEF l
<1>4. l.stage = "issue" =>
          Stood(standing', l.user, l.role, l.password, l.since, clock')
  BY <1>1, <1>2, StoodStays
<1>5. QED  BY <1>1, <1>3, <1>4 DEF l

LEMMA LoginsKept ==
    ASSUME LoginsInv, Track, clock \in Times, clock' \in Times, clock <= clock',
           UNCHANGED login
    PROVE  LoginsInv'
BY LoginKept DEF LoginsInv

LEMMA AdmissionsKept ==
    ASSUME AdmissionsInv, UNCHANGED admission, tokens \subseteq tokens'
    PROVE  AdmissionsInv'
BY DEF AdmissionsInv, IsTable

LEMMA AccountsKept ==
    ASSUME AccountsInv, UNCHANGED <<clock, accountVars>>
    PROVE  AccountsInv'
BY DEF AccountsInv, Shapes, IsTable, TypeOK, CreatedOnce, WritesHold, InFlight, Loaded,
       accountVars, clients

LEMMA InitIInv == AccessInit => IInv
<1> SUFFICES ASSUME AccessInit PROVE IInv
  OBVIOUS
<1>1. AccountsInv /\ clock = 0 /\ 0 \in Times
  BY InitAccounts DEF AccessInit, Init, Times
<1>2. LoginsInv /\ TokensInv /\ AdmissionsInv
  BY DEF AccessInit, LoginsInv, TokensInv, AdmissionsInv, IsTable
<1>3. StandingInv
  BY <1>1 DEF AccessInit, StandingInv
<1>4. QED  BY <1>1, <1>2, <1>3 DEF IInv, AccessInv

\* A step of the services, or of the clock, leaves the gateway's invariant.
LEMMA GatewayFrame ==
    ASSUME IInv, Track, clock' \in Times, clock <= clock',
           UNCHANGED <<login, tokens, admission>>
    PROVE  AccessInv'
<1>1. clock \in Times
  BY DEF IInv, AccountsInv, TypeOK
<1>2. QED  BY <1>1, LoginsKept, TokensKept, AdmissionsKept, TrackFacts
           DEF IInv, AccessInv

LEMMA TickStep ==
    ASSUME IInv, Track, Tick, UNCHANGED <<login, tokens, admission>>
    PROVE  IInv'
<1>1. /\ clock \in Times /\ clock' \in Times /\ clock <= clock'
      /\ UNCHANGED accountVars
  BY DEF IInv, AccountsInv, TypeOK, Tick, Times
<1>2. AccountsInv'
  BY <1>1 DEF IInv, AccountsInv, Shapes, IsTable, TypeOK, CreatedOnce, WritesHold,
     InFlight, Loaded, accountVars, clients
<1>3. QED  BY <1>1, <1>2, GatewayFrame DEF IInv

\* The services' steps do not move the clock.
LEMMA ClockStays ==
    ASSUME NEW c \in Clients, Step(c) \/ Abort(c)
    PROVE  UNCHANGED clock
BY DEF Step, Abort, Conflict, Build, Missing, Get, Load, Insert, InsertRefused, Commit

LEMMA RequestStep ==
    ASSUME IInv, Track, NEW c \in Clients, Step(c) \/ Abort(c),
           UNCHANGED <<login, tokens, admission>>
    PROVE  IInv'
<1>1. clock \in Times /\ clock' \in Times /\ clock <= clock'
  BY ClockStays DEF IInv, AccountsInv, TypeOK, Times
<1>2. QED  BY <1>1, ServiceStep, GatewayFrame DEF IInv

LEMMA LoginStep ==
    ASSUME IInv, Track, NEW c \in Clients, NEW u \in Users, NEW password \in Passwords,
           Login(c, u, password)
    PROVE  IInv'
<1> DEFINE n == [stage |-> "select", user |-> u, password |-> password,
                 since |-> clock, role |-> None]
<1>1. /\ calls < MaxCalls /\ calls' = calls + 1
      /\ login' = [login EXCEPT ![c] = n]
      /\ UNCHANGED <<clock, table, pc, call, loaded, patch, inserts, held, raced,
                     tokens, admission>>
  BY DEF Login, clients
<1>2. clock \in Times /\ clock' = clock /\ clock <= clock /\ clock' \in Times
  BY <1>1 DEF IInv, AccountsInv, TypeOK, Times
<1>3. AccountsInv'
  <2>1. Shapes' /\ CreatedOnce' /\ WritesHold' /\ InFlight'
    BY <1>1 DEF IInv, AccountsInv, Shapes, IsTable, CreatedOnce, WritesHold, InFlight,
       Loaded
  <2>2. TypeOK'
    BY <1>1 DEF IInv, AccountsInv, TypeOK
  <2>3. QED  BY <2>1, <2>2 DEF AccountsInv
<1>4. LoginsInv'
  <2>1. n \in Logins /\ n.since = clock /\ n.stage = "select"
    BY <1>2 DEF Logins
  <2> HIDE DEF n
  <2>2. login' \in [Clients -> Logins \cup {None}]
    BY <1>1, <2>1 DEF IInv, AccessInv, LoginsInv
  <2>3. \A d \in Clients : login'[d] = IF d = c THEN n ELSE login[d]
    BY <1>1 DEF IInv, AccessInv, LoginsInv
  <2>4. QED  BY <1>2, <2>1, <2>2, <2>3, LoginKept DEF IInv, AccessInv, LoginsInv
<1>5. QED  BY <1>1, <1>2, <1>3, <1>4, TokensKept, AdmissionsKept, TrackFacts
           DEF IInv, AccessInv

\* A user that is found stands, at this moment, with the role that the login takes.
LEMMA AuthenticateStep ==
    ASSUME IInv, Track, NEW c \in Clients, Authenticate(c)
    PROVE  IInv'
<1> DEFINE l == login[c]
           r == table[l.user]
           n == [l EXCEPT !.stage = "issue", !.role = r.role]
<1>1. /\ l # None /\ l.stage = "select" /\ Found(l)
      /\ login' = [login EXCEPT ![c].stage = "issue", ![c].role = r.role]
      /\ UNCHANGED <<clock, accountVars, tokens, admission>>
  BY DEF Authenticate
<1>2. clock \in Times /\ clock' = clock /\ clock <= clock /\ clock' \in Times
  BY <1>1 DEF IInv, AccountsInv, TypeOK, Times
<1>3. /\ l \in Logins /\ l.user \in Users /\ l.password \in Passwords
      /\ l.since \in Times /\ l.since <= clock
  BY <1>1 DEF IInv, AccessInv, LoginsInv, Logins
<1>4. /\ r \in UserRow /\ r.is_active /\ r.hashed_password = l.password
      /\ r.role \in Roles
  BY <1>1, <1>3 DEF Found, IInv, AccountsInv, TypeOK, RowsOf, UserRow, Keys
<1>5. <<r.role, l.password>> \in standing[l.user][clock]
  <2>1. r \in [hashed_password : Passwords, role : Roles, is_active : {TRUE}]
    BY <1>4 DEF UserRow
  <2>2. <<r.role, r.hashed_password>> \in ActiveAs(l.user)
    BY <2>1 DEF ActiveAs
  <2>3. QED  BY <1>3, <1>4, <2>2 DEF IInv, AccessInv, StandingInv
<1>6. AccountsInv'
  BY <1>1, AccountsKept DEF IInv
<1>7. /\ login' = [login EXCEPT ![c] = n] /\ n \in Logins
      /\ n.role = r.role /\ n.user = l.user /\ n.password = l.password
      /\ n.since = l.since
  BY <1>1, <1>3, <1>4 DEF Logins
<1>8. Stood(standing', n.user, n.role, n.password, n.since, clock')
  <2>1. Stood(standing, n.user, n.role, n.password, n.since, clock)
    <3>1. clock \in l.since .. clock
      BY <1>2, <1>3 DEF Times
    <3>2. QED  BY <1>5, <1>7, <3>1 DEF Stood
  <2> HIDE DEF n, r
  <2>2. n.user \in Users /\ n.since \in Times
    BY <1>3, <1>7
  <2>3. QED  BY <1>2, <2>1, <2>2, StoodStays
<1> HIDE DEF n, r
<1>9. LoginsInv'
  <2>1. login' \in [Clients -> Logins \cup {None}]
    BY <1>7 DEF IInv, AccessInv, LoginsInv
  <2>2. \A d \in Clients : login'[d] = IF d = c THEN n ELSE login[d]
    BY <1>7 DEF IInv, AccessInv, LoginsInv
  <2>3. QED  BY <1>2, <1>3, <1>4, <1>7, <1>8, <2>1, <2>2, LoginKept
             DEF IInv, AccessInv, LoginsInv
<1>10. QED  BY <1>1, <1>2, <1>6, <1>9, TokensKept, AdmissionsKept, TrackFacts
            DEF IInv, AccessInv

\* A login that ends leaves the others.
LEMMA LoginEnds ==
    ASSUME IInv, Track, NEW c \in Clients, login' = [login EXCEPT ![c] = None],
           UNCHANGED clock
    PROVE  LoginsInv'
<1>1. clock \in Times /\ clock' \in Times /\ clock <= clock'
  BY DEF IInv, AccountsInv, TypeOK, Times
<1>2. login' \in [Clients -> Logins \cup {None}]
  BY DEF IInv, AccessInv, LoginsInv
<1>3. \A d \in Clients : login'[d] = IF d = c THEN None ELSE login[d]
  BY DEF IInv, AccessInv, LoginsInv
<1>4. QED  BY <1>1, <1>2, <1>3, LoginKept DEF IInv, AccessInv, LoginsInv

LEMMA RefuseLoginStep ==
    ASSUME IInv, Track, NEW c \in Clients, RefuseLogin(c)
    PROVE  IInv'
<1>1. /\ login' = [login EXCEPT ![c] = None]
      /\ UNCHANGED <<clock, accountVars, tokens, admission>>
  BY DEF RefuseLogin
<1>2. clock' \in Times
  BY <1>1 DEF IInv, AccountsInv, TypeOK
<1>3. QED  BY <1>1, <1>2, AccountsKept, LoginEnds, TokensKept, AdmissionsKept,
           TrackFacts DEF IInv, AccessInv

LEMMA CreateTokenStep ==
    ASSUME IInv, Track, NEW c \in Clients, CreateToken(c)
    PROVE  IInv'
<1> DEFINE l == login[c]
           n == [user |-> l.user, role |-> l.role, exp |-> clock + TokenLifetime,
                 password |-> l.password, since |-> l.since, issued |-> clock]
<1>1. /\ l # None /\ l.stage = "issue"
      /\ tokens' = tokens \cup {n}
      /\ login' = [login EXCEPT ![c] = None]
      /\ UNCHANGED <<clock, accountVars, admission>>
  BY DEF CreateToken
<1>2. clock \in Times /\ clock' \in Times /\ clock' = clock /\ clock <= clock
  BY <1>1 DEF IInv, AccountsInv, TypeOK, Times
<1>3. /\ l.user \in Users /\ l.role \in Roles /\ l.password \in Passwords
      /\ l.since \in Times
      /\ Stood(standing, l.user, l.role, l.password, l.since, clock)
  BY <1>1 DEF IInv, AccessInv, LoginsInv, Logins
<1>4. /\ n \in Tokens /\ n.exp = n.issued + TokenLifetime
  BY <1>2, <1>3 DEF Tokens, Times
<1>5. Stood(standing', n.user, n.role, n.password, n.since, n.issued)
  BY <1>2, <1>3, StoodStays
<1> HIDE DEF n
<1>6. TokensInv'
  <2>1. ASSUME NEW t \in tokens
        PROVE  Stood(standing', t.user, t.role, t.password, t.since, t.issued)
    <3>1. t \in Tokens
          /\ Stood(standing, t.user, t.role, t.password, t.since, t.issued)
      BY <2>1 DEF IInv, AccessInv, TokensInv
    <3>2. t.user \in Users /\ t.since \in Times /\ t.issued \in Times
          /\ t.issued <= t.issued
      BY <3>1 DEF Tokens, Times
    <3>3. QED  BY <1>2, <3>1, <3>2, StoodStays
  <2>2. QED  BY <1>1, <1>4, <1>5, <2>1 DEF IInv, AccessInv, TokensInv
<1>7. QED  BY <1>1, <1>2, <1>6, AccountsKept, LoginEnds, AdmissionsKept, TrackFacts
           DEF IInv, AccessInv

\* A token that is accepted has not expired.
LEMMA AdmitStep ==
    ASSUME IInv, Track, NEW c \in Clients, NEW t \in tokens, NEW k \in Calls,
           Admit(c, t, k)
    PROVE  IInv'
<1> DEFINE n == [at |-> clock, token |-> t]
<1>1. /\ clock <= t.exp /\ Call(c, k)
      /\ admission' = [admission EXCEPT ![c] = n]
      /\ UNCHANGED <<clock, login, tokens>>
  BY DEF Admit, Valid, Call
<1>2. clock \in Times /\ clock' \in Times /\ clock <= clock'
  BY <1>1 DEF IInv, AccountsInv, TypeOK, Times
<1>3. n.at <= n.token.issued + TokenLifetime /\ n.token \in tokens
  BY <1>1 DEF IInv, AccessInv, TokensInv
<1> HIDE DEF n
<1>4. AdmissionsInv'
  BY <1>1, <1>3 DEF IInv, AccessInv, AdmissionsInv, IsTable
<1>5. QED  BY <1>1, <1>2, <1>4, CallStep, LoginsKept, TokensKept, TrackFacts
           DEF IInv, AccessInv

----------------------------------------------------------------------------
\* The inductive invariant holds however requests, logins, time and the loss of
\* requests interleave.
THEOREM Invariance == AccessSpec => []IInv
<1>1. AccessInit => IInv
  BY InitIInv
<1>2. IInv /\ [AccessNext]_allVars => IInv'
  <2> SUFFICES ASSUME IInv, [AccessNext]_allVars
               PROVE  IInv'
    OBVIOUS
  <2>1. CASE UNCHANGED allVars
    <3>1. AccountsInv'
      BY <2>1, AccountsKept DEF IInv, allVars
    <3>2. AccessInv'
      BY <2>1 DEF IInv, AccessInv, LoginsInv, TokensInv, AdmissionsInv, IsTable,
         StandingInv, ActiveAs, allVars, accountVars, accessVars
    <3>3. QED  BY <3>1, <3>2 DEF IInv
  <2>2. CASE AccessNext
    <3>1. Track
      BY <2>2 DEF AccessNext
    <3>2. ASSUME NEW c \in Clients, AccessStep(c)
          PROVE  IInv'
      BY <3>1, <3>2, LoginStep, AuthenticateStep, RefuseLoginStep, CreateTokenStep,
         AdmitStep, RequestStep DEF AccessStep
    <3>3. CASE Tick /\ UNCHANGED <<login, tokens, admission>>
      BY <3>1, <3>3, TickStep
    <3>4. QED  BY <2>2, <3>2, <3>3 DEF AccessNext
  <2>3. QED  BY <2>1, <2>2
<1>3. QED  BY <1>1, <1>2, PTL DEF AccessSpec

\* Type correctness of the account services behind the gateway.
THEOREM TypeCorrect == AccessSpec => []TypeOK
<1>1. IInv => TypeOK
  BY DEF IInv, AccountsInv
<1>2. QED  BY <1>1, Invariance, PTL

\* However many creates of one name overlap, its row is inserted once and stays
\* (create_tenant, create_user, register_agent).
THEOREM OneRowPerName == AccessSpec => []CreatedOnce
<1>1. IInv => CreatedOnce
  BY DEF IInv, AccountsInv
<1>2. QED  BY <1>1, Invariance, PTL

\* No update is undone by another that set other columns, for any number of
\* overlapping requests (update, deactivate, activate, change_password,
\* heartbeat).
THEOREM NoUpdateIsUndone == AccessSpec => []WritesHold
<1>1. IInv => WritesHold
  BY DEF IInv, AccountsInv
<1>2. QED  BY <1>1, Invariance, PTL

\* No token carries a role that its user did not have during the login, and none
\* admits a request after its lifetime (AuthService, get_current_user).
THEOREM AccessMustBeEarned == AccessSpec => []AccessIsEarned
<1>1. IInv => AccessIsEarned
  BY DEF IInv, AccessInv, TokensInv, AdmissionsInv, Stood, AccessIsEarned
<1>2. QED  BY <1>1, Invariance, PTL

=============================================================================
