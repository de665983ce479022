----------------------------- MODULE QuotaMeter -----------------------------
(***************************************************************************)
(* What the quota service promises a tenant, with no row, no session and   *)
(* no window: a call takes effect once, on a day on which it was under way;*)
(* an event is admitted while the use of that day and of its month is      *)
(* below the limits of the tenant's tier, and refused only when the use of *)
(* the present day or month has reached one.                               *)
(***************************************************************************)
EXTENDS Integers

CONSTANTS Clients, Tenants, Tiers, DailyLimit, MonthlyLimit, Days, MonthStart,
          Calls,    \* records of an op, a tenant, a tier and the day of the call
          NoCall,   \* its op is none of those below
          NoTier

VARIABLES
    today,
    call,         \* what a client has asked and was not answered
    tier,         \* a tenant's tier, NoTier before the first request
    used,         \* events admitted on a day, since its last reset
    usedInMonth,  \* events admitted in a month, by its first day
    refused       \* the clients whose last answer is a refusal

vars == <<today, call, tier, used, usedInMonth, refused>>

Init ==
    /\ today = 0
    /\ call = [c \in Clients |-> NoCall]
    /\ tier = [t \in Tenants |-> NoTier]
    /\ used = [t \in Tenants |-> [d \in Days |-> 0]]
    /\ usedInMonth = [t \in Tenants |-> [d \in Days |-> 0]]
    /\ refused = {}

Midnight ==
    /\ today + 1 \in Days
    /\ today' = today + 1
    /\ UNCHANGED <<call, tier, used, usedInMonth, refused>>

Ask(c, k) ==
    /\ call[c] = NoCall /\ k.day = today
    /\ call' = [call EXCEPT ![c] = k]
    /\ refused' = refused \ {c}
    /\ UNCHANGED <<today, tier, used, usedInMonth>>

Answer(c) == call' = [call EXCEPT ![c] = NoCall]

\* The days on which the client's call was under way.
DaysOf(c) == call[c].day .. today

UsedUp(t, d) ==
    \/ used[t][d] >= DailyLimit[tier[t]]
    \/ usedInMonth[t][MonthStart[d]] >= MonthlyLimit[tier[t]]

Admit(c, d) ==
    LET t == call[c].tenant
    IN  /\ call[c].op = "check_and_increment" /\ d \in DaysOf(c)
        /\ tier[t] # NoTier /\ ~UsedUp(t, d)
        /\ used' = [used EXCEPT ![t][d] = @ + 1]
        /\ usedInMonth' = [usedInMonth EXCEPT ![t][MonthStart[d]] = @ + 1]
        /\ Answer(c)
        /\ UNCHANGED <<today, tier, refused>>

Refuse(c) ==
    LET t == call[c].tenant
    IN  /\ call[c].op = "check_and_increment"
        /\ tier[t] # NoTier /\ UsedUp(t, today)
        /\ refused' = refused \cup {c}
        /\ Answer(c)
        /\ UNCHANGED <<today, tier, used, usedInMonth>>

Forgive(c, d) ==
    /\ call[c].op = "reset_daily" /\ d \in DaysOf(c)
    /\ used' = [used EXCEPT ![call[c].tenant][d] = 0]
    /\ Answer(c)
    /\ UNCHANGED <<today, tier, usedInMonth, refused>>

\* A provision gives a tenant its tier; any other first call gives it that of
\* the call, and goes on or fails.
SetTier(c) ==
    LET t == call[c].tenant
    IN  /\ call[c] # NoCall
        /\ tier' = [tier EXCEPT ![t] = call[c].tier]
        /\ \/ call[c].op = "provision" /\ Answer(c)
           \/ /\ call[c].op # "provision" /\ tier[t] = NoTier
              /\ Answer(c) \/ UNCHANGED call
        /\ UNCHANGED <<today, used, usedInMonth, refused>>

\* A status is answered, or a call fails.
End(c) ==
    /\ Answer(c)
    /\ UNCHANGED <<today, tier, used, usedInMonth, refused>>

Next ==
    \/ Midnight
    \/ \E c \in Clients :
           \/ \E k \in Calls : Ask(c, k)
           \/ \E d \in Days : Admit(c, d) \/ Forgive(c, d)
           \/ Refuse(c) \/ SetTier(c) \/ End(c)

Spec == Init /\ [][Next]_vars

=============================================================================
