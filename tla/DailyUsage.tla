----------------------------- MODULE DailyUsage -----------------------------
(***************************************************************************)
(* The daily limit of one API key: authentication reads limit, status and  *)
(* today's count in one query, looks the key's group up, lets the request  *)
(* in and only then counts it, in the background (auth.js,                 *)
(* admin/ApiKeyStore.js), while an admin changes the key and the date      *)
(* changes. A token bound to the key by its id is let in, and counted,     *)
(* whatever the limit.                                                     *)
(***************************************************************************)
EXTENDS Integers, FiniteSets

CONSTANTS
  Client,    \* requests that may be in flight
  Limits,    \* values of daily_limit
  FirstLimit, \* the one the key is created with
  MaxServed  \* bound on the requests let in on a day, and on those counted or lost

ASSUME LimitsAssumption ==
  /\ Limits \subseteq Nat \ {0} /\ FirstLimit \in Limits /\ MaxServed \in Nat
  /\ IsFiniteSet(Client) /\ Client # {}

VARIABLES
  limit,    \* daily_limit
  active,   \* status = 'active'
  used,     \* call_count of today's row of api_key_usage
  client,   \* the requests
  served,   \* history: let in today by the key itself
  lost,     \* history: requests let in today that are not and will not be counted
  peak      \* history: the highest limit of today

duVars == <<limit, active, used, client, served, lost, peak>>

DailyUsageTypeOK ==
  /\ limit \in Limits /\ peak \in Limits /\ active \in BOOLEAN
  /\ used \in Nat /\ served \in Nat /\ lost \in Nat
  /\ client \in [Client -> {"idle", "group", "group by id", "count"}]

ToState(c, at) == client' = [client EXCEPT ![c] = at]
----------------------------------------------------------------------------
DailyUsageInit ==
  /\ limit = FirstLimit /\ peak = FirstLimit /\ active = TRUE
  /\ used = 0 /\ served = 0 /\ lost = 0
  /\ client = [c \in Client |-> "idle"]

\* mutant of WithinLimit: off by one
WithinLimitInclusive == used <= limit

WithinLimit == used < limit

\* validateApiKeyFromDB, by the key itself or by a token of the key
CheckKey(c) ==
  /\ client[c] = "idle" /\ active /\ WithinLimit
  /\ ToState(c, "group")
  /\ UNCHANGED <<limit, active, used, served, lost, peak>>

\* validateApiKeyById
CheckId(c) ==
  /\ client[c] = "idle" /\ active
  /\ ToState(c, "group by id")
  /\ UNCHANGED <<limit, active, used, served, lost, peak>>

\* getGroupKeyIds; then incrementUsage is called and the request let in
LetIn(c) ==
  /\ client[c] \in {"group", "group by id"} /\ served < MaxServed /\ used + lost < MaxServed
  /\ served' = IF client[c] = "group" THEN served + 1 ELSE served
  /\ ToState(c, "count")
  /\ UNCHANGED <<limit, active, used, lost, peak>>

\* the query fails, and the key is taken for an invalid one
GroupFails(c) ==
  /\ client[c] \in {"group", "group by id"}
  /\ ToState(c, "idle")
  /\ UNCHANGED <<limit, active, used, served, lost, peak>>

\* INSERT ... ON CONFLICT DO UPDATE SET call_count = call_count + 1
Count(c) ==
  /\ client[c] = "count"
  /\ used' = used + 1
  /\ ToState(c, "idle")
  /\ UNCHANGED <<limit, active, served, lost, peak>>

\* the query fails, which is only logged, or the process stops
CountFails(c) ==
  /\ client[c] = "count"
  /\ lost' = lost + 1
  /\ ToState(c, "idle")
  /\ UNCHANGED <<limit, active, used, served, peak>>

\* updateDailyLimit
SetLimit(n) ==
  /\ limit' = n
  /\ peak' = IF n > peak THEN n ELSE peak
  /\ UNCHANGED <<active, used, client, served, lost>>

\* updateApiKeyStatus
SetStatus ==
  /\ active' = ~active
  /\ UNCHANGED <<limit, used, client, served, lost, peak>>

\* CURRENT_DATE changes: there is no row yet
NextDay ==
  /\ used' = 0 /\ served' = 0 /\ lost' = 0 /\ peak' = limit
  /\ UNCHANGED <<limit, active, client>>

DailyUsageNext ==
  \/ \E c \in Client : \/ CheckKey(c) \/ CheckId(c) \/ LetIn(c) \/ GroupFails(c)
                       \/ Count(c) \/ CountFails(c)
  \/ \E n \in Limits : SetLimit(n)
  \/ SetStatus \/ NextDay

DailyUsageSpec == DailyUsageInit /\ [][DailyUsageNext]_duVars

----------------------------------------------------------------------------
(***************************************************************************)
(* The requests a day lets in by the key exceed the limit, the highest of  *)
(* the day, by less than the number of requests in flight at the same      *)
(* time, and by those whose count was lost (validateApiKeyFromDB and       *)
(* incrementUsage, ApiKeyStore.js:238-330).                                *)
(***************************************************************************)
UsageBound == served <= peak + lost + Cardinality(Client) - 1
=============================================================================
