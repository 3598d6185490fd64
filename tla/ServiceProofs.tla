--------------------------- MODULE ServiceProofs ---------------------------
(***************************************************************************)
(* Theorems about the parts of the server around the memory: the migration *)
(* script, the usage limits of the API keys, the sessions, the grants of OAuth and the*)
(* circuit breaker of the processes; for every number of each.             *)
(***************************************************************************)
EXTENDS Migrations, DailyUsage, Sessions, OAuthGrants, SharedBreaker,
        FiniteSetTheorems, SequenceTheorems, TLAPS


(***************************************************************************)
(* The inductive invariant: who is past the lock holds it, so nobody else  *)
(* writes the ledger between the reading of it and the last INSERT; the    *)
(* ledger is the first k files for some k.                                 *)
(***************************************************************************)
Locked(r) == run[r].at \in {"read", "apply", "record", "unlock"}
HolderRuns == \A r \in Runner : Locked(r) => lock = r
LedgerPrefix == \E k \in Nat : ledger = 1..k
PendingCurrent ==
  \A r \in Runner : run[r].at \in {"apply", "record"} =>
    run[r].pending = (1..Release[r]) \ ledger /\ run[r].pending # {}

MigrationsInv ==
  /\ MigrationsTypeOK /\ HolderRuns /\ LedgerPrefix /\ PendingCurrent
  /\ ledger = schema /\ ~collided

LEMMA ReleasedFiles == ASSUME NEW r \in Runner PROVE 1..Release[r] \subseteq File
BY DEF File

LEMMA OffState == Off \in RunState
BY DEF Off, RunState

\* the first pending file is the one after the ledger
LEMMA FirstPending ==
  ASSUME NEW k \in Nat, NEW n \in Nat, (1..n) \ (1..k) # {}
  PROVE  /\ k + 1 \in (1..n) \ (1..k)
         /\ FirstOf((1..n) \ (1..k)) = k + 1
<1> DEFINE S == (1..n) \ (1..k)
<1>1. k < n
  OBVIOUS
<1>2. k + 1 \in S /\ \A g \in S : k + 1 <= g
  BY <1>1
<1>3. \A f \in S : (\A g \in S : f <= g) => f = k + 1
  BY <1>2
<1> HIDE DEF S
<1>4. FirstOf(S) = k + 1
  BY <1>2, <1>3 DEF FirstOf
<1> QED BY <1>2, <1>4 DEF S

LEMMA MigrationsInitInv == MigrationsInit => MigrationsInv
<1> SUFFICES ASSUME MigrationsInit PROVE MigrationsInv
  OBVIOUS
<1>1. ledger = 1..0
  BY DEF MigrationsInit
<1>2. MigrationsTypeOK
  BY OffState DEF MigrationsInit, MigrationsTypeOK
<1> QED BY <1>1, <1>2 DEF MigrationsInit, MigrationsInv, HolderRuns, Locked, LedgerPrefix, PendingCurrent, Off

\* a step that leaves the ledger alone and the other runs where they are
LEMMA QuietStep ==
  ASSUME MigrationsInv, NEW r \in Runner, NEW s \in RunState,
         run' = [run EXCEPT ![r] = s], UNCHANGED <<ledger, schema, collided>>,
         lock' \in Runner \cup {NoRunner},
         \A x \in Runner \ {r} : lock = x => lock' = x,
         s.at \in {"read", "apply", "record", "unlock"} => lock' = r,
         s.at \in {"apply", "record"} => s.pending = (1..Release[r]) \ ledger /\ s.pending # {}
  PROVE  MigrationsInv'
<1>1. MigrationsTypeOK'
  BY DEF MigrationsInv, MigrationsTypeOK
<1>2. \A x \in Runner : run'[x] = IF x = r THEN s ELSE run[x]
  BY DEF MigrationsInv, MigrationsTypeOK
<1>3. HolderRuns'
  BY <1>2 DEF MigrationsInv, HolderRuns, Locked
<1>4. PendingCurrent'
  BY <1>2 DEF MigrationsInv, PendingCurrent
<1> QED BY <1>1, <1>3, <1>4 DEF MigrationsInv, LedgerPrefix

LEMMA AtState ==
  ASSUME MigrationsTypeOK, NEW r \in Runner, NEW at \in {"off", "lock", "read", "apply", "record", "unlock"}
  PROVE  /\ [run[r] EXCEPT !.at = at] \in RunState
         /\ [run[r] EXCEPT !.at = at].at = at
         /\ [run[r] EXCEPT !.at = at].pending = run[r].pending
         /\ [run EXCEPT ![r].at = at] = [run EXCEPT ![r] = [run[r] EXCEPT !.at = at]]
BY DEF MigrationsTypeOK, RunState

LEMMA RecordInv ==
  ASSUME MigrationsInv, NEW r \in Runner, RecordFile(r)
  PROVE  MigrationsInv'
<1> DEFINE f == FirstOf(run[r].pending)
           left == run[r].pending \ {f}
           s == [at |-> IF left = {} THEN "unlock" ELSE "apply", pending |-> left]
<1>1. PICK k \in Nat : ledger = 1..k
  BY DEF MigrationsInv, LedgerPrefix
<1>2. /\ run[r].at = "record" /\ run[r].pending = (1..Release[r]) \ (1..k)
      /\ run[r].pending # {} /\ lock = r /\ Release[r] \in Nat
  BY <1>1, RunnerAssumption DEF RecordFile, MigrationsInv, PendingCurrent, HolderRuns, Locked
<1>3. f = k + 1 /\ f \in 1..Release[r] /\ f \notin ledger
  <2>1. f = FirstOf((1..Release[r]) \ (1..k)) /\ (1..Release[r]) \ (1..k) # {}
    BY <1>2
  <2>2. f = k + 1 /\ k + 1 \in (1..Release[r]) \ (1..k)
    BY <1>2, <2>1, FirstPending
  <2> QED BY <1>1, <2>2
<1>4. /\ ledger' = ledger \cup {f} /\ schema' = schema \cup {f}
      /\ run' = [run EXCEPT ![r] = s] /\ UNCHANGED <<collided, lock>>
  BY <1>3 DEF RecordFile
<1>5. ledger' = 1..(k + 1) /\ schema' = ledger'
  <2>1. 1..(k + 1) = (1..k) \cup {k + 1}
    OBVIOUS
  <2> QED BY <1>1, <1>3, <1>4, <2>1 DEF MigrationsInv
<1>6. left = (1..Release[r]) \ ledger'
  BY <1>1, <1>2, <1>3, <1>4
<1>7. s \in RunState
  <2>1. left \subseteq File
    BY DEF MigrationsInv, MigrationsTypeOK, RunState
  <2> QED BY <2>1 DEF RunState
<1> HIDE DEF f, left
<1>8. \A x \in Runner : run'[x] = IF x = r THEN s ELSE run[x]
  BY <1>4 DEF MigrationsInv, MigrationsTypeOK
<1>9. MigrationsTypeOK'
  BY <1>3, <1>4, <1>7, ReleasedFiles DEF MigrationsInv, MigrationsTypeOK
<1>10. HolderRuns'
  BY <1>2, <1>4, <1>8 DEF MigrationsInv, HolderRuns, Locked
<1>11. PendingCurrent'
  <2> SUFFICES ASSUME NEW x \in Runner, run'[x].at \in {"apply", "record"}
               PROVE  run'[x].pending = (1..Release[x]) \ ledger' /\ run'[x].pending # {}
    BY DEF PendingCurrent
  <2>1. CASE x = r
    <3>1. run'[r] = s
      BY <1>8
    <3>2. s.at = "apply" /\ left # {} /\ s.pending = left
      BY <2>1, <3>1
    <3> QED BY <1>6, <2>1, <3>1, <3>2
  <2>2. CASE x # r
    <3>1. lock = x
      BY <1>8, <2>2 DEF MigrationsInv, HolderRuns, Locked
    <3> QED BY <1>2, <2>2, <3>1
  <2> QED BY <2>1, <2>2
<1>12. LedgerPrefix'
  BY <1>5 DEF LedgerPrefix
<1> QED BY <1>4, <1>5, <1>9, <1>10, <1>11, <1>12 DEF MigrationsInv

LEMMA MigrationsNextInv == MigrationsInv /\ [MigrationsNext]_mgVars => MigrationsInv'
<1> SUFFICES ASSUME MigrationsInv, [MigrationsNext]_mgVars PROVE MigrationsInv'
  OBVIOUS
<1> USE DEF Off
<1>0. MigrationsTypeOK /\ \A r \in Runner : run[r] \in RunState /\ lock \in Runner \cup {NoRunner}
  BY DEF MigrationsInv, MigrationsTypeOK
<1>1. ASSUME NEW r \in Runner, StartRun(r) PROVE MigrationsInv'
  BY <1>0, <1>1, AtState, QuietStep DEF StartRun, At
<1>2. ASSUME NEW r \in Runner, TakeLock(r) PROVE MigrationsInv'
  BY <1>0, <1>2, AtState, QuietStep, RunnerAssumption DEF TakeLock, MayLock, At
<1>3. ASSUME NEW r \in Runner, ReadLedger(r) PROVE MigrationsInv'
  <2> DEFINE pending == (1..Release[r]) \ ledger
             s == [at |-> IF pending = {} THEN "unlock" ELSE "apply", pending |-> pending]
  <2>1. s \in RunState
    BY ReleasedFiles DEF RunState
  <2>2. lock = r
    BY <1>3 DEF ReadLedger, MigrationsInv, HolderRuns, Locked
  <2> QED BY <1>0, <1>3, <2>1, <2>2, QuietStep DEF ReadLedger
<1>4. ASSUME NEW r \in Runner, ApplyFile(r) PROVE MigrationsInv'
  <2>1. lock = r /\ run[r].pending = (1..Release[r]) \ ledger /\ run[r].pending # {}
    BY <1>4 DEF ApplyFile, MigrationsInv, HolderRuns, Locked, PendingCurrent
  <2> QED BY <1>0, <1>4, <2>1, AtState, QuietStep DEF ApplyFile, At
<1>5. ASSUME NEW r \in Runner, RecordFile(r) PROVE MigrationsInv'
  BY <1>5, RecordInv
<1>6. ASSUME NEW r \in Runner, FileFails(r) PROVE MigrationsInv'
  <2>1. lock = r
    BY <1>6 DEF FileFails, MigrationsInv, HolderRuns, Locked
  <2> QED BY <1>0, <1>6, <2>1, AtState, QuietStep DEF FileFails, AfterError, At
<1>7. ASSUME NEW r \in Runner, Unlock(r) PROVE MigrationsInv'
  BY <1>0, <1>7, OffState, QuietStep DEF Unlock
<1>8. ASSUME NEW r \in Runner, LoseRun(r) PROVE MigrationsInv'
  BY <1>0, <1>8, OffState, QuietStep DEF LoseRun
<1>9. CASE UNCHANGED mgVars
  BY <1>9 DEF mgVars, MigrationsInv, MigrationsTypeOK, HolderRuns, Locked, LedgerPrefix, PendingCurrent
<1> QED BY <1>1, <1>2, <1>3, <1>4, <1>5, <1>6, <1>7, <1>8, <1>9 DEF MigrationsNext

LEMMA MigrationsInvariance == MigrationsSpec => []MigrationsInv
BY MigrationsInitInv, MigrationsNextInv, PTL DEF MigrationsSpec

(***************************************************************************)
(* Type correctness of the migration script's lock, ledger and runs.       *)
(***************************************************************************)
THEOREM MigrationsTypeCorrect == MigrationsSpec => []MigrationsTypeOK
<1>1. MigrationsInv => MigrationsTypeOK
  BY DEF MigrationsInv
<1> QED BY <1>1, MigrationsInvariance, PTL

(***************************************************************************)
(* Files are committed in their order and without gaps, with their ledger  *)
(* rows, for any number of concurrent runs of any releases.                *)
(***************************************************************************)
THEOREM MigrationOrder == MigrationsSpec => []AppliedInOrder
<1>1. MigrationsInv => AppliedInOrder
  BY DEF MigrationsInv, LedgerPrefix, AppliedInOrder
<1> QED BY <1>1, MigrationsInvariance, PTL

(***************************************************************************)
(* The advisory lock keeps runs from meeting each other's ledger rows.     *)
(***************************************************************************)
THEOREM NoCollisions == MigrationsSpec => []NoCollision
<1>1. MigrationsInv => NoCollision
  BY DEF MigrationsInv, NoCollision
<1> QED BY <1>1, MigrationsInvariance, PTL

ClientsAt(st) == {c \in Client : client[c] = st}
NumberAt(st) == Cardinality(ClientsAt(st))
Clients == Cardinality(Client)

(***************************************************************************)
(* The inductive invariant. A request is counted, lost, or about to be     *)
(* counted; and together with those past the check of the limit, the ones  *)
(* let in exceed the limit by less than the requests in flight.            *)
(***************************************************************************)
PeakIsHighest == limit <= peak
ServedAccounted == served <= used + lost + NumberAt("count")
AdmittedBound == served + NumberAt("group") <= peak - 1 + lost + Clients
UsageInv == DailyUsageTypeOK /\ PeakIsHighest /\ ServedAccounted /\ AdmittedBound

LEMMA ClientsAtFinite == ASSUME NEW st PROVE IsFiniteSet(ClientsAt(st)) /\ NumberAt(st) \in Nat /\ Clients \in Nat \ {0}
<1>1. ClientsAt(st) \subseteq Client
  BY DEF ClientsAt
<1>2. Clients # 0
  BY LimitsAssumption, FS_EmptySet DEF Clients
<1> QED BY <1>1, <1>2, LimitsAssumption, FS_Subset, FS_CardinalityType DEF NumberAt, Clients

LEMMA NumberAtBound == ASSUME NEW st PROVE NumberAt(st) <= Clients
<1>1. ClientsAt(st) \subseteq Client
  BY DEF ClientsAt
<1> QED BY <1>1, LimitsAssumption, FS_Subset DEF NumberAt, Clients

\* what a request that changes its state does to the numbers
LEMMA ClientMoved ==
  ASSUME DailyUsageTypeOK, NEW c \in Client, NEW old, client[c] = old,
         NEW at \in {"idle", "group", "group by id", "count"}, old # at, ToState(c, at)
  PROVE  /\ NumberAt(at)' = NumberAt(at) + 1
         /\ NumberAt(old)' = NumberAt(old) - 1
         /\ \A st : st # at /\ st # old => NumberAt(st)' = NumberAt(st)
<1>0. client' = [client EXCEPT ![c] = at] /\ client \in [Client -> {"idle", "group", "group by id", "count"}]
  BY DEF ToState, DailyUsageTypeOK
<1>1. ClientsAt(at)' = ClientsAt(at) \cup {c} /\ c \notin ClientsAt(at)
  BY <1>0 DEF ClientsAt
<1>2. ClientsAt(old)' = ClientsAt(old) \ {c} /\ c \in ClientsAt(old)
  BY <1>0 DEF ClientsAt
<1>3. ASSUME NEW st, st # at, st # old PROVE NumberAt(st)' = NumberAt(st)
  <2>1. ClientsAt(st)' = ClientsAt(st)
    BY <1>0, <1>3 DEF ClientsAt
  <2> QED BY <2>1 DEF NumberAt
<1>4. Cardinality(ClientsAt(at) \cup {c}) = Cardinality(ClientsAt(at)) + 1
  BY <1>1, ClientsAtFinite, FS_AddElement
<1>5. Cardinality(ClientsAt(old) \ {c}) = Cardinality(ClientsAt(old)) - 1
  BY <1>2, ClientsAtFinite, FS_RemoveElement
<1>6. NumberAt(at)' = NumberAt(at) + 1
  BY <1>1, <1>4 DEF NumberAt
<1>7. NumberAt(old)' = NumberAt(old) - 1
  BY <1>2, <1>5 DEF NumberAt
<1> QED BY <1>3, <1>6, <1>7

\* an idle request is in none of the others' places
LEMMA RoomForOne ==
  ASSUME NEW c \in Client, client[c] = "idle"
  PROVE  NumberAt("group") + NumberAt("count") + 1 <= Clients
<1> DEFINE G == ClientsAt("group")
           K == ClientsAt("count")
<1>1. IsFiniteSet(G) /\ IsFiniteSet(K) /\ G \cap K = {} /\ c \notin G \cup K
  BY ClientsAtFinite DEF ClientsAt
<1>2. G \cup K \cup {c} \subseteq Client
  BY DEF ClientsAt
<1> HIDE DEF G, K
<1>3. IsFiniteSet(G \cup K) /\ Cardinality(G \cup K) = Cardinality(G) + Cardinality(K)
  <2>1. Cardinality(G \cup K) = Cardinality(G) + Cardinality(K) - Cardinality(G \cap K)
    BY <1>1, FS_Union
  <2>2. Cardinality(G \cap K) = 0
    BY <1>1, FS_EmptySet
  <2>3. IsFiniteSet(G \cup K)
    BY <1>1, FS_Union
  <2> QED BY <1>1, <2>1, <2>2, <2>3, FS_CardinalityType
<1>4. Cardinality((G \cup K) \cup {c}) = Cardinality(G) + Cardinality(K) + 1
  BY <1>1, <1>3, FS_AddElement
<1>5. Cardinality((G \cup K) \cup {c}) <= Clients
  BY <1>2, LimitsAssumption, FS_Subset DEF Clients
<1> QED BY <1>4, <1>5 DEF G, K, NumberAt

LEMMA UsageInitInv == DailyUsageInit => UsageInv
<1> SUFFICES ASSUME DailyUsageInit PROVE UsageInv
  OBVIOUS
<1>1. DailyUsageTypeOK /\ PeakIsHighest
  BY LimitsAssumption DEF DailyUsageInit, DailyUsageTypeOK, PeakIsHighest
<1>2. ClientsAt("group") = {} /\ ClientsAt("count") = {}
  BY DEF DailyUsageInit, ClientsAt
<1>3. NumberAt("group") = 0 /\ NumberAt("count") = 0
  BY <1>2, FS_EmptySet DEF NumberAt
<1>4. peak \in Nat \ {0} /\ Clients \in Nat \ {0} /\ served = 0 /\ used = 0 /\ lost = 0
  BY LimitsAssumption, ClientsAtFinite DEF DailyUsageInit
<1> QED BY <1>1, <1>3, <1>4 DEF UsageInv, ServedAccounted, AdmittedBound

LEMMA UsageNextInv == UsageInv /\ [DailyUsageNext]_duVars => UsageInv'
<1> SUFFICES ASSUME UsageInv, [DailyUsageNext]_duVars PROVE UsageInv'
  OBVIOUS
<1>a. \A st : NumberAt(st) \in Nat
  BY ClientsAtFinite
<1>b. \A st : NumberAt(st)' \in Nat
  <2> SUFFICES ASSUME NEW st PROVE Cardinality({c \in Client : client'[c] = st}) \in Nat
    BY DEF NumberAt, ClientsAt
  <2> QED BY LimitsAssumption, FS_Subset, FS_CardinalityType, {c \in Client : client'[c] = st} \subseteq Client
<1>0. /\ DailyUsageTypeOK /\ limit \in Nat \ {0} /\ peak \in Nat \ {0} /\ limit <= peak
      /\ served \in Nat /\ used \in Nat /\ lost \in Nat /\ Clients \in Nat \ {0} /\ Clients' = Clients
      /\ \A st : NumberAt(st) \in Nat /\ NumberAt(st)' \in Nat
      /\ served <= used + lost + NumberAt("count")
      /\ served + NumberAt("group") <= peak - 1 + lost + Clients
  <2>1. Clients \in Nat \ {0} /\ Clients' = Clients
    BY ClientsAtFinite DEF Clients
  <2> QED BY <1>a, <1>b, <2>1, LimitsAssumption
          DEF UsageInv, DailyUsageTypeOK, PeakIsHighest, ServedAccounted, AdmittedBound
<1>1. ASSUME NEW c \in Client, CheckKey(c) PROVE UsageInv'
  <2>1. DailyUsageTypeOK'
    BY <1>0, <1>1 DEF CheckKey, ToState, DailyUsageTypeOK
  <2>2. NumberAt("group")' = NumberAt("group") + 1 /\ NumberAt("count")' = NumberAt("count")
    BY <1>0, <1>1, ClientMoved DEF CheckKey
  <2>3. NumberAt("group") + NumberAt("count") + 1 <= Clients
    BY <1>1, RoomForOne DEF CheckKey
  <2> QED BY <1>0, <1>1, <2>1, <2>2, <2>3
          DEF CheckKey, WithinLimit, UsageInv, PeakIsHighest, ServedAccounted, AdmittedBound
<1>2. ASSUME NEW c \in Client, CheckId(c) PROVE UsageInv'
  <2>1. DailyUsageTypeOK'
    BY <1>0, <1>2 DEF CheckId, ToState, DailyUsageTypeOK
  <2>2. NumberAt("group")' = NumberAt("group") /\ NumberAt("count")' = NumberAt("count")
    BY <1>0, <1>2, ClientMoved DEF CheckId
  <2> QED BY <1>0, <1>2, <2>1, <2>2
          DEF CheckId, UsageInv, PeakIsHighest, ServedAccounted, AdmittedBound
<1>3. ASSUME NEW c \in Client, LetIn(c) PROVE UsageInv'
  <2>0. /\ client[c] = "group" => served' = served + 1
        /\ client[c] # "group" => served' = served
        /\ UNCHANGED <<limit, active, used, lost, peak>>
    BY <1>3, Zenon DEF LetIn
  <2>1. DailyUsageTypeOK'
    <3>1. served' \in Nat
      BY <1>0, <2>0
    <3>2. client' \in [Client -> {"idle", "group", "group by id", "count"}]
      BY <1>0, <1>3 DEF LetIn, ToState, DailyUsageTypeOK
    <3> QED BY <1>0, <1>3, <3>1, <3>2 DEF LetIn, DailyUsageTypeOK
  <2>2. /\ NumberAt("count")' = NumberAt("count") + 1
        /\ NumberAt("group")' = IF client[c] = "group" THEN NumberAt("group") - 1 ELSE NumberAt("group")
    BY <1>0, <1>3, ClientMoved DEF LetIn
  <2>3. CASE client[c] = "group"
    BY <1>0, <2>0, <2>1, <2>2, <2>3
       DEF UsageInv, PeakIsHighest, ServedAccounted, AdmittedBound
  <2>4. CASE client[c] # "group"
    BY <1>0, <2>0, <2>1, <2>2, <2>4
       DEF UsageInv, PeakIsHighest, ServedAccounted, AdmittedBound
  <2> QED BY <2>3, <2>4
<1>4. ASSUME NEW c \in Client, GroupFails(c) PROVE UsageInv'
  <2>1. DailyUsageTypeOK'
    BY <1>0, <1>4 DEF GroupFails, ToState, DailyUsageTypeOK
  <2>2. /\ NumberAt("count")' = NumberAt("count")
        /\ NumberAt("group")' = IF client[c] = "group" THEN NumberAt("group") - 1 ELSE NumberAt("group")
    BY <1>0, <1>4, ClientMoved DEF GroupFails
  <2>3. CASE client[c] = "group"
    BY <1>0, <1>4, <2>1, <2>2, <2>3
       DEF GroupFails, UsageInv, PeakIsHighest, ServedAccounted, AdmittedBound
  <2>4. CASE client[c] # "group"
    BY <1>0, <1>4, <2>1, <2>2, <2>4
       DEF GroupFails, UsageInv, PeakIsHighest, ServedAccounted, AdmittedBound
  <2> QED BY <2>3, <2>4
<1>5. ASSUME NEW c \in Client, Count(c) \/ CountFails(c) PROVE UsageInv'
  <2>1. DailyUsageTypeOK'
    <3>1. client' \in [Client -> {"idle", "group", "group by id", "count"}]
      BY <1>0, <1>5 DEF Count, CountFails, ToState, DailyUsageTypeOK
    <3>2. used' \in Nat /\ lost' \in Nat
      BY <1>0, <1>5 DEF Count, CountFails
    <3> QED BY <1>0, <1>5, <3>1, <3>2 DEF Count, CountFails, DailyUsageTypeOK
  <2>2. NumberAt("count")' = NumberAt("count") - 1 /\ NumberAt("group")' = NumberAt("group")
    BY <1>0, <1>5, ClientMoved DEF Count, CountFails
  <2> QED BY <1>0, <1>5, <2>1, <2>2
          DEF Count, CountFails, UsageInv, PeakIsHighest, ServedAccounted, AdmittedBound
<1>6. ASSUME UNCHANGED client PROVE \A st : NumberAt(st)' = NumberAt(st)
  BY <1>6 DEF NumberAt, ClientsAt
<1>7. ASSUME NEW n \in Limits, SetLimit(n) PROVE UsageInv'
  <2>1. n \in Nat \ {0} /\ DailyUsageTypeOK'
    BY <1>0, <1>7, LimitsAssumption DEF SetLimit, DailyUsageTypeOK
  <2> QED BY <1>0, <1>6, <1>7, <2>1
          DEF SetLimit, UsageInv, PeakIsHighest, ServedAccounted, AdmittedBound
<1>8. ASSUME SetStatus PROVE UsageInv'
  <2>1. DailyUsageTypeOK'
    BY <1>0, <1>8 DEF SetStatus, DailyUsageTypeOK
  <2> QED BY <1>0, <1>6, <1>8, <2>1
          DEF SetStatus, UsageInv, PeakIsHighest, ServedAccounted, AdmittedBound
<1>9. ASSUME NextDay PROVE UsageInv'
  <2>1. DailyUsageTypeOK'
    BY <1>0, <1>9 DEF NextDay, DailyUsageTypeOK
  <2>2. NumberAt("group") <= Clients
    BY NumberAtBound
  <2> QED BY <1>0, <1>6, <1>9, <2>1, <2>2
          DEF NextDay, UsageInv, PeakIsHighest, ServedAccounted, AdmittedBound
<1>10. ASSUME UNCHANGED duVars PROVE UsageInv'
  BY <1>0, <1>6, <1>10
     DEF duVars, UsageInv, DailyUsageTypeOK, PeakIsHighest, ServedAccounted, AdmittedBound
<1> QED BY <1>1, <1>2, <1>3, <1>4, <1>5, <1>7, <1>8, <1>9, <1>10 DEF DailyUsageNext

LEMMA UsageInvariance == DailyUsageSpec => []UsageInv
BY UsageInitInv, UsageNextInv, PTL DEF DailyUsageSpec

(***************************************************************************)
(* Type correctness of the key, its counters and the requests in flight.   *)
(***************************************************************************)
THEOREM UsageTypeCorrect == DailyUsageSpec => []DailyUsageTypeOK
<1>1. UsageInv => DailyUsageTypeOK
  BY DEF UsageInv
<1> QED BY <1>1, UsageInvariance, PTL

(***************************************************************************)
(* A key lets in at most its highest limit of the day, plus the lost       *)
(* counts, plus one less than the requests in flight.                      *)
(***************************************************************************)
THEOREM UsageBounded == DailyUsageSpec => []UsageBound
<1>1. ASSUME UsageInv PROVE UsageBound
  <2>1. NumberAt("group") \in Nat /\ served \in Nat /\ lost \in Nat /\ peak \in Nat /\ Clients \in Nat
    BY <1>1, ClientsAtFinite, LimitsAssumption DEF UsageInv, DailyUsageTypeOK
  <2> QED BY <1>1, <2>1 DEF UsageInv, AdmittedBound, UsageBound, Clients
<1> QED BY <1>1, UsageInvariance, PTL

(***************************************************************************)
(* Sessions. The inductive invariant: only issued ids are in use, a        *)
(* request that still holds a session which has been closed knows it, and  *)
(* nothing that would end a live session has it in hand.                   *)
(***************************************************************************)
HoldsSession(o) == op[o].pc \in {"restore", "renew", "valid"}

OnlyIssued ==
  /\ redis \subseteq issued /\ live \subseteq issued /\ ended \subseteq issued
  /\ shutdown.todo \subseteq issued
  /\ cleaning \in issued \cup {NoSid}
  /\ \A s \in Sid : mem[s] # "none" => s \in issued
  /\ \A o \in Op : op[o].sid \in issued \cup {NoSid}
OpSane ==
  \A o \in Op : /\ op[o].pc # "idle" => op[o].sid # NoSid
                /\ op[o].pc \in {"create", "end"} => op[o].kind = "rotate"
HoldersKnow == \A o \in Op : HoldsSession(o) /\ op[o].sid \in ended => op[o].old
LiveLeftAlone ==
  \A s \in live : /\ s # cleaning /\ mem[s] # "stale"
                  /\ \A o \in Op : op[o].sid = s => op[o].kind = "post" /\ op[o].pc # "reflect"

SessionsInv ==
  /\ SessionsTypeOK /\ OnlyIssued /\ OpSane /\ HoldersKnow /\ LiveLeftAlone
  /\ SurvivesRestart /\ EndedStaysEnded

\* what a step that moves request o on does to the requests
LEMMA SessionsMoved ==
  ASSUME SessionsTypeOK, NEW o \in Op, NEW pc \in SessionPC, Goto(o, pc)
  PROVE  /\ op' \in [Op -> OpState]
         /\ \A p \in Op : p # o => op'[p] = op[p]
         /\ op'[o].pc = pc /\ op'[o].sid = op[o].sid
         /\ op'[o].kind = op[o].kind /\ op'[o].old = op[o].old
<1>1. op[o] \in OpState /\ op' = [op EXCEPT ![o] = [op[o] EXCEPT !.pc = pc]]
  BY DEF Goto, SessionsTypeOK
<1>2. [op[o] EXCEPT !.pc = pc] \in OpState
  BY <1>1 DEF OpState
<1> QED BY <1>1, <1>2 DEF SessionsTypeOK, OpState

LEMMA SessionsOver ==
  ASSUME SessionsTypeOK, NEW o \in Op, Done(o)
  PROVE  /\ op' \in [Op -> OpState]
         /\ \A p \in Op : op'[p] = IF p = o THEN IdleOp ELSE op[p]
<1>1. IdleOp \in OpState
  BY DEF IdleOp, OpState, Kind, SessionPC
<1> QED BY <1>1 DEF Done, SessionsTypeOK

LEMMA SessionsBegun ==
  ASSUME SessionsTypeOK, NEW o \in Op, NEW r \in OpState, op' = [op EXCEPT ![o] = r]
  PROVE  /\ op' \in [Op -> OpState]
         /\ \A p \in Op : op'[p] = IF p = o THEN r ELSE op[p]
BY DEF SessionsTypeOK

\* what the end of s does to the other requests
LEMMA SessionsOvertaken ==
  ASSUME SessionsTypeOK, NEW s \in Sid, NEW o
  PROVE  /\ Overtaken(s, o) \in [Op -> OpState]
         /\ \A p \in Op : /\ Overtaken(s, o)[p].pc = op[p].pc
                          /\ Overtaken(s, o)[p].sid = op[p].sid
                          /\ Overtaken(s, o)[p].kind = op[p].kind
                          /\ (op[p].old => Overtaken(s, o)[p].old)
                          /\ (p # o /\ op[p].sid = s /\ HoldsSession(p) => Overtaken(s, o)[p].old)
<1> SUFFICES ASSUME NEW p \in Op
             PROVE  /\ Overtaken(s, o)[p] \in OpState
                    /\ Overtaken(s, o)[p].pc = op[p].pc
                    /\ Overtaken(s, o)[p].sid = op[p].sid
                    /\ Overtaken(s, o)[p].kind = op[p].kind
                    /\ (op[p].old => Overtaken(s, o)[p].old)
                    /\ (p # o /\ op[p].sid = s /\ HoldsSession(p) => Overtaken(s, o)[p].old)
  BY Zenon DEF Overtaken
<1>1. op[p] \in OpState
  BY DEF SessionsTypeOK
<1>2. [op[p] EXCEPT !.old = TRUE] \in OpState
  BY <1>1 DEF OpState
<1> QED BY <1>1, <1>2 DEF Overtaken, OpState, HoldsSession

LEMMA SessionsInitInv == SessionsInit => SessionsInv
<1> SUFFICES ASSUME SessionsInit PROVE SessionsInv
  OBVIOUS
<1>1. SessionsTypeOK
  BY DEF SessionsInit, SessionsTypeOK, IdleOp, OpState, Kind, SessionPC
<1>2. OnlyIssued
  BY DEF SessionsInit, OnlyIssued, IdleOp, NoSid
<1>3. OpSane /\ HoldersKnow /\ LiveLeftAlone
  BY DEF SessionsInit, OpSane, HoldersKnow, HoldsSession, LiveLeftAlone, IdleOp
<1>4. SurvivesRestart /\ EndedStaysEnded
  BY DEF SessionsInit, SurvivesRestart, EndedStaysEnded
<1> QED BY <1>1, <1>2, <1>3, <1>4 DEF SessionsInv

\* what stays true of a session nobody has been given
LEMMA SessionsFresh ==
  ASSUME SessionsInv, NEW s \in Sid, IsNext(s)
  PROVE  /\ mem[s] = "none" /\ s \notin redis /\ s \notin ended /\ s # cleaning /\ s \notin live
         /\ \A o \in Op : op[o].sid # s
<1>1. OnlyIssued /\ s \notin issued /\ s # NoSid
  BY SidAssumption DEF SessionsInv, IsNext, NoSid, Sid
<1> QED BY <1>1 DEF OnlyIssued

LEMMA SessionsInitialize == ASSUME SessionsInv, NEW s \in Sid, Initialize(s) PROVE SessionsInv'
<1>0. IsNext(s) /\ s # NoSid
  BY SidAssumption DEF Initialize, Sid, NoSid
<1>1. SessionsTypeOK'
  BY DEF Initialize, Save, SessionsInv, SessionsTypeOK
<1>2. OnlyIssued' /\ OpSane'
  BY DEF Initialize, Save, SessionsInv, SessionsTypeOK, OnlyIssued, OpSane
<1>3. HoldersKnow' /\ EndedStaysEnded'
  BY <1>0, SessionsFresh DEF Initialize, Save, SessionsInv, SessionsTypeOK, HoldersKnow, HoldsSession, EndedStaysEnded
<1>4. LiveLeftAlone' /\ SurvivesRestart'
  BY <1>0, SessionsFresh DEF Initialize, Save, SessionsInv, SessionsTypeOK, LiveLeftAlone, SurvivesRestart
<1> QED BY <1>1, <1>2, <1>3, <1>4 DEF SessionsInv

\* the parts of the invariant, of which a proof about one action needs most
LEMMA SessionsParts ==
  ASSUME SessionsInv
  PROVE  /\ SessionsTypeOK /\ OnlyIssued /\ OpSane /\ HoldersKnow /\ LiveLeftAlone
         /\ SurvivesRestart /\ EndedStaysEnded
         /\ \A s \in Sid : s # NoSid
         /\ \A o \in Op : op[o] \in OpState
BY SidAssumption DEF SessionsInv, SessionsTypeOK, Sid, NoSid

LEMMA SessionsFind ==
  ASSUME SessionsInv, NEW o \in Op, NEW s \in Sid, NEW kind \in Kind,
         FindFresh(o, kind, s) \/ FindStale(o, kind, s) \/ FindNothing(o, kind, s)
  PROVE  SessionsInv'
<1> DEFINE r(pc) == [kind |-> kind, sid |-> s, pc |-> pc, old |-> FALSE]
<1>1. \A pc \in SessionPC : r(pc) \in OpState
  BY DEF OpState
<1>2. PICK pc \in {"valid", "reflect", "read"} :
        /\ Arrive(o, kind, s, pc)
        /\ pc = "valid" => mem[s] = "fresh"
        /\ pc = "reflect" => mem[s] = "stale"
        /\ redis' \in {redis, redis \cup {s}}
        /\ redis' # redis => mem[s] = "fresh"
        /\ live' \subseteq live
        /\ kind # "post" => s \notin live'
  BY DEF FindFresh, FindStale, FindNothing, Save, GivenUp
<1>3. /\ op' \in [Op -> OpState] /\ s \in issued
      /\ \A p \in Op : op'[p] = IF p = o THEN r(pc) ELSE op[p]
      /\ UNCHANGED <<mem, cleaning, shutdown, closing, issued, ended>>
  BY <1>1, <1>2, SessionsBegun, SessionsParts DEF Arrive, SessionPC
<1>4. /\ r(pc).kind = kind /\ r(pc).sid = s /\ r(pc).pc = pc /\ r(pc).old = FALSE
  OBVIOUS
<1> HIDE DEF r
<1>5. SessionsTypeOK'
  BY <1>2, <1>3, SessionsParts DEF SessionsTypeOK
<1>6. OnlyIssued' /\ OpSane'
  BY <1>2, <1>3, <1>4, SessionsParts DEF OnlyIssued, OpSane
<1>7. HoldersKnow'
  BY <1>2, <1>3, <1>4, SessionsParts DEF HoldersKnow, HoldsSession, EndedStaysEnded
<1>8. LiveLeftAlone'
  BY <1>2, <1>3, <1>4, SessionsParts DEF LiveLeftAlone
<1>9. SurvivesRestart' /\ EndedStaysEnded'
  BY <1>2, <1>3, SessionsParts DEF SurvivesRestart, EndedStaysEnded
<1> QED BY <1>5, <1>6, <1>7, <1>8, <1>9 DEF SessionsInv

LEMMA SessionsLoseStream ==
  ASSUME SessionsInv, NEW o \in Op, NEW s \in Sid, LoseStream(o, s) PROVE SessionsInv'
<1> DEFINE r == [kind |-> "delete", sid |-> s, pc |-> "reflect", old |-> FALSE]
<1>1. r \in OpState
  BY DEF OpState, Kind, SessionPC
<1>2. /\ op' \in [Op -> OpState] /\ s \in issued
      /\ \A p \in Op : op'[p] = IF p = o THEN r ELSE op[p]
      /\ live' = live \ {s}
      /\ UNCHANGED <<mem, redis, cleaning, shutdown, closing, issued, ended>>
  BY <1>1, SessionsBegun, SessionsParts DEF LoseStream, Arrive, GivenUp
<1>3. r.sid = s /\ r.pc = "reflect" /\ r.kind = "delete"
  OBVIOUS
<1> HIDE DEF r
<1>4. SessionsTypeOK' /\ OnlyIssued' /\ OpSane' /\ HoldersKnow' /\ LiveLeftAlone'
  BY <1>2, <1>3, SessionsParts
     DEF SessionsTypeOK, OnlyIssued, OpSane, HoldersKnow, HoldsSession, LiveLeftAlone
<1>5. SurvivesRestart' /\ EndedStaysEnded'
  BY <1>2, SessionsParts DEF SurvivesRestart, EndedStaysEnded
<1> QED BY <1>4, <1>5 DEF SessionsInv

LEMMA SessionsReadCopy ==
  ASSUME SessionsInv, NEW o \in Op, ReadCopy(o) PROVE SessionsInv'
<1>1. /\ op' \in [Op -> OpState]
      /\ \A p \in Op : p # o => op'[p] = op[p]
      /\ \/ /\ op'[o].sid = op[o].sid /\ op'[o].kind = op[o].kind /\ op'[o].old = op[o].old
            /\ \/ /\ op[o].sid \in redis
                  /\ op'[o].pc = IF op[o].kind = "rotate" THEN "create" ELSE "restore"
               \/ op'[o].pc = "auth"
         \/ op'[o] = IdleOp
      /\ UNCHANGED <<mem, redis, cleaning, shutdown, closing, issued, live, ended>>
  BY SessionsParts, SessionsMoved, SessionsOver DEF ReadCopy, SessionPC
<1>2. SessionsTypeOK' /\ OnlyIssued'
  BY <1>1, SessionsParts DEF SessionsTypeOK, OnlyIssued, IdleOp
<1>3. OpSane'
  BY <1>1, SessionsParts DEF OpSane, IdleOp, ReadCopy
<1>4. HoldersKnow'
  BY <1>1, SessionsParts DEF HoldersKnow, HoldsSession, IdleOp, EndedStaysEnded, SessionsTypeOK
<1>5. LiveLeftAlone'
  BY <1>1, SessionsParts DEF LiveLeftAlone, IdleOp
<1>6. SurvivesRestart' /\ EndedStaysEnded'
  BY <1>1, SessionsParts DEF SurvivesRestart, EndedStaysEnded
<1> QED BY <1>2, <1>3, <1>4, <1>5, <1>6 DEF SessionsInv

LEMMA SessionsRestore ==
  ASSUME SessionsInv, NEW o \in Op, Restore(o) PROVE SessionsInv'
<1> DEFINE s == op[o].sid
<1>1. /\ op' \in [Op -> OpState]
      /\ \A p \in Op : p # o => op'[p] = op[p]
      /\ op'[o].pc = "renew" /\ op'[o].sid = s /\ op'[o].kind = op[o].kind /\ op'[o].old = op[o].old
      /\ op[o].pc = "restore"
  BY SessionsParts, SessionsMoved DEF Restore, SessionPC
<1>2. /\ mem' = [mem EXCEPT ![s] = "fresh"]
      /\ redis' \in {redis, redis \cup {s}}
      /\ \/ live' \subseteq live
         \/ live' = live \cup {s} /\ Reliable(s, o) /\ s \in redis'
      /\ ended' = IF op[o].old THEN ended \ {s} ELSE ended
      /\ UNCHANGED <<cleaning, shutdown, closing, issued>>
  BY DEF Restore, Save, Touched
<1>3. s \in Sid /\ s \in issued /\ (s \in ended => op[o].old)
  BY <1>1, SessionsParts DEF OpSane, OpState, OnlyIssued, HoldersKnow, HoldsSession
<1> HIDE DEF s
<1>4. SessionsTypeOK' /\ OnlyIssued' /\ OpSane'
  BY <1>1, <1>2, <1>3, SessionsParts DEF SessionsTypeOK, OnlyIssued, OpSane
<1>5. HoldersKnow' /\ EndedStaysEnded'
  BY <1>1, <1>2, <1>3, SessionsParts DEF HoldersKnow, HoldsSession, EndedStaysEnded, SessionsTypeOK
<1>6. SurvivesRestart'
  BY <1>1, <1>2, SessionsParts DEF SurvivesRestart
<1>7. LiveLeftAlone'
  <2>1. CASE live' \subseteq live
    BY <1>1, <1>2, <1>3, <2>1, SessionsParts DEF LiveLeftAlone, SessionsTypeOK, s
  <2>2. CASE live' = live \cup {s} /\ Reliable(s, o)
    BY <1>1, <1>2, <1>3, <2>2, SessionsParts DEF LiveLeftAlone, SessionsTypeOK, Reliable, BeingEnded, s
  <2> QED BY <1>2, <2>1, <2>2
<1> QED BY <1>4, <1>5, <1>6, <1>7 DEF SessionsInv

\* a save on behalf of a request that holds the session
LEMMA SessionsSave ==
  ASSUME SessionsInv, NEW o \in Op, HoldsSession(o),
         op' \in [Op -> OpState],
         \A p \in Op : p # o => op'[p] = op[p],
         op'[o] = IdleOp \/ /\ op'[o].pc = "valid" /\ op'[o].sid = op[o].sid
                            /\ op'[o].kind = op[o].kind /\ op'[o].old = op[o].old,
         Save(op[o].sid, FALSE), Touched(o),
         UNCHANGED <<mem, cleaning, shutdown, closing, issued>>
  PROVE  SessionsInv'
<1> DEFINE s == op[o].sid
<1>1. /\ redis' \in {redis, redis \cup {s}}
      /\ live' \subseteq live
      /\ s \in redis' \/ s \notin live'
      /\ ended' = IF op[o].old THEN ended \ {s} ELSE ended
  BY SessionsParts DEF Save, Touched, SurvivesRestart
<1>2. s \in Sid /\ s \in issued /\ (s \in ended => op[o].old)
  BY SessionsParts DEF OpSane, OpState, OnlyIssued, HoldersKnow, HoldsSession
<1>3. SessionsTypeOK' /\ OnlyIssued' /\ OpSane'
  BY <1>1, <1>2, SessionsParts DEF SessionsTypeOK, OnlyIssued, OpSane, IdleOp
<1>4. HoldersKnow' /\ EndedStaysEnded'
  BY <1>1, <1>2, SessionsParts DEF HoldersKnow, HoldsSession, EndedStaysEnded, SessionsTypeOK, IdleOp
<1>5. SurvivesRestart'
  BY <1>1, SessionsParts DEF SurvivesRestart
<1>6. LiveLeftAlone'
  BY <1>1, SessionsParts DEF LiveLeftAlone, IdleOp, SessionsTypeOK
<1> QED BY <1>3, <1>4, <1>5, <1>6 DEF SessionsInv

LEMMA SessionsRenewServe ==
  ASSUME SessionsInv, NEW o \in Op, Renew(o) \/ Serve(o) PROVE SessionsInv'
<1>1. CASE Renew(o)
  BY <1>1, SessionsParts, SessionsMoved, SessionsSave DEF Renew, HoldsSession, SessionPC
<1>2. CASE Serve(o)
  <2>1. /\ op' \in [Op -> OpState] /\ op[o].pc = "valid"
        /\ \A p \in Op : op'[p] = IF p = o THEN IdleOp ELSE op[p]
        /\ UNCHANGED <<mem, cleaning, shutdown, closing, issued>>
    BY <1>2, SessionsParts, SessionsOver DEF Serve
  <2>2. CASE UNCHANGED <<redis, live, ended>>
    BY <2>1, <2>2, SessionsParts
       DEF SessionsInv, SessionsTypeOK, OnlyIssued, OpSane, HoldersKnow, HoldsSession, LiveLeftAlone,
           SurvivesRestart, EndedStaysEnded, IdleOp
  <2>3. CASE Save(op[o].sid, FALSE) /\ Touched(o)
    BY <2>1, <2>3, SessionsSave DEF HoldsSession
  <2> QED BY <1>2, <2>2, <2>3 DEF Serve
<1> QED BY <1>1, <1>2

LEMMA SessionsStartClose ==
  ASSUME SessionsInv, NEW o \in Op, StartClose(o) PROVE SessionsInv'
<1>1. /\ op' \in [Op -> OpState]
      /\ \A p \in Op : p # o => op'[p] = op[p]
      /\ \/ op'[o].sid = op[o].sid /\ op'[o].kind = op[o].kind /\ op'[o].pc = "reflect"
         \/ op'[o] = IdleOp
      /\ op[o].kind = "delete" /\ op[o].pc = "valid"
      /\ UNCHANGED <<mem, redis, cleaning, shutdown, closing, issued, live, ended>>
  BY SessionsParts, SessionsMoved, SessionsOver DEF StartClose, SessionPC
<1>2. SessionsTypeOK' /\ OnlyIssued' /\ OpSane' /\ HoldersKnow'
  BY <1>1, SessionsParts DEF SessionsTypeOK, OnlyIssued, OpSane, HoldersKnow, HoldsSession, IdleOp
<1>3. LiveLeftAlone'
  BY <1>1, SessionsParts DEF LiveLeftAlone, IdleOp
<1>4. SurvivesRestart' /\ EndedStaysEnded'
  BY <1>1, SessionsParts DEF SurvivesRestart, EndedStaysEnded
<1> QED BY <1>2, <1>3, <1>4 DEF SessionsInv

\* what a session closed with its copy leaves
LEMMA SessionsClose ==
  ASSUME SessionsInv, NEW s \in Sid, NEW o, s \in issued, s \notin live, CloseSession(s, FALSE),
         op' \in [Op -> OpState],
         \A p \in Op : p # o => op'[p] = Overtaken(s, o)[p],
         o \in Op => /\ op'[o].pc \in {"idle", "auth"} /\ op'[o].sid \in {op[o].sid, NoSid}
                     /\ op'[o].kind \in {"post", op[o].kind}
                     /\ op'[o].pc = "auth" => op'[o].sid # NoSid,
         cleaning' \in {cleaning, NoSid}, UNCHANGED <<shutdown, closing, issued, live>>
  PROVE  SessionsInv'
<1>1. /\ mem' = [mem EXCEPT ![s] = "none"]
      /\ \/ redis' = redis \ {s} /\ ended' = ended \cup {s}
         \/ redis' = redis /\ ended' = ended \ {s}
  BY DEF CloseSession, DeleteCopy
<1>2. \A p \in Op : p # o => /\ op'[p].pc = op[p].pc /\ op'[p].sid = op[p].sid
                             /\ op'[p].kind = op[p].kind /\ (op[p].old => op'[p].old)
                             /\ (op[p].sid = s /\ HoldsSession(p) => op'[p].old)
  BY SessionsOvertaken, SessionsParts
<1>3. SessionsTypeOK'
  BY <1>1, SessionsParts DEF SessionsTypeOK
<1>4. OnlyIssued' /\ OpSane'
  BY <1>1, <1>2, SessionsParts DEF OnlyIssued, OpSane, SessionsTypeOK
<1>5. HoldersKnow'
  BY <1>1, <1>2, SessionsParts DEF HoldersKnow, HoldsSession
<1>6. EndedStaysEnded' /\ SurvivesRestart'
  BY <1>1, SessionsParts DEF EndedStaysEnded, SurvivesRestart, SessionsTypeOK
<1>7. LiveLeftAlone'
  BY <1>1, <1>2, SessionsParts DEF LiveLeftAlone, SessionsTypeOK
<1> QED BY <1>3, <1>4, <1>5, <1>6, <1>7 DEF SessionsInv

LEMMA SessionsCloses ==
  ASSUME SessionsInv, (\E o \in Op : FinishClose(o) \/ RotateEnd(o)) \/ CleanupClose
  PROVE  SessionsInv'
<1>1. ASSUME NEW o \in Op, FinishClose(o) \/ RotateEnd(o) PROVE SessionsInv'
  <2> DEFINE s == op[o].sid
             r == IF op[o].pc = "reflect" /\ op[o].kind = "post"
                  THEN [Overtaken(s, o)[o] EXCEPT !.pc = "auth"] ELSE IdleOp
  <2>1. op[o].pc \in {"reflect", "end"} /\ s \in Sid /\ s \in issued /\ s \notin live
    BY <1>1, SessionsParts DEF FinishClose, RotateEnd, OpSane, OpState, OnlyIssued, LiveLeftAlone
  <2>2. /\ op' = [Overtaken(s, o) EXCEPT ![o] = r]
        /\ CloseSession(s, FALSE)
        /\ UNCHANGED <<cleaning, shutdown, closing, issued, live>>
    BY <1>1, <2>1, SessionsParts DEF FinishClose, RotateEnd, OpSane
  <2>3. /\ Overtaken(s, o) \in [Op -> OpState] /\ Overtaken(s, o)[o].sid = s
        /\ Overtaken(s, o)[o].kind = op[o].kind
    BY <2>1, SessionsOvertaken, SessionsParts
  <2>4. /\ r \in OpState /\ r.pc \in {"idle", "auth"} /\ r.sid \in {s, NoSid}
        /\ r.kind \in {"post", op[o].kind} /\ (r.pc = "auth" => r.sid # NoSid)
    <3>1. IdleOp \in OpState /\ IdleOp.pc = "idle" /\ IdleOp.sid = NoSid /\ IdleOp.kind = "post"
      BY DEF IdleOp, OpState, Kind, SessionPC
    <3>2. ASSUME NEW q \in OpState
          PROVE  /\ [q EXCEPT !.pc = "auth"] \in OpState /\ [q EXCEPT !.pc = "auth"].pc = "auth"
                 /\ [q EXCEPT !.pc = "auth"].sid = q.sid /\ [q EXCEPT !.pc = "auth"].kind = q.kind
      BY DEF OpState, SessionPC
    <3>3. Overtaken(s, o)[o] \in OpState /\ s # NoSid
      BY <2>1, <2>3, SessionsParts
    <3> QED BY <2>3, <3>1, <3>2, <3>3
  <2> HIDE DEF r
  <2>5. /\ op' \in [Op -> OpState] /\ op'[o] = r
        /\ \A p \in Op : p # o => op'[p] = Overtaken(s, o)[p]
    BY <2>2, <2>3, <2>4
  <2> HIDE DEF s
  <2> QED BY <2>1, <2>2, <2>4, <2>5, SessionsClose DEF s
<1>2. ASSUME CleanupClose PROVE SessionsInv'
  <2>1. cleaning \in Sid /\ cleaning \in issued /\ cleaning \notin live
    BY <1>2, SessionsParts DEF CleanupClose, OnlyIssued, LiveLeftAlone, SessionsTypeOK
  <2>2. NoOp \notin Op
    BY SidAssumption DEF NoOp
  <2>3. op' = Overtaken(cleaning, NoOp) /\ op' \in [Op -> OpState]
    BY <1>2, <2>1, SessionsOvertaken, SessionsParts DEF CleanupClose
  <2> QED BY <1>2, <2>1, <2>2, <2>3, SessionsClose DEF CleanupClose
<1> QED BY <1>1, <1>2

LEMMA SessionsRecover ==
  ASSUME SessionsInv, NEW o \in Op, Recover(o) PROVE SessionsInv'
<1> DEFINE s == op[o].sid
<1>1. /\ op' \in [Op -> OpState]
      /\ \A p \in Op : op'[p] = IF p = o THEN IdleOp ELSE op[p]
      /\ UNCHANGED <<cleaning, shutdown, closing, issued>>
  BY SessionsParts, SessionsOver DEF Recover
<1>2. CASE UNCHANGED <<mem, redis, live, ended>>
  BY <1>1, <1>2, SessionsParts
     DEF SessionsInv, SessionsTypeOK, OnlyIssued, OpSane, HoldersKnow, HoldsSession, LiveLeftAlone,
         SurvivesRestart, EndedStaysEnded, IdleOp
<1>3. CASE /\ mem' = [mem EXCEPT ![s] = "fresh"] /\ Save(s, Reliable(s, o)) /\ ended' = ended \ {s}
  <2>1. /\ redis' \in {redis, redis \cup {s}}
        /\ \/ live' \subseteq live /\ live' \subseteq redis'
           \/ live' = live \cup {s} /\ Reliable(s, o) /\ s \in redis'
    BY <1>3, SessionsParts DEF Save, SurvivesRestart
  <2>2. s \in Sid /\ s \in issued
    BY SessionsParts DEF Recover, OpSane, OpState, OnlyIssued
  <2> HIDE DEF s
  <2>3. SessionsTypeOK' /\ OnlyIssued' /\ OpSane'
    BY <1>1, <1>3, <2>1, <2>2, SessionsParts DEF SessionsTypeOK, OnlyIssued, OpSane, IdleOp
  <2>4. HoldersKnow' /\ EndedStaysEnded'
    BY <1>1, <1>3, <2>1, <2>2, SessionsParts
       DEF HoldersKnow, HoldsSession, EndedStaysEnded, SessionsTypeOK, IdleOp
  <2>5. SurvivesRestart'
    BY <1>1, <2>1, SessionsParts DEF SurvivesRestart
  <2>6. LiveLeftAlone'
    <3>1. CASE live' \subseteq live
      BY <1>1, <1>3, <2>1, <2>2, <3>1, SessionsParts DEF LiveLeftAlone, SessionsTypeOK, IdleOp
    <3>2. CASE live' = live \cup {s} /\ Reliable(s, o)
      BY <1>1, <1>3, <2>1, <2>2, <3>2, SessionsParts
         DEF LiveLeftAlone, SessionsTypeOK, Reliable, BeingEnded, IdleOp
    <3> QED BY <2>1, <3>1, <3>2
  <2> QED BY <2>3, <2>4, <2>5, <2>6 DEF SessionsInv
<1> QED BY <1>2, <1>3 DEF Recover

LEMMA SessionsRotate ==
  ASSUME SessionsInv, NEW o \in Op, NEW new \in Sid,
         (\E s \in Sid : RotateFresh(o, s, new)) \/ RotateCreate(o, new)
  PROVE  SessionsInv'
<1>1. PICK s \in Sid :
        /\ IsNext(new) /\ s \in issued /\ issued' = issued \cup {new}
        /\ op' \in [Op -> OpState] /\ \A p \in Op : p # o => op'[p] = op[p]
        /\ op'[o].sid = s /\ op'[o].kind = "rotate" /\ op'[o].pc = "end"
        /\ mem' = [mem EXCEPT ![new] = "fresh"]
        /\ \/ redis' = redis \cup {new} /\ live' = (live \ {s}) \cup {new}
           \/ redis' = redis /\ live' \subseteq live \ {s}
        /\ UNCHANGED <<cleaning, shutdown, closing, ended>>
  <2>1. CASE RotateCreate(o, new)
    <3>1. op[o].kind = "rotate" /\ op[o].pc = "create" /\ op[o].sid \in Sid /\ op[o].sid \in issued
          /\ op[o].sid \notin live /\ op[o].sid # new
      BY <2>1, SessionsParts, SessionsFresh DEF RotateCreate, OpSane, OpState, OnlyIssued, LiveLeftAlone
    <3>2. /\ op' \in [Op -> OpState] /\ \A p \in Op : p # o => op'[p] = op[p]
          /\ op'[o].sid = op[o].sid /\ op'[o].kind = "rotate" /\ op'[o].pc = "end"
      BY <2>1, <3>1, SessionsParts, SessionsMoved DEF RotateCreate, SessionPC
    <3> QED BY <2>1, <3>1, <3>2 DEF RotateCreate, Save
  <2>2. ASSUME NEW s \in Sid, RotateFresh(o, s, new)
        PROVE  /\ IsNext(new) /\ s \in issued /\ issued' = issued \cup {new}
               /\ op' \in [Op -> OpState] /\ \A p \in Op : p # o => op'[p] = op[p]
               /\ op'[o].sid = s /\ op'[o].kind = "rotate" /\ op'[o].pc = "end"
               /\ mem' = [mem EXCEPT ![new] = "fresh"]
               /\ \/ redis' = redis \cup {new} /\ live' = (live \ {s}) \cup {new}
                  \/ redis' = redis /\ live' \subseteq live \ {s}
               /\ UNCHANGED <<cleaning, shutdown, closing, ended>>
    <3> DEFINE r == [kind |-> "rotate", sid |-> s, pc |-> "end", old |-> FALSE]
    <3>1. r \in OpState /\ r.sid = s /\ r.kind = "rotate" /\ r.pc = "end"
      BY DEF OpState, Kind, SessionPC
    <3> HIDE DEF r
    <3>2. op' = [op EXCEPT ![o] = r]
      BY <2>2 DEF RotateFresh, r
    <3>3. op' \in [Op -> OpState] /\ \A p \in Op : op'[p] = IF p = o THEN r ELSE op[p]
      BY <3>1, <3>2, SessionsBegun, SessionsParts
    <3>4. s \in issued
      BY <2>2, SessionsParts DEF RotateFresh, OnlyIssued
    <3> QED BY <2>2, <3>1, <3>3, <3>4 DEF RotateFresh
  <2> QED BY <2>1, <2>2
<1>2. mem[new] = "none" /\ new \notin redis /\ new \notin ended /\ new # cleaning /\ new \notin live
      /\ new # s /\ \A p \in Op : op[p].sid # new
  BY <1>1, SessionsFresh DEF IsNext
<1>3. SessionsTypeOK' /\ OnlyIssued' /\ OpSane'
  BY <1>1, SessionsParts DEF SessionsTypeOK, OnlyIssued, OpSane
<1>4. HoldersKnow' /\ EndedStaysEnded' /\ SurvivesRestart'
  BY <1>1, <1>2, SessionsParts
     DEF HoldersKnow, HoldsSession, EndedStaysEnded, SessionsTypeOK, SurvivesRestart
<1>5. LiveLeftAlone'
  BY <1>1, <1>2, SessionsParts DEF LiveLeftAlone, SessionsTypeOK
<1> QED BY <1>3, <1>4, <1>5 DEF SessionsInv

\* time, the cleanup and the shutdown, which leave the requests alone; and a restart
LEMMA SessionsOthers ==
  ASSUME SessionsInv,
         (\E s \in Sid : Age(s) \/ CopyExpires(s) \/ CleanupVisit(s) \/ ShutdownVisit(s))
         \/ ShutdownStart \/ ShutdownClose \/ Restart \/ UNCHANGED ssVars
  PROVE  SessionsInv'
<1> USE SessionsParts
<1> USE DEF SessionsInv, SessionsTypeOK, OnlyIssued, OpSane, HoldersKnow, HoldsSession, LiveLeftAlone,
            SurvivesRestart, EndedStaysEnded
<1>1. ASSUME NEW s \in Sid, Age(s) PROVE SessionsInv'
  BY <1>1 DEF Age
<1>2. ASSUME NEW s \in Sid, CopyExpires(s) PROVE SessionsInv'
  BY <1>2 DEF CopyExpires
<1>3. ASSUME NEW s \in Sid, CleanupVisit(s) PROVE SessionsInv'
  BY <1>3 DEF CleanupVisit
<1>4. ASSUME NEW s \in Sid, ShutdownVisit(s) PROVE SessionsInv'
  BY <1>4 DEF ShutdownVisit
<1>5. CASE ShutdownStart
  BY <1>5 DEF ShutdownStart, InUse
<1>6. CASE ShutdownClose
  BY <1>6 DEF ShutdownClose, CloseSession
<1>7. CASE Restart
  <2>1. IdleOp \in OpState /\ IdleOp.pc = "idle" /\ IdleOp.sid = NoSid
    BY DEF IdleOp, OpState, Kind, SessionPC
  <2> QED BY <1>7, <2>1 DEF Restart
<1>8. CASE UNCHANGED ssVars
  BY <1>8 DEF ssVars
<1> QED BY <1>1, <1>2, <1>3, <1>4, <1>5, <1>6, <1>7, <1>8

LEMMA SessionsNextInv == SessionsInv /\ [SessionsNext]_ssVars => SessionsInv'
<1> SUFFICES ASSUME SessionsInv, [SessionsNext]_ssVars PROVE SessionsInv'
  OBVIOUS
<1>1. ASSUME NEW o \in Op, RequestStep(o) PROVE SessionsInv'
  BY <1>1, SessionsFind, SessionsLoseStream, SessionsReadCopy, SessionsRestore, SessionsRenewServe,
     SessionsStartClose, SessionsCloses, SessionsRecover, SessionsRotate DEF RequestStep
<1> QED BY <1>1, SessionsInitialize, SessionsOthers, SessionsCloses DEF SessionsNext

LEMMA SessionsInvariance == SessionsSpec => []SessionsInv
BY SessionsInitInv, SessionsNextInv, PTL DEF SessionsSpec

(***************************************************************************)
(* However requests, the cleanup, the shutdown, restarts and failed Redis  *)
(* commands interleave, a session its client still counts on has its copy  *)
(* in Redis.                                                               *)
(***************************************************************************)
THEOREM SessionSurvives == SessionsSpec => []SurvivesRestart
<1>1. SessionsInv => SurvivesRestart
  BY DEF SessionsInv
<1> QED BY <1>1, SessionsInvariance, PTL

(***************************************************************************)
(* A closed session stays out of the map and of Redis until it is          *)
(* recovered or put back by a request that held it when it was closed.     *)
(***************************************************************************)
THEOREM SessionEnds == SessionsSpec => []EndedStaysEnded
<1>1. SessionsInv => EndedStaysEnded
  BY DEF SessionsInv
<1> QED BY <1>1, SessionsInvariance, PTL

(***************************************************************************)
(* The map, the copies in Redis and every request are well typed.          *)
(***************************************************************************)
THEOREM SessionsTypeCorrect == SessionsSpec => []SessionsTypeOK
<1>1. SessionsInv => SessionsTypeOK
  BY DEF SessionsInv
<1> QED BY <1>1, SessionsInitInv, SessionsNextInv, PTL DEF SessionsSpec

(***************************************************************************)
(* The grants of OAuth. The inductive invariant: what a pair is bound to   *)
(* is what was shown last; a code has successors only once it is gone, a   *)
(* refresh token only once it has been answered; and a source that is not  *)
(* contested has one user and one successor, which does not exist while    *)
(* the user has yet to write it, and after whose user is through the       *)
(* source is no longer stored.                                             *)
(***************************************************************************)
Issuing(p) == poster[p].at \in {"refresh", "delete", "answer"}

GrantsShape ==
  /\ grants \in Seq(Grant)
  /\ \A g \in DOMAIN grants : grants[g].from < g
  /\ poster \in [Poster -> PosterState]
  /\ contested \subseteq Source
  /\ Len(grants) <= MaxGrants
  /\ code = [is |-> code.is, of |-> code.of]

BindingOK(of) ==
  /\ of.bound # NoApiKey => of.shown = of.bound
  /\ of.bound = NoApiKey /\ of.isKey => of.shown = OwnKey[of.app]
BindingsOK ==
  /\ BindingOK(code.of) /\ (code.is # "unissued" => code.of \in Binding)
  /\ \A g \in DOMAIN grants : BindingOK(grants[g].of)

PosterSane ==
  \A p \in Poster :
    /\ poster[p].at = "consume" => poster[p].from = TheCode /\ code.is # "unissued"
    /\ poster[p].at = "delete" => poster[p].from # TheCode
    /\ poster[p].at # "idle" /\ poster[p].from # TheCode =>
         poster[p].from \in DOMAIN grants /\ grants[poster[p].from].answered
    /\ poster[p].at \notin {"idle", "consume"} /\ poster[p].from = TheCode => code.is = "gone"
    /\ Issuing(p) => /\ poster[p].to \in DOMAIN grants
                     /\ grants[poster[p].to].from = poster[p].from
                     /\ ~grants[poster[p].to].answered
                     /\ poster[p].at # "refresh" => grants[poster[p].to].refresh # "unsaved"
OwnTarget ==
  \A p, q \in Poster : p # q /\ Issuing(p) /\ Issuing(q) => poster[p].to # poster[q].to
SourcesSpent ==
  \A h \in DOMAIN grants :
    IF grants[h].from = TheCode THEN code.is = "gone" ELSE grants[grants[h].from].answered
OneUser == \A s \in Source \ contested : \A p, q \in Using(s) : p = q
OneSuccessor ==
  \A s \in Source \ contested :
    /\ \A g, h \in SuccessorsOf(s) : g = h
    /\ \A p \in Using(s) : poster[p].at \in {"consume", "access"} => SuccessorsOf(s) = {}
    /\ s # TheCode /\ SuccessorsOf(s) # {} =>
         (\E p \in Using(s) : poster[p].at \in {"refresh", "delete"}) \/ grants[s].refresh # "stored"
RotatedReplaced ==
  \A g \in DOMAIN grants :
    grants[g].refresh = "rotated" => \E h \in SuccessorsOf(g) : grants[h].refresh # "unsaved"

GrantsInv ==
  /\ GrantsShape /\ BindingsOK /\ PosterSane /\ OwnTarget /\ SourcesSpent /\ OneUser /\ OneSuccessor
  /\ RotatedReplaced

LEMMA GrantsBasics ==
  ASSUME GrantsShape
  PROVE  /\ DOMAIN grants = 1..Len(grants) /\ Len(grants) \in Nat
         /\ \A g \in DOMAIN grants : /\ grants[g] \in Grant /\ g \in Nat /\ g # TheCode /\ g \in Source
                                     /\ grants[g].from \in Nat /\ grants[g].from < g
                                     /\ (grants[g].from # TheCode => grants[g].from \in DOMAIN grants)
         /\ \A p \in Poster : poster[p] \in PosterState
         /\ TheCode \in Source /\ TheCode \notin DOMAIN grants
<1>1. /\ grants \in Seq(Grant) /\ Len(grants) \in Nat /\ Len(grants) <= MaxGrants
      /\ DOMAIN grants = 1..Len(grants) /\ \A g \in 1..Len(grants) : grants[g] \in Grant
  BY DEF GrantsShape
<1>2. ASSUME NEW g \in DOMAIN grants
      PROVE  /\ g \in Nat /\ g # TheCode /\ g \in Source
             /\ grants[g].from \in Nat /\ grants[g].from < g
             /\ (grants[g].from # TheCode => grants[g].from \in DOMAIN grants)
  <2>1. g \in 1..Len(grants) /\ grants[g].from \in Source /\ grants[g].from < g
    BY <1>1 DEF GrantsShape, Grant
  <2> QED BY <1>1, <2>1, AppAssumption DEF Source, TheCode
<1> QED BY <1>1, <1>2, AppAssumption DEF GrantsShape, Source, TheCode

\* the state of a call after a step of its own
LEMMA PosterMoved ==
  ASSUME GrantsShape, NEW p \in Poster, NEW at \in PosterPhase, PosterTo(p, at)
  PROVE  /\ poster' \in [Poster -> PosterState]
         /\ \A q \in Poster : q # p => poster'[q] = poster[q]
         /\ poster'[p].at = at /\ poster'[p].from = poster[p].from
         /\ poster'[p].secret = poster[p].secret /\ poster'[p].to = poster[p].to
<1>1. poster[p] \in PosterState /\ poster' = [poster EXCEPT ![p] = [poster[p] EXCEPT !.at = at]]
  BY DEF PosterTo, GrantsShape
<1>2. [poster[p] EXCEPT !.at = at] \in PosterState
  BY <1>1 DEF PosterState
<1> QED BY <1>1, <1>2 DEF GrantsShape, PosterState

LEMMA PosterIsDone ==
  ASSUME GrantsShape, NEW p \in Poster, PosterDone(p)
  PROVE  /\ poster' \in [Poster -> PosterState]
         /\ \A q \in Poster : q # p => poster'[q] = poster[q]
         /\ poster'[p].at = "idle"
<1>1. RestingPoster \in PosterState /\ RestingPoster.at = "idle"
  BY AppAssumption DEF RestingPoster, PosterState, PosterPhase, Source, MaybeKey, TheCode
<1> QED BY <1>1 DEF PosterDone, GrantsShape

\* a write to a pair that is there
LEMMA GrantEdited ==
  ASSUME GrantsShape, NEW g \in DOMAIN grants,
         \/ \E r \in {"stored", "rotated", "expired"} : grants' = [grants EXCEPT ![g].refresh = r]
         \/ grants' = [grants EXCEPT ![g].answered = TRUE]
  PROVE  /\ grants' \in Seq(Grant) /\ Len(grants') = Len(grants) /\ DOMAIN grants' = DOMAIN grants
         /\ \A h \in DOMAIN grants : /\ h # g => grants'[h] = grants[h]
                                     /\ grants'[h].of = grants[h].of /\ grants'[h].from = grants[h].from
                                     /\ grants[h].answered => grants'[h].answered
                                     /\ grants[h].refresh # "unsaved" => grants'[h].refresh # "unsaved"
         /\ \A s \in Source : SuccessorsOf(s)' = SuccessorsOf(s)
<1>1. grants \in Seq(Grant) /\ grants[g] \in Grant /\ g \in 1..Len(grants)
  BY GrantsBasics DEF GrantsShape
<1> DEFINE Edited(n) == /\ grants' = [grants EXCEPT ![g] = n]
                        /\ n.of = grants[g].of /\ n.from = grants[g].from
                        /\ grants[g].answered => n.answered
                        /\ grants[g].refresh # "unsaved" => n.refresh # "unsaved"
<1>2. PICK n \in Grant : Edited(n)
  <2>1. CASE grants' = [grants EXCEPT ![g].answered = TRUE]
    <3> DEFINE n == [grants[g] EXCEPT !.answered = TRUE]
    <3>1. n \in Grant /\ n.of = grants[g].of /\ n.from = grants[g].from /\ n.answered = TRUE
          /\ n.refresh = grants[g].refresh
      BY <1>1 DEF Grant
    <3>2. Edited(n)
      BY <2>1, <3>1
    <3> QED BY <3>1, <3>2
  <2>2. ASSUME NEW r \in {"stored", "rotated", "expired"}, grants' = [grants EXCEPT ![g].refresh = r]
        PROVE  \E n \in Grant : Edited(n)
    <3> DEFINE n == [grants[g] EXCEPT !.refresh = r]
    <3>1. n \in Grant /\ n.of = grants[g].of /\ n.from = grants[g].from /\ n.answered = grants[g].answered
          /\ n.refresh = r
      BY <1>1 DEF Grant
    <3>2. Edited(n)
      BY <2>2, <3>1
    <3> HIDE DEF n, Edited
    <3> QED BY <3>1, <3>2
  <2> HIDE DEF Edited
  <2> QED BY <2>1, <2>2
<1>3. /\ grants' \in Seq(Grant) /\ Len(grants') = Len(grants)
      /\ \A h \in 1..Len(grants) : grants'[h] = IF h = g THEN n ELSE grants[h]
  BY <1>1, <1>2, ExceptSeq
<1>4. DOMAIN grants' = DOMAIN grants /\ DOMAIN grants = 1..Len(grants)
  BY <1>1, <1>3
<1>5. \A s \in Source : SuccessorsOf(s)' = SuccessorsOf(s)
  BY <1>2, <1>3, <1>4 DEF SuccessorsOf
<1> QED BY <1>2, <1>3, <1>4, <1>5

LEMMA GrantsInitInv == OAuthGrantsInit => GrantsInv
<1> SUFFICES ASSUME OAuthGrantsInit PROVE GrantsInv
  OBVIOUS
<1>1. RestingPoster \in PosterState /\ RestingPoster.at = "idle"
  BY AppAssumption DEF RestingPoster, PosterState, PosterPhase, Source, MaybeKey, TheCode
<1>2. grants \in Seq(Grant) /\ Len(grants) = 0 /\ DOMAIN grants = {}
  BY DEF OAuthGrantsInit
<1>3. \A p \in Poster : poster[p].at = "idle"
  BY <1>1 DEF OAuthGrantsInit
<1>4. GrantsShape /\ BindingsOK
  BY <1>1, <1>2, AppAssumption DEF OAuthGrantsInit, GrantsShape, BindingsOK, BindingOK, Unissued
<1>5. PosterSane /\ OwnTarget /\ SourcesSpent /\ RotatedReplaced
  BY <1>2, <1>3 DEF PosterSane, OwnTarget, SourcesSpent, RotatedReplaced, Issuing
<1>6. OneUser /\ OneSuccessor
  BY <1>2, <1>3 DEF OneUser, OneSuccessor, Using, SuccessorsOf
<1> QED BY <1>4, <1>5, <1>6 DEF GrantsInv

LEMMA SuccessorBound ==
  ASSUME NEW of \in Binding, BindingOK(of), NEW k \in MaybeKey
  PROVE  Successor(of, k) \in Binding /\ BindingOK(Successor(of, k))
BY AppAssumption DEF Successor, Binding, BindingOK, MaybeKey

LEMMA GrantsAuthorize == ASSUME GrantsInv, NEW a \in App, Authorize(a) PROVE GrantsInv'
<1>1. PICK of \in Found(a) : code' = [is |-> "stored", of |-> of]
  BY DEF Authorize
<1>2. of \in Binding /\ BindingOK(of)
  <2>1. CASE of = [app |-> a, bound |-> NoApiKey, isKey |-> FALSE, shown |-> NoApiKey]
    BY <2>1 DEF Binding, BindingOK, MaybeKey
  <2>2. ASSUME NEW k \in {OwnKey[a]} \cap ApiKey,
               of = [app |-> a, bound |-> NoApiKey, isKey |-> TRUE, shown |-> k]
        PROVE  of \in Binding /\ BindingOK(of)
    BY <2>2 DEF Binding, BindingOK, MaybeKey
  <2>3. ASSUME NEW k \in {BearerKey[a]} \cap ApiKey,
               of = [app |-> a, bound |-> k, isKey |-> TRUE, shown |-> k]
        PROVE  of \in Binding /\ BindingOK(of)
    BY <2>3, AppAssumption DEF Binding, BindingOK, MaybeKey
  <2> QED BY <2>1, <2>2, <2>3, Zenon DEF Found
<1>3. GrantsShape' /\ BindingsOK'
  BY <1>1, <1>2 DEF Authorize, GrantsInv, GrantsShape, BindingsOK
<1>4. PosterSane' /\ OwnTarget' /\ SourcesSpent' /\ RotatedReplaced'
  BY <1>1 DEF Authorize, GrantsInv, PosterSane, OwnTarget, SourcesSpent, RotatedReplaced, Issuing, SuccessorsOf
<1>5. OneUser' /\ OneSuccessor'
  BY DEF Authorize, GrantsInv, OneUser, OneSuccessor, Using, SuccessorsOf
<1> QED BY <1>3, <1>4, <1>5 DEF GrantsInv

\* the code is gone, whatever else a call does
LEMMA GrantsCodeGone ==
  ASSUME GrantsInv, code.is # "unissued", code' = [code EXCEPT !.is = "gone"], UNCHANGED <<grants, poster, contested>>
  PROVE  GrantsInv'
<1>1. code'.is = "gone" /\ code'.of = code.of /\ code' = [is |-> code'.is, of |-> code'.of]
  BY DEF GrantsInv, GrantsShape
<1>2. GrantsShape' /\ BindingsOK'
  BY <1>1 DEF GrantsInv, GrantsShape, BindingsOK
<1>3. PosterSane' /\ OwnTarget' /\ SourcesSpent' /\ RotatedReplaced'
  BY <1>1 DEF GrantsInv, PosterSane, OwnTarget, SourcesSpent, RotatedReplaced, Issuing, SuccessorsOf
<1>4. OneUser' /\ OneSuccessor'
  BY DEF GrantsInv, OneUser, OneSuccessor, Using, SuccessorsOf
<1> QED BY <1>2, <1>3, <1>4 DEF GrantsInv

\* a call that goes on, or is over, without having written anything
LEMMA GrantsPosterOnly ==
  ASSUME GrantsInv, NEW p \in Poster, poster' \in [Poster -> PosterState],
         \A q \in Poster : q # p => poster'[q] = poster[q],
         \/ poster'[p].at = "idle"
         \/ /\ poster[p].at = "consume" /\ poster'[p].at = "access" /\ poster'[p].from = poster[p].from
            /\ code'.is = "gone",
         contested' = contested \/
           \E s \in Source : contested' = contested \cup {s},
         poster[p].at \in {"refresh", "delete"} /\ poster[p].from # TheCode => poster[p].from \in contested',
         code' = code \/ (code.is # "unissued" /\ code' = [is |-> "gone", of |-> code.of]),
         UNCHANGED grants
  PROVE  GrantsInv'
<1>0. /\ code' = [is |-> code'.is, of |-> code'.of] /\ code'.of = code.of
      /\ code'.is = code.is \/ (code.is # "unissued" /\ code'.is = "gone")
  <2>1. CASE code' = code
    BY <2>1, Zenon DEF GrantsInv, GrantsShape
  <2>2. CASE code.is # "unissued" /\ code' = [is |-> "gone", of |-> code.of]
    BY <2>2
  <2> QED BY <2>1, <2>2
<1>1. /\ GrantsShape /\ contested \subseteq contested' /\ contested' \subseteq Source
      /\ \A s \in Source : SuccessorsOf(s)' = SuccessorsOf(s)
  BY DEF GrantsInv, GrantsShape, SuccessorsOf
<1>2. GrantsShape' /\ BindingsOK'
  BY <1>0, <1>1 DEF GrantsInv, GrantsShape, BindingsOK
<1>3. PosterSane' /\ OwnTarget'
  BY <1>0 DEF GrantsInv, PosterSane, OwnTarget, Issuing
<1>4. SourcesSpent' /\ RotatedReplaced'
  BY <1>0 DEF GrantsInv, SourcesSpent, RotatedReplaced, SuccessorsOf
<1>5. ASSUME NEW s \in Source PROVE Using(s)' \subseteq Using(s)
  BY DEF Using
<1>6. OneUser'
  BY <1>1, <1>5 DEF GrantsInv, OneUser
<1>7. OneSuccessor'
  <2> SUFFICES ASSUME NEW s \in Source, s \notin contested'
               PROVE  /\ \A g, h \in SuccessorsOf(s)' : g = h
                      /\ \A q \in Using(s)' : poster'[q].at \in {"consume", "access"} => SuccessorsOf(s)' = {}
                      /\ s # TheCode /\ SuccessorsOf(s)' # {} =>
                           (\E q \in Using(s)' : poster'[q].at \in {"refresh", "delete"}) \/ grants'[s].refresh # "stored"
    BY DEF OneSuccessor
  <2>1. s \notin contested /\ SuccessorsOf(s)' = SuccessorsOf(s)
    BY <1>1
  <2>2. \A g, h \in SuccessorsOf(s) : g = h
    BY <2>1 DEF GrantsInv, OneSuccessor
  <2>3. ASSUME NEW q \in Using(s)', poster'[q].at \in {"consume", "access"} PROVE SuccessorsOf(s) = {}
    <3>1. q \in Using(s) /\ poster[q].at \in {"consume", "access"}
      BY <1>5, <2>3 DEF Using
    <3> QED BY <2>1, <3>1 DEF GrantsInv, OneSuccessor
  <2>4. ASSUME s # TheCode, SuccessorsOf(s) # {}, grants[s].refresh = "stored"
        PROVE  \E q \in Using(s)' : poster'[q].at \in {"refresh", "delete"}
    <3>1. PICK q \in Using(s) : poster[q].at \in {"refresh", "delete"}
      BY <2>1, <2>4 DEF GrantsInv, OneSuccessor
    <3>2. q # p
      BY <2>4, <3>1 DEF Using
    <3> QED BY <3>1, <3>2 DEF Using
  <2> QED BY <2>1, <2>2, <2>3, <2>4
<1> QED BY <1>2, <1>3, <1>4, <1>6, <1>7 DEF GrantsInv

LEMMA GrantsPost ==
  ASSUME GrantsInv, NEW p \in Poster, NEW s \in {TheCode} \cup DOMAIN grants, Post(p, s)
  PROVE  GrantsInv'
<1>1. GrantsShape /\ s \in Source /\ p \in Poster
  BY GrantsBasics DEF GrantsInv
<1>2. PICK r \in PosterState :
        /\ poster' = [poster EXCEPT ![p] = r]
        /\ r.from = s /\ r.at = (IF s = TheCode THEN "consume" ELSE "access")
  <2>1. PICK k \in Secret : poster' = [poster EXCEPT ![p] = [RestingPoster EXCEPT !.from = s, !.secret = k,
                                                      !.at = IF s = TheCode THEN "consume" ELSE "access"]]
    BY DEF Post
  <2> DEFINE at == IF s = TheCode THEN "consume" ELSE "access"
             r == [RestingPoster EXCEPT !.from = s, !.secret = k, !.at = at]
  <2>2. poster' = [poster EXCEPT ![p] = r]
    BY <2>1
  <2>3. k \in MaybeKey /\ TheCode \in Source /\ at \in PosterPhase
    BY AppAssumption DEF MaybeKey, Source, TheCode, PosterPhase
  <2>4. RestingPoster \in PosterState
    BY <2>3 DEF RestingPoster, PosterState, PosterPhase, MaybeKey
  <2> HIDE DEF at
  <2>5. r \in PosterState /\ r.from = s /\ r.at = at
    BY <1>1, <2>3, <2>4 DEF PosterState
  <2> HIDE DEF r
  <2> QED BY <2>2, <2>5 DEF at
<1>3. /\ poster' \in [Poster -> PosterState]
      /\ \A q \in Poster : q # p => poster'[q] = poster[q]
      /\ poster'[p].from = s /\ poster'[p].at = (IF s = TheCode THEN "consume" ELSE "access")
      /\ poster[p].at = "idle"
  BY <1>1, <1>2 DEF GrantsShape, Post
<1>4. /\ contested' = IF Using(s) # {} THEN contested \cup {s} ELSE contested
      /\ UNCHANGED <<code, grants>> /\ Stored(s)
  BY DEF Post
<1>5. GrantsShape' /\ BindingsOK'
  BY <1>1, <1>3, <1>4 DEF GrantsInv, GrantsShape, BindingsOK
<1>6. PosterSane' /\ OwnTarget'
  BY <1>3, <1>4 DEF GrantsInv, PosterSane, OwnTarget, Issuing, Stored
<1>7. SourcesSpent' /\ RotatedReplaced'
  BY <1>4 DEF GrantsInv, SourcesSpent, RotatedReplaced, SuccessorsOf
<1>8. ASSUME NEW t \in Source
      PROVE  /\ Using(t)' = (IF t = s THEN Using(t) \cup {p} ELSE Using(t)) /\ p \notin Using(t)
             /\ SuccessorsOf(t)' = SuccessorsOf(t)
  BY <1>3, <1>4 DEF Using, SuccessorsOf
<1>9. ASSUME s \notin contested' PROVE Using(s) = {} /\ SuccessorsOf(s) = {} /\ s \notin contested
  <2>1. Using(s) = {} /\ s \notin contested
    BY <1>4, <1>9
  <2>2. CASE s = TheCode
    BY <1>4, <2>1, <2>2 DEF GrantsInv, SourcesSpent, Stored, SuccessorsOf
  <2>3. CASE s # TheCode
    <3>1. grants[s].refresh = "stored"
      BY <1>4, <2>3 DEF Stored
    <3> QED BY <1>1, <2>1, <2>3, <3>1 DEF GrantsInv, OneSuccessor
  <2> QED BY <2>1, <2>2, <2>3
<1>10. OneUser'
  BY <1>1, <1>4, <1>8, <1>9 DEF GrantsInv, OneUser
<1>11. OneSuccessor'
  <2> SUFFICES ASSUME NEW t \in Source, t \notin contested'
               PROVE  /\ \A g, h \in SuccessorsOf(t)' : g = h
                      /\ \A q \in Using(t)' : poster'[q].at \in {"consume", "access"} => SuccessorsOf(t)' = {}
                      /\ t # TheCode /\ SuccessorsOf(t)' # {} =>
                           (\E q \in Using(t)' : poster'[q].at \in {"refresh", "delete"}) \/ grants'[t].refresh # "stored"
    BY DEF OneSuccessor
  <2>1. CASE t = s
    BY <1>8, <1>9, <2>1
  <2>2. CASE t # s
    <3>1. /\ t \notin contested /\ Using(t)' = Using(t) /\ SuccessorsOf(t)' = SuccessorsOf(t)
          /\ p \notin Using(t) /\ grants' = grants
      BY <1>4, <1>8, <2>2
    <3>2. \A q \in Using(t) : poster'[q] = poster[q]
      BY <1>3, <3>1 DEF Using
    <3> QED BY <3>1, <3>2 DEF GrantsInv, OneSuccessor
  <2> QED BY <2>1, <2>2
<1> QED BY <1>5, <1>6, <1>7, <1>10, <1>11 DEF GrantsInv

LEMMA GrantsConsume == ASSUME GrantsInv, NEW p \in Poster, ConsumeCode(p) PROVE GrantsInv'
<1>1. /\ GrantsShape /\ poster[p].at = "consume" /\ poster[p].from = TheCode /\ code.is # "unissued"
      /\ grants' = grants /\ contested' = contested
  BY DEF GrantsInv, ConsumeCode, PosterSane
<1>2. [code EXCEPT !.is = "gone"] = [is |-> "gone", of |-> code.of]
  BY <1>1 DEF GrantsShape
<1>3. \/ code' = [is |-> "gone", of |-> code.of] /\ (PosterTo(p, "access") \/ PosterDone(p))
      \/ code' = code /\ PosterDone(p)
  BY <1>2, Zenon DEF ConsumeCode
<1>4. CASE PosterDone(p)
  <2>1. /\ poster' \in [Poster -> PosterState] /\ poster'[p].at = "idle"
        /\ \A q \in Poster : q # p => poster'[q] = poster[q]
    BY <1>1, <1>4, PosterIsDone
  <2> QED BY <1>1, <1>3, <2>1, GrantsPosterOnly
<1>5. CASE code' = [is |-> "gone", of |-> code.of] /\ PosterTo(p, "access")
  BY <1>1, <1>5, PosterMoved, GrantsPosterOnly DEF PosterPhase
<1> QED BY <1>3, <1>4, <1>5

LEMMA GrantsStops == ASSUME GrantsInv, NEW p \in Poster, PosterStops(p) PROVE GrantsInv'
<1>1. GrantsShape /\ poster[p].from \in Source
  BY GrantsBasics DEF GrantsInv, PosterState
<1>2. poster[p].at \in {"refresh", "delete"} /\ poster[p].from # TheCode => poster[p].from \in contested'
  BY DEF PosterStops
<1>3. contested' = contested \/ contested' = contested \cup {poster[p].from}
  BY DEF PosterStops
<1>4. /\ poster' \in [Poster -> PosterState] /\ poster'[p].at = "idle"
      /\ \A q \in Poster : q # p => poster'[q] = poster[q]
      /\ code' = code /\ grants' = grants
  BY <1>1, PosterIsDone DEF PosterStops
<1>5. contested' = contested \/ \E s \in Source : contested' = contested \cup {s}
  BY <1>1, <1>3
<1> QED BY <1>2, <1>4, <1>5, GrantsPosterOnly

LEMMA GrantsSaveAccess == ASSUME GrantsInv, NEW p \in Poster, SaveAccess(p) PROVE GrantsInv'
<1> DEFINE s == poster[p].from
           new == Len(grants) + 1
           of == IF s = TheCode THEN code.of ELSE grants[s].of
           e == [of |-> Successor(of, poster[p].secret), from |-> s, answered |-> FALSE, refresh |-> "unsaved"]
<1>1. /\ GrantsShape /\ poster[p].at = "access" /\ s \in Source /\ p \in Using(s)
      /\ (s # TheCode => s \in DOMAIN grants /\ grants[s].answered)
      /\ (s = TheCode => code.is = "gone")
      /\ new \in Source /\ new # TheCode /\ new \notin DOMAIN grants /\ Len(grants) < MaxGrants
      /\ new \in Nat /\ s < new
  <2>1. GrantsShape /\ poster[p].at = "access" /\ s \in Source /\ Len(grants) < MaxGrants
    BY GrantsBasics DEF GrantsInv, SaveAccess, PosterState
  <2>2. /\ (s # TheCode => s \in DOMAIN grants /\ grants[s].answered)
        /\ (s = TheCode => code.is = "gone")
    BY <2>1 DEF GrantsInv, PosterSane
  <2>3. new \in Source /\ new # TheCode /\ new \notin DOMAIN grants /\ new \in Nat /\ s < new
    BY <2>1, <2>2, GrantsBasics, AppAssumption DEF Source, TheCode
  <2> QED BY <2>1, <2>2, <2>3 DEF Using
<1>2. e \in Grant /\ BindingOK(e.of) /\ e.from = s /\ e.answered = FALSE /\ e.refresh = "unsaved"
  <2>1. of \in Binding /\ BindingOK(of) /\ poster[p].secret \in MaybeKey
    BY <1>1, GrantsBasics DEF GrantsInv, BindingsOK, Grant, PosterState
  <2> HIDE DEF of
  <2>2. Successor(of, poster[p].secret) \in Binding /\ BindingOK(Successor(of, poster[p].secret))
    BY <2>1, SuccessorBound
  <2> QED BY <1>1, <2>2 DEF Grant
<1>3. /\ grants' = Append(grants, e) /\ UNCHANGED <<code, contested>>
      /\ poster' = [poster EXCEPT ![p] = [@ EXCEPT !.at = "refresh", !.to = new]]
  BY DEF SaveAccess
<1> HIDE DEF e, of, s
<1>4. /\ grants' \in Seq(Grant) /\ Len(grants') = new /\ DOMAIN grants' = DOMAIN grants \cup {new}
      /\ grants'[new] = e /\ \A g \in DOMAIN grants : grants'[g] = grants[g]
  <2>1. grants \in Seq(Grant) /\ e \in Grant /\ DOMAIN grants = 1..Len(grants) /\ Len(grants) \in Nat
    BY <1>1, <1>2, GrantsBasics DEF GrantsShape
  <2>2. 1..new = 1..Len(grants) \cup {new}
    BY <2>1
  <2> QED BY <1>3, <2>1, <2>2, AppendProperties
<1>5. /\ poster' \in [Poster -> PosterState]
      /\ \A q \in Poster : q # p => poster'[q] = poster[q]
      /\ poster'[p].from = s /\ poster'[p].at = "refresh" /\ poster'[p].to = new
  <2> DEFINE r == [poster[p] EXCEPT !.at = "refresh", !.to = new]
  <2>1. poster[p] \in PosterState
    BY <1>1, GrantsBasics
  <2>2. r \in PosterState /\ r.from = s /\ r.at = "refresh" /\ r.to = new
    BY <1>1, <2>1 DEF PosterState, PosterPhase, s
  <2>3. poster' = [poster EXCEPT ![p] = r]
    BY <1>1, <1>3 DEF GrantsShape
  <2> HIDE DEF r
  <2> QED BY <1>1, <2>2, <2>3 DEF GrantsShape
<1>6. ASSUME NEW t \in Source
      PROVE  /\ SuccessorsOf(t)' = (IF t = s THEN SuccessorsOf(t) \cup {new} ELSE SuccessorsOf(t))
             /\ Using(t)' = Using(t)
  <2>1. SuccessorsOf(t)' = (IF t = s THEN SuccessorsOf(t) \cup {new} ELSE SuccessorsOf(t))
    BY <1>2, <1>4 DEF SuccessorsOf
  <2>2. Using(t)' = Using(t)
    BY <1>1, <1>5 DEF Using, s
  <2> QED BY <2>1, <2>2
<1>7. GrantsShape' /\ BindingsOK'
  <2>1. \A g \in DOMAIN grants' : grants'[g].from < g
    BY <1>1, <1>2, <1>4 DEF GrantsShape
  <2>2. Len(grants') <= MaxGrants
    BY <1>1, <1>4 DEF Source
  <2>3. GrantsShape'
    BY <1>1, <1>3, <1>4, <1>5, <2>1, <2>2 DEF GrantsShape
  <2> QED BY <1>2, <1>3, <1>4, <2>3 DEF GrantsInv, BindingsOK
<1>8. PosterSane' /\ OwnTarget'
  <2>1. /\ poster[p].at = "access" /\ poster'[p].from = s /\ poster'[p].at = "refresh" /\ poster'[p].to = new
        /\ grants'[new] = e /\ new \in DOMAIN grants' /\ new \notin DOMAIN grants
        /\ code' = code /\ \A g \in DOMAIN grants : g \in DOMAIN grants' /\ grants'[g] = grants[g]
    BY <1>1, <1>3, <1>4, <1>5
  <2>2. PosterSane /\ OwnTarget
    BY DEF GrantsInv
  <2>3. PosterSane'
    <3> SUFFICES ASSUME NEW q \in Poster
                 PROVE  (/\ poster[q].at = "consume" => poster[q].from = TheCode /\ code.is # "unissued"
                         /\ poster[q].at = "delete" => poster[q].from # TheCode
                         /\ poster[q].at # "idle" /\ poster[q].from # TheCode =>
                              poster[q].from \in DOMAIN grants /\ grants[poster[q].from].answered
                         /\ poster[q].at \notin {"idle", "consume"} /\ poster[q].from = TheCode =>
                              code.is = "gone"
                         /\ Issuing(q) => /\ poster[q].to \in DOMAIN grants
                                          /\ grants[poster[q].to].from = poster[q].from
                                          /\ ~grants[poster[q].to].answered
                                          /\ poster[q].at # "refresh" =>
                                               grants[poster[q].to].refresh # "unsaved")'
      BY DEF PosterSane
    <3>1. CASE q = p
      BY <1>1, <1>2, <2>1, <3>1 DEF Issuing
    <3>2. CASE q # p
      <4>1. poster'[q] = poster[q]
        BY <1>5, <3>2
      <4> QED BY <2>1, <2>2, <4>1 DEF PosterSane, Issuing
    <3> QED BY <3>1, <3>2
  <2>4. OwnTarget'
    <3> SUFFICES ASSUME NEW q \in Poster, NEW r \in Poster, q # r, Issuing(q)', Issuing(r)'
                 PROVE  poster'[q].to # poster'[r].to
      BY DEF OwnTarget
    <3>1. ASSUME NEW v \in Poster, v # p, Issuing(v)'
          PROVE  Issuing(v) /\ poster'[v].to = poster[v].to /\ poster'[v].to # new
      <4>1. poster'[v] = poster[v]
        BY <1>5, <3>1
      <4> QED BY <2>1, <2>2, <3>1, <4>1 DEF PosterSane, Issuing
    <3>2. CASE q = p \/ r = p
      BY <2>1, <3>1, <3>2
    <3>3. CASE q # p /\ r # p
      BY <2>2, <3>1, <3>3 DEF OwnTarget
    <3> QED BY <3>2, <3>3
  <2> QED BY <2>3, <2>4
<1>9. SourcesSpent'
  <2>1. \A h \in DOMAIN grants : grants[h].from # TheCode => grants[h].from \in DOMAIN grants
    BY <1>1, GrantsBasics
  <2> QED BY <1>1, <1>2, <1>3, <1>4, <2>1 DEF GrantsInv, SourcesSpent
<1>10. RotatedReplaced'
  <2> SUFFICES ASSUME NEW g \in DOMAIN grants', grants'[g].refresh = "rotated"
               PROVE  \E h \in SuccessorsOf(g)' : grants'[h].refresh # "unsaved"
    BY DEF RotatedReplaced
  <2>1. g \in DOMAIN grants /\ grants[g].refresh = "rotated" /\ g \in Source
    BY <1>1, <1>2, <1>4, GrantsBasics
  <2>2. PICK h \in SuccessorsOf(g) : grants[h].refresh # "unsaved"
    BY <2>1 DEF GrantsInv, RotatedReplaced
  <2>3. h \in DOMAIN grants
    BY DEF SuccessorsOf
  <2> QED BY <1>4, <1>6, <2>1, <2>2, <2>3
<1>11. OneUser'
  BY <1>3, <1>6 DEF GrantsInv, OneUser
<1>12. OneSuccessor'
  <2> SUFFICES ASSUME NEW t \in Source, t \notin contested
               PROVE  /\ \A g, h \in SuccessorsOf(t)' : g = h
                      /\ \A q \in Using(t)' : poster'[q].at \in {"consume", "access"} => SuccessorsOf(t)' = {}
                      /\ t # TheCode /\ SuccessorsOf(t)' # {} =>
                           (\E q \in Using(t)' : poster'[q].at \in {"refresh", "delete"}) \/ grants'[t].refresh # "stored"
    BY <1>3 DEF OneSuccessor
  <2>1. CASE t = s
    <3>1. SuccessorsOf(t) = {} /\ \A q \in Using(t) : q = p
      BY <1>1, <2>1 DEF GrantsInv, OneSuccessor, OneUser
    <3> QED BY <1>1, <1>5, <1>6, <2>1, <3>1
  <2>2. CASE t # s
    <3>1. SuccessorsOf(t)' = SuccessorsOf(t) /\ Using(t)' = Using(t) /\ p \notin Using(t)
      BY <1>1, <1>6, <2>2 DEF Using, s
    <3>2. \A q \in Using(t) : poster'[q] = poster[q]
      BY <1>5, <3>1 DEF Using
    <3>3. SuccessorsOf(t) # {} /\ t # TheCode => grants'[t] = grants[t]
      BY <1>1, <1>4, GrantsBasics DEF SuccessorsOf
    <3> QED BY <3>1, <3>2, <3>3 DEF GrantsInv, OneSuccessor
  <2> QED BY <2>1, <2>2
<1> QED BY <1>7, <1>8, <1>9, <1>10, <1>11, <1>12 DEF GrantsInv

\* a write to a pair that is there, by the call that makes it or by its expiry
LEMMA GrantsSaveRefresh == ASSUME GrantsInv, NEW p \in Poster, SaveRefresh(p) PROVE GrantsInv'
<1> DEFINE to == poster[p].to
           s == poster[p].from
           at == IF s = TheCode THEN "answer" ELSE "delete"
<1>1. /\ GrantsShape /\ poster[p].at = "refresh" /\ to \in DOMAIN grants /\ grants[to].from = s
      /\ ~grants[to].answered /\ s \in Source
      /\ (s # TheCode => s \in DOMAIN grants /\ grants[s].answered)
      /\ grants' = [grants EXCEPT ![to].refresh = "stored"] /\ UNCHANGED <<code, contested>>
  BY GrantsBasics DEF GrantsInv, SaveRefresh, PosterSane, Issuing, PosterState
<1>2. /\ poster' \in [Poster -> PosterState]
      /\ \A q \in Poster : q # p => poster'[q] = poster[q]
      /\ poster'[p].at = at /\ poster'[p].from = s /\ poster'[p].to = to
  BY <1>1, PosterMoved DEF SaveRefresh, PosterPhase
<1> HIDE DEF s, to
<1>3. /\ grants' \in Seq(Grant) /\ Len(grants') = Len(grants) /\ DOMAIN grants' = DOMAIN grants
      /\ \A h \in DOMAIN grants : /\ h # to => grants'[h] = grants[h]
                                  /\ grants'[h].of = grants[h].of /\ grants'[h].from = grants[h].from
                                  /\ grants[h].answered => grants'[h].answered
                                  /\ grants[h].refresh # "unsaved" => grants'[h].refresh # "unsaved"
      /\ \A t \in Source : SuccessorsOf(t)' = SuccessorsOf(t)
  BY <1>1, GrantEdited
<1>4. grants'[to].refresh = "stored" /\ grants'[to].answered = grants[to].answered
  BY <1>1, GrantsBasics DEF Grant, GrantsShape
<1>5. GrantsShape' /\ BindingsOK'
  BY <1>1, <1>2, <1>3 DEF GrantsInv, GrantsShape, BindingsOK
<1>6. PosterSane' /\ OwnTarget'
  <2>1. \A q \in Poster : poster'[q].to = poster[q].to /\ (Issuing(q)' <=> Issuing(q))
    BY <1>1, <1>2 DEF Issuing, to
  <2>2. OwnTarget'
    BY <2>1 DEF GrantsInv, OwnTarget
  <2>3. ASSUME NEW q \in Poster, q # p, Issuing(q) PROVE poster[q].to # to
    BY <1>1, <2>3 DEF GrantsInv, OwnTarget, Issuing, to
  <2>4. PosterSane'
    BY <1>1, <1>2, <1>3, <1>4, <2>1, <2>3 DEF GrantsInv, PosterSane, Issuing
  <2> QED BY <2>2, <2>4
<1>7. SourcesSpent'
  BY <1>1, <1>3, GrantsBasics DEF GrantsInv, SourcesSpent
<1>8. RotatedReplaced'
  BY <1>1, <1>3, <1>4, GrantsBasics DEF GrantsInv, RotatedReplaced, SuccessorsOf
<1>9. ASSUME NEW t \in Source
      PROVE  Using(t)' = IF t = TheCode THEN Using(t) \ {p} ELSE Using(t)
  BY <1>1, <1>2 DEF Using, s
<1>10. OneUser'
  BY <1>1, <1>9 DEF GrantsInv, OneUser
<1>11. OneSuccessor'
  <2> SUFFICES ASSUME NEW t \in Source, t \notin contested
               PROVE  /\ \A g, h \in SuccessorsOf(t)' : g = h
                      /\ \A q \in Using(t)' : poster'[q].at \in {"consume", "access"} => SuccessorsOf(t)' = {}
                      /\ t # TheCode /\ SuccessorsOf(t)' # {} =>
                           (\E q \in Using(t)' : poster'[q].at \in {"refresh", "delete"}) \/ grants'[t].refresh # "stored"
    BY <1>1 DEF OneSuccessor
  <2>1. SuccessorsOf(t)' = SuccessorsOf(t) /\ Using(t)' \subseteq Using(t)
    BY <1>3, <1>9
  <2>2. ASSUME NEW q \in Using(t)', poster'[q].at \in {"consume", "access"} PROVE SuccessorsOf(t) = {}
    BY <1>2, <2>1, <2>2 DEF GrantsInv, OneSuccessor, Using
  <2>3. ASSUME t # TheCode, SuccessorsOf(t) # {}, ~ (\E q \in Using(t)' : poster'[q].at \in {"refresh", "delete"})
        PROVE  grants'[t].refresh # "stored"
    <3>1. ~ \E q \in Using(t) : poster[q].at \in {"refresh", "delete"}
      BY <1>1, <1>2, <1>9, <2>3 DEF Using, s
    <3>2. grants[t].refresh # "stored" /\ t \in DOMAIN grants
      BY <1>1, <2>3, <3>1, GrantsBasics DEF GrantsInv, OneSuccessor, SuccessorsOf
    <3>3. t # to
      BY <1>1, <2>3, GrantsBasics DEF GrantsInv, SourcesSpent, SuccessorsOf
    <3> QED BY <1>3, <3>2, <3>3
  <2>4. \A g, h \in SuccessorsOf(t) : g = h
    BY DEF GrantsInv, OneSuccessor
  <2> QED BY <2>1, <2>2, <2>3, <2>4
<1> QED BY <1>5, <1>6, <1>7, <1>8, <1>10, <1>11 DEF GrantsInv

LEMMA GrantsDeleteOld == ASSUME GrantsInv, NEW p \in Poster, DeleteOld(p) PROVE GrantsInv'
<1> DEFINE s == poster[p].from
<1>1. /\ GrantsShape /\ poster[p].at = "delete" /\ s \in DOMAIN grants /\ s \in Source /\ s # TheCode
      /\ poster[p].to \in SuccessorsOf(s) /\ grants[poster[p].to].refresh # "unsaved"
      /\ UNCHANGED code
  BY GrantsBasics DEF GrantsInv, DeleteOld, PosterSane, Issuing, PosterState, SuccessorsOf
<1>2. /\ poster' \in [Poster -> PosterState]
      /\ \A q \in Poster : q # p => poster'[q] = poster[q]
      /\ poster'[p].at = "answer" /\ poster'[p].from = s /\ poster'[p].to = poster[p].to
  BY <1>1, PosterMoved DEF DeleteOld, PosterPhase
<1>3. /\ DOMAIN grants' = DOMAIN grants /\ grants' \in Seq(Grant) /\ Len(grants') = Len(grants)
      /\ \A h \in DOMAIN grants : /\ h # s => grants'[h] = grants[h]
                                  /\ grants'[h].of = grants[h].of /\ grants'[h].from = grants[h].from
                                  /\ grants[h].answered => grants'[h].answered
                                  /\ grants[h].refresh # "unsaved" => grants'[h].refresh # "unsaved"
                                  /\ grants[h].refresh # "stored" => grants'[h].refresh = grants[h].refresh
      /\ \A t \in Source : SuccessorsOf(t)' = SuccessorsOf(t)
      /\ \A h \in DOMAIN grants : grants'[h].answered = grants[h].answered
      /\ contested' = contested \/ contested' = contested \cup {s}
      /\ s \in contested' \/ grants'[s].refresh # "stored"
  <2>1. CASE grants[s].refresh = "stored" /\ grants' = [grants EXCEPT ![s].refresh = "rotated"]
             /\ contested' = contested
    <3>1. grants'[s].refresh = "rotated" /\ grants'[s].answered = grants[s].answered
      BY <1>1, <2>1, GrantsBasics DEF Grant, GrantsShape
    <3> HIDE DEF s
    <3>2. /\ grants' \in Seq(Grant) /\ Len(grants') = Len(grants) /\ DOMAIN grants' = DOMAIN grants
          /\ \A h \in DOMAIN grants : /\ h # s => grants'[h] = grants[h]
                                      /\ grants'[h].of = grants[h].of /\ grants'[h].from = grants[h].from
                                      /\ grants[h].answered => grants'[h].answered
                                      /\ grants[h].refresh # "unsaved" => grants'[h].refresh # "unsaved"
          /\ \A t \in Source : SuccessorsOf(t)' = SuccessorsOf(t)
      BY <1>1, <2>1, GrantEdited
    <3> QED BY <2>1, <3>1, <3>2
  <2>2. CASE grants' = grants /\ (contested' = contested \cup {s} \/ (grants[s].refresh # "stored" /\ contested' = contested))
    BY <1>1, <2>2 DEF SuccessorsOf, GrantsShape
  <2>3. grants[s].refresh # "stored" => [grants EXCEPT ![s].refresh = IF @ = "stored" THEN "rotated" ELSE @] = grants
    BY <1>1, GrantsBasics DEF Grant, GrantsShape
  <2>4. grants[s].refresh = "stored" =>
          [grants EXCEPT ![s].refresh = IF @ = "stored" THEN "rotated" ELSE @] = [grants EXCEPT ![s].refresh = "rotated"]
    OBVIOUS
  <2> QED BY <2>1, <2>2, <2>3, <2>4 DEF DeleteOld
<1> HIDE DEF s
<1>4. GrantsShape' /\ BindingsOK'
  BY <1>1, <1>2, <1>3 DEF GrantsInv, GrantsShape, BindingsOK
<1>5. PosterSane' /\ OwnTarget'
  BY <1>1, <1>2, <1>3 DEF GrantsInv, PosterSane, OwnTarget, Issuing, s
<1>6. SourcesSpent'
  BY <1>1, <1>3, GrantsBasics DEF GrantsInv, SourcesSpent
<1>7. RotatedReplaced'
  <2> SUFFICES ASSUME NEW g \in DOMAIN grants', grants'[g].refresh = "rotated"
               PROVE  \E h \in SuccessorsOf(g)' : grants'[h].refresh # "unsaved"
    BY DEF RotatedReplaced
  <2>1. g \in DOMAIN grants /\ g \in Source /\ SuccessorsOf(g)' = SuccessorsOf(g)
    BY <1>1, <1>3, GrantsBasics
  <2>2. PICK h \in SuccessorsOf(g) : grants[h].refresh # "unsaved"
    <3>1. CASE g = s
      BY <1>1, <3>1
    <3>2. CASE g # s
      BY <1>3, <2>1, <3>2 DEF GrantsInv, RotatedReplaced
    <3> QED BY <3>1, <3>2
  <2> QED BY <1>3, <2>1, <2>2 DEF SuccessorsOf
<1>8. ASSUME NEW t \in Source PROVE Using(t)' = Using(t) \ {p}
  BY <1>1, <1>2 DEF Using, s
<1>9. OneUser'
  BY <1>3, <1>8 DEF GrantsInv, OneUser
<1>10. OneSuccessor'
  <2> SUFFICES ASSUME NEW t \in Source, t \notin contested'
               PROVE  /\ \A g, h \in SuccessorsOf(t)' : g = h
                      /\ \A q \in Using(t)' : poster'[q].at \in {"consume", "access"} => SuccessorsOf(t)' = {}
                      /\ t # TheCode /\ SuccessorsOf(t)' # {} =>
                           (\E q \in Using(t)' : poster'[q].at \in {"refresh", "delete"}) \/ grants'[t].refresh # "stored"
    BY DEF OneSuccessor
  <2>1. t \notin contested /\ SuccessorsOf(t)' = SuccessorsOf(t) /\ Using(t)' = Using(t) \ {p}
    BY <1>3, <1>8
  <2>2. \A q \in Using(t)' : q \in Using(t) /\ poster'[q] = poster[q]
    BY <1>2, <2>1 DEF Using
  <2>3. CASE t = s
    BY <1>3, <2>1, <2>2, <2>3 DEF GrantsInv, OneSuccessor
  <2>4. CASE t # s
    <3>1. p \notin Using(t)
      BY <2>4 DEF Using, s
    <3>2. SuccessorsOf(t) # {} /\ t # TheCode => grants'[t] = grants[t]
      BY <1>1, <1>3, <2>4, GrantsBasics DEF SuccessorsOf
    <3> QED BY <2>1, <2>2, <3>1, <3>2 DEF GrantsInv, OneSuccessor
  <2> QED BY <2>3, <2>4
<1> QED BY <1>4, <1>5, <1>6, <1>7, <1>9, <1>10 DEF GrantsInv

LEMMA GrantsAnswer == ASSUME GrantsInv, NEW p \in Poster, AnswerTokens(p) PROVE GrantsInv'
<1> DEFINE to == poster[p].to
<1>1. /\ GrantsShape /\ poster[p].at = "answer" /\ to \in DOMAIN grants
      /\ grants' = [grants EXCEPT ![to].answered = TRUE] /\ UNCHANGED <<code, contested>>
  BY DEF GrantsInv, AnswerTokens, PosterSane, Issuing
<1>2. /\ poster' \in [Poster -> PosterState]
      /\ \A q \in Poster : q # p => poster'[q] = poster[q]
      /\ poster'[p].at = "idle"
  BY <1>1, PosterIsDone DEF AnswerTokens
<1> HIDE DEF to
<1>3. /\ grants' \in Seq(Grant) /\ Len(grants') = Len(grants) /\ DOMAIN grants' = DOMAIN grants
      /\ \A h \in DOMAIN grants : /\ h # to => grants'[h] = grants[h]
                                  /\ grants'[h].of = grants[h].of /\ grants'[h].from = grants[h].from
                                  /\ grants[h].answered => grants'[h].answered
                                  /\ grants[h].refresh # "unsaved" => grants'[h].refresh # "unsaved"
      /\ \A t \in Source : SuccessorsOf(t)' = SuccessorsOf(t)
  BY <1>1, GrantEdited
<1>4. \A h \in DOMAIN grants : grants'[h].refresh = grants[h].refresh
  <2>1. grants[to] \in Grant /\ grants \in Seq(Grant)
    BY <1>1, GrantsBasics DEF GrantsShape
  <2>2. grants'[to].refresh = grants[to].refresh
    BY <1>1, <2>1 DEF Grant
  <2> QED BY <1>3, <2>2
<1>5. GrantsShape' /\ BindingsOK'
  BY <1>1, <1>2, <1>3 DEF GrantsInv, GrantsShape, BindingsOK
<1>6. PosterSane' /\ OwnTarget'
  <2>1. \A q \in Poster : Issuing(q)' => q # p /\ Issuing(q) /\ poster'[q] = poster[q]
    BY <1>2 DEF Issuing
  <2>2. \A q \in Poster : Issuing(q)' => poster[q].to # to
    BY <1>1, <2>1 DEF GrantsInv, OwnTarget, Issuing, to
  <2>3. OwnTarget'
    BY <2>1 DEF GrantsInv, OwnTarget
  <2>4. PosterSane'
    BY <1>1, <1>2, <1>3, <1>4, <2>1, <2>2 DEF GrantsInv, PosterSane
  <2> QED BY <2>3, <2>4
<1>7. SourcesSpent' /\ RotatedReplaced'
  <2>1. SourcesSpent'
    BY <1>1, <1>3, GrantsBasics DEF GrantsInv, SourcesSpent
  <2>2. \A g \in DOMAIN grants : g \in Source
    BY <1>1, GrantsBasics
  <2>3. RotatedReplaced'
    BY <1>3, <1>4, <2>2 DEF GrantsInv, RotatedReplaced, SuccessorsOf
  <2> QED BY <2>1, <2>3
<1>8. ASSUME NEW t \in Source PROVE Using(t)' = Using(t) /\ \A q \in Using(t) : poster'[q] = poster[q]
  BY <1>1, <1>2 DEF Using
<1>9. OneUser'
  BY <1>1, <1>8 DEF GrantsInv, OneUser
<1>10. ASSUME NEW t \in Source, SuccessorsOf(t) # {}, t # TheCode PROVE t \in DOMAIN grants
  BY <1>1, <1>10, GrantsBasics DEF SuccessorsOf
<1>11. OneSuccessor'
  BY <1>1, <1>3, <1>4, <1>8, <1>10 DEF GrantsInv, OneSuccessor
<1> QED BY <1>5, <1>6, <1>7, <1>9, <1>11 DEF GrantsInv

LEMMA GrantsExpire == ASSUME GrantsInv, NEW g \in DOMAIN grants, RefreshExpires(g) PROVE GrantsInv'
<1>1. /\ GrantsShape /\ grants[g].refresh = "stored" /\ UNCHANGED <<code, poster, contested>>
      /\ grants' = [grants EXCEPT ![g].refresh = "expired"]
  BY DEF GrantsInv, RefreshExpires
<1>2. /\ grants' \in Seq(Grant) /\ Len(grants') = Len(grants) /\ DOMAIN grants' = DOMAIN grants
      /\ \A h \in DOMAIN grants : /\ h # g => grants'[h] = grants[h]
                                  /\ grants'[h].of = grants[h].of /\ grants'[h].from = grants[h].from
                                  /\ grants[h].answered => grants'[h].answered
                                  /\ grants[h].refresh # "unsaved" => grants'[h].refresh # "unsaved"
      /\ \A t \in Source : SuccessorsOf(t)' = SuccessorsOf(t)
  BY <1>1, GrantEdited
<1>3. grants'[g].refresh = "expired" /\ grants'[g].answered = grants[g].answered
  BY <1>1, GrantsBasics DEF Grant, GrantsShape
<1>4. GrantsShape' /\ BindingsOK'
  BY <1>1, <1>2 DEF GrantsInv, GrantsShape, BindingsOK
<1>5. PosterSane' /\ OwnTarget' /\ SourcesSpent'
  <2>1. PosterSane' /\ OwnTarget'
    BY <1>1, <1>2, <1>3 DEF GrantsInv, PosterSane, OwnTarget, Issuing
  <2>2. SourcesSpent'
    BY <1>1, <1>2, GrantsBasics DEF GrantsInv, SourcesSpent
  <2> QED BY <2>1, <2>2
<1>6. RotatedReplaced'
  <2>1. \A h \in DOMAIN grants : h \in Source
    BY <1>1, GrantsBasics
  <2> QED BY <1>2, <1>3, <2>1 DEF GrantsInv, RotatedReplaced, SuccessorsOf
<1>7. OneUser'
  BY <1>1 DEF GrantsInv, OneUser, Using
<1>8. OneSuccessor'
  <2>1. \A t \in Source : Using(t)' = Using(t)
    BY <1>1 DEF Using
  <2>2. ASSUME NEW t \in Source, SuccessorsOf(t) # {}, t # TheCode PROVE t \in DOMAIN grants
    BY <1>1, <2>2, GrantsBasics DEF SuccessorsOf
  <2> QED BY <1>1, <1>2, <1>3, <2>1, <2>2 DEF GrantsInv, OneSuccessor
<1> QED BY <1>4, <1>5, <1>6, <1>7, <1>8 DEF GrantsInv

LEMMA GrantsNextInv == GrantsInv /\ [OAuthGrantsNext]_oaVars => GrantsInv'
<1> SUFFICES ASSUME GrantsInv, [OAuthGrantsNext]_oaVars PROVE GrantsInv'
  OBVIOUS
<1>1. ASSUME CodeExpires PROVE GrantsInv'
  BY <1>1, GrantsCodeGone DEF CodeExpires
<1>2. ASSUME NEW p \in Poster,
             ConsumeCode(p) \/ SaveAccess(p) \/ SaveRefresh(p) \/ DeleteOld(p) \/ AnswerTokens(p) \/ PosterStops(p)
      PROVE GrantsInv'
  BY <1>2, GrantsConsume, GrantsSaveAccess, GrantsSaveRefresh, GrantsDeleteOld, GrantsAnswer, GrantsStops
<1>3. CASE UNCHANGED oaVars
  BY <1>3 DEF oaVars, GrantsInv, GrantsShape, BindingsOK, PosterSane, OwnTarget, SourcesSpent, OneUser,
              OneSuccessor, RotatedReplaced, Using, SuccessorsOf, Issuing
<1> QED BY <1>1, <1>2, <1>3, GrantsAuthorize, GrantsPost, GrantsExpire DEF OAuthGrantsNext

LEMMA GrantsInvariance == OAuthGrantsSpec => []GrantsInv
BY GrantsInitInv, GrantsNextInv, PTL DEF OAuthGrantsSpec

(***************************************************************************)
(* For any number of calls, refreshes and keys: a refresh token is deleted *)
(* only after its successor was written, and a source with two successors  *)
(* was read twice at once or outlived its use.                             *)
(***************************************************************************)
THEOREM Rotation == OAuthGrantsSpec => []RotationAccounted
<1>1. ASSUME GrantsInv PROVE RotationAccounted
  <2>1. ASSUME NEW s \in Source, s \notin contested PROVE ~(Cardinality(SuccessorsOf(s)) > 1)
    <3>1. \A g, h \in SuccessorsOf(s) : g = h
      BY <1>1, <2>1 DEF GrantsInv, OneSuccessor
    <3>2. CASE SuccessorsOf(s) = {}
      BY <3>2, FS_EmptySet
    <3>3. ASSUME NEW h \in SuccessorsOf(s) PROVE Cardinality(SuccessorsOf(s)) = 1
      <4>1. SuccessorsOf(s) = {h}
        BY <3>1
      <4> QED BY <4>1, FS_Singleton
    <3> QED BY <3>2, <3>3
  <2> QED BY <1>1, <2>1 DEF RotationAccounted, GrantsInv, RotatedReplaced
<1> QED BY <1>1, GrantsInvariance, PTL

(***************************************************************************)
(* Along any number of refreshes, whatever keys are shown with them, the   *)
(* key a request acts for is the one shown last, or the one its client id  *)
(* spells out after the one shown last was found unusable.                 *)
(***************************************************************************)
THEOREM ShownKeyActs == OAuthGrantsSpec => []ActsForShownKey
<1>1. ASSUME GrantsInv PROVE ActsForShownKey
  <2> SUFFICES ASSUME NEW g \in DOMAIN grants, NEW act \in MayActFor(grants[g].of)
               PROVE  \/ act.key = grants[g].of.shown
                      \/ act.key = OwnKey[grants[g].of.app] /\ grants[g].of.shown \in act.tried
    BY DEF ActsForShownKey
  <2>1. BindingOK(grants[g].of) /\ grants[g].of \in Binding
    BY <1>1, GrantsBasics DEF GrantsInv, BindingsOK, Grant
  <2> QED BY <2>1, AppAssumption DEF MayActFor, BindingOK, Binding, MaybeKey
<1> QED BY <1>1, GrantsInvariance, PTL

(***************************************************************************)
(* The pairs of an authorization are never more than MaxGrants, each made  *)
(* of the code or of an earlier pair, and once issued the code and all     *)
(* pairs are bound to one of the clients and to a key, if to any.          *)
(***************************************************************************)
THEOREM GrantsTypeCorrect == OAuthGrantsSpec => []OAuthGrantsTypeOK
<1> DEFINE CodeOK == code \in [is : {"stored", "gone"}, of : Binding] \cup {Unissued}
<1>1. OAuthGrantsInit => CodeOK
  BY DEF OAuthGrantsInit
<1>2. GrantsInv /\ CodeOK /\ [OAuthGrantsNext]_oaVars => CodeOK'
  <2> SUFFICES ASSUME GrantsInv, CodeOK, [OAuthGrantsNext]_oaVars PROVE CodeOK'
    OBVIOUS
  <2>1. CASE UNCHANGED code
    BY <2>1
  <2>2. ASSUME NEW a \in App, Authorize(a) PROVE CodeOK'
    <3>1. ASSUME NEW b \in MaybeKey, NEW k \in MaybeKey, NEW y \in BOOLEAN
          PROVE  [app |-> a, bound |-> b, isKey |-> y, shown |-> k] \in Binding
      BY DEF Binding
    <3>2. NoApiKey \in MaybeKey /\ \A k \in ApiKey : k \in MaybeKey
      BY DEF MaybeKey
    <3>3. ASSUME NEW of \in Found(a) PROVE of \in Binding
      BY <3>1, <3>2 DEF Found
    <3> QED BY <2>2, <3>3 DEF Authorize
  <2>3. ASSUME code' = [code EXCEPT !.is = "gone"], code.is # "unissued" PROVE CodeOK'
    <3>1. code \in [is : {"stored", "gone"}, of : Binding]
      BY <2>3 DEF Unissued
    <3>2. [code EXCEPT !.is = "gone"] \in [is : {"stored", "gone"}, of : Binding]
      <4> DEFINE B == Binding
      <4> HIDE DEF B
      <4>1. code \in [is : {"stored", "gone"}, of : B]
        BY <3>1 DEF B
      <4>2. [code EXCEPT !.is = "gone"] \in [is : {"stored", "gone"}, of : B]
        BY <4>1
      <4> QED BY <4>2 DEF B
    <3> QED BY <2>3, <3>2
  <2>4. \A p \in Poster : poster[p].at = "consume" => code.is # "unissued"
    BY DEF GrantsInv, PosterSane
  <2>5. UNCHANGED code \/ (\E a \in App : Authorize(a)) \/ CodeExpires \/ \E p \in Poster : ConsumeCode(p)
    BY Zenon DEF OAuthGrantsNext, oaVars, Post, SaveAccess, SaveRefresh, DeleteOld, AnswerTokens,
                 PosterStops, RefreshExpires
  <2>6. CASE CodeExpires
    BY <2>3, <2>6 DEF CodeExpires
  <2>7. ASSUME NEW p \in Poster, ConsumeCode(p) PROVE CodeOK'
    BY <2>1, <2>3, <2>4, <2>7 DEF ConsumeCode
  <2> QED BY <2>1, <2>2, <2>5, <2>6, <2>7
<1>3. GrantsInv /\ CodeOK => OAuthGrantsTypeOK
  BY DEF GrantsInv, GrantsShape, OAuthGrantsTypeOK
<1> HIDE DEF CodeOK
<1> QED BY <1>1, <1>2, <1>3, GrantsInitInv, GrantsNextInv, PTL DEF OAuthGrantsSpec

(***************************************************************************)
(* The shared breaker. The inductive invariant: a request that is about to *)
(* delete the opening time while the circuit has not been open for its     *)
(* time holds a reading that has been overtaken.                           *)
(***************************************************************************)
ExpiredOvertaken ==
  \A p \in Process : asking[p].at = "expired" /\ Fresh => p \in overtaken
BreakerInv == SharedBreakerTypeOK /\ ExpiredOvertaken

LEMMA AskMoved ==
  ASSUME SharedBreakerTypeOK, NEW p \in Process, NEW at \in AskPhase, AskTo(p, at)
  PROVE  /\ asking' \in [Process -> AskState] /\ asking'[p].at = at
         /\ \A q \in Process : q # p => asking'[q] = asking[q]
<1>1. AtRest \in AskState /\ AtRest.at = "idle"
  BY BreakerAssumption DEF AtRest, AskState, AskPhase, Instant
<1>2. asking[p] \in AskState /\ [asking[p] EXCEPT !.at = at] \in AskState
      /\ [asking[p] EXCEPT !.at = at].at = at
  BY DEF SharedBreakerTypeOK, AskState
<1> DEFINE r == IF at = "idle" THEN AtRest ELSE [asking[p] EXCEPT !.at = at]
<1>3. r \in AskState /\ r.at = at
  BY <1>1, <1>2
<1>4. asking' = [asking EXCEPT ![p] = r]
  BY DEF AskTo
<1> HIDE DEF r
<1> QED BY <1>3, <1>4 DEF SharedBreakerTypeOK

LEMMA BreakerInitInv == SharedBreakerInit => BreakerInv
<1>1. AtRest \in AskState /\ 0 \in Instant
  BY BreakerAssumption DEF AtRest, AskState, AskPhase, Instant
<1>2. <<>> \in Seq(Instant) /\ Len(<<>>) = 0
  OBVIOUS
<1> QED BY <1>1, <1>2, BreakerAssumption
        DEF SharedBreakerInit, BreakerInv, SharedBreakerTypeOK, ExpiredOvertaken, AtRest, Fresh

LEMMA BreakerTypeStep == SharedBreakerTypeOK /\ [SharedBreakerNext]_sbVars => SharedBreakerTypeOK'
<1> SUFFICES ASSUME SharedBreakerTypeOK, [SharedBreakerNext]_sbVars PROVE SharedBreakerTypeOK'
  OBVIOUS
<1> USE DEF SharedBreakerTypeOK
<1>1. CASE TimePasses
  BY <1>1, BreakerAssumption DEF TimePasses, Instant
<1>2. ASSUME NEW p \in Process, BeginAsk(p) PROVE SharedBreakerTypeOK'
  BY <1>2 DEF BeginAsk, AskState, AskPhase
<1>3. ASSUME NEW p \in Process, ReadOpened(p) \/ HalfOpen(p) \/ CountFailures(p) \/ CommandFails(p)
                                \/ CloseCircuit(p)
      PROVE SharedBreakerTypeOK'
  BY <1>3, AskMoved DEF ReadOpened, HalfOpen, CountFailures, CommandFails, CloseCircuit, AskPhase
<1>4. ASSUME NEW p \in Process, PushFailure(p) PROVE SharedBreakerTypeOK'
  <2>1. asking[p].time \in Instant /\ asking' \in [Process -> AskState]
    BY <1>4, AskMoved DEF PushFailure, AskPhase, AskState
  <2>2. failedAt' \in Seq(Instant) /\ Len(failedAt') = Len(failedAt) + 1
    BY <1>4, <2>1 DEF PushFailure
  <2> QED BY <1>4, <2>1, <2>2, BreakerAssumption DEF PushFailure
<1>5. ASSUME NEW p \in Process, OpenCircuit(p) PROVE SharedBreakerTypeOK'
  <2>1. asking[p].time \in Instant /\ asking' \in [Process -> AskState]
    BY <1>5, AskMoved DEF OpenCircuit, AskPhase, AskState
  <2> QED BY <1>5, <2>1 DEF OpenCircuit
<1>6. ASSUME NEW p \in Process, ForgetFailures(p) PROVE SharedBreakerTypeOK'
  <2>1. <<>> \in Seq(Instant) /\ Len(<<>>) = 0
    OBVIOUS
  <2> QED BY <1>6, <2>1, AskMoved, BreakerAssumption DEF ForgetFailures, AskPhase
<1>7. CASE UNCHANGED sbVars
  BY <1>7 DEF sbVars
<1> QED BY <1>1, <1>2, <1>3, <1>4, <1>5, <1>6, <1>7 DEF SharedBreakerNext

LEMMA BreakerNextInv == BreakerInv /\ [SharedBreakerNext]_sbVars => BreakerInv'
<1> SUFFICES ASSUME BreakerInv, [SharedBreakerNext]_sbVars PROVE ExpiredOvertaken'
  BY BreakerTypeStep DEF BreakerInv
<1>0. /\ SharedBreakerTypeOK /\ now \in Int /\ openedAt \in Int /\ OpenFor \in Nat
      /\ \A p \in Process : asking[p].at = "expired" /\ Fresh => p \in overtaken
  BY BreakerAssumption DEF BreakerInv, ExpiredOvertaken, SharedBreakerTypeOK, Instant, NotOpen
<1>1. CASE TimePasses
  BY <1>0, <1>1 DEF TimePasses, ExpiredOvertaken, Fresh
<1>2. ASSUME NEW p \in Process, BeginAsk(p) PROVE ExpiredOvertaken'
  <2>1. /\ \A q \in Process : q # p => asking'[q] = asking[q]
        /\ asking'[p].at # "expired"
    BY <1>0, <1>2 DEF BeginAsk, SharedBreakerTypeOK
  <2> QED BY <1>0, <1>2, <2>1 DEF BeginAsk, ExpiredOvertaken, Fresh
<1>3. ASSUME NEW p \in Process, ReadOpened(p) PROVE ExpiredOvertaken'
  <2>1. /\ \A q \in Process : q # p => asking'[q] = asking[q]
        /\ asking'[p].at = "expired" => RunOut(openedAt)
    BY <1>0, <1>3, AskMoved DEF ReadOpened, AskPhase
  <2> QED BY <1>0, <1>3, <2>1 DEF ReadOpened, ExpiredOvertaken, Fresh, RunOut
<1>4. ASSUME NEW p \in Process, HalfOpen(p) \/ CloseCircuit(p) PROVE ExpiredOvertaken'
  BY <1>4 DEF HalfOpen, CloseCircuit, ExpiredOvertaken, Fresh
<1>5. ASSUME NEW p \in Process, PushFailure(p) \/ CountFailures(p) \/ ForgetFailures(p) \/ CommandFails(p)
      PROVE ExpiredOvertaken'
  <2>1. /\ \A q \in Process : q # p => asking'[q] = asking[q]
        /\ asking'[p].at # "expired"
        /\ overtaken' = overtaken \/ overtaken' = overtaken \ {p}
    BY <1>0, <1>5, AskMoved DEF PushFailure, CountFailures, ForgetFailures, CommandFails, AskPhase
  <2> QED BY <1>0, <1>5, <2>1
          DEF PushFailure, CountFailures, ForgetFailures, CommandFails, ExpiredOvertaken, Fresh
<1>6. ASSUME NEW p \in Process, OpenCircuit(p) PROVE ExpiredOvertaken'
  <2>1. /\ \A q \in Process : q # p => asking'[q] = asking[q]
        /\ asking'[p].at = "idle"
    BY <1>0, <1>6, AskMoved DEF OpenCircuit, AskPhase
  <2> QED BY <1>6, <2>1 DEF OpenCircuit, ExpiredOvertaken
<1>7. CASE UNCHANGED sbVars
  BY <1>0, <1>7 DEF sbVars, ExpiredOvertaken, Fresh
<1> QED BY <1>1, <1>2, <1>3, <1>4, <1>5, <1>6, <1>7 DEF SharedBreakerNext

\* who clears the opening time of a circuit that has not been open for its time
LEMMA BreakerTripped ==
  ASSUME BreakerInv, SharedBreakerNext, Fresh, openedAt' = NotOpen
  PROVE  \E p \in Process : \/ asking[p].at = "succeeds" /\ asking'[p].at = "forgets"
                            \/ p \in overtaken /\ asking'[p].at = "idle"
<1>1. openedAt # NotOpen
  BY DEF Fresh
<1>2. PICK p \in Process : HalfOpen(p) \/ OpenCircuit(p) \/ CloseCircuit(p)
  BY <1>1 DEF SharedBreakerNext, TimePasses, BeginAsk, ReadOpened, PushFailure, CountFailures,
              ForgetFailures, CommandFails
<1>3. CASE HalfOpen(p)
  BY <1>3, AskMoved DEF HalfOpen, BreakerInv, ExpiredOvertaken, AskPhase
<1>4. CASE OpenCircuit(p)
  <2>1. asking[p].time \in Instant
    BY DEF BreakerInv, SharedBreakerTypeOK, AskState
  <2> QED BY <1>4, <2>1, BreakerAssumption DEF OpenCircuit, NotOpen, Instant
<1>5. CASE CloseCircuit(p)
  BY <1>5, AskMoved DEF CloseCircuit, BreakerInv, AskPhase
<1> QED BY <1>2, <1>3, <1>4, <1>5

(***************************************************************************)
(* However the processes' commands interleave and fail, for any number of  *)
(* requests and any threshold, window and opening time, a circuit is       *)
(* closed before its time only by a success or an overtaken try.           *)
(***************************************************************************)
THEOREM TripHeld == SharedBreakerSpec => TripHolds
<1> DEFINE Step == Fresh /\ openedAt' = NotOpen =>
                     \E p \in Process : \/ asking[p].at = "succeeds" /\ asking'[p].at = "forgets"
                                        \/ p \in overtaken /\ asking'[p].at = "idle"
<1>1. BreakerInv /\ [SharedBreakerNext]_sbVars => [Step]_sbVars
  BY BreakerTripped
<1> HIDE DEF Step
<1>2. SharedBreakerSpec => [][Step]_sbVars
  BY <1>1, BreakerInitInv, BreakerNextInv, PTL DEF SharedBreakerSpec
<1> QED BY <1>2 DEF TripHolds, Step

(***************************************************************************)
(* The failures Redis keeps are never more than MaxFailures.               *)
(***************************************************************************)
THEOREM BreakerTypeCorrect == SharedBreakerSpec => []SharedBreakerTypeOK
<1>1. BreakerInv => SharedBreakerTypeOK
  BY DEF BreakerInv
<1> QED BY <1>1, BreakerInitInv, BreakerNextInv, PTL DEF SharedBreakerSpec
=============================================================================
