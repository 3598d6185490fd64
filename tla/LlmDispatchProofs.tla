------------------------- MODULE LlmDispatchProofs -------------------------
(***************************************************************************)
(* Theorems about LlmDispatch for any number of calls, providers and slots:*)
(* type correctness, the accounting of the semaphores, the breaker's       *)
(* evidence, and that the dispatcher implements the abstract slot pool.    *)
(***************************************************************************)
EXTENDS LlmDispatch, FiniteSetTheorems, SequenceTheorems, TLAPS

\* An element taken out of a sequence: the ones behind it move up.
LEMMA RemoveAtProperties ==
  ASSUME NEW S, NEW q \in Seq(S), NEW i \in DOMAIN q
  PROVE  /\ RemoveAt(q, i) \in Seq(S)
         /\ Len(RemoveAt(q, i)) = Len(q) - 1
         /\ \A j \in 1..Len(q)-1 : RemoveAt(q, i)[j] = IF j < i THEN q[j] ELSE q[j + 1]
<1> DEFINE a == SubSeq(q, 1, i - 1)
           b == SubSeq(q, i + 1, Len(q))
<1>1. Len(q) \in Nat /\ DOMAIN q = 1..Len(q) /\ i \in 1..Len(q)
  BY LenProperties
<1>2. /\ a \in Seq(S) /\ Len(a) = i - 1
      /\ \A j \in 1..i-1 : a[j] = q[j]
  BY <1>1, SubSeqProperties, SMTT(30)
<1>3. /\ b \in Seq(S) /\ Len(b) = Len(q) - i
      /\ \A j \in 1..Len(q)-i : b[j] = q[i + j]
  BY <1>1, SubSeqProperties, SMTT(30)
<1>4. /\ a \o b \in Seq(S) /\ Len(a \o b) = Len(q) - 1
      /\ \A j \in 1..Len(q)-1 : (a \o b)[j] = IF j < i THEN q[j] ELSE q[j + 1]
  <2>1. a \o b \in Seq(S) /\ Len(a \o b) = Len(a) + Len(b)
    BY <1>2, <1>3, ConcatProperties
  <2>2. \A j \in 1..Len(a)+Len(b) : (a \o b)[j] = IF j <= Len(a) THEN a[j] ELSE b[j - Len(a)]
    BY <1>2, <1>3, ConcatProperties
  <2>3. Len(a) + Len(b) = Len(q) - 1
    BY <1>1, <1>2, <1>3
  <2>4. ASSUME NEW j \in 1..Len(q)-1
        PROVE  (a \o b)[j] = IF j < i THEN q[j] ELSE q[j + 1]
    <3>1. CASE j < i
      <4>1. j \in 1..i-1 /\ j <= Len(a) /\ j \in 1..Len(a)+Len(b)
        BY <1>1, <1>2, <2>3, <3>1
      <4> QED
        BY <1>2, <2>2, <3>1, <4>1
    <3>2. CASE ~(j < i)
      <4>1. /\ ~(j <= Len(a)) /\ j \in 1..Len(a)+Len(b)
            /\ j - Len(a) \in 1..Len(q)-i /\ i + (j - Len(a)) = j + 1
        <5> HIDE DEF a, b
        <5> QED
          BY <1>1, <1>2, <2>3, <3>2
      <4>2. (a \o b)[j] = b[j - Len(a)]
        BY <2>2, <4>1
      <4>3. b[j - Len(a)] = q[j + 1]
        BY <1>3, <4>1
      <4> QED
        BY <3>2, <4>2, <4>3
    <3> QED
      BY <3>1, <3>2
  <2> QED
    BY <2>1, <2>3, <2>4
<1> QED
  BY <1>4 DEF RemoveAt

(***************************************************************************)
(* A queue without repetitions: what joining it, leaving it and serving    *)
(* its head do to the set of those in it.                                  *)
(***************************************************************************)
Distinct(q) == \A i, j \in DOMAIN q : q[i] = q[j] => i = j

LEMMA AppendSet ==
  ASSUME NEW S, NEW q \in Seq(S), NEW e \in S, e \notin ToSet(q), Distinct(q)
  PROVE  ToSet(Append(q, e)) = ToSet(q) \cup {e} /\ Distinct(Append(q, e))
<1> DEFINE n == Len(q)
           r == Append(q, e)
<1>1. /\ n \in Nat /\ DOMAIN q = 1..n /\ DOMAIN r = 1..n+1
      /\ r[n + 1] = e /\ \A i \in 1..n : r[i] = q[i]
  OBVIOUS
<1>2. \A i \in 1..n+1 : i = n + 1 \/ i \in 1..n
  BY <1>1
<1>3. \A i \in 1..n : q[i] # e
  BY <1>1 DEF ToSet
<1> HIDE DEF r, n
<1>4. ToSet(r) = ToSet(q) \cup {e}
  <2>1. \A i \in 1..n : i \in 1..n+1
    BY <1>1
  <2>2. n + 1 \in 1..n+1
    BY <1>1
  <2> QED
    BY <1>1, <1>2, <2>1, <2>2, Zenon DEF ToSet
<1>5. Distinct(r)
  <2> SUFFICES ASSUME NEW i \in 1..n+1, NEW j \in 1..n+1, r[i] = r[j] PROVE i = j
    BY <1>1 DEF Distinct
  <2> QED
    BY <1>1, <1>2, <1>3 DEF Distinct
<1> QED
  BY <1>4, <1>5 DEF r

LEMMA RemoveAtSet ==
  ASSUME NEW S, NEW q \in Seq(S), NEW k \in DOMAIN q, Distinct(q)
  PROVE  ToSet(RemoveAt(q, k)) = ToSet(q) \ {q[k]} /\ Distinct(RemoveAt(q, k))
<1> DEFINE n == Len(q)
           r == RemoveAt(q, k)
<1>1. /\ n \in Nat /\ DOMAIN q = 1..n /\ k \in 1..n
  OBVIOUS
<1>2. r \in Seq(S) /\ Len(r) = n - 1
  BY RemoveAtProperties
<1>3. \A j \in 1..n-1 : r[j] = IF j < k THEN q[j] ELSE q[j + 1]
  BY RemoveAtProperties
<1> HIDE DEF r
<1>4. DOMAIN r = 1..n-1
  BY <1>1, <1>2
<1> HIDE DEF n
<1>5. \A i, j \in 1..n : q[i] = q[j] => i = j
  BY <1>1 DEF Distinct
<1>6. ASSUME NEW j \in 1..n-1
      PROVE  \E i \in 1..n : r[j] = q[i] /\ i # k
  <2>1. CASE j < k
    BY <1>1, <1>3, <2>1
  <2>2. CASE ~(j < k)
    <3>1. j + 1 \in 1..n /\ j + 1 # k
      BY <1>1, <2>2
    <3> QED
      BY <1>3, <2>2, <3>1
  <2> QED
    BY <2>1, <2>2
<1>7. ASSUME NEW i \in 1..n, i # k
      PROVE  \E j \in 1..n-1 : r[j] = q[i]
  <2>1. CASE i < k
    BY <1>1, <1>3, <2>1
  <2>2. CASE ~(i < k)
    <3>1. i - 1 \in 1..n-1 /\ ~(i - 1 < k) /\ (i - 1) + 1 = i
      BY <1>1, <1>7, <2>2
    <3> QED
      BY <1>3, <3>1
  <2> QED
    BY <2>1, <2>2
<1>8. ToSet(r) = ToSet(q) \ {q[k]}
  <2>1. ASSUME NEW e \in ToSet(r) PROVE e \in ToSet(q) \ {q[k]}
    <3>1. PICK j \in 1..n-1 : e = r[j]
      BY <1>4 DEF ToSet
    <3>2. PICK i \in 1..n : r[j] = q[i] /\ i # k
      BY <1>6
    <3> QED
      BY <1>1, <1>5, <3>1, <3>2 DEF ToSet
  <2>2. ASSUME NEW e \in ToSet(q) \ {q[k]} PROVE e \in ToSet(r)
    <3>1. PICK i \in 1..n : e = q[i]
      BY <1>1 DEF ToSet
    <3>2. PICK j \in 1..n-1 : r[j] = q[i]
      BY <1>7, <3>1
    <3> QED
      BY <1>4, <3>1, <3>2 DEF ToSet
  <2> QED
    BY <2>1, <2>2
<1>9. Distinct(r)
  <2> SUFFICES ASSUME NEW i \in 1..n-1, NEW j \in 1..n-1, r[i] = r[j] PROVE i = j
    BY <1>4 DEF Distinct
  <2> DEFINE up(x) == IF x < k THEN x ELSE x + 1
  <2>1. up(i) \in 1..n /\ up(j) \in 1..n /\ (up(i) = up(j) => i = j)
    BY <1>1
  <2>2. r[i] = q[up(i)] /\ r[j] = q[up(j)]
    BY <1>3
  <2> QED
    BY <1>5, <2>1, <2>2
<1> QED
  BY <1>8, <1>9 DEF r

LEMMA TailSet ==
  ASSUME NEW S, NEW q \in Seq(S), q # <<>>, Distinct(q)
  PROVE  /\ ToSet(Tail(q)) = ToSet(q) \ {Head(q)} /\ Distinct(Tail(q))
         /\ Tail(q) \in Seq(S)
<1> DEFINE n == Len(q)
           r == Tail(q)
<1>1. /\ n \in Nat /\ DOMAIN q = 1..n /\ 1 \in 1..n /\ Head(q) = q[1]
      /\ r \in Seq(S) /\ DOMAIN r = 1..n-1 /\ \A i \in 1..n-1 : r[i] = q[i + 1]
  OBVIOUS
<1> HIDE DEF r, n
<1>2. \A i, j \in 1..n : q[i] = q[j] => i = j
  BY <1>1 DEF Distinct
<1>3. ToSet(r) = ToSet(q) \ {q[1]}
  <2>1. ASSUME NEW e \in ToSet(r) PROVE e \in ToSet(q) \ {q[1]}
    <3>1. PICK j \in 1..n-1 : e = r[j]
      BY <1>1 DEF ToSet
    <3>2. j + 1 \in 1..n /\ j + 1 # 1
      BY <1>1
    <3>3. e = q[j + 1] /\ q[j + 1] # q[1]
      BY <1>1, <1>2, <3>1, <3>2
    <3> QED
      BY <1>1, <3>2, <3>3 DEF ToSet
  <2>2. ASSUME NEW e \in ToSet(q) \ {q[1]} PROVE e \in ToSet(r)
    <3>1. PICK i \in 1..n : e = q[i] /\ i # 1
      BY <1>1 DEF ToSet
    <3>2. i - 1 \in 1..n-1 /\ (i - 1) + 1 = i
      BY <1>1, <3>1
    <3> QED
      BY <1>1, <3>1, <3>2 DEF ToSet
  <2> QED
    BY <2>1, <2>2
<1>4. Distinct(r)
  <2> SUFFICES ASSUME NEW i \in 1..n-1, NEW j \in 1..n-1, r[i] = r[j] PROVE i = j
    BY <1>1 DEF Distinct
  <2>1. i + 1 \in 1..n /\ j + 1 \in 1..n /\ q[i + 1] = q[j + 1]
    BY <1>1
  <2> QED
    BY <1>2, <2>1
<1> QED
  BY <1>1, <1>3, <1>4 DEF r

-----------------------------------------------------------------------------
(* Type correctness.                                                       *)

USE DEF ProviderKind

LEMMA TypeInit == Init => TypeOK
BY ThresholdAssumption DEF Init, TypeOK, Idle, Task

(***************************************************************************)
(* The inductive invariant. That _active stays a natural number, and that  *)
(* the first waiter has an entry to go on with, follow only from the       *)
(* accounting, so the two are one invariant.                               *)
(***************************************************************************)
SlotInv == TypeOK /\ SlotsAccounted

LEMMA HoldersFinite ==
  \A s \in SemKey : IsFiniteSet(Holders(s)) /\ Cardinality(Holders(s)) \in Nat
BY CallAssumption, FS_Subset, FS_CardinalityType DEF Holders

\* A call that has taken a slot is counted.
LEMMA HolderCounted ==
  ASSUME SlotInv, NEW c \in Call, Holds(c)
  PROVE  /\ SlotOf(c) \in SemKey
         /\ active[SlotOf(c)] \in Nat /\ active[SlotOf(c)] > 0
<1>1. SlotOf(c) \in SemKey
  BY ChainAssumption DEF SlotInv, TypeOK, Task, Holds, SlotOf, Entry
<1>2. c \in Holders(SlotOf(c))
  BY DEF Holders
<1>3. Cardinality(Holders(SlotOf(c))) # 0
  BY <1>1, <1>2, HoldersFinite, FS_EmptySet
<1> QED
  BY <1>1, <1>3, HoldersFinite DEF SlotInv, SlotsAccounted, SlotAccount

\* The first waiter of a semaphore waits for it.
LEMMA HeadWaits ==
  ASSUME SlotInv, NEW s \in SemKey, waiters[s] # <<>>
  PROVE  /\ Head(waiters[s]) \in Call
         /\ task[Head(waiters[s])].pc = "wait" /\ SlotOf(Head(waiters[s])) = s
<1>1. waiters[s] \in Seq(Call) /\ 1 \in DOMAIN waiters[s] /\ Head(waiters[s]) = waiters[s][1]
  BY DEF SlotInv, TypeOK
<1>2. Head(waiters[s]) \in ToSet(waiters[s])
  BY <1>1 DEF ToSet
<1> QED
  BY <1>2 DEF SlotInv, SlotsAccounted, SlotAccount, Waiting

(***************************************************************************)
(* The ways a step rewrites a call's record.                               *)
(***************************************************************************)
HasEntry(t) == t.pc \in {"wait", "held", "request", "leave"} => t.todo # <<>>

LEMMA TaskMoves ==
  ASSUME NEW t \in Task, NEW p \in {"build", "next", "wait", "held", "request", "leave"}
  PROVE  LET u == [t EXCEPT !.pc = p] IN u \in Task /\ u.pc = p /\ u.todo = t.todo
BY DEF Task

LEMMA TaskLate ==
  ASSUME NEW t \in Task
  PROVE  LET u == [t EXCEPT !.late = TRUE] IN u \in Task /\ u.pc = t.pc /\ u.todo = t.todo
BY DEF Task

LEMMA TaskChecked ==
  ASSUME NEW t \in Task, NEW q \in Seq(Provider)
  PROVE  LET u == [t EXCEPT !.at = t.at + 1, !.todo = q]
         IN  u \in Task /\ u.pc = t.pc /\ u.todo = q
<1>1. t.at + 1 \in Nat \ {0}
  BY DEF Task
<1> QED
  BY <1>1 DEF Task

LEMMA TaskGoesOn ==
  ASSUME NEW t \in Task, NEW q \in Seq(Provider)
  PROVE  LET u == [t EXCEPT !.pc = "next", !.todo = q]
         IN  u \in Task /\ u.pc = "next" /\ u.todo = q
BY DEF Task

LEMMA TaskLeaves ==
  ASSUME NEW t \in Task, NEW b \in BOOLEAN
  PROVE  LET u == [t EXCEPT !.pc = "leave", !.ok = b]
         IN  u \in Task /\ u.pc = "leave" /\ u.todo = t.todo
BY DEF Task

LEMMA IdleTask == Idle \in Task /\ Idle.pc = "idle"
BY DEF Idle, Task

\* What TypeOK says of one call.
LEMMA TaskFields ==
  ASSUME TypeOK, NEW c \in Call
  PROVE  /\ task[c] \in Task /\ HasEntry(task[c])
         /\ task[c].todo \in Seq(Provider)
         /\ task[c].todo # <<>> => /\ Tail(task[c].todo) \in Seq(Provider)
                                   /\ Entry(c) \in Provider /\ SlotOf(c) \in SemKey
                                   /\ NameOf[Entry(c)] \in Name
<1>1. task[c] \in Task /\ task[c].todo \in Seq(Provider)
  BY DEF TypeOK, Task
<1>2. HasEntry(task[c])
  BY DEF TypeOK, HasEntry
<1>3. task[c].todo # <<>> => /\ Tail(task[c].todo) \in Seq(Provider)
                            /\ Head(task[c].todo) \in Provider
  BY <1>1
<1> QED
  BY <1>1, <1>2, <1>3, ChainAssumption DEF Entry, SlotOf

LEMMA NextEntryType ==
  ASSUME TypeOK, NEW c \in Call, task[c].todo # <<>>
  PROVE  NextEntry(c) \in Task /\ NextEntry(c).pc = "next"
<1> DEFINE t == task[c]
           q == Tail(t.todo)
<1>1. t \in Task /\ q \in Seq(Provider)
  BY TaskFields
<1>2. LET u == [t EXCEPT !.pc = "next", !.todo = q] IN u \in Task /\ u.pc = "next"
  <2> HIDE DEF t, q
  <2> QED
    BY <1>1, TaskGoesOn
<1> QED
  BY <1>2 DEF NextEntry

LEMMA OnwardType ==
  ASSUME TypeOK, NEW c \in Call, task[c].todo # <<>>
  PROVE  Onward(c) \in Task /\ Onward(c).pc \in {"idle", "next"}
BY NextEntryType, IdleTask DEF Onward

(***************************************************************************)
(* What one action does to the calls: c's record is replaced by a proper   *)
(* one, every other record stays.                                          *)
(***************************************************************************)
Becomes(c, t) == /\ t \in Task /\ HasEntry(t)
                 /\ task' = [task EXCEPT ![c] = t]

LEMMA BecomesType ==
  ASSUME TypeOK, NEW c \in Call, NEW t, Becomes(c, t)
  PROVE  /\ task' \in [Call -> Task]
         /\ \A d \in Call : HasEntry(task[d])'
         /\ task'[c] = t
         /\ \A d \in Call \ {c} : task'[d] = task[d]
BY DEF TypeOK, Becomes, HasEntry

(***************************************************************************)
(* The steps that touch no semaphore: the call holds, waits for and asks   *)
(* for the same slot before and after, or none.                            *)
(***************************************************************************)
Outside == {"idle", "build", "next"}
Inside == {"held", "request", "leave"}

SameSlot(c, t) ==
  \/ t.pc = task[c].pc /\ t.todo = task[c].todo
  \/ t.pc \in Inside /\ task[c].pc \in Inside /\ t.todo = task[c].todo
  \/ t.pc \in Outside /\ task[c].pc \in Outside

LEMMA QuietStep ==
  ASSUME SlotInv, NEW c \in Call, NEW t, Becomes(c, t), SameSlot(c, t),
         UNCHANGED <<active, waiters>>
  PROVE  SlotsAccounted' /\ \A s \in SemKey : Holders(s)' = Holders(s)
<1>1. /\ task'[c] = t /\ \A d \in Call \ {c} : task'[d] = task[d]
  BY BecomesType DEF SlotInv
<1>2. \A s \in SemKey : Holders(s)' = Holders(s) /\ Waiting(s)' = Waiting(s)
  <2> SUFFICES ASSUME NEW s \in SemKey, NEW d \in Call
               PROVE  /\ (Holds(d) /\ SlotOf(d) = s)' <=> (Holds(d) /\ SlotOf(d) = s)
                      /\ (task[d].pc = "wait" /\ SlotOf(d) = s)'
                           <=> (task[d].pc = "wait" /\ SlotOf(d) = s)
    BY DEF Holders, Waiting
  <2>1. CASE d # c
    BY <1>1, <2>1 DEF Holds, SlotOf, Entry
  <2>2. CASE d = c
    BY <1>1, <2>2 DEF SameSlot, Outside, Inside, Holds, SlotOf, Entry
  <2> QED
    BY <2>1, <2>2
<1> QED
  BY <1>2 DEF SlotInv, SlotsAccounted, SlotAccount

(***************************************************************************)
(* Each of those steps is of that shape.                                   *)
(***************************************************************************)
QuietShape(c) == \E t : Becomes(c, t) /\ SameSlot(c, t)

LEMMA Quiet ==
  ASSUME SlotInv, NEW c \in Call,
         Start(c) \/ Expire(c) \/ Check(c) \/ Built(c) \/ Exhausted(c)
           \/ CallProvider(c) \/ Answer(c) \/ Refuse(c)
  PROVE  QuietShape(c) /\ UNCHANGED <<active, waiters>>
<1> DEFINE t == task[c]
<1>1. TypeOK /\ t \in Task /\ HasEntry(t) /\ task \in [Call -> Task]
  BY TaskFields DEF SlotInv, TypeOK
<1>2. CASE Start(c)
  <2> DEFINE u == [t EXCEPT !.pc = "build"]
  <2>1. u \in Task /\ u.pc = "build" /\ u.todo = t.todo
    BY <1>1, TaskMoves
  <2>2. task' = [task EXCEPT ![c] = u]
    BY <1>1, <1>2 DEF Start
  <2>3. Becomes(c, u) /\ SameSlot(c, u)
    BY <1>2, <2>1, <2>2 DEF Becomes, HasEntry, SameSlot, Outside, Start
  <2> QED
    BY <1>2, <2>3 DEF QuietShape, Start
<1>3. CASE Expire(c)
  <2> DEFINE u == [t EXCEPT !.late = TRUE]
  <2>1. u \in Task /\ u.pc = t.pc /\ u.todo = t.todo
    BY <1>1, TaskLate
  <2>2. task' = [task EXCEPT ![c] = u]
    BY <1>1, <1>3 DEF Expire
  <2>3. Becomes(c, u) /\ SameSlot(c, u)
    BY <1>1, <2>1, <2>2 DEF Becomes, HasEntry, SameSlot
  <2> QED
    BY <1>3, <2>3 DEF QuietShape, Expire
<1>4. CASE Check(c)
  <2> DEFINE p == Chain[t.at]
  <2>1. PICK usable \in BOOLEAN :
          task' = [task EXCEPT ![c] =
                    [@ EXCEPT !.at = t.at + 1, !.todo = IF usable THEN Append(t.todo, p) ELSE t.todo]]
    BY <1>4 DEF Check
  <2> DEFINE q == IF usable THEN Append(t.todo, p) ELSE t.todo
             u == [t EXCEPT !.at = t.at + 1, !.todo = q]
  <2>2. p \in Provider /\ t.todo \in Seq(Provider) /\ t.pc = "build"
    <3>1. t.at \in Nat \ {0} /\ t.at <= Len(Chain) /\ t.todo \in Seq(Provider)
      BY <1>1, <1>4 DEF Check, Task
    <3>2. t.pc = "build"
      BY <1>4 DEF Check
    <3> HIDE DEF t
    <3>3. Chain[t.at] \in Provider
      BY <3>1, ChainAssumption
    <3> QED
      BY <3>1, <3>2, <3>3
  <2>3. q \in Seq(Provider)
    BY <2>2
  <2>4. u \in Task /\ u.pc = t.pc /\ u.todo = q
    <3> HIDE DEF q, t
    <3> QED
      BY <1>1, <2>3, TaskChecked
  <2>5. task' = [task EXCEPT ![c] = u]
    BY <1>1, <2>1
  <2>6. Becomes(c, u) /\ SameSlot(c, u)
    BY <2>2, <2>4, <2>5 DEF Becomes, HasEntry, SameSlot, Outside
  <2> QED
    BY <1>4, <2>6 DEF QuietShape, Check
<1>5. CASE Built(c)
  <2> DEFINE v == [t EXCEPT !.pc = "next"]
             u == IF t.late \/ t.todo = <<>> THEN Idle ELSE v
  <2>1. v \in Task /\ v.pc = "next"
    BY <1>1, TaskMoves
  <2>2. u \in Task /\ u.pc \in {"idle", "next"}
    BY <2>1, IdleTask
  <2>3. task' = [task EXCEPT ![c] = u]
    BY <1>1, <1>5 DEF Built
  <2>4. Becomes(c, u) /\ SameSlot(c, u)
    <3> HIDE DEF u
    <3> QED
      BY <1>5, <2>2, <2>3 DEF Becomes, HasEntry, SameSlot, Outside, Built
  <2> QED
    BY <1>5, <2>4 DEF QuietShape, Built
<1>6. CASE Exhausted(c)
  <2>1. Becomes(c, Idle) /\ SameSlot(c, Idle)
    BY <1>6, IdleTask DEF Becomes, HasEntry, SameSlot, Outside, Exhausted
  <2> QED
    BY <1>6, <2>1 DEF QuietShape, Exhausted
<1>7. CASE CallProvider(c)
  <2> DEFINE v == [t EXCEPT !.pc = "leave", !.ok = FALSE]
             w == [t EXCEPT !.pc = "request"]
  <2>1. /\ v \in Task /\ v.pc = "leave" /\ v.todo = t.todo
        /\ w \in Task /\ w.pc = "request" /\ w.todo = t.todo
    BY <1>1, TaskLeaves, TaskMoves
  <2>2. task' = [task EXCEPT ![c] = v] \/ task' = [task EXCEPT ![c] = w]
    BY <1>1, <1>7 DEF CallProvider
  <2>3. t.pc = "held" /\ t.todo # <<>>
    BY <1>1, <1>7 DEF CallProvider, HasEntry
  <2>4. Becomes(c, v) \/ Becomes(c, w)
    BY <2>1, <2>2, <2>3 DEF Becomes, HasEntry
  <2>5. SameSlot(c, v) /\ SameSlot(c, w)
    BY <2>1, <2>3 DEF SameSlot, Inside
  <2> QED
    BY <1>7, <2>4, <2>5 DEF QuietShape, CallProvider
<1>8. ASSUME Answer(c) \/ Refuse(c)
      PROVE  QuietShape(c) /\ UNCHANGED <<active, waiters>>
  <2>1. PICK b \in BOOLEAN : task' = [task EXCEPT ![c] = [@ EXCEPT !.pc = "leave", !.ok = b]]
    BY <1>8 DEF Answer, Refuse
  <2> DEFINE u == [t EXCEPT !.pc = "leave", !.ok = b]
  <2>2. u \in Task /\ u.pc = "leave" /\ u.todo = t.todo
    BY <1>1, TaskLeaves
  <2>3. task' = [task EXCEPT ![c] = u]
    BY <1>1, <2>1
  <2>4. t.pc = "request" /\ t.todo # <<>>
    BY <1>1, <1>8 DEF Answer, Refuse, HasEntry
  <2>5. Becomes(c, u) /\ SameSlot(c, u)
    BY <2>2, <2>3, <2>4 DEF Becomes, HasEntry, SameSlot, Inside
  <2> QED
    BY <1>8, <2>5 DEF QuietShape, Answer, Refuse
<1> QED
  BY <1>2, <1>3, <1>4, <1>5, <1>6, <1>7, <1>8

(***************************************************************************)
(* What replacing one call's record does to the holders and the waiters.   *)
(***************************************************************************)
Taken(t, s) == t.pc \in Inside /\ Sem[Head(t.todo)] = s
Awaited(t, s) == t.pc = "wait" /\ Sem[Head(t.todo)] = s

LEMMA Moves ==
  ASSUME NEW c \in Call, NEW s
  PROVE  /\ c \in Holders(s) <=> Taken(task[c], s)
         /\ c \in Waiting(s) <=> Awaited(task[c], s)
         /\ c \in Holders(s)' <=> Taken(task'[c], s)
         /\ c \in Waiting(s)' <=> Awaited(task'[c], s)
BY DEF Holders, Waiting, Holds, SlotOf, Entry, Taken, Awaited, Inside

LEMMA OneMoves ==
  ASSUME NEW c \in Call, NEW u, task'[c] = u, \A d \in Call \ {c} : task'[d] = task[d],
         NEW s
  PROVE  /\ Holders(s)' = (Holders(s) \ {c}) \cup (IF Taken(u, s) THEN {c} ELSE {})
         /\ Waiting(s)' = (Waiting(s) \ {c}) \cup (IF Awaited(u, s) THEN {c} ELSE {})
<1>1. Holders(s)' \subseteq Call /\ Waiting(s)' \subseteq Call
      /\ Holders(s) \subseteq Call /\ Waiting(s) \subseteq Call
  BY DEF Holders, Waiting
<1>2. \A d \in Call \ {c} : /\ d \in Holders(s)' <=> d \in Holders(s)
                            /\ d \in Waiting(s)' <=> d \in Waiting(s)
  BY Moves
<1>3. /\ c \in Holders(s)' <=> Taken(u, s)
      /\ c \in Waiting(s)' <=> Awaited(u, s)
  BY Moves
<1> QED
  BY <1>1, <1>2, <1>3

(***************************************************************************)
(* acquire. A free slot is counted; without one the call joins the queue.  *)
(***************************************************************************)
Enters(c, s) ==
  /\ active[s] < Limit[s] /\ waiters[s] = <<>> /\ UNCHANGED waiters
  /\ \A r \in SemKey : Holders(r)' = Holders(r) \cup (IF r = s THEN {c} ELSE {})

Queues(c, s) ==
  /\ active[s] = Limit[s] /\ waiters' = [waiters EXCEPT ![s] = Append(@, c)]
  /\ \A r \in SemKey : Holders(r)' = Holders(r)

LEMMA AcquireStep ==
  ASSUME SlotInv, NEW c \in Call, Acquire(c)
  PROVE  /\ TypeOK' /\ SlotsAccounted'
         /\ SlotOf(c) \in SemKey /\ (Enters(c, SlotOf(c)) \/ Queues(c, SlotOf(c)))
<1> DEFINE t == task[c]
           s == SlotOf(c)
<1>1. /\ TypeOK /\ t \in Task /\ task \in [Call -> Task] /\ s \in SemKey
      /\ t.pc = "next" /\ t.todo # <<>>
  BY TaskFields DEF SlotInv, TypeOK, Acquire
<1>2. active[s] \in Nat /\ Limit[s] \in Nat /\ waiters[s] \in Seq(Call)
  BY <1>1, LimitAssumption DEF TypeOK
<1>3. \A r \in SemKey : SlotAccount(r)
  BY DEF SlotInv, SlotsAccounted
<1>4. \A r : ~Taken(t, r) /\ ~Awaited(t, r)
  BY <1>1 DEF Taken, Awaited, Inside
<1>5. \A r : c \notin Holders(r) /\ c \notin Waiting(r)
  BY <1>4, Moves
<1>6. CASE active[s] < Limit[s]
  <2> DEFINE u == [t EXCEPT !.pc = "held"]
  <2>1. u \in Task /\ u.pc = "held" /\ u.todo = t.todo
    BY <1>1, TaskMoves
  <2>2. task' = [task EXCEPT ![c] = u]
    BY <1>1, <1>6 DEF Acquire
  <2> HIDE DEF u
  <2>3. Becomes(c, u)
    BY <1>1, <2>1, <2>2 DEF Becomes, HasEntry
  <2>4. /\ task' \in [Call -> Task] /\ \A d \in Call : HasEntry(task[d])'
        /\ task'[c] = u /\ \A d \in Call \ {c} : task'[d] = task[d]
    BY <1>1, <2>3, BecomesType
  <2>5. /\ waiters' = waiters /\ active' = [active EXCEPT ![s] = @ + 1]
        /\ UNCHANGED <<failures, circuit, streak>>
    BY <1>6 DEF Acquire
  <2>6. TypeOK'
    BY <1>1, <1>2, <2>4, <2>5 DEF TypeOK, HasEntry
  <2>7. \A r : (Taken(u, r) <=> r = s) /\ ~Awaited(u, r)
    BY <2>1 DEF Taken, Awaited, Inside, SlotOf, Entry
  <2>8. \A r \in SemKey : /\ Holders(r)' = Holders(r) \cup (IF r = s THEN {c} ELSE {})
                          /\ Waiting(r)' = Waiting(r)
    <3> SUFFICES ASSUME NEW r \in SemKey
                 PROVE  /\ Holders(r)' = Holders(r) \cup (IF r = s THEN {c} ELSE {})
                        /\ Waiting(r)' = Waiting(r)
      OBVIOUS
    <3>1. /\ Holders(r)' = (Holders(r) \ {c}) \cup (IF Taken(u, r) THEN {c} ELSE {})
          /\ Waiting(r)' = (Waiting(r) \ {c}) \cup (IF Awaited(u, r) THEN {c} ELSE {})
      BY <2>4, OneMoves
    <3> QED
      BY <1>5, <2>7, <3>1
  <2>9. Cardinality(Holders(s) \cup {c}) = active[s] + 1
    <3>1. IsFiniteSet(Holders(s)) /\ c \notin Holders(s)
      BY <1>1, <1>5, HoldersFinite
    <3>2. Cardinality(Holders(s) \cup {c}) = Cardinality(Holders(s)) + 1
      BY <3>1, FS_AddElement
    <3> QED
      BY <1>1, <1>3, <3>2 DEF SlotAccount
  <2>10. waiters[s] = <<>>
    BY <1>1, <1>2, <1>3, <1>6 DEF SlotAccount
  <2>11. active'[s] = active[s] + 1 /\ \A r \in SemKey \ {s} : active'[r] = active[r]
    BY <1>1, <2>5 DEF TypeOK
  <2>12. ASSUME NEW r \in SemKey PROVE SlotAccount(r)'
    <3>1. CASE r = s
      <4>1. Holders(r)' = Holders(s) \cup {c}
        BY <1>1, <2>8, <3>1
      <4>2. active'[r] <= Limit[r]
        BY <1>2, <1>6, <2>11, <3>1
      <4> QED
        BY <1>1, <1>3, <2>5, <2>8, <2>9, <2>10, <2>11, <3>1, <4>1, <4>2 DEF SlotAccount
    <3>2. CASE r # s
      <4>1. Holders(r)' = Holders(r)
        BY <2>8, <3>2
      <4> QED
        BY <1>3, <2>5, <2>8, <2>11, <3>2, <4>1 DEF SlotAccount
    <3> QED
      BY <3>1, <3>2
  <2> QED
    BY <1>1, <1>6, <2>5, <2>6, <2>8, <2>10, <2>12 DEF SlotsAccounted, Enters
<1>7. CASE ~(active[s] < Limit[s])
  <2> DEFINE u == [t EXCEPT !.pc = "wait"]
             q == Append(waiters[s], c)
  <2>1. u \in Task /\ u.pc = "wait" /\ u.todo = t.todo
    BY <1>1, TaskMoves
  <2>2. task' = [task EXCEPT ![c] = u]
    BY <1>1, <1>7 DEF Acquire
  <2>3. /\ active' = active /\ waiters' = [waiters EXCEPT ![s] = q]
        /\ UNCHANGED <<failures, circuit, streak>>
    BY <1>7 DEF Acquire
  <2>4. q \in Seq(Call)
    BY <1>2
  <2>5. c \notin ToSet(waiters[s]) /\ Distinct(waiters[s])
    BY <1>1, <1>3, <1>5 DEF SlotAccount, Distinct
  <2>6. ToSet(q) = ToSet(waiters[s]) \cup {c} /\ Distinct(q)
    BY <1>2, <2>5, AppendSet
  <2> HIDE DEF u, q
  <2>7. Becomes(c, u)
    BY <1>1, <2>1, <2>2 DEF Becomes, HasEntry
  <2>8. /\ task' \in [Call -> Task] /\ \A d \in Call : HasEntry(task[d])'
        /\ task'[c] = u /\ \A d \in Call \ {c} : task'[d] = task[d]
    BY <1>1, <2>7, BecomesType
  <2>9. TypeOK'
    BY <1>1, <2>3, <2>4, <2>8 DEF TypeOK, HasEntry
  <2>10. \A r : (Awaited(u, r) <=> r = s) /\ ~Taken(u, r)
    BY <2>1 DEF Taken, Awaited, Inside, SlotOf, Entry
  <2>11. \A r \in SemKey : /\ Waiting(r)' = Waiting(r) \cup (IF r = s THEN {c} ELSE {})
                           /\ Holders(r)' = Holders(r)
    BY <1>5, <2>8, <2>10, OneMoves
  <2>12. active[s] = Limit[s]
    BY <1>1, <1>2, <1>3, <1>7 DEF SlotAccount
  <2>13. waiters'[s] = q /\ \A r \in SemKey \ {s} : waiters'[r] = waiters[r]
    BY <1>1, <2>3 DEF TypeOK
  <2>14. ASSUME NEW r \in SemKey PROVE SlotAccount(r)'
    <3>1. CASE r = s
      <4>1. Waiting(r)' = ToSet(q) /\ Holders(r)' = Holders(r)
        BY <1>1, <1>3, <2>6, <2>11, <3>1 DEF SlotAccount
      <4> QED
        BY <1>1, <1>3, <2>3, <2>6, <2>12, <2>13, <3>1, <4>1 DEF SlotAccount, Distinct
    <3>2. CASE r # s
      <4>1. Waiting(r)' = Waiting(r) /\ Holders(r)' = Holders(r)
        BY <2>11, <3>2
      <4> QED
        BY <1>3, <2>3, <2>13, <3>2, <4>1 DEF SlotAccount
    <3> QED
      BY <3>1, <3>2
  <2> QED
    BY <1>1, <2>3, <2>9, <2>11, <2>12, <2>14 DEF SlotsAccounted, Queues, q
<1> QED
  BY <1>6, <1>7

(***************************************************************************)
(* The slot timer: the queue loses exactly the call that timed out.        *)
(***************************************************************************)
GivesUp(c, s) ==
  /\ \E k \in DOMAIN waiters[s] :
       waiters[s][k] = c /\ waiters' = [waiters EXCEPT ![s] = RemoveAt(@, k)]
  /\ \A r \in SemKey : Holders(r)' = Holders(r)

LEMMA TimeoutStep ==
  ASSUME SlotInv, NEW c \in Call, WaitTimesOut(c)
  PROVE  TypeOK' /\ SlotsAccounted' /\ SlotOf(c) \in SemKey /\ GivesUp(c, SlotOf(c))
<1> DEFINE t == task[c]
           s == SlotOf(c)
<1>1. /\ TypeOK /\ t \in Task /\ task \in [Call -> Task] /\ t.pc = "wait"
      /\ t.todo # <<>> /\ s \in SemKey /\ Tail(t.todo) \in Seq(Provider)
      /\ waiters[s] \in Seq(Call)
  <2>1. t.pc = "wait" /\ TypeOK
    BY DEF WaitTimesOut, SlotInv
  <2> QED
    BY <2>1, TaskFields DEF TypeOK, HasEntry
<1>2. PICK k \in DOMAIN waiters[s] :
        waiters[s][k] = c /\ waiters' = [waiters EXCEPT ![s] = RemoveAt(@, k)]
  BY DEF WaitTimesOut
<1> DEFINE q == RemoveAt(waiters[s], k)
           v == NextEntry(c)
           u == IF t.late THEN Idle ELSE v
<1>3. v \in Task /\ v.pc = "next"
  BY <1>1, NextEntryType
<1>4. task' = [task EXCEPT ![c] = u]
  BY DEF WaitTimesOut
<1>5. u \in Task /\ u.pc \in Outside
  <2> HIDE DEF v
  <2> QED
    BY <1>3, IdleTask DEF Outside
<1> HIDE DEF u, v
<1>6. Becomes(c, u)
  BY <1>4, <1>5 DEF Becomes, HasEntry, Outside
<1>7. /\ task' \in [Call -> Task] /\ \A d \in Call : HasEntry(task[d])'
      /\ task'[c] = u /\ \A d \in Call \ {c} : task'[d] = task[d]
  BY <1>1, <1>6, BecomesType
<1>8. \A r \in SemKey : SlotAccount(r)
  BY DEF SlotInv, SlotsAccounted
<1>9. q \in Seq(Call)
  BY <1>1, <1>2, RemoveAtProperties
<1>10. ToSet(q) = ToSet(waiters[s]) \ {c} /\ Distinct(q)
  <2>1. Distinct(waiters[s])
    BY <1>1, <1>8 DEF SlotAccount, Distinct
  <2> QED
    BY <1>1, <1>2, <2>1, RemoveAtSet
<1>11. q # <<>> => waiters[s] # <<>>
  BY <1>1, <1>2
<1> HIDE DEF q
<1>12. active' = active /\ UNCHANGED <<failures, circuit, streak>>
  BY DEF WaitTimesOut
<1>13. waiters' = [waiters EXCEPT ![s] = q]
  BY <1>2 DEF q
<1>14. waiters'[s] = q /\ \A r \in SemKey \ {s} : waiters'[r] = waiters[r]
  BY <1>1, <1>13 DEF TypeOK
<1>15. TypeOK'
  BY <1>1, <1>7, <1>9, <1>12, <1>13 DEF TypeOK, HasEntry
<1>16. \A r : /\ ~Taken(u, r) /\ ~Awaited(u, r) /\ ~Taken(t, r)
              /\ Awaited(t, r) <=> r = s
  BY <1>1, <1>5 DEF Taken, Awaited, Inside, Outside, SlotOf, Entry
<1>17. \A r \in SemKey : c \notin Holders(r) /\ (r # s => c \notin Waiting(r))
  BY <1>16, Moves
<1>18. \A r \in SemKey : /\ Holders(r)' = Holders(r)
                         /\ Waiting(r)' = IF r = s THEN Waiting(r) \ {c} ELSE Waiting(r)
  <2> SUFFICES ASSUME NEW r \in SemKey
               PROVE  /\ Holders(r)' = Holders(r)
                      /\ Waiting(r)' = IF r = s THEN Waiting(r) \ {c} ELSE Waiting(r)
    OBVIOUS
  <2>1. /\ Holders(r)' = (Holders(r) \ {c}) \cup (IF Taken(u, r) THEN {c} ELSE {})
        /\ Waiting(r)' = (Waiting(r) \ {c}) \cup (IF Awaited(u, r) THEN {c} ELSE {})
    BY <1>7, OneMoves
  <2> QED
    BY <1>16, <1>17, <2>1
<1>19. ASSUME NEW r \in SemKey PROVE SlotAccount(r)'
  <2>1. CASE r = s
    <3>1. Waiting(r)' = ToSet(q) /\ Holders(r)' = Holders(r)
      BY <1>1, <1>8, <1>10, <1>18, <2>1 DEF SlotAccount
    <3> QED
      BY <1>1, <1>8, <1>10, <1>11, <1>12, <1>14, <2>1, <3>1 DEF SlotAccount, Distinct
  <2>2. CASE r # s
    <3>1. Waiting(r)' = Waiting(r) /\ Holders(r)' = Holders(r)
      BY <1>18, <2>2
    <3> QED
      BY <1>8, <1>12, <1>14, <2>2, <3>1 DEF SlotAccount
  <2> QED
    BY <2>1, <2>2
<1>20. GivesUp(c, s)
  BY <1>2, <1>18 DEF GivesUp
<1> QED
  BY <1>1, <1>15, <1>19, <1>20 DEF SlotsAccounted

(***************************************************************************)
(* release. The slot goes to the first waiter, whose record changes too,   *)
(* or the count goes down.                                                 *)
(***************************************************************************)
Leaves(c, s) ==
  /\ c \in Holders(s)
  /\ IF waiters[s] = <<>>
     THEN /\ UNCHANGED waiters
          /\ \A r \in SemKey : Holders(r)' = IF r = s THEN Holders(r) \ {c} ELSE Holders(r)
     ELSE /\ waiters' = [waiters EXCEPT ![s] = Tail(@)]
          /\ \A r \in SemKey :
               Holders(r)' = IF r = s THEN (Holders(r) \ {c}) \cup {Head(waiters[s])}
                             ELSE Holders(r)

LEMMA ReleaseStep ==
  ASSUME SlotInv, NEW c \in Call, Release(c)
  PROVE  TypeOK' /\ SlotsAccounted' /\ SlotOf(c) \in SemKey /\ Leaves(c, SlotOf(c))
<1> DEFINE t == task[c]
           s == SlotOf(c)
           u == Onward(c)
           w == Head(waiters[s])
<1>1. /\ TypeOK /\ t \in Task /\ task \in [Call -> Task] /\ t.pc = "leave"
      /\ t.todo # <<>> /\ s \in SemKey /\ waiters[s] \in Seq(Call)
  <2>1. t.pc = "leave" /\ TypeOK
    BY DEF Release, SlotInv
  <2> QED
    BY <2>1, TaskFields DEF TypeOK, HasEntry
<1>2. u \in Task /\ u.pc \in Outside
  BY <1>1, OnwardType DEF Outside
<1>3. active[s] \in Nat /\ active[s] > 0
  BY <1>1, HolderCounted DEF Holds
<1>4. \A r \in SemKey : SlotAccount(r)
  BY DEF SlotInv, SlotsAccounted
<1>5. \A r : ~Taken(u, r) /\ ~Awaited(u, r) /\ ~Awaited(t, r) /\ (Taken(t, r) <=> r = s)
  BY <1>1, <1>2 DEF Taken, Awaited, Inside, Outside, SlotOf, Entry
<1>6. \A r \in SemKey : c \notin Waiting(r) /\ (c \in Holders(r) <=> r = s)
  BY <1>5, Moves
<1>7. UNCHANGED <<failures, circuit, streak>>
  BY DEF Release
<1>8. /\ IsFiniteSet(Holders(s)) /\ c \in Holders(s)
      /\ Cardinality(Holders(s) \ {c}) = active[s] - 1
  <2>1. IsFiniteSet(Holders(s)) /\ c \in Holders(s)
    BY <1>1, <1>6, HoldersFinite
  <2>2. Cardinality(Holders(s) \ {c}) = Cardinality(Holders(s)) - 1
    BY <2>1, FS_RemoveElement
  <2> QED
    BY <1>1, <1>4, <2>1, <2>2 DEF SlotAccount
<1>9. CASE waiters[s] = <<>>
  <2>1. task' = [task EXCEPT ![c] = u]
    BY <1>9 DEF Release
  <2> HIDE DEF u
  <2>2. Becomes(c, u)
    BY <1>2, <2>1 DEF Becomes, HasEntry, Outside
  <2>3. /\ task' \in [Call -> Task] /\ \A d \in Call : HasEntry(task[d])'
        /\ task'[c] = u /\ \A d \in Call \ {c} : task'[d] = task[d]
    BY <1>1, <2>2, BecomesType
  <2>4. waiters' = waiters /\ active' = [active EXCEPT ![s] = @ - 1]
    BY <1>9 DEF Release
  <2>5. TypeOK'
    BY <1>1, <1>3, <1>7, <2>3, <2>4 DEF TypeOK, HasEntry
  <2>6. \A r \in SemKey : /\ Holders(r)' = IF r = s THEN Holders(r) \ {c} ELSE Holders(r)
                          /\ Waiting(r)' = Waiting(r)
    <3> SUFFICES ASSUME NEW r \in SemKey
                 PROVE  /\ Holders(r)' = IF r = s THEN Holders(r) \ {c} ELSE Holders(r)
                        /\ Waiting(r)' = Waiting(r)
      OBVIOUS
    <3>1. /\ Holders(r)' = (Holders(r) \ {c}) \cup (IF Taken(u, r) THEN {c} ELSE {})
          /\ Waiting(r)' = (Waiting(r) \ {c}) \cup (IF Awaited(u, r) THEN {c} ELSE {})
      BY <2>3, OneMoves
    <3> QED
      BY <1>5, <1>6, <3>1 DEF u
  <2>7. active'[s] = active[s] - 1 /\ \A r \in SemKey \ {s} : active'[r] = active[r]
    BY <1>1, <2>4 DEF TypeOK
  <2>8. ASSUME NEW r \in SemKey PROVE SlotAccount(r)'
    <3>1. CASE r = s
      <4>1. Holders(r)' = Holders(s) \ {c} /\ Waiting(r)' = Waiting(s)
        BY <1>1, <2>6, <3>1
      <4>2. active'[r] <= Limit[r]
        BY <1>1, <1>3, <1>4, <2>7, <3>1, LimitAssumption DEF SlotAccount
      <4> QED
        BY <1>1, <1>4, <1>8, <1>9, <2>4, <2>7, <3>1, <4>1, <4>2 DEF SlotAccount
    <3>2. CASE r # s
      <4>1. Holders(r)' = Holders(r) /\ Waiting(r)' = Waiting(r)
        BY <2>6, <3>2
      <4> QED
        BY <1>4, <2>4, <2>7, <3>2, <4>1 DEF SlotAccount
    <3> QED
      BY <3>1, <3>2
  <2> QED
    BY <1>1, <1>8, <1>9, <2>4, <2>5, <2>6, <2>8 DEF SlotsAccounted, Leaves
<1>10. CASE waiters[s] # <<>>
  <2> DEFINE v == [task[w] EXCEPT !.pc = "held"]
             q == Tail(waiters[s])
  <2>1. w \in Call /\ task[w].pc = "wait" /\ SlotOf(w) = s /\ w # c
    BY <1>1, <1>10, HeadWaits
  <2>2. /\ task[w] \in Task /\ task[w].todo # <<>>
    BY <1>1, <2>1, TaskFields DEF HasEntry
  <2>3. v \in Task /\ v.pc = "held" /\ v.todo = task[w].todo
    BY <2>2, TaskMoves
  <2>4. /\ task' \in [Call -> Task] /\ task'[c] = u /\ task'[w] = v
        /\ \A d \in Call \ {c, w} : task'[d] = task[d]
    <3>1. task' = [task EXCEPT ![c] = u, ![w].pc = "held"]
      BY <1>10 DEF Release
    <3> HIDE DEF u, w
    <3> QED
      BY <1>1, <1>2, <2>1, <2>3, <3>1
  <2> HIDE DEF u, v
  <2>5. \A d \in Call : HasEntry(task[d])'
    <3> SUFFICES ASSUME NEW d \in Call PROVE HasEntry(task'[d])
      BY DEF HasEntry
    <3>1. CASE d = c
      BY <1>2, <2>4, <3>1 DEF HasEntry, Outside
    <3>2. CASE d = w
      BY <2>2, <2>3, <2>4, <3>2 DEF HasEntry
    <3>3. CASE d \notin {c, w}
      BY <1>1, <2>4, <3>3, TaskFields
    <3> QED
      BY <3>1, <3>2, <3>3
  <2>6. active' = active /\ waiters' = [waiters EXCEPT ![s] = q]
    BY <1>10 DEF Release
  <2>7. /\ ToSet(q) = ToSet(waiters[s]) \ {w} /\ Distinct(q) /\ q \in Seq(Call)
    <3>1. Distinct(waiters[s])
      BY <1>1, <1>4 DEF SlotAccount, Distinct
    <3> QED
      BY <1>1, <1>10, <3>1, TailSet
  <2> HIDE DEF q
  <2>8. TypeOK'
    BY <1>1, <1>7, <2>4, <2>5, <2>6, <2>7 DEF TypeOK, HasEntry
  <2>9. \A r : /\ Taken(v, r) <=> r = s
               /\ ~Awaited(v, r) /\ ~Taken(task[w], r)
               /\ Awaited(task[w], r) <=> r = s
    BY <2>1, <2>3 DEF Taken, Awaited, Inside, SlotOf, Entry
  <2> HIDE DEF w
  <2>10. ASSUME NEW r \in SemKey
         PROVE  w \notin Holders(r) /\ (w \in Waiting(r) <=> r = s)
    <3>1. /\ w \in Holders(r) <=> Taken(task[w], r)
          /\ w \in Waiting(r) <=> Awaited(task[w], r)
      BY <2>1, Moves
    <3> QED
      BY <2>9, <3>1
  <2>11. \A r \in SemKey :
           /\ Holders(r)' = IF r = s THEN (Holders(r) \ {c}) \cup {w} ELSE Holders(r)
           /\ Waiting(r)' = IF r = s THEN Waiting(r) \ {w} ELSE Waiting(r)
    <3> SUFFICES ASSUME NEW r \in SemKey, NEW d \in Call
                 PROVE  /\ d \in Holders(r)' <=>
                             d \in (IF r = s THEN (Holders(r) \ {c}) \cup {w} ELSE Holders(r))
                        /\ d \in Waiting(r)' <=>
                             d \in (IF r = s THEN Waiting(r) \ {w} ELSE Waiting(r))
      <4>1. \A r \in SemKey : /\ Holders(r) \subseteq Call /\ Holders(r)' \subseteq Call
                              /\ Waiting(r) \subseteq Call /\ Waiting(r)' \subseteq Call
        BY DEF Holders, Waiting
      <4>2. w \in Call
        BY <2>1
      <4> QED
        BY <4>1, <4>2, SMT
    <3>1. /\ d \in Holders(r) <=> Taken(task[d], r)
          /\ d \in Waiting(r) <=> Awaited(task[d], r)
          /\ d \in Holders(r)' <=> Taken(task'[d], r)
          /\ d \in Waiting(r)' <=> Awaited(task'[d], r)
      BY Moves
    <3>2. CASE d = c
      <4>1. task'[d] = u
        BY <2>4, <3>2
      <4> QED
        BY <1>5, <1>6, <2>1, <3>1, <3>2, <4>1
    <3>3. CASE d = w
      <4>1. task'[d] = v /\ (d \in Holders(r)' <=> r = s)
        BY <2>4, <2>9, <3>1, <3>3
      <4>2. d \notin Waiting(r)'
        BY <2>4, <2>9, <3>1, <3>3
      <4> QED
        BY <2>1, <2>10, <3>3, <4>1, <4>2
    <3>4. CASE d \notin {c, w}
      BY <2>4, <3>1, <3>4
    <3> QED
      BY <3>2, <3>3, <3>4
  <2>12. Cardinality((Holders(s) \ {c}) \cup {w}) = active[s]
    <3>1. IsFiniteSet(Holders(s) \ {c}) /\ w \notin Holders(s) \ {c}
      BY <1>1, <1>8, <2>10, FS_RemoveElement
    <3>2. Cardinality((Holders(s) \ {c}) \cup {w}) = Cardinality(Holders(s) \ {c}) + 1
      BY <3>1, FS_AddElement
    <3> QED
      BY <1>3, <1>8, <3>2
  <2>13. waiters'[s] = q /\ \A r \in SemKey \ {s} : waiters'[r] = waiters[r]
    BY <1>1, <2>6 DEF TypeOK
  <2>14. ASSUME NEW r \in SemKey PROVE SlotAccount(r)'
    <3>1. CASE r = s
      <4>1. Holders(r)' = (Holders(s) \ {c}) \cup {w} /\ Waiting(r)' = ToSet(q)
        BY <1>1, <1>4, <2>7, <2>11, <3>1 DEF SlotAccount
      <4>2. active'[r] = Limit[r] /\ active'[r] = active[s]
        BY <1>1, <1>4, <1>10, <2>6, <3>1 DEF SlotAccount
      <4> QED
        BY <1>1, <1>4, <2>7, <2>12, <2>13, <3>1, <4>1, <4>2 DEF SlotAccount, Distinct
    <3>2. CASE r # s
      <4>1. Holders(r)' = Holders(r) /\ Waiting(r)' = Waiting(r)
        BY <2>11, <3>2
      <4> QED
        BY <1>4, <2>6, <2>13, <3>2, <4>1 DEF SlotAccount
    <3> QED
      BY <3>1, <3>2
  <2> QED
    BY <1>1, <1>8, <1>10, <2>6, <2>8, <2>11, <2>14 DEF SlotsAccounted, Leaves, q, w
<1> QED
  BY <1>9, <1>10

-----------------------------------------------------------------------------
(***************************************************************************)
(* The breaker. A failure that is still in the window is one of at most    *)
(* two that a request of the current streak recorded; without that, a      *)
(* circuit could open on failures that a success has long answered.        *)
(***************************************************************************)
BreakerType ==
  /\ failures \in [Name -> 0..Threshold]
  /\ circuit \in [Name -> {"closed", "open", "lapsed"}]
  /\ streak \in [Name -> 0..Threshold]

Evidence(n) == /\ failures[n] <= 2 * streak[n]
               /\ circuit[n] = "open" => 2 * streak[n] >= Threshold

BreakerInv == BreakerType /\ \A n \in Name : Evidence(n)

\* A circuit that is only looked at may close.
LEMMA ProbeStep ==
  ASSUME BreakerInv, NEW n \in Name, Probe(n) \/ UNCHANGED circuit,
         UNCHANGED <<failures, streak>>
  PROVE  BreakerInv'
BY DEF BreakerInv, BreakerType, Evidence, Probe

LEMMA AnswerStep ==
  ASSUME BreakerInv, TypeOK, NEW c \in Call, Answer(c)
  PROVE  BreakerInv'
<1> DEFINE n == NameOf[Entry(c)]
<1>1. n \in Name
  BY TaskFields DEF Answer, HasEntry
<1>2. /\ failures' = [failures EXCEPT ![n] = 0]
      /\ circuit' = [circuit EXCEPT ![n] = "closed"]
      /\ streak' = [streak EXCEPT ![n] = 0]
  BY DEF Answer
<1> HIDE DEF n
<1>3. 0 \in 0..Threshold
  BY ThresholdAssumption
<1> QED
  BY <1>1, <1>2, <1>3 DEF BreakerInv, BreakerType, Evidence

LEMMA RefuseStep ==
  ASSUME BreakerInv, TypeOK, NEW c \in Call, Refuse(c)
  PROVE  BreakerInv'
<1>1. PICK n \in Name : n = NameOf[Entry(c)]
  BY TaskFields DEF Refuse, HasEntry
<1>2. PICK kept \in 0..failures[n], records \in 1..2 :
        /\ failures' = [failures EXCEPT ![n] = Least(Threshold, kept + records)]
        /\ circuit' = [circuit EXCEPT ![n] = IF kept + records >= Threshold THEN "open" ELSE @]
  <2>1. (IF Kind[Entry(c)] = "direct" THEN 2 ELSE 1) \in 1..2
    OBVIOUS
  <2>2. 1..(IF Kind[Entry(c)] = "direct" THEN 2 ELSE 1) \subseteq 1..2
    OBVIOUS
  <2> QED
    BY <1>1, <2>2 DEF Refuse
<1>3. streak' = [streak EXCEPT ![n] = Least(Threshold, @ + 1)]
  BY <1>1 DEF Refuse
<1> DEFINE f == Least(Threshold, kept + records)
           k == Least(Threshold, streak[n] + 1)
<1>4. /\ failures[n] \in 0..Threshold /\ streak[n] \in 0..Threshold
      /\ failures[n] <= 2 * streak[n]
      /\ circuit[n] = "open" => 2 * streak[n] >= Threshold
  BY <1>1 DEF BreakerInv, BreakerType, Evidence
<1>5. /\ f \in 0..Threshold /\ k \in 0..Threshold /\ f <= 2 * k
      /\ kept + records >= Threshold => 2 * k >= Threshold
      /\ 2 * streak[n] >= Threshold => 2 * k >= Threshold
  BY <1>4, ThresholdAssumption DEF Least
<1>6. /\ failures'[n] = f /\ streak'[n] = k
      /\ circuit'[n] = IF kept + records >= Threshold THEN "open" ELSE circuit[n]
  BY <1>1, <1>2, <1>3 DEF BreakerInv, BreakerType
<1>7. \A m \in Name \ {n} : /\ failures'[m] = failures[m] /\ streak'[m] = streak[m]
                            /\ circuit'[m] = circuit[m]
  BY <1>2, <1>3 DEF BreakerInv, BreakerType
<1> HIDE DEF f, k
<1>8. BreakerType'
  <2> DEFINE g == IF kept + records >= Threshold THEN "open" ELSE circuit[n]
  <2>1. g \in {"closed", "open", "lapsed"}
    BY <1>1 DEF BreakerInv, BreakerType
  <2>2. /\ failures' = [failures EXCEPT ![n] = f] /\ streak' = [streak EXCEPT ![n] = k]
        /\ circuit' = [circuit EXCEPT ![n] = g]
    BY <1>1, <1>2, <1>3 DEF f, k, BreakerInv, BreakerType
  <2> HIDE DEF g
  <2> QED
    BY <1>1, <1>5, <2>1, <2>2 DEF BreakerInv, BreakerType
<1>9. Evidence(n)'
  BY <1>4, <1>5, <1>6 DEF Evidence
<1>10. ASSUME NEW m \in Name, m # n PROVE Evidence(m)'
  <2>1. Evidence(m)
    BY DEF BreakerInv
  <2>2. failures'[m] = failures[m] /\ streak'[m] = streak[m] /\ circuit'[m] = circuit[m]
    BY <1>7, <1>10
  <2> QED
    BY <2>1, <2>2 DEF Evidence
<1> QED
  BY <1>8, <1>9, <1>10 DEF BreakerInv

-----------------------------------------------------------------------------
(***************************************************************************)
(* The invariant is inductive; and every step is one of the abstract pool, *)
(* or leaves the pool alone.                                               *)
(***************************************************************************)
IInv == SlotInv /\ BreakerInv

PoolStep ==
  \/ \E c \in Call, s \in SemKey :
       Enters(c, s) \/ Queues(c, s) \/ GivesUp(c, s) \/ Leaves(c, s)
  \/ UNCHANGED waiters /\ \A s \in SemKey : Holders(s)' = Holders(s)

LEMMA InvInit == Init => IInv
<1> SUFFICES ASSUME Init PROVE IInv
  OBVIOUS
<1>1. TypeOK
  BY TypeInit
<1>2. \A s \in SemKey : Holders(s) = {} /\ Waiting(s) = {}
  BY DEF Init, Idle, Holders, Waiting, Holds
<1>3. SlotsAccounted
  <2> SUFFICES ASSUME NEW s \in SemKey PROVE SlotAccount(s)
    BY DEF SlotsAccounted
  <2>1. active[s] = 0 /\ waiters[s] = <<>> /\ Cardinality(Holders(s)) = 0
    BY <1>2, FS_EmptySet DEF Init
  <2>2. DOMAIN waiters[s] = {} /\ ToSet(waiters[s]) = {}
    <3>1. DOMAIN <<>> = {}
      OBVIOUS
    <3> QED
      BY <2>1, <3>1 DEF ToSet
  <2>3. ToSet(waiters[s]) = Waiting(s) /\ active[s] = Cardinality(Holders(s))
    BY <1>2, <2>1, <2>2
  <2>4. active[s] <= Limit[s]
    BY <2>1, LimitAssumption
  <2> QED
    BY <2>1, <2>2, <2>3, <2>4 DEF SlotAccount
<1>4. BreakerInv
  BY <1>1, ThresholdAssumption DEF TypeOK, Init, BreakerInv, BreakerType, Evidence
<1> QED
  BY <1>1, <1>3, <1>4 DEF IInv, SlotInv

LEMMA QuietKeeps ==
  ASSUME IInv, NEW c \in Call, QuietShape(c), UNCHANGED <<active, waiters>>, BreakerInv'
  PROVE  IInv' /\ PoolStep
<1>1. TypeOK
  BY DEF IInv, SlotInv
<1>2. PICK t : Becomes(c, t) /\ SameSlot(c, t)
  BY DEF QuietShape
<1>3. SlotsAccounted' /\ \A s \in SemKey : Holders(s)' = Holders(s)
  BY <1>2, QuietStep DEF IInv
<1>4. /\ task' \in [Call -> Task]
      /\ \A d \in Call : HasEntry(task[d])'
  BY <1>1, <1>2, BecomesType
<1>5. TypeOK'
  BY <1>1, <1>4 DEF TypeOK, HasEntry, BreakerInv, BreakerType
<1> QED
  BY <1>3, <1>5 DEF IInv, SlotInv, PoolStep

LEMMA StepKeeps ==
  ASSUME IInv, [Next]_vars
  PROVE  IInv' /\ PoolStep
<1>1. TypeOK /\ SlotInv /\ BreakerInv
  BY DEF IInv, SlotInv
<1>2. ASSUME NEW c \in Call, Start(c) \/ Expire(c) \/ Built(c) \/ Exhausted(c)
      PROVE  IInv' /\ PoolStep
  <2>1. BreakerInv'
    BY <1>1, <1>2 DEF Start, Expire, Built, Exhausted, BreakerInv, BreakerType, Evidence
  <2> QED
    BY <1>1, <1>2, <2>1, Quiet, QuietKeeps
<1>3. ASSUME NEW c \in Call, Check(c)
      PROVE  IInv' /\ PoolStep
  <2>1. PICK n : n = NameOf[Chain[task[c].at]]
    OBVIOUS
  <2>2. n \in Name
    <3>1. task[c].at \in Nat \ {0} /\ task[c].at <= Len(Chain)
      BY <1>1, <1>3 DEF Check, TypeOK, Task
    <3> QED
      BY <2>1, <3>1, ChainAssumption
  <2>3. (Probe(n) \/ UNCHANGED circuit) /\ UNCHANGED <<failures, streak>>
    BY <1>3, <2>1 DEF Check
  <2>4. BreakerInv'
    BY <1>1, <2>2, <2>3, ProbeStep
  <2> QED
    BY <1>1, <1>3, <2>4, Quiet, QuietKeeps
<1>4. ASSUME NEW c \in Call, CallProvider(c)
      PROVE  IInv' /\ PoolStep
  <2>1. PICK n \in Name : n = NameOf[Entry(c)]
    BY <1>1, <1>4, TaskFields DEF CallProvider, HasEntry
  <2>2. (Probe(n) \/ UNCHANGED circuit) /\ UNCHANGED <<failures, streak>>
    BY <1>4, <2>1 DEF CallProvider
  <2>3. BreakerInv'
    BY <1>1, <2>2, ProbeStep
  <2> QED
    BY <1>1, <1>4, <2>3, Quiet, QuietKeeps
<1>5. ASSUME NEW c \in Call, Answer(c) \/ Refuse(c)
      PROVE  IInv' /\ PoolStep
  BY <1>1, <1>5, AnswerStep, RefuseStep, Quiet, QuietKeeps
<1>6. ASSUME NEW c \in Call, Acquire(c) \/ WaitTimesOut(c) \/ Release(c)
      PROVE  IInv' /\ PoolStep
  <2>1. /\ TypeOK' /\ SlotsAccounted' /\ SlotOf(c) \in SemKey
        /\ \/ Enters(c, SlotOf(c)) \/ Queues(c, SlotOf(c))
           \/ GivesUp(c, SlotOf(c)) \/ Leaves(c, SlotOf(c))
    BY <1>1, <1>6, AcquireStep, TimeoutStep, ReleaseStep
  <2>2. UNCHANGED <<failures, circuit, streak>>
    BY <1>6 DEF Acquire, WaitTimesOut, Release
  <2>3. BreakerInv'
    BY <1>1, <2>2 DEF BreakerInv, BreakerType, Evidence
  <2> QED
    BY <2>1, <2>3 DEF IInv, SlotInv, PoolStep
<1>7. ASSUME NEW n \in Name, Lapse(n)
      PROVE  IInv' /\ PoolStep
  <2>1. /\ UNCHANGED <<active, waiters, task, failures, streak>>
        /\ circuit' = [circuit EXCEPT ![n] = "lapsed"]
    BY <1>7 DEF Lapse
  <2>2. BreakerInv'
    BY <1>1, <2>1 DEF BreakerInv, BreakerType, Evidence
  <2>3. TypeOK'
    BY <1>1, <2>1, <2>2 DEF TypeOK, BreakerInv, BreakerType
  <2>4. \A s : Holders(s)' = Holders(s) /\ Waiting(s)' = Waiting(s)
    BY <2>1 DEF Holders, Waiting, Holds, SlotOf, Entry
  <2>5. SlotsAccounted'
    BY <1>1, <2>1, <2>4 DEF SlotInv, SlotsAccounted, SlotAccount
  <2> QED
    BY <2>1, <2>2, <2>3, <2>4, <2>5 DEF IInv, SlotInv, PoolStep
<1>8. CASE UNCHANGED vars
  <2>1. UNCHANGED <<active, waiters, task, failures, circuit, streak>>
    BY <1>8 DEF vars
  <2>2. BreakerInv' /\ TypeOK'
    BY <1>1, <2>1 DEF TypeOK, BreakerInv, BreakerType, Evidence
  <2>3. \A s : Holders(s)' = Holders(s) /\ Waiting(s)' = Waiting(s)
    BY <2>1 DEF Holders, Waiting, Holds, SlotOf, Entry
  <2>4. SlotsAccounted'
    BY <1>1, <2>1, <2>3 DEF SlotInv, SlotsAccounted, SlotAccount
  <2> QED
    BY <2>1, <2>2, <2>3, <2>4 DEF IInv, SlotInv, PoolStep
<1> QED
  BY <1>2, <1>3, <1>4, <1>5, <1>6, <1>7, <1>8 DEF Next, Proceed

LEMMA Invariance == Spec => []IInv
<1>1. IInv /\ [Next]_vars => IInv'
  BY StepKeeps
<1> QED
  BY <1>1, InvInit, PTL DEF Spec

-----------------------------------------------------------------------------
\* Every variable of the dispatcher keeps its type.
THEOREM TypeCorrect == Spec => []TypeOK
<1>1. IInv => TypeOK
  BY DEF IInv, SlotInv
<1> QED
  BY <1>1, Invariance, PTL

\* Counter and queue of every semaphore (util/semaphore.js) agree with what
\* the calls are doing: no slot leaks or is given twice, no wake-up is lost.
THEOREM SlotSafety == Spec => []SlotsAccounted
<1>1. IInv => SlotsAccounted
  BY DEF IInv, SlotInv
<1> QED
  BY <1>1, Invariance, PTL

\* A circuit (util/circuit-breaker.js) is open only on the strength of
\* failed requests that no success has interrupted.
THEOREM BreakerEvidence == Spec => []OpenNeedsFailures
<1>1. IInv => OpenNeedsFailures
  BY DEF IInv, BreakerInv, Evidence, OpenNeedsFailures
<1> QED
  BY <1>1, Invariance, PTL

\* The instance's operators are the dispatcher's.
LEMMA PoolOperators == /\ \A S : Pool!Cardinality(S) = Cardinality(S)
                       /\ \A q, i : Pool!RemoveAt(q, i) = RemoveAt(q, i)
<1>1. \A S : Pool!Cardinality(S) = Cardinality(S)
  BY DEF Pool!Cardinality, Cardinality
<1>2. \A q, i : Pool!RemoveAt(q, i) = RemoveAt(q, i)
  BY DEF Pool!RemoveAt, RemoveAt
<1> QED
  BY <1>1, <1>2

\* How the pool's view of a semaphore changes with its holders.
LEMMA InsideBecomes ==
  ASSUME NEW s \in SemKey, NEW X,
         \A r \in SemKey : Holders(r)' = IF r = s THEN X ELSE Holders(r)
  PROVE  [r \in SemKey |-> Holders(r)]' = [[r \in SemKey |-> Holders(r)] EXCEPT ![s] = X]
OBVIOUS

\* llmJson (llm/index.js) uses its semaphores as the abstract slot pool.
THEOREM Refinement == Spec => ImplementsSlotPool
<1>1. Init => Pool!PoolInit
  <2>1. Init => \A s \in SemKey : Holders(s) = {}
    BY DEF Init, Idle, Holders, Holds
  <2> QED
    BY <2>1 DEF Init, Pool!PoolInit
<1>2. IInv /\ [Next]_vars => [Pool!PoolNext]_(Pool!poolVars)
  <2> SUFFICES ASSUME IInv, [Next]_vars
               PROVE  Pool!PoolNext \/ UNCHANGED Pool!poolVars
    OBVIOUS
  <2> DEFINE inside == [s \in SemKey |-> Holders(s)]
  <2>1. CASE UNCHANGED waiters /\ \A s \in SemKey : Holders(s)' = Holders(s)
    BY <2>1 DEF Pool!poolVars
  <2>2. ASSUME NEW c \in Call, NEW s \in SemKey,
               Enters(c, s) \/ Queues(c, s) \/ GivesUp(c, s) \/ Leaves(c, s)
        PROVE  Pool!PoolNext
    <3>1. Cardinality(Holders(s)) = active[s] /\ active[s] \in Nat /\ Limit[s] \in Nat
      BY LimitAssumption DEF IInv, SlotInv, SlotsAccounted, SlotAccount, TypeOK
    <3>2. CASE Enters(c, s)
      <4>1. inside' = [inside EXCEPT ![s] = Holders(s) \cup {c}]
        <5>1. \A r \in SemKey : Holders(r)' = IF r = s THEN Holders(s) \cup {c} ELSE Holders(r)
          BY <3>2 DEF Enters
        <5> QED
          BY <5>1, InsideBecomes
      <4>2. Pool!Enter(c, s)
        BY <3>1, <3>2, <4>1, PoolOperators DEF Enters, Pool!Enter, Pool!Free
      <4> QED
        BY <4>2 DEF Pool!PoolNext
    <3>3. CASE Queues(c, s)
      <4>1. inside' = inside
        BY <3>3 DEF Queues
      <4>2. Pool!Queue(c, s)
        BY <3>1, <3>3, <4>1, PoolOperators DEF Queues, Pool!Queue, Pool!Free
      <4> QED
        BY <4>2 DEF Pool!PoolNext
    <3>4. CASE GivesUp(c, s)
      <4>1. inside' = inside
        BY <3>4 DEF GivesUp
      <4>2. Pool!GiveUp(c, s)
        BY <3>4, <4>1, PoolOperators DEF GivesUp, Pool!GiveUp
      <4> QED
        BY <4>2 DEF Pool!PoolNext
    <3>5. CASE Leaves(c, s)
      <4>1. Pool!Leave(c, s)
        BY <3>5 DEF Leaves, Pool!Leave
      <4> QED
        BY <4>1 DEF Pool!PoolNext
    <3> QED
      BY <2>2, <3>2, <3>3, <3>4, <3>5
  <2> QED
    BY <2>1, <2>2, StepKeeps DEF PoolStep
<1> QED
  BY <1>1, <1>2, Invariance, PTL DEF Spec, ImplementsSlotPool, Pool!PoolSpec
=============================================================================
