------------------------ MODULE FragmentStoreProofs ------------------------
(***************************************************************************)
(* Theorems about FragmentStore, for every number of callers, keys, ids    *)
(* and contents and in both quota modes.                                   *)
(***************************************************************************)
EXTENDS FragmentStore, FiniteSetTheorems, TLAPS

(***************************************************************************)
(* Type correctness: one step per action of Next.                          *)
(***************************************************************************)
LEMMA NoCallType == NoCall \in Call
BY KeyAssumption DEF NoCall, Call, Op, PC

LEMMA InitType == Init => TypeOK
BY NoCallType DEF Init, TypeOK

LEMMA KeptType ==
  ASSUME NEW k, NEW items, NEW kept \in Kept(k, items)
  PROVE  kept \subseteq items
BY DEF Kept

(***************************************************************************)
(* What the write of a call changes in its record, and what it leaves.     *)
(***************************************************************************)
LEMMA WrittenEffect ==
  ASSUME TypeOK, NEW s \in Caller, NEW F, NEW M, Written(s, F, M)
  PROVE  /\ \A r \in Caller \ {s} : call'[r] = call[r]
         /\ call'[s].pc = "index" /\ call'[s].items = {}
         /\ call'[s].frags = F /\ call'[s].merged = M
         /\ call'[s].op = call[s].op /\ call'[s].key = call[s].key
         /\ call'[s].token = call[s].token
<1>1. call[s] \in Call /\ call' = [call EXCEPT ![s] =
        [call[s] EXCEPT !.pc = "index", !.items = {}, !.frags = F, !.merged = M]]
  BY DEF Written, TypeOK
<1> QED BY <1>1 DEF TypeOK, Call

LEMMA WrittenType ==
  ASSUME TypeOK, NEW s \in Caller, NEW F \in SUBSET Frag, NEW M \in SUBSET Frag, Written(s, F, M)
  PROVE  call' \in [Caller -> Call]
<1>1. call[s] \in Call
  BY DEF TypeOK
<1>2. [call[s] EXCEPT !.pc = "index", !.items = {}, !.frags = F, !.merged = M] \in Call
  BY <1>1 DEF Call, PC
<1>3. call' = [call EXCEPT ![s] =
        [call[s] EXCEPT !.pc = "index", !.items = {}, !.frags = F, !.merged = M]]
  BY DEF Written
<1> QED BY <1>2, <1>3 DEF TypeOK

(***************************************************************************)
(* A call that returns; the two quota transactions, which reject or trim;  *)
(* the transaction of an amend, which stores or refuses.                   *)
(***************************************************************************)
LEMMA ReturnEffect ==
  ASSUME TypeOK, NEW s \in Caller, Return(s)
  PROVE  /\ \A r \in Caller \ {s} : call'[r] = call[r]
         /\ call'[s] = NoCall
BY DEF Return, TypeOK

Trimmed(s, p, items) ==
  /\ call'[s].pc = p /\ call'[s].items \subseteq items
  /\ call'[s].op = call[s].op /\ call'[s].key = call[s].key /\ call'[s].token = call[s].token
  /\ call'[s].frags = call[s].frags /\ call'[s].merged = call[s].merged

LEMMA TrimEffect ==
  ASSUME TypeOK, NEW s \in Caller, NEW p, NEW kept \in Kept(call[s].key, call[s].items),
         call' = [call EXCEPT ![s] = [@ EXCEPT !.pc = p, !.items = kept]]
  PROVE  /\ \A r \in Caller \ {s} : call'[r] = call[r]
         /\ Trimmed(s, p, call[s].items)
<1>1. call[s] \in Call /\ call' = [call EXCEPT ![s] = [call[s] EXCEPT !.pc = p, !.items = kept]]
  BY DEF TypeOK
<1>2. kept \subseteq call[s].items
  BY KeptType
<1>3. /\ \A r \in Caller \ {s} : call'[r] = call[r]
      /\ call'[s] = [call[s] EXCEPT !.pc = p, !.items = kept]
  BY <1>1 DEF TypeOK
<1> QED BY <1>1, <1>2, <1>3 DEF Trimmed, Call

LEMMA PhaseAEffect ==
  ASSUME TypeOK, NEW s \in Caller, PhaseA(s)
  PROVE  /\ UNCHANGED <<rows, minted, lock>> /\ call[s].pc = "phaseA"
         /\ \A r \in Caller \ {s} : call'[r] = call[r]
         /\ call'[s] = NoCall \/ Trimmed(s, "lock", call[s].items)
BY ReturnEffect, TrimEffect DEF PhaseA

LEMMA CountEffect ==
  ASSUME TypeOK, NEW s \in Caller, CountLocked(s)
  PROVE  /\ UNCHANGED <<rows, minted>> /\ call[s].pc = "count"
         /\ \A r \in Caller \ {s} : call'[r] = call[r]
         /\ call'[s] = NoCall \/ Trimmed(s, "store", call[s].items)
BY ReturnEffect, TrimEffect DEF CountLocked

LEMMA AmendEffect ==
  ASSUME TypeOK, NEW s \in Caller, AmendStore(s)
  PROVE  /\ UNCHANGED <<minted, lock>> /\ call[s].pc = "amend"
         /\ \A r \in Caller \ {s} : call'[r] = call[r]
         /\ call'[s] = NoCall \/ Trimmed(s, "deindex", call[s].items)
<1>1. ASSUME call' = [call EXCEPT ![s] = [@ EXCEPT !.pc = "deindex", !.items = {}, !.was = NoContent]]
      PROVE  /\ \A r \in Caller \ {s} : call'[r] = call[r]
             /\ Trimmed(s, "deindex", call[s].items)
  <2>1. /\ call[s] \in Call
        /\ call' = [call EXCEPT ![s] =
             [call[s] EXCEPT !.pc = "deindex", !.items = {}, !.was = NoContent]]
    BY <1>1 DEF TypeOK
  <2>2. /\ \A r \in Caller \ {s} : call'[r] = call[r]
        /\ call'[s] = [call[s] EXCEPT !.pc = "deindex", !.items = {}, !.was = NoContent]
    BY <2>1 DEF TypeOK
  <2> DEFINE r == call[s]
  <2> HIDE DEF r
  <2>4. r \in Call /\ call'[s] = [r EXCEPT !.pc = "deindex", !.items = {}, !.was = NoContent]
    BY <2>1, <2>2 DEF r
  <2>3. /\ call'[s].pc = "deindex" /\ call'[s].items = {}
        /\ call'[s].op = r.op /\ call'[s].key = r.key /\ call'[s].token = r.token
        /\ call'[s].frags = r.frags /\ call'[s].merged = r.merged
    BY <2>4 DEF Call
  <2> QED BY <2>2, <2>3 DEF Trimmed, r
<1> QED BY <1>1, ReturnEffect DEF AmendStore

LEMMA NextType == TypeOK /\ [Next]_vars => TypeOK'
<1> SUFFICES ASSUME TypeOK, [Next]_vars PROVE TypeOK'
  OBVIOUS
<1> USE NoCallType DEF TypeOK
<1>1. ASSUME NEW s \in Caller, NEW k \in Key, NEW t \in Token, ReplayRemember(s, k, t)
      PROVE  TypeOK'
  BY <1>1 DEF ReplayRemember, FindByIdempotencyKey, Carrying
<1>2. ASSUME NEW s \in Caller, NEW k \in Key, NEW c \in Content,
             NEW t \in Token \cup {NoToken}, NEW old \in Frag \cup {NoFrag},
             StartRemember(s, k, c, t, old)
      PROVE  TypeOK'
  <2>1. [NoCall EXCEPT !.op = "remember", !.key = k, !.items = {c}, !.token = t, !.old = old,
                       !.pc = IF AtomicRemember /\ k # Master THEN "lock" ELSE "quota"] \in Call
    BY DEF NoCall, Call, Op, PC
  <2> QED BY <1>2, <2>1 DEF StartRemember
<1>3. ASSUME NEW s \in Caller, CheckQuota(s) PROVE TypeOK'
  <2>1. [call[s] EXCEPT !.pc = "gate"] \in Call
    BY DEF Call, PC
  <2> QED BY <1>3, <2>1 DEF CheckQuota, Return
<1>4. ASSUME NEW s \in Caller, GateRejects(s), FindDuplicate(s) PROVE TypeOK'
  BY <1>4 DEF FindDuplicate, Return
<1>5. ASSUME NEW s \in Caller, ~GateRejects(s), FindDuplicate(s) PROVE TypeOK'
  <2>1. ASSUME NEW f \in Frag, Written(s, {f}, {}) PROVE call' \in [Caller -> Call]
    <3>1. {f} \in SUBSET Frag /\ {} \in SUBSET Frag
      OBVIOUS
    <3> QED BY <2>1, <3>1, WrittenType
  <2>2. [call[s] EXCEPT !.pc = "insert"] \in Call
    BY DEF Call, PC
  <2>3. call' \in [Caller -> Call]
    BY <1>5, <2>1, <2>2 DEF FindDuplicate, Holding
  <2> QED BY <1>5, <2>3 DEF FindDuplicate
<1>6. ASSUME NEW s \in Caller, Insert(s) PROVE TypeOK'
  <2> DEFINE k == call[s].key
             t == call[s].token
  <2>1. k \in Key /\ t \in Token \cup {NoToken} /\ call[s].items \subseteq Content
    BY DEF Call
  <2>3. ASSUME NEW f \in Frag, Written(s, {f}, {}) PROVE call' \in [Caller -> Call]
    <3>1. {f} \in SUBSET Frag /\ {} \in SUBSET Frag
      OBVIOUS
    <3> QED BY <2>3, <3>1, WrittenType
  <2>4. \A c \in call[s].items : Holding(k, c) \subseteq Frag /\ NewRow(k, c, t) \in Row
    BY <2>1 DEF Holding, NewRow, Row
  <2> HIDE DEF k, t
  <2>5. PICK c \in call[s].items :
          \/ Return(s) /\ UNCHANGED <<rows, minted>>
          \/ \E f \in Holding(k, c) : Written(s, {f}, {}) /\ UNCHANGED <<rows, minted>>
          \/ \E f \in Frag \ minted : /\ rows' = [rows EXCEPT ![f] = NewRow(k, c, t)]
                                     /\ minted' = minted \cup {f} /\ Written(s, {f}, {})
    BY <1>6 DEF Insert, k, t
  <2>6. UNCHANGED <<versions, lock, index, lost, cold, acked>>
    BY <1>6 DEF Insert
  <2>7. CASE Return(s) /\ UNCHANGED <<rows, minted>>
    BY <2>6, <2>7 DEF Return
  <2>8. ASSUME NEW f \in Holding(k, c), Written(s, {f}, {}), UNCHANGED <<rows, minted>> PROVE TypeOK'
    <3>1. f \in Frag
      BY <2>4
    <3> QED BY <2>3, <2>6, <2>8, <3>1
  <2>9. ASSUME NEW f \in Frag \ minted, rows' = [rows EXCEPT ![f] = NewRow(k, c, t)],
               minted' = minted \cup {f}, Written(s, {f}, {})
        PROVE  TypeOK'
    <3>1. rows' \in [Frag -> Row \cup {NoRow}] /\ minted' \in SUBSET Frag
      BY <2>4, <2>9
    <3> QED BY <2>3, <2>6, <2>9, <3>1
  <2> QED BY <2>5, <2>7, <2>8, <2>9
<1>7. ASSUME NEW s \in Caller, NEW k \in Key, NEW items \in SUBSET Content,
             StartBatch(s, k, items)
      PROVE  TypeOK'
  <2> DEFINE p == IF k = Master THEN "store" ELSE "phaseA"
  <2>2. p \in PC
    BY DEF PC
  <2> HIDE DEF p
  <2>3. [NoCall EXCEPT !.op = "batch", !.key = k, !.items = items, !.pc = p] \in Call
    BY <2>2 DEF NoCall, Call, Op
  <2>1. [NoCall EXCEPT !.op = "batch", !.key = k, !.items = items,
                       !.pc = IF k = Master THEN "store" ELSE "phaseA"] \in Call
    BY <2>3 DEF p
  <2> QED BY <1>7, <2>1 DEF StartBatch
<1>8. ASSUME NEW s \in Caller, PhaseA(s) PROVE TypeOK'
  <2>1. \A kept \in Kept(call[s].key, call[s].items) :
          [call[s] EXCEPT !.pc = "lock", !.items = kept] \in Call
    <3> SUFFICES ASSUME NEW kept \in Kept(call[s].key, call[s].items)
                 PROVE  [call[s] EXCEPT !.pc = "lock", !.items = kept] \in Call
      OBVIOUS
    <3>1. kept \subseteq call[s].items
      BY KeptType
    <3>2. call[s] \in Call
      OBVIOUS
    <3> QED BY <3>1, <3>2 DEF Call, PC
  <2> QED BY <1>8, <2>1 DEF PhaseA, Return
<1>9. ASSUME NEW s \in Caller, LockKey(s) PROVE TypeOK'
  <2>1. [call[s] EXCEPT !.pc = "count"] \in Call /\ call[s].key \in Key
    BY DEF Call, PC
  <2> QED BY <1>9, <2>1 DEF LockKey
<1>10. ASSUME NEW s \in Caller, CountLocked(s) PROVE TypeOK'
  <2>1. \A kept \in Kept(call[s].key, call[s].items) :
          [call[s] EXCEPT !.pc = "store", !.items = kept] \in Call
    <3> SUFFICES ASSUME NEW kept \in Kept(call[s].key, call[s].items)
                 PROVE  [call[s] EXCEPT !.pc = "store", !.items = kept] \in Call
      OBVIOUS
    <3>1. kept \subseteq call[s].items
      BY KeptType
    <3>2. call[s] \in Call
      OBVIOUS
    <3> QED BY <3>1, <3>2 DEF Call, PC
  <2> QED BY <1>10, <2>1 DEF CountLocked, Return, Unlock
<1>11. ASSUME NEW s \in Caller, StoreLocked(s) PROVE TypeOK'
  <2> DEFINE k == call[s].key
             t == call[s].token
             fresh == Fresh(s)
  <2>1. PICK ids \in NewIds(fresh) :
          LET new == {ids[c] : c \in fresh} IN
          /\ rows' = [f \in Frag |->
                        IF f \in new
                        THEN NewRow(k, CHOOSE c \in fresh : ids[c] = f, t)
                        ELSE rows[f]]
          /\ minted' = minted \cup new
          /\ Written(s, IF call[s].op = "batch" \/ fresh # {} THEN new ELSE MergedInto(s),
                        IF call[s].op = "batch" THEN MergedInto(s) ELSE {})
    BY <1>11 DEF StoreLocked
  <2> DEFINE new == {ids[c] : c \in fresh}
  <2>2. fresh \subseteq Content /\ k \in Key /\ t \in Token \cup {NoToken}
    BY DEF Fresh, Call
  <2>3. new \subseteq Frag
    BY <2>1 DEF NewIds
  <2>4. \A f \in new : (CHOOSE c \in fresh : ids[c] = f) \in fresh
    OBVIOUS
  <2>5. rows' \in [Frag -> Row \cup {NoRow}]
    <3> HIDE DEF fresh, new
    <3>1. \A f \in new : NewRow(k, CHOOSE c \in fresh : ids[c] = f, t) \in Row
      BY <2>2, <2>4 DEF NewRow, Row
    <3>2. rows' = [f \in Frag |-> IF f \in new
                                  THEN NewRow(k, CHOOSE c \in fresh : ids[c] = f, t)
                                  ELSE rows[f]]
      BY <2>1 DEF new
    <3> HIDE DEF k, t
    <3> QED BY <3>1, <3>2
  <2>6. MergedInto(s) \subseteq Frag
    BY DEF MergedInto, Holding
  <2>7. call' \in [Caller -> Call]
    <3> DEFINE F == IF call[s].op = "batch" \/ fresh # {} THEN new ELSE MergedInto(s)
               M == IF call[s].op = "batch" THEN MergedInto(s) ELSE {}
    <3>1. F \in SUBSET Frag /\ M \in SUBSET Frag
      BY <2>3, <2>6
    <3>2. Written(s, F, M)
      BY <2>1
    <3> HIDE DEF F, M
    <3> QED BY <3>1, <3>2, WrittenType
  <2> QED BY <1>11, <2>1, <2>3, <2>5, <2>7 DEF StoreLocked, Unlock
<1>12. ASSUME NEW s \in Caller, StoreAborts(s) PROVE TypeOK'
  BY <1>12 DEF StoreAborts, Return, Unlock
<1>13. ASSUME NEW s \in Caller, IndexFragments(s) PROVE TypeOK'
  <2>1. [call[s] EXCEPT !.pc = "supersede"] \in Call /\ call[s].frags \in SUBSET Frag
    BY DEF Call, PC
  <2>2. call' \in [Caller -> Call]
    BY <1>13, <2>1 DEF IndexFragments, Return
  <2>3. index' \in SUBSET Frag /\ lost' \in SUBSET Frag
    BY <1>13, <2>1 DEF IndexFragments
  <2> QED BY <1>13, <2>2, <2>3 DEF IndexFragments
<1>14. ASSUME NEW s \in Caller, Supersede(s) PROVE TypeOK'
  <2>1. rows' \in [Frag -> Row \cup {NoRow}]
    <3>1. CASE rows' = rows
      BY <3>1
    <3>2. ASSUME NEW old \in Frag, rows[old] # NoRow, rows' = [rows EXCEPT ![old].live = FALSE]
          PROVE  rows' \in [Frag -> Row \cup {NoRow}]
      <4>1. [rows[old] EXCEPT !.live = FALSE] \in Row
        BY <3>2 DEF Row
      <4> QED BY <3>2, <4>1
    <3>3. call[s].old \in Frag \cup {NoFrag}
      BY DEF Call
    <3> QED BY <1>14, <3>1, <3>2, <3>3 DEF Supersede, Owns, Exists
  <2>2. acked' \in SUBSET (Key \X Token \X Frag)
    BY <1>14 DEF Supersede, Call
  <2> QED BY <1>14, <2>1, <2>2 DEF Supersede, Return
<1>15. ASSUME NEW s \in Caller, NEW k \in Key, NEW f \in Frag, NEW c \in Content,
              StartAmend(s, k, f, c)
       PROVE  TypeOK'
  <2>1. rows[f].content \in Content
    BY <1>15 DEF StartAmend, Visible, Exists, Row
  <2>2. [NoCall EXCEPT !.op = "amend", !.pc = "amend", !.key = k, !.items = {c},
                       !.frags = {f}, !.was = rows[f].content] \in Call
    BY <2>1 DEF NoCall, Call, Op, PC
  <2> QED BY <1>15, <2>2 DEF StartAmend
<1>16. ASSUME NEW s \in Caller, AmendStore(s) PROVE TypeOK'
  <2>1. call[s] \in Call
    OBVIOUS
  <2>2. [call[s] EXCEPT !.pc = "deindex", !.items = {}, !.was = NoContent] \in Call
    BY <2>1 DEF Call, PC
  <2>3. call' \in [Caller -> Call]
    BY <1>16, <2>2 DEF AmendStore, Return
  <2>4. ASSUME NEW f \in Frag, NEW c \in Content, Exists(f)
        PROVE  [rows EXCEPT ![f].content = c] \in [Frag -> Row \cup {NoRow}]
    <3>1. [rows[f] EXCEPT !.content = c] \in Row
      BY <2>4 DEF Exists, Row
    <3> QED BY <3>1
  <2>5. call[s].frags \subseteq Frag /\ call[s].items \subseteq Content
        /\ call[s].was \in Content \cup {NoContent}
    BY <2>1 DEF Call
  <2>6. rows' \in [Frag -> Row \cup {NoRow}]
    BY <1>16, <2>4, <2>5 DEF AmendStore
  <2>7. versions' \in SUBSET (Frag \X (Content \cup {NoContent}))
    BY <1>16, <2>5 DEF AmendStore
  <2> QED BY <1>16, <2>3, <2>6, <2>7 DEF AmendStore
<1>17. ASSUME NEW s \in Caller, NEW k \in Key, NEW F \in SUBSET Frag, StartForget(s, k, F)
       PROVE  TypeOK'
  <2>1. [NoCall EXCEPT !.op = "forget", !.pc = "deindex", !.key = k, !.frags = F] \in Call
    BY DEF NoCall, Call, Op, PC
  <2> QED BY <1>17, <2>1 DEF StartForget
<1>18. ASSUME NEW s \in Caller, Deindex(s) PROVE TypeOK'
  <2>1. index' \in SUBSET Frag
    BY <1>18 DEF Deindex
  <2>2. call' \in [Caller -> Call]
    BY <1>18 DEF Deindex, Call, PC
  <2> QED BY <1>18, <2>1, <2>2 DEF Deindex
<1>19. ASSUME NEW s \in Caller, Delete(s) PROVE TypeOK'
  BY <1>19 DEF Delete, Return
<1>20. CASE Restart
  <2>1. lost' \in SUBSET Frag
    BY <1>20 DEF Restart, Call
  <2> QED BY <1>20, <2>1 DEF Restart
<1>21. CASE Warmup
  BY <1>21 DEF Warmup
<1>22. CASE UNCHANGED vars
  BY <1>22 DEF vars
<1>23. ASSUME NEW s \in Caller, DeleteFails(s) PROVE TypeOK'
  <2>1. lost' \in SUBSET Frag
    BY <1>23 DEF DeleteFails, Call
  <2> QED BY <1>23, <2>1 DEF DeleteFails, Return
<1>24. CASE PruneKeywordIndexes
  <2>1. index' \in SUBSET Frag /\ lost' \in SUBSET Frag
    BY <1>24 DEF PruneKeywordIndexes
  <2> QED BY <1>24, <2>1 DEF PruneKeywordIndexes
<1> QED
  BY <1>1, <1>2, <1>3, <1>4, <1>5, <1>6, <1>7, <1>8, <1>9, <1>10, <1>11, <1>12, <1>13,
     <1>14, <1>15, <1>16, <1>17, <1>18, <1>19, <1>20, <1>21, <1>22, <1>23, <1>24
  DEF Next, Request, Step

(***************************************************************************)
(* Every reachable state is well typed.                                    *)
(***************************************************************************)
THEOREM TypeCorrect == Spec => []TypeOK
BY InitType, NextType, PTL DEF Spec

(***************************************************************************)
(* Only keys other than master ever reach the quota transactions, so the   *)
(* row lock they take is always that of a real api_keys row.               *)
(***************************************************************************)
LockShape ==
  \A s \in Caller : call[s].pc \in {"phaseA", "lock", "count"} => call[s].key # Master

LockInv == TypeOK /\ LockShape /\ LockHeldInTransaction

LEMMA InitLock == Init => LockInv
BY InitType, CallerAssumption DEF Init, LockInv, LockShape, LockHeldInTransaction, NoCall

LEMMA NextLock == LockInv /\ [Next]_vars => LockInv'
<1> SUFFICES ASSUME LockInv, [Next]_vars PROVE LockShape' /\ LockHeldInTransaction'
  BY NextType DEF LockInv
<1> USE CallerAssumption DEF LockInv, LockShape, LockHeldInTransaction, TypeOK
<1>1. ASSUME NEW s \in Caller, NEW k, NEW t, ReplayRemember(s, k, t)
      PROVE  LockShape' /\ LockHeldInTransaction'
  BY <1>1 DEF ReplayRemember, vars
<1>2. ASSUME NEW s \in Caller, NEW k \in Key, NEW c, NEW t, NEW old, StartRemember(s, k, c, t, old)
      PROVE  LockShape' /\ LockHeldInTransaction'
  BY <1>2 DEF StartRemember, NoCall, Call
<1>3. ASSUME NEW s \in Caller, CheckQuota(s) PROVE LockShape' /\ LockHeldInTransaction'
  BY <1>3 DEF CheckQuota, Return, NoCall, Call
<1>4. ASSUME NEW s \in Caller, GateRejects(s), FindDuplicate(s) PROVE LockShape' /\ LockHeldInTransaction'
  BY <1>4 DEF FindDuplicate, Return, NoCall, Call
<1>5. ASSUME NEW s \in Caller, ~GateRejects(s), FindDuplicate(s) PROVE LockShape' /\ LockHeldInTransaction'
  <2>1. ASSUME NEW f, Written(s, {f}, {}) PROVE LockShape' /\ LockHeldInTransaction'
    BY <1>5, <2>1, WrittenEffect DEF FindDuplicate
  <2>2. CASE call' = [call EXCEPT ![s].pc = "insert"]
    BY <1>5, <2>2 DEF FindDuplicate, Call
  <2> QED BY <1>5, <2>1, <2>2 DEF FindDuplicate
<1>6. ASSUME NEW s \in Caller, Insert(s) PROVE LockShape' /\ LockHeldInTransaction'
  <2>1. ASSUME NEW f, Written(s, {f}, {}) PROVE LockShape' /\ LockHeldInTransaction'
    BY <1>6, <2>1, WrittenEffect DEF Insert
  <2>2. CASE Return(s)
    BY <1>6, <2>2 DEF Insert, Return, NoCall
  <2> QED BY <1>6, <2>1, <2>2 DEF Insert
<1>7. ASSUME NEW s \in Caller, NEW k \in Key, NEW items, StartBatch(s, k, items)
      PROVE  LockShape' /\ LockHeldInTransaction'
  BY <1>7 DEF StartBatch, NoCall, Call
<1>8. ASSUME NEW s \in Caller, PhaseA(s) PROVE LockShape' /\ LockHeldInTransaction'
  BY <1>8, PhaseAEffect DEF Trimmed, NoCall
<1>9. ASSUME NEW s \in Caller, LockKey(s) PROVE LockShape' /\ LockHeldInTransaction'
  BY <1>9 DEF LockKey, Call
<1>10. ASSUME NEW s \in Caller, CountLocked(s) PROVE LockShape' /\ LockHeldInTransaction'
  <2>1. call[s].pc = "count"
    BY <1>10 DEF CountLocked
  <2>2. CASE Return(s) /\ Unlock(s)
    BY <2>1, <2>2 DEF Return, NoCall, Unlock
  <2>3. ASSUME NEW kept, lock' = lock,
               call' = [call EXCEPT ![s] = [@ EXCEPT !.pc = "store", !.items = kept]]
        PROVE  LockShape' /\ LockHeldInTransaction'
    BY <2>1, <2>3 DEF Call
  <2> QED BY <1>10, <2>2, <2>3 DEF CountLocked
<1>11. ASSUME NEW s \in Caller, StoreLocked(s) PROVE LockShape' /\ LockHeldInTransaction'
  BY <1>11, WrittenEffect DEF StoreLocked, Unlock, Call
<1>12. ASSUME NEW s \in Caller, StoreAborts(s) PROVE LockShape' /\ LockHeldInTransaction'
  BY <1>12 DEF StoreAborts, Return, NoCall, Unlock, Call
<1>13. ASSUME NEW s \in Caller, IndexFragments(s) PROVE LockShape' /\ LockHeldInTransaction'
  BY <1>13 DEF IndexFragments, Return, NoCall, Call
<1>14. ASSUME NEW s \in Caller, Supersede(s) PROVE LockShape' /\ LockHeldInTransaction'
  BY <1>14 DEF Supersede, Return, NoCall, Call
<1>15. ASSUME NEW s \in Caller, NEW k \in Key, NEW f, NEW c, StartAmend(s, k, f, c)
      PROVE  LockShape' /\ LockHeldInTransaction'
  BY <1>15 DEF StartAmend, NoCall, Call
<1>16. ASSUME NEW s \in Caller, AmendStore(s) PROVE LockShape' /\ LockHeldInTransaction'
  BY <1>16, AmendEffect DEF Trimmed, NoCall
<1>17. ASSUME NEW s \in Caller, NEW k \in Key, NEW F, StartForget(s, k, F)
      PROVE  LockShape' /\ LockHeldInTransaction'
  BY <1>17 DEF StartForget, NoCall, Call
<1>18. ASSUME NEW s \in Caller, Deindex(s) PROVE LockShape' /\ LockHeldInTransaction'
  BY <1>18 DEF Deindex, Call
<1>19. ASSUME NEW s \in Caller, Delete(s) PROVE LockShape' /\ LockHeldInTransaction'
  BY <1>19 DEF Delete, Return, NoCall, Call
<1>20. CASE Restart
  BY <1>20 DEF Restart, NoCall
<1>21. CASE Warmup
  BY <1>21 DEF Warmup
<1>22. CASE UNCHANGED vars
  BY <1>22 DEF vars
<1>23. ASSUME NEW s \in Caller, DeleteFails(s) PROVE LockShape' /\ LockHeldInTransaction'
  BY <1>23 DEF DeleteFails, Return, NoCall, Call
<1>24. CASE PruneKeywordIndexes
  BY <1>24 DEF PruneKeywordIndexes
<1> QED
  BY <1>1, <1>2, <1>3, <1>4, <1>5, <1>6, <1>7, <1>8, <1>9, <1>10, <1>11, <1>12, <1>13,
     <1>14, <1>15, <1>16, <1>17, <1>18, <1>19, <1>20, <1>21, <1>22, <1>23, <1>24
  DEF Next, Request, Step

(***************************************************************************)
(* Every rejection, rollback and commit gives the row lock back, and no    *)
(* two calls are inside the locked transaction of the same key.            *)
(***************************************************************************)
THEOREM LockSafety == Spec => []LockHeldInTransaction
<1>1. LockInv => LockHeldInTransaction
  BY DEF LockInv
<1> QED BY <1>1, InitLock, NextLock, PTL DEF Spec

(***************************************************************************)
(* The table is written in five places only; everything else leaves rows   *)
(* and the ids already given out alone.                                    *)
(***************************************************************************)
LEMMA WritersOfRows ==
  ASSUME [Next]_vars
  PROVE  \/ UNCHANGED <<rows, minted>>
         \/ \E s \in Caller : \/ Insert(s) \/ StoreLocked(s) \/ Supersede(s)
                              \/ AmendStore(s) \/ Delete(s)
<1>1. ASSUME NEW s \in Caller, Request(s) PROVE UNCHANGED <<rows, minted>>
  BY <1>1 DEF Request, ReplayRemember, StartRemember, StartBatch, StartAmend, StartForget
<1>2. ASSUME NEW s \in Caller,
             \/ CheckQuota(s) \/ FindDuplicate(s) \/ PhaseA(s) \/ LockKey(s)
             \/ CountLocked(s) \/ StoreAborts(s) \/ IndexFragments(s) \/ Deindex(s)
             \/ DeleteFails(s)
      PROVE  UNCHANGED <<rows, minted>>
  BY <1>2 DEF CheckQuota, FindDuplicate, PhaseA, LockKey, CountLocked,
              StoreAborts, IndexFragments, Deindex, DeleteFails
<1>3. PruneKeywordIndexes \/ Restart \/ Warmup \/ UNCHANGED vars => UNCHANGED <<rows, minted>>
  BY DEF PruneKeywordIndexes, Restart, Warmup, vars
<1> QED BY <1>1, <1>2, <1>3 DEF Next, Step

(***************************************************************************)
(* What the locked INSERT leaves behind: each item that no row holds has   *)
(* an id of its own, never given out before, and all other rows are as     *)
(* they were.                                                              *)
(***************************************************************************)
LEMMA StoreEffect ==
  ASSUME NEW s \in Caller, StoreLocked(s)
  PROVE  \E ids \in NewIds(Fresh(s)) :
           LET new == {ids[c] : c \in Fresh(s)} IN
           /\ \A c \in Fresh(s) : ids[c] \in Frag =>
                rows'[ids[c]] = NewRow(call[s].key, c, call[s].token)
           /\ \A f \in Frag \ new : rows'[f] = rows[f]
           /\ minted' = minted \cup new
<1> DEFINE fresh == Fresh(s)
<1>1. PICK ids \in NewIds(fresh) :
        LET new == {ids[c] : c \in fresh} IN
        /\ rows' = [f \in Frag |->
                      IF f \in new
                      THEN NewRow(call[s].key, CHOOSE c \in fresh : ids[c] = f, call[s].token)
                      ELSE rows[f]]
        /\ minted' = minted \cup new
  BY DEF StoreLocked
<1> DEFINE new == {ids[c] : c \in fresh}
<1>2. ASSUME NEW c \in fresh, ids[c] \in Frag
      PROVE  rows'[ids[c]] = NewRow(call[s].key, c, call[s].token)
  <2>1. \A d \in fresh : ids[d] = ids[c] => d = c
    BY DEF NewIds
  <2>2. (CHOOSE d \in fresh : ids[d] = ids[c]) = c
    <3> HIDE DEF fresh
    <3> QED BY <2>1
  <2> QED BY <1>1, <1>2, <2>2
<1>3. \A f \in Frag \ new : rows'[f] = rows[f]
  BY <1>1
<1> QED BY <1>1, <1>2, <1>3

(***************************************************************************)
(* Ids are never reused: a row's id has been given out.                    *)
(***************************************************************************)
RowsMinted == \A f \in Frag : Exists(f) => f \in minted

LEMMA NextMinted == TypeOK /\ RowsMinted /\ [Next]_vars => RowsMinted'
<1> SUFFICES ASSUME TypeOK, RowsMinted, [Next]_vars PROVE RowsMinted'
  OBVIOUS
<1> USE DEF RowsMinted, Exists
<1>1. CASE UNCHANGED <<rows, minted>>
  BY <1>1
<1>2. ASSUME NEW s \in Caller, Insert(s) PROVE RowsMinted'
  BY <1>2 DEF Insert, TypeOK
<1>3. ASSUME NEW s \in Caller, StoreLocked(s) PROVE RowsMinted'
  BY <1>3, StoreEffect
<1>4. ASSUME NEW s \in Caller, Supersede(s) PROVE RowsMinted'
  BY <1>4 DEF Supersede, Owns, TypeOK
<1>5. ASSUME NEW s \in Caller, AmendStore(s) PROVE RowsMinted'
  BY <1>5 DEF AmendStore, TypeOK
<1>6. ASSUME NEW s \in Caller, Delete(s) PROVE RowsMinted'
  BY <1>6 DEF Delete
<1> QED BY <1>1, <1>2, <1>3, <1>4, <1>5, <1>6, WritersOfRows

(***************************************************************************)
(* Only a remember carries an idempotency key, and it has a single item:   *)
(* no locked INSERT gives two new rows the same key.                       *)
(***************************************************************************)
OneItemPerToken ==
  \A s \in Caller : call[s].token # NoToken => \A a, b \in call[s].items : a = b

LEMMA NextOneItem == TypeOK /\ OneItemPerToken /\ [Next]_vars => OneItemPerToken'
<1> SUFFICES ASSUME TypeOK, OneItemPerToken, [Next]_vars PROVE OneItemPerToken'
  OBVIOUS
<1> USE DEF TypeOK, OneItemPerToken
<1>1. ASSUME NEW s \in Caller, NEW k, NEW t, ReplayRemember(s, k, t)
      PROVE  OneItemPerToken'
  BY <1>1 DEF ReplayRemember, vars
<1>2. ASSUME NEW s \in Caller, NEW k, NEW c, NEW t, NEW old, StartRemember(s, k, c, t, old)
      PROVE  OneItemPerToken'
  BY <1>2 DEF StartRemember, NoCall, Call
<1>3. ASSUME NEW s \in Caller, CheckQuota(s) PROVE OneItemPerToken'
  BY <1>3 DEF CheckQuota, Return, NoCall, Call
<1>4. ASSUME NEW s \in Caller, GateRejects(s), FindDuplicate(s) PROVE OneItemPerToken'
  BY <1>4 DEF FindDuplicate, Return, NoCall, Call
<1>5. ASSUME NEW s \in Caller, ~GateRejects(s), FindDuplicate(s) PROVE OneItemPerToken'
  <2>1. ASSUME NEW f, Written(s, {f}, {}) PROVE OneItemPerToken'
    BY <1>5, <2>1, WrittenEffect DEF FindDuplicate
  <2>2. CASE call' = [call EXCEPT ![s].pc = "insert"]
    BY <1>5, <2>2 DEF FindDuplicate, Call
  <2> QED BY <1>5, <2>1, <2>2 DEF FindDuplicate
<1>6. ASSUME NEW s \in Caller, Insert(s) PROVE OneItemPerToken'
  <2>1. ASSUME NEW f, Written(s, {f}, {}) PROVE OneItemPerToken'
    BY <1>6, <2>1, WrittenEffect DEF Insert
  <2>2. CASE Return(s)
    BY <1>6, <2>2 DEF Insert, Return, NoCall
  <2> QED BY <1>6, <2>1, <2>2 DEF Insert
<1>7. ASSUME NEW s \in Caller, NEW k, NEW items, StartBatch(s, k, items)
      PROVE  OneItemPerToken'
  BY <1>7 DEF StartBatch, NoCall, Call
<1>8. ASSUME NEW s \in Caller, PhaseA(s) PROVE OneItemPerToken'
  BY <1>8, PhaseAEffect DEF Trimmed, NoCall
<1>9. ASSUME NEW s \in Caller, LockKey(s) PROVE OneItemPerToken'
  BY <1>9 DEF LockKey, Call
<1>10. ASSUME NEW s \in Caller, CountLocked(s) PROVE OneItemPerToken'
  <2>1. CASE Return(s)
    BY <2>1 DEF Return, NoCall
  <2>2. ASSUME NEW kept \in Kept(call[s].key, call[s].items),
               call' = [call EXCEPT ![s] = [@ EXCEPT !.pc = "store", !.items = kept]]
        PROVE  OneItemPerToken'
    BY <2>2, KeptType DEF Call
  <2> QED BY <1>10, <2>1, <2>2 DEF CountLocked
<1>11. ASSUME NEW s \in Caller, StoreLocked(s) PROVE OneItemPerToken'
  BY <1>11, WrittenEffect DEF StoreLocked, Unlock, Call
<1>12. ASSUME NEW s \in Caller, StoreAborts(s) PROVE OneItemPerToken'
  BY <1>12 DEF StoreAborts, Return, NoCall, Unlock, Call
<1>13. ASSUME NEW s \in Caller, IndexFragments(s) PROVE OneItemPerToken'
  BY <1>13 DEF IndexFragments, Return, NoCall, Call
<1>14. ASSUME NEW s \in Caller, Supersede(s) PROVE OneItemPerToken'
  BY <1>14 DEF Supersede, Return, NoCall, Call
<1>15. ASSUME NEW s \in Caller, NEW k, NEW f, NEW c, StartAmend(s, k, f, c)
      PROVE  OneItemPerToken'
  BY <1>15 DEF StartAmend, NoCall, Call
<1>16. ASSUME NEW s \in Caller, AmendStore(s) PROVE OneItemPerToken'
  BY <1>16, AmendEffect DEF Trimmed, NoCall
<1>17. ASSUME NEW s \in Caller, NEW k, NEW F, StartForget(s, k, F)
      PROVE  OneItemPerToken'
  BY <1>17 DEF StartForget, NoCall, Call
<1>18. ASSUME NEW s \in Caller, Deindex(s) PROVE OneItemPerToken'
  BY <1>18 DEF Deindex, Call
<1>19. ASSUME NEW s \in Caller, Delete(s) PROVE OneItemPerToken'
  BY <1>19 DEF Delete, Return, NoCall, Call
<1>20. CASE Restart
  BY <1>20 DEF Restart, NoCall
<1>21. CASE Warmup
  BY <1>21 DEF Warmup
<1>22. CASE UNCHANGED vars
  BY <1>22 DEF vars
<1>23. ASSUME NEW s \in Caller, DeleteFails(s) PROVE OneItemPerToken'
  BY <1>23 DEF DeleteFails, Return, NoCall, Call
<1>24. CASE PruneKeywordIndexes
  BY <1>24 DEF PruneKeywordIndexes
<1> QED
  BY <1>1, <1>2, <1>3, <1>4, <1>5, <1>6, <1>7, <1>8, <1>9, <1>10, <1>11, <1>12, <1>13,
     <1>14, <1>15, <1>16, <1>17, <1>18, <1>19, <1>20, <1>21, <1>22, <1>23, <1>24
  DEF Next, Request, Step

DuplicateInv == TypeOK /\ RowsMinted /\ OneItemPerToken /\ NoDuplicateRows

LEMMA InitDuplicate == Init => DuplicateInv
BY InitType DEF Init, DuplicateInv, RowsMinted, OneItemPerToken, NoDuplicateRows, Exists, NoCall

LEMMA NewRowFields ==
  ASSUME NEW k, NEW c, NEW t
  PROVE  /\ NewRow(k, c, t).key = k /\ NewRow(k, c, t).content = c
         /\ NewRow(k, c, t).token = t /\ NewRow(k, c, t).live
BY DEF NewRow

LEMMA NextDuplicate == DuplicateInv /\ [Next]_vars => DuplicateInv'
<1> SUFFICES ASSUME DuplicateInv, [Next]_vars PROVE NoDuplicateRows'
  BY NextType, NextMinted, NextOneItem DEF DuplicateInv
<1> USE NoRowAssumption DEF DuplicateInv, RowsMinted, NoDuplicateRows, Exists
<1>1. CASE UNCHANGED <<rows, minted>>
  BY <1>1
<1>2. ASSUME NEW s \in Caller, Insert(s) PROVE NoDuplicateRows'
  <2> DEFINE k == call[s].key
             t == call[s].token
  <2>1. ASSUME NEW c, NEW f \in Frag \ minted, Holding(k, c) = {}, ~TokenTaken(k, t),
               rows' = [rows EXCEPT ![f] = NewRow(k, c, t)]
        PROVE  NoDuplicateRows'
    <3>1. rows'[f].key = k /\ rows'[f].content = c /\ rows'[f].token = t
      BY <2>1 DEF TypeOK, NewRow
    <3>2. \A g \in Frag \ {f} : rows'[g] = rows[g]
      BY <2>1 DEF TypeOK
    <3>3. \A g \in Frag : Exists(g) /\ rows[g].key = k =>
            rows[g].content # c /\ (t # NoToken => rows[g].token # t)
      BY <2>1 DEF Holding, TokenTaken, Carrying
    <3> QED BY <3>1, <3>2, <3>3
  <2> QED BY <1>2, <2>1 DEF Insert
<1>3. ASSUME NEW s \in Caller, StoreLocked(s) PROVE NoDuplicateRows'
  <2> DEFINE k == call[s].key
             t == call[s].token
             fresh == Fresh(s)
  <2>1. PICK ids \in NewIds(fresh) :
          LET new == {ids[c] : c \in fresh} IN
          /\ \A c \in fresh : ids[c] \in Frag => rows'[ids[c]] = NewRow(k, c, t)
          /\ \A f \in Frag \ new : rows'[f] = rows[f]
    BY <1>3, StoreEffect
  <2> DEFINE new == {ids[c] : c \in fresh}
  <2>2. \A f \in Frag \ new : rows'[f] = rows[f]
    BY <2>1
  <2>3. \A f \in new : /\ f \in Frag \ minted
                      /\ \E c \in fresh : f = ids[c] /\ rows'[f] = NewRow(k, c, t)
    BY <2>1 DEF NewIds
  <2>4. fresh \subseteq call[s].items /\ \A c \in fresh : Holding(k, c) = {}
    BY DEF Fresh
  <2>5. fresh # {} => ~TokenTaken(k, t)
    BY <1>3 DEF StoreLocked
  <2> HIDE DEF new, fresh
  <2>6. ASSUME NEW f \in new
        PROVE  \E c \in fresh : f = ids[c] /\ rows'[f].key = k /\ rows'[f].content = c
                               /\ rows'[f].token = t
    BY <2>3, NewRowFields
  <2>7. ASSUME NEW f \in new, NEW g \in new, f # g
        PROVE  rows'[f].content # rows'[g].content /\ t = NoToken
    BY <2>4, <2>6, <2>7 DEF OneItemPerToken
  <2>8. ASSUME NEW f \in new, NEW g \in Frag \ new, Exists(g), rows[g].key = k
        PROVE  /\ rows'[f].content # rows[g].content
               /\ t # NoToken => t # rows[g].token
    BY <2>4, <2>5, <2>6, <2>8 DEF TokenTaken, Carrying, Holding
  <2> QED BY <2>2, <2>6, <2>7, <2>8
<1>4. ASSUME NEW s \in Caller, Supersede(s) PROVE NoDuplicateRows'
  BY <1>4 DEF Supersede, Owns, TypeOK, Row
<1>5. ASSUME NEW s \in Caller, AmendStore(s) PROVE NoDuplicateRows'
  BY <1>5 DEF AmendStore, Holding, TypeOK, Row
<1>6. ASSUME NEW s \in Caller, Delete(s) PROVE NoDuplicateRows'
  BY <1>6 DEF Delete
<1> QED BY <1>1, <1>2, <1>3, <1>4, <1>5, <1>6, WritersOfRows

(***************************************************************************)
(* However the calls race, a key never has two rows of one content or of   *)
(* one idempotency key.                                                    *)
(***************************************************************************)
THEOREM NoDuplicates == Spec => []NoDuplicateRows
<1>1. DuplicateInv => NoDuplicateRows
  BY DEF DuplicateInv
<1> QED BY <1>1, InitDuplicate, NextDuplicate, PTL DEF Spec

(***************************************************************************)
(* Quota. A call between QuotaChecker.check and its INSERT is as good as a *)
(* row: it is counted with the live rows, and so are the items of the one  *)
(* call that is past the count inside the locked transaction.              *)
(***************************************************************************)
Slack == IF AtomicRemember THEN 0 ELSE Cardinality(Caller) - 1

Load(k) == Cardinality(Live(k)) + Cardinality(PendingInserts(k))

Room(k) ==
  /\ Load(k) <= Limit[k] + Slack
  /\ \A s \in Caller : (call[s].pc = "store" /\ call[s].key = k) =>
       Load(k) + Cardinality(call[s].items) <= Limit[k] + Slack

\* the atomic remember leaves the unlocked path to the master key
UnlockedPathShape ==
  \A s \in Caller :
    (AtomicRemember /\ call[s].pc \in {"quota", "gate", "insert"}) => call[s].key = Master

QuotaInv ==
  /\ LockInv /\ RowsMinted /\ UnlockedPathShape
  /\ \A k \in LimitedKey : Room(k)

LEMMA NextUnlockedPath == TypeOK /\ UnlockedPathShape /\ [Next]_vars => UnlockedPathShape'
<1> SUFFICES ASSUME TypeOK, UnlockedPathShape, [Next]_vars PROVE UnlockedPathShape'
  OBVIOUS
<1> USE DEF TypeOK, UnlockedPathShape
<1>1. ASSUME NEW s \in Caller, NEW k, NEW t, ReplayRemember(s, k, t)
      PROVE  UnlockedPathShape'
  BY <1>1 DEF ReplayRemember, vars
<1>2. ASSUME NEW s \in Caller, NEW k, NEW c, NEW t, NEW old, StartRemember(s, k, c, t, old)
      PROVE  UnlockedPathShape'
  BY <1>2 DEF StartRemember, NoCall, Call
<1>3. ASSUME NEW s \in Caller, CheckQuota(s) PROVE UnlockedPathShape'
  BY <1>3 DEF CheckQuota, Return, NoCall, Call
<1>4. ASSUME NEW s \in Caller, GateRejects(s), FindDuplicate(s) PROVE UnlockedPathShape'
  BY <1>4 DEF FindDuplicate, Return, NoCall, Call
<1>5. ASSUME NEW s \in Caller, ~GateRejects(s), FindDuplicate(s) PROVE UnlockedPathShape'
  <2>1. ASSUME NEW f, Written(s, {f}, {}) PROVE UnlockedPathShape'
    BY <1>5, <2>1, WrittenEffect DEF FindDuplicate
  <2>2. CASE call' = [call EXCEPT ![s].pc = "insert"]
    BY <1>5, <2>2 DEF FindDuplicate, Call
  <2> QED BY <1>5, <2>1, <2>2 DEF FindDuplicate
<1>6. ASSUME NEW s \in Caller, Insert(s) PROVE UnlockedPathShape'
  <2>1. ASSUME NEW f, Written(s, {f}, {}) PROVE UnlockedPathShape'
    BY <1>6, <2>1, WrittenEffect DEF Insert
  <2>2. CASE Return(s)
    BY <1>6, <2>2 DEF Insert, Return, NoCall
  <2> QED BY <1>6, <2>1, <2>2 DEF Insert
<1>7. ASSUME NEW s \in Caller, NEW k, NEW items, StartBatch(s, k, items)
      PROVE  UnlockedPathShape'
  BY <1>7 DEF StartBatch, NoCall, Call
<1>8. ASSUME NEW s \in Caller, PhaseA(s) PROVE UnlockedPathShape'
  BY <1>8, PhaseAEffect DEF Trimmed, NoCall
<1>9. ASSUME NEW s \in Caller, LockKey(s) PROVE UnlockedPathShape'
  BY <1>9 DEF LockKey, Call
<1>10. ASSUME NEW s \in Caller, CountLocked(s) PROVE UnlockedPathShape'
  <2>1. CASE Return(s)
    BY <2>1 DEF Return, NoCall
  <2>2. ASSUME NEW kept, call' = [call EXCEPT ![s] = [@ EXCEPT !.pc = "store", !.items = kept]]
        PROVE  UnlockedPathShape'
    BY <2>2 DEF Call
  <2> QED BY <1>10, <2>1, <2>2 DEF CountLocked
<1>11. ASSUME NEW s \in Caller, StoreLocked(s) PROVE UnlockedPathShape'
  BY <1>11, WrittenEffect DEF StoreLocked, Unlock, Call
<1>12. ASSUME NEW s \in Caller, StoreAborts(s) PROVE UnlockedPathShape'
  BY <1>12 DEF StoreAborts, Return, NoCall, Unlock, Call
<1>13. ASSUME NEW s \in Caller, IndexFragments(s) PROVE UnlockedPathShape'
  BY <1>13 DEF IndexFragments, Return, NoCall, Call
<1>14. ASSUME NEW s \in Caller, Supersede(s) PROVE UnlockedPathShape'
  BY <1>14 DEF Supersede, Return, NoCall, Call
<1>15. ASSUME NEW s \in Caller, NEW k, NEW f, NEW c, StartAmend(s, k, f, c)
      PROVE  UnlockedPathShape'
  BY <1>15 DEF StartAmend, NoCall, Call
<1>16. ASSUME NEW s \in Caller, AmendStore(s) PROVE UnlockedPathShape'
  BY <1>16, AmendEffect DEF Trimmed, NoCall
<1>17. ASSUME NEW s \in Caller, NEW k, NEW F, StartForget(s, k, F)
      PROVE  UnlockedPathShape'
  BY <1>17 DEF StartForget, NoCall, Call
<1>18. ASSUME NEW s \in Caller, Deindex(s) PROVE UnlockedPathShape'
  BY <1>18 DEF Deindex, Call
<1>19. ASSUME NEW s \in Caller, Delete(s) PROVE UnlockedPathShape'
  BY <1>19 DEF Delete, Return, NoCall, Call
<1>20. CASE Restart
  BY <1>20 DEF Restart, NoCall
<1>21. CASE Warmup
  BY <1>21 DEF Warmup
<1>22. CASE UNCHANGED vars
  BY <1>22 DEF vars
<1>23. ASSUME NEW s \in Caller, DeleteFails(s) PROVE UnlockedPathShape'
  BY <1>23 DEF DeleteFails, Return, NoCall, Call
<1>24. CASE PruneKeywordIndexes
  BY <1>24 DEF PruneKeywordIndexes
<1> QED
  BY <1>1, <1>2, <1>3, <1>4, <1>5, <1>6, <1>7, <1>8, <1>9, <1>10, <1>11, <1>12, <1>13,
     <1>14, <1>15, <1>16, <1>17, <1>18, <1>19, <1>20, <1>21, <1>22, <1>23, <1>24
  DEF Next, Request, Step

LEMMA Finiteness ==
  ASSUME TypeOK, NEW k
  PROVE  /\ IsFiniteSet(Live(k)) /\ Cardinality(Live(k)) \in Nat
         /\ IsFiniteSet(PendingInserts(k)) /\ Cardinality(PendingInserts(k)) \in Nat
         /\ Cardinality(PendingInserts(k)) <= Cardinality(Caller)
         /\ Cardinality(Caller) \in Nat \ {0}
         /\ \A s \in Caller : /\ IsFiniteSet(call[s].items)
                              /\ Cardinality(call[s].items) \in Nat
<1>1. IsFiniteSet(Live(k))
  BY FS_Subset, DataAssumption DEF Live
<1>2. IsFiniteSet(PendingInserts(k)) /\ Cardinality(PendingInserts(k)) <= Cardinality(Caller)
  BY FS_Subset, CallerAssumption DEF PendingInserts
<1>3. ASSUME NEW s \in Caller PROVE IsFiniteSet(call[s].items)
  <2>1. call[s].items \in SUBSET Content
    BY DEF TypeOK, Call
  <2> QED BY <2>1, FS_Subset, DataAssumption
<1>4. Cardinality(Caller) \in Nat \ {0}
  BY FS_EmptySet, FS_CardinalityType, CallerAssumption
<1> QED BY <1>1, <1>2, <1>3, <1>4, FS_CardinalityType

LEMMA KeptFits ==
  ASSUME TypeOK, NEW k \in LimitedKey, NEW items, NEW kept \in Kept(k, items)
  PROVE  Cardinality(kept) <= Limit[k] - Cardinality(Live(k))
<1>1. CASE Fits(k, items)
  BY <1>1 DEF Kept, Fits
<1>2. CASE ~Fits(k, items)
  <2>1. Cardinality(kept) = Limit[k] - Cardinality(Live(k))
    BY <1>2 DEF Kept
  <2> QED BY <2>1, Finiteness, KeyAssumption
<1> QED BY <1>1, <1>2

LEMMA SlackType == Slack \in Nat
BY FS_EmptySet, FS_CardinalityType, CallerAssumption, DataAssumption DEF Slack

(***************************************************************************)
(* A step is quiet for a key when it adds no row to count, lets no further *)
(* call past the quota check and brings no call into the locked INSERT.    *)
(***************************************************************************)
QuietCalls(k) ==
  /\ PendingInserts(k)' \subseteq PendingInserts(k)
  /\ \A s \in Caller : (call'[s].pc = "store" /\ call'[s].key = k) =>
       call'[s] = call[s]

LEMMA QuietKeepsRoom ==
  ASSUME TypeOK, TypeOK', NEW k \in LimitedKey, Room(k),
         QuietCalls(k), Live(k)' \subseteq Live(k)
  PROVE  Room(k)'
<1>1. Cardinality(Live(k))' <= Cardinality(Live(k))
  BY Finiteness, FS_Subset
<1>2. Cardinality(PendingInserts(k))' <= Cardinality(PendingInserts(k))
  BY Finiteness, FS_Subset DEF QuietCalls
<1>3. Load(k)' <= Load(k) /\ Load(k) \in Nat /\ Load(k)' \in Nat
  <2>1. /\ Cardinality(Live(k)) \in Nat /\ Cardinality(PendingInserts(k)) \in Nat
        /\ Cardinality(Live(k))' \in Nat /\ Cardinality(PendingInserts(k))' \in Nat
    <3>1. Cardinality(Live(k)) \in Nat /\ Cardinality(PendingInserts(k)) \in Nat
      BY Finiteness
    <3>2. Cardinality(Live(k))' \in Nat /\ Cardinality(PendingInserts(k))' \in Nat
      BY Finiteness, FS_Subset, FS_CardinalityType DEF QuietCalls
    <3> QED BY <3>1, <3>2
  <2> QED BY <1>1, <1>2, <2>1 DEF Load
<1>4. Limit[k] + Slack \in Nat
  BY SlackType, KeyAssumption
<1>5. Load(k)' <= Limit[k] + Slack
  BY <1>3, <1>4 DEF Room
<1>6. ASSUME NEW s \in Caller, call'[s].pc = "store", call'[s].key = k
      PROVE  Load(k)' + Cardinality(call'[s].items) <= Limit[k] + Slack
  <2>1. call'[s] = call[s]
    BY <1>6 DEF QuietCalls
  <2>2. Load(k) + Cardinality(call[s].items) <= Limit[k] + Slack
    BY <1>6, <2>1 DEF Room
  <2>3. Cardinality(call[s].items) \in Nat
    BY Finiteness
  <2> QED BY <1>3, <1>4, <2>1, <2>2, <2>3
<1> QED BY <1>5, <1>6 DEF Room

LEMMA InitQuota == Init => QuotaInv
<1>0. Init => LockInv /\ RowsMinted /\ UnlockedPathShape
  BY InitLock DEF Init, RowsMinted, UnlockedPathShape, Exists, NoCall
<1> SUFFICES ASSUME Init, NEW k \in LimitedKey PROVE Room(k)
  BY <1>0 DEF QuotaInv
<1>1. Live(k) = {} /\ PendingInserts(k) = {}
  BY DEF Init, Live, Exists, PendingInserts, NoCall
<1>2. Load(k) = 0
  BY <1>1, FS_EmptySet DEF Load
<1>3. \A s \in Caller : call[s].pc # "store"
  BY DEF Init, NoCall
<1> QED BY <1>2, <1>3, SlackType, KeyAssumption DEF Room

LEMMA NextQuota == QuotaInv /\ [Next]_vars => QuotaInv'
<1> SUFFICES ASSUME QuotaInv, [Next]_vars, NEW k \in LimitedKey
             PROVE  Room(k)'
  BY NextLock, NextMinted, NextUnlockedPath DEF QuotaInv, LockInv
<1> USE DEF QuotaInv, LockInv, TypeOK
<1>a. TypeOK'
  BY NextType
<1>b. k \in Key /\ k # Master /\ Room(k)
  BY KeyAssumption
<1>0. ASSUME UNCHANGED rows, QuietCalls(k) PROVE Room(k)'
  <2>1. Live(k)' = Live(k)
    BY <1>0 DEF Live, Exists
  <2> QED BY <1>0, <1>a, <1>b, <2>1, QuietKeepsRoom
<1>1. ASSUME NEW s \in Caller, NEW j, NEW t, ReplayRemember(s, j, t)
      PROVE  Room(k)'
  <2>1. UNCHANGED rows /\ QuietCalls(k)
    BY <1>1 DEF ReplayRemember, QuietCalls, PendingInserts
  <2> QED BY <2>1, <1>0
<1>2. ASSUME NEW s \in Caller, NEW j, NEW c, NEW t, NEW old, StartRemember(s, j, c, t, old)
      PROVE  Room(k)'
  <2>1. UNCHANGED rows /\ QuietCalls(k)
    BY <1>2 DEF StartRemember, NoCall, Call, QuietCalls, PendingInserts
  <2> QED BY <2>1, <1>0
<1>3. ASSUME NEW s \in Caller, CheckQuota(s) PROVE Room(k)'
  <2>1. CASE call[s].key # k \/ Full(k)
    <3>1. UNCHANGED rows /\ QuietCalls(k)
      BY <1>3, <2>1 DEF CheckQuota, Return, NoCall, Call, QuietCalls, PendingInserts
    <3> QED BY <3>1, <1>0
  <2>2. CASE call[s].key = k /\ ~Full(k)
    <3>1. /\ UNCHANGED rows /\ call[s].pc = "quota" /\ lock[k] = NoCaller
          /\ call' = [call EXCEPT ![s].pc = "gate"]
      BY <1>3, <2>2 DEF CheckQuota
    <3>2. Live(k)' = Live(k)
      BY <3>1 DEF Live, Exists
    <3>3. Cardinality(Live(k)) <= Limit[k] - 1
      BY <2>2, Finiteness, KeyAssumption DEF Full
    <3>4. Cardinality(PendingInserts(k)') <= Cardinality(Caller) /\ Cardinality(PendingInserts(k)') \in Nat
      BY FS_Subset, FS_CardinalityType, CallerAssumption DEF PendingInserts
    <3>5. Slack = Cardinality(Caller) - 1
      BY <2>2, <3>1, <1>b DEF UnlockedPathShape, Slack
    <3>6. Load(k)' <= Limit[k] + Slack
      <4>1. Load(k)' = Cardinality(Live(k)) + Cardinality(PendingInserts(k)')
        BY <3>2 DEF Load
      <4>2. Cardinality(Live(k)) \in Nat /\ Cardinality(Caller) \in Nat /\ Limit[k] \in Nat
        BY Finiteness, KeyAssumption
      <4> QED BY <3>3, <3>4, <3>5, <4>1, <4>2
    <3>7. \A x \in Caller : ~(call'[x].pc = "store" /\ call'[x].key = k)
      BY <3>1, <1>b, CallerAssumption DEF LockHeldInTransaction, Call
    <3> QED BY <3>6, <3>7 DEF Room
  <2> QED BY <2>1, <2>2
<1>4. ASSUME NEW s \in Caller, GateRejects(s), FindDuplicate(s) PROVE Room(k)'
  <2>1. UNCHANGED rows /\ QuietCalls(k)
    BY <1>4 DEF FindDuplicate, Return, NoCall, Call, QuietCalls, PendingInserts
  <2> QED BY <2>1, <1>0
<1>5. ASSUME NEW s \in Caller, ~GateRejects(s), FindDuplicate(s) PROVE Room(k)'
  <2>1. UNCHANGED rows /\ QuietCalls(k)
    <3>1. ASSUME NEW f, Written(s, {f}, {}) PROVE QuietCalls(k)
      BY <1>5, <3>1, WrittenEffect DEF FindDuplicate, QuietCalls, PendingInserts
    <3>2. CASE call' = [call EXCEPT ![s].pc = "insert"]
      BY <1>5, <3>2 DEF FindDuplicate, Call, QuietCalls, PendingInserts
    <3> QED BY <1>5, <3>1, <3>2 DEF FindDuplicate
  <2> QED BY <2>1, <1>0
<1>6. ASSUME NEW s \in Caller, Insert(s) PROVE Room(k)'
  <2>1. CASE UNCHANGED rows
    <3>1. QuietCalls(k)
      <4>1. ASSUME NEW f, Written(s, {f}, {}) PROVE QuietCalls(k)
        BY <1>6, <4>1, WrittenEffect DEF Insert, QuietCalls, PendingInserts
      <4>2. CASE Return(s)
        BY <1>6, <4>2 DEF Insert, Return, NoCall, QuietCalls, PendingInserts
      <4> QED BY <1>6, <4>1, <4>2 DEF Insert
    <3> QED BY <2>1, <3>1, <1>0
  <2>2. ASSUME NEW c, NEW f \in Frag \ minted,
               rows' = [rows EXCEPT ![f] = NewRow(call[s].key, c, call[s].token)],
               Written(s, {f}, {})
        PROVE  Room(k)'
    <3>1. rows'[f].key = call[s].key /\ \A g \in Frag \ {f} : rows'[g] = rows[g]
      BY <2>2, NewRowFields
    <3>2. call[s].pc = "insert"
      BY <1>6 DEF Insert
    <3>3. CASE call[s].key # k
      <4>1. Live(k)' \subseteq Live(k)
        BY <3>1, <3>3 DEF Live, Exists
      <4>2. QuietCalls(k)
        BY <2>2, <3>3, WrittenEffect DEF Call, QuietCalls, PendingInserts
      <4> QED BY <4>1, <4>2, <1>a, <1>b, QuietKeepsRoom
    <3>4. CASE call[s].key = k
      <4>1. Live(k)' \subseteq Live(k) \cup {f}
        BY <3>1 DEF Live, Exists
      <4>2. PendingInserts(k)' = PendingInserts(k) \ {s} /\ s \in PendingInserts(k)
        BY <2>2, <3>2, <3>4, WrittenEffect DEF Call, PendingInserts
      <4>3. Cardinality(Live(k)') <= Cardinality(Live(k)) + 1 /\ Cardinality(Live(k)') \in Nat
        <5>1. /\ IsFiniteSet(Live(k) \cup {f}) /\ Cardinality(Live(k)) \in Nat
              /\ Cardinality(Live(k) \cup {f}) <= Cardinality(Live(k)) + 1
          <6>1. IsFiniteSet(Live(k)) /\ Cardinality(Live(k)) \in Nat
            BY Finiteness
          <6>2. /\ IsFiniteSet(Live(k) \cup {f})
                /\ \/ Cardinality(Live(k) \cup {f}) = Cardinality(Live(k))
                   \/ Cardinality(Live(k) \cup {f}) = Cardinality(Live(k)) + 1
            BY <6>1, FS_AddElement
          <6> QED BY <6>1, <6>2
        <5>2. /\ Cardinality(Live(k)') <= Cardinality(Live(k) \cup {f})
              /\ IsFiniteSet(Live(k)')
          BY <4>1, <5>1, FS_Subset
        <5>3. Cardinality(Live(k)') \in Nat /\ Cardinality(Live(k) \cup {f}) \in Nat
          BY <5>1, <5>2, FS_CardinalityType
        <5> QED BY <5>1, <5>2, <5>3
      <4>4. Cardinality(PendingInserts(k)') = Cardinality(PendingInserts(k)) - 1
        <5>1. IsFiniteSet(PendingInserts(k))
          BY Finiteness
        <5> DEFINE P == PendingInserts(k)
        <5>2. IsFiniteSet(P) /\ s \in P /\ PendingInserts(k)' = P \ {s}
          BY <4>2, <5>1
        <5> HIDE DEF P
        <5>3. Cardinality(P \ {s}) = Cardinality(P) - 1
          BY <5>2, FS_RemoveElement
        <5> QED BY <5>2, <5>3 DEF P
      <4>5. Load(k)' <= Load(k) /\ Load(k)' \in Int /\ Load(k) \in Int
        <5>1. Load(k)' = Cardinality(Live(k)') + Cardinality(PendingInserts(k)')
          BY DEF Load
        <5> QED BY <4>3, <4>4, <5>1, Finiteness DEF Load
      <4>6. \A x \in Caller : (call'[x].pc = "store" /\ call'[x].key = k) => call'[x] = call[x]
        BY <2>2, WrittenEffect DEF Call
      <4>7. \A x \in Caller : Cardinality(call[x].items) \in Nat
        BY Finiteness
      <4>8. Limit[k] + Slack \in Int
        BY SlackType, KeyAssumption
      <4>9. Load(k)' <= Limit[k] + Slack
        BY <4>5, <4>8, <1>b DEF Room
      <4>10. ASSUME NEW x \in Caller, call'[x].pc = "store", call'[x].key = k
             PROVE  Load(k)' + Cardinality(call'[x].items) <= Limit[k] + Slack
        <5>1. call'[x] = call[x]
          BY <4>6, <4>10
        <5>2. Load(k) + Cardinality(call[x].items) <= Limit[k] + Slack
          BY <4>10, <5>1, <1>b DEF Room
        <5> QED BY <4>5, <4>7, <4>8, <5>1, <5>2
      <4> QED BY <4>9, <4>10 DEF Room
    <3> QED BY <3>3, <3>4
  <2> QED BY <1>6, <2>1, <2>2 DEF Insert
<1>7. ASSUME NEW s \in Caller, NEW j, NEW items, StartBatch(s, j, items)
      PROVE  Room(k)'
  <2>1. UNCHANGED rows /\ QuietCalls(k)
    BY <1>7, <1>b DEF StartBatch, NoCall, Call, QuietCalls, PendingInserts
  <2> QED BY <2>1, <1>0
<1>8. ASSUME NEW s \in Caller, PhaseA(s) PROVE Room(k)'
  <2>1. UNCHANGED rows /\ QuietCalls(k)
    BY <1>8, PhaseAEffect DEF Trimmed, NoCall, QuietCalls, PendingInserts
  <2> QED BY <2>1, <1>0
<1>9. ASSUME NEW s \in Caller, LockKey(s) PROVE Room(k)'
  <2>1. UNCHANGED rows /\ QuietCalls(k)
    BY <1>9 DEF LockKey, Call, QuietCalls, PendingInserts
  <2> QED BY <2>1, <1>0
<1>10. ASSUME NEW s \in Caller, CountLocked(s) PROVE Room(k)'
  <2>1. CASE Return(s)
    <3>1. UNCHANGED rows /\ QuietCalls(k)
      BY <1>10, <2>1 DEF CountLocked, Return, NoCall, Call, QuietCalls, PendingInserts
    <3> QED BY <3>1, <1>0
  <2>2. ASSUME NEW kept \in Kept(call[s].key, call[s].items), ~Full(call[s].key),
               call' = [call EXCEPT ![s] = [@ EXCEPT !.pc = "store", !.items = kept]]
        PROVE  Room(k)'
    <3>1. UNCHANGED <<rows, lock>> /\ call[s].pc = "count"
      BY <1>10, <2>2 DEF CountLocked, Return, NoCall, Call
    <3>2. CASE call[s].key # k
      <4>1. QuietCalls(k)
        BY <2>2, <3>2 DEF Call, QuietCalls, PendingInserts
      <4> QED BY <3>1, <4>1, <1>0
    <3>3. CASE call[s].key = k
      <4>1. Cardinality(kept) <= Limit[k] - Cardinality(Live(k))
        BY <2>2, <3>3, KeptFits
      <4>2. PendingInserts(k)' = PendingInserts(k) /\ s \notin PendingInserts(k)
        BY <2>2, <3>1 DEF Call, PendingInserts
      <4>3. Cardinality(PendingInserts(k)) <= Slack
        <5>1. CASE AtomicRemember
          <6>1. PendingInserts(k) = {}
            BY <5>1, <1>b DEF PendingInserts, UnlockedPathShape
          <6> QED BY <5>1, <6>1, FS_EmptySet DEF Slack
        <5>2. CASE ~AtomicRemember
          <6>1. PendingInserts(k) \subseteq Caller \ {s}
            BY <4>2 DEF PendingInserts
          <6>2. /\ IsFiniteSet(Caller \ {s})
                /\ Cardinality(Caller \ {s}) = Cardinality(Caller) - 1
            BY FS_RemoveElement, CallerAssumption
          <6> QED BY <5>2, <6>1, <6>2, FS_Subset DEF Slack
        <5> QED BY <5>1, <5>2
      <4>4. Load(k)' = Cardinality(Live(k)) + Cardinality(PendingInserts(k))
        <5>1. Live(k)' = Live(k)
          BY <3>1 DEF Live, Exists
        <5> QED BY <4>2, <5>1 DEF Load
      <4>5. \A x \in Caller : (call'[x].pc = "store" /\ call'[x].key = k) => x = s
        BY <2>2, <3>1, <3>3, <1>b DEF LockHeldInTransaction, Call
      <4>6. call'[s].items = kept
        BY <2>2 DEF Call
      <4>7. /\ Cardinality(kept) \in Nat /\ Cardinality(Live(k)) \in Nat
            /\ Cardinality(PendingInserts(k)) \in Nat /\ Limit[k] \in Nat /\ Slack \in Nat
        <5>1. IsFiniteSet(kept)
          BY <2>2, KeptType, Finiteness, FS_Subset
        <5> QED BY <5>1, Finiteness, FS_CardinalityType, SlackType, KeyAssumption
      <4>8. /\ Load(k)' <= Limit[k] + Slack
            /\ Load(k)' + Cardinality(kept) <= Limit[k] + Slack
        BY <4>1, <4>3, <4>4, <4>7
      <4> QED BY <4>5, <4>6, <4>8 DEF Room
    <3> QED BY <3>2, <3>3
  <2> QED BY <1>10, <2>1, <2>2 DEF CountLocked
<1>11. ASSUME NEW s \in Caller, StoreLocked(s) PROVE Room(k)'
  <2> DEFINE fresh == Fresh(s)
  <2>1. PICK ids \in NewIds(fresh) :
          LET new == {ids[c] : c \in fresh} IN
          /\ \A c \in fresh : ids[c] \in Frag =>
               rows'[ids[c]] = NewRow(call[s].key, c, call[s].token)
          /\ \A f \in Frag \ new : rows'[f] = rows[f]
    BY <1>11, StoreEffect
  <2> DEFINE new == {ids[c] : c \in fresh}
  <2>2. ids \in Surjection(fresh, new)
    BY DEF NewIds, Surjection
  <2>3. fresh \subseteq call[s].items
    BY DEF Fresh
  <2>4. \A f \in new : \E c \in fresh : rows'[f] = NewRow(call[s].key, c, call[s].token)
    BY <2>1 DEF NewIds
  <2>5. \A f \in Frag \ new : rows'[f] = rows[f]
    BY <2>1
  <2>6. /\ call[s].pc = "store"
        /\ \E G, H : Written(s, G, H)
    BY <1>11 DEF StoreLocked
  <2> HIDE DEF fresh, new
  <2>7. \A f \in new : rows'[f].key = call[s].key
    BY <2>4, NewRowFields
  <2>8. CASE call[s].key # k
    <3>1. Live(k)' \subseteq Live(k)
      BY <2>5, <2>7, <2>8 DEF Live, Exists
    <3>2. QuietCalls(k)
      BY <2>6, <2>8, WrittenEffect DEF Call, QuietCalls, PendingInserts
    <3> QED BY <3>1, <3>2, <1>a, <1>b, QuietKeepsRoom
  <2>9. CASE call[s].key = k
    <3>1. /\ IsFiniteSet(new) /\ Cardinality(new) \in Nat
          /\ Cardinality(new) <= Cardinality(call[s].items)
      <4>1. IsFiniteSet(fresh) /\ Cardinality(fresh) <= Cardinality(call[s].items)
        BY <2>3, Finiteness, FS_Subset
      <4>2. IsFiniteSet(new) /\ Cardinality(new) <= Cardinality(fresh)
        BY <2>2, <4>1, FS_Surjection
      <4> QED BY <4>1, <4>2, Finiteness, FS_CardinalityType
    <3>2. Live(k)' \subseteq Live(k) \cup new
      BY <2>5 DEF Live, Exists
    <3>3. Cardinality(Live(k)') <= Cardinality(Live(k)) + Cardinality(new)
          /\ Cardinality(Live(k)') \in Nat
      <4>1. /\ IsFiniteSet(Live(k) \cup new)
            /\ Cardinality(Live(k) \cup new) =
                 Cardinality(Live(k)) + Cardinality(new) - Cardinality(Live(k) \cap new)
        BY <3>1, Finiteness, FS_Union
      <4>2. Cardinality(Live(k) \cap new) \in Nat
        BY <3>1, FS_Subset, FS_CardinalityType
      <4>3. Cardinality(Live(k)') <= Cardinality(Live(k) \cup new) /\ IsFiniteSet(Live(k)')
        BY <3>2, <4>1, FS_Subset
      <4>4. Cardinality(Live(k)') \in Nat /\ Cardinality(Live(k)) \in Nat
        BY <4>3, Finiteness, FS_CardinalityType
      <4> QED BY <3>1, <4>1, <4>2, <4>3, <4>4
    <3>4. PendingInserts(k)' = PendingInserts(k)
      BY <2>6, WrittenEffect DEF Call, PendingInserts
    <3>5. Load(k) + Cardinality(call[s].items) <= Limit[k] + Slack
      BY <2>6, <2>9 DEF Room
    <3>6. Load(k)' <= Limit[k] + Slack
      <4>1. Load(k)' = Cardinality(Live(k)') + Cardinality(PendingInserts(k))
        BY <3>4 DEF Load
      <4>2. /\ Cardinality(Live(k)) \in Nat /\ Cardinality(PendingInserts(k)) \in Nat
            /\ Cardinality(call[s].items) \in Nat /\ Limit[k] \in Nat /\ Slack \in Nat
        BY Finiteness, SlackType, KeyAssumption
      <4> QED BY <3>1, <3>3, <3>5, <4>1, <4>2 DEF Load
    <3>7. \A x \in Caller : ~(call'[x].pc = "store" /\ call'[x].key = k)
      BY <2>6, <2>9, <1>b, WrittenEffect DEF Call, LockHeldInTransaction
    <3> QED BY <3>6, <3>7 DEF Room
  <2> QED BY <2>8, <2>9
<1>12. ASSUME NEW s \in Caller, StoreAborts(s) PROVE Room(k)'
  <2>1. UNCHANGED rows /\ QuietCalls(k)
    BY <1>12 DEF StoreAborts, Return, NoCall, Unlock, Call, QuietCalls, PendingInserts
  <2> QED BY <2>1, <1>0
<1>13. ASSUME NEW s \in Caller, IndexFragments(s) PROVE Room(k)'
  <2>1. UNCHANGED rows /\ QuietCalls(k)
    <3>1. CASE Return(s)
      BY <1>13, <3>1 DEF IndexFragments, Return, NoCall, QuietCalls, PendingInserts
    <3>2. CASE call' = [call EXCEPT ![s].pc = "supersede"]
      BY <1>13, <3>2 DEF IndexFragments, Call, QuietCalls, PendingInserts
    <3> QED BY <1>13, <3>1, <3>2 DEF IndexFragments
  <2> QED BY <2>1, <1>0
<1>14. ASSUME NEW s \in Caller, Supersede(s) PROVE Room(k)'
  <2>1. QuietCalls(k)
    BY <1>14 DEF Supersede, Return, NoCall, Call, QuietCalls, PendingInserts
  <2>2. Live(k)' \subseteq Live(k)
    BY <1>14 DEF Supersede, Owns, Live, Exists, Row
  <2> QED BY <2>1, <2>2, <1>a, <1>b, QuietKeepsRoom
<1>15. ASSUME NEW s \in Caller, NEW j, NEW f, NEW c, StartAmend(s, j, f, c)
      PROVE  Room(k)'
  <2>1. UNCHANGED rows /\ QuietCalls(k)
    BY <1>15 DEF StartAmend, NoCall, Call, QuietCalls, PendingInserts
  <2> QED BY <2>1, <1>0
<1>16. ASSUME NEW s \in Caller, AmendStore(s) PROVE Room(k)'
  <2>1. QuietCalls(k)
    BY <1>16, AmendEffect DEF Trimmed, NoCall, QuietCalls, PendingInserts
  <2>2. Live(k)' \subseteq Live(k)
    BY <1>16 DEF AmendStore, Live, Exists, Row
  <2> QED BY <2>1, <2>2, <1>a, <1>b, QuietKeepsRoom
<1>17. ASSUME NEW s \in Caller, NEW j, NEW F, StartForget(s, j, F)
      PROVE  Room(k)'
  <2>1. UNCHANGED rows /\ QuietCalls(k)
    BY <1>17 DEF StartForget, NoCall, Call, QuietCalls, PendingInserts
  <2> QED BY <2>1, <1>0
<1>18. ASSUME NEW s \in Caller, Deindex(s) PROVE Room(k)'
  <2>1. UNCHANGED rows /\ QuietCalls(k)
    BY <1>18 DEF Deindex, Call, QuietCalls, PendingInserts
  <2> QED BY <2>1, <1>0
<1>19. ASSUME NEW s \in Caller, Delete(s) PROVE Room(k)'
  <2>1. QuietCalls(k)
    BY <1>19 DEF Delete, Return, NoCall, Call, QuietCalls, PendingInserts
  <2>2. Live(k)' \subseteq Live(k)
    BY <1>19 DEF Delete, Live, Exists
  <2> QED BY <2>1, <2>2, <1>a, <1>b, QuietKeepsRoom
<1>20. CASE Restart
  <2>1. UNCHANGED rows /\ QuietCalls(k)
    BY <1>20 DEF Restart, NoCall, QuietCalls, PendingInserts
  <2> QED BY <2>1, <1>0
<1>21. CASE Warmup
  <2>1. UNCHANGED rows /\ QuietCalls(k)
    BY <1>21 DEF Warmup, QuietCalls, PendingInserts
  <2> QED BY <2>1, <1>0
<1>22. CASE UNCHANGED vars
  <2>1. UNCHANGED rows /\ QuietCalls(k)
    BY <1>22 DEF vars, QuietCalls, PendingInserts
  <2> QED BY <2>1, <1>0
<1>23. ASSUME NEW s \in Caller, DeleteFails(s) PROVE Room(k)'
  <2>1. UNCHANGED rows /\ QuietCalls(k)
    BY <1>23 DEF DeleteFails, Return, NoCall, Call, QuietCalls, PendingInserts
  <2> QED BY <2>1, <1>0
<1>24. CASE PruneKeywordIndexes
  <2>1. UNCHANGED rows /\ QuietCalls(k)
    BY <1>24 DEF PruneKeywordIndexes, QuietCalls, PendingInserts
  <2> QED BY <2>1, <1>0
<1> QED
  BY <1>1, <1>2, <1>3, <1>4, <1>5, <1>6, <1>7, <1>8, <1>9, <1>10, <1>11, <1>12, <1>13,
     <1>14, <1>15, <1>16, <1>17, <1>18, <1>19, <1>20, <1>21, <1>22, <1>23, <1>24
  DEF Next, Request, Step

(***************************************************************************)
(* A key's live fragments never exceed fragment_limit in the atomic mode,  *)
(* and exceed it by at most one per other running call in the default one. *)
(***************************************************************************)
THEOREM QuotaSafety == Spec => []QuotaBound
<1>1. QuotaInv => QuotaBound
  <2> SUFFICES ASSUME QuotaInv, NEW k \in LimitedKey
               PROVE  Cardinality(Live(k)) <= Limit[k] + Slack
    BY DEF QuotaBound, Slack
  <2>1. /\ Cardinality(Live(k)) \in Nat /\ Cardinality(PendingInserts(k)) \in Nat
        /\ Limit[k] \in Nat /\ Slack \in Nat
    BY Finiteness, SlackType, KeyAssumption DEF QuotaInv, LockInv
  <2> QED BY <2>1 DEF QuotaInv, Room, Load
<1> QED BY <1>1, InitQuota, NextQuota, PTL DEF Spec

(***************************************************************************)
(* A row keeps its key for as long as it exists, and an id given out is    *)
(* never given to another row.                                             *)
(***************************************************************************)
LEMMA KeysStay ==
  ASSUME TypeOK, RowsMinted, [Next]_vars
  PROVE  /\ minted \subseteq minted'
         /\ \A f \in minted : Exists(f)' => Exists(f) /\ rows'[f].key = rows[f].key
<1> USE DEF Exists, TypeOK
<1>1. CASE UNCHANGED <<rows, minted>>
  BY <1>1
<1>2. CASE \E s \in Caller : Insert(s)
  BY <1>2 DEF Insert
<1>3. ASSUME NEW s \in Caller, StoreLocked(s)
      PROVE  /\ minted \subseteq minted'
             /\ \A f \in minted : Exists(f)' => Exists(f) /\ rows'[f].key = rows[f].key
  <2>1. PICK ids \in NewIds(Fresh(s)) :
          LET new == {ids[c] : c \in Fresh(s)} IN
          /\ \A f \in Frag \ new : rows'[f] = rows[f]
          /\ minted' = minted \cup new
    BY <1>3, StoreEffect
  <2>2. \A f \in minted : f \notin {ids[c] : c \in Fresh(s)}
    BY DEF NewIds
  <2> QED BY <2>1, <2>2
<1>4. CASE \E s \in Caller : Supersede(s)
  BY <1>4 DEF Supersede, Owns, Row
<1>5. CASE \E s \in Caller : AmendStore(s)
  BY <1>5 DEF AmendStore, Row
<1>6. CASE \E s \in Caller : Delete(s)
  BY <1>6 DEF Delete
<1> QED BY <1>1, <1>2, <1>3, <1>4, <1>5, <1>6, WritersOfRows

(***************************************************************************)
(* What a remember or a batch answers with has been given out, so that no  *)
(* other call's new row can take that id; and if it is a row, it is one of *)
(* the caller's key.                                                       *)
(***************************************************************************)
AnswersInv ==
  \A s \in Caller :
    call[s].op \in {"remember", "batch"} =>
      \A f \in Answered(s) : f \in minted /\ (Exists(f) => rows[f].key = call[s].key)

AnswersIInv == TypeOK /\ RowsMinted /\ AnswersInv

LEMMA NextAnswers == AnswersIInv /\ [Next]_vars => AnswersIInv'
<1> SUFFICES ASSUME AnswersIInv, [Next]_vars PROVE AnswersInv'
  BY NextType, NextMinted DEF AnswersIInv
<1> USE DEF AnswersIInv, AnswersInv, Answered, TypeOK, RowsMinted
<1>a. /\ minted \subseteq minted'
      /\ \A f \in minted : Exists(f)' => Exists(f) /\ rows'[f].key = rows[f].key
  BY KeysStay
<1>1. ASSUME NEW s \in Caller, NEW k, NEW t, ReplayRemember(s, k, t)
      PROVE  AnswersInv'
  BY <1>1, <1>a DEF ReplayRemember, vars
<1>2. ASSUME NEW s \in Caller, NEW k, NEW c, NEW t, NEW old, StartRemember(s, k, c, t, old)
      PROVE  AnswersInv'
  BY <1>2, <1>a DEF StartRemember, NoCall, Call
<1>3. ASSUME NEW s \in Caller, CheckQuota(s) PROVE AnswersInv'
  <2>1. CASE Return(s)
    BY <1>3, <2>1, <1>a DEF CheckQuota, Return, NoCall
  <2>2. CASE call' = [call EXCEPT ![s].pc = "gate"]
    BY <1>3, <2>2, <1>a DEF CheckQuota, Call
  <2> QED BY <1>3, <2>1, <2>2 DEF CheckQuota
<1>4. ASSUME NEW s \in Caller, GateRejects(s), FindDuplicate(s) PROVE AnswersInv'
  BY <1>4, <1>a DEF FindDuplicate, Return, NoCall, Call
<1>5. ASSUME NEW s \in Caller, ~GateRejects(s), FindDuplicate(s) PROVE AnswersInv'
  <2>1. ASSUME NEW c, NEW f \in Holding(call[s].key, c), Written(s, {f}, {})
        PROVE  AnswersInv'
    BY <2>1, <1>a, WrittenEffect DEF Call, Holding
  <2>2. CASE call' = [call EXCEPT ![s].pc = "insert"]
    BY <2>2, <1>a DEF Call
  <2> QED BY <1>5, <2>1, <2>2 DEF FindDuplicate
<1>6. ASSUME NEW s \in Caller, Insert(s) PROVE AnswersInv'
  <2>1. CASE Return(s)
    BY <2>1, <1>a DEF Return, NoCall
  <2>2. ASSUME NEW c, NEW f \in Holding(call[s].key, c), Written(s, {f}, {})
        PROVE  AnswersInv'
    BY <2>2, <1>a, WrittenEffect DEF Call, Holding
  <2>3. ASSUME NEW c, NEW f \in Frag \ minted, Written(s, {f}, {}), minted' = minted \cup {f},
               rows' = [rows EXCEPT ![f] = NewRow(call[s].key, c, call[s].token)]
        PROVE  AnswersInv'
    <3>1. rows'[f].key = call[s].key
      BY <2>3, NewRowFields
    <3> QED BY <2>3, <3>1, <1>a, WrittenEffect DEF Call
  <2> QED BY <1>6, <2>1, <2>2, <2>3 DEF Insert
<1>7. ASSUME NEW s \in Caller, NEW k, NEW items, StartBatch(s, k, items)
      PROVE  AnswersInv'
  BY <1>7, <1>a DEF StartBatch, NoCall, Call
<1>8. ASSUME NEW s \in Caller, PhaseA(s) PROVE AnswersInv'
  BY <1>8, <1>a, PhaseAEffect DEF Trimmed, NoCall
<1>9. ASSUME NEW s \in Caller, LockKey(s) PROVE AnswersInv'
  BY <1>9, <1>a DEF LockKey, Call
<1>10. ASSUME NEW s \in Caller, CountLocked(s) PROVE AnswersInv'
  <2>1. CASE Return(s)
    BY <2>1, <1>a DEF Return, NoCall
  <2>2. ASSUME NEW kept, call' = [call EXCEPT ![s] = [@ EXCEPT !.pc = "store", !.items = kept]]
        PROVE  AnswersInv'
    BY <2>2, <1>a DEF Call
  <2> QED BY <1>10, <2>1, <2>2 DEF CountLocked
<1>11. ASSUME NEW s \in Caller, StoreLocked(s) PROVE AnswersInv'
  <2> DEFINE k == call[s].key
             fresh == Fresh(s)
  <2>1. PICK ids \in NewIds(fresh) :
          LET new == {ids[c] : c \in fresh} IN
          /\ rows' = [f \in Frag |->
                        IF f \in new
                        THEN NewRow(k, CHOOSE c \in fresh : ids[c] = f, call[s].token)
                        ELSE rows[f]]
          /\ minted' = minted \cup new
          /\ Written(s, IF call[s].op = "batch" \/ fresh # {} THEN new ELSE MergedInto(s),
                        IF call[s].op = "batch" THEN MergedInto(s) ELSE {})
    BY <1>11, <1>a DEF StoreLocked
  <2> DEFINE new == {ids[c] : c \in fresh}
             old == MergedInto(s)
  <2>2. \A f \in new : f \in Frag /\ f \in minted' /\ rows'[f].key = k
    <3> HIDE DEF fresh
    <3>1. new \subseteq Frag
      BY DEF NewIds
    <3>2. \A f \in new : rows'[f].key = k
      BY <2>1, <3>1, NewRowFields
    <3> QED BY <2>1, <3>1, <3>2
  <2>3. \A f \in old : f \in minted /\ rows[f].key = k
    BY DEF MergedInto, Holding
  <2>4. PICK F, M : Written(s, F, M) /\ (F = new \/ F = old) /\ (M = old \/ M = {})
    BY <2>1
  <2> HIDE DEF new, old, fresh
  <2>5. \A f \in F \cup M : f \in minted' /\ (Exists(f)' => rows'[f].key = k)
    BY <2>2, <2>3, <2>4, <1>a
  <2> QED BY <2>4, <2>5, <1>a, WrittenEffect DEF Call
<1>12. ASSUME NEW s \in Caller, StoreAborts(s) PROVE AnswersInv'
  BY <1>12, <1>a DEF StoreAborts, Return, NoCall, Unlock, Call
<1>13. ASSUME NEW s \in Caller, IndexFragments(s) PROVE AnswersInv'
  <2>1. CASE Return(s)
    BY <1>13, <2>1, <1>a DEF Return, NoCall
  <2>2. CASE call' = [call EXCEPT ![s].pc = "supersede"]
    BY <1>13, <2>2, <1>a DEF Call
  <2> QED BY <1>13, <2>1, <2>2 DEF IndexFragments
<1>14. ASSUME NEW s \in Caller, Supersede(s) PROVE AnswersInv'
  BY <1>14, <1>a DEF Supersede, Return, NoCall, Call
<1>15. ASSUME NEW s \in Caller, NEW k, NEW f, NEW c, StartAmend(s, k, f, c)
      PROVE  AnswersInv'
  BY <1>15, <1>a DEF StartAmend, NoCall, Call
<1>16. ASSUME NEW s \in Caller, AmendStore(s) PROVE AnswersInv'
  BY <1>16, <1>a, AmendEffect DEF Trimmed, NoCall
<1>17. ASSUME NEW s \in Caller, NEW k, NEW F, StartForget(s, k, F)
      PROVE  AnswersInv'
  BY <1>17, <1>a DEF StartForget, NoCall, Call
<1>18. ASSUME NEW s \in Caller, Deindex(s) PROVE AnswersInv'
  BY <1>18, <1>a DEF Deindex, Call
<1>19. ASSUME NEW s \in Caller, Delete(s) PROVE AnswersInv'
  <2>1. Return(s) /\ minted' = minted
    BY <1>19 DEF Delete
  <2>2. \A r \in Caller \ {s} : call'[r] = call[r]
    BY <2>1 DEF Return
  <2>3. call'[s].op = "none"
    BY <2>1 DEF Return, NoCall
  <2> QED BY <2>1, <2>2, <2>3, <1>a
<1>20. CASE Restart
  BY <1>20, <1>a DEF Restart, NoCall
<1>21. CASE Warmup
  BY <1>21, <1>a DEF Warmup
<1>22. CASE UNCHANGED vars
  BY <1>22, <1>a DEF vars
<1>23. ASSUME NEW s \in Caller, DeleteFails(s) PROVE AnswersInv'
  BY <1>23, <1>a DEF DeleteFails, Return, NoCall, Call
<1>24. CASE PruneKeywordIndexes
  BY <1>24, <1>a DEF PruneKeywordIndexes
<1> QED
  BY <1>1, <1>2, <1>3, <1>4, <1>5, <1>6, <1>7, <1>8, <1>9, <1>10, <1>11, <1>12, <1>13,
     <1>14, <1>15, <1>16, <1>17, <1>18, <1>19, <1>20, <1>21, <1>22, <1>23, <1>24
  DEF Next, Request, Step

(***************************************************************************)
(* No id that a remember or a batch answers with, merged rows included, is *)
(* a row of another key.                                                   *)
(***************************************************************************)
THEOREM AnswersOwn == Spec => []AnswersOwnFragment
<1>1. Init => AnswersIInv
  BY InitType DEF Init, AnswersIInv, AnswersInv, Answered, RowsMinted, Exists, NoCall
<1>2. AnswersIInv => AnswersOwnFragment
  BY DEF AnswersIInv, AnswersInv, AnswersOwnFragment
<1> QED BY <1>1, <1>2, NextAnswers, PTL DEF Spec

(***************************************************************************)
(* Where no key has a group, what forget takes out of the index it also    *)
(* deletes: it may delete every row it was able to see. An amend never     *)
(* turns into a deletion.                                                  *)
(***************************************************************************)
AllAlone == \A k \in Key : Group[k] = {k}

Deletes(s) == call[s].pc = "delete" \/ (call[s].pc = "deindex" /\ call[s].op # "amend")

DeletesOwned ==
  \A s \in Caller :
    /\ call[s].pc = "amend" => call[s].op = "amend"
    /\ Deletes(s) => \A f \in call[s].frags : f \in minted /\ (Exists(f) => Owns(call[s].key, f))

LEMMA NextOwned ==
  ASSUME TypeOK, RowsMinted, AllAlone, DeletesOwned, [Next]_vars
  PROVE  DeletesOwned'
<1> USE DEF TypeOK, DeletesOwned, Deletes
<1>a. /\ minted \subseteq minted'
      /\ \A f \in minted : Exists(f)' => Exists(f) /\ rows'[f].key = rows[f].key
  BY KeysStay
<1>b. \A k \in Key, f \in minted : (Exists(f) => Owns(k, f)) => (Exists(f)' => Owns(k, f)')
  BY <1>a DEF Owns
<1>0. ASSUME NEW s \in Caller, \A r \in Caller \ {s} : call'[r] = call[r],
             call'[s].pc \notin {"amend", "deindex", "delete"}
      PROVE  DeletesOwned'
  <2>1. \A r \in Caller : call[r].key \in Key
    BY DEF Call
  <2> QED BY <1>0, <1>a, <1>b, <2>1
<1> HIDE <1>a
<1>1. ASSUME NEW s \in Caller, NEW k, NEW t, ReplayRemember(s, k, t) PROVE DeletesOwned'
  BY <1>1 DEF ReplayRemember, Owns, Exists
<1>2. ASSUME NEW s \in Caller, NEW k, NEW c, NEW t, NEW old, StartRemember(s, k, c, t, old) PROVE DeletesOwned'
  BY <1>2, <1>a, <1>b DEF StartRemember, NoCall, Call
<1>3. ASSUME NEW s \in Caller, CheckQuota(s) PROVE DeletesOwned'
  <2>1. CASE Return(s)
    BY <2>1, <1>0, ReturnEffect DEF NoCall
  <2>2. CASE call' = [call EXCEPT ![s].pc = "gate"]
    <3>1. call'[s].pc = "gate" /\ \A r \in Caller \ {s} : call'[r] = call[r]
      BY <2>2 DEF Call
    <3> QED BY <3>1, <1>0
  <2> QED BY <1>3, <2>1, <2>2 DEF CheckQuota
<1>4. ASSUME NEW s \in Caller, GateRejects(s), FindDuplicate(s) PROVE DeletesOwned'
  BY <1>4, <1>a, <1>b DEF FindDuplicate, Return, NoCall, Call
<1>5. ASSUME NEW s \in Caller, ~GateRejects(s), FindDuplicate(s) PROVE DeletesOwned'
  <2>1. ASSUME NEW f, Written(s, {f}, {}) PROVE DeletesOwned'
    BY <2>1, <1>0, WrittenEffect
  <2>2. CASE call' = [call EXCEPT ![s].pc = "insert"]
    BY <1>5, <2>2, <1>a, <1>b DEF FindDuplicate, Call
  <2> QED BY <1>5, <2>1, <2>2 DEF FindDuplicate
<1>6. ASSUME NEW s \in Caller, Insert(s) PROVE DeletesOwned'
  <2>1. ASSUME NEW f, Written(s, {f}, {}) PROVE DeletesOwned'
    BY <2>1, <1>0, WrittenEffect
  <2>2. CASE Return(s)
    <3>1. call'[s].pc = "idle" /\ \A r \in Caller \ {s} : call'[r] = call[r]
      BY <2>2 DEF Return, NoCall
    <3> QED BY <3>1, <1>0
  <2> QED BY <1>6, <2>1, <2>2 DEF Insert
<1>7. ASSUME NEW s \in Caller, NEW k, NEW items, StartBatch(s, k, items) PROVE DeletesOwned'
  BY <1>7, <1>a, <1>b DEF StartBatch, NoCall, Call
<1>8. ASSUME NEW s \in Caller, PhaseA(s) PROVE DeletesOwned'
  BY <1>8, <1>0, PhaseAEffect DEF Trimmed, NoCall
<1>9. ASSUME NEW s \in Caller, LockKey(s) PROVE DeletesOwned'
  BY <1>9, <1>a, <1>b DEF LockKey, Call
<1>10. ASSUME NEW s \in Caller, CountLocked(s) PROVE DeletesOwned'
  BY <1>10, <1>0, CountEffect DEF Trimmed, NoCall
<1>11. ASSUME NEW s \in Caller, StoreLocked(s) PROVE DeletesOwned'
  BY <1>11, <1>a, <1>b, WrittenEffect DEF StoreLocked, Call
<1>12. ASSUME NEW s \in Caller, StoreAborts(s) PROVE DeletesOwned'
  BY <1>12, <1>a, <1>b DEF StoreAborts, Return, NoCall, Call
<1>13. ASSUME NEW s \in Caller, IndexFragments(s) PROVE DeletesOwned'
  <2>1. CASE Return(s)
    BY <2>1, <1>0, ReturnEffect DEF NoCall
  <2>2. CASE call' = [call EXCEPT ![s].pc = "supersede"]
    <3>1. call'[s].pc = "supersede" /\ \A r \in Caller \ {s} : call'[r] = call[r]
      BY <2>2
    <3> QED BY <3>1, <1>0
  <2> QED BY <1>13, <2>1, <2>2 DEF IndexFragments
<1>14. ASSUME NEW s \in Caller, Supersede(s) PROVE DeletesOwned'
  BY <1>14, <1>a, <1>b DEF Supersede, Return, NoCall, Call
<1>15. ASSUME NEW s \in Caller, NEW k, NEW f, NEW c, StartAmend(s, k, f, c) PROVE DeletesOwned'
  BY <1>15, <1>a, <1>b DEF StartAmend, NoCall, Call
<1>16. ASSUME NEW s \in Caller, AmendStore(s) PROVE DeletesOwned'
  <2>1. CASE call'[s] = NoCall
    BY <1>16, <2>1, <1>0, AmendEffect DEF NoCall
  <2>2. CASE Trimmed(s, "deindex", call[s].items)
    <3>1. call'[s].pc = "deindex" /\ call'[s].op = "amend"
      BY <1>16, <2>2, AmendEffect DEF Trimmed
    <3>2. \A r \in Caller : call[r].key \in Key
      BY DEF Call
    <3> QED BY <1>16, <3>1, <3>2, <1>a, <1>b, AmendEffect
  <2> QED BY <1>16, <2>1, <2>2, AmendEffect
<1>17. ASSUME NEW s \in Caller, NEW k \in Key, NEW F \in SUBSET Frag, StartForget(s, k, F) PROVE DeletesOwned'
  <2>1. \A f \in F : f \in minted /\ Owns(k, f)
    BY <1>17, KeyAssumption DEF StartForget, Visible, Owns, AllAlone, RowsMinted
  <2> QED BY <1>17, <2>1, <1>a, <1>b DEF StartForget, NoCall, Call
<1>18. ASSUME NEW s \in Caller, Deindex(s) PROVE DeletesOwned'
  BY <1>18, <1>a, <1>b DEF Deindex, Call
<1>19. ASSUME NEW s \in Caller, Delete(s) PROVE DeletesOwned'
  BY <1>19, <1>a, <1>b DEF Delete, Return, NoCall, Call
<1>20. CASE Restart
  BY <1>20 DEF Restart, NoCall
<1>21. CASE Warmup
  BY <1>21 DEF Warmup, Owns, Exists
<1>22. CASE UNCHANGED vars
  BY <1>22 DEF vars, Owns, Exists
<1>23. ASSUME NEW s \in Caller, DeleteFails(s) PROVE DeletesOwned'
  BY <1>23, <1>a, <1>b DEF DeleteFails, Return, NoCall, Call
<1>24. CASE PruneKeywordIndexes
  BY <1>24 DEF PruneKeywordIndexes, Owns, Exists
<1> QED
  BY <1>1, <1>2, <1>3, <1>4, <1>5, <1>6, <1>7, <1>8, <1>9, <1>10, <1>11, <1>12, <1>13,
     <1>14, <1>15, <1>16, <1>17, <1>18, <1>19, <1>20, <1>21, <1>22, <1>23, <1>24
  DEF Next, Request, Step

(***************************************************************************)
(* A live row after a step was one before it, or the step has just written *)
(* it for a call that is about to index it.                                *)
(***************************************************************************)
ToIndex(s, f) == f \in call[s].frags /\ call[s].pc \in {"index", "delete"}

LEMMA LiveOrNew ==
  ASSUME TypeOK, [Next]_vars, NEW f \in Frag, Exists(f)', rows'[f].live
  PROVE  (Exists(f) /\ rows[f].live) \/ \E s \in Caller : ToIndex(s, f)'
<1> USE DEF TypeOK, Exists
<1>1. CASE UNCHANGED <<rows, minted>>
  BY <1>1
<1>2. ASSUME NEW s \in Caller, Insert(s)
      PROVE  (Exists(f) /\ rows[f].live) \/ ToIndex(s, f)'
  <2>1. CASE UNCHANGED rows
    BY <2>1
  <2>2. ASSUME NEW g \in Frag, NEW new, rows' = [rows EXCEPT ![g] = new], Written(s, {g}, {})
        PROVE  (Exists(f) /\ rows[f].live) \/ ToIndex(s, f)'
    <3>1. CASE g = f
      BY <2>2, <3>1, WrittenEffect DEF ToIndex
    <3>2. CASE g # f
      BY <2>2, <3>2
    <3> QED BY <3>1, <3>2
  <2> QED BY <1>2, <2>1, <2>2 DEF Insert
<1>3. ASSUME NEW s \in Caller, StoreLocked(s)
      PROVE  (Exists(f) /\ rows[f].live) \/ ToIndex(s, f)'
  <2> DEFINE k == call[s].key
             t == call[s].token
             fresh == Fresh(s)
  <2>1. PICK ids \in NewIds(fresh) :
          LET new == {ids[c] : c \in fresh} IN
          /\ rows' = [g \in Frag |->
                        IF g \in new
                        THEN NewRow(k, CHOOSE c \in fresh : ids[c] = g, t)
                        ELSE rows[g]]
          /\ Written(s, IF call[s].op = "batch" \/ fresh # {} THEN new ELSE MergedInto(s),
                        IF call[s].op = "batch" THEN MergedInto(s) ELSE {})
    BY <1>3 DEF StoreLocked
  <2> DEFINE new == {ids[c] : c \in fresh}
  <2>2. f \in Frag \ new => rows'[f] = rows[f]
    BY <2>1
  <2>3. fresh = {} => new = {}
    OBVIOUS
  <2>4. new # {} => \E M : Written(s, new, M)
    BY <2>1, <2>3
  <2> HIDE DEF new, fresh
  <2>5. f \in new => ToIndex(s, f)'
    BY <2>4, WrittenEffect DEF ToIndex, Call
  <2> QED BY <2>2, <2>5
<1>4. ASSUME NEW s \in Caller, Supersede(s) PROVE Exists(f) /\ rows[f].live
  BY <1>4 DEF Supersede, Owns, Row
<1>5. ASSUME NEW s \in Caller, AmendStore(s) PROVE Exists(f) /\ rows[f].live
  BY <1>5 DEF AmendStore, Row
<1>6. ASSUME NEW s \in Caller, Delete(s) PROVE Exists(f) /\ rows[f].live
  BY <1>6 DEF Delete
<1> QED BY <1>1, <1>2, <1>3, <1>4, <1>5, <1>6, WritersOfRows

(***************************************************************************)
(* The index is written in six places only; a call that is about to index  *)
(* or to delete does exactly that, or fails.                               *)
(***************************************************************************)
LEMMA WritersOfIndex ==
  ASSUME TypeOK, [Next]_vars
  PROVE  \/ Restart \/ Warmup \/ PruneKeywordIndexes \/ UNCHANGED <<index, lost, call>>
         \/ \E s \in Caller :
              /\ \A r \in Caller \ {s} : call'[r] = call[r]
              /\ \/ UNCHANGED <<index, lost>> /\ call[s].pc \notin {"index", "delete"}
                 \/ IndexFragments(s) \/ Deindex(s) \/ Delete(s) \/ DeleteFails(s)
<1> USE DEF TypeOK
<1>1. ASSUME NEW s \in Caller, Request(s)
      PROVE  /\ UNCHANGED <<index, lost>> /\ call[s].pc = "idle"
             /\ \A r \in Caller \ {s} : call'[r] = call[r]
  BY <1>1 DEF Request, ReplayRemember, StartRemember, StartBatch, StartAmend, StartForget
<1>2. ASSUME NEW s \in Caller,
             \/ CheckQuota(s) \/ FindDuplicate(s) \/ Insert(s) \/ PhaseA(s)
             \/ LockKey(s) \/ CountLocked(s) \/ StoreLocked(s) \/ StoreAborts(s)
             \/ Supersede(s) \/ AmendStore(s)
      PROVE  /\ UNCHANGED <<index, lost>> /\ call[s].pc \notin {"index", "delete"}
             /\ \A r \in Caller \ {s} : call'[r] = call[r]
  BY <1>2 DEF CheckQuota, FindDuplicate, Insert, PhaseA, LockKey, CountLocked,
              StoreLocked, StoreAborts, Supersede, AmendStore, Return, Written
<1>3. ASSUME NEW s \in Caller, IndexFragments(s) \/ Deindex(s) \/ Delete(s) \/ DeleteFails(s)
      PROVE  \A r \in Caller \ {s} : call'[r] = call[r]
  BY <1>3 DEF IndexFragments, Deindex, Delete, DeleteFails, Return
<1>4. UNCHANGED vars => UNCHANGED <<index, lost, call>>
  BY DEF vars
<1> QED BY <1>1, <1>2, <1>3, <1>4 DEF Next, Step

(***************************************************************************)
(* A live row the index lacks was lost to a failure, or it waits for the   *)
(* very call that is next to index or to delete it.                        *)
(***************************************************************************)
Due(f) == f \in lost \/ \E s \in Caller : ToIndex(s, f)

MissingDue == \A f \in Frag : (Exists(f) /\ rows[f].live /\ f \notin index) => Due(f)

FindableInv == TypeOK /\ RowsMinted /\ (AllAlone => DeletesOwned /\ MissingDue)

LEMMA NextMissing ==
  ASSUME TypeOK, DeletesOwned, MissingDue, [Next]_vars
  PROVE  MissingDue'
<1> SUFFICES ASSUME NEW f \in Frag, Exists(f)', rows'[f].live, f \notin index'
             PROVE  Due(f)'
  BY DEF MissingDue
<1>1. SUFFICES ASSUME Exists(f), rows[f].live PROVE Due(f)'
  BY LiveOrNew DEF Due
<1>2. f \notin index => Due(f)
  BY <1>1 DEF MissingDue
<1>3. CASE Restart
  <2>1. f \notin index
    BY <1>3 DEF Restart
  <2>2. f \in lost => f \in lost'
    BY <1>3 DEF Restart
  <2>3. ASSUME NEW s \in Caller, f \in call[s].frags PROVE f \in lost'
    BY <1>3, <2>1, <2>3 DEF Restart
  <2> QED BY <1>2, <2>1, <2>2, <2>3 DEF Due, ToIndex
<1>4. CASE Warmup
  BY <1>2, <1>4 DEF Warmup, Due, ToIndex
<1>5. CASE PruneKeywordIndexes
  BY <1>2, <1>5 DEF PruneKeywordIndexes, Due, ToIndex
<1>6. CASE UNCHANGED <<index, lost, call>>
  BY <1>2, <1>6 DEF Due, ToIndex
<1>7. ASSUME NEW s \in Caller, \A r \in Caller \ {s} : call'[r] = call[r]
      PROVE  /\ UNCHANGED <<index, lost>> /\ call[s].pc \notin {"index", "delete"} => Due(f)'
             /\ IndexFragments(s) \/ Deindex(s) \/ Delete(s) \/ DeleteFails(s) => Due(f)'
  <2>1. ASSUME NEW r \in Caller \ {s}, ToIndex(r, f) PROVE ToIndex(r, f)'
    BY <1>7, <2>1 DEF ToIndex
  <2>2. ASSUME f \notin index, ~ToIndex(s, f), f \in lost => f \in lost' PROVE Due(f)'
    BY <1>2, <2>1, <2>2 DEF Due
  <2>3. CASE UNCHANGED <<index, lost>> /\ call[s].pc \notin {"index", "delete"}
    BY <2>2, <2>3 DEF ToIndex
  <2>4. CASE IndexFragments(s)
    <3>1. f \in call[s].frags => f \in lost'
      BY <2>4 DEF IndexFragments
    <3>2. f \notin call[s].frags => f \notin index /\ (f \in lost => f \in lost')
      BY <2>4 DEF IndexFragments
    <3> QED BY <2>2, <3>1, <3>2 DEF Due, ToIndex
  <2>5. CASE Deindex(s)
    <3>1. f \in call[s].frags => ToIndex(s, f)'
      BY <2>5 DEF Deindex, ToIndex, TypeOK, Call
    <3>2. f \notin call[s].frags => f \notin index
      BY <2>5 DEF Deindex
    <3>3. lost' = lost
      BY <2>5 DEF Deindex
    <3> QED BY <2>2, <3>1, <3>2, <3>3 DEF Due, ToIndex
  <2>6. CASE Delete(s)
    <3>1. f \notin call[s].frags
      <4> SUFFICES ASSUME f \in call[s].frags PROVE FALSE
        OBVIOUS
      <4>1. Owns(call[s].key, f)
        BY <1>1, <2>6 DEF Delete, DeletesOwned, Deletes
      <4> QED BY <2>6, <4>1, <1>1 DEF Delete, Exists
    <3>2. f \notin index /\ lost' = lost
      BY <2>6 DEF Delete
    <3> QED BY <2>2, <3>1, <3>2 DEF ToIndex
  <2>7. CASE DeleteFails(s)
    <3>1. f \notin index
      BY <2>7 DEF DeleteFails
    <3>2. lost' = lost \cup (call[s].frags \ index)
      BY <2>7 DEF DeleteFails
    <3> QED BY <2>2, <3>1, <3>2 DEF Due, ToIndex
  <2> QED BY <2>3, <2>4, <2>5, <2>6, <2>7
<1> QED BY <1>3, <1>4, <1>5, <1>6, <1>7, WritersOfIndex

LEMMA NextFindable == FindableInv /\ [Next]_vars => FindableInv'
<1> SUFFICES ASSUME FindableInv, [Next]_vars PROVE AllAlone => DeletesOwned' /\ MissingDue'
  BY NextType, NextMinted DEF FindableInv, AllAlone
<1> QED BY NextOwned, NextMissing DEF FindableInv

(***************************************************************************)
(* Where no key has a group, a live row that the index lacks is in the     *)
(* hands of a running call, unless a write of the index or of the table    *)
(* failed on it, its call died or it was pruned.                           *)
(***************************************************************************)
THEOREM RowsFindable == Spec => []LiveRowsFindable
<1>1. Init => FindableInv
  BY InitType DEF Init, FindableInv, RowsMinted, DeletesOwned, Deletes, MissingDue, Exists, NoCall
<1>2. FindableInv => LiveRowsFindable
  BY DEF FindableInv, AllAlone, MissingDue, Due, ToIndex, LiveRowsFindable
<1> QED BY <1>1, <1>2, NextFindable, PTL DEF Spec
=============================================================================
