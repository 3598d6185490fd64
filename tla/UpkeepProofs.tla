---------------------------- MODULE UpkeepProofs -----------------------------
(***************************************************************************)
(* Theorems about Consolidation, Retention and Supersession, for every     *)
(* number of callers, fragments, contents and linkFragment handlers, every *)
(* number of queued calls, and any ages, similarities and holders.         *)
(***************************************************************************)
EXTENDS Consolidation, Retention, Supersession, TLAPS

Active(r) == cycle[r].stage # "idle"

(***************************************************************************)
(* The chain of promises. Slots are resolved in the order they were made,  *)
(* every slot that is not resolved belongs to one caller, and a caller at  *)
(* work has found all earlier ones resolved.                               *)
(***************************************************************************)
SlotsInOrder == \E k \in Nat : released = 1..k /\ k <= tickets
SlotPerCaller == \A r \in Request : Active(r) => cycle[r].ticket \in (1..tickets) \ released
OwnSlot == \A r, s \in Request :
             Active(r) /\ Active(s) /\ cycle[r].ticket = cycle[s].ticket => r = s
SlotsHeld == \A t \in (1..tickets) \ released : \E r \in Request : Active(r) /\ cycle[r].ticket = t
RunsInTurn == \A r \in Request : Running(r) => MayEnter(r)

QueueInv ==
  /\ ConsolidationTypeOK
  /\ SlotsInOrder /\ SlotPerCaller /\ OwnSlot /\ SlotsHeld /\ RunsInTurn

(***************************************************************************)
(* The duplicates of the running cycle: a copy to keep is never one to be  *)
(* deleted, and holds what the other does, unless a client or the          *)
(* collection has come in between.                                         *)
(***************************************************************************)
Waived(c) == c \in dropped \cup rewritten
TodoSound ==
  \A r \in Request : \A p \in cycle[r].todo :
    /\ cycle[r].stage = "merge" /\ stored[p[1]] # "none"
    /\ Waived(body[p[1]]) \/ (stored[p[2]] = "row" /\ body[p[2]] = body[p[1]])
    /\ \A q \in cycle[r].todo : q[1] # p[2]

MergeInv == QueueInv /\ TodoSound /\ MergeKeepsOne

LEMMA OneAtATime == QueueInv => OneCycleAtATime
<1> SUFFICES ASSUME QueueInv, NEW r \in Request, NEW s \in Request, Running(r), Running(s)
             PROVE  r = s
  BY DEF OneCycleAtATime
<1>1. Active(r) /\ Active(s)
  BY DEF Running, Active
<1>2. /\ cycle[r].ticket \in (1..tickets) \ released /\ 1..(cycle[r].ticket - 1) \subseteq released
      /\ cycle[s].ticket \in (1..tickets) \ released /\ 1..(cycle[s].ticket - 1) \subseteq released
      /\ tickets \in Nat
  BY <1>1 DEF QueueInv, SlotPerCaller, RunsInTurn, MayEnter, ConsolidationTypeOK
<1>3. cycle[r].ticket = cycle[s].ticket
  BY <1>2
<1> QED BY <1>1, <1>3 DEF QueueInv, OwnSlot

LEMMA NeverStuck == QueueInv => QueueNeverStuck
<1> SUFFICES ASSUME QueueInv, NEW w \in Request, cycle[w].stage = "waiting"
             PROVE  \E r \in Request : Running(r) \/ (cycle[r].stage = "waiting" /\ MayEnter(r))
  BY DEF QueueNeverStuck
<1>1. PICK k \in Nat : released = 1..k
  BY DEF QueueInv, SlotsInOrder
<1>2. cycle[w].ticket \in (1..tickets) \ released /\ tickets \in Nat
  BY DEF QueueInv, SlotPerCaller, Active, ConsolidationTypeOK
<1>3. k + 1 \in (1..tickets) \ released
  BY <1>1, <1>2
<1>4. PICK r \in Request : Active(r) /\ cycle[r].ticket = k + 1
  BY <1>3 DEF QueueInv, SlotsHeld
<1>5. MayEnter(r)
  BY <1>1, <1>4 DEF MayEnter
<1> QED BY <1>4, <1>5 DEF Active, Running

----------------------------------------------------------------------------
LEMMA MergeInitInv == ConsolidationInit => MergeInv
<1> SUFFICES ASSUME ConsolidationInit PROVE MergeInv
  OBVIOUS
<1>1. NoCycle \in Cycle
  BY TicketAssumption DEF NoCycle, Cycle, Stage
<1>2. \A r \in Request : cycle[r] = NoCycle
  BY DEF ConsolidationInit
<1>3. ConsolidationTypeOK
  <2>1. (CHOOSE c \in Content : TRUE) \in Content
    BY TicketAssumption
  <2> QED BY <1>1, <2>1, TicketAssumption DEF ConsolidationInit, ConsolidationTypeOK
<1>4. released = 1..0 /\ tickets = 0
  BY DEF ConsolidationInit
<1>5. QueueInv
  BY <1>2, <1>3, <1>4 DEF QueueInv, SlotsInOrder, SlotPerCaller, OwnSlot, SlotsHeld, RunsInTurn,
                          Active, Running, NoCycle
<1>6. \A f \in Fragment : stored[f] # "gone"
  BY DEF ConsolidationInit
<1>7. \A r \in Request : cycle[r].todo = {}
  BY <1>2 DEF NoCycle
<1> QED BY <1>5, <1>6, <1>7 DEF MergeInv, TodoSound, MergeKeepsOne

\* a step that neither hands out nor resolves a slot
LEMMA SameSlots ==
  ASSUME QueueInv, ConsolidationTypeOK', UNCHANGED <<tickets, released>>,
         \A r \in Request : /\ cycle'[r].ticket = cycle[r].ticket
                            /\ Active(r)' <=> Active(r)
                            /\ Running(r)' => Running(r) \/ MayEnter(r)
  PROVE  QueueInv'
<1>1. \A r \in Request : MayEnter(r)' <=> MayEnter(r)
  BY DEF MayEnter
<1>2. SlotsInOrder'
  BY DEF QueueInv, SlotsInOrder
<1>3. SlotPerCaller' /\ OwnSlot' /\ SlotsHeld'
  BY DEF QueueInv, SlotPerCaller, OwnSlot, SlotsHeld
<1>4. RunsInTurn'
  BY <1>1 DEF QueueInv, RunsInTurn
<1> QED BY <1>2, <1>3, <1>4 DEF QueueInv

\* one caller goes on to another stage of its cycle, or starts it
LEMMA MergerStep ==
  ASSUME QueueInv, NEW r \in Request, NEW s \in Cycle, cycle' = [cycle EXCEPT ![r] = s],
         s.ticket = cycle[r].ticket, Active(r), s.stage # "idle",
         s.stage # "waiting" => Running(r) \/ MayEnter(r),
         UNCHANGED <<tickets, released>>,
         stored' \in [Fragment -> {"none", "row", "gone"}], body' \in [Fragment -> Content],
         pinned' \subseteq Fragment, heavy' \subseteq Fragment,
         dropped' \subseteq Content, rewritten' \subseteq Content
  PROVE  QueueInv'
<1>1. \A x \in Request : cycle'[x] = IF x = r THEN s ELSE cycle[x]
  BY DEF QueueInv, ConsolidationTypeOK
<1>2. ConsolidationTypeOK'
  BY DEF QueueInv, ConsolidationTypeOK
<1>3. \A x \in Request : /\ cycle'[x].ticket = cycle[x].ticket
                         /\ Active(x)' <=> Active(x)
                         /\ Running(x)' => Running(x) \/ MayEnter(x)
  BY <1>1 DEF Active, Running
<1> QED BY <1>2, <1>3, SameSlots

(***************************************************************************)
(* What merging knows survives a step of the others: a content they take   *)
(* from a row is noted, and so is one they write into a listed row.        *)
(***************************************************************************)
LEMMA RowsStep ==
  ASSUME MergeInv, QueueInv', UNCHANGED cycle,
         dropped \subseteq dropped', rewritten \subseteq rewritten',
         \A f \in Fragment :
           /\ stored[f] = "row" => body[f] \in dropped' \/ (stored'[f] = "row" /\ body'[f] = body[f])
           /\ stored'[f] = "gone" => body'[f] = body[f] /\ (stored[f] = "gone" \/ body[f] \in dropped')
           /\ stored[f] # "none" => stored'[f] # "none"
           /\ Doomed(f) => body'[f] = body[f] \/ body'[f] \in rewritten'
  PROVE  MergeInv'
<1>0. \A r \in Request : cycle[r].todo \subseteq Fragment \X Fragment
  BY DEF MergeInv, QueueInv, ConsolidationTypeOK, Cycle
<1>1. TodoSound'
  <2> SUFFICES ASSUME NEW r \in Request, NEW p \in cycle[r].todo
               PROVE  /\ cycle[r].stage = "merge" /\ stored'[p[1]] # "none"
                      /\ \/ body'[p[1]] \in dropped' \cup rewritten'
                         \/ stored'[p[2]] = "row" /\ body'[p[2]] = body'[p[1]]
                      /\ \A q \in cycle[r].todo : q[1] # p[2]
    BY DEF TodoSound, Waived
  <2>1. p[1] \in Fragment /\ p[2] \in Fragment /\ Doomed(p[1])
    BY <1>0 DEF Doomed
  <2>2. /\ cycle[r].stage = "merge" /\ stored[p[1]] # "none"
        /\ body[p[1]] \in dropped \cup rewritten \/ (stored[p[2]] = "row" /\ body[p[2]] = body[p[1]])
        /\ \A q \in cycle[r].todo : q[1] # p[2]
    BY DEF MergeInv, TodoSound, Waived
  <2>3. CASE body'[p[1]] \in rewritten'
    BY <2>1, <2>2, <2>3
  <2>4. CASE body'[p[1]] = body[p[1]]
    BY <2>1, <2>2, <2>4
  <2> QED BY <2>1, <2>3, <2>4
<1>2. MergeKeepsOne'
  <2> SUFFICES ASSUME NEW f \in Fragment, stored'[f] = "gone", body'[f] \notin dropped' \cup rewritten'
               PROVE  \E g \in Fragment : stored'[g] = "row" /\ body'[g] = body'[f]
    BY DEF MergeKeepsOne, StoredRows
  <2>1. stored[f] = "gone" /\ body'[f] = body[f] /\ body[f] \notin dropped \cup rewritten
    OBVIOUS
  <2>2. PICK g \in Fragment : stored[g] = "row" /\ body[g] = body[f]
    BY <2>1 DEF MergeInv, MergeKeepsOne, StoredRows
  <2>3. stored'[g] = "row" /\ body'[g] = body[g]
    BY <2>1, <2>2
  <2> QED BY <2>1, <2>2, <2>3
<1> QED BY <1>1, <1>2 DEF MergeInv

----------------------------------------------------------------------------
LEMMA ClientInv ==
  ASSUME MergeInv, NEW f \in Fragment, ClientStep(f)
  PROVE  MergeInv'
<1>0. QueueInv /\ ConsolidationTypeOK
  BY DEF MergeInv, QueueInv
<1>1. UNCHANGED <<tickets, released, cycle>>
  BY DEF ClientStep, Store, Amend, Reweigh, Forget
<1>10. \A g \in Fragment : Doomed(g) => stored[g] # "none"
  BY DEF MergeInv, TodoSound, Doomed
<1>2. CASE \E c \in Content : Store(f, c)
  <2>1. PICK c \in Content : Store(f, c)
    BY <1>2
  <2>2. /\ stored[f] = "none" /\ stored' = [stored EXCEPT ![f] = "row"] /\ body' = [body EXCEPT ![f] = c]
        /\ UNCHANGED <<pinned, heavy, dropped, rewritten, tickets, released, cycle>>
    BY <2>1 DEF Store
  <2>3. ConsolidationTypeOK'
    BY <1>0, <2>2 DEF ConsolidationTypeOK
  <2>4. QueueInv'
    BY <1>0, <1>1, <2>3, SameSlots DEF Active, Running
  <2>5. \A g \in Fragment : /\ stored'[g] = IF g = f THEN "row" ELSE stored[g]
                            /\ body'[g] = IF g = f THEN c ELSE body[g]
    BY <1>0, <2>2 DEF ConsolidationTypeOK
  <2> QED BY <1>1, <1>10, <2>2, <2>4, <2>5, RowsStep DEF Waived
<1>3. CASE \E c \in Content : Amend(f, c)
  <2>1. PICK c \in Content : Amend(f, c)
    BY <1>3
  <2>2. /\ stored[f] = "row" /\ body' = [body EXCEPT ![f] = c]
        /\ pinned' \subseteq pinned \cup {f} /\ heavy' \subseteq heavy \cup {f}
        /\ dropped' = IF c = body[f] THEN dropped ELSE dropped \cup {body[f]}
        /\ rewritten' = IF c # body[f] /\ Doomed(f) THEN rewritten \cup {c} ELSE rewritten
        /\ UNCHANGED <<stored, tickets, released, cycle>>
    BY <2>1 DEF Amend, StoredRows
  <2>3. body[f] \in Content
    BY <1>0 DEF ConsolidationTypeOK
  <2>4. ConsolidationTypeOK'
    BY <1>0, <2>2, <2>3 DEF ConsolidationTypeOK
  <2>5. QueueInv'
    BY <1>0, <1>1, <2>4, SameSlots DEF Active, Running
  <2>6. \A g \in Fragment : body'[g] = IF g = f THEN c ELSE body[g]
    BY <1>0, <2>2 DEF ConsolidationTypeOK
  <2>7. /\ dropped \subseteq dropped' /\ rewritten \subseteq rewritten'
        /\ c = body[f] \/ body[f] \in dropped'
        /\ Doomed(f) => c = body[f] \/ c \in rewritten'
    BY <2>2
  <2> QED BY <1>1, <2>2, <2>5, <2>6, <2>7, RowsStep DEF Waived
<1>4. CASE Reweigh(f)
  <2>1. ConsolidationTypeOK'
    BY <1>0, <1>4 DEF Reweigh, cnTexts, ConsolidationTypeOK
  <2>2. QueueInv'
    BY <1>0, <1>1, <2>1, SameSlots DEF Active, Running
  <2> QED BY <1>1, <1>4, <2>2, RowsStep DEF Reweigh, cnTexts, Waived
<1>5. CASE Forget(f)
  <2>1. /\ stored[f] = "row" /\ stored' = [stored EXCEPT ![f] = "gone"]
        /\ dropped' = dropped \cup {body[f]}
        /\ UNCHANGED <<body, pinned, heavy, rewritten, tickets, released, cycle>>
    BY <1>5 DEF Forget, StoredRows
  <2>2. body[f] \in Content
    BY <1>0 DEF ConsolidationTypeOK
  <2>3. ConsolidationTypeOK'
    BY <1>0, <2>1, <2>2 DEF ConsolidationTypeOK
  <2>4. QueueInv'
    BY <1>0, <1>1, <2>3, SameSlots DEF Active, Running
  <2>5. \A g \in Fragment : stored'[g] = IF g = f THEN "gone" ELSE stored[g]
    BY <1>0, <2>1 DEF ConsolidationTypeOK
  <2> QED BY <1>1, <2>1, <2>4, <2>5, RowsStep DEF Waived
<1> QED BY <1>2, <1>3, <1>4, <1>5 DEF ClientStep

LEMMA AskInv ==
  ASSUME MergeInv, NEW r \in Request, Ask(r)
  PROVE  MergeInv'
<1> DEFINE s == [NoCycle EXCEPT !.stage = "waiting", !.ticket = tickets + 1]
<1>0. QueueInv /\ ConsolidationTypeOK /\ tickets \in Nat
  BY DEF MergeInv, QueueInv, ConsolidationTypeOK
<1>1. /\ s \in Cycle /\ s.stage = "waiting" /\ s.ticket = tickets + 1 /\ s.todo = {}
  <2>1. NoCycle \in Cycle /\ NoCycle.todo = {}
    BY TicketAssumption DEF NoCycle, Cycle, Stage
  <2>2. tickets + 1 \in 0..MaxTickets
    BY <1>0, TicketAssumption DEF Ask
  <2> HIDE DEF NoCycle
  <2> QED BY <2>1, <2>2 DEF Cycle, Stage
<1> HIDE DEF s
<1>2. /\ ~Active(r) /\ tickets' = tickets + 1 /\ cycle' = [cycle EXCEPT ![r] = s]
      /\ UNCHANGED <<stored, body, pinned, heavy, dropped, rewritten, released>>
  BY DEF Ask, cnTexts, s, Active
<1>3. \A x \in Request : cycle'[x] = IF x = r THEN s ELSE cycle[x]
  BY <1>0, <1>2 DEF ConsolidationTypeOK
<1>4. ConsolidationTypeOK'
  BY <1>0, <1>1, <1>2, TicketAssumption DEF Ask, ConsolidationTypeOK
<1>5. released \subseteq 1..tickets
  BY <1>0 DEF QueueInv, SlotsInOrder
<1>6. SlotsInOrder'
  BY <1>0, <1>2 DEF QueueInv, SlotsInOrder
<1>7. SlotPerCaller' /\ OwnSlot'
  BY <1>0, <1>1, <1>2, <1>3, <1>5 DEF QueueInv, SlotPerCaller, OwnSlot, Active
<1>8. SlotsHeld'
  <2> SUFFICES ASSUME NEW t \in (1..(tickets + 1)) \ released
               PROVE  \E x \in Request : Active(x)' /\ cycle'[x].ticket = t
    BY <1>2 DEF SlotsHeld
  <2>1. CASE t = tickets + 1
    BY <1>1, <1>3, <2>1 DEF Active
  <2>2. CASE t # tickets + 1
    <3>1. t \in (1..tickets) \ released
      BY <1>0, <2>2
    <3>2. PICK x \in Request : Active(x) /\ cycle[x].ticket = t
      BY <1>0, <3>1 DEF QueueInv, SlotsHeld
    <3> QED BY <1>2, <1>3, <3>2 DEF Active
  <2> QED BY <2>1, <2>2
<1>9. RunsInTurn'
  BY <1>0, <1>1, <1>2, <1>3 DEF QueueInv, RunsInTurn, Running, MayEnter
<1>10. TodoSound'
  BY <1>1, <1>2, <1>3 DEF MergeInv, TodoSound, Waived
<1>11. MergeKeepsOne'
  BY <1>2 DEF MergeInv, MergeKeepsOne, StoredRows
<1> QED BY <1>4, <1>6, <1>7, <1>8, <1>9, <1>10, <1>11 DEF MergeInv, QueueInv

\* stages that leave the rows alone and have nothing to merge afterwards
LEMMA PlainStage ==
  ASSUME MergeInv, NEW r \in Request, NEW phase \in Stage, phase \notin {"idle", "waiting", "merge"},
         NEW s \in Cycle, s.stage = phase, s.ticket = cycle[r].ticket, s.todo = {},
         cycle' = [cycle EXCEPT ![r] = s], Active(r), Running(r) \/ MayEnter(r),
         UNCHANGED <<stored, body, heavy, dropped, rewritten, tickets, released>>,
         pinned' \subseteq Fragment
  PROVE  MergeInv'
<1>0. QueueInv /\ ConsolidationTypeOK
  BY DEF MergeInv, QueueInv
<1>1. QueueInv'
  BY <1>0, MergerStep DEF ConsolidationTypeOK
<1>2. \A x \in Request : cycle'[x] = IF x = r THEN s ELSE cycle[x]
  BY <1>0 DEF ConsolidationTypeOK
<1>3. TodoSound'
  BY <1>2 DEF MergeInv, TodoSound, Waived
<1> QED BY <1>1, <1>3 DEF MergeInv, MergeKeepsOne, StoredRows

\* only the stage "merge" has something to merge
LEMMA NothingToMerge ==
  ASSUME MergeInv, NEW r \in Request, cycle[r].stage # "merge"
  PROVE  cycle[r].todo = {}
BY DEF MergeInv, TodoSound

LEMMA DeleteInv ==
  ASSUME MergeInv, NEW r \in Request,
         NEW phase \in {"collect", "purge"}, NEW next \in {"read", "leave"},
         DeleteUnpinned(r, phase, next)
  PROVE  MergeInv'
<1> DEFINE s == [cycle[r] EXCEPT !.stage = next]
<1>0. QueueInv /\ ConsolidationTypeOK /\ cycle[r] \in Cycle
  BY DEF MergeInv, QueueInv, ConsolidationTypeOK
<1>1. PICK old \in SUBSET (StoredRows \ pinned) :
        /\ stored' = [f \in Fragment |-> IF f \in old THEN "gone" ELSE stored[f]]
        /\ dropped' = dropped \cup {body[f] : f \in old}
  BY DEF DeleteUnpinned
<1>2. /\ cycle[r].stage = phase /\ cycle' = [cycle EXCEPT ![r] = s]
      /\ UNCHANGED <<body, pinned, heavy, rewritten, tickets, released>>
  BY DEF DeleteUnpinned
<1>3. s \in Cycle /\ s.stage = next /\ s.ticket = cycle[r].ticket /\ s.todo = cycle[r].todo
  BY <1>0 DEF Cycle, Stage
<1>4. old \subseteq Fragment
  BY DEF StoredRows
<1>5. /\ stored' \in [Fragment -> {"none", "row", "gone"}] /\ body' \in [Fragment -> Content]
      /\ pinned' \subseteq Fragment /\ heavy' \subseteq Fragment
      /\ dropped' \subseteq Content /\ rewritten' \subseteq Content
  BY <1>0, <1>1, <1>2, <1>4 DEF ConsolidationTypeOK
<1>6. Active(r) /\ Running(r)
  BY <1>2 DEF Active, Running
<1> HIDE DEF s
<1>7. QueueInv'
  BY <1>0, <1>2, <1>3, <1>5, <1>6, MergerStep
<1>8. \A x \in Request : cycle'[x].todo = cycle[x].todo /\ (x # r => cycle'[x] = cycle[x])
  BY <1>0, <1>2, <1>3 DEF ConsolidationTypeOK
\* nobody is merging while this cycle collects
<1>9. \A x \in Request : cycle'[x].todo = {}
  <2>1. ASSUME NEW x \in Request, cycle[x].todo # {} PROVE FALSE
    <3>1. cycle[x].stage = "merge" /\ x # r
      BY <1>2, <2>1, NothingToMerge
    <3>2. Running(x)
      BY <3>1 DEF Running
    <3> QED BY <1>0, <1>6, <3>1, <3>2, OneAtATime DEF OneCycleAtATime
  <2> QED BY <1>8, <2>1
<1>10. TodoSound'
  BY <1>9 DEF TodoSound
<1>11. MergeKeepsOne'
  <2> SUFFICES ASSUME NEW f \in Fragment, stored'[f] = "gone", body[f] \notin dropped' \cup rewritten
               PROVE  \E g \in Fragment : stored'[g] = "row" /\ body[g] = body[f]
    BY <1>2 DEF MergeKeepsOne, StoredRows
  <2>1. f \notin old /\ stored[f] = "gone" /\ body[f] \notin dropped \cup rewritten
    BY <1>1
  <2>2. PICK g \in Fragment : stored[g] = "row" /\ body[g] = body[f]
    BY <2>1 DEF MergeInv, MergeKeepsOne, StoredRows
  <2>3. g \notin old
    BY <1>1, <2>2
  <2> QED BY <1>1, <2>2, <2>3
<1> QED BY <1>7, <1>10, <1>11 DEF MergeInv

LEMMA ReadInv ==
  ASSUME MergeInv, NEW r \in Request, ReadDuplicates(r)
  PROVE  MergeInv'
<1>0. QueueInv /\ ConsolidationTypeOK /\ cycle[r] \in Cycle
  BY DEF MergeInv, QueueInv, ConsolidationTypeOK
<1>1. PICK keep \in SUBSET StoredRows :
        /\ \A k, f \in keep : body[k] = body[f] => k = f
        /\ cycle' = [cycle EXCEPT ![r] =
                      [@ EXCEPT !.stage = "merge",
                                !.todo = {p \in StoredRows \X keep : /\ body[p[1]] = body[p[2]]
                                                               /\ p[1] # p[2]}]]
  BY DEF ReadDuplicates
<1> DEFINE todo == {p \in StoredRows \X keep : body[p[1]] = body[p[2]] /\ p[1] # p[2]}
           s == [cycle[r] EXCEPT !.stage = "merge", !.todo = todo]
<1>2. /\ cycle[r].stage = "read"
      /\ UNCHANGED <<stored, body, pinned, heavy, dropped, rewritten, tickets, released>>
  BY DEF ReadDuplicates, cnTexts
<1>3. todo \subseteq Fragment \X Fragment
  BY DEF StoredRows
<1>4. s \in Cycle /\ s.stage = "merge" /\ s.ticket = cycle[r].ticket /\ s.todo = todo
  BY <1>0, <1>3 DEF Cycle, Stage
<1>5. cycle' = [cycle EXCEPT ![r] = s]
  BY <1>0, <1>1 DEF Cycle, ConsolidationTypeOK
<1>6. \A p \in todo : /\ body[p[1]] = body[p[2]] /\ stored[p[1]] = "row" /\ stored[p[2]] = "row"
                      /\ \A q \in todo : q[1] # p[2]
  <2> SUFFICES ASSUME NEW p \in todo, NEW q \in todo, q[1] = p[2]
               PROVE  FALSE
    BY DEF StoredRows
  <2>1. q[2] \in keep /\ p[2] \in keep /\ body[q[2]] = body[p[2]]
    OBVIOUS
  <2> QED BY <1>1, <2>1
<1>7. Active(r) /\ Running(r)
  BY <1>2 DEF Active, Running
<1> HIDE DEF s, todo
<1>8. QueueInv'
  BY <1>0, <1>2, <1>4, <1>5, <1>7, MergerStep DEF ConsolidationTypeOK
<1>9. \A x \in Request : cycle'[x] = IF x = r THEN s ELSE cycle[x]
  BY <1>0, <1>5 DEF ConsolidationTypeOK
<1>10. TodoSound'
  <2> SUFFICES ASSUME NEW x \in Request, NEW p \in cycle'[x].todo
               PROVE  /\ cycle'[x].stage = "merge" /\ stored[p[1]] # "none"
                      /\ Waived(body[p[1]]) \/ (stored[p[2]] = "row" /\ body[p[2]] = body[p[1]])
                      /\ \A q \in cycle'[x].todo : q[1] # p[2]
    BY <1>2 DEF TodoSound, Waived
  <2>1. CASE x = r
    BY <1>4, <1>6, <1>9, <2>1
  <2>2. CASE x # r
    BY <1>9, <2>2 DEF MergeInv, TodoSound
  <2> QED BY <2>1, <2>2
<1>11. MergeKeepsOne'
  BY <1>2 DEF MergeInv, MergeKeepsOne, StoredRows
<1> QED BY <1>8, <1>10, <1>11 DEF MergeInv

LEMMA MergeOneInv ==
  ASSUME MergeInv, NEW r \in Request, NEW p \in Fragment \X Fragment, MergeOne(r, p)
  PROVE  MergeInv'
<1> DEFINE s == [cycle[r] EXCEPT !.todo = @ \ {p}]
<1>0. QueueInv /\ ConsolidationTypeOK /\ cycle[r] \in Cycle
  BY DEF MergeInv, QueueInv, ConsolidationTypeOK
<1>1. /\ cycle[r].stage = "merge" /\ p \in cycle[r].todo
      /\ stored' = [stored EXCEPT ![p[1]] = "gone"] /\ cycle' = [cycle EXCEPT ![r] = s]
      /\ UNCHANGED <<body, pinned, heavy, dropped, rewritten, tickets, released>>
  BY DEF MergeOne
<1>2. s \in Cycle /\ s.stage = "merge" /\ s.ticket = cycle[r].ticket /\ s.todo = cycle[r].todo \ {p}
  BY <1>0, <1>1 DEF Cycle
<1>3. Active(r) /\ Running(r)
  BY <1>1 DEF Active, Running
<1>4. stored' \in [Fragment -> {"none", "row", "gone"}] /\ p[1] \in Fragment /\ p[2] \in Fragment
  BY <1>0, <1>1 DEF ConsolidationTypeOK
<1> HIDE DEF s
<1>5. QueueInv'
  BY <1>0, <1>1, <1>2, <1>3, <1>4, MergerStep DEF ConsolidationTypeOK
<1>6. \A x \in Request : cycle'[x] = IF x = r THEN s ELSE cycle[x]
  BY <1>0, <1>1 DEF ConsolidationTypeOK
\* nobody else is merging
<1>7. ASSUME NEW x \in Request, cycle[x].todo # {} PROVE x = r
  <2>1. cycle[x].stage = "merge"
    BY <1>7, NothingToMerge
  <2>2. Running(x)
    BY <2>1 DEF Running
  <2> QED BY <1>0, <1>3, <2>2, OneAtATime DEF OneCycleAtATime
<1>8. \A q \in cycle[r].todo :
        /\ stored[q[1]] # "none" /\ q[2] # p[1]
        /\ Waived(body[q[1]]) \/ (stored[q[2]] = "row" /\ body[q[2]] = body[q[1]])
        /\ \A z \in cycle[r].todo : z[1] # q[2]
  BY <1>1 DEF MergeInv, TodoSound
<1>9. \A f \in Fragment : stored'[f] = IF f = p[1] THEN "gone" ELSE stored[f]
  BY <1>0, <1>1 DEF ConsolidationTypeOK
<1>10. TodoSound'
  <2> SUFFICES ASSUME NEW x \in Request, NEW q \in cycle'[x].todo
               PROVE  /\ cycle'[x].stage = "merge" /\ stored'[q[1]] # "none"
                      /\ Waived(body[q[1]]) \/ (stored'[q[2]] = "row" /\ body[q[2]] = body[q[1]])
                      /\ \A z \in cycle'[x].todo : z[1] # q[2]
    BY <1>1 DEF TodoSound, Waived
  <2>1. x = r /\ q \in cycle[r].todo
    BY <1>2, <1>6, <1>7
  <2>2. q[1] \in Fragment /\ q[2] \in Fragment
    BY <1>0, <2>1 DEF Cycle
  <2>3. cycle'[x].stage = "merge" /\ cycle'[x].todo \subseteq cycle[r].todo
    BY <1>2, <1>6, <2>1
  <2> QED BY <1>8, <1>9, <2>1, <2>2, <2>3
<1>11. MergeKeepsOne'
  <2> SUFFICES ASSUME NEW f \in Fragment, stored'[f] = "gone", body[f] \notin dropped \cup rewritten
               PROVE  \E g \in Fragment : stored'[g] = "row" /\ body[g] = body[f]
    BY <1>1 DEF MergeKeepsOne, StoredRows
  <2>1. CASE body[f] = body[p[1]]
    <3>1. stored[p[2]] = "row" /\ body[p[2]] = body[p[1]] /\ p[2] # p[1]
      BY <1>1, <1>8, <2>1 DEF Waived
    <3> QED BY <1>4, <1>9, <2>1, <3>1
  <2>2. CASE body[f] # body[p[1]]
    <3>1. stored[f] = "gone"
      BY <1>9, <2>2
    <3>2. PICK g \in Fragment : stored[g] = "row" /\ body[g] = body[f]
      BY <3>1 DEF MergeInv, MergeKeepsOne, StoredRows
    <3> QED BY <1>9, <2>2, <3>2
  <2> QED BY <2>1, <2>2
<1> QED BY <1>5, <1>10, <1>11 DEF MergeInv

LEMMA LeaveInv ==
  ASSUME MergeInv, NEW r \in Request, Leave(r)
  PROVE  MergeInv'
<1> DEFINE t == cycle[r].ticket
<1>0. QueueInv /\ ConsolidationTypeOK /\ cycle[r].stage = "leave" /\ tickets \in Nat
  BY DEF MergeInv, QueueInv, Leave, ConsolidationTypeOK
<1>1. Active(r) /\ Running(r)
  BY <1>0 DEF Active, Running
<1>2. PICK k \in Nat : released = 1..k /\ k <= tickets
  BY <1>0 DEF QueueInv, SlotsInOrder
<1>3. t \in (1..tickets) \ released /\ 1..(t - 1) \subseteq released
  BY <1>0, <1>1 DEF QueueInv, SlotPerCaller, RunsInTurn, MayEnter
<1>4. t = k + 1 /\ k + 1 <= tickets
  <2>1. t \in Nat \ {0} /\ t <= tickets /\ t \notin 1..k /\ 1..(t - 1) \subseteq 1..k
    BY <1>0, <1>2, <1>3
  <2>2. ~(t > k + 1)
    <3> SUFFICES ASSUME t > k + 1 PROVE FALSE
      BY <2>1
    <3>1. k + 1 \in 1..(t - 1)
      BY <2>1
    <3> QED BY <2>1, <3>1
  <2> QED BY <2>1, <2>2
<1>5. /\ released' = released \cup {t} /\ cycle' = [cycle EXCEPT ![r] = NoCycle]
      /\ UNCHANGED <<stored, body, pinned, heavy, dropped, rewritten, tickets>>
  BY DEF Leave, Released, cnTexts
<1>6. NoCycle \in Cycle /\ NoCycle.stage = "idle" /\ NoCycle.todo = {}
  BY TicketAssumption DEF NoCycle, Cycle, Stage
<1>7. \A x \in Request : cycle'[x] = IF x = r THEN NoCycle ELSE cycle[x]
  BY <1>0, <1>5 DEF ConsolidationTypeOK
<1> HIDE DEF t
<1>8. SlotsInOrder'
  <2>1. released' = 1..(k + 1)
    <3>1. 1..(k + 1) = (1..k) \cup {k + 1}
      OBVIOUS
    <3> QED BY <1>2, <1>4, <1>5, <3>1
  <2> QED BY <1>4, <1>5, <2>1 DEF SlotsInOrder
<1>9. ConsolidationTypeOK'
  <2>1. released' \subseteq 1..MaxTickets
    BY <1>0, <1>3, <1>5, TicketAssumption DEF ConsolidationTypeOK
  <2> QED BY <1>0, <1>5, <1>6, <2>1 DEF ConsolidationTypeOK
<1>10. SlotPerCaller' /\ OwnSlot'
  BY <1>0, <1>1, <1>5, <1>6, <1>7 DEF QueueInv, SlotPerCaller, OwnSlot, Active, t
<1>11. SlotsHeld'
  <2> SUFFICES ASSUME NEW n \in (1..tickets) \ released'
               PROVE  \E x \in Request : Active(x)' /\ cycle'[x].ticket = n
    BY <1>5 DEF SlotsHeld
  <2>1. PICK x \in Request : Active(x) /\ cycle[x].ticket = n
    BY <1>0, <1>5 DEF QueueInv, SlotsHeld
  <2>2. x # r
    BY <1>5, <2>1 DEF t
  <2> QED BY <1>7, <2>1, <2>2 DEF Active
<1>12. RunsInTurn'
  BY <1>0, <1>5, <1>6, <1>7 DEF QueueInv, RunsInTurn, Running, MayEnter
<1>13. TodoSound' /\ MergeKeepsOne'
  BY <1>5, <1>6, <1>7 DEF MergeInv, TodoSound, MergeKeepsOne, Waived, StoredRows
<1> QED BY <1>8, <1>9, <1>10, <1>11, <1>12, <1>13 DEF MergeInv, QueueInv

LEMMA RestartInv == ASSUME MergeInv, RestartProcess PROVE MergeInv'
<1>0. ConsolidationTypeOK
  BY DEF MergeInv, QueueInv
<1>1. NoCycle \in Cycle /\ NoCycle.stage = "idle" /\ NoCycle.todo = {}
  BY TicketAssumption DEF NoCycle, Cycle, Stage
<1>2. /\ tickets' = 0 /\ released' = 1..0 /\ \A r \in Request : cycle'[r] = NoCycle
      /\ UNCHANGED <<stored, body, pinned, heavy, dropped, rewritten>>
  BY DEF RestartProcess, cnTexts
<1>3. ConsolidationTypeOK'
  BY <1>0, <1>1, TicketAssumption DEF RestartProcess, cnTexts, ConsolidationTypeOK
<1>4. QueueInv'
  BY <1>1, <1>2, <1>3 DEF QueueInv, SlotsInOrder, SlotPerCaller, OwnSlot, SlotsHeld, RunsInTurn,
                          Active, Running
<1> QED BY <1>1, <1>2, <1>4 DEF MergeInv, TodoSound, MergeKeepsOne, StoredRows

LEMMA MergeNextInv == MergeInv /\ [ConsolidationNext]_cnVars => MergeInv'
<1> SUFFICES ASSUME MergeInv, [ConsolidationNext]_cnVars PROVE MergeInv'
  OBVIOUS
<1>0. QueueInv /\ ConsolidationTypeOK /\ \A r \in Request : cycle[r] \in Cycle
  BY DEF MergeInv, QueueInv, ConsolidationTypeOK
<1>1. ASSUME NEW f \in Fragment, ClientStep(f) PROVE MergeInv'
  BY <1>1, ClientInv
<1>2. ASSUME NEW r \in Request, Enter(r) PROVE MergeInv'
  <2> DEFINE s == [cycle[r] EXCEPT !.stage = "collect"]
  <2>1. s \in Cycle /\ s.stage = "collect" /\ s.ticket = cycle[r].ticket /\ s.todo = cycle[r].todo
    BY <1>0 DEF Cycle, Stage
  <2>2. cycle[r].todo = {} /\ Active(r) /\ MayEnter(r) /\ pinned' \subseteq Fragment /\ "collect" \in Stage
    BY <1>0, <1>2, NothingToMerge DEF Enter, Active, ConsolidationTypeOK, Stage
  <2> QED BY <1>2, <2>1, <2>2, PlainStage DEF Enter, cnTexts
<1>3. ASSUME NEW r \in Request, MergeEnds(r) PROVE MergeInv'
  <2> DEFINE s == [cycle[r] EXCEPT !.stage = "promote", !.todo = {}]
  <2>1. s \in Cycle /\ s.stage = "promote" /\ s.ticket = cycle[r].ticket /\ s.todo = {}
    BY <1>0 DEF Cycle, Stage
  <2>2. cycle' = [cycle EXCEPT ![r] = s]
    BY <1>0, <1>3 DEF MergeEnds, Cycle, ConsolidationTypeOK
  <2>3. Active(r) /\ Running(r) /\ pinned' \subseteq Fragment /\ "promote" \in Stage
    BY <1>0, <1>3 DEF MergeEnds, cnTexts, Active, Running, ConsolidationTypeOK, Stage
  <2> QED BY <1>3, <2>1, <2>2, <2>3, PlainStage DEF MergeEnds, cnTexts
<1>4. ASSUME NEW r \in Request, PromoteAnchors(r) PROVE MergeInv'
  <2> DEFINE s == [cycle[r] EXCEPT !.stage = "purge"]
  <2>1. s \in Cycle /\ s.stage = "purge" /\ s.ticket = cycle[r].ticket /\ s.todo = cycle[r].todo
    BY <1>0 DEF Cycle, Stage
  <2>2. cycle[r].todo = {} /\ Active(r) /\ Running(r) /\ "purge" \in Stage
    BY <1>4, NothingToMerge DEF PromoteAnchors, Active, Running, Stage
  <2>3. pinned' \subseteq Fragment
    BY <1>0, <1>4 DEF PromoteAnchors, StoredRows, ConsolidationTypeOK
  <2> QED BY <1>4, <2>1, <2>2, <2>3, PlainStage DEF PromoteAnchors, cnTexts
<1>5. ASSUME NEW r \in Request, CycleStep(r) PROVE MergeInv'
  BY <1>2, <1>3, <1>4, <1>5, AskInv, DeleteInv, ReadInv, MergeOneInv, LeaveInv DEF CycleStep
<1>6. ASSUME UNCHANGED cnVars PROVE MergeInv'
  <2>1. ConsolidationTypeOK'
    BY <1>0, <1>6 DEF cnVars, ConsolidationTypeOK
  <2>2. QueueInv'
    BY <1>0, <1>6, <2>1, SameSlots DEF cnVars, Active, Running
  <2> QED BY <1>6, <2>2 DEF cnVars, MergeInv, TodoSound, MergeKeepsOne, Waived, StoredRows
<1> QED BY <1>1, <1>5, <1>6, RestartInv DEF ConsolidationNext

LEMMA MergeInvariance == ConsolidationSpec => []MergeInv
BY MergeInitInv, MergeNextInv, PTL DEF ConsolidationSpec

(***************************************************************************)
(* Type correctness of rows, anchors, slots and callers.                   *)
(***************************************************************************)
THEOREM ConsolidationTypeCorrect == ConsolidationSpec => []ConsolidationTypeOK
<1>1. MergeInv => ConsolidationTypeOK
  BY DEF MergeInv, QueueInv
<1> QED BY <1>1, MergeInvariance, PTL

(***************************************************************************)
(* The promise chain lets one cycle work at a time, however many callers   *)
(* queue up and however often the process is restarted.                    *)
(***************************************************************************)
THEOREM Serialised == ConsolidationSpec => []OneCycleAtATime
<1>1. MergeInv => OneCycleAtATime
  BY OneAtATime DEF MergeInv
<1> QED BY <1>1, MergeInvariance, PTL

(***************************************************************************)
(* No caller of consolidate() is left behind an unresolved slot.           *)
(***************************************************************************)
THEOREM NobodyStuck == ConsolidationSpec => []QueueNeverStuck
<1>1. MergeInv => QueueNeverStuck
  BY NeverStuck DEF MergeInv
<1> QED BY <1>1, MergeInvariance, PTL

(***************************************************************************)
(* Merging duplicates never deletes the last copy of a content that        *)
(* clients and the garbage collection left alone and that no amend wrote   *)
(* into a row after the merge had listed it, however many copies, keys and *)
(* contents there are.                                                     *)
(***************************************************************************)
THEOREM OneCopyKept == ConsolidationSpec => []MergeKeepsOne
<1>1. MergeInv => MergeKeepsOne
  BY DEF MergeInv
<1> QED BY <1>1, MergeInvariance, PTL

(***************************************************************************)
(* Retention. The inductive invariant: a preference that nothing unpinned  *)
(* goes through the rest of the cycle permanent, or untouched for too      *)
(* long, or touched since; whatever has not been accessed for 60 days has  *)
(* not been counted by a recall for as long; a fragment that a recall has  *)
(* counted has a count above zero, and no stage holds a zero of it, unless *)
(* the recall was counted while a stage held a count.                      *)
(***************************************************************************)
CycleHasRow == stage = "preference" => kept.is \in {"unborn", "live"}
RecallCounted == kept.recalled # Never /\ ~raced => kept.count = 1
ZeroBefore == kept.recalled # Never /\ ~raced => 0 \notin tally
CountedByAccess == kept.recalled >= kept.idle \/ kept.recalled >= Inactive
PreferenceHeld ==
  Alive /\ kept.kind = "preference" /\ ~unpinned
    /\ stage \in {"hub", "merit", "cool", "parole", "decay", "delete"} =>
      kept.tier = "permanent" \/ kept.idle >= Forgotten \/ kept.idle = 0
RetentionInv ==
  /\ RetentionTypeOK /\ CycleHasRow /\ RecallCounted /\ ZeroBefore
  /\ CountedByAccess /\ PreferenceHeld /\ CollectedIdle

AccessedRows(r) ==
  {s \in KeptRow : /\ s.idle = 0 /\ s.is = r.is /\ s.kind = r.kind /\ s.tier = r.tier
                   /\ s.recalled = r.recalled /\ s.count = r.count}

LEMMA AccessedRow ==
  ASSUME NEW r \in KeptRow
  PROVE  /\ Accessed(r) \in KeptRow /\ Accessed(r).idle = 0
         /\ Accessed(r).is = r.is /\ Accessed(r).kind = r.kind /\ Accessed(r).tier = r.tier
         /\ Accessed(r).recalled = r.recalled /\ Accessed(r).count = r.count
<1>1. Forgotten \in Nat
  BY RetentionAssumption
<1> QED BY <1>1 DEF Accessed, KeptRow, Lapse, Never

\* an access that writes a field besides
LEMMA AccessedThen ==
  ASSUME NEW r \in KeptRow
  PROVE  /\ \A b \in Band : [Accessed(r) EXCEPT !.importance = b] \in AccessedRows(r)
         /\ \A a \in BOOLEAN : [Accessed(r) EXCEPT !.anchor = a] \in AccessedRows(r)
         /\ \A q \in {"kept", "rejected"} : [Accessed(r) EXCEPT !.quality = q] \in AccessedRows(r)
         /\ \A b \in Band, q \in {"kept", "rejected"} :
              [Accessed(r) EXCEPT !.importance = b, !.quality = q] \in AccessedRows(r)
<1> DEFINE s == Accessed(r)
<1>1. s \in KeptRow /\ s.idle = 0 /\ s.is = r.is /\ s.kind = r.kind /\ s.tier = r.tier /\ s.recalled = r.recalled
      /\ s.count = r.count
  BY AccessedRow
<1> HIDE DEF s
<1>2. \A b \in Band : [s EXCEPT !.importance = b] \in AccessedRows(r)
  BY <1>1 DEF AccessedRows, KeptRow
<1>3. \A a \in BOOLEAN : [s EXCEPT !.anchor = a] \in AccessedRows(r)
  BY <1>1 DEF AccessedRows, KeptRow
<1>4. \A q \in {"kept", "rejected"} : [s EXCEPT !.quality = q] \in AccessedRows(r)
  BY <1>1 DEF AccessedRows, KeptRow
<1>5. \A b \in Band, q \in {"kept", "rejected"} : [s EXCEPT !.importance = b, !.quality = q] \in AccessedRows(r)
  BY <1>1 DEF AccessedRows, KeptRow
<1> QED BY <1>2, <1>3, <1>4, <1>5 DEF s

LEMMA AccessKeeps ==
  ASSUME RetentionInv, Alive, kept' \in AccessedRows(kept), stage' = stage, jobs' \in 0..MaxJobs,
         unpinned' = unpinned, raced' = raced, tally' = tally
  PROVE  RetentionInv'
<1>1. /\ Inactive \in Nat \ {0} /\ Forgotten \in Nat /\ Inactive < Forgotten
      /\ kept'.recalled \in Nat /\ kept'.idle = 0 /\ kept'.is = "live" /\ kept'.kind = kept.kind
      /\ kept'.tier = kept.tier /\ kept' \in KeptRow
      /\ kept'.recalled = kept.recalled /\ kept'.count = kept.count
  BY RetentionAssumption DEF RetentionInv, RetentionTypeOK, KeptRow, Lapse, AccessedRows, Alive
<1>2. RetentionTypeOK'
  BY <1>1 DEF RetentionInv, RetentionTypeOK
<1>3. CycleHasRow' /\ CountedByAccess' /\ PreferenceHeld' /\ CollectedIdle'
  BY <1>1 DEF CycleHasRow, CountedByAccess, PreferenceHeld, CollectedIdle, Alive
<1>4. RecallCounted' /\ ZeroBefore'
  BY <1>1 DEF RetentionInv, RecallCounted, ZeroBefore, Never
<1> QED BY <1>2, <1>3, <1>4 DEF RetentionInv

LEMMA RetentionInitInv == RetentionInit => RetentionInv
<1>1. (CHOOSE x \in KeptKind : TRUE) \in KeptKind
  BY RetentionAssumption
<1>2. Never \in Lapse /\ Fair \in Band /\ "warm" \in Tier /\ 0 \in 0..MaxJobs /\ Never >= Never
  BY RetentionAssumption DEF Never, Lapse, Fair, Band, Low, High, Tier
<1>3. RetentionInit => RetentionTypeOK
  <2>1. ASSUME RetentionInit PROVE kept \in KeptRow
    BY <1>1, <1>2, <2>1 DEF RetentionInit, KeptRow
  <2> QED BY <1>2, <2>1 DEF RetentionInit, RetentionTypeOK, CycleStage
<1>4. RetentionInit => CycleHasRow /\ CountedByAccess /\ PreferenceHeld /\ CollectedIdle /\ RecallCounted /\ ZeroBefore
  BY <1>2 DEF RetentionInit, CycleHasRow, CountedByAccess, PreferenceHeld, CollectedIdle, Alive, RecallCounted, ZeroBefore
<1> QED BY <1>3, <1>4 DEF RetentionInv

LEMMA RetentionNextInv == RetentionInv /\ [RetentionNext]_rtVars => RetentionInv'
<1> SUFFICES ASSUME RetentionInv, [RetentionNext]_rtVars PROVE RetentionInv'
  OBVIOUS
<1>0. /\ kept \in KeptRow /\ stage \in CycleStage /\ jobs \in 0..MaxJobs /\ unpinned \in BOOLEAN
      /\ tally \subseteq 0..1 /\ raced \in BOOLEAN /\ RecallCounted /\ ZeroBefore
      /\ CycleHasRow /\ CountedByAccess /\ PreferenceHeld /\ CollectedIdle
      /\ Inactive \in Nat \ {0} /\ Forgotten \in Nat /\ Inactive < Forgotten /\ MaxJobs \in Nat
  BY RetentionAssumption DEF RetentionInv, RetentionTypeOK
<1> USE DEF RetentionInv, RetentionTypeOK, KeptRow, CycleHasRow, RecallCounted, ZeroBefore, CountedByAccess,
            PreferenceHeld, CollectedIdle,
            Alive, Lapse, Never, CycleStage, Band, Low, Fair, Good, High, Tier
<1>1. CASE RememberKept
  <2>1. PICK kind \in KeptKind, b \in Band, anchor \in BOOLEAN, tier \in Tier :
          /\ kept' = [kept EXCEPT !.is = "live", !.kind = kind, !.tier = tier, !.anchor = anchor, !.importance = b]
          /\ unpinned' = (kind = "preference" /\ tier # "permanent")
          /\ tier \in Inferred(kind, b) \cup {"warm"} \cup (IF b = Low THEN {"short"} ELSE {})
    <3>1. PICK kind \in KeptKind, b \in Band, anchor \in BOOLEAN :
            \E tier \in Inferred(kind, b) \cup {"warm"} \cup (IF b = Low THEN {"short"} ELSE {}) :
              /\ kept' = [kept EXCEPT !.is = "live", !.kind = kind, !.tier = tier, !.anchor = anchor, !.importance = b]
              /\ unpinned' = (kind = "preference" /\ tier # "permanent")
      BY <1>1 DEF RememberKept
    <3>2. PICK tier \in Inferred(kind, b) \cup {"warm"} \cup (IF b = Low THEN {"short"} ELSE {}) :
            /\ kept' = [kept EXCEPT !.is = "live", !.kind = kind, !.tier = tier, !.anchor = anchor, !.importance = b]
            /\ unpinned' = (kind = "preference" /\ tier # "permanent")
      BY <3>1
    <3>3. tier \in {"warm", "short"} \/ tier \in Inferred(kind, b)
      BY <3>2
    <3>4. Inferred(kind, b) \subseteq Tier
      BY DEF Inferred
    <3>5. tier \in Tier
      BY <3>3, <3>4
    <3> HIDE DEF Tier
    <3> QED BY <3>2, <3>5
  <2>2. unpinned' \in BOOLEAN /\ (~unpinned' /\ kind = "preference" => tier = "permanent")
    BY <2>1
  <2>4. /\ kept' \in KeptRow /\ kept'.is = "live" /\ kept'.kind = kind /\ kept'.tier = tier
        /\ kept'.idle = kept.idle /\ kept'.recalled = kept.recalled
        /\ kept'.count = kept.count
    BY <1>0, <2>1
  <2>5. stage' = stage /\ jobs' \in 0..MaxJobs /\ tally' = tally /\ raced' = raced
    BY <1>1 DEF RememberKept
  <2> QED BY <1>0, <2>2, <2>4, <2>5
<1>2. CASE TimeGoes
  <2>1. Older(kept.idle, Forgotten) \in Lapse /\ Older(kept.recalled, Inactive) \in Lapse
        /\ (Older(kept.recalled, Inactive) >= Older(kept.idle, Forgotten) \/ Older(kept.recalled, Inactive) >= Inactive)
    BY <1>0 DEF Older
  <2>2. /\ Older(kept.recalled, Inactive) = Never <=> kept.recalled = Never
        /\ Older(kept.idle, Forgotten) \in Lapse
    BY <1>0 DEF Older
  <2>3. /\ kept' \in KeptRow /\ kept'.is = kept.is /\ kept'.kind = kept.kind /\ kept'.tier = kept.tier
        /\ kept'.count = kept.count /\ kept'.idle = Older(kept.idle, Forgotten)
        /\ kept'.recalled = Older(kept.recalled, Inactive)
    BY <1>0, <1>2, <2>1 DEF TimeGoes
  <2>4. UNCHANGED <<stage, tally, jobs, unpinned, raced>> /\ stage = "rest" /\ kept.is = "live"
    BY <1>2 DEF TimeGoes
  <2> HIDE DEF KeptRow
  <2> QED BY <1>0, <2>1, <2>2, <2>3, <2>4
<1>3. CASE CountAccess
  <2>1. /\ Accessed(kept) \in KeptRow /\ Accessed(kept).idle = 0
        /\ Accessed(kept).is = kept.is /\ Accessed(kept).kind = kept.kind /\ Accessed(kept).tier = kept.tier
        /\ Accessed(kept).recalled = kept.recalled /\ Accessed(kept).count = kept.count
    BY <1>0, AccessedRow
  <2>2. raced' \in BOOLEAN /\ (~raced' => tally = {})
    BY <1>3 DEF CountAccess
  <2>3. /\ kept' \in KeptRow /\ kept'.idle = 0 /\ kept'.is = kept.is /\ kept'.kind = kept.kind
        /\ kept'.tier = kept.tier /\ kept'.recalled = 0 /\ kept'.count = 1
    <3> DEFINE row == Accessed(kept)
    <3>1. kept' = [row EXCEPT !.count = 1, !.recalled = 0]
      BY <1>3 DEF CountAccess
    <3> HIDE DEF row
    <3>2. /\ row \in KeptRow /\ row.idle = 0 /\ row.is = kept.is /\ row.kind = kept.kind /\ row.tier = kept.tier
      BY <2>1 DEF row
    <3>3. 0 \in Lapse /\ 1 \in 0..1
      BY <1>0
    <3> HIDE DEF Alive, Band, Tier, Lapse, Never
    <3>4. kept' \in KeptRow
      BY <3>1, <3>2, <3>3
    <3>5. /\ kept'.idle = row.idle /\ kept'.is = row.is /\ kept'.kind = row.kind /\ kept'.tier = row.tier
          /\ kept'.recalled = 0 /\ kept'.count = 1
      BY <3>1, <3>2
    <3> QED BY <3>2, <3>4, <3>5
  <2>4. tally' = tally /\ stage' = stage /\ jobs' = jobs /\ unpinned' = unpinned /\ kept.is = "live"
    BY <1>3 DEF CountAccess
  <2> HIDE DEF KeptRow
  <2> QED BY <1>0, <2>2, <2>3, <2>4
<1>4. CASE Touch
  <2> HIDE DEF RetentionInv, RetentionTypeOK, KeptRow, CycleHasRow, RecallCounted, ZeroBefore, CountedByAccess, PreferenceHeld, CollectedIdle
  <2>1. \A b \in kept.importance..High : b \in Band
    BY <1>0 DEF KeptRow
  <2>2. kept' \in AccessedRows(kept)
    <3> HIDE DEF Alive, Band, High
    <3>1. CASE \E b \in kept.importance..High : kept' = [Accessed(kept) EXCEPT !.importance = b]
      BY <1>0, <2>1, <3>1, AccessedThen, Zenon
    <3>2. CASE kept' = [Accessed(kept) EXCEPT !.anchor = TRUE]
      BY <1>0, <3>2, AccessedThen, Zenon
    <3> QED BY <1>4, <3>1, <3>2 DEF Touch
  <2> QED BY <1>0, <1>4, <2>2, AccessKeeps DEF Touch
<1>5. CASE Demote
  BY <1>0, <1>5 DEF Demote
<1>6. CASE AmendKept
  <2>1. /\ Accessed(kept) \in KeptRow /\ Accessed(kept).idle = 0
        /\ Accessed(kept).is = kept.is /\ Accessed(kept).kind = kept.kind /\ Accessed(kept).tier = kept.tier
        /\ Accessed(kept).recalled = kept.recalled /\ Accessed(kept).count = kept.count
    BY <1>0, AccessedRow
  <2>2. ASSUME NEW kind \in KeptKind, kept' = [Accessed(kept) EXCEPT !.kind = kind],
               unpinned' = (unpinned \/ kind # kept.kind)
        PROVE  RetentionInv'
    <3>1. unpinned' \in BOOLEAN
      BY <2>2
    <3>2. ~unpinned' => ~unpinned /\ kind = kept.kind
      BY <2>2
    <3> QED BY <1>0, <1>6, <2>1, <2>2, <3>1, <3>2 DEF AmendKept
  <2>3. ASSUME NEW b \in Band, kept' = [Accessed(kept) EXCEPT !.importance = b], unpinned' = unpinned
        PROVE  RetentionInv'
    BY <1>0, <1>6, <2>1, <2>3 DEF AmendKept
  <2>4. ASSUME NEW anchor \in BOOLEAN, kept' = [Accessed(kept) EXCEPT !.anchor = anchor], unpinned' = unpinned
        PROVE  RetentionInv'
    BY <1>0, <1>6, <2>1, <2>4 DEF AmendKept
  <2> QED BY <1>6, <2>2, <2>3, <2>4 DEF AmendKept
<1>7. CASE DropJob
  <2> HIDE DEF RetentionInv, RetentionTypeOK, KeptRow, CycleHasRow, RecallCounted, ZeroBefore, CountedByAccess, PreferenceHeld, CollectedIdle
  <2>1. jobs' \in 0..MaxJobs
    BY <1>0, <1>7 DEF DropJob
  <2>2. CASE Alive
    <3>1. kept' \in AccessedRows(kept)
      BY <1>0, <1>7, <2>2, AccessedThen DEF DropJob
    <3> QED BY <1>0, <1>7, <2>1, <2>2, <3>1, AccessKeeps DEF DropJob
  <2>3. CASE ~Alive
    BY <1>0, <1>7, <2>1, <2>3
       DEF DropJob, RetentionInv, RetentionTypeOK, CycleHasRow, RecallCounted, ZeroBefore, CountedByAccess, PreferenceHeld, CollectedIdle
  <2> QED BY <2>2, <2>3
<1>8. CASE GiveVerdict
  <2> HIDE DEF RetentionInv, RetentionTypeOK, KeptRow, CycleHasRow, RecallCounted, ZeroBefore, CountedByAccess, PreferenceHeld, CollectedIdle
  <2>1. jobs' \in 0..MaxJobs
    BY <1>0, <1>8 DEF GiveVerdict
  <2>2. {Low, Fair} \subseteq Band
    OBVIOUS
  <2>3. kept' = kept \/ (Alive /\ kept' \in AccessedRows(kept))
    <3> HIDE DEF Alive, Band, Low, Fair
    <3>1. \A b \in Band, q \in {"kept", "rejected"} :
            [Accessed(kept) EXCEPT !.importance = b, !.quality = q] \in AccessedRows(kept)
      BY <1>0, AccessedThen
    <3>2. ASSUME NEW b \in Band, kept' = [Accessed(kept) EXCEPT !.importance = b, !.quality = "kept"]
          PROVE  kept' \in AccessedRows(kept)
      BY <3>1, <3>2, Zenon
    <3>3. ASSUME NEW b \in {Low, Fair}, kept' = [Accessed(kept) EXCEPT !.importance = b, !.quality = "rejected"]
          PROVE  kept' \in AccessedRows(kept)
      <4>1. b \in Band
        BY <2>2
      <4> QED BY <3>1, <3>3, <4>1, Zenon
    <3> QED BY <1>8, <3>2, <3>3, Zenon DEF GiveVerdict
  <2>4. CASE kept' = kept
    BY <1>0, <1>8, <2>1, <2>4
       DEF GiveVerdict, RetentionInv, RetentionTypeOK, CycleHasRow, RecallCounted, ZeroBefore, CountedByAccess, PreferenceHeld, CollectedIdle
  <2> QED BY <1>8, <2>1, <2>3, <2>4, AccessKeeps DEF GiveVerdict
<1>9. CASE StartCycle
  BY <1>0, <1>9 DEF StartCycle
<1>10. CASE StatementFails
  <2>1. unpinned' \in BOOLEAN
    BY <1>10 DEF StatementFails
  <2>2. ~unpinned' => ~unpinned /\ stage # "preference"
    BY <1>10 DEF StatementFails
  <2>3. /\ stage' \in CycleStage /\ stage' # "preference" /\ kept' = kept /\ jobs' = jobs
        /\ stage' \in {"hub", "merit", "cool", "parole", "decay", "delete"} =>
             stage \in {"preference", "hub", "merit", "cool", "parole", "decay"}
    BY <1>0, <1>10 DEF StatementFails, NextStage
  <2>4. tally' = {} /\ raced' = raced
    BY <1>10 DEF StatementFails
  <2>5. RetentionTypeOK' /\ CycleHasRow' /\ RecallCounted' /\ ZeroBefore'
    BY <1>0, <2>1, <2>3, <2>4
  <2>6. CountedByAccess' /\ PreferenceHeld' /\ CollectedIdle'
    BY <1>0, <2>1, <2>2, <2>3, <2>4
  <2> QED BY <2>5, <2>6
<1>11. CASE PinPreference
  BY <1>0, <1>11 DEF PinPreference, Statement, NextStage
<1>12. CASE PromoteHub
  BY <1>0, <1>12 DEF PromoteHub, Statement, NextStage
<1>13. CASE PromoteMerit
  BY <1>0, <1>13 DEF PromoteMerit, Statement, NextStage
<1>14. CASE Cool
  BY <1>0, <1>14 DEF Cool, Statement, NextStage
<1>15. CASE Parole
  BY <1>0, <1>15 DEF Parole, Statement, NextStage, Unaccessed
<1>16. CASE Decay
  BY <1>0, <1>16 DEF Decay, Statement, NextStage, Collectible
<1>17. CASE DeleteExpired
  BY <1>0, <1>17 DEF DeleteExpired, Statement, NextStage, Collectible, Outlived
<1>18. CASE ScoreUtility
  BY <1>0, <1>18 DEF ScoreUtility, Statement, NextStage
<1>19. CASE Requeue
  BY <1>0, <1>19 DEF Requeue, Statement, NextStage
<1>20. CASE PromoteAnchor
  <2>1. /\ kept' = kept \/ (Alive /\ kept' = [kept EXCEPT !.anchor = TRUE])
        /\ stage' = NextStage("anchors") /\ UNCHANGED <<tally, jobs, unpinned, raced>>
    BY <1>20 DEF PromoteAnchor, Statement
  <2>2. stage' = "contradict"
    BY <2>1 DEF NextStage
  <2>3. /\ kept' \in KeptRow /\ kept'.is = kept.is /\ kept'.kind = kept.kind /\ kept'.tier = kept.tier
        /\ kept'.idle = kept.idle /\ kept'.recalled = kept.recalled /\ kept'.count = kept.count
    <3>1. kept \in KeptRow
      BY <1>0
    <3> HIDE DEF Alive, Band, Tier, Lapse, Never
    <3> QED BY <2>1, <3>1
  <2> HIDE DEF KeptRow
  <2> QED BY <1>0, <2>1, <2>2, <2>3
<1>21. CASE Calibrate
  BY <1>0, <1>21 DEF Calibrate, Statement, NextStage
<1>22. CASE PurgeReflection
  BY <1>0, <1>22 DEF PurgeReflection, Statement, NextStage, Collectible
<1>23. CASE CountDuplicate
  BY <1>0, <1>23 DEF CountDuplicate
<1>24. CASE Devalue
  BY <1>0, <1>24 DEF Devalue, Statement, NextStage
<1>25. CASE MergeKept
  BY <1>0, <1>25 DEF MergeKept, Statement, NextStage
<1>26. CASE ReadCount
  <2>1. tally' = tally \cup {kept.count} /\ UNCHANGED <<kept, stage, jobs, unpinned, raced>>
    BY <1>26 DEF ReadCount
  <2>2. tally' \subseteq 0..1
    BY <1>0, <2>1
  <2>3. ZeroBefore'
    BY <1>0, <2>1
  <2>4. RetentionTypeOK'
    BY <1>0, <2>1, <2>2
  <2>5. CycleHasRow' /\ RecallCounted' /\ CountedByAccess' /\ PreferenceHeld' /\ CollectedIdle'
    BY <1>0, <2>1
  <2> QED BY <2>3, <2>4, <2>5
<1>27. CASE WriteCount
  BY <1>0, <1>27 DEF WriteCount
<1>28. CASE StopCounting
  <2>1. /\ stage' \in {"compress", "utility"} /\ tally' = {} /\ UNCHANGED <<kept, jobs, unpinned, raced>>
    BY <1>28 DEF StopCounting, NextStage
  <2> QED BY <1>0, <2>1
<1>29. CASE SupersedeKept
  BY <1>0, <1>29 DEF SupersedeKept
<1>30. CASE UNCHANGED rtVars
  BY <1>0, <1>30 DEF rtVars
<1> QED BY <1>1, <1>2, <1>3, <1>4, <1>5, <1>6, <1>7, <1>8, <1>9, <1>10, <1>11,
           <1>12, <1>13, <1>14, <1>15, <1>16, <1>17, <1>18, <1>19, <1>20, <1>21, <1>22, <1>23,
           <1>24, <1>25, <1>26, <1>27, <1>28, <1>29, <1>30 DEF RetentionNext

(***************************************************************************)
(* For any times, kinds and number of jobs, and whatever comes between the *)
(* statements of a cycle or fails in one: what is collected has not been   *)
(* counted for 60 days, or its last recall was counted behind the back of  *)
(* a stage that then wrote a zero over it; and a preference still pinned   *)
(* has not been accessed for 180 days (FragmentGC.js:133).                 *)
(***************************************************************************)
THEOREM OnlyIdleCollected == RetentionSpec => []CollectedIdle
<1>1. RetentionInv => CollectedIdle
  BY DEF RetentionInv
<1> QED BY <1>1, RetentionInitInv, RetentionNextInv, PTL DEF RetentionSpec

(***************************************************************************)
(* The fragment and the cycles that look at it are well typed.             *)
(***************************************************************************)
THEOREM RetentionTypeCorrect == RetentionSpec => []RetentionTypeOK
<1>1. RetentionInv => RetentionTypeOK
  BY DEF RetentionInv
<1> QED BY <1>1, RetentionInitInv, RetentionNextInv, PTL DEF RetentionSpec

----------------------------------------------------------------------------
(***************************************************************************)
(* Supersession.                                                           *)
(***************************************************************************)
WorkRecord == [task : Task, step : Step, todo : SUBSET (Node \X Node), pair : Pair]
Retiring == {"link", "contradict", "supersede"}

(***************************************************************************)
(* The pairs that have left a trace: what takes the links of two rows away *)
(* is the deletion of one of them, for good, or semantic_dedup, which is   *)
(* recorded.                                                               *)
(***************************************************************************)
Traced == {p \in Node \X Node : \/ rel[p] # "" \/ rel[<<p[2], p[1]>>] # ""
                                \/ node[p[1]] = "gone" \/ node[p[2]] = "gone"
                                \/ p \in cleaned}

(***************************************************************************)
(* What a handler carries from one step to the next: a pair to link for    *)
(* retirement is in the order of its ages, one to retire has its trace.    *)
(***************************************************************************)
Ordered(p) == Born[p[1]] <= Born[p[2]]
Shape(s) ==
  /\ s.step = "link" => s.task \in Retiring /\ (s.task # "link" => Ordered(s.pair))
  /\ s.step = "contradicts" => s.task = "contradict"
  /\ s.step \in {"gate", "candidates"} => s.task = "link"
  /\ s.step = "clean" => s.task = "dedup"
  /\ s.step \in {"gate", "candidates", "contradicts", "clean", "link", "retire"} =>
       s.pair \in Node \X Node
  /\ s.task = "supersede" => \A p \in s.todo : Ordered(p)
MayRetire(s) == s.step = "retire" /\ s.task \in Retiring

Shapes == \A w \in Worker : Shape(work[w])
RetiringTraced == \A w \in Worker : MayRetire(work[w]) => work[w].pair \in Traced
HeirTraced == \A f \in Node : heir[f] # NoNode => <<f, heir[f]>> \in Traced

SupersessionInv ==
  /\ SupersessionTypeOK
  /\ Shapes /\ RetiringTraced /\ HeirTraced
  /\ SupersededByNewer

LEMMA RestingShape == Resting \in WorkRecord /\ Shape(Resting) /\ ~MayRetire(Resting)
BY NodeAssumption DEF Resting, WorkRecord, Task, Step, NoPair, Pair, Shape, MayRetire

LEMMA SupersessionInitInv == SupersessionInit => SupersessionInv
<1> SUFFICES ASSUME SupersessionInit PROVE SupersessionInv
  OBVIOUS
<1>1. \A w \in Worker : work[w] = Resting
  BY DEF SupersessionInit
<1>2. SupersessionTypeOK
  <2>1. work \in [Worker -> WorkRecord]
    BY RestingShape DEF SupersessionInit
  <2>2. rel \in [Node \X Node -> Relation]
    <3>1. "" \in Relation /\ rel = [p \in Node \X Node |-> ""]
      BY DEF SupersessionInit, Relation
    <3> QED BY <3>1
  <2>3. /\ node \in [Node -> {"none", "live", "expired", "gone"}]
        /\ heir \in [Node -> Node \cup {NoNode}]
    BY DEF SupersessionInit
  <2>4. cleaned \subseteq Node \X Node /\ begun \in 0..MaxTasks
    <3>1. MaxTasks \in Nat
      BY NodeAssumption
    <3>2. cleaned = {} /\ begun = 0
      BY DEF SupersessionInit
    <3> QED BY <3>1, <3>2
  <2> QED BY <2>1, <2>2, <2>3, <2>4 DEF SupersessionTypeOK, WorkRecord
<1>3. Shapes /\ RetiringTraced
  BY <1>1, RestingShape DEF Shapes, RetiringTraced
<1>4. SupersededByNewer /\ HeirTraced
  BY NodeAssumption DEF SupersessionInit, SupersededByNewer, HeirTraced
<1> QED BY <1>2, <1>3, <1>4 DEF SupersessionInv

\* a trace is not lost, and no link turns up that points to an older fragment
Safe ==
  /\ Traced \subseteq Traced'
  /\ \A p \in Node \X Node : rel'[p] = "superseded_by" => rel[p] = "superseded_by" \/ Ordered(p)

\* one handler goes on and the others stay where they are
LEMMA HandlerStep ==
  ASSUME SupersessionInv, Safe, NEW w \in Worker, NEW s \in WorkRecord, Shape(s),
         MayRetire(s) => s.pair \in Traced',
         work' = [work EXCEPT ![w] = s],
         node' \in [Node -> {"none", "live", "expired", "gone"}],
         rel' \in [Node \X Node -> Relation],
         cleaned' \subseteq Node \X Node, begun' \in 0..MaxTasks,
         heir' \in [Node -> Node \cup {NoNode}],
         \A f \in Node : heir'[f] # NoNode => heir'[f] = heir[f] \/ <<f, heir'[f]>> \in Traced'
  PROVE  SupersessionInv'
<1>0. work \in [Worker -> WorkRecord]
  BY DEF SupersessionInv, SupersessionTypeOK, WorkRecord
<1>1. SupersessionTypeOK'
  <2>1. work' \in [Worker -> WorkRecord]
    BY <1>0
  <2> QED BY <2>1 DEF SupersessionTypeOK, WorkRecord
<1>2. \A x \in Worker : work'[x] = IF x = w THEN s ELSE work[x]
  BY <1>0
<1>3. Shapes'
  BY <1>2 DEF SupersessionInv, Shapes
<1>4. RetiringTraced'
  BY <1>2 DEF SupersessionInv, RetiringTraced, Safe
<1>5. SupersededByNewer'
  BY DEF SupersessionInv, Safe, SupersededByNewer, Ordered
<1>6. HeirTraced'
  BY DEF SupersessionInv, Safe, HeirTraced
<1> QED BY <1>1, <1>3, <1>4, <1>5, <1>6 DEF SupersessionInv

\* a step that only changes what a handler does
LEMMA PlainStep ==
  ASSUME SupersessionInv, NEW w \in Worker, NEW s \in WorkRecord, Shape(s),
         MayRetire(s) => s.pair \in Traced,
         work' = [work EXCEPT ![w] = s],
         UNCHANGED <<node, rel, heir, cleaned>>, begun' \in 0..MaxTasks
  PROVE  SupersessionInv'
<1>1. Traced' = Traced
  BY DEF Traced
<1>2. Safe
  BY <1>1 DEF Safe
<1> QED BY <1>1, <1>2, HandlerStep DEF SupersessionInv, SupersessionTypeOK

----------------------------------------------------------------------------
LEMMA AtWork ==
  ASSUME SupersessionInv, NEW w \in Worker
  PROVE  work[w] \in WorkRecord /\ Shape(work[w]) /\ (MayRetire(work[w]) => work[w].pair \in Traced)
BY DEF SupersessionInv, SupersessionTypeOK, WorkRecord, Shapes, RetiringTraced

LEMMA BeginInv ==
  ASSUME SupersessionInv, NEW w \in Worker, NEW task \in Task, NEW step \in {"next", "gate", "candidates"},
         NEW todo \in SUBSET (Node \X Node), NEW pair \in Pair,
         task = "supersede" => \A p \in todo : Ordered(p),
         step # "next" => task = "link" /\ pair \in Node \X Node,
         Begin(w, task, step, todo, pair)
  PROVE  SupersessionInv'
<1> DEFINE s == [task |-> task, step |-> step, todo |-> todo, pair |-> pair]
<1>1. s \in WorkRecord /\ Shape(s) /\ ~MayRetire(s)
  BY DEF WorkRecord, Step, Shape, MayRetire
<1>2. work' = [work EXCEPT ![w] = s] /\ UNCHANGED <<node, rel, heir, cleaned>>
  BY DEF Begin
<1>3. begun' \in 0..MaxTasks
  BY NodeAssumption DEF Begin, SupersessionInv, SupersessionTypeOK
<1> QED BY <1>1, <1>2, <1>3, PlainStep

LEMMA TakeInv ==
  ASSUME SupersessionInv, NEW w \in Worker, NEW task \in Task, NEW step \in Step,
         NEW todo \in SUBSET (Node \X Node), NEW pair \in Pair,
         task = "supersede" => todo \subseteq work[w].todo,
         step \in {"contradicts", "clean", "link", "retire"} => pair \in Node \X Node,
         step = "link" => task \in {"link", "supersede"} /\ (task = "supersede" => Ordered(pair)),
         step = "contradicts" => task = "contradict",
         step \notin {"gate", "candidates"},
         step = "clean" => task = "dedup",
         step = "retire" => task \notin Retiring,
         Take(w, task, todo, step, pair)
  PROVE  SupersessionInv'
<1> DEFINE s == [work[w] EXCEPT !.todo = todo, !.step = step, !.pair = pair]
<1>1. work[w] \in WorkRecord /\ Shape(work[w]) /\ work[w].task = task
  BY AtWork DEF Take
<1>2. s \in WorkRecord /\ s.task = task /\ s.todo = todo /\ s.step = step /\ s.pair = pair
  BY <1>1 DEF WorkRecord
<1>3. work' = [work EXCEPT ![w] = s] /\ UNCHANGED <<node, rel, heir, cleaned, begun>>
  <2>1. work \in [Worker -> WorkRecord]
    BY DEF SupersessionInv, SupersessionTypeOK, WorkRecord
  <2> QED BY <2>1 DEF Take, WorkRecord
<1> HIDE DEF s
<1>4. Shape(s) /\ ~MayRetire(s)
  BY <1>1, <1>2 DEF Shape, MayRetire, Retiring
<1>5. begun' \in 0..MaxTasks
  BY <1>3 DEF SupersessionInv, SupersessionTypeOK
<1> QED BY <1>2, <1>3, <1>4, <1>5, PlainStep

\* the record of a handler after Proceed and after Turn
After(s) == IF s.todo = {} THEN Resting ELSE [s EXCEPT !.step = "next", !.pair = NoPair]

LEMMA ProceedWork ==
  ASSUME SupersessionInv, NEW w \in Worker, Proceed(w)
  PROVE  \E s \in WorkRecord : work' = [work EXCEPT ![w] = s] /\ Shape(s) /\ ~MayRetire(s)
<1>1. work[w] \in WorkRecord /\ Shape(work[w])
  BY AtWork
<1>2. work' = [work EXCEPT ![w] = After(work[w])]
  BY DEF Proceed, After
<1>3. CASE work[w].todo = {}
  BY <1>2, <1>3, RestingShape DEF After
<1>4. CASE work[w].todo # {}
  <2> DEFINE s == [work[w] EXCEPT !.step = "next", !.pair = NoPair]
  <2>1. /\ s \in WorkRecord /\ s.step = "next" /\ s.task = work[w].task /\ s.todo = work[w].todo
    BY <1>1, NodeAssumption DEF WorkRecord, Step, Pair, NoPair
  <2>2. After(work[w]) = s
    BY <1>4 DEF After
  <2> HIDE DEF s
  <2>3. Shape(s) /\ ~MayRetire(s)
    BY <1>1, <2>1 DEF Shape, MayRetire
  <2> QED BY <1>2, <2>1, <2>2, <2>3
<1> QED BY <1>3, <1>4

LEMMA TurnWork ==
  ASSUME SupersessionInv, NEW w \in Worker, NEW step \in Step, NEW pair \in Pair, Turn(w, step, pair)
  PROVE  \E s \in WorkRecord : /\ work' = [work EXCEPT ![w] = s]
                               /\ s.step = step /\ s.pair = pair
                               /\ s.task = work[w].task /\ s.todo = work[w].todo
<1> DEFINE s == [work[w] EXCEPT !.step = step, !.pair = pair]
<1>1. work[w] \in WorkRecord /\ work \in [Worker -> WorkRecord]
  BY AtWork DEF SupersessionInv, SupersessionTypeOK, WorkRecord
<1>2. s \in WorkRecord /\ s.step = step /\ s.pair = pair /\ s.task = work[w].task /\ s.todo = work[w].todo
  BY <1>1 DEF WorkRecord
<1>3. work' = [work EXCEPT ![w] = s]
  BY <1>1 DEF Turn, WorkRecord
<1> QED BY <1>2, <1>3

----------------------------------------------------------------------------
(***************************************************************************)
(* The handlers' reading steps.                                            *)
(***************************************************************************)
LEMMA LinkReads ==
  ASSUME SupersessionInv, NEW w \in Worker,
         (\E f \in Node : LinkBegins(w, f)) \/ LinkCandidates(w) \/ LinkNext(w)
  PROVE  SupersessionInv'
<1>1. ASSUME NEW f \in Node, LinkBegins(w, f) PROVE SupersessionInv'
  <2>1. "link" \in Task /\ {} \in SUBSET (Node \X Node) /\ <<f, f>> \in Pair /\ <<f, f>> \in Node \X Node
    BY DEF Task, Pair
  <2>2. Begin(w, "link", "gate", {}, <<f, f>>) \/ Begin(w, "link", "candidates", {}, <<f, f>>)
    BY <1>1 DEF LinkBegins
  <2> QED BY <2>1, <2>2, BeginInv
<1>2. ASSUME LinkCandidates(w) PROVE SupersessionInv'
  <2> DEFINE f == work[w].pair[1]
  <2>1. PICK S \in Nearest(f, Similar(f, {g \in Node : Exists(g) /\ Exists(f)}, 71), 3) :
          work' = [work EXCEPT ![w] = IF S = {} THEN Resting
                     ELSE [@ EXCEPT !.todo = S \X {f}, !.step = "next", !.pair = NoPair]]
    BY <1>2 DEF LinkCandidates
  <2>2. work[w] \in WorkRecord /\ work[w].task = "link" /\ f \in Node /\ work \in [Worker -> WorkRecord]
    BY <1>2, AtWork DEF LinkCandidates, Shape, SupersessionInv, SupersessionTypeOK, WorkRecord
  <2>3. S \subseteq Node
    BY DEF Nearest, Similar
  <2> DEFINE s == [work[w] EXCEPT !.todo = S \X {f}, !.step = "next", !.pair = NoPair]
  <2>4. S \X {f} \subseteq Node \X Node
    BY <2>2, <2>3
  <2>5. s \in WorkRecord /\ s.step = "next" /\ s.task = "link"
    BY <2>2, <2>4 DEF WorkRecord, Step, Pair, NoPair
  <2>6. Shape(s) /\ ~MayRetire(s)
    BY <2>5 DEF Shape, MayRetire
  <2>7. work' = [work EXCEPT ![w] = IF S = {} THEN Resting ELSE s]
    BY <2>1, <2>2 DEF WorkRecord
  <2>8. UNCHANGED <<node, rel, heir, cleaned, begun>> /\ begun' \in 0..MaxTasks
    BY <1>2 DEF LinkCandidates, SupersessionInv, SupersessionTypeOK
  <2> HIDE DEF s
  <2>9. CASE S = {}
    BY <2>7, <2>8, <2>9, RestingShape, PlainStep
  <2>10. CASE S # {}
    BY <2>5, <2>6, <2>7, <2>8, <2>10, PlainStep
  <2> QED BY <2>9, <2>10
<1>3. ASSUME LinkNext(w) PROVE SupersessionInv'
  <2>1. PICK p \in work[w].todo : Take(w, "link", work[w].todo \ {p}, "link", p)
    BY <1>3 DEF LinkNext
  <2>2. work[w].todo \subseteq Node \X Node
    BY AtWork DEF WorkRecord
  <2>3. p \in Node \X Node /\ p \in Pair /\ work[w].todo \ {p} \in SUBSET (Node \X Node)
        /\ "link" \in Task /\ "link" \in Step
    BY <2>2 DEF Pair, Task, Step
  <2> QED BY <2>1, <2>3, TakeInv
<1> QED BY <1>1, <1>2, <1>3

LEMMA StagesBegin ==
  ASSUME SupersessionInv,
         SplitBegins \/ DedupBegins \/ CompressBegins \/ ContradictBegins \/ SupersedeBegins
  PROVE  SupersessionInv'
<1>0. /\ TheCycle \in Worker /\ Task = {"link", "split", "dedup", "compress", "contradict", "supersede"}
      /\ NoPair \in Pair /\ Unanchored \subseteq Node
  BY DEF Worker, Task, NoPair, Pair, Unanchored
<1>1. {<<f, f>> : f \in Unanchored} \in SUBSET (Node \X Node)
  BY <1>0
<1>2. CASE SplitBegins
  BY <1>0, <1>1, <1>2, BeginInv DEF SplitBegins
<1>3. CASE DedupBegins
  BY <1>0, <1>1, <1>3, BeginInv DEF DedupBegins
<1>4. CASE CompressBegins
  <2>1. PICK seed \in Unanchored : \E group \in SUBSET Similar(seed, Unanchored, 80) :
          \E keeper \in group \cup {seed} :
             Begin(TheCycle, "compress", "next", ((group \cup {seed}) \ {keeper}) \X {keeper}, NoPair)
    BY <1>4 DEF CompressBegins
  <2>a. PICK group \in SUBSET Similar(seed, Unanchored, 80) : \E keeper \in group \cup {seed} :
             Begin(TheCycle, "compress", "next", ((group \cup {seed}) \ {keeper}) \X {keeper}, NoPair)
    BY <2>1
  <2>2. PICK keeper \in group \cup {seed} :
             Begin(TheCycle, "compress", "next", ((group \cup {seed}) \ {keeper}) \X {keeper}, NoPair)
    BY <2>a
  <2>3. group \subseteq Node /\ seed \in Node
    BY <1>0 DEF Similar
  <2>4. ((group \cup {seed}) \ {keeper}) \X {keeper} \in SUBSET (Node \X Node)
    BY <2>3
  <2> QED BY <1>0, <2>2, <2>4, BeginInv
<1>5. CASE ContradictBegins
  <2>1. {<<f, f>> : f \in {g \in Node : Exists(g)}} \in SUBSET (Node \X Node)
    OBVIOUS
  <2> QED BY <1>0, <1>5, <2>1, BeginInv DEF ContradictBegins
<1>6. CASE SupersedeBegins
  <2> DEFINE P == {p \in Node \X Node : /\ p[1] # p[2] /\ Live(p[1]) /\ Live(p[2])
                                        /\ p = ByAge(p[1], p[2]) /\ Holder[p[1]] = Holder[p[2]]
                                        /\ Cos[p] \in 70..85 /\ ~Joined(p[1], p[2])}
  <2>1. Begin(TheCycle, "supersede", "next", P, NoPair)
    BY <1>6 DEF SupersedeBegins
  <2>2. ASSUME NEW p \in P PROVE Ordered(p)
    <3>1. p[1] \in Node /\ p[2] \in Node /\ p = ByAge(p[1], p[2])
      OBVIOUS
    <3>2. Born[p[1]] \in Nat /\ Born[p[2]] \in Nat
      BY <3>1, NodeAssumption
    <3>3. \E q \in {<<p[1], p[2]>>, <<p[2], p[1]>>} : Born[q[1]] <= Born[q[2]]
      BY <3>2
    <3>4. Born[ByAge(p[1], p[2])[1]] <= Born[ByAge(p[1], p[2])[2]]
      BY <3>3 DEF ByAge
    <3> QED BY <3>1, <3>4 DEF Ordered
  <2>3. P \in SUBSET (Node \X Node)
    OBVIOUS
  <2> HIDE DEF P
  <2> QED BY <1>0, <2>1, <2>2, <2>3, BeginInv
<1> QED BY <1>2, <1>3, <1>4, <1>5, <1>6

LEMMA StagesGoOn ==
  ASSUME SupersessionInv,
         SplitNext \/ DedupNext \/ CompressNext \/ ContradictNext \/ SupersedeNext
  PROVE  SupersessionInv'
<1> DEFINE todo == work[TheCycle].todo
<1>0. /\ TheCycle \in Worker /\ Task = {"link", "split", "dedup", "compress", "contradict", "supersede"}
      /\ Step = {"idle", "next", "gate", "candidates", "contradicts", "clean", "link", "retire"}
      /\ NoPair \in Pair
  BY DEF Worker, Task, Step, NoPair, Pair
<1>1. /\ todo \subseteq Node \X Node /\ \A T : todo \ T \in SUBSET (Node \X Node) /\ todo \ T \subseteq todo
      /\ work[TheCycle].task = "supersede" => \A p \in todo : Ordered(p)
  BY <1>0, AtWork DEF WorkRecord, Shape
<1>2. \A p \in Node \X Node : p \in Pair /\ p[1] \in Node /\ p[2] \in Node
  BY DEF Pair
<1> HIDE DEF todo
<1>3. CASE SplitNext
  <2>1. PICK p \in todo, step \in {"next", "retire"} :
          Take(TheCycle, "split", todo \ {p}, step, IF step = "next" THEN NoPair ELSE p)
    BY <1>3 DEF SplitNext, todo
  <2>2. p \in Node \X Node
    BY <1>1
  <2>3. CASE step = "next"
    BY <1>0, <1>1, <2>1, <2>3, TakeInv
  <2>4. CASE step = "retire"
    BY <1>0, <1>1, <1>2, <2>1, <2>2, <2>4, TakeInv DEF Retiring
  <2> QED BY <2>3, <2>4
<1>4. CASE DedupNext
  <2>1. PICK p \in todo :
          \/ Take(TheCycle, "dedup", todo \ {p}, "next", NoPair)
          \/ \E g \in Similar(p[1], Unanchored, 92) :
               LET q == IF Born[p[1]] >= Born[g] THEN <<g, p[1]>> ELSE <<p[1], g>> IN
               Take(TheCycle, "dedup", todo \ {<<q[1], q[1]>>}, "clean", q)
    BY <1>4 DEF DedupNext, todo
  <2>2. CASE Take(TheCycle, "dedup", todo \ {p}, "next", NoPair)
    BY <1>0, <1>1, <2>2, TakeInv
  <2>3. ASSUME NEW g \in Similar(p[1], Unanchored, 92),
               NEW q \in {<<g, p[1]>>, <<p[1], g>>},
               Take(TheCycle, "dedup", todo \ {<<q[1], q[1]>>}, "clean", q)
        PROVE  SupersessionInv'
    <3>1. g \in Node /\ p[1] \in Node
      BY <1>1, <1>2 DEF Similar, Unanchored
    <3>2. q \in Node \X Node
      BY <3>1
    <3>3. q \in Pair
      BY <1>2, <3>2
    <3> QED BY <1>0, <1>1, <2>3, <3>2, <3>3, TakeInv
  <2> QED BY <2>1, <2>2, <2>3
<1>5. CASE CompressNext
  <2>1. PICK p \in todo : Take(TheCycle, "compress", todo \ {p}, "retire", p)
    BY <1>5 DEF CompressNext, todo
  <2>2. p \in Node \X Node
    BY <1>1
  <2> QED BY <1>0, <1>1, <1>2, <2>1, <2>2, TakeInv DEF Retiring
<1>6. CASE ContradictNext
  <2>1. PICK p \in todo :
          \/ Take(TheCycle, "contradict", todo \ {p}, "next", NoPair)
          \/ \E g \in Node : Take(TheCycle, "contradict", todo, "contradicts", <<p[1], g>>)
    BY <1>6 DEF ContradictNext, todo
  <2>2. CASE Take(TheCycle, "contradict", todo \ {p}, "next", NoPair)
    BY <1>0, <1>1, <2>2, TakeInv
  <2>3. ASSUME NEW g \in Node, Take(TheCycle, "contradict", todo, "contradicts", <<p[1], g>>)
        PROVE  SupersessionInv'
    <3>1. <<p[1], g>> \in Node \X Node /\ <<p[1], g>> \in Pair
      BY <1>1, <1>2 DEF Pair
    <3> QED BY <1>0, <1>1, <2>3, <3>1, TakeInv
  <2> QED BY <2>1, <2>2, <2>3
<1>7. CASE SupersedeNext
  <2>1. PICK p \in todo, step \in {"next", "link"} :
          Take(TheCycle, "supersede", todo \ {p}, step, IF step = "next" THEN NoPair ELSE p)
    BY <1>7 DEF SupersedeNext, todo
  <2>2. p \in Node \X Node /\ work[TheCycle].task = "supersede" /\ Ordered(p)
    BY <1>1, <2>1 DEF Take
  <2>3. CASE step = "next"
    BY <1>0, <1>1, <2>1, <2>3, TakeInv DEF todo
  <2>4. CASE step = "link"
    BY <1>0, <1>1, <1>2, <2>1, <2>2, <2>4, TakeInv DEF todo
  <2> QED BY <2>3, <2>4
<1> QED BY <1>3, <1>4, <1>5, <1>6, <1>7

----------------------------------------------------------------------------
(***************************************************************************)
(* The writing steps.                                                      *)
(***************************************************************************)
LEMMA ExpiredRows ==
  ASSUME SupersessionTypeOK, NEW f \in Node, Expired(f)
  PROVE  /\ node' \in [Node -> {"none", "live", "expired", "gone"}]
         /\ \A g \in Node : node[g] = "gone" => node'[g] = "gone"
BY DEF SupersessionTypeOK, Expired, Live

\* writing a link, of whatever relation, leaves a trace of its pair and takes none away
LEMMA LinkSafe ==
  ASSUME SupersessionTypeOK, NEW p \in Node \X Node, NEW r \in Relation \ {""},
         r = "superseded_by" => Ordered(p),
         rel' = [rel EXCEPT ![p] = r],
         \A g \in Node : node[g] = "gone" => node'[g] = "gone", UNCHANGED cleaned
  PROVE  Safe /\ p \in Traced' /\ rel' \in [Node \X Node -> Relation]
<1>1. \A q \in Node \X Node : rel'[q] = IF q = p THEN r ELSE rel[q]
  BY DEF SupersessionTypeOK
<1>2. \A q \in Node \X Node : rel[q] # "" => rel'[q] # ""
  BY <1>1
<1>3. \A q \in Node \X Node : q[1] \in Node /\ q[2] \in Node /\ <<q[2], q[1]>> \in Node \X Node
  OBVIOUS
<1>4. Traced \subseteq Traced'
  BY <1>2, <1>3 DEF Traced
<1>5. p \in Traced'
  BY <1>1 DEF Traced
<1>6. rel' \in [Node \X Node -> Relation]
  BY DEF SupersessionTypeOK
<1> QED BY <1>1, <1>4, <1>5, <1>6 DEF Safe

\* without a write to the links
LEMMA RowSafe ==
  ASSUME \A g \in Node : node[g] = "gone" => node'[g] = "gone", UNCHANGED <<rel, cleaned>>
  PROVE  Safe
<1>1. Traced \subseteq Traced'
  BY DEF Traced
<1> QED BY <1>1 DEF Safe

LEMMA GateInv ==
  ASSUME SupersessionInv, NEW w \in Worker, GateCloses(w)
  PROVE  SupersessionInv'
<1>1. work[w].pair[1] \in Node /\ Expired(work[w].pair[1]) /\ UNCHANGED <<rel, heir, cleaned, begun>>
  BY AtWork DEF GateCloses, Shape
<1>2. PICK s \in WorkRecord : work' = [work EXCEPT ![w] = s] /\ Shape(s) /\ ~MayRetire(s)
  BY ProceedWork DEF GateCloses
<1>3. /\ node' \in [Node -> {"none", "live", "expired", "gone"}]
      /\ \A g \in Node : node[g] = "gone" => node'[g] = "gone"
  BY <1>1, ExpiredRows DEF SupersessionInv
<1> QED BY <1>1, <1>2, <1>3, RowSafe, HandlerStep DEF SupersessionInv, SupersessionTypeOK

LEMMA CleanInv ==
  ASSUME SupersessionInv, NEW w \in Worker, Clean(w)
  PROVE  SupersessionInv'
<1> DEFINE p == work[w].pair
           q == <<p[2], p[1]>>
<1>1. p \in Node \X Node /\ work[w].task = "dedup" /\ Shape(work[w]) /\ p \in Pair /\ "retire" \in Step
  BY AtWork DEF Clean, Shape, WorkRecord, Step
<1>2. /\ rel' = [rel EXCEPT ![p] = "", ![q] = ""] /\ cleaned' = cleaned \cup {p, q}
      /\ Turn(w, "retire", p) /\ UNCHANGED <<node, heir, begun>>
  BY DEF Clean
<1>3. q \in Node \X Node
  BY <1>1
<1> HIDE DEF p, q
<1>4. PICK s \in WorkRecord : /\ work' = [work EXCEPT ![w] = s]
                              /\ s.step = "retire" /\ s.pair = p
                              /\ s.task = work[w].task /\ s.todo = work[w].todo
  <2>1. p \in Pair /\ "retire" \in Step /\ Turn(w, "retire", p)
    BY <1>1, <1>2
  <2> QED BY <2>1, TurnWork
<1>5. Shape(s) /\ ~MayRetire(s)
  BY <1>1, <1>4 DEF Shape, MayRetire, Retiring
<1>6. \A x \in Node \X Node : rel'[x] = IF x \in {p, q} THEN "" ELSE rel[x]
  BY <1>1, <1>2, <1>3 DEF SupersessionInv, SupersessionTypeOK
<1>7. rel' \in [Node \X Node -> Relation] /\ cleaned' \subseteq Node \X Node
  BY <1>1, <1>2, <1>3 DEF SupersessionInv, SupersessionTypeOK, Relation
<1>8. \A x \in Node \X Node : <<x[2], x[1]>> \in {p, q} => x \in {p, q}
  BY <1>1 DEF q
<1>9. Traced \subseteq Traced'
  <2> SUFFICES ASSUME NEW x \in Traced, x \notin {p, q} PROVE x \in Traced'
    BY <1>1, <1>2, <1>3 DEF Traced
  <2>1. x \in Node \X Node /\ <<x[2], x[1]>> \in Node \X Node /\ <<x[2], x[1]>> \notin {p, q}
    BY <1>8 DEF Traced
  <2> QED BY <1>2, <1>6, <2>1 DEF Traced
<1>10. Safe
  BY <1>6, <1>9 DEF Safe
<1> QED BY <1>2, <1>4, <1>5, <1>7, <1>10, HandlerStep DEF SupersessionInv, SupersessionTypeOK

LEMMA ContradictsInv ==
  ASSUME SupersessionInv, NEW w \in Worker, PutContradicts(w)
  PROVE  SupersessionInv'
<1> DEFINE p == work[w].pair
           q == IF Born[p[1]] > Born[p[2]] THEN <<p[2], p[1]>> ELSE p
<1>1. p \in Node \X Node /\ work[w].task = "contradict" /\ "link" \in Step
  BY AtWork DEF PutContradicts, Shape, Step
<1>2. /\ rel' = [rel EXCEPT ![p] = "contradicts"] /\ Turn(w, "link", q)
      /\ UNCHANGED <<node, heir, cleaned, begun>>
  BY DEF PutContradicts
<1>3. Born[p[1]] \in Nat /\ Born[p[2]] \in Nat
  BY <1>1, NodeAssumption
<1>4. q \in Node \X Node /\ q \in Pair /\ Ordered(q)
  BY <1>1, <1>3 DEF Pair, Ordered
<1> HIDE DEF p, q
<1>5. PICK s \in WorkRecord : /\ work' = [work EXCEPT ![w] = s]
                              /\ s.step = "link" /\ s.pair = q
                              /\ s.task = work[w].task /\ s.todo = work[w].todo
  BY <1>1, <1>2, <1>4, TurnWork
<1>6. Shape(s) /\ ~MayRetire(s)
  BY <1>1, <1>4, <1>5 DEF Shape, MayRetire, Retiring
<1>7. Safe /\ rel' \in [Node \X Node -> Relation]
  BY <1>1, <1>2, LinkSafe DEF SupersessionInv, Relation
<1> QED BY <1>2, <1>5, <1>6, <1>7, HandlerStep DEF SupersessionInv, SupersessionTypeOK

LEMMA PutLinkInv ==
  ASSUME SupersessionInv, NEW w \in Worker, PutLink(w)
  PROVE  SupersessionInv'
<1> DEFINE p == work[w].pair
           retires == Supersedes(work[w].task, p)
           r == IF retires THEN "superseded_by" ELSE "related"
<1>1. /\ p \in Node \X Node /\ work[w].task \in Retiring /\ Shape(work[w]) /\ work[w].step = "link"
      /\ work[w].task # "link" => Ordered(p)
  BY AtWork DEF PutLink, Shape
<1>2. /\ rel' = [rel EXCEPT ![p] = r]
      /\ IF retires THEN Turn(w, "retire", p) ELSE Proceed(w)
      /\ UNCHANGED <<node, heir, cleaned, begun>>
  BY DEF PutLink
<1>3. Born[p[1]] \in Nat /\ Born[p[2]] \in Nat
  BY <1>1, NodeAssumption
<1>4. r = "superseded_by" => Ordered(p)
  BY <1>1, <1>3 DEF Supersedes, Ordered
<1>5. r \in Relation \ {""}
  BY DEF Relation
<1>6. p \in Pair /\ "retire" \in Step
  BY <1>1 DEF Pair, Step
<1> HIDE DEF p, r
<1>7. Safe /\ p \in Traced' /\ rel' \in [Node \X Node -> Relation]
  BY <1>1, <1>2, <1>4, <1>5, LinkSafe DEF SupersessionInv
<1>8. CASE retires
  <2>1. PICK s \in WorkRecord : /\ work' = [work EXCEPT ![w] = s]
                                /\ s.step = "retire" /\ s.pair = p
                                /\ s.task = work[w].task /\ s.todo = work[w].todo
    BY <1>2, <1>6, <1>8, TurnWork
  <2>2. Shape(s)
    BY <1>1, <2>1 DEF Shape
  <2> QED BY <1>2, <1>7, <2>1, <2>2, HandlerStep DEF SupersessionInv, SupersessionTypeOK
<1>9. CASE ~retires
  <2>1. PICK s \in WorkRecord : work' = [work EXCEPT ![w] = s] /\ Shape(s) /\ ~MayRetire(s)
    BY <1>2, <1>9, ProceedWork
  <2> QED BY <1>2, <1>7, <2>1, HandlerStep DEF SupersessionInv, SupersessionTypeOK
<1> QED BY <1>8, <1>9

LEMMA RetireInv ==
  ASSUME SupersessionInv, NEW w \in Worker, Retire(w)
  PROVE  SupersessionInv'
<1> DEFINE p == work[w].pair
<1>1. /\ p \in Node \X Node /\ work[w] \in WorkRecord /\ work[w].step = "retire"
      /\ work[w].task \in Retiring => p \in Traced
  BY AtWork DEF Retire, Shape, MayRetire
<1>2. /\ Expired(p[1]) /\ Proceed(w) /\ UNCHANGED <<cleaned, begun>>
      /\ heir' = IF Live(p[1]) /\ work[w].task \in Retiring
                 THEN [heir EXCEPT ![p[1]] = p[2]] ELSE heir
      /\ rel' = [rel EXCEPT ![<<p[2], p[1]>>] = "supersedes"] \/ rel' = rel
  BY DEF Retire, Retiring
<1>3. PICK s \in WorkRecord : work' = [work EXCEPT ![w] = s] /\ Shape(s) /\ ~MayRetire(s)
  BY <1>2, ProceedWork
<1>4. /\ node' \in [Node -> {"none", "live", "expired", "gone"}]
      /\ \A g \in Node : node[g] = "gone" => node'[g] = "gone"
  BY <1>1, <1>2, ExpiredRows DEF SupersessionInv
<1>5. p[1] \in Node /\ p[2] \in Node /\ <<p[2], p[1]>> \in Node \X Node /\ p = <<p[1], p[2]>>
  BY <1>1
<1> HIDE DEF p
<1>6. Safe /\ rel' \in [Node \X Node -> Relation]
  <2>1. CASE rel' = rel
    BY <1>2, <1>4, <2>1, RowSafe DEF SupersessionInv, SupersessionTypeOK
  <2>2. CASE rel' = [rel EXCEPT ![<<p[2], p[1]>>] = "supersedes"]
    <3>1. "supersedes" \in Relation \ {""} /\ "supersedes" # "superseded_by"
      BY DEF Relation
    <3> QED BY <1>2, <1>4, <1>5, <2>2, <3>1, LinkSafe DEF SupersessionInv
  <2> QED BY <1>2, <2>1, <2>2
<1>7. heir' \in [Node -> Node \cup {NoNode}]
  BY <1>2, <1>5 DEF SupersessionInv, SupersessionTypeOK
<1>8. ASSUME NEW f \in Node, heir'[f] # NoNode
      PROVE  heir'[f] = heir[f] \/ <<f, heir'[f]>> \in Traced'
  <2> SUFFICES ASSUME heir'[f] # heir[f] PROVE <<f, heir'[f]>> \in Traced'
    OBVIOUS
  <2>1. f = p[1] /\ heir'[f] = p[2] /\ work[w].task \in Retiring
    BY <1>2, <1>5 DEF SupersessionInv, SupersessionTypeOK
  <2>2. <<f, heir'[f]>> = p
    BY <1>5, <2>1
  <2> QED BY <1>1, <1>6, <2>1, <2>2 DEF Safe
<1>9. cleaned' \subseteq Node \X Node /\ begun' \in 0..MaxTasks
  BY <1>2 DEF SupersessionInv, SupersessionTypeOK
<1> QED BY <1>3, <1>4, <1>6, <1>7, <1>8, <1>9, HandlerStep

LEMMA StopsInv ==
  ASSUME SupersessionInv, NEW w \in Worker, LinkFails(w) \/ Abandon(w)
  PROVE  SupersessionInv'
<1>1. UNCHANGED <<node, rel, heir, cleaned, begun>> /\ begun' \in 0..MaxTasks
  BY DEF LinkFails, Abandon, SupersessionInv, SupersessionTypeOK
<1>2. \E s \in WorkRecord : work' = [work EXCEPT ![w] = s] /\ Shape(s) /\ ~MayRetire(s)
  BY ProceedWork, RestingShape DEF LinkFails, AfterFailure, Abandon
<1> QED BY <1>1, <1>2, PlainStep

LEMMA RowsInv ==
  ASSUME SupersessionInv, NEW f \in Node, Appear(f) \/ Disappear(f)
  PROVE  SupersessionInv'
<1>1. UNCHANGED <<work, heir, cleaned, begun>>
  BY DEF Appear, Disappear
<1>2. /\ node' \in [Node -> {"none", "live", "expired", "gone"}]
      /\ \A g \in Node : node[g] = "gone" => node'[g] = "gone"
  BY DEF Appear, Disappear, SupersessionInv, SupersessionTypeOK
<1>3. /\ rel' \in [Node \X Node -> Relation]
      /\ \A p \in Node \X Node : rel'[p] = rel[p] \/ (rel'[p] = "" /\ node'[f] = "gone" /\ f \in {p[1], p[2]})
  BY DEF Appear, Disappear, SupersessionInv, SupersessionTypeOK, Relation
<1>4. Traced \subseteq Traced'
  <2> SUFFICES ASSUME NEW p \in Traced PROVE p \in Traced'
    OBVIOUS
  <2>1. p \in Node \X Node /\ <<p[2], p[1]>> \in Node \X Node /\ p[1] \in Node /\ p[2] \in Node
    BY DEF Traced
  <2>2. CASE f \in {p[1], p[2]} /\ node'[f] = "gone"
    BY <2>1, <2>2 DEF Traced
  <2>3. CASE ~(f \in {p[1], p[2]} /\ node'[f] = "gone")
    <3>1. rel'[p] = rel[p] /\ rel'[<<p[2], p[1]>>] = rel[<<p[2], p[1]>>]
      BY <1>3, <2>1, <2>3
    <3> QED BY <1>1, <1>2, <2>1, <3>1 DEF Traced
  <2> QED BY <2>2, <2>3
<1>5. SupersessionTypeOK'
  BY <1>1, <1>2, <1>3 DEF SupersessionInv, SupersessionTypeOK
<1>6. Shapes' /\ RetiringTraced' /\ HeirTraced'
  BY <1>1, <1>4 DEF SupersessionInv, Shapes, RetiringTraced, HeirTraced
<1>7. SupersededByNewer'
  BY <1>3 DEF SupersessionInv, SupersededByNewer
<1> QED BY <1>5, <1>6, <1>7 DEF SupersessionInv

LEMMA SupersessionNextInv == SupersessionInv /\ [SupersessionNext]_spVars => SupersessionInv'
<1> SUFFICES ASSUME SupersessionInv, [SupersessionNext]_spVars PROVE SupersessionInv'
  OBVIOUS
<1>1. CASE \E f \in Node : Appear(f) \/ Disappear(f)
  BY <1>1, RowsInv
<1>2. CASE \E w \in Worker, f \in Node : LinkBegins(w, f)
  BY <1>2, LinkReads
<1>3. CASE StageStep
  BY <1>3, StagesBegin, StagesGoOn DEF StageStep
<1>4. ASSUME NEW w \in Worker, WriteLinks(w) PROVE SupersessionInv'
  BY <1>4, GateInv, LinkReads, CleanInv, ContradictsInv, PutLinkInv, StopsInv, RetireInv DEF WriteLinks
<1>5. CASE UNCHANGED spVars
  BY <1>5 DEF spVars, SupersessionInv, SupersessionTypeOK, Shapes, RetiringTraced, HeirTraced,
              SupersededByNewer, Traced
<1> QED BY <1>1, <1>2, <1>3, <1>4, <1>5 DEF SupersessionNext

LEMMA SupersessionInvariance == SupersessionSpec => []SupersessionInv
BY SupersessionInitInv, SupersessionNextInv, PTL DEF SupersessionSpec

(***************************************************************************)
(* Type correctness of rows, links and what the handlers carry.            *)
(***************************************************************************)
THEOREM SupersessionTypeCorrect == SupersessionSpec => []SupersessionTypeOK
<1>1. SupersessionInv => SupersessionTypeOK
  BY DEF SupersessionInv
<1> QED BY <1>1, SupersessionInvariance, PTL

(***************************************************************************)
(* A superseded_by link never points to an older fragment, whatever        *)
(* handlers and stages run at the same time.                               *)
(***************************************************************************)
THEOREM TowardsNewer == SupersessionSpec => []SupersededByNewer
<1>1. SupersessionInv => SupersededByNewer
  BY DEF SupersessionInv
<1> QED BY <1>1, SupersessionInvariance, PTL

(***************************************************************************)
(* A fragment retired as superseded stays joined to the one that replaced  *)
(* it while both rows exist, unless semantic_dedup cleaned the pair.       *)
(***************************************************************************)
THEOREM TraceLeft == SupersessionSpec => []SupersededLeavesTrace
<1>1. ASSUME SupersessionInv PROVE SupersededLeavesTrace
  <2> SUFFICES ASSUME NEW f \in Node, heir[f] # NoNode
               PROVE  Joined(f, heir[f]) \/ ~Exists(f) \/ ~Exists(heir[f]) \/ <<f, heir[f]>> \in cleaned
    BY DEF SupersededLeavesTrace
  <2>1. <<f, heir[f]>> \in Traced
    BY <1>1 DEF SupersessionInv, HeirTraced
  <2> QED BY <2>1 DEF Traced, Joined, Exists
<1> QED BY <1>1, SupersessionInvariance, PTL
==============================================================================
