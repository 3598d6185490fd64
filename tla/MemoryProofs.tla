---------------------------- MODULE MemoryProofs ----------------------------
(***************************************************************************)
(* Theorems about what is kept around the fragments: the links and their   *)
(* locks, the events of cases, the milestones, the reflections and the     *)
(* backfill of the claims; for every number of writers, events and pages.  *)
(***************************************************************************)
EXTENDS LinkWrites, CaseHistory, Milestones, Reflection, Claims,
        FiniteSetTheorems, SequenceTheorems, NaturalsInduction, WellFoundedInduction, TLAPS


\* a nonempty finite set has a member after which none comes in a strict order
LEMMA Maximal ==
  ASSUME NEW T, IsFiniteSet(T), T # {}, NEW R,
         \A x \in T : <<x, x>> \notin R,
         \A x, y, z \in T : <<x, y>> \in R /\ <<y, z>> \in R => <<x, z>> \in R
  PROVE  \E x \in T : \A y \in T : <<x, y>> \notin R
<1> DEFINE Ascending == {U \in FiniteSubsetsOf(T) : U # {} /\ \A x \in U : \E y \in U : <<x, y>> \in R}
<1> SUFFICES ASSUME \A x \in T : \E y \in T : <<x, y>> \in R PROVE FALSE
  OBVIOUS
<1>1. T \in Ascending
  BY DEF FiniteSubsetsOf
<1>2. Ascending \subseteq FiniteSubsetsOf(T)
  OBVIOUS
<1> HIDE DEF Ascending
<1>3. PICK U \in Ascending : \A V \in Ascending : <<V, U>> \notin StrictSubsetOrdering(T)
  BY <1>1, <1>2, FS_StrictSubsetOrderingWellFounded, WFMin
<1>4. U \subseteq T /\ IsFiniteSet(U) /\ U # {} /\ \A x \in U : \E y \in U : <<x, y>> \in R
  BY DEF Ascending, FiniteSubsetsOf
<1>5. PICK u \in U : TRUE
  BY <1>4
<1> DEFINE V == {x \in U : <<u, x>> \in R}
<1>6. V \subseteq U /\ V # U /\ V # {} /\ IsFiniteSet(V)
  BY <1>4, <1>5, FS_Subset
<1>7. \A x \in V : \E y \in V : <<x, y>> \in R
  BY <1>4, <1>5
<1>8. V \in Ascending
  BY <1>4, <1>6, <1>7 DEF Ascending, FiniteSubsetsOf
<1>9. <<V, U>> \in StrictSubsetOrdering(T)
  BY <1>4, <1>6 DEF StrictSubsetOrdering
<1> QED BY <1>3, <1>8, <1>9

\* a nonempty set of naturals has a least member
LEMMA LeastNumber == ASSUME NEW K \in SUBSET Nat, K # {} PROVE \E m \in K : \A k \in K : m <= k
<1>1. PICK m \in K : \A k \in K : <<k, m>> \notin OpToRel(<, Nat)
  BY NatLessThanWellFounded, WFMin, Zenon
<1>2. \A k \in K : ~(k < m)
  BY <1>1 DEF OpToRel
<1> QED BY <1>2

(***************************************************************************)
(* The writers of links. The inductive invariant: which locks a call may   *)
(* hold at each of its steps, and that it has taken them in their order;   *)
(* a lock has one holder; and once the arrays of the sources are written,  *)
(* they have the targets.                                                  *)
(***************************************************************************)
Id(f) == <<"id", Hash[f]>>
PairLock(p) == <<"pair", <<Hash[Lo(p)], Hash[Hi(p)]>>>>
RowLock(p) == <<"row", p>>

MayHold(j, l) ==
  \/ j.phase = "high" /\ \E p \in j.pairs : l = Id(Lo(p))
  \/ j.phase = "row" /\ \E p \in j.pairs : l \in {Id(Lo(p)), Id(Hi(p))}
  \/ j.phase = "row" /\ j.todo = {} /\ \E p \in j.pairs : l = RowLock(p)
  \/ j.phase = "pairs" /\ \E p \in j.pairs \ j.todo : l = PairLock(p)
  \/ j.phase = "rows" /\ \E p \in j.pairs : l = PairLock(p)
  \/ j.phase = "rows" /\ \E p \in j.pairs \ j.todo : l = RowLock(p)
JobSane(j) ==
  /\ j.todo \subseteq j.pairs
  /\ j.phase \in {"low", "high", "row"} => \E p \in j.pairs : j.pairs = {p}
  /\ j.phase \in {"low", "high"} => j.todo = j.pairs
  /\ j.phase = "pairs" => \A p \in j.pairs \ j.todo, q \in j.todo : Before(p, q)

JobsSane == \A w \in Writer : JobSane(job[w])
HeldByPhase == \A w \in Writer : \A l \in held[w] : MayHold(job[w], l)
PairsHeld ==
  \A w \in Writer :
    /\ job[w].phase = "rows" => \A p \in job[w].pairs : PairLock(p) \in held[w]
    /\ job[w].phase = "pairs" => \A p \in job[w].pairs \ job[w].todo : PairLock(p) \in held[w]
OneHolder == \A w, v \in Writer : w # v => held[w] \cap held[v] = {}
SourcesDone ==
  \A w \in Writer : job[w].phase \in {"to", "tos"} =>
    \A p \in job[w].pairs \ torn : p[2] \in linkedTo[p[1]]
FewBegun == IsFiniteSet({w \in Writer : job[w].phase # "idle"})

LinkInv ==
  /\ LinkWritesTypeOK /\ JobsSane /\ HeldByPhase /\ PairsHeld /\ OneHolder /\ SourcesDone /\ FewBegun
  /\ LinkedBothWays

LEMMA PairEnds ==
  ASSUME NEW p \in Piece \X Piece
  PROVE  /\ Lo(p) \in Piece /\ Hi(p) \in Piece /\ Rank[Lo(p)] \in Nat /\ Rank[Hi(p)] \in Nat
         /\ Rank[Lo(p)] <= Rank[Hi(p)]
         /\ p \in {<<Lo(p), Hi(p)>>, <<Hi(p), Lo(p)>>}
<1>1. Rank[p[1]] \in Nat /\ Rank[p[2]] \in Nat /\ p = <<p[1], p[2]>> /\ p[1] \in Piece /\ p[2] \in Piece
  BY PieceAssumption
<1> QED BY <1>1 DEF Lo, Hi, LockOrder

LEMMA LeastPair ==
  ASSUME NEW S \in SUBSET (Piece \X Piece), S # {}
  PROVE  Least(S) \in S /\ \A q \in S : Before(Least(S), q)
<1> DEFINE K == {Rank[Lo(q)] : q \in S}
<1>1. K \in SUBSET Nat /\ K # {}
  BY PairEnds
<1>2. PICK m \in K : \A k \in K : m <= k
  BY <1>1, LeastNumber
<1> DEFINE L == {q \in S : Rank[Lo(q)] = m}
           H == {Rank[Hi(q)] : q \in L}
<1>3. H \in SUBSET Nat /\ H # {}
  BY <1>2, PairEnds
<1>4. PICK h \in H : \A k \in H : h <= k
  BY <1>3, LeastNumber
<1>5. PICK p \in S : Rank[Lo(p)] = m /\ Rank[Hi(p)] = h
  BY <1>4
<1>6. ASSUME NEW q \in S PROVE Before(p, q)
  <2>1. /\ Rank[Lo(q)] \in K /\ (Rank[Lo(q)] = m => Rank[Hi(q)] \in H)
        /\ Rank[Lo(q)] \in Nat /\ Rank[Hi(q)] \in Nat /\ m \in Nat /\ h \in Nat
        /\ Lo(q) \in Piece /\ Lo(p) \in Piece
    BY <1>1, <1>3, PairEnds
  <2> HIDE DEF K, H
  <2> QED BY <1>2, <1>4, <1>5, <2>1, PieceAssumption DEF Before
<1> QED BY <1>5, <1>6, Zenon DEF Least

\* two pairs whose order is not strict have their ends in common
LEMMA SameEnds ==
  ASSUME NEW p \in Piece \X Piece, NEW q \in Piece \X Piece
  PROVE  /\ Before(p, q) /\ Before(q, p) => PairLock(p) = PairLock(q)
         /\ PairLock(p) = PairLock(q) => Hash[Lo(p)] = Hash[Lo(q)] /\ Hash[Hi(p)] = Hash[Hi(q)]
BY PairEnds, PieceAssumption DEF Before, PairLock

----------------------------------------------------------------------------
LEMMA LinkBasics ==
  ASSUME LinkWritesTypeOK, NEW w \in Writer
  PROVE  /\ job[w] \in Job /\ job[w].phase \in Phase /\ held[w] \subseteq Lock
         /\ job[w].pairs \subseteq Piece \X Piece /\ job[w].todo \subseteq Piece \X Piece
         /\ job[w].rest \subseteq Piece \X Piece
BY DEF LinkWritesTypeOK, Job

LEMMA SingleJob ==
  ASSUME NEW rest \in SUBSET (Piece \X Piece)
  PROVE  /\ NextSingle(rest) \in Job /\ JobSane(NextSingle(rest))
         /\ NextSingle(rest).phase \in {"over", "low"}
<1>1. CASE rest = {}
  <2>1. NextSingle(rest) = [phase |-> "over", pairs |-> {}, todo |-> {}, rest |-> {}]
    BY <1>1 DEF NextSingle, Finished, Unborn
  <2> QED BY <2>1 DEF Job, JobSane, Phase
<1>2. CASE rest # {}
  <2> DEFINE p == Least(rest)
  <2>1. p \in rest /\ p \in Piece \X Piece
    BY <1>2, LeastPair
  <2>2. NextSingle(rest) = [phase |-> "low", pairs |-> {p}, todo |-> {p}, rest |-> rest \ {p}]
    BY <1>2 DEF NextSingle
  <2> HIDE DEF p
  <2> QED BY <2>1, <2>2 DEF Job, JobSane, Phase
<1> QED BY <1>1, <1>2

\* the locks, after a step by which w holds none
LEMMA LinkReleased ==
  ASSUME LinkInv, NEW w \in Writer, NEW j \in Job, job' = [job EXCEPT ![w] = j], JobSane(j),
         \/ held' = [held EXCEPT ![w] = {}]
         \/ held' = held /\ held[w] = {},
         j.phase # "rows" /\ (j.phase = "pairs" => j.todo = j.pairs)
  PROVE  /\ JobsSane' /\ HeldByPhase' /\ PairsHeld' /\ OneHolder' /\ FewBegun'
         /\ job' \in [Writer -> Job] /\ held' \in [Writer -> SUBSET Lock]
         /\ job'[w] = j /\ \A v \in Writer : v # w => job'[v] = job[v]
<1>1. /\ job' \in [Writer -> Job] /\ held' \in [Writer -> SUBSET Lock]
      /\ \A v \in Writer : job'[v] = IF v = w THEN j ELSE job[v]
      /\ \A v \in Writer : held'[v] = IF v = w THEN {} ELSE held[v]
  BY DEF LinkInv, LinkWritesTypeOK
<1>2. JobsSane' /\ HeldByPhase' /\ PairsHeld' /\ OneHolder'
  BY <1>1 DEF LinkInv, JobsSane, HeldByPhase, PairsHeld, OneHolder
<1>3. FewBegun'
  <2> DEFINE B == {v \in Writer : job[v].phase # "idle"}
             C == {v \in Writer : job'[v].phase # "idle"}
  <2>1. IsFiniteSet(B \cup {w})
    BY FS_AddElement DEF LinkInv, FewBegun
  <2>2. C \subseteq B \cup {w}
    BY <1>1
  <2> HIDE DEF B, C
  <2>3. IsFiniteSet(C)
    BY <2>1, <2>2, FS_Subset
  <2> QED BY <2>3 DEF FewBegun, C
<1> QED BY <1>1, <1>2, <1>3

\* a call that does not hold locks holds none
LEMMA LinkFree ==
  ASSUME LinkInv, NEW w \in Writer, job[w].phase \in {"idle", "over", "low"} \cup Updating
  PROVE  held[w] = {}
BY DEF LinkInv, HeldByPhase, MayHold, Updating

LEMMA LinkInitInv == LinkWritesInit => LinkInv
<1> SUFFICES ASSUME LinkWritesInit PROVE LinkInv
  OBVIOUS
<1>1. Unborn \in Job /\ JobSane(Unborn) /\ Unborn.phase = "idle"
  BY DEF Unborn, Job, JobSane, Phase
<1>2. \A w \in Writer : job[w] = Unborn /\ held[w] = {}
  BY DEF LinkWritesInit
<1>3. LinkWritesTypeOK /\ JobsSane /\ HeldByPhase /\ PairsHeld /\ OneHolder
  BY <1>1, <1>2 DEF LinkWritesInit, LinkWritesTypeOK, JobsSane, HeldByPhase, PairsHeld, OneHolder
<1>4. SourcesDone /\ LinkedBothWays
  BY <1>1, <1>2 DEF LinkWritesInit, SourcesDone, LinkedBothWays
<1>5. FewBegun
  <2>1. {w \in Writer : job[w].phase # "idle"} = {}
    BY <1>1, <1>2
  <2> QED BY <2>1, FS_EmptySet DEF FewBegun
<1> QED BY <1>3, <1>4, <1>5 DEF LinkInv

LEMMA LinkStart ==
  ASSUME LinkInv, NEW w \in Writer,
         (\E p \in Single : CreateLink(w, p)) \/ (\E B \in Batch : AutoLink(w, B))
  PROVE  LinkInv'
<1>1. PICK j \in Job : StartJob(w, j) /\ JobSane(j) /\ j.phase \in {"over", "low", "pairs"}
                       /\ (j.phase = "pairs" => j.todo = j.pairs)
  <2>1. ASSUME NEW p \in Single, CreateLink(w, p)
        PROVE \E j \in Job : StartJob(w, j) /\ JobSane(j) /\ j.phase \in {"over", "low", "pairs"}
                             /\ (j.phase = "pairs" => j.todo = j.pairs)
    <3>1. {p} \in SUBSET (Piece \X Piece)
      BY PieceAssumption
    <3> QED BY <2>1, <3>1, SingleJob DEF CreateLink
  <2>2. ASSUME NEW B \in Batch, AutoLink(w, B)
        PROVE \E j \in Job : StartJob(w, j) /\ JobSane(j) /\ j.phase \in {"over", "low", "pairs"}
                             /\ (j.phase = "pairs" => j.todo = j.pairs)
    <3> DEFINE j == [phase |-> "pairs", pairs |-> B, todo |-> B, rest |-> {}]
    <3>1. j \in Job /\ JobSane(j) /\ j.phase = "pairs" /\ j.todo = j.pairs
      BY PieceAssumption DEF Job, JobSane, Phase
    <3>2. StartJob(w, j)
      BY <2>2 DEF AutoLink
    <3> HIDE DEF j
    <3> QED BY <3>1, <3>2
  <2> QED BY <2>1, <2>2
<1>2. job[w].phase = "idle" /\ job' = [job EXCEPT ![w] = j] /\ UNCHANGED <<link, linkedTo, held, torn>>
  BY <1>1 DEF StartJob
<1>3. held[w] = {}
  BY <1>2, LinkFree
<1>4. /\ JobsSane' /\ HeldByPhase' /\ PairsHeld' /\ OneHolder' /\ FewBegun'
      /\ job' \in [Writer -> Job] /\ held' \in [Writer -> SUBSET Lock]
      /\ job'[w] = j /\ \A v \in Writer : v # w => job'[v] = job[v]
  BY <1>1, <1>2, <1>3, LinkReleased
<1>5. LinkWritesTypeOK'
  BY <1>2, <1>4 DEF LinkInv, LinkWritesTypeOK
<1>6. SourcesDone' /\ LinkedBothWays'
  BY <1>1, <1>2, <1>4 DEF LinkInv, SourcesDone, LinkedBothWays, Updating
<1> QED BY <1>4, <1>5, <1>6 DEF LinkInv

LEMMA LinkCommit == ASSUME LinkInv, NEW w \in Writer, CommitLinks(w) PROVE LinkInv'
<1> DEFINE j == [job[w] EXCEPT !.phase = IF @ = "row" THEN "from" ELSE "froms"]
<1>1. /\ job[w].phase \in {"row", "rows"} /\ job[w].todo = {} /\ link' = link \cup job[w].pairs
      /\ held' = [held EXCEPT ![w] = {}] /\ UNCHANGED <<linkedTo, torn>>
      /\ job' = [job EXCEPT ![w] = j] /\ job[w] \in Job
  BY LinkBasics DEF LinkInv, CommitLinks
<1>2. j \in Job /\ j.phase \in {"from", "froms"} /\ j.pairs = job[w].pairs /\ j.todo = {}
  BY <1>1 DEF Job, Phase
<1> HIDE DEF j
<1>3. JobSane(j)
  BY <1>2 DEF JobSane
<1>4. /\ JobsSane' /\ HeldByPhase' /\ PairsHeld' /\ OneHolder' /\ FewBegun'
      /\ job' \in [Writer -> Job] /\ held' \in [Writer -> SUBSET Lock]
      /\ job'[w] = j /\ \A v \in Writer : v # w => job'[v] = job[v]
  BY <1>1, <1>2, <1>3, LinkReleased
<1>5. LinkWritesTypeOK'
  BY <1>1, <1>4, LinkBasics DEF LinkInv, LinkWritesTypeOK
<1>6. SourcesDone' /\ LinkedBothWays'
  BY <1>1, <1>2, <1>4 DEF LinkInv, SourcesDone, LinkedBothWays, Updating
<1> QED BY <1>4, <1>5, <1>6 DEF LinkInv

LEMMA LinkSourcesInv == ASSUME LinkInv, NEW w \in Writer, LinkSources(w) PROVE LinkInv'
<1> DEFINE j == [job[w] EXCEPT !.phase = IF @ = "from" THEN "to" ELSE "tos"]
<1>1. /\ job[w].phase \in {"from", "froms"} /\ UNCHANGED <<link, held, torn>>
      /\ linkedTo' = [f \in Piece |-> IF f \in FromSide(job[w].pairs) THEN linkedTo[f] \cup ToSide(job[w].pairs)
                                      ELSE linkedTo[f]]
      /\ job' = [job EXCEPT ![w] = j] /\ job[w] \in Job /\ job[w].pairs \subseteq Piece \X Piece
      /\ job[w].todo \subseteq job[w].pairs
  BY LinkBasics DEF LinkInv, LinkSources, AppendTo, JobsSane, JobSane
<1>2. j \in Job /\ j.phase \in {"to", "tos"} /\ j.pairs = job[w].pairs /\ j.todo = job[w].todo
  BY <1>1 DEF Job, Phase
<1> HIDE DEF j
<1>3. JobSane(j) /\ held[w] = {}
  BY <1>1, <1>2, LinkFree DEF JobSane, Updating
<1>4. /\ JobsSane' /\ HeldByPhase' /\ PairsHeld' /\ OneHolder' /\ FewBegun'
      /\ job' \in [Writer -> Job] /\ held' \in [Writer -> SUBSET Lock]
      /\ job'[w] = j /\ \A v \in Writer : v # w => job'[v] = job[v]
  BY <1>1, <1>2, <1>3, LinkReleased
<1>5. ToSide(job[w].pairs) \subseteq Piece
  BY <1>1 DEF ToSide
<1>6. /\ linkedTo' \in [Piece -> SUBSET Piece]
      /\ \A f \in Piece : linkedTo[f] \subseteq linkedTo'[f]
      /\ \A p \in job[w].pairs : p[2] \in linkedTo'[p[1]]
  BY <1>1, <1>5 DEF LinkInv, LinkWritesTypeOK, FromSide, ToSide
<1>7. LinkWritesTypeOK'
  BY <1>1, <1>4, <1>6 DEF LinkInv, LinkWritesTypeOK
<1>8. SourcesDone'
  <2> SUFFICES ASSUME NEW v \in Writer, job'[v].phase \in {"to", "tos"}, NEW p \in job'[v].pairs \ torn
               PROVE  p[2] \in linkedTo'[p[1]]
    BY <1>1 DEF SourcesDone
  <2>1. CASE v = w
    BY <1>2, <1>4, <1>6, <2>1
  <2>2. CASE v # w
    <3>1. p \in Piece \X Piece /\ p[2] \in linkedTo[p[1]]
      BY <1>4, <2>2, LinkBasics DEF LinkInv, SourcesDone
    <3> QED BY <1>6, <3>1
  <2> QED BY <2>1, <2>2
<1>9. LinkedBothWays'
  <2>1. \A v \in Writer : job[v].phase \in Updating => job'[v].phase \in Updating /\ job'[v].pairs = job[v].pairs
    BY <1>2, <1>4 DEF Updating
  <2>2. \A p \in link : p \in Piece \X Piece
    BY DEF LinkInv, LinkWritesTypeOK
  <2> QED BY <1>1, <1>6, <2>1, <2>2 DEF LinkInv, LinkedBothWays
<1> QED BY <1>4, <1>7, <1>8, <1>9 DEF LinkInv

LEMMA LinkTargetsInv == ASSUME LinkInv, NEW w \in Writer, LinkTargets(w) PROVE LinkInv'
<1> DEFINE j == NextSingle(job[w].rest)
<1>1. /\ job[w].phase \in {"to", "tos"} /\ UNCHANGED <<link, held, torn>>
      /\ linkedTo' = [f \in Piece |-> IF f \in ToSide(job[w].pairs) THEN linkedTo[f] \cup FromSide(job[w].pairs)
                                      ELSE linkedTo[f]]
      /\ job' = [job EXCEPT ![w] = j] /\ job[w] \in Job /\ job[w].pairs \subseteq Piece \X Piece
      /\ job[w].rest \subseteq Piece \X Piece
  BY LinkBasics DEF LinkInv, LinkTargets, AppendTo
<1>2. j \in Job /\ JobSane(j) /\ j.phase \in {"over", "low"} /\ held[w] = {}
  BY <1>1, SingleJob, LinkFree DEF Updating
<1> HIDE DEF j
<1>3. /\ JobsSane' /\ HeldByPhase' /\ PairsHeld' /\ OneHolder' /\ FewBegun'
      /\ job' \in [Writer -> Job] /\ held' \in [Writer -> SUBSET Lock]
      /\ job'[w] = j /\ \A v \in Writer : v # w => job'[v] = job[v]
  BY <1>1, <1>2, LinkReleased
<1>4. FromSide(job[w].pairs) \subseteq Piece
  BY <1>1 DEF FromSide
<1>5. /\ linkedTo' \in [Piece -> SUBSET Piece]
      /\ \A f \in Piece : linkedTo[f] \subseteq linkedTo'[f]
      /\ \A p \in job[w].pairs : p[1] \in linkedTo'[p[2]]
  BY <1>1, <1>4 DEF LinkInv, LinkWritesTypeOK, FromSide, ToSide
<1>6. LinkWritesTypeOK'
  BY <1>1, <1>3, <1>5 DEF LinkInv, LinkWritesTypeOK
<1>7. SourcesDone'
  <2> SUFFICES ASSUME NEW v \in Writer, job'[v].phase \in {"to", "tos"}, NEW p \in job'[v].pairs \ torn
               PROVE  p[2] \in linkedTo'[p[1]]
    BY <1>1 DEF SourcesDone
  <2>1. v # w
    BY <1>2, <1>3
  <2>2. p \in Piece \X Piece /\ p[2] \in linkedTo[p[1]]
    BY <1>3, <2>1, LinkBasics DEF LinkInv, SourcesDone
  <2> QED BY <1>5, <2>2
<1>8. LinkedBothWays'
  <2> SUFFICES ASSUME NEW p \in link \ torn
               PROVE  \/ p[2] \in linkedTo'[p[1]] /\ p[1] \in linkedTo'[p[2]]
                      \/ \E v \in Writer : job'[v].phase \in Updating /\ p \in job'[v].pairs
    BY <1>1 DEF LinkedBothWays
  <2>1. p \in Piece \X Piece
    BY DEF LinkInv, LinkWritesTypeOK
  <2>2. CASE p[2] \in linkedTo[p[1]] /\ p[1] \in linkedTo[p[2]]
    BY <1>5, <2>1, <2>2
  <2>3. CASE p \in job[w].pairs
    <3>1. p[2] \in linkedTo[p[1]]
      BY <1>1, <2>3 DEF LinkInv, SourcesDone
    <3> QED BY <1>5, <2>1, <2>3, <3>1
  <2>4. ASSUME NEW v \in Writer, v # w, job[v].phase \in Updating, p \in job[v].pairs
        PROVE  job'[v].phase \in Updating /\ p \in job'[v].pairs
    BY <1>3, <2>4
  <2> QED BY <2>2, <2>3, <2>4 DEF LinkInv, LinkedBothWays
<1> QED BY <1>3, <1>6, <1>7, <1>8 DEF LinkInv

LEMMA LinkRollBack == ASSUME LinkInv, NEW w \in Writer, RollBack(w) PROVE LinkInv'
<1> DEFINE rest == IF job[w].phase \in {"pairs", "rows"} THEN job[w].pairs ELSE job[w].rest
           j == NextSingle(rest)
<1>1. /\ job[w].phase \in {"low", "high", "row", "pairs", "rows"} /\ UNCHANGED <<link, linkedTo, torn>>
      /\ held' = [held EXCEPT ![w] = {}] /\ rest \in SUBSET (Piece \X Piece)
      /\ job' = [job EXCEPT ![w] = j]
  BY LinkBasics DEF LinkInv, RollBack
<1> HIDE DEF rest
<1>2. j \in Job /\ JobSane(j) /\ j.phase \in {"over", "low"}
  BY <1>1, SingleJob
<1> HIDE DEF j
<1>3. /\ JobsSane' /\ HeldByPhase' /\ PairsHeld' /\ OneHolder' /\ FewBegun'
      /\ job' \in [Writer -> Job] /\ held' \in [Writer -> SUBSET Lock]
      /\ job'[w] = j /\ \A v \in Writer : v # w => job'[v] = job[v]
  BY <1>1, <1>2, LinkReleased
<1>4. LinkWritesTypeOK'
  BY <1>1, <1>3 DEF LinkInv, LinkWritesTypeOK
<1>5. SourcesDone' /\ LinkedBothWays'
  BY <1>1, <1>2, <1>3 DEF LinkInv, SourcesDone, LinkedBothWays, Updating
<1> QED BY <1>3, <1>4, <1>5 DEF LinkInv

LEMMA LinkUpdateFails == ASSUME LinkInv, NEW w \in Writer, UpdateFails(w) PROVE LinkInv'
<1> DEFINE next == NextSingle(job[w].rest)
           on == [job[w] EXCEPT !.phase = "tos"]
           j == IF job[w].phase = "froms" THEN on ELSE next
<1>1. /\ job[w].phase \in Updating /\ UNCHANGED <<link, linkedTo, held>>
      /\ torn' = torn \cup job[w].pairs
      /\ job' = [job EXCEPT ![w] = j] /\ job[w] \in Job /\ job[w].pairs \subseteq Piece \X Piece
      /\ job[w].rest \subseteq Piece \X Piece /\ job[w].todo \subseteq job[w].pairs /\ held[w] = {}
  BY LinkBasics, LinkFree DEF LinkInv, UpdateFails, JobsSane, JobSane
<1>2. on \in Job /\ on.phase = "tos" /\ on.pairs = job[w].pairs /\ on.todo = job[w].todo
  BY <1>1 DEF Job, Phase
<1>3. JobSane(on)
  BY <1>1, <1>2 DEF JobSane
<1>4. next \in Job /\ JobSane(next) /\ next.phase \in {"over", "low"}
  BY <1>1, SingleJob
<1>5. j \in Job /\ JobSane(j) /\ (j.phase \in {"over", "low"} \/ (j.phase = "tos" /\ j.pairs = job[w].pairs))
  BY <1>2, <1>3, <1>4
<1> HIDE DEF j
<1>6. /\ JobsSane' /\ HeldByPhase' /\ PairsHeld' /\ OneHolder' /\ FewBegun'
      /\ job' \in [Writer -> Job] /\ held' \in [Writer -> SUBSET Lock]
      /\ job'[w] = j /\ \A v \in Writer : v # w => job'[v] = job[v]
  BY <1>1, <1>5, LinkReleased
<1>7. LinkWritesTypeOK'
  BY <1>1, <1>6 DEF LinkInv, LinkWritesTypeOK
<1>8. SourcesDone' /\ LinkedBothWays'
  BY <1>1, <1>5, <1>6 DEF LinkInv, SourcesDone, LinkedBothWays
<1> QED BY <1>6, <1>7, <1>8 DEF LinkInv

LEMMA LinkCrash == ASSUME LinkInv, WritersCrash PROVE LinkInv'
<1>1. /\ UNCHANGED <<link, linkedTo>> /\ held' = [w \in Writer |-> {}]
      /\ job' = [w \in Writer |-> IF job[w].phase = "idle" THEN Unborn ELSE Finished]
      /\ \A w \in Writer : job[w].phase \in Updating => job[w].pairs \subseteq torn'
      /\ torn \subseteq torn' /\ torn' \subseteq Piece \X Piece
  BY LinkBasics DEF WritersCrash, LinkInv, LinkWritesTypeOK
<1>2. /\ Unborn \in Job /\ JobSane(Unborn) /\ Unborn.phase = "idle"
      /\ Finished \in Job /\ JobSane(Finished) /\ Finished.phase = "over"
  BY DEF Unborn, Finished, Job, JobSane, Phase
<1>3. LinkWritesTypeOK'
  BY <1>1, <1>2 DEF LinkInv, LinkWritesTypeOK
<1>4. JobsSane' /\ HeldByPhase' /\ PairsHeld' /\ OneHolder'
  BY <1>1, <1>2 DEF JobsSane, HeldByPhase, PairsHeld, OneHolder
<1>5. SourcesDone' /\ LinkedBothWays'
  BY <1>1, <1>2 DEF LinkInv, SourcesDone, LinkedBothWays
<1>6. FewBegun'
  <2>1. {w \in Writer : job'[w].phase # "idle"} \subseteq {w \in Writer : job[w].phase # "idle"}
    BY <1>1, <1>2
  <2> QED BY <2>1, FS_Subset DEF LinkInv, FewBegun
<1> QED BY <1>3, <1>4, <1>5, <1>6 DEF LinkInv

LEMMA LinkAcquire == ASSUME LinkInv, NEW w \in Writer, AcquireLock(w) PROVE LinkInv'
<1> DEFINE j == job[w]
           p == Least(j.todo)
           left == j.todo \ {p}
           k == CASE j.phase = "low"  -> [j EXCEPT !.phase = "high"]
                  [] j.phase = "high" -> [j EXCEPT !.phase = "row"]
                  [] j.phase = "row"  -> [j EXCEPT !.todo = {}]
                  [] j.phase = "pairs" /\ left = {} -> [j EXCEPT !.phase = "rows", !.todo = j.pairs]
                  [] OTHER            -> [j EXCEPT !.todo = left]
<1>1. /\ j \in Job /\ j.todo # {} /\ p \in j.todo /\ \A q \in j.todo : Before(p, q)
      /\ j.pairs \subseteq Piece \X Piece /\ j.todo \subseteq j.pairs /\ p \in Piece \X Piece
      /\ JobSane(j) /\ j.phase \in {"low", "high", "row", "pairs", "rows"}
  <2>1. j \in Job /\ j.todo # {} /\ j.phase \in {"low", "high", "row", "pairs", "rows"}
    BY LinkBasics DEF LinkInv, AcquireLock, LockWanted, Asked
  <2>2. JobSane(j) /\ j.todo \subseteq j.pairs /\ j.pairs \subseteq Piece \X Piece
    BY LinkBasics DEF LinkInv, JobsSane, JobSane
  <2> QED BY <2>1, <2>2, LeastPair
<1>2. /\ job' = [job EXCEPT ![w] = k] /\ held' = [held EXCEPT ![w] = held[w] \cup LockWanted(w)]
      /\ UNCHANGED <<link, linkedTo, torn>>
      /\ \A v \in Writer : v # w => LockWanted(w) \cap held[v] = {}
  BY DEF AcquireLock, WaitsFor
<1>3. LockWanted(w) = {IF j.phase = "low" THEN Id(Lo(p)) ELSE IF j.phase = "high" THEN Id(Hi(p))
                       ELSE IF j.phase = "pairs" THEN PairLock(p) ELSE RowLock(p)}
  BY <1>1 DEF LockWanted, Asked, Id, PairLock, RowLock
<1>4. /\ k \in Job /\ k.pairs = j.pairs
      /\ j.phase = "low" => k.phase = "high" /\ k.todo = j.todo
      /\ j.phase = "high" => k.phase = "row" /\ k.todo = j.todo
      /\ j.phase = "row" => k.phase = "row" /\ k.todo = {}
      /\ j.phase = "pairs" => \/ left = {} /\ k.phase = "rows" /\ k.todo = j.pairs
                              \/ left # {} /\ k.phase = "pairs" /\ k.todo = left
      /\ j.phase = "rows" => k.phase = "rows" /\ k.todo = left
  <2>0. j \in Job /\ left \subseteq Piece \X Piece /\ j.pairs \subseteq Piece \X Piece
    BY <1>1
  <2> HIDE DEF left, j
  <2>1. CASE j.phase = "low"
    BY <2>0, <2>1 DEF Job, Phase
  <2>2. CASE j.phase = "high"
    BY <2>0, <2>2 DEF Job, Phase
  <2>3. CASE j.phase = "row"
    BY <2>0, <2>3 DEF Job, Phase
  <2>4. CASE j.phase = "pairs" /\ left = {}
    BY <2>0, <2>4 DEF Job, Phase
  <2>5. CASE j.phase = "pairs" /\ left # {}
    BY <2>0, <2>5 DEF Job, Phase
  <2>6. CASE j.phase = "rows"
    BY <2>0, <2>6 DEF Job, Phase
  <2> QED BY <1>1, <2>1, <2>2, <2>3, <2>4, <2>5, <2>6
<1> HIDE DEF k, p
<1>5. JobSane(k)
  BY <1>1, <1>4 DEF JobSane
<1>6. /\ job' \in [Writer -> Job] /\ job'[w] = k /\ \A v \in Writer : v # w => job'[v] = job[v]
      /\ held'[w] = held[w] \cup LockWanted(w) /\ \A v \in Writer : v # w => held'[v] = held[v]
  BY <1>2, <1>4 DEF LinkInv, LinkWritesTypeOK
<1>7. LinkWritesTypeOK'
  <2>1. LockWanted(w) \subseteq Lock
    BY <1>1, <1>3, PairEnds DEF Lock, Id, PairLock, RowLock
  <2> QED BY <1>2, <1>6, <2>1 DEF LinkInv, LinkWritesTypeOK
<1>8. \A l \in held[w] : MayHold(k, l)
  <2> SUFFICES ASSUME NEW l \in held[w] PROVE MayHold(k, l)
    OBVIOUS
  <2>1. MayHold(j, l)
    BY DEF LinkInv, HeldByPhase
  <2>2. j.phase \in {"low", "high", "row"} => j.pairs = {p}
    BY <1>1 DEF JobSane
  <2>3. CASE j.phase \in {"low", "high", "row"}
    BY <1>1, <1>4, <2>1, <2>2, <2>3 DEF MayHold
  <2>4. CASE j.phase = "pairs"
    BY <1>1, <1>4, <2>1, <2>4 DEF MayHold
  <2>5. CASE j.phase = "rows"
    BY <1>1, <1>4, <2>1, <2>5 DEF MayHold
  <2> QED BY <1>1, <2>3, <2>4, <2>5
<1>9. \A l \in LockWanted(w) : MayHold(k, l)
  BY <1>1, <1>3, <1>4 DEF MayHold, JobSane
<1>10. JobsSane' /\ HeldByPhase'
  BY <1>5, <1>6, <1>8, <1>9 DEF LinkInv, JobsSane, HeldByPhase
<1>11. PairsHeld'
  <2>1. /\ k.phase = "rows" => \A q \in k.pairs : PairLock(q) \in held'[w]
        /\ k.phase = "pairs" => \A q \in k.pairs \ k.todo : PairLock(q) \in held'[w]
    BY <1>1, <1>3, <1>4, <1>6 DEF LinkInv, PairsHeld
  <2> QED BY <1>6, <2>1 DEF LinkInv, PairsHeld
<1>12. OneHolder'
  BY <1>2, <1>6 DEF LinkInv, OneHolder
<1>13. SourcesDone' /\ LinkedBothWays'
  <2>1. job[w].phase \notin Updating /\ k.phase \notin Updating
    BY <1>1, <1>4 DEF Updating
  <2> QED BY <1>2, <1>6, <2>1 DEF LinkInv, SourcesDone, LinkedBothWays, Updating
<1>14. FewBegun'
  <2>1. {v \in Writer : job'[v].phase # "idle"} \subseteq {v \in Writer : job[v].phase # "idle"}
    BY <1>1, <1>6
  <2> QED BY <2>1, FS_Subset DEF LinkInv, FewBegun
<1> QED BY <1>7, <1>10, <1>11, <1>12, <1>13, <1>14 DEF LinkInv

LEMMA LinkNextInv == LinkInv /\ [LinkWritesNext]_lwVars => LinkInv'
<1> SUFFICES ASSUME LinkInv, [LinkWritesNext]_lwVars PROVE LinkInv'
  OBVIOUS
<1>1. CASE UNCHANGED lwVars
  BY <1>1 DEF lwVars, LinkInv, LinkWritesTypeOK, JobsSane, HeldByPhase, PairsHeld, OneHolder, SourcesDone,
              FewBegun, LinkedBothWays
<1> QED BY <1>1, LinkStart, LinkAcquire, LinkCommit, LinkSourcesInv, LinkTargetsInv, LinkRollBack,
           LinkUpdateFails, LinkCrash DEF LinkWritesNext

LEMMA LinkInvariance == LinkWritesSpec => []LinkInv
BY LinkInitInv, LinkNextInv, PTL DEF LinkWritesSpec

(***************************************************************************)
(* Both fragments of a link in the table name each other, once the call    *)
(* that wrote it is over, for any number of calls, pairs and batches.      *)
(***************************************************************************)
THEOREM BothWays == LinkWritesSpec => []LinkedBothWays
<1>1. LinkInv => LinkedBothWays
  BY DEF LinkInv
<1> QED BY <1>1, LinkInvariance, PTL

----------------------------------------------------------------------------
\* what is known of a call that waits for another
LEMMA Waiting ==
  ASSUME LinkInv, NEW w \in Writer, NEW v \in Writer, WaitsFor(w, v)
  PROVE  /\ job[w].phase \in {"low", "high", "row", "pairs", "rows"}
         /\ job[w].todo # {} /\ Least(job[w].todo) \in job[w].todo
         /\ Least(job[w].todo) \in job[w].pairs /\ Least(job[w].todo) \in Piece \X Piece
         /\ v # w /\ LockWanted(w) \subseteq held[v]
         /\ \A l \in LockWanted(w) : MayHold(job[v], l)
         /\ LockWanted(w) = {IF job[w].phase = "low" THEN Id(Lo(Least(job[w].todo)))
                             ELSE IF job[w].phase = "high" THEN Id(Hi(Least(job[w].todo)))
                             ELSE IF job[w].phase = "pairs" THEN PairLock(Least(job[w].todo))
                             ELSE RowLock(Least(job[w].todo))}
<1>1. job[w].todo # {} /\ job[w].phase \in {"low", "high", "row", "pairs", "rows"}
  BY LinkBasics DEF LinkInv, WaitsFor, LockWanted, Asked
<1>2. job[w].todo \subseteq job[w].pairs /\ job[w].pairs \subseteq Piece \X Piece
  BY LinkBasics DEF LinkInv, JobsSane, JobSane
<1>3. Least(job[w].todo) \in job[w].todo
  BY <1>1, <1>2, LeastPair
<1>4. LockWanted(w) = {IF job[w].phase = "low" THEN Id(Lo(Least(job[w].todo)))
                       ELSE IF job[w].phase = "high" THEN Id(Hi(Least(job[w].todo)))
                       ELSE IF job[w].phase = "pairs" THEN PairLock(Least(job[w].todo))
                       ELSE RowLock(Least(job[w].todo))}
  BY <1>1 DEF LockWanted, Asked, Id, PairLock, RowLock
<1>5. v # w /\ LockWanted(w) \subseteq held[v]
  BY <1>4 DEF WaitsFor
<1>6. \A l \in LockWanted(w) : MayHold(job[v], l)
  BY <1>5 DEF LinkInv, HeldByPhase
<1> QED BY <1>1, <1>2, <1>3, <1>4, <1>5, <1>6

\* a batch waits for a row only while a single link is about to commit it
LEMMA RowWaits ==
  ASSUME LinkInv, NEW w \in Writer, NEW v \in Writer, NEW u \in Writer, NEW x \in Writer,
         job[w].phase \in {"row", "rows"}, WaitsFor(w, v), WaitsFor(v, u), WaitsFor(u, x)
  PROVE  FALSE
<1>1. ASSUME NEW a \in Writer, NEW b \in Writer, NEW c \in Writer,
             job[a].phase \in {"row", "rows"}, WaitsFor(a, b), WaitsFor(b, c)
      PROVE  job[a].phase = "row" /\ job[b].phase = "rows"
  <2> DEFINE p == Least(job[a].todo)
  <2>1. /\ p \in job[a].pairs /\ RowLock(p) \in held[b] /\ MayHold(job[b], RowLock(p)) /\ a # b
        /\ job[b].todo # {}
    BY <1>1, Waiting
  <2>2. job[b].phase = "rows" /\ p \in job[b].pairs
    BY <2>1 DEF MayHold, RowLock, Id, PairLock
  <2>3. PairLock(p) \in held[b]
    BY <2>2 DEF LinkInv, PairsHeld
  <2>4. job[a].phase = "rows" => PairLock(p) \in held[a]
    BY <2>1 DEF LinkInv, PairsHeld
  <2> QED BY <1>1, <2>1, <2>2, <2>3, <2>4 DEF LinkInv, OneHolder
<1> QED BY <1>1

(***************************************************************************)
(* However single links and batches meet, no set of calls, of any size,    *)
(* that link ids of different hashes has each of its members waiting for   *)
(* another one of them. Had one, no member would wait for a row; of those  *)
(* waiting for a pair, the one that waits for the last pair would have     *)
(* nobody to wait for; so would, of those waiting for their second id, the *)
(* one whose id is last; and a first id is held only by those.             *)
(***************************************************************************)
LEMMA LinkNoCircle == LinkInv => NoCircularWait
<1> SUFFICES ASSUME LinkInv, NEW S \in (SUBSET Writer) \ {{}}, Circle(S),
                    \A f, g \in InPlay(S) : Hash[f] = Hash[g] => f = g
             PROVE  FALSE
  BY DEF NoCircularWait
<1>0. S \subseteq Writer /\ S # {} /\ \A w \in S : \E v \in S : WaitsFor(w, v)
  BY DEF Circle
<1>10. \A w \in S : \A q \in job[w].pairs : Lo(q) \in InPlay(S) /\ Hi(q) \in InPlay(S)
  BY DEF InPlay, Lo, Hi, LockOrder
<1> DEFINE p(w) == Least(job[w].todo)
<1>1. IsFiniteSet(S)
  <2>1. S \subseteq {w \in Writer : job[w].phase # "idle"}
    BY <1>0, Waiting
  <2> QED BY <2>1, FS_Subset DEF LinkInv, FewBegun
<1>2. \A w \in S : job[w].phase \in {"low", "high", "pairs"}
  <2> SUFFICES ASSUME NEW w \in S PROVE job[w].phase \in {"low", "high", "pairs"}
    OBVIOUS
  <2>1. PICK v \in S : WaitsFor(w, v)
    BY <1>0
  <2>2. w \in Writer /\ v \in Writer /\ \E u \in S : WaitsFor(v, u)
    BY <1>0
  <2>3. job[w].phase \in {"low", "high", "row", "pairs", "rows"}
    BY <2>1, <2>2, Waiting
  <2> QED BY <1>0, <2>1, <2>2, <2>3, RowWaits
<1>3. \A w \in S : p(w) \in Piece \X Piece /\ p(w) \in job[w].todo /\ p(w) \in job[w].pairs
  BY <1>0, Waiting
<1>4. \A w \in S : job[w].phase # "pairs"
  <2> DEFINE T == {w \in S : job[w].phase = "pairs"}
             R == {e \in T \X T : ~Before(p(e[2]), p(e[1]))}
  <2>1. ASSUME NEW w \in T PROVE \E v \in T : <<w, v>> \in R
    <3>1. PICK v \in S : WaitsFor(w, v)
      BY <1>0
    <3>2. PICK u \in S : WaitsFor(v, u)
      BY <1>0
    <3>3. /\ PairLock(p(w)) \in held[v] /\ MayHold(job[v], PairLock(p(w)))
          /\ LockWanted(v) \subseteq held[u] /\ u # v
      BY <1>0, <3>1, <3>2, Waiting
    <3>4. PICK q \in job[v].pairs \ job[v].todo : job[v].phase = "pairs" /\ PairLock(p(w)) = PairLock(q)
      BY <1>2, <3>3 DEF MayHold, Id, PairLock, RowLock
    <3>5. LockWanted(v) = {PairLock(p(v))} /\ v \in T
      BY <1>0, <3>2, <3>4, Waiting
    <3>6. PairLock(p(v)) # PairLock(q)
      BY <3>3, <3>4, <3>5 DEF LinkInv, OneHolder
    <3>7. q \in Piece \X Piece /\ Before(q, p(v))
      BY <1>3, <3>4, LinkBasics DEF LinkInv, JobsSane, JobSane
    <3>8. ~Before(p(v), q)
      BY <1>3, <3>6, <3>7, SameEnds
    <3>9. Lo(q) = Lo(p(w)) /\ Hi(q) = Hi(p(w))
      <4>1. Hash[Lo(q)] = Hash[Lo(p(w))] /\ Hash[Hi(q)] = Hash[Hi(p(w))]
        BY <1>3, <3>4, <3>7, SameEnds
      <4>2. {Lo(q), Hi(q), Lo(p(w)), Hi(p(w))} \subseteq InPlay(S)
        BY <1>3, <1>10, <3>1, <3>4
      <4> QED BY <4>1, <4>2
    <3>10. ~Before(p(v), p(w))
      BY <3>8, <3>9 DEF Before
    <3> QED BY <3>5, <3>10
  <2>2. \A x \in T : <<x, x>> \notin R
    <3>1. \A q \in Piece \X Piece : Before(q, q)
      BY PairEnds DEF Before
    <3> QED BY <1>3, <3>1
  <2>3. ASSUME NEW x \in T, NEW y \in T, NEW z \in T, <<x, y>> \in R, <<y, z>> \in R PROVE <<x, z>> \in R
    <3>1. ASSUME NEW a \in Piece \X Piece, NEW b \in Piece \X Piece, NEW c \in Piece \X Piece,
                 ~Before(b, a), ~Before(c, b)
          PROVE  ~Before(c, a)
      BY <3>1, PairEnds, PieceAssumption DEF Before
    <3> QED BY <1>3, <2>3, <3>1
  <2>4. IsFiniteSet(T)
    BY <1>1, FS_Subset
  <2> HIDE DEF T, R
  <2>5. ASSUME T # {} PROVE FALSE
    <3>1. \E x \in T : \A y \in T : <<x, y>> \notin R
      BY <2>2, <2>3, <2>4, <2>5, Maximal
    <3> QED BY <2>1, <3>1, Zenon
  <2> QED BY <2>5 DEF T
<1>5. \A w \in S : job[w].phase # "high"
  <2> DEFINE T == {w \in S : job[w].phase = "high"}
             R == {e \in T \X T : Rank[Hi(p(e[1]))] < Rank[Hi(p(e[2]))]}
  <2>0. \A w \in S : Rank[Hi(p(w))] \in Nat
    BY <1>3, PairEnds
  <2>1. ASSUME NEW w \in T PROVE \E v \in T : <<w, v>> \in R
    <3>1. PICK v \in S : WaitsFor(w, v)
      BY <1>0
    <3>2. PICK u \in S : WaitsFor(v, u)
      BY <1>0
    <3>3. /\ Id(Hi(p(w))) \in held[v] /\ MayHold(job[v], Id(Hi(p(w))))
          /\ LockWanted(v) \subseteq held[u] /\ u # v
      BY <1>0, <3>1, <3>2, Waiting
    <3>4. job[v].phase = "high" /\ \E q \in job[v].pairs : Id(Hi(p(w))) = Id(Lo(q))
      BY <1>2, <3>3 DEF MayHold, Id, PairLock, RowLock
    <3>5. Id(Hi(p(w))) = Id(Lo(p(v)))
      BY <1>3, <3>4 DEF LinkInv, JobsSane, JobSane
    <3>6. Hi(p(w)) = Lo(p(v))
      <4>1. Hash[Hi(p(w))] = Hash[Lo(p(v))]
        BY <3>5 DEF Id
      <4>2. Hi(p(w)) \in InPlay(S) /\ Lo(p(v)) \in InPlay(S)
        BY <1>3, <1>10, <3>1
      <4> QED BY <4>1, <4>2
    <3>7. LockWanted(v) = {Id(Hi(p(v)))} /\ v \in T
      BY <1>0, <3>2, <3>4, Waiting
    <3>8. Id(Hi(p(v))) # Id(Lo(p(v)))
      BY <3>3, <3>5, <3>7 DEF LinkInv, OneHolder
    <3>9. Rank[Lo(p(v))] < Rank[Hi(p(v))]
      <4>1. p(v) \in Piece \X Piece /\ Lo(p(v)) # Hi(p(v))
        BY <1>3, <3>8 DEF Id
      <4> HIDE DEF p
      <4> QED BY <4>1, PairEnds, PieceAssumption
    <3> QED BY <3>6, <3>7, <3>9
  <2>2. \A x \in T : <<x, x>> \notin R
    BY <2>0
  <2>3. \A x, y, z \in T : <<x, y>> \in R /\ <<y, z>> \in R => <<x, z>> \in R
    BY <2>0
  <2>4. IsFiniteSet(T)
    BY <1>1, FS_Subset
  <2> HIDE DEF T, R
  <2>5. ASSUME T # {} PROVE FALSE
    <3>1. \E x \in T : \A y \in T : <<x, y>> \notin R
      BY <2>2, <2>3, <2>4, <2>5, Maximal
    <3> QED BY <2>1, <3>1, Zenon
  <2> QED BY <2>5 DEF T
<1>6. PICK w \in S : job[w].phase = "low"
  BY <1>0, <1>2, <1>4, <1>5
<1>7. PICK v \in S : WaitsFor(w, v)
  BY <1>0
<1>8. MayHold(job[v], Id(Lo(p(w))))
  BY <1>0, <1>6, <1>7, Waiting
<1>9. job[v].phase \in {"high", "row"}
  BY <1>8 DEF MayHold, Id, PairLock, RowLock
<1> QED BY <1>2, <1>5, <1>9

(***************************************************************************)
(* A circle of waiting transactions has two ids of the same hash, for any  *)
(* number of calls, any pairs and batches, any order of ids and any hash.  *)
(***************************************************************************)
THEOREM NoCircle == LinkWritesSpec => []NoCircularWait
BY LinkNoCircle, LinkInvariance, PTL

(***************************************************************************)
(* Links, locks and link jobs are well typed.                              *)
(***************************************************************************)
THEOREM LinkTypeCorrect == LinkWritesSpec => []LinkWritesTypeOK
<1>1. LinkInv => LinkWritesTypeOK
  BY DEF LinkInv
<1> QED BY <1>1, LinkInitInv, LinkNextInv, PTL DEF LinkWritesSpec

(***************************************************************************)
(* The events of a case. The inductive invariant: an event that was stored *)
(* when the append of another began is no younger than it, and has a lower *)
(* number once the other has one; the stored numbers are fewer than the    *)
(* stored events, so that the next one is there to take.                   *)
(***************************************************************************)
HasNumber(e) == event[e].at \in {"numbered", "stored", "previous", "done"}
BornByNow == \A e \in Event : event[e].at # "none" => event[e].born <= clock
OverEarlier ==
  \A p \in over : /\ p[1] \in StoredEvents /\ event[p[2]].at # "none"
                  /\ event[p[1]].born <= event[p[2]].born
                  /\ HasNumber(p[2]) => event[p[1]].no < event[p[2]].no
FewNumbers ==
  /\ \A e \in StoredEvents : event[e].no < Cardinality(StoredEvents)
  /\ \A e \in Event : event[e].at = "numbered" => event[e].no <= Cardinality(StoredEvents)
CaseEventsInv == CaseEventsTypeOK /\ BornByNow /\ OverEarlier /\ FewNumbers

LEMMA StoredFinite ==
  /\ IsFiniteSet(StoredEvents) /\ Cardinality(StoredEvents) \in Nat /\ Cardinality(Event) \in Nat
  /\ Cardinality(StoredEvents) <= Cardinality(Event)
  /\ \A e \in Event \ StoredEvents : Cardinality(StoredEvents) < Cardinality(Event)
<1>1. StoredEvents \in SUBSET Event /\ IsFiniteSet(Event)
  BY EventAssumption DEF StoredEvents
<1>2. IsFiniteSet(StoredEvents) /\ Cardinality(StoredEvents) <= Cardinality(Event)
      /\ (Cardinality(Event) = Cardinality(StoredEvents) => Event = StoredEvents)
  BY <1>1, FS_Subset
<1>3. Cardinality(StoredEvents) \in Nat /\ Cardinality(Event) \in Nat
  BY <1>1, <1>2, FS_CardinalityType
<1> QED BY <1>1, <1>2, <1>3

(***************************************************************************)
(* MAX(sequence_no) + 1: a number above those of all stored events.        *)
(***************************************************************************)
LEMMA NextAbove ==
  ASSUME CaseEventsTypeOK, FewNumbers
  PROVE  /\ NextNumber \in 0..Cardinality(Event) /\ NextNumber <= Cardinality(StoredEvents)
         /\ \A f \in StoredEvents : event[f].no < NextNumber
<1> DEFINE F == StoredEvents
           Fits(n) == IF F = {} THEN n = 0 ELSE /\ \A f \in F : event[f].no < n
                                                /\ \E f \in F : event[f].no = n - 1
           K == {n \in 0..Cardinality(F) : \A f \in F : event[f].no < n}
<1>1. /\ \A f \in F : event[f].no \in Nat /\ event[f].no < Cardinality(F)
      /\ Cardinality(F) \in Nat /\ Cardinality(Event) \in Nat /\ Cardinality(F) <= Cardinality(Event)
  BY StoredFinite DEF CaseEventsTypeOK, FewNumbers, StoredEvents, EventState
<1> HIDE DEF F
<1>2. PICK m \in K : \A k \in K : m <= k
  <2>1. Cardinality(F) \in K /\ K \in SUBSET Nat
    BY <1>1
  <2> QED BY <2>1, LeastNumber
<1>3. Fits(m) /\ m \in 0..Cardinality(Event)
  <2>1. m \in 0..Cardinality(F) /\ \A f \in F : event[f].no < m
    OBVIOUS
  <2>2. CASE F = {}
    <3>1. 0 \in K
      BY <1>1, <2>2
    <3> QED BY <1>1, <1>2, <2>1, <2>2, <3>1
  <2>3. CASE F # {}
    <3>1. m - 1 \in 0..Cardinality(F)
      BY <1>1, <2>1, <2>3
    <3>2. ASSUME \A f \in F : event[f].no # m - 1 PROVE FALSE
      <4>1. \A f \in F : event[f].no < m - 1
        BY <1>1, <2>1, <3>1, <3>2
      <4>2. m - 1 \in K
        BY <3>1, <4>1
      <4> QED BY <1>2, <2>1, <4>2
    <3> QED BY <1>1, <2>1, <2>3, <3>2
  <2> QED BY <2>2, <2>3
<1>4. NextNumber = CHOOSE n \in 0..Cardinality(Event) : Fits(n)
  BY DEF NextNumber, F
<1>5. NextNumber \in 0..Cardinality(Event) /\ Fits(NextNumber)
  <2> HIDE DEF Fits
  <2> QED BY <1>3, <1>4
<1>6. CASE F = {}
  BY <1>1, <1>5, <1>6 DEF F
<1>7. CASE F # {}
  <2>1. PICK f \in F : event[f].no = NextNumber - 1
    BY <1>5, <1>7
  <2>2. NextNumber <= Cardinality(F)
    BY <1>1, <1>5, <2>1
  <2> QED BY <1>5, <1>7, <2>2 DEF F
<1> QED BY <1>6, <1>7

LEMMA CaseEventsInitInv == CaseEventsInit => CaseEventsInv
<1> SUFFICES ASSUME CaseEventsInit PROVE CaseEventsInv
  OBVIOUS
<1>1. StoredEvents = {} /\ [at |-> "none", born |-> 0, no |-> 0] \in EventState
  BY StoredFinite, EventAssumption DEF CaseEventsInit, StoredEvents, EventState, EventPhase
<1>2. CaseEventsTypeOK
  BY <1>1, EventAssumption DEF CaseEventsInit, CaseEventsTypeOK
<1> QED BY <1>1, <1>2 DEF CaseEventsInit, CaseEventsInv, BornByNow, OverEarlier, FewNumbers

\* a step of one call to a phase
LEMMA EventMoved ==
  ASSUME CaseEventsTypeOK, NEW e \in Event, NEW at \in EventPhase, ToPhase(e, at)
  PROVE  /\ event' \in [Event -> EventState]
         /\ event'[e].at = at /\ event'[e].born = event[e].born /\ event'[e].no = event[e].no
         /\ \A f \in Event : f # e => event'[f] = event[f]
BY DEF CaseEventsTypeOK, EventState, ToPhase

LEMMA NumberedState ==
  ASSUME NEW s \in EventState, NEW n \in 0..Cardinality(Event)
  PROVE  LET r == [s EXCEPT !.at = "numbered", !.no = n]
         IN  r \in EventState /\ r.at = "numbered" /\ r.born = s.born /\ r.no = n
BY DEF EventState, EventPhase

LEMMA CaseEventsNextInv == CaseEventsInv /\ [CaseEventsNext]_ceVars => CaseEventsInv'
<1> SUFFICES ASSUME CaseEventsInv, [CaseEventsNext]_ceVars PROVE CaseEventsInv'
  OBVIOUS
<1>0. /\ CaseEventsTypeOK /\ BornByNow /\ OverEarlier /\ FewNumbers
      /\ \A e \in Event : /\ event[e].born \in 0..MaxClock /\ event[e].no \in Nat /\ event[e].at \in EventPhase
      /\ clock \in 0..MaxClock /\ MaxClock \in Nat
      /\ \A p \in over : p[1] \in Event /\ p[2] \in Event
  <2>1. CaseEventsTypeOK /\ BornByNow /\ OverEarlier /\ FewNumbers
    BY DEF CaseEventsInv
  <2> QED BY <2>1, StoredFinite, EventAssumption DEF CaseEventsTypeOK, EventState
<1>1. CASE Tick
  <2>1. clock' \in 0..MaxClock /\ clock <= clock' /\ UNCHANGED <<event, edge, over>>
    BY <1>0, <1>1 DEF Tick
  <2>2. StoredEvents' = StoredEvents
    BY <2>1 DEF StoredEvents
  <2> QED BY <1>0, <2>1, <2>2
          DEF CaseEventsInv, CaseEventsTypeOK, BornByNow, OverEarlier, FewNumbers, HasNumber
<1>2. ASSUME NEW e \in Event, BeginAppend(e) PROVE CaseEventsInv'
  <2>1. /\ event[e].at = "none" /\ event' \in [Event -> EventState]
        /\ event'[e].at = "begun" /\ event'[e].born = clock
        /\ \A f \in Event : f # e => event'[f] = event[f]
        /\ over' = over \cup {<<f, e>> : f \in StoredEvents} /\ UNCHANGED <<clock, edge>>
    BY <1>0, <1>2, StoredFinite DEF BeginAppend, CaseEventsTypeOK, EventState, EventPhase
  <2>2. StoredEvents' = StoredEvents /\ e \notin StoredEvents
    BY <2>1 DEF StoredEvents
  <2>3. \A f \in StoredEvents : f \in Event /\ event'[f] = event[f] /\ event[f].born <= clock
    BY <1>0, <2>1, <2>2 DEF StoredEvents, BornByNow
  <2>4. CaseEventsTypeOK'
    BY <1>0, <2>1, <2>3 DEF CaseEventsTypeOK
  <2>5. BornByNow' /\ FewNumbers'
    BY <1>0, <2>1, <2>2, <2>3 DEF BornByNow, FewNumbers
  <2>6. OverEarlier'
    <3> SUFFICES ASSUME NEW p \in over'
                 PROVE  /\ p[1] \in StoredEvents /\ event'[p[2]].at # "none"
                        /\ event'[p[1]].born <= event'[p[2]].born
                        /\ HasNumber(p[2])' => event'[p[1]].no < event'[p[2]].no
      BY <2>2 DEF OverEarlier
    <3>1. CASE p \in over
      <4>1. p[2] # e /\ p[1] # e
        BY <1>0, <2>1, <2>2, <3>1 DEF OverEarlier
      <4> QED BY <1>0, <2>1, <3>1, <4>1 DEF OverEarlier, HasNumber
    <3>2. CASE p \notin over
      <4>1. p[1] \in StoredEvents /\ p[2] = e
        BY <2>1, <3>2
      <4> QED BY <2>1, <2>3, <4>1 DEF HasNumber
    <3> QED BY <3>1, <3>2
  <2> QED BY <2>4, <2>5, <2>6 DEF CaseEventsInv
<1>3. ASSUME NEW e \in Event, ReadNumber(e) PROVE CaseEventsInv'
  <2>0. /\ NextNumber \in 0..Cardinality(Event) /\ NextNumber <= Cardinality(StoredEvents)
        /\ \A f \in StoredEvents : event[f].no < NextNumber
    BY <1>0, NextAbove
  <2> DEFINE n == NextNumber
  <2> HIDE DEF n
  <2>1. /\ event[e].at = "begun" /\ event' \in [Event -> EventState]
        /\ event'[e].at = "numbered" /\ event'[e].born = event[e].born /\ event'[e].no = n
        /\ \A f \in Event : f # e => event'[f] = event[f]
        /\ UNCHANGED <<clock, edge, over>>
    <3>1. event' = [event EXCEPT ![e] =
                     [@ EXCEPT !.at = "numbered", !.no = n]] /\ n \in 0..Cardinality(Event)
      BY <1>3, <2>0 DEF ReadNumber, n
    <3>2. event[e] \in EventState
      BY <1>0 DEF CaseEventsTypeOK
    <3>3. event' = [event EXCEPT ![e] = [event[e] EXCEPT !.at = "numbered", !.no = n]]
      BY <1>0, <3>1 DEF CaseEventsTypeOK
    <3> DEFINE r == [event[e] EXCEPT !.at = "numbered", !.no = n]
    <3>4. r \in EventState /\ r.at = "numbered" /\ r.born = event[e].born /\ r.no = n
      BY <3>1, <3>2, NumberedState, Zenon
    <3> HIDE DEF r
    <3>5. event' = [event EXCEPT ![e] = r]
      BY <3>3 DEF r
    <3> QED BY <1>0, <1>3, <3>4, <3>5 DEF ReadNumber, CaseEventsTypeOK
  <2>2. StoredEvents' = StoredEvents /\ e \notin StoredEvents
    BY <2>1 DEF StoredEvents
  <2>3. CaseEventsTypeOK' /\ BornByNow' /\ FewNumbers'
    BY <1>0, <2>0, <2>1, <2>2 DEF CaseEventsTypeOK, BornByNow, FewNumbers, StoredEvents, n
  <2>4. OverEarlier'
    BY <1>0, <2>0, <2>1, <2>2 DEF OverEarlier, HasNumber, n
  <2> QED BY <2>3, <2>4 DEF CaseEventsInv
<1>4. ASSUME NEW e \in Event, CommitEvent(e) PROVE CaseEventsInv'
  <2>1. /\ event[e].at = "numbered" /\ event' \in [Event -> EventState]
        /\ event'[e].at \in {"stored", "done"} /\ event'[e].born = event[e].born /\ event'[e].no = event[e].no
        /\ \A f \in Event : f # e => event'[f] = event[f]
        /\ UNCHANGED <<clock, edge, over>>
    BY <1>0, <1>4, EventMoved DEF CommitEvent, EventPhase
  <2>2. StoredEvents' = StoredEvents \cup {e} /\ e \notin StoredEvents
    BY <2>1 DEF StoredEvents
  <2>3. Cardinality(StoredEvents') = Cardinality(StoredEvents) + 1 /\ Cardinality(StoredEvents) \in Nat
    BY <2>2, StoredFinite, FS_AddElement
  <2>4. CaseEventsTypeOK' /\ BornByNow'
    BY <1>0, <2>1 DEF CaseEventsTypeOK, BornByNow
  <2>5. FewNumbers'
    <3>1. \A f \in StoredEvents' : event'[f].no < Cardinality(StoredEvents')
      BY <1>0, <2>1, <2>2, <2>3 DEF FewNumbers, StoredEvents
    <3>2. \A f \in Event : event'[f].at = "numbered" => event'[f].no <= Cardinality(StoredEvents')
      BY <1>0, <2>1, <2>3 DEF FewNumbers
    <3> QED BY <3>1, <3>2 DEF FewNumbers
  <2>6. OverEarlier'
    BY <1>0, <2>1, <2>2 DEF OverEarlier, HasNumber
  <2> QED BY <2>4, <2>5, <2>6 DEF CaseEventsInv
<1>5. ASSUME NEW e \in Event, AppendFails(e) PROVE CaseEventsInv'
  <2>1. /\ event[e].at \in {"begun", "numbered"} /\ event' \in [Event -> EventState]
        /\ event'[e].at = "failed" /\ event'[e].born = event[e].born /\ event'[e].no = event[e].no
        /\ \A f \in Event : f # e => event'[f] = event[f]
        /\ UNCHANGED <<clock, edge, over>>
    BY <1>0, <1>5, EventMoved DEF AppendFails, EventPhase
  <2>2. StoredEvents' = StoredEvents
    BY <2>1 DEF StoredEvents
  <2> QED BY <1>0, <2>1, <2>2
          DEF CaseEventsInv, CaseEventsTypeOK, BornByNow, OverEarlier, FewNumbers, HasNumber, StoredEvents
<1>6. ASSUME NEW e \in Event, AddPreceding(e) \/ AddResolved(e) \/ RecordingFails(e) PROVE CaseEventsInv'
  <2>1. /\ event[e].at \in {"stored", "previous"} /\ event' \in [Event -> EventState]
        /\ event'[e].at \in {"previous", "done"} /\ event'[e].born = event[e].born /\ event'[e].no = event[e].no
        /\ \A f \in Event : f # e => event'[f] = event[f]
        /\ UNCHANGED <<clock, over>>
    BY <1>0, <1>6, EventMoved DEF AddPreceding, AddResolved, RecordingFails, EventPhase
  <2>2. StoredEvents' = StoredEvents
    BY <2>1 DEF StoredEvents
  <2>3. edge' \subseteq Event \X Event \X EdgeType
    <3>1. edge \subseteq Event \X Event \X EdgeType /\ \A f \in Event : Seen(f) \subseteq Event
      BY <1>0 DEF CaseEventsTypeOK, Seen, StoredEvents
    <3> QED BY <1>6, <3>1 DEF AddPreceding, AddResolved, RecordingFails, EdgeType, ErrorsOf
  <2> QED BY <1>0, <2>1, <2>2, <2>3
          DEF CaseEventsInv, CaseEventsTypeOK, BornByNow, OverEarlier, FewNumbers, HasNumber, StoredEvents
<1>7. CASE UNCHANGED ceVars
  BY <1>0, <1>7 DEF ceVars, CaseEventsInv, CaseEventsTypeOK, BornByNow, OverEarlier, FewNumbers, HasNumber,
                    StoredEvents
<1> QED BY <1>1, <1>2, <1>3, <1>4, <1>5, <1>6, <1>7 DEF CaseEventsNext

(***************************************************************************)
(* For any number of events, calls and readings of the clock, however the  *)
(* appends interleave and fail: what was stored when an append began is    *)
(* listed before what it appends (CaseEventStore.js:51).                   *)
(***************************************************************************)
THEOREM OrderKept == CaseEventsSpec => []ListedInOrder
<1>1. CaseEventsInv => ListedInOrder
  <2> SUFFICES ASSUME CaseEventsInv, NEW e \in StoredEvents, NEW f \in StoredEvents, <<e, f>> \in over
               PROVE  ~ListedUpTo(f, e)
    BY DEF ListedInOrder
  <2>1. event[e].born <= event[f].born /\ event[e].no < event[f].no
    BY DEF CaseEventsInv, OverEarlier, HasNumber, StoredEvents
  <2>2. event[e].born \in Int /\ event[f].born \in Int /\ event[e].no \in Int /\ event[f].no \in Int
    BY EventAssumption, StoredFinite DEF CaseEventsInv, CaseEventsTypeOK, EventState, StoredEvents
  <2> QED BY <2>1, <2>2 DEF ListedUpTo
<1> QED BY <1>1, CaseEventsInitInv, CaseEventsNextInv, PTL DEF CaseEventsSpec

(***************************************************************************)
(* Events and their edges are well typed.                                  *)
(***************************************************************************)
THEOREM CaseEventsTypeCorrect == CaseEventsSpec => []CaseEventsTypeOK
<1>1. CaseEventsInv => CaseEventsTypeOK
  BY DEF CaseEventsInv
<1> QED BY <1>1, CaseEventsInitInv, CaseEventsNextInv, PTL DEF CaseEventsSpec

(***************************************************************************)
(* The history of a case. The inductive invariant: what the walk from a    *)
(* root has visited or queued is reached from it, contains it, and is      *)
(* closed under the links of what has been visited; the roots done with    *)
(* have their chains.                                                      *)
(***************************************************************************)
EachOnce(s) == \A i, j \in 1..Len(s) : s[i] = s[j] => i = j
TaleOf(r) == Reached(r) \cap story.timeline
ToVisit == story.visited \cup Range(story.queue)
WalkedFrom == Roots(story.links) \ (story.roots \cup {story.root})

HistoryShape(D) ==
  [at : StoryPhase, timeline : SUBSET Story, outcome : [Story -> Outcome], seen : SUBSET Event,
   dag : {D}, links : SUBSET (Story \X Story), roots : SUBSET Story, root : Story \cup {NoStory},
   queue : Seq(Story), visited : SUBSET Story, chain : Seq(Story),
   chains : SUBSET (Story \X Seq(Story))]
HistoryShaped == story \in HistoryShape(story.dag)
BeforeWalk ==
  story.at \in {"idle", "timeline", "events", "edges"} =>
    story.links = {} /\ story.roots = {} /\ story.root = NoStory /\ story.chains = {}
AfterWalk == story.at = "done" => story.roots = {} /\ story.root = NoStory
RootsLeft == story.roots \subseteq Roots(story.links)
WalkClosed ==
  story.root # NoStory =>
    /\ story.at = "walking" /\ story.root \in Roots(story.links) \ story.roots
    /\ story.root \in ToVisit /\ ToVisit \subseteq Reached(story.root)
    /\ \A x \in story.links : x[1] \in story.visited => x[2] \in ToVisit
    /\ Range(story.chain) = story.visited \cap story.timeline /\ EachOnce(story.chain)
ChainsWritten ==
  /\ \A c \in story.chains : /\ c[1] \in WalkedFrom /\ Range(c[2]) = TaleOf(c[1])
                             /\ EachOnce(c[2]) /\ c[2] # <<>>
  /\ \A r \in WalkedFrom : TaleOf(r) # {} => \E c \in story.chains : c[1] = r
  /\ \A c, d \in story.chains : c[1] = d[1] => c = d
HistoryInv ==
  HistoryShaped /\ BeforeWalk /\ AfterWalk /\ RootsLeft /\ WalkClosed /\ ChainsWritten

----------------------------------------------------------------------------
LEMMA RangeOfTail ==
  ASSUME NEW S, NEW s \in Seq(S), s # <<>>
  PROVE  Range(s) = {Head(s)} \cup Range(Tail(s)) /\ Head(s) \in S /\ Tail(s) \in Seq(S)
<1>1. /\ Tail(s) \in Seq(S) /\ Len(Tail(s)) = Len(s) - 1 /\ Head(s) \in S /\ Head(s) = s[1]
      /\ \A i \in 1..Len(Tail(s)) : Tail(s)[i] = s[i + 1]
  BY HeadTailProperties
<1>2. Range(s) = {s[i] : i \in 1..Len(s)} /\ Range(Tail(s)) = {Tail(s)[i] : i \in 1..Len(Tail(s))}
  BY <1>1, RangeEquality
<1>3. Len(s) \in Nat /\ Len(s) >= 1
  BY LenProperties, EmptySeq
<1>4. ASSUME NEW i \in 1..Len(s) PROVE s[i] \in {Head(s)} \cup Range(Tail(s))
  <2>1. CASE i = 1
    BY <1>1, <2>1
  <2>2. CASE i # 1
    <3>1. i - 1 \in 1..Len(Tail(s)) /\ Tail(s)[i - 1] = s[i]
      BY <1>1, <1>3, <2>2
    <3> QED BY <1>2, <3>1
  <2> QED BY <2>1, <2>2
<1>5. ASSUME NEW i \in 1..Len(Tail(s)) PROVE Tail(s)[i] \in Range(s)
  BY <1>1, <1>2, <1>3
<1>6. Head(s) \in Range(s)
  BY <1>1, <1>2, <1>3
<1> QED BY <1>1, <1>2, <1>4, <1>5, <1>6

LEMMA RangeOfAppend ==
  ASSUME NEW S, NEW s \in Seq(S), NEW e \in S
  PROVE  /\ Append(s, e) \in Seq(S) /\ Append(s, e) # <<>>
         /\ Range(Append(s, e)) = Range(s) \cup {e}
         /\ EachOnce(s) /\ e \notin Range(s) => EachOnce(Append(s, e))
<1> DEFINE t == Append(s, e)
<1>1. /\ t \in Seq(S) /\ t # <<>> /\ Len(t) = Len(s) + 1 /\ t[Len(s) + 1] = e
      /\ \A i \in 1..Len(s) : t[i] = s[i]
  BY AppendProperties
<1>2. Len(s) \in Nat
  BY LenProperties
<1>3. Range(s) = {s[i] : i \in 1..Len(s)} /\ Range(t) = {t[i] : i \in 1..Len(t)}
  BY <1>1, RangeEquality
<1> HIDE DEF t
<1>4. \A i \in 1..Len(t) : i \in 1..Len(s) \/ i = Len(s) + 1
  BY <1>1, <1>2
<1>5. \A i \in 1..Len(s) : i \in 1..Len(t)
  BY <1>1, <1>2
<1>6. Len(s) + 1 \in 1..Len(t)
  BY <1>1, <1>2
<1>7. Range(t) = Range(s) \cup {e}
  BY <1>1, <1>3, <1>4, <1>5, <1>6
<1>8. ASSUME EachOnce(s), e \notin Range(s) PROVE EachOnce(t)
  <2> SUFFICES ASSUME NEW i \in 1..Len(t), NEW j \in 1..Len(t), t[i] = t[j] PROVE i = j
    BY DEF EachOnce
  <2>1. \A k \in 1..Len(s) : s[k] # e
    BY <1>3, <1>8
  <2> QED BY <1>1, <1>4, <1>8, <2>1 DEF EachOnce
<1> QED BY <1>1, <1>7, <1>8 DEF t

LEMMA OnceCounted ==
  ASSUME NEW S, NEW s \in Seq(S), EachOnce(s)
  PROVE  Len(s) = Cardinality(Range(s))
<1>1. Len(s) \in Nat /\ DOMAIN s = 1..Len(s)
  BY LenProperties
<1>2. Range(s) = {s[i] : i \in 1..Len(s)}
  BY RangeEquality
<1>3. IsFiniteSet(1..Len(s)) /\ Cardinality(1..Len(s)) = Len(s)
  BY <1>1, FS_Interval
<1> DEFINE f == [i \in 1..Len(s) |-> s[i]]
<1>4. f \in Bijection(1..Len(s), Range(s))
  BY <1>1, <1>2 DEF EachOnce, Bijection, Injection, Surjection, IsInjective
<1> HIDE DEF f
<1>5. ExistsBijection(1..Len(s), Range(s))
  BY <1>4 DEF ExistsBijection
<1> QED BY <1>3, <1>5, FS_Bijection

\* the orders of a finite set
LEMMA OrderOfSet ==
  ASSUME NEW S, IsFiniteSet(S), NEW s \in SetToSeqs(S)
  PROVE  s \in Seq(S) /\ Range(s) = S
<1> DEFINE n == Cardinality(S)
<1>1. n \in Nat
  BY FS_CardinalityType
<1>2. s \in [1..n -> S] /\ \A i, j \in 1..n : i # j => s[i] # s[j]
  BY DEF SetToSeqs
<1>3. s \in Seq(S)
  BY <1>1, <1>2, IsASeq
<1>4. IsFiniteSet(1..n) /\ Cardinality(1..n) = n
  BY <1>1, FS_Interval
<1>5. s \in Injection(1..n, S)
  BY <1>2 DEF Injection, IsInjective
<1> HIDE DEF n
<1>6. s \in Surjection(1..n, S)
  BY <1>4, <1>5, FS_Injection DEF n
<1>7. Range(s) = S
  BY <1>2, <1>6 DEF Range, Surjection
<1> QED BY <1>3, <1>7

\* what is reached is the least closed set
LEMMA ReachedLeast ==
  ASSUME NEW r \in Story, story.links \subseteq Story \X Story
  PROVE  /\ r \in Reached(r) /\ Reached(r) \subseteq Story
         /\ \A x \in story.links : x[1] \in Reached(r) => x[2] \in Reached(r)
         /\ \A C \in SUBSET Story :
              r \in C /\ (\A x \in story.links : x[1] \in C => x[2] \in C) => Reached(r) \subseteq C
BY DEF Reached

LEMMA ReachedSame ==
  ASSUME NEW r, story'.links = story.links PROVE Reached(r)' = Reached(r)
BY DEF Reached
----------------------------------------------------------------------------
LEMMA HistoryInitInv == CaseHistoryInit => HistoryInv
<1> SUFFICES ASSUME CaseHistoryInit PROVE HistoryInv
  OBVIOUS
<1> DEFINE none == [f \in Story |-> "none"]
<1>0. story = [at |-> "idle", timeline |-> {}, outcome |-> none, seen |-> {}, dag |-> {},
               links |-> {}, roots |-> {}, root |-> NoStory, queue |-> <<>>,
               visited |-> {}, chain |-> <<>>, chains |-> {}]
  BY DEF CaseHistoryInit
<1>1. none \in [Story -> Outcome] /\ <<>> \in Seq(Story)
  BY EmptySeq DEF Outcome
<1> HIDE DEF none
<1>2. HistoryShaped
  BY <1>0, <1>1 DEF HistoryShaped, HistoryShape, StoryPhase
<1>3. /\ story.at = "idle" /\ story.links = {} /\ story.roots = {} /\ story.root = NoStory
      /\ story.chains = {}
  BY <1>0
<1>4. WalkedFrom = {}
  BY <1>3 DEF WalkedFrom, Roots
<1> QED BY <1>2, <1>3, <1>4
        DEF HistoryInv, BeforeWalk, AfterWalk, RootsLeft, WalkClosed, ChainsWritten

\* before the links are read nothing is to be walked
LEMMA HistoryEarly ==
  ASSUME HistoryInv, story.at \in {"idle", "timeline", "events", "edges"}, HistoryShaped',
         story'.at \in {"timeline", "events", "edges", "done"},
         story'.links = story.links, story'.roots = story.roots, story'.root = story.root,
         story'.chains = story.chains
  PROVE  HistoryInv'
<1>1. story'.links = {} /\ story'.roots = {} /\ story'.root = NoStory /\ story'.chains = {}
  BY DEF HistoryInv, BeforeWalk
<1>2. WalkedFrom' = {}
  BY <1>1 DEF WalkedFrom, Roots
<1> QED BY <1>1, <1>2 DEF HistoryInv, BeforeWalk, AfterWalk, RootsLeft, WalkClosed, ChainsWritten

LEMMA HistoryReads ==
  ASSUME HistoryInv, ReadTimeline \/ ReadEvents \/ ReadEdges \/ NothingFound
  PROVE  HistoryInv'
<1> DEFINE s == story
<1>0. s \in HistoryShape(s.dag)
  BY DEF HistoryInv, HistoryShaped
<1>1. CASE ReadTimeline
  <2>0. PICK T \in SUBSET Story : \E o \in [T -> Outcome] :
          story' = [story EXCEPT !.at = "timeline", !.timeline = T,
                      !.outcome = [f \in Story |-> IF f \in T THEN o[f] ELSE "none"]]
    BY <1>1 DEF ReadTimeline
  <2>1. PICK o \in [T -> Outcome] :
          story' = [story EXCEPT !.at = "timeline", !.timeline = T,
                      !.outcome = [f \in Story |-> IF f \in T THEN o[f] ELSE "none"]]
    BY <2>0
  <2> DEFINE p == [f \in Story |-> IF f \in T THEN o[f] ELSE "none"]
             r == [s EXCEPT !.at = "timeline", !.timeline = T, !.outcome = p]
  <2>2. p \in [Story -> Outcome]
    BY DEF Outcome
  <2> HIDE DEF p
  <2>3. /\ r \in HistoryShape(s.dag) /\ r.at = "timeline" /\ r.dag = s.dag /\ r.links = s.links
        /\ r.roots = s.roots /\ r.root = s.root /\ r.chains = s.chains
    BY <1>0, <2>2 DEF HistoryShape, StoryPhase
  <2>4. story' = r
    BY <2>1 DEF p
  <2> HIDE DEF r
  <2>5. HistoryShaped'
    BY <2>3, <2>4 DEF HistoryShaped, HistoryShape
  <2> QED BY <1>1, <2>3, <2>4, <2>5, HistoryEarly DEF ReadTimeline
<1>2. CASE ReadEvents
  <2>1. PICK E \in {{}, {e \in StoredEvents : Reader \in {Anyone, Author[e]}}} :
          story' = [story EXCEPT !.at = "events", !.seen = E]
    BY <1>2 DEF ReadEvents
  <2> DEFINE r == [s EXCEPT !.at = "events", !.seen = E]
  <2>2. E \subseteq Event
    BY DEF StoredEvents
  <2>3. /\ r \in HistoryShape(s.dag) /\ r.at = "events" /\ r.dag = s.dag /\ r.links = s.links
        /\ r.roots = s.roots /\ r.root = s.root /\ r.chains = s.chains
    BY <1>0, <2>2 DEF HistoryShape, StoryPhase
  <2>4. story' = r
    BY <2>1
  <2> HIDE DEF r
  <2>5. HistoryShaped'
    BY <2>3, <2>4 DEF HistoryShaped, HistoryShape
  <2> QED BY <1>2, <2>3, <2>4, <2>5, HistoryEarly DEF ReadEvents
<1>3. CASE ReadEdges
  <2>1. PICK E \in {{}, EdgesRead} : story' = [story EXCEPT !.at = "edges", !.dag = E]
    BY <1>3 DEF ReadEdges
  <2> DEFINE r == [s EXCEPT !.at = "edges", !.dag = E]
  <2>3. /\ r \in HistoryShape(E) /\ r.at = "edges" /\ r.dag = E /\ r.links = s.links
        /\ r.roots = s.roots /\ r.root = s.root /\ r.chains = s.chains
    BY <1>0 DEF HistoryShape, StoryPhase
  <2>4. story' = r
    BY <2>1
  <2> HIDE DEF r
  <2>5. HistoryShaped'
    BY <2>3, <2>4 DEF HistoryShaped, HistoryShape
  <2> QED BY <1>3, <2>3, <2>4, <2>5, HistoryEarly DEF ReadEdges
<1>4. CASE NothingFound
  <2> DEFINE r == [s EXCEPT !.at = "done"]
  <2>3. /\ r \in HistoryShape(s.dag) /\ r.at = "done" /\ r.dag = s.dag /\ r.links = s.links
        /\ r.roots = s.roots /\ r.root = s.root /\ r.chains = s.chains
    BY <1>0 DEF HistoryShape, StoryPhase
  <2>4. story' = r
    BY <1>4 DEF NothingFound
  <2> HIDE DEF r
  <2>5. HistoryShaped'
    BY <2>3, <2>4 DEF HistoryShaped, HistoryShape
  <2> QED BY <1>4, <2>3, <2>4, <2>5, HistoryEarly DEF NothingFound
<1> QED BY <1>1, <1>2, <1>3, <1>4

LEMMA HistoryReadLinks == ASSUME HistoryInv, ReadLinks PROVE HistoryInv'
<1> DEFINE s == story
<1>0. s \in HistoryShape(s.dag) /\ s.at = "edges" /\ s.chains = {} /\ s.root = NoStory
  BY DEF HistoryInv, HistoryShaped, ReadLinks, BeforeWalk
<1>1. PICK L \in SUBSET (Story \X Story) :
        story' = [story EXCEPT !.at = "walking", !.links = L, !.roots = Roots(L)]
  BY DEF ReadLinks
<1> DEFINE R == Roots(L)
           r == [s EXCEPT !.at = "walking", !.links = L, !.roots = R]
<1>2. R \subseteq Story
  BY DEF Roots
<1> HIDE DEF R
<1>3. /\ r \in HistoryShape(s.dag) /\ r.at = "walking" /\ r.dag = s.dag /\ r.links = L
      /\ r.roots = R /\ r.root = s.root /\ r.chains = s.chains
  BY <1>0, <1>2 DEF HistoryShape, StoryPhase
<1>4. story' = r
  BY <1>1 DEF R
<1> HIDE DEF r
<1>5. HistoryShaped'
  BY <1>3, <1>4 DEF HistoryShaped, HistoryShape
<1>6. WalkedFrom' = {} /\ RootsLeft'
  BY <1>3, <1>4 DEF WalkedFrom, RootsLeft, R
<1> QED BY <1>0, <1>3, <1>4, <1>5, <1>6
        DEF HistoryInv, BeforeWalk, AfterWalk, WalkClosed, ChainsWritten

\* the chains stay as they are while the same roots have been walked from
LEMMA ChainsStay ==
  ASSUME HistoryInv, story'.chains = story.chains, WalkedFrom' = WalkedFrom,
         story'.links = story.links, story'.timeline = story.timeline
  PROVE  ChainsWritten'
<1>1. \A r : TaleOf(r)' = TaleOf(r)
  BY ReachedSame DEF TaleOf
<1>2. ChainsWritten
  BY DEF HistoryInv
<1> QED BY <1>1, <1>2 DEF ChainsWritten

LEMMA HistoryWalkFrom == ASSUME HistoryInv, NEW f \in Story, WalkFrom(f) PROVE HistoryInv'
<1> DEFINE s == story
           R == s.roots \ {f}
           q == <<f>>
           e == <<>>
           r == [s EXCEPT !.roots = R, !.root = f, !.queue = q, !.visited = {}, !.chain = e]
<1>0. /\ s \in HistoryShape(s.dag) /\ s.at = "walking" /\ s.root = NoStory /\ f \in s.roots
      /\ RootsLeft
  BY DEF HistoryInv, HistoryShaped, WalkFrom
<1>1. q \in Seq(Story) /\ Range(q) = {f} /\ e \in Seq(Story) /\ Range(e) = {} /\ EachOnce(e)
  BY EmptySeq DEF Range, EachOnce
<1>2. R \subseteq Story /\ s.links \subseteq Story \X Story /\ s.roots \subseteq Story
  BY <1>0 DEF HistoryShape
<1> HIDE DEF q, e, R
<1>3. /\ r \in HistoryShape(s.dag) /\ r.at = "walking" /\ r.dag = s.dag /\ r.links = s.links
      /\ r.roots = R /\ r.root = f /\ r.chains = s.chains /\ r.queue = q /\ r.visited = {}
      /\ r.chain = e /\ r.timeline = s.timeline
  BY <1>0, <1>1, <1>2 DEF HistoryShape, StoryPhase
<1>4. story' = r
  BY DEF WalkFrom, R, q, e
<1> HIDE DEF r
<1>5. HistoryShaped'
  BY <1>3, <1>4 DEF HistoryShaped, HistoryShape
<1>6. WalkedFrom' = WalkedFrom /\ RootsLeft' /\ f \in Roots(s.links) \ R
  <2>1. NoStory \notin Roots(s.links)
    BY <1>2, StoryAssumption DEF Roots
  <2> QED BY <1>0, <1>3, <1>4, <2>1 DEF WalkedFrom, RootsLeft, R
<1>7. WalkClosed'
  <2>1. ToVisit' = {f}
    BY <1>1, <1>3, <1>4 DEF ToVisit
  <2>2. f \in Reached(f)'
    BY <1>2, <1>3, <1>4, ReachedLeast, ReachedSame
  <2> QED BY <1>1, <1>3, <1>4, <1>6, <2>1, <2>2 DEF WalkClosed
<1>8. ChainsWritten'
  BY <1>3, <1>4, <1>6, ChainsStay
<1> QED BY <1>3, <1>4, <1>5, <1>6, <1>7, <1>8 DEF HistoryInv, BeforeWalk, AfterWalk

LEMMA HistoryVisit == ASSUME HistoryInv, Visit PROVE HistoryInv'
<1> DEFINE s == story
           f == Head(s.queue)
           rest == Tail(s.queue)
           onto(q, V, c) == [s EXCEPT !.queue = q, !.visited = V, !.chain = c]
<1>0. /\ s \in HistoryShape(s.dag) /\ s.root # NoStory /\ s.queue # <<>> /\ s.at = "walking"
      /\ WalkClosed /\ RootsLeft
  BY DEF HistoryInv, HistoryShaped, Visit, WalkClosed
<1>1. /\ s.queue \in Seq(Story) /\ s.visited \subseteq Story /\ s.chain \in Seq(Story)
      /\ s.links \subseteq Story \X Story /\ s.root \in Story /\ s.timeline \subseteq Story
  BY <1>0 DEF HistoryShape
<1>2. Range(s.queue) = {f} \cup Range(rest) /\ f \in Story /\ rest \in Seq(Story)
  BY <1>0, <1>1, RangeOfTail
<1>3. ASSUME NEW q \in Seq(Story), NEW V \in SUBSET Story, NEW c \in Seq(Story),
             story' = onto(q, V, c),
             ToVisit \subseteq V \cup Range(q), V \cup Range(q) \subseteq Reached(s.root),
             \A x \in s.links : x[1] \in V => x[2] \in V \cup Range(q),
             Range(c) = V \cap s.timeline, EachOnce(c)
      PROVE  HistoryInv'
  <2> DEFINE r == onto(q, V, c)
  <2>1. /\ r \in HistoryShape(s.dag) /\ r.at = "walking" /\ r.dag = s.dag /\ r.links = s.links
        /\ r.roots = s.roots /\ r.root = s.root /\ r.chains = s.chains /\ r.queue = q /\ r.visited = V
        /\ r.chain = c /\ r.timeline = s.timeline
    BY <1>0 DEF HistoryShape, StoryPhase
  <2>2. story' = r
    BY <1>3
  <2> HIDE DEF r, onto
  <2>3. HistoryShaped'
    BY <2>1, <2>2 DEF HistoryShaped, HistoryShape
  <2>4. WalkedFrom' = WalkedFrom /\ RootsLeft'
    BY <1>0, <2>1, <2>2 DEF WalkedFrom, RootsLeft
  <2>5. ToVisit' = V \cup Range(q) /\ Reached(s.root)' = Reached(s.root)
    BY <2>1, <2>2, ReachedSame DEF ToVisit
  <2>6. WalkClosed'
    BY <1>0, <1>3, <2>1, <2>2, <2>5 DEF WalkClosed
  <2>7. ChainsWritten'
    BY <2>1, <2>2, <2>4, ChainsStay
  <2> QED BY <1>0, <2>1, <2>2, <2>3, <2>4, <2>6, <2>7 DEF HistoryInv, BeforeWalk, AfterWalk
<1>4. f \in Reached(s.root) /\ ToVisit \subseteq Reached(s.root) /\ ToVisit = s.visited \cup {f} \cup Range(rest)
  BY <1>0, <1>2 DEF WalkClosed, ToVisit
<1>5. CASE f \in s.visited
  <2>1. story' = onto(rest, s.visited, s.chain)
    <3>1. story' = [s EXCEPT !.queue = rest]
      BY <1>5 DEF Visit
    <3> QED BY <1>0, <3>1 DEF HistoryShape
  <2>2. ToVisit = s.visited \cup Range(rest)
    BY <1>4, <1>5
  <2> HIDE DEF f, rest, onto
  <2>3. \A x \in s.links : x[1] \in s.visited => x[2] \in s.visited \cup Range(rest)
    BY <1>0, <2>2 DEF WalkClosed
  <2>4. Range(s.chain) = s.visited \cap s.timeline /\ EachOnce(s.chain)
    BY <1>0 DEF WalkClosed
  <2>5. s.visited \in SUBSET Story
    BY <1>1
  <2> QED BY <1>1, <1>2, <1>3, <1>4, <2>1, <2>2, <2>3, <2>4, <2>5
<1>6. CASE f \notin s.visited
  <2>1. PICK onward \in SetToSeqs(Onward(f)) :
          story' = [s EXCEPT !.queue = rest \o onward, !.visited = s.visited \cup {f},
                             !.chain = IF f \in s.timeline THEN Append(s.chain, f) ELSE s.chain]
    BY <1>6 DEF Visit
  <2> DEFINE q == rest \o onward
             V == s.visited \cup {f}
             c == IF f \in s.timeline THEN Append(s.chain, f) ELSE s.chain
  <2>2. Onward(f) \subseteq Story /\ IsFiniteSet(Onward(f))
    BY StoryAssumption, FS_Subset DEF Onward
  <2>3. onward \in Seq(Onward(f)) /\ Range(onward) = Onward(f)
    BY <2>2, OrderOfSet
  <2>4. onward \in Seq(Story)
    BY <2>2, <2>3, SeqMonotonic
  <2>5. q \in Seq(Story) /\ Range(q) = Range(rest) \cup Onward(f)
    <3>1. rest \in Seq(Story)
      BY <1>2
    <3> HIDE DEF rest
    <3>2. rest \o onward \in Seq(Story) /\ Range(rest \o onward) = Range(rest) \cup Range(onward)
      BY <2>4, <3>1, RangeConcatenation, ConcatProperties
    <3> QED BY <2>3, <3>2
  <2>6. c \in Seq(Story) /\ Range(c) = V \cap s.timeline /\ EachOnce(c)
    <3>1. Range(s.chain) = s.visited \cap s.timeline /\ EachOnce(s.chain)
      BY <1>0 DEF WalkClosed
    <3>2. CASE f \in s.timeline
      BY <1>1, <1>2, <1>6, <3>1, <3>2, RangeOfAppend
    <3>3. CASE f \notin s.timeline
      BY <1>1, <3>1, <3>3
    <3> QED BY <3>2, <3>3
  <2>7. Onward(f) = {g \in Story \ V : <<f, g>> \in s.links}
    BY DEF Onward
  <2>8. \A x \in s.links : x = <<x[1], x[2]>> /\ x[2] \in Story
    BY <1>1
  <2>9. \A x \in s.links : x[1] \in V => x[2] \in V \cup Range(q)
    <3> SUFFICES ASSUME NEW x \in s.links, x[1] \in V PROVE x[2] \in V \cup Range(q)
      OBVIOUS
    <3>1. CASE x[1] = f
      BY <2>5, <2>7, <2>8, <3>1
    <3>2. CASE x[1] \in s.visited
      <4>1. x[2] \in ToVisit
        BY <1>0, <3>2 DEF WalkClosed
      <4> QED BY <1>4, <2>5, <4>1
    <3> QED BY <3>1, <3>2
  <2>10. V \cup Range(q) \subseteq Reached(s.root)
    <3>1. ASSUME NEW g \in Onward(f) PROVE g \in Reached(s.root)
      <4>1. <<f, g>> \in s.links
        BY <2>7
      <4>2. \A x \in s.links : x[1] \in Reached(s.root) => x[2] \in Reached(s.root)
        BY <1>1, ReachedLeast
      <4>3. <<f, g>>[1] = f /\ <<f, g>>[2] = g
        OBVIOUS
      <4> HIDE DEF f
      <4> QED BY <1>4, <4>1, <4>2, <4>3
    <3> QED BY <1>4, <2>5, <3>1
  <2>11. ToVisit \subseteq V \cup Range(q)
    BY <1>4, <2>5
  <2>12. V \in SUBSET Story
    BY <1>1, <1>2
  <2>13. story' = onto(q, V, c)
    BY <2>1
  <2> HIDE DEF q, V, c, onto
  <2> QED BY <1>3, <2>5, <2>6, <2>9, <2>10, <2>11, <2>12, <2>13
<1> QED BY <1>5, <1>6

LEMMA HistoryEndChain == ASSUME HistoryInv, EndChain PROVE HistoryInv'
<1> DEFINE s == story
           e == <<>>
           C == IF s.chain = <<>> THEN s.chains ELSE s.chains \cup {<<s.root, s.chain>>}
           r == [s EXCEPT !.root = NoStory, !.visited = {}, !.chain = e, !.chains = C]
<1>0. /\ s \in HistoryShape(s.dag) /\ s.root # NoStory /\ s.queue = <<>> /\ s.at = "walking"
      /\ WalkClosed /\ RootsLeft /\ ChainsWritten
  BY DEF HistoryInv, HistoryShaped, EndChain, WalkClosed
<1>1. /\ s.visited \subseteq Story /\ s.chain \in Seq(Story) /\ s.roots \subseteq Story
      /\ s.links \subseteq Story \X Story /\ s.root \in Story /\ s.chains \subseteq Story \X Seq(Story)
  BY <1>0 DEF HistoryShape
<1>2. s.visited = Reached(s.root)
  <2>1. ToVisit = s.visited
    BY <1>0 DEF ToVisit, Range
  <2>2. /\ s.root \in s.visited /\ s.visited \subseteq Reached(s.root)
        /\ \A x \in s.links : x[1] \in s.visited => x[2] \in s.visited
    BY <1>0, <2>1 DEF WalkClosed
  <2>3. s.visited \in SUBSET Story
    BY <1>1
  <2>4. ASSUME NEW D \in SUBSET Story, s.root \in D,
               \A x \in s.links : x[1] \in D => x[2] \in D
        PROVE  Reached(s.root) \subseteq D
    BY <1>1, <2>4, ReachedLeast
  <2>5. Reached(s.root) \subseteq s.visited
    BY <2>2, <2>3, <2>4
  <2> QED BY <2>2, <2>5
<1>3. Range(s.chain) = TaleOf(s.root) /\ EachOnce(s.chain)
  BY <1>0, <1>2 DEF WalkClosed, TaleOf
<1>4. s.chain = <<>> <=> TaleOf(s.root) = {}
  <2>1. Range(s.chain) = {s.chain[k] : k \in 1..Len(s.chain)} /\ Len(s.chain) \in Nat
    BY <1>1, RangeEquality, LenProperties
  <2>2. s.chain = <<>> <=> Len(s.chain) = 0
    BY <1>1, EmptySeq, LenProperties
  <2>3. Len(s.chain) # 0 => s.chain[1] \in Range(s.chain)
    BY <2>1
  <2>4. Len(s.chain) = 0 => Range(s.chain) = {}
    BY <2>1
  <2> QED BY <1>3, <2>2, <2>3, <2>4
<1>5. C \subseteq Story \X Seq(Story) /\ e \in Seq(Story)
  BY <1>1, EmptySeq
<1>6. /\ s.chains \subseteq C
      /\ \A c \in C : c \in s.chains \/ (c = <<s.root, s.chain>> /\ s.chain # <<>>)
      /\ s.chain # <<>> => <<s.root, s.chain>> \in C
  OBVIOUS
<1>7. story' = r
  BY DEF EndChain
<1> HIDE DEF C, e
<1>8. /\ r \in HistoryShape(s.dag) /\ r.at = "walking" /\ r.dag = s.dag /\ r.links = s.links
      /\ r.roots = s.roots /\ r.root = NoStory /\ r.chains = C /\ r.timeline = s.timeline
  BY <1>0, <1>5 DEF HistoryShape, StoryPhase
<1> HIDE DEF r
<1>9. HistoryShaped'
  BY <1>7, <1>8 DEF HistoryShaped, HistoryShape
<1>10. WalkedFrom' = WalkedFrom \cup {s.root} /\ s.root \notin WalkedFrom /\ RootsLeft'
  <2>1. NoStory \notin Roots(s.links) /\ s.root \in Roots(s.links) \ s.roots
    BY <1>0, <1>1, StoryAssumption DEF Roots, WalkClosed
  <2> QED BY <1>0, <1>7, <1>8, <2>1 DEF WalkedFrom, RootsLeft
<1>11. \A x : TaleOf(x)' = TaleOf(x)
  BY <1>7, <1>8, ReachedSame DEF TaleOf
<1>12. ChainsWritten'
  <2>1. \A c \in C : /\ c[1] \in WalkedFrom' /\ Range(c[2]) = TaleOf(c[1])
                     /\ EachOnce(c[2]) /\ c[2] # <<>>
    <3> SUFFICES ASSUME NEW c \in C
                 PROVE  /\ c[1] \in WalkedFrom' /\ Range(c[2]) = TaleOf(c[1])
                        /\ EachOnce(c[2]) /\ c[2] # <<>>
      OBVIOUS
    <3>1. CASE c \in s.chains
      BY <1>0, <1>10, <3>1 DEF ChainsWritten
    <3>2. CASE c = <<s.root, s.chain>> /\ s.chain # <<>>
      BY <1>3, <1>10, <3>2
    <3> QED BY <1>6, <3>1, <3>2
  <2>2. \A x \in WalkedFrom' : TaleOf(x) # {} => \E c \in C : c[1] = x
    <3> SUFFICES ASSUME NEW x \in WalkedFrom', TaleOf(x) # {} PROVE \E c \in C : c[1] = x
      OBVIOUS
    <3>1. CASE x \in WalkedFrom
      BY <1>0, <1>6, <3>1 DEF ChainsWritten
    <3>2. CASE x = s.root
      <4>1. <<s.root, s.chain>> \in C /\ <<s.root, s.chain>>[1] = s.root
        BY <1>4, <1>6, <3>2
      <4> QED BY <3>2, <4>1
    <3> QED BY <1>10, <3>1, <3>2
  <2>3. \A c, d \in C : c[1] = d[1] => c = d
    <3>1. \A c \in s.chains : c[1] # s.root
      BY <1>0, <1>10 DEF ChainsWritten
    <3>2. \A c, d \in s.chains : c[1] = d[1] => c = d
      BY <1>0 DEF ChainsWritten
    <3> QED BY <1>6, <3>1, <3>2
  <2>4. C = story'.chains
    BY <1>7, <1>8
  <2> QED BY <1>11, <2>1, <2>2, <2>3, <2>4 DEF ChainsWritten
<1> QED BY <1>7, <1>8, <1>9, <1>10, <1>12 DEF HistoryInv, BeforeWalk, AfterWalk, WalkClosed

LEMMA HistoryEndWalk == ASSUME HistoryInv, EndWalk PROVE HistoryInv'
<1> DEFINE s == story
           r == [s EXCEPT !.at = "done"]
<1>0. /\ s \in HistoryShape(s.dag) /\ s.at = "walking" /\ s.root = NoStory /\ s.roots = {}
      /\ RootsLeft
  BY DEF HistoryInv, HistoryShaped, EndWalk
<1>1. /\ r \in HistoryShape(s.dag) /\ r.at = "done" /\ r.dag = s.dag /\ r.links = s.links
      /\ r.roots = s.roots /\ r.root = s.root /\ r.chains = s.chains /\ r.timeline = s.timeline
  BY <1>0 DEF HistoryShape, StoryPhase
<1>2. story' = r
  BY DEF EndWalk
<1> HIDE DEF r
<1>3. HistoryShaped'
  BY <1>1, <1>2 DEF HistoryShaped, HistoryShape
<1>4. WalkedFrom' = WalkedFrom /\ RootsLeft'
  BY <1>0, <1>1, <1>2 DEF WalkedFrom, RootsLeft
<1>5. ChainsWritten'
  BY <1>1, <1>2, <1>4, ChainsStay
<1> QED BY <1>0, <1>1, <1>2, <1>3, <1>4, <1>5 DEF HistoryInv, BeforeWalk, AfterWalk, WalkClosed

LEMMA HistoryNextInv == HistoryInv /\ [CaseHistoryNext]_chVars => HistoryInv'
<1> SUFFICES ASSUME HistoryInv, [CaseHistoryNext]_chVars PROVE HistoryInv'
  OBVIOUS
<1>1. CASE UNCHANGED chVars
  <2>1. story' = story
    BY <1>1 DEF chVars
  <2>2. \A r : Reached(r)' = Reached(r) /\ TaleOf(r)' = TaleOf(r)
    BY <2>1 DEF Reached, TaleOf
  <2>3. ToVisit' = ToVisit /\ WalkedFrom' = WalkedFrom
    BY <2>1 DEF ToVisit, WalkedFrom
  <2>4. HistoryShaped' /\ BeforeWalk' /\ AfterWalk' /\ RootsLeft'
    BY <2>1 DEF HistoryInv, HistoryShaped, BeforeWalk, AfterWalk, RootsLeft
  <2>5. WalkClosed'
    BY <2>1, <2>2, <2>3 DEF HistoryInv, WalkClosed
  <2>6. ChainsWritten'
    BY <2>1, <2>2, <2>3 DEF HistoryInv, ChainsWritten
  <2> QED BY <2>4, <2>5, <2>6 DEF HistoryInv
<1> QED BY <1>1, HistoryReads, HistoryReadLinks, HistoryWalkFrom, HistoryVisit, HistoryEndChain,
           HistoryEndWalk DEF CaseHistoryNext

(***************************************************************************)
(* Every root has its one chain, of the fragments of the timeline that     *)
(* links lead to from it, and the unresolved branches are the open ones    *)
(* without a resolved story; for any fragments and links, with cycles or   *)
(* without, in whatever order the links are followed.                      *)
(***************************************************************************)
THEOREM ChainsFollow == CaseHistorySpec => []ChainsFollowLinks
<1>1. ASSUME HistoryInv PROVE ChainsFollowLinks
  <2> SUFFICES ASSUME story.at = "done" PROVE ChainsFollowLinks
    BY DEF ChainsFollowLinks
  <2> DEFINE R == {r \in Roots(story.links) : TaleOf(r) # {}}
  <2>0. /\ story.chains \subseteq Story \X Seq(Story) /\ story.links \subseteq Story \X Story
        /\ story.roots = {} /\ story.root = NoStory /\ ChainsWritten
    BY <1>1 DEF HistoryInv, HistoryShaped, HistoryShape, AfterWalk
  <2>1. WalkedFrom = Roots(story.links)
    BY <2>0, StoryAssumption DEF WalkedFrom, Roots
  <2>2. ASSUME NEW c \in story.chains
        PROVE  /\ c[1] \in R /\ Range(c[2]) = TaleOf(c[1])
               /\ Len(c[2]) = Cardinality(TaleOf(c[1]))
    <3>1. /\ c[1] \in Roots(story.links) /\ Range(c[2]) = TaleOf(c[1]) /\ EachOnce(c[2]) /\ c[2] # <<>>
          /\ c[2] \in Seq(Story)
      BY <2>0, <2>1 DEF ChainsWritten
    <3>2. Len(c[2]) = Cardinality(TaleOf(c[1]))
      BY <3>1, OnceCounted
    <3>3. Head(c[2]) \in Range(c[2])
      BY <3>1, RangeOfTail
    <3> QED BY <3>1, <3>2, <3>3
  <2>3. ASSUME NEW r \in R PROVE Cardinality({c \in story.chains : c[1] = r}) = 1
    <3>1. PICK c \in story.chains : c[1] = r
      BY <2>0, <2>1 DEF ChainsWritten
    <3>2. {d \in story.chains : d[1] = r} = {c}
      BY <2>0, <3>1 DEF ChainsWritten
    <3> QED BY <3>2, FS_Singleton
  <2>4. ASSUME NEW f \in story.timeline
        PROVE  f \in OpenBranches <=>
                 /\ story.outcome[f] = "open"
                 /\ \A r \in R : f \in TaleOf(r) => \A g \in TaleOf(r) : story.outcome[g] # "resolved"
    <3>1. f \in InResolvedChain <=>
            \E c \in story.chains : /\ f \in Range(c[2])
                                    /\ \E i \in DOMAIN c[2] : story.outcome[c[2][i]] = "resolved"
      BY DEF InResolvedChain
    <3>2. \A c \in story.chains : (\E i \in DOMAIN c[2] : story.outcome[c[2][i]] = "resolved")
                                    <=> \E g \in TaleOf(c[1]) : story.outcome[g] = "resolved"
      <4> SUFFICES ASSUME NEW c \in story.chains
                   PROVE  (\E i \in DOMAIN c[2] : story.outcome[c[2][i]] = "resolved")
                            <=> \E g \in Range(c[2]) : story.outcome[g] = "resolved"
        BY <2>2
      <4> QED BY DEF Range
    <3>3. \A r \in R : \E c \in story.chains : c[1] = r
      BY <2>0, <2>1 DEF ChainsWritten
    <3>4. f \in InResolvedChain <=>
            \E r \in R : f \in TaleOf(r) /\ \E g \in TaleOf(r) : story.outcome[g] = "resolved"
      BY <2>2, <3>1, <3>2, <3>3
    <3> QED BY <3>4 DEF OpenBranches
  <2> HIDE DEF R
  <2>5. R = {r \in Roots(story.links) : Reached(r) \cap story.timeline # {}}
    BY DEF R, TaleOf
  <2> QED BY <2>2, <2>3, <2>4, <2>5 DEF ChainsFollowLinks, TaleOf
<1> QED BY <1>1, HistoryInitInv, HistoryNextInv, PTL DEF CaseHistorySpec

(***************************************************************************)
(* Whatever history is reconstructed while the case is recorded, the edges *)
(* of its dag are edges between events.                                    *)
(***************************************************************************)
THEOREM HistoryTypeCorrect == CaseHistorySpec /\ CaseEventsSpec => []CaseHistoryTypeOK
<1> DEFINE DagOK == story.dag \subseteq Event \X Event \X EdgeType
<1>1. CaseHistoryInit => DagOK
  BY DEF CaseHistoryInit
<1>2. HistoryInv /\ CaseEventsTypeOK /\ DagOK /\ [CaseHistoryNext]_chVars => DagOK'
  <2> SUFFICES ASSUME HistoryInv, CaseEventsTypeOK, DagOK, [CaseHistoryNext]_chVars PROVE DagOK'
    OBVIOUS
  <2>1. EdgesRead \subseteq Event \X Event \X EdgeType
    BY DEF EdgesRead, CaseEventsTypeOK
  <2>2. story = [f \in DOMAIN story |-> story[f]] /\ "dag" \in DOMAIN story
    BY DEF HistoryInv, HistoryShaped, HistoryShape
  <2>3. story'.dag = story.dag \/ ReadEdges
    <3>1. CASE UNCHANGED chVars
      BY <3>1 DEF chVars
    <3>2. CASE ReadTimeline \/ ReadEvents \/ NothingFound
      BY <2>2, <3>2 DEF ReadTimeline, ReadEvents, NothingFound
    <3>3. CASE ReadLinks \/ \E r \in Story : WalkFrom(r)
      BY <2>2, <3>3 DEF ReadLinks, WalkFrom
    <3>4. CASE Visit
      BY <2>2, <3>4 DEF Visit
    <3>5. CASE EndChain \/ EndWalk
      BY <2>2, <3>5 DEF EndChain, EndWalk
    <3> QED BY <3>1, <3>2, <3>3, <3>4, <3>5 DEF CaseHistoryNext
  <2>4. CASE ReadEdges
    BY <2>1, <2>2, <2>4 DEF ReadEdges
  <2> QED BY <2>3, <2>4
<1>3. HistoryInv /\ DagOK => CaseHistoryTypeOK
  BY DEF HistoryInv, HistoryShaped, HistoryShape, CaseHistoryTypeOK, StoryState
<1> HIDE DEF DagOK
<1> QED BY <1>1, <1>2, <1>3, HistoryInitInv, HistoryNextInv, CaseEventsTypeCorrect, PTL
        DEF CaseHistorySpec

(***************************************************************************)
(* The milestones. The inductive invariant: a call that another followed   *)
(* is over, the map names a call that is over, and never one that a        *)
(* finished call followed; an edge leads to a call that wrote it.          *)
(***************************************************************************)
AfterOver == \A p \in after : p[1] \in Over /\ milestone[p[2]] # "none"
LatestOver == latest # NoReflect => milestone[latest] = "done"
LatestNewest == \A p \in after : milestone[p[2]] = "done" /\ p[2] \notin cut => latest # p[1]
ChainWritten == \A p \in chain : milestone[p[2]] \in {"linked", "done"}
MilestonesInv ==
  MilestonesTypeOK /\ AfterOver /\ LatestOver /\ LatestNewest /\ ChainWritten /\ ChainSkipsNone

LEMMA MilestonesInitInv == MilestonesInit => MilestonesInv
BY DEF MilestonesInit, MilestonesInv, MilestonesTypeOK, AfterOver, LatestOver, LatestNewest,
       ChainWritten, ChainSkipsNone

LEMMA MilestonesNextInv == MilestonesInv /\ [MilestonesNext]_msVars => MilestonesInv'
<1> SUFFICES ASSUME MilestonesInv, [MilestonesNext]_msVars PROVE MilestonesInv'
  OBVIOUS
<1>0. /\ MilestonesTypeOK /\ AfterOver /\ LatestOver /\ LatestNewest /\ ChainWritten /\ ChainSkipsNone
      /\ NoReflect \notin Reflect
  BY EpisodeAssumption DEF MilestonesInv
<1> USE DEF MilestonesInv, MilestonesTypeOK, AfterOver, LatestOver, LatestNewest, ChainWritten, Over
<1>1. ASSUME NEW e \in Reflect, InsertMilestone(e) PROVE MilestonesInv'
  <2>1. /\ milestone[e] = "none" /\ milestone' \in [Reflect -> {"none", "stored", "linked", "done", "repeat"}]
        /\ milestone'[e] \in {"stored", "repeat"} /\ \A f \in Reflect : f # e => milestone'[f] = milestone[f]
        /\ after' = after \cup {<<f, e>> : f \in Over} /\ chain' = chain /\ latest' = latest /\ cut' = cut
    BY <1>0, <1>1 DEF InsertMilestone
  <2>2. \A p \in after' \ after : p[1] \in Over /\ p[2] = e
    BY <2>1
  <2>3. MilestonesTypeOK' /\ AfterOver' /\ LatestOver' /\ LatestNewest' /\ ChainWritten'
    BY <1>0, <2>1, <2>2
  <2>4. ChainSkipsNone'
    <3> SUFFICES ASSUME NEW p \in after', NEW q \in after', p[2] = q[1], <<p[1], q[2]>> \in chain
                 PROVE  q[1] \in cut \/ milestone'[q[1]] = "repeat"
      BY <2>1 DEF ChainSkipsNone
    <3>1. q[2] # e
      BY <1>0, <2>1
    <3>2. q \in after /\ q[1] \in Over
      BY <1>0, <2>2, <3>1
    <3>3. q[1] # e /\ q[1] \in Reflect
      BY <2>1, <3>2
    <3>4. p \in after
      BY <2>2, <3>3
    <3> QED BY <1>0, <2>1, <3>2, <3>3, <3>4 DEF ChainSkipsNone
  <2> QED BY <2>3, <2>4
<1>2. ASSUME NEW e \in Reflect, ChainMilestone(e) PROVE MilestonesInv'
  <2>1. /\ milestone[e] = "stored" /\ milestone' = [milestone EXCEPT ![e] = "linked"]
        /\ after' = after /\ latest' = latest /\ cut' = cut
        /\ chain' = chain \/ (latest # NoReflect /\ chain' = chain \cup {<<latest, e>>})
    BY <1>2 DEF ChainMilestone
  <2>2. MilestonesTypeOK' /\ AfterOver' /\ LatestOver' /\ LatestNewest' /\ ChainWritten'
    BY <1>0, <2>1
  <2>3. ChainSkipsNone'
    <3> SUFFICES ASSUME NEW p \in after, NEW q \in after, p[2] = q[1], <<p[1], q[2]>> \in chain'
                 PROVE  q[1] \in cut \/ milestone'[q[1]] = "repeat"
      BY <2>1 DEF ChainSkipsNone
    <3>1. q[1] \in Over /\ milestone'[q[1]] = milestone[q[1]]
      BY <1>0, <2>1
    <3>2. CASE <<p[1], q[2]>> \in chain
      BY <1>0, <3>1, <3>2 DEF ChainSkipsNone
    <3>3. CASE <<p[1], q[2]>> = <<latest, e>>
      BY <1>0, <3>1, <3>3
    <3> QED BY <2>1, <3>2, <3>3
  <2> QED BY <2>2, <2>3
<1>3. ASSUME NEW e \in Reflect, RememberMilestone(e) PROVE MilestonesInv'
  BY <1>0, <1>3 DEF RememberMilestone, NewLatest, ChainSkipsNone
<1>4. ASSUME NEW e \in Reflect, MilestoneFails(e) PROVE MilestonesInv'
  BY <1>0, <1>4 DEF MilestoneFails, ChainSkipsNone
<1>5. CASE LoseMap
  BY <1>0, <1>5 DEF LoseMap, StoredMilestones, ChainSkipsNone
<1>6. CASE UNCHANGED msVars
  BY <1>6 DEF msVars, ChainSkipsNone
<1> QED BY <1>1, <1>2, <1>3, <1>4, <1>5, <1>6 DEF MilestonesNext

(***************************************************************************)
(* For any number of reflects, however their background calls interleave,  *)
(* fail and are cut short by restarts, the chain leaves out none that was  *)
(* recorded (EpisodeContinuityService.js).                                 *)
(***************************************************************************)
THEOREM ChainWhole == MilestonesSpec => []ChainSkipsNone
<1>1. MilestonesInv => ChainSkipsNone
  BY DEF MilestonesInv
<1> QED BY <1>1, MilestonesInitInv, MilestonesNextInv, PTL DEF MilestonesSpec

(***************************************************************************)
(* Milestones and their chain are well typed.                              *)
(***************************************************************************)
THEOREM MilestonesTypeCorrect == MilestonesSpec => []MilestonesTypeOK
<1>1. MilestonesInv => MilestonesTypeOK
  BY DEF MilestonesInv
<1> QED BY <1>1, MilestonesInitInv, MilestonesNextInv, PTL DEF MilestonesSpec

(***************************************************************************)
(* The reflection. The inductive invariant: while nothing excuses it, an   *)
(* autoReflect that summarises or stores has no other closer beside it     *)
(* that does, and none has stored before it; what was stored is marked, or *)
(* somebody is about to mark it.                                           *)
(***************************************************************************)
Summing(c) == c \notin Explicit /\ closer[c] \in {"summarise", "store"}
MarksAtMark == \A c \in Closer : writer[c].at = "read" => closer[c] = "mark"
SumsAlone == \A c, d \in Closer : Summing(c) /\ d # c => closer[d] \notin {"summarise", "store"}
SumsFirst == \A c \in Closer : Summing(c) => reflections = {}
StoredMarked == reflections # {} => log.marked \/ \E d \in Closer : closer[d] = "mark"
ReflectionInv ==
  /\ ReflectionTypeOK /\ MarksAtMark
  /\ ~excused => SumsAlone /\ SumsFirst /\ StoredMarked /\ ~twice

LEMMA ReflectionInitInv == ReflectionInit => ReflectionInv
<1> SUFFICES ASSUME ReflectionInit PROVE ReflectionInv
  OBVIOUS
<1>1. EmptyLog \in Log /\ [at |-> "idle", saw |-> EmptyLog] \in WriterState
  BY DEF EmptyLog, Log, WriterState
<1>2. ReflectionTypeOK
  BY <1>1 DEF ReflectionInit, ReflectionTypeOK
<1>3. MarksAtMark /\ SumsAlone /\ SumsFirst /\ StoredMarked
  BY DEF ReflectionInit, MarksAtMark, SumsAlone, SumsFirst, StoredMarked, Summing, Recorder
<1> QED BY <1>2, <1>3 DEF ReflectionInit, ReflectionInv

LEMMA ReflectionTypeStep == ReflectionTypeOK /\ [ReflectionNext]_rfVars => ReflectionTypeOK'
<1> SUFFICES ASSUME ReflectionTypeOK, [ReflectionNext]_rfVars PROVE ReflectionTypeOK'
  OBVIOUS
<1> USE DEF ReflectionTypeOK
<1>1. ASSUME NEW r \in Recorder, StartRecord(r) PROVE ReflectionTypeOK'
  BY <1>1 DEF StartRecord, WriterState
<1>2. ASSUME NEW r \in Recorder, FinishRecord(r) PROVE ReflectionTypeOK'
  <2>1. writer[r].saw \in Log /\ WithRecord(r) \in Log
    BY DEF WriterState, WithRecord, Log
  <2>2. excused' \in BOOLEAN
    BY <1>2 DEF FinishRecord
  <2>3. closer' \in [Closer -> {"idle", "summarise", "store", "mark", "over"}]
    BY <1>2 DEF FinishRecord
  <2> QED BY <1>2, <2>1, <2>2, <2>3 DEF FinishRecord, WriterState
<1>3. ASSUME NEW r \in Recorder, RecordFails(r) PROVE ReflectionTypeOK'
  BY <1>3 DEF RecordFails, WriterState
<1>4. ASSUME NEW c \in Closer, BeginClose(c) \/ CloseFails(c) \/ Summarise(c) \/ ReflectTool(c) PROVE ReflectionTypeOK'
  <2>1. closer' \in [Closer -> {"idle", "summarise", "store", "mark", "over"}]
    BY <1>4 DEF BeginClose, CloseFails, Summarise, ReflectTool
  <2>2. excused' \in BOOLEAN
    BY <1>4 DEF BeginClose, CloseFails, Summarise, ReflectTool
  <2> QED BY <1>4, <2>1, <2>2 DEF BeginClose, CloseFails, Summarise, ReflectTool
<1>5. ASSUME NEW c \in Closer, StoreReflection(c) PROVE ReflectionTypeOK'
  <2>1. twice' \in BOOLEAN
    BY <1>5 DEF StoreReflection
  <2> QED BY <1>5, <2>1 DEF StoreReflection
<1>6. CASE LogExpires
  BY <1>6 DEF LogExpires, EmptyLog, Log
<1>7. CASE ReflectorsCrash
  <2>1. excused' \in BOOLEAN
    BY <1>7 DEF ReflectorsCrash
  <2>2. closer' \in [Closer -> {"idle", "summarise", "store", "mark", "over"}]
    BY <1>7 DEF ReflectorsCrash
  <2>3. writer' \in [Recorder -> WriterState]
    BY <1>7 DEF ReflectorsCrash, WriterState
  <2> QED BY <1>7, <2>1, <2>2, <2>3 DEF ReflectorsCrash
<1>8. CASE UNCHANGED rfVars
  BY <1>8 DEF rfVars
<1> QED BY <1>1, <1>2, <1>3, <1>4, <1>5, <1>6, <1>7, <1>8 DEF ReflectionNext

LEMMA ReflectionNextInv == ReflectionInv /\ [ReflectionNext]_rfVars => ReflectionInv'
<1> SUFFICES ASSUME ReflectionInv, [ReflectionNext]_rfVars
             PROVE  MarksAtMark' /\ (~excused' => SumsAlone' /\ SumsFirst' /\ StoredMarked' /\ ~twice')
  BY ReflectionTypeStep DEF ReflectionInv
<1>0. /\ ReflectionTypeOK /\ MarksAtMark
      /\ ~excused => SumsAlone /\ SumsFirst /\ StoredMarked /\ ~twice
      /\ Closer \subseteq Recorder
  BY DEF ReflectionInv, Recorder
<1>a. /\ closer \in [Closer -> {"idle", "summarise", "store", "mark", "over"}]
      /\ writer \in [Recorder -> WriterState]
  BY <1>0 DEF ReflectionTypeOK
<1> USE DEF MarksAtMark, SumsAlone, SumsFirst, StoredMarked, Summing
<1>1. ASSUME NEW r \in Recorder, StartRecord(r) PROVE ReflectionInv'
  <2>1. MarksAtMark'
    BY <1>0, <1>a, <1>1 DEF StartRecord
  <2> QED BY <1>0, <1>1, <2>1, ReflectionTypeStep DEF StartRecord, ReflectionInv
<1>2. ASSUME NEW r \in Recorder, FinishRecord(r) PROVE ReflectionInv'
  <2>1. /\ \A q \in Recorder : writer'[q].at = "read" => writer[q].at = "read" /\ q # r
        /\ \A c \in Closer : closer'[c] = IF c = r THEN "over" ELSE closer[c]
    BY <1>a, <1>2 DEF FinishRecord, WriterState
  <2>2. MarksAtMark'
    BY <1>0, <2>1
  <2>3. SumsAlone /\ SumsFirst /\ ~excused => SumsAlone' /\ SumsFirst'
    BY <1>2, <2>1 DEF FinishRecord
  <2>4. ASSUME ~excused' PROVE StoredMarked'
    <3>1. ~excused /\ (log.marked => writer[r].saw.marked \/ r \in Closer)
      BY <1>2, <2>4 DEF FinishRecord, Recorder
    <3>2. log'.marked = (r \in Closer \/ writer[r].saw.marked)
      BY <1>2 DEF FinishRecord, WithRecord
    <3>3. CASE r \in Closer
      BY <3>2, <3>3
    <3>4. CASE r \notin Closer
      BY <1>0, <1>2, <2>1, <3>1, <3>2, <3>4 DEF FinishRecord
    <3> QED BY <3>3, <3>4
  <2> QED BY <1>0, <1>2, <2>2, <2>3, <2>4, ReflectionTypeStep DEF FinishRecord, ReflectionInv
<1>3. ASSUME NEW r \in Recorder, RecordFails(r) PROVE ReflectionInv'
  <2>1. /\ \A q \in Recorder : writer'[q].at = "read" => writer[q].at = "read" /\ q # r
        /\ \A c \in Closer : closer'[c] = IF c = r THEN "over" ELSE closer[c]
        /\ ~excused' => closer' = closer /\ ~excused
    BY <1>a, <1>3 DEF RecordFails, WriterState
  <2> QED BY <1>0, <1>3, <2>1, ReflectionTypeStep DEF RecordFails, ReflectionInv
<1>4. ASSUME NEW c \in Closer, BeginClose(c) PROVE ReflectionInv'
  <2>1. /\ \A d \in Closer : d # c => closer'[d] = closer[d]
        /\ closer'[c] \in {"over", "mark", "summarise"} /\ closer[c] = "idle"
        /\ closer'[c] = "summarise" => ~log.marked
        /\ UNCHANGED <<log, writer, reflections, twice>>
    BY <1>a, <1>4 DEF BeginClose, Due
  <2>2. ~excused' => ~excused /\ (~log.marked => \A d \in Closer : closer[d] \notin {"summarise", "store", "mark"})
    BY <1>4 DEF BeginClose, Due, Closing
  <2> QED BY <1>0, <2>1, <2>2, ReflectionTypeStep DEF ReflectionInv
<1>5. ASSUME NEW c \in Closer, CloseFails(c) \/ Summarise(c) PROVE ReflectionInv'
  <2>1. /\ \A d \in Closer : d # c => closer'[d] = closer[d]
        /\ closer'[c] \in {"over", "mark"} \/ (closer[c] = "summarise" /\ closer'[c] = "store")
        /\ closer[c] \in {"idle", "summarise"}
        /\ UNCHANGED <<log, writer, reflections, twice, excused>>
    BY <1>a, <1>5 DEF CloseFails, Summarise
  <2> QED BY <1>0, <2>1, ReflectionTypeStep DEF ReflectionInv
<1>6. ASSUME NEW c \in Closer, ReflectTool(c) PROVE ReflectionInv'
  <2>1. /\ \A d \in Closer : d # c => closer'[d] = closer[d]
        /\ closer'[c] = "store" /\ closer[c] = "idle" /\ c \in Explicit
        /\ UNCHANGED <<log, writer, reflections, twice>>
    BY <1>a, <1>6 DEF ReflectTool
  <2>2. ~excused' => ~excused /\ \A d \in Closer : closer[d] \notin {"summarise", "store", "mark"}
    BY <1>6 DEF ReflectTool, Closing
  <2> QED BY <1>0, <2>1, <2>2, ReflectionTypeStep DEF ReflectionInv
<1>7. ASSUME NEW c \in Closer, StoreReflection(c) PROVE ReflectionInv'
  <2>1. /\ \A d \in Closer : d # c => closer'[d] = closer[d]
        /\ closer'[c] \in {"over", "mark"} /\ closer[c] = "store"
        /\ UNCHANGED <<log, writer, excused>>
        /\ reflections' = reflections \/ closer'[c] = "mark"
    BY <1>a, <1>7 DEF StoreReflection
  <2>2. twice' => twice \/ (reflections # {} /\ c \notin Explicit)
    BY <1>7 DEF StoreReflection
  <2> QED BY <1>0, <2>1, <2>2, ReflectionTypeStep DEF ReflectionInv
<1>8. CASE LogExpires
  BY <1>0, <1>8 DEF LogExpires
<1>9. CASE ReflectorsCrash
  <2>1. /\ \A q \in Recorder : writer'[q].at # "read"
        /\ ~excused' => ~excused /\ Closing = {} /\ closer' = closer /\ UNCHANGED <<log, reflections, twice>>
    BY <1>a, <1>9 DEF ReflectorsCrash, Writing, WriterState
  <2> QED BY <1>0, <2>1, ReflectionTypeStep DEF ReflectionInv
<1>10. CASE UNCHANGED rfVars
  BY <1>0, <1>10 DEF rfVars
<1> QED BY <1>1, <1>2, <1>3, <1>4, <1>5, <1>6, <1>7, <1>8, <1>9, <1>10 DEF ReflectionNext, ReflectionInv

(***************************************************************************)
(* For any number of tool calls, closers and reflect tools, however their  *)
(* records and steps interleave and fail: a session is reflected once, or  *)
(* one of the named things happened (AutoReflect.js:41-44).                *)
(***************************************************************************)
THEOREM Once == ReflectionSpec => []ReflectedOnce
<1>1. ReflectionInv => ReflectedOnce
  BY DEF ReflectionInv, ReflectedOnce, ReflectionTypeOK
<1> QED BY <1>1, ReflectionInitInv, ReflectionNextInv, PTL DEF ReflectionSpec

(***************************************************************************)
(* The activity log, its writers and its closers are well typed.           *)
(***************************************************************************)
THEOREM ReflectionTypeCorrect == ReflectionSpec => []ReflectionTypeOK
<1>1. ReflectionInv => ReflectionTypeOK
  BY DEF ReflectionInv
<1> QED BY <1>1, ReflectionInitInv, ReflectionNextInv, PTL DEF ReflectionSpec

(***************************************************************************)
(* The pages of the script: the k highest of a finite set of ids, and the  *)
(* place of each id in the page.                                           *)
(***************************************************************************)
Above(S, m) == {n \in S : n > m}
Highest(S, k) == {m \in S : Cardinality(Above(S, m)) < k}
FromAbove(T, m) == {n \in T : n >= m}

LEMMA Counted ==
  ASSUME NEW S \in SUBSET Nat, IsFiniteSet(S), NEW m \in S
  PROVE  /\ IsFiniteSet(Above(S, m)) /\ Cardinality(Above(S, m)) \in Nat
         /\ IsFiniteSet(FromAbove(S, m)) /\ Cardinality(FromAbove(S, m)) \in Nat
         /\ Cardinality(FromAbove(S, m)) \in 1..Cardinality(S)
<1>1. Above(S, m) \in SUBSET S /\ FromAbove(S, m) \in SUBSET S /\ m \in FromAbove(S, m)
  BY DEF Above, FromAbove
<1>2. /\ IsFiniteSet(Above(S, m)) /\ IsFiniteSet(FromAbove(S, m))
      /\ Cardinality(FromAbove(S, m)) <= Cardinality(S)
  BY <1>1, FS_Subset
<1>3. /\ Cardinality(Above(S, m)) \in Nat /\ Cardinality(FromAbove(S, m)) \in Nat /\ Cardinality(S) \in Nat
  BY <1>2, FS_CardinalityType
<1>4. Cardinality(FromAbove(S, m)) # 0
  BY <1>1, <1>2, FS_EmptySet
<1> QED BY <1>2, <1>3, <1>4

\* a nonempty finite set of naturals has a greatest member
LEMMA GreatestNatural ==
  ASSUME NEW S \in SUBSET Nat, IsFiniteSet(S), S # {}
  PROVE  \E m \in S : \A n \in S : n <= m
<1> DEFINE R == {p \in S \X S : p[1] < p[2]}
<1>1. \A x \in S : <<x, x>> \notin R
  OBVIOUS
<1>2. \A x, y, z \in S : <<x, y>> \in R /\ <<y, z>> \in R => <<x, z>> \in R
  OBVIOUS
<1> HIDE DEF R
<1>3. PICK m \in S : \A n \in S : <<m, n>> \notin R
  BY <1>1, <1>2, Maximal
<1>4. \A n \in S : ~(m < n)
  BY <1>3 DEF R
<1> QED BY <1>4

LEMMA HighestPage ==
  ASSUME NEW S \in SUBSET Nat, IsFiniteSet(S), NEW k \in Nat \ {0}
  PROVE  /\ Highest(S, k) \in SUBSET S
         /\ \A m \in S \ Highest(S, k) : \A p \in Highest(S, k) : m < p
         /\ S # {} => Highest(S, k) # {}
         /\ Cardinality(Highest(S, k)) < k => Highest(S, k) = S
<1>0. \A n \in S : n \in Nat
  OBVIOUS
<1>1. Highest(S, k) \in SUBSET S
  BY DEF Highest
<1>2. ASSUME NEW m \in S \ Highest(S, k), NEW p \in Highest(S, k) PROVE m < p
  <2>1. m \in S /\ p \in S /\ m # p /\ Cardinality(Above(S, p)) < k /\ ~(Cardinality(Above(S, m)) < k)
    BY DEF Highest
  <2>2. CASE p < m
    <3>1. Above(S, m) \in SUBSET Above(S, p)
      <4>1. ASSUME NEW x \in Above(S, m) PROVE x \in Above(S, p)
        <5>1. x \in S /\ x > m
          BY DEF Above
        <5>2. x \in Nat /\ m \in Nat /\ p \in Nat
          BY <1>0, <2>1, <5>1
        <5>3. x > p
          BY <2>2, <5>1, <5>2
        <5> QED BY <5>1, <5>3 DEF Above
      <4> QED BY <4>1
    <3>2. IsFiniteSet(Above(S, p)) /\ Cardinality(Above(S, p)) \in Nat /\ Cardinality(Above(S, m)) \in Nat
      BY <2>1, Counted
    <3>3. Cardinality(Above(S, m)) <= Cardinality(Above(S, p))
      BY <3>1, <3>2, FS_Subset
    <3> QED BY <2>1, <3>2, <3>3
  <2> QED BY <2>1, <2>2
<1>3. ASSUME S # {} PROVE Highest(S, k) # {}
  <2>1. PICK m \in S : \A n \in S : n <= m
    BY <1>3, GreatestNatural
  <2>2. Above(S, m) = {}
    <3>1. ASSUME NEW x \in Above(S, m) PROVE FALSE
      <4>1. x \in S /\ x > m
        BY DEF Above
      <4> QED BY <1>0, <2>1, <4>1
    <3> QED BY <3>1
  <2>3. Cardinality(Above(S, m)) = 0
    BY <2>2, FS_EmptySet
  <2> QED BY <2>1, <2>3 DEF Highest
<1>4. ASSUME Cardinality(Highest(S, k)) < k, Highest(S, k) # S PROVE FALSE
  <2> DEFINE Rest == S \ Highest(S, k)
  <2>1. Rest \in SUBSET Nat /\ Rest \in SUBSET S /\ Rest # {} /\ IsFiniteSet(Rest)
    BY <1>1, <1>4, FS_Subset
  <2>2. PICK m \in Rest : \A n \in Rest : n <= m
    BY <2>1, GreatestNatural
  <2>3. Above(S, m) \in SUBSET Highest(S, k)
    BY <1>0, <2>1, <2>2 DEF Above
  <2>4. IsFiniteSet(Highest(S, k)) /\ Cardinality(Above(S, m)) <= Cardinality(Highest(S, k))
    BY <1>1, <2>3, FS_Subset
  <2>5. m \in S /\ Cardinality(Above(S, m)) \in Nat /\ Cardinality(Highest(S, k)) \in Nat
    BY <2>1, <2>4, Counted, FS_CardinalityType
  <2>6. Cardinality(Above(S, m)) < k
    BY <1>4, <2>4, <2>5
  <2>7. m \in Highest(S, k)
    BY <2>5, <2>6 DEF Highest
  <2> QED BY <2>7
<1> QED BY <1>1, <1>2, <1>3, <1>4

LEMMA Placed ==
  ASSUME NEW T \in SUBSET Nat, IsFiniteSet(T)
  PROVE  /\ Cardinality(T) \in Nat
         /\ \A m \in T : Cardinality(FromAbove(T, m)) \in 1..Cardinality(T)
         /\ \A i \in 1..Cardinality(T) : \E m \in T : Cardinality(FromAbove(T, m)) = i
         /\ \A m, n \in T : m < n => Cardinality(FromAbove(T, n)) < Cardinality(FromAbove(T, m))
<1> DEFINE C == 1..Cardinality(T)
           f == [m \in T |-> Cardinality(FromAbove(T, m))]
<1>0. \A n \in T : n \in Nat
  OBVIOUS
<1>1. Cardinality(T) \in Nat
  BY FS_CardinalityType
<1>2. \A m \in T : Cardinality(FromAbove(T, m)) \in C /\ Cardinality(FromAbove(T, m)) \in Nat
  BY Counted
<1>3. ASSUME NEW m \in T, NEW n \in T, m < n
      PROVE  Cardinality(FromAbove(T, n)) < Cardinality(FromAbove(T, m))
  <2>1. FromAbove(T, n) \in SUBSET FromAbove(T, m) /\ FromAbove(T, n) # FromAbove(T, m)
    <3>0. m \in Nat /\ n \in Nat
      BY <1>0
    <3>1. ASSUME NEW x \in FromAbove(T, n) PROVE x \in FromAbove(T, m)
      <4>1. x \in T /\ x >= n
        BY DEF FromAbove
      <4>2. x \in Nat
        BY <1>0, <4>1
      <4>3. x >= m
        BY <1>3, <3>0, <4>1, <4>2
      <4> QED BY <4>1, <4>3 DEF FromAbove
    <3>2. m \in FromAbove(T, m) /\ m \notin FromAbove(T, n)
      BY <1>3, <3>0 DEF FromAbove
    <3> QED BY <3>1, <3>2
  <2>2. IsFiniteSet(FromAbove(T, m))
    BY Counted
  <2>3. /\ Cardinality(FromAbove(T, n)) <= Cardinality(FromAbove(T, m))
        /\ Cardinality(FromAbove(T, m)) # Cardinality(FromAbove(T, n))
    BY <2>1, <2>2, FS_Subset
  <2> QED BY <1>2, <2>3
<1>4. f \in [T -> C] /\ \A m, n \in T : f[m] = f[n] => m = n
  BY <1>2, <1>3
<1>5. f \in Injection(T, C)
  BY <1>4 DEF Injection, IsInjective
<1>6. IsFiniteSet(C) /\ Cardinality(C) = Cardinality(T)
  BY <1>1, FS_Interval
<1>7. f \in Surjection(T, C)
  <2> HIDE DEF f, C
  <2> QED BY <1>5, <1>6, FS_Injection
<1>8. \A i \in C : \E m \in T : f[m] = i
  <2> HIDE DEF f, C
  <2> QED BY <1>7 DEF Surjection
<1> QED BY <1>1, <1>2, <1>3, <1>8

-----------------------------------------------------------------------------
(***************************************************************************)
(* The script. The inductive invariant: a fragment that is still its to do *)
(* has its claim, or belongs to a key not begun, or is below the cursor,   *)
(* or is in the page being done, or is below all of that page, which then  *)
(* was full.                                                               *)
(***************************************************************************)
Claimed(m) ==
  Marker[memo[m].text] # NoMarker =>
    \E c \in claims : c.memo = m /\ c.about = About[memo[m].text] /\ c.predicate = Predicate(memo[m].text)
ToFetch(m) == Tenant[m] \in backfill.left
Ahead(m) == Tenant[m] = backfill.tenant /\ (backfill.cursor = 0 \/ m < backfill.cursor)
InRows(m) == \E i \in 1..Len(backfill.rows) : backfill.rows[i] = [memo |-> m, text |-> memo[m].text]
BeyondRows(m) ==
  /\ Tenant[m] = backfill.tenant /\ ~backfill.short
  /\ \A i \in 1..Len(backfill.rows) : m < backfill.rows[i].memo
  /\ backfill.rows = <<>> => m < backfill.cursor
StillDone(m) ==
  /\ backfill.at # "off"
  /\ backfill.at = "fetch" => ToFetch(m) \/ Ahead(m) \/ Claimed(m)
  /\ backfill.at = "rows" => ToFetch(m) \/ InRows(m) \/ BeyondRows(m) \/ Claimed(m)
  /\ backfill.at = "done" => Claimed(m)
DueDone == \A m \in due : memo[m].is = "live" /\ StillDone(m)
ClaimsInv == ClaimsTypeOK /\ DueDone

LEMMA ClaimOfType ==
  ASSUME NEW m \in Memo, NEW t \in Text PROVE ClaimOf(m, t) \in Claim
<1>1. PolarityOf(Marker[t]) \in Polarity
  BY DEF PolarityOf, Polarity
<1>2. Marker[t] \in Positive \cup Negative \cup Uncertain \cup {NoMarker}
  BY ClaimAssumption
<1> QED BY <1>1, <1>2 DEF ClaimOf, Claim, Predicate

\* an insert keeps what is there, and leaves the claim there
LEMMA WithClaimKeeps ==
  ASSUME NEW m \in Memo, NEW t \in Text, claims \subseteq Claim
  PROVE  LET D == WithClaim(ClaimOf(m, t)) IN
         /\ claims \subseteq D /\ D \subseteq Claim
         /\ \E c \in D : c.memo = m /\ c.about = About[t] /\ c.predicate = Predicate(t)
<1>1. ClaimOf(m, t) \in Claim
  BY ClaimOfType
<1>2. ClaimOf(m, t).memo = m /\ ClaimOf(m, t).about = About[t] /\ ClaimOf(m, t).predicate = Predicate(t)
  BY DEF ClaimOf
<1> QED BY <1>1, <1>2 DEF WithClaim

LEMMA FetchedPage ==
  ASSUME ClaimsTypeOK
  PROVE  /\ Page \in SUBSET Memo /\ IsFiniteSet(Page)
         /\ \A m \in Memo : memo[m].is = "live" /\ Ahead(m) =>
               /\ Page # {}
               /\ m \in Page \/ (~(Cardinality(Page) < PageSize) /\ \A p \in Page : m < p)
<1> DEFINE Own == {m \in Is("live") : Tenant[m] = backfill.tenant /\ (backfill.cursor = 0 \/ m < backfill.cursor)}
<1>1. Own \in SUBSET Memo /\ Own \in SUBSET Nat /\ PageSize \in Nat \ {0} /\ IsFiniteSet(Memo)
  BY ClaimAssumption DEF Is
<1>2. IsFiniteSet(Own)
  BY <1>1, FS_Subset
<1>3. \A m \in Memo : memo[m].is = "live" /\ Ahead(m) => m \in Own
  BY DEF Is, Ahead
<1>4. Page = Highest(Own, PageSize)
  BY DEF Page, Highest, Above
<1> HIDE DEF Own
<1>5. Page \in SUBSET Own /\ IsFiniteSet(Page)
  BY <1>1, <1>2, <1>4, HighestPage, FS_Subset
<1>6. /\ \A m \in Own \ Page : \A p \in Page : m < p
      /\ Own # {} => Page # {}
      /\ Cardinality(Page) < PageSize => Page = Own
  BY <1>1, <1>2, <1>4, HighestPage
<1> QED BY <1>1, <1>3, <1>5, <1>6

LEMMA FetchedRows ==
  ASSUME ClaimsTypeOK, FetchPage, Page # {}
  PROVE  /\ backfill'.at = "rows" /\ backfill' \in Script
         /\ backfill'.left = backfill.left /\ backfill'.tenant = backfill.tenant
         /\ backfill'.short = (Cardinality(Page) < PageSize)
         /\ backfill'.rows # <<>>
         /\ \A i \in 1..Len(backfill'.rows) : backfill'.rows[i].memo \in Page
         /\ \A m \in Page : \E i \in 1..Len(backfill'.rows) :
               backfill'.rows[i] = [memo |-> m, text |-> memo[m].text]
<1> DEFINE P == Page
           Row(i) == CHOOSE m \in P : Cardinality({n \in P : n >= m}) = i
           R == [i \in 1..Cardinality(P) |-> [memo |-> Row(i), text |-> memo[Row(i)].text]]
<1>1. P \in SUBSET Memo /\ IsFiniteSet(P) /\ P \in SUBSET Nat /\ P # {}
  BY FetchedPage, ClaimAssumption
<1>2. backfill' = [backfill EXCEPT !.at = "rows", !.rows = R, !.short = Cardinality(P) < PageSize]
  BY DEF FetchPage
<1> HIDE DEF P
<1>3. /\ Cardinality(P) \in Nat
      /\ \A m \in P : Cardinality({n \in P : n >= m}) \in 1..Cardinality(P)
      /\ \A i \in 1..Cardinality(P) : \E m \in P : Cardinality({n \in P : n >= m}) = i
      /\ \A m, n \in P : m < n => Cardinality({q \in P : q >= n}) < Cardinality({q \in P : q >= m})
  BY <1>1, Placed DEF FromAbove
<1>4. \A i \in 1..Cardinality(P) : Row(i) \in P /\ Cardinality({n \in P : n >= Row(i)}) = i
  BY <1>3
<1> HIDE DEF Row
<1>5. \A m \in P : Row(Cardinality({n \in P : n >= m})) = m
  <2>1. \A m, n \in P : Cardinality({q \in P : q >= n}) = Cardinality({q \in P : q >= m}) => m = n
    <3> SUFFICES ASSUME NEW m \in P, NEW n \in P, m # n
                 PROVE  Cardinality({q \in P : q >= n}) # Cardinality({q \in P : q >= m})
      OBVIOUS
    <3>1. m \in Nat /\ n \in Nat /\ (m < n \/ n < m)
      BY <1>1
    <3>2. Cardinality({q \in P : q >= n}) \in 1..Cardinality(P) /\ Cardinality({q \in P : q >= m}) \in 1..Cardinality(P)
      BY <1>3
    <3> QED BY <1>3, <3>1, <3>2
  <2> QED BY <1>3, <1>4, <2>1
<1>6. \A i \in 1..Cardinality(P) : R[i] = [memo |-> Row(i), text |-> memo[Row(i)].text] /\ R[i] \in Extraction
  BY <1>1, <1>4 DEF ClaimsTypeOK, Extraction, MemoRow
<1>7. R \in Seq(Extraction) /\ Len(R) = Cardinality(P)
  BY <1>3, <1>6
<1>8. Cardinality(P) # 0
  BY <1>1, FS_EmptySet
<1>9. R # <<>>
  BY <1>7, <1>8
<1>10. \A m \in P : \E i \in 1..Len(R) : R[i] = [memo |-> m, text |-> memo[m].text]
  <2> SUFFICES ASSUME NEW m \in P PROVE \E i \in 1..Len(R) : R[i] = [memo |-> m, text |-> memo[m].text]
    OBVIOUS
  <2> DEFINE i == Cardinality({n \in P : n >= m})
  <2>1. i \in 1..Cardinality(P) /\ Row(i) = m
    BY <1>3, <1>5
  <2> HIDE DEF i, R
  <2>2. R[i] = [memo |-> m, text |-> memo[m].text] /\ i \in 1..Len(R)
    BY <1>6, <1>7, <2>1
  <2> QED BY <2>2
<1>11. \A i \in 1..Len(R) : R[i].memo \in P
  <2> SUFFICES ASSUME NEW i \in 1..Cardinality(P) PROVE R[i].memo \in P
    BY <1>7
  <2>1. R[i] = [memo |-> Row(i), text |-> memo[Row(i)].text] /\ Row(i) \in P
    BY <1>4, <1>6
  <2> HIDE DEF R
  <2>2. R[i].memo = Row(i)
    BY <2>1
  <2> QED BY <2>1, <2>2
<1> HIDE DEF R
<1>12. backfill' \in Script
  <2> DEFINE b == Cardinality(P) < PageSize
  <2>1. b \in BOOLEAN /\ backfill' = [backfill EXCEPT !.at = "rows", !.rows = R, !.short = b]
    BY <1>2
  <2> HIDE DEF b
  <2> QED BY <1>7, <2>1 DEF ClaimsTypeOK, Script
<1>13. /\ backfill'.at = "rows" /\ backfill'.left = backfill.left /\ backfill'.tenant = backfill.tenant
       /\ backfill'.rows = R
  BY <1>2 DEF ClaimsTypeOK, Script
<1>14. backfill'.short = (Cardinality(P) < PageSize)
  BY <1>2 DEF ClaimsTypeOK, Script
<1> QED BY <1>9, <1>10, <1>11, <1>12, <1>13, <1>14 DEF P

LEMMA ClaimsInitInv == ClaimsInit => ClaimsInv
<1> SUFFICES ASSUME ClaimsInit PROVE ClaimsInv
  OBVIOUS
<1>1. (CHOOSE t \in Text : TRUE) \in Text
  BY ClaimAssumption
<1>2. memo \in [Memo -> MemoRow]
  BY <1>1 DEF ClaimsInit, MemoRow
<1>3. backfill \in Script
  BY DEF ClaimsInit, Script
<1> QED BY <1>2, <1>3, ClaimAssumption DEF ClaimsInit, ClaimsInv, ClaimsTypeOK, DueDone

\* what the other components of the state do to a fragment that is still to do
LEMMA StillDoneKept ==
  ASSUME ClaimsInv, UNCHANGED backfill, due' \subseteq due,
         \A m \in due' : memo'[m] = memo[m],
         \A m \in due', c \in claims : c.memo = m => c \in claims'
  PROVE  DueDone'
<1> SUFFICES ASSUME NEW m \in due' PROVE memo'[m].is = "live" /\ StillDone(m)'
  BY DEF DueDone
<1>1. memo[m].is = "live" /\ StillDone(m) /\ memo'[m] = memo[m]
  BY DEF ClaimsInv, DueDone
<1>2. Claimed(m) => Claimed(m)'
  BY <1>1 DEF Claimed
<1>3. (ToFetch(m) => ToFetch(m)') /\ (Ahead(m) => Ahead(m)') /\ (InRows(m) => InRows(m)')
      /\ (BeyondRows(m) => BeyondRows(m)')
  BY <1>1 DEF ToFetch, Ahead, InRows, BeyondRows
<1> QED BY <1>1, <1>2, <1>3 DEF StillDone

LEMMA ClaimsTypeStep == ClaimsTypeOK /\ [ClaimsNext]_clVars => ClaimsTypeOK'
<1> SUFFICES ASSUME ClaimsTypeOK, [ClaimsNext]_clVars PROVE ClaimsTypeOK'
  OBVIOUS
<1> USE DEF ClaimsTypeOK
<1>0. MaxEdits \in Nat
  BY ClaimAssumption
<1>1. ASSUME NEW m \in Memo, NEW text \in Text, RememberText(m, text) PROVE ClaimsTypeOK'
  <2>1. [is |-> "live", text |-> text] \in MemoRow /\ [memo |-> m, text |-> text] \in Extraction
    BY DEF MemoRow, Extraction
  <2>2. pending' \subseteq Extraction
    BY <1>1, <2>1 DEF RememberText
  <2> QED BY <1>0, <1>1, <2>1, <2>2 DEF RememberText
<1>2. ASSUME NEW m \in Memo, NEW text \in Text, AmendText(m, text) PROVE ClaimsTypeOK'
  BY <1>0, <1>2 DEF AmendText, MemoRow
<1>3. ASSUME NEW m \in Memo, LoseMemo(m) PROVE ClaimsTypeOK'
  BY <1>0, <1>3 DEF LoseMemo, MemoRow
<1>4. ASSUME NEW x \in pending, ExtractClaim(x) PROVE ClaimsTypeOK'
  <2>1. x.memo \in Memo /\ x.text \in Text
    BY DEF Extraction
  <2> QED BY <1>4, <2>1, WithClaimKeeps DEF ExtractClaim
<1>5. CASE StartBackfill
  BY <1>5 DEF StartBackfill, Script, Is
<1>6. CASE NextTenant
  <2>1. ASSUME NEW k \in backfill.left,
               backfill' = [backfill EXCEPT !.tenant = k, !.left = @ \ {k}, !.cursor = 0]
        PROVE  backfill' \in Script
    BY <2>1 DEF Script
  <2>2. ASSUME backfill' = [backfill EXCEPT !.at = "done"] PROVE backfill' \in Script
    BY <2>2 DEF Script
  <2> QED BY <1>6, <2>1, <2>2 DEF NextTenant
<1>7. CASE FetchPage
  <2>1. CASE Page = {}
    BY <1>7, <2>1 DEF FetchPage, Script
  <2>2. CASE Page # {}
    BY <1>7, <2>2, FetchedRows DEF FetchPage
  <2> QED BY <2>1, <2>2
<1>8. CASE StoreNext
  <2> DEFINE x == Head(backfill.rows)
  <2>1. backfill.rows \in Seq(Extraction) /\ backfill.rows # <<>>
    BY <1>8 DEF StoreNext, Script
  <2>2. x \in Extraction /\ Tail(backfill.rows) \in Seq(Extraction)
    BY <2>1
  <2>3. x.memo \in Memo /\ x.text \in Text /\ x.memo \in Nat
    BY <2>2, ClaimAssumption DEF Extraction
  <2>4. backfill' = [backfill EXCEPT !.rows = Tail(@), !.cursor = x.memo]
    BY <1>8 DEF StoreNext
  <2>5. backfill' \in Script
    BY <2>2, <2>3, <2>4 DEF Script
  <2>6. claims' \subseteq Claim /\ due' \subseteq Memo
    BY <1>8, <2>3, WithClaimKeeps DEF StoreNext
  <2> QED BY <1>8, <2>5, <2>6 DEF StoreNext
<1>9. CASE PageEnds
  BY <1>9 DEF PageEnds, Script
<1>10. CASE UNCHANGED clVars
  BY <1>10 DEF clVars
<1> QED BY <1>1, <1>2, <1>3, <1>4, <1>5, <1>6, <1>7, <1>8, <1>9, <1>10 DEF ClaimsNext

LEMMA ClaimsNextInv == ClaimsInv /\ [ClaimsNext]_clVars => ClaimsInv'
<1> SUFFICES ASSUME ClaimsInv, [ClaimsNext]_clVars PROVE DueDone'
  BY ClaimsTypeStep DEF ClaimsInv
<1>0. ClaimsTypeOK /\ DueDone /\ due \subseteq Memo /\ claims \subseteq Claim /\ backfill \in Script
      /\ memo \in [Memo -> MemoRow] /\ backfill.rows \in Seq(Extraction)
  BY DEF ClaimsInv, ClaimsTypeOK, Script
<1>1. ASSUME NEW m \in Memo, NEW text \in Text, RememberText(m, text) PROVE DueDone'
  <2>1. \A n \in due : memo'[n] = memo[n]
    BY <1>0, <1>1 DEF RememberText, DueDone
  <2> QED BY <1>1, <2>1, StillDoneKept DEF RememberText
<1>2. ASSUME NEW m \in Memo, NEW text \in Text, AmendText(m, text) PROVE DueDone'
  <2>1. \A n \in due' : n \in due /\ memo'[n] = memo[n]
    BY <1>0, <1>2 DEF AmendText
  <2> QED BY <1>2, <2>1, StillDoneKept DEF AmendText
<1>3. ASSUME NEW m \in Memo, LoseMemo(m) PROVE DueDone'
  <2>1. \A n \in due' : n \in due /\ n # m /\ memo'[n] = memo[n]
    BY <1>0, <1>3 DEF LoseMemo
  <2>2. \A c \in claims : c.memo # m => c \in claims'
    BY <1>3 DEF LoseMemo
  <2> QED BY <1>3, <2>1, <2>2, StillDoneKept DEF LoseMemo
<1>4. ASSUME NEW x \in pending, ExtractClaim(x) PROVE DueDone'
  <2>1. x.memo \in Memo /\ x.text \in Text
    BY DEF ClaimsInv, ClaimsTypeOK, Extraction
  <2>2. claims \subseteq claims'
    BY <1>0, <1>4, <2>1, WithClaimKeeps DEF ExtractClaim
  <2> QED BY <1>4, <2>2, StillDoneKept DEF ExtractClaim
<1>5. CASE StartBackfill
  <2>1. /\ backfill'.at = "fetch" /\ backfill'.left = {Tenant[m] : m \in Memo \ (Is("none") \cup Is("gone"))}
        /\ memo' = memo /\ due' = Is("live")
    BY <1>0, <1>5 DEF StartBackfill, Script
  <2>2. \A m \in due' : m \in Memo /\ memo[m].is = "live" /\ Tenant[m] \in backfill'.left
    BY <2>1 DEF Is
  <2> QED BY <2>1, <2>2 DEF DueDone, StillDone, ToFetch
<1>6. CASE NextTenant
  <2>0. /\ backfill.at = "fetch" /\ backfill.tenant = NoTenant
        /\ UNCHANGED <<memo, claims, due>>
    BY <1>6 DEF NextTenant
  <2>1. ASSUME NEW m \in due PROVE memo[m].is = "live" /\ (ToFetch(m) \/ Claimed(m)) /\ (Claimed(m) <=> Claimed(m)')
    <3>1. Tenant[m] # NoTenant
      BY <1>0, <2>1, ClaimAssumption
    <3> QED BY <1>0, <2>0, <2>1, <3>1 DEF DueDone, StillDone, Ahead, Claimed
  <2>2. ASSUME NEW k \in backfill.left,
               backfill' = [backfill EXCEPT !.tenant = k, !.left = @ \ {k}, !.cursor = 0]
        PROVE  DueDone'
    <3>1. /\ backfill'.at = "fetch" /\ backfill'.tenant = k /\ backfill'.left = backfill.left \ {k}
          /\ backfill'.cursor = 0
      BY <1>0, <2>0, <2>2 DEF Script
    <3>2. \A m \in due : ToFetch(m) => ToFetch(m)' \/ Ahead(m)'
      BY <3>1 DEF ToFetch, Ahead
    <3> QED BY <2>0, <2>1, <3>1, <3>2 DEF DueDone, StillDone
  <2>3. ASSUME backfill.left = {}, backfill' = [backfill EXCEPT !.at = "done"] PROVE DueDone'
    <3>1. backfill'.at = "done"
      BY <1>0, <2>3 DEF Script
    <3> QED BY <2>0, <2>1, <2>3, <3>1 DEF DueDone, StillDone, ToFetch
  <2> QED BY <1>6, <2>2, <2>3 DEF NextTenant
<1>7. CASE FetchPage
  <2>0. /\ backfill.at = "fetch" /\ backfill.tenant # NoTenant
        /\ UNCHANGED <<memo, claims, due>>
    BY <1>7 DEF FetchPage
  <2>1. ASSUME NEW m \in due
        PROVE  /\ m \in Memo /\ memo[m].is = "live" /\ (ToFetch(m) \/ Ahead(m) \/ Claimed(m))
               /\ (Claimed(m) <=> Claimed(m)')
    BY <1>0, <2>0, <2>1 DEF DueDone, StillDone, Claimed
  <2>2. CASE Page = {}
    <3>1. backfill'.at = "fetch" /\ backfill'.left = backfill.left
      BY <1>0, <1>7, <2>0, <2>2 DEF FetchPage, Script
    <3>2. \A m \in due : ~Ahead(m)
      BY <1>0, <2>1, <2>2, FetchedPage
    <3> QED BY <2>0, <2>1, <3>1, <3>2 DEF DueDone, StillDone, ToFetch
  <2>3. CASE Page # {}
    <3>1. /\ backfill'.at = "rows"
          /\ backfill'.left = backfill.left /\ backfill'.tenant = backfill.tenant
          /\ backfill'.short = (Cardinality(Page) < PageSize) /\ backfill'.rows # <<>>
          /\ \A i \in 1..Len(backfill'.rows) : backfill'.rows[i].memo \in Page
          /\ \A m \in Page : \E i \in 1..Len(backfill'.rows) :
                backfill'.rows[i] = [memo |-> m, text |-> memo[m].text]
      BY <1>0, <1>7, <2>3, FetchedRows
    <3>2. ASSUME NEW m \in due, Ahead(m) PROVE InRows(m)' \/ BeyondRows(m)'
      <4>1. m \in Page \/ (~(Cardinality(Page) < PageSize) /\ \A p \in Page : m < p)
        BY <1>0, <2>1, <3>2, FetchedPage
      <4>2. CASE m \in Page
        BY <2>0, <3>1, <4>2 DEF InRows
      <4>3. CASE ~(Cardinality(Page) < PageSize) /\ \A p \in Page : m < p
        BY <3>1, <3>2, <4>3 DEF BeyondRows, Ahead
      <4> QED BY <4>1, <4>2, <4>3
    <3>3. \A m \in due : ToFetch(m) => ToFetch(m)'
      BY <3>1 DEF ToFetch
    <3> QED BY <2>0, <2>1, <3>1, <3>2, <3>3 DEF DueDone, StillDone
  <2> QED BY <2>2, <2>3
<1>8. CASE StoreNext
  <2> DEFINE x == Head(backfill.rows)
  <2>0. /\ backfill.at = "rows" /\ backfill.rows # <<>> /\ memo' = memo /\ due' \subseteq due
        /\ backfill' = [backfill EXCEPT !.rows = Tail(@), !.cursor = x.memo]
    BY <1>8 DEF StoreNext
  <2>1. /\ x \in Extraction /\ x = backfill.rows[1] /\ Len(backfill.rows) \in Nat /\ Len(backfill.rows) >= 1
        /\ Tail(backfill.rows) \in Seq(Extraction) /\ Len(Tail(backfill.rows)) = Len(backfill.rows) - 1
        /\ \A i \in 1..Len(Tail(backfill.rows)) : Tail(backfill.rows)[i] = backfill.rows[i + 1]
    BY <1>0, <2>0
  <2>2. /\ backfill'.at = "rows" /\ backfill'.left = backfill.left /\ backfill'.tenant = backfill.tenant
        /\ backfill'.short = backfill.short /\ backfill'.rows = Tail(backfill.rows)
        /\ backfill'.cursor = x.memo
    BY <1>0, <2>0 DEF Script
  <2>3. x.memo \in Memo /\ x.text \in Text
    BY <2>1 DEF Extraction
  <2>4. claims \subseteq claims' /\ (x.memo \in due' => Marker[x.text] = NoMarker \/
          \E c \in claims' : c.memo = x.memo /\ c.about = About[x.text] /\ c.predicate = Predicate(x.text))
    BY <1>0, <1>8, <2>3, WithClaimKeeps DEF StoreNext
  <2> HIDE DEF x
  <2>5. ASSUME NEW m \in due' PROVE memo'[m].is = "live" /\ StillDone(m)'
    <3>1. /\ memo[m].is = "live" /\ memo'[m] = memo[m]
          /\ (ToFetch(m) \/ InRows(m) \/ BeyondRows(m) \/ Claimed(m))
      BY <1>0, <2>0, <2>5 DEF DueDone, StillDone
    <3>2. Claimed(m) => Claimed(m)'
      BY <2>4, <3>1 DEF Claimed
    <3>3. ToFetch(m) => ToFetch(m)'
      BY <2>2 DEF ToFetch
    <3>4. BeyondRows(m) => BeyondRows(m)'
      <4> SUFFICES ASSUME BeyondRows(m) PROVE BeyondRows(m)'
        OBVIOUS
      <4>1. \A i \in 1..Len(backfill.rows) : m < backfill.rows[i].memo
        BY DEF BeyondRows
      <4>2. m < x.memo
        BY <2>1, <4>1
      <4>3. \A i \in 1..Len(backfill'.rows) : m < backfill'.rows[i].memo
        BY <2>1, <2>2, <4>1
      <4> QED BY <2>2, <4>2, <4>3 DEF BeyondRows
    <3>5. InRows(m) => InRows(m)' \/ Claimed(m)'
      <4> SUFFICES ASSUME InRows(m) PROVE InRows(m)' \/ Claimed(m)'
        OBVIOUS
      <4>1. PICK i \in 1..Len(backfill.rows) : backfill.rows[i] = [memo |-> m, text |-> memo[m].text]
        BY DEF InRows
      <4>2. CASE i = 1
        <5>1. x.memo = m /\ x.text = memo[m].text
          BY <2>1, <4>1, <4>2
        <5> QED BY <2>4, <2>5, <3>1, <5>1 DEF Claimed
      <4>3. CASE i # 1
        <5>1. i - 1 \in 1..Len(backfill'.rows) /\ backfill'.rows[i - 1] = backfill.rows[i]
          BY <2>1, <2>2, <4>3
        <5> QED BY <3>1, <4>1, <5>1 DEF InRows
      <4> QED BY <4>2, <4>3
    <3> QED BY <2>2, <3>1, <3>2, <3>3, <3>4, <3>5 DEF StillDone
  <2> QED BY <2>5 DEF DueDone
<1>9. CASE PageEnds
  <2>1. /\ backfill.at = "rows" /\ backfill.rows = <<>> /\ UNCHANGED <<memo, claims, due>>
        /\ backfill'.at = "fetch" /\ backfill'.left = backfill.left /\ backfill'.cursor = backfill.cursor
        /\ ~backfill.short => backfill'.tenant = backfill.tenant
    BY <1>0, <1>9 DEF PageEnds, Script
  <2>2. ASSUME NEW m \in due
        PROVE  memo[m].is = "live" /\ (ToFetch(m) \/ BeyondRows(m) \/ Claimed(m))
    <3>1. ~InRows(m)
      BY <2>1 DEF InRows
    <3> QED BY <1>0, <2>1, <2>2, <3>1 DEF DueDone, StillDone
  <2>3. \A m \in due : (ToFetch(m) => ToFetch(m)') /\ (BeyondRows(m) => Ahead(m)') /\ (Claimed(m) => Claimed(m)')
    BY <2>1 DEF ToFetch, BeyondRows, Ahead, Claimed
  <2> QED BY <2>1, <2>2, <2>3 DEF DueDone, StillDone
<1>10. CASE UNCHANGED clVars
  BY <1>10, StillDoneKept DEF clVars
<1> QED BY <1>1, <1>2, <1>3, <1>4, <1>5, <1>6, <1>7, <1>8, <1>9, <1>10 DEF ClaimsNext

(***************************************************************************)
(* For any fragments, keys, contents and page size, and whatever comes,    *)
(* changes, goes or fails while the script pages: it leaves out none that  *)
(* was its to do (backfill-claims.js:158).                                 *)
(***************************************************************************)
THEOREM NoneMissed == ClaimsSpec => []BackfillMissesNone
<1>1. ClaimsInv => BackfillMissesNone
  BY DEF ClaimsInv, DueDone, StillDone, Claimed, BackfillMissesNone
<1> QED BY <1>1, ClaimsInitInv, ClaimsNextInv, PTL DEF ClaimsSpec

(***************************************************************************)
(* Memories, claims and the script are well typed.                         *)
(***************************************************************************)
THEOREM ClaimsTypeCorrect == ClaimsSpec => []ClaimsTypeOK
<1>1. ClaimsInv => ClaimsTypeOK
  BY DEF ClaimsInv
<1> QED BY <1>1, ClaimsInitInv, ClaimsNextInv, PTL DEF ClaimsSpec
=============================================================================
