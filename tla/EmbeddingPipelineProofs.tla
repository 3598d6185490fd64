---------------------- MODULE EmbeddingPipelineProofs ----------------------
(***************************************************************************)
(* Theorems about EmbeddingPipeline, for any fragments, contents, sweeps,  *)
(* batch sizes and retry limits.                                           *)
(***************************************************************************)
EXTENDS EmbeddingPipeline, FiniteSetTheorems, SequenceTheorems, TLAPS

\* what the jobs hold, and the rows a job holds
Carried(j) == {job[j].batch[i] : i \in DOMAIN job[j].batch}

(***************************************************************************)
(* A job that asks for or stores vectors has a current chunk that is a     *)
(* nonempty prefix of its batch.                                           *)
(***************************************************************************)
Busy == {"embed", "store", "single", "save"}
ChunkOf(r) == /\ r.left <= Len(r.batch)
              /\ r.pc \in Busy => r.left >= 1
Chunked == \A j \in Job : ChunkOf(job[j])

(***************************************************************************)
(* An item in a job's hands was read from a row, and is still what the row *)
(* says unless the row has been amended or deleted in the meantime.        *)
(***************************************************************************)
Faithful == {it \in Item : /\ rows[it.id] # NoRow
                           /\ Exists(it.id) /\ rows[it.id].content # it.content => it.id \in overtaken}
ItemsFaithful == \A j \in Job : Carried(j) \subseteq Faithful

PipelineInv == TypeOK /\ Chunked /\ ItemsFaithful /\ StaleOnlyIfOvertaken

----------------------------------------------------------------------------
(***************************************************************************)
(* Sequences.                                                              *)
(***************************************************************************)
Elements(s) == {s[i] : i \in DOMAIN s}

\* a stretch of a sequence
LEMMA Stretch ==
  ASSUME NEW S, NEW s \in Seq(S), NEW a \in Nat \ {0}, NEW b \in Nat, b <= Len(s)
  PROVE  /\ SubSeq(s, a, b) \in Seq(S) /\ Elements(SubSeq(s, a, b)) \subseteq Elements(s)
         /\ Len(SubSeq(s, a, b)) = IF a <= b THEN b - a + 1 ELSE 0
<1>1. /\ SubSeq(s, a, b) \in Seq(S) /\ Len(SubSeq(s, a, b)) = IF a <= b THEN b - a + 1 ELSE 0
      /\ \A i \in 1..(b - a + 1) : SubSeq(s, a, b)[i] = s[a + i - 1]
  BY SubSeqProperties, LenProperties, SMTT(30)
<1>2. ASSUME NEW i \in DOMAIN SubSeq(s, a, b) PROVE SubSeq(s, a, b)[i] \in Elements(s)
  <2>1. a <= b /\ i \in 1..(b - a + 1)
    BY <1>1, LenProperties
  <2>2. a + i - 1 \in DOMAIN s /\ SubSeq(s, a, b)[i] = s[a + i - 1]
    BY <1>1, <2>1, LenProperties
  <2> QED BY <2>2 DEF Elements
<1> QED BY <1>1, <1>2 DEF Elements

\* an element taken out
LEMMA Removed ==
  ASSUME NEW S, NEW s \in Seq(S), NEW i \in 1..Len(s)
  PROVE  /\ RemoveAt(s, i) \in Seq(S) /\ Len(RemoveAt(s, i)) = Len(s) - 1
         /\ Elements(RemoveAt(s, i)) \subseteq Elements(s)
<1> DEFINE a == SubSeq(s, 1, i - 1)
           b == SubSeq(s, i + 1, Len(s))
<1>1. Len(s) \in Nat
  BY LenProperties
<1>2. a \in Seq(S) /\ Elements(a) \subseteq Elements(s) /\ Len(a) = i - 1
  BY <1>1, Stretch
<1>3. b \in Seq(S) /\ Elements(b) \subseteq Elements(s) /\ Len(b) = Len(s) - i
  BY <1>1, Stretch
<1> HIDE DEF a, b
<1>4. /\ a \o b \in Seq(S) /\ Len(a \o b) = Len(s) - 1
      /\ \A k \in 1..Len(a) + Len(b) : (a \o b)[k] = IF k <= Len(a) THEN a[k] ELSE b[k - Len(a)]
  <2>1. /\ a \o b \in Seq(S) /\ Len(a \o b) = Len(a) + Len(b)
        /\ \A k \in 1..Len(a) + Len(b) : (a \o b)[k] = IF k <= Len(a) THEN a[k] ELSE b[k - Len(a)]
    BY <1>2, <1>3, ConcatProperties
  <2> QED BY <1>1, <1>2, <1>3, <2>1
<1>5. ASSUME NEW k \in DOMAIN (a \o b) PROVE (a \o b)[k] \in Elements(s)
  <2>1. k \in 1..Len(a) + Len(b)
    BY <1>1, <1>2, <1>3, <1>4, LenProperties
  <2>2. CASE k <= Len(a)
    <3>1. k \in DOMAIN a
      BY <1>2, <2>1, <2>2, LenProperties
    <3> QED BY <1>2, <1>4, <2>1, <2>2, <3>1 DEF Elements
  <2>3. CASE ~(k <= Len(a))
    <3>1. k - Len(a) \in DOMAIN b
      BY <1>1, <1>2, <1>3, <2>1, <2>3, LenProperties
    <3> QED BY <1>3, <1>4, <2>1, <2>3, <3>1 DEF Elements
  <2> QED BY <2>2, <2>3
<1> QED BY <1>4, <1>5 DEF RemoveAt, a, b, Elements

\* all but the first
LEMMA RestOfSeq ==
  ASSUME NEW S, NEW s \in Seq(S), s # <<>>
  PROVE  /\ Tail(s) \in Seq(S) /\ Len(Tail(s)) = Len(s) - 1
         /\ Elements(Tail(s)) \subseteq Elements(s)
<1>1. /\ Tail(s) \in Seq(S) /\ Len(Tail(s)) = Len(s) - 1
      /\ \A i \in 1..Len(Tail(s)) : Tail(s)[i] = s[i + 1]
  BY HeadTailProperties
<1> DEFINE t == Tail(s)
<1>2. t \in Seq(S) /\ Len(t) = Len(s) - 1 /\ \A i \in 1..Len(t) : t[i] = s[i + 1]
  BY <1>1
<1> HIDE DEF t
<1>3. ASSUME NEW i \in DOMAIN t PROVE t[i] \in Elements(s)
  <2>1. i \in 1..Len(t) /\ i + 1 \in DOMAIN s
    BY <1>2, LenProperties
  <2> QED BY <1>2, <2>1 DEF Elements
<1> QED BY <1>2, <1>3 DEF Elements, t

\* the position the error names is one of the chunk
LEMMA NamedInChunk ==
  ASSUME NEW i \in Nat \ {0}
  PROVE  NamedAt(i) \in 1..i
<1>1. SubBatch \in Nat \ {0}
  BY BoundAssumption
<1>2. (i - 1) % SubBatch \in 0..(i - 1)
  BY <1>1
<1> QED BY <1>2 DEF NamedAt

----------------------------------------------------------------------------
LEMMA IdleJob == Idle \in JobState /\ ChunkOf(Idle) /\ Elements(Idle.batch) = {} /\ Idle.pc = "idle"
<1>1. <<>> \in Seq(Item) /\ Len(<<>>) = 0 /\ DOMAIN <<>> = {}
  BY EmptySeq
<1> QED BY <1>1 DEF Idle, JobState, ChunkOf, Elements, Busy

LEMMA AtJob ==
  ASSUME PipelineInv, NEW j \in Job
  PROVE  /\ job \in [Job -> JobState] /\ job[j] \in JobState /\ ChunkOf(job[j])
         /\ job[j].batch \in Seq(Item) /\ Len(job[j].batch) \in Nat /\ job[j].left \in Nat
         /\ job[j].ids \subseteq Frag /\ job[j].count \in Nat
         /\ Elements(job[j].batch) \subseteq Faithful
<1>1. job \in [Job -> JobState] /\ ChunkOf(job[j]) /\ Elements(job[j].batch) \subseteq Faithful
  BY DEF PipelineInv, TypeOK, Chunked, ItemsFaithful, Carried, Elements
<1>2. job[j].batch \in Seq(Item)
  BY <1>1 DEF JobState
<1> QED BY <1>1, <1>2, LenProperties DEF JobState

\* what a SELECT returns is as the rows are
LEMMA PendingRows ==
  ASSUME PipelineInv, NEW F \in SUBSET Frag, NEW items \in Pending(F)
  PROVE  items \in Seq(Item) /\ Elements(items) \subseteq Faithful
<1> DEFINE W == {f \in F : Unembedded(f)}
           n == Cardinality(W)
<1>1. n \in Nat
  <2>1. IsFiniteSet(W)
    BY DataAssumption, FS_Subset
  <2> QED BY <2>1, FS_CardinalityType
<1>2. PICK s \in [1..n -> W] : items = [i \in 1..n |-> [id |-> s[i], content |-> rows[s[i]].content]]
  BY DEF Pending
<1>3. ASSUME NEW i \in 1..n
      PROVE  items[i] \in Item /\ items[i] \in Faithful
  <2>1. s[i] \in Frag /\ Unembedded(s[i])
    BY <1>2
  <2>2. rows[s[i]] \in Row
    BY <2>1 DEF Unembedded, Exists, PipelineInv, TypeOK
  <2>3. items[i] = [id |-> s[i], content |-> rows[s[i]].content]
    BY <1>2
  <2> HIDE DEF W, n
  <2>4. items[i] \in Item /\ items[i].id = s[i] /\ items[i].content = rows[s[i]].content
    BY <2>1, <2>2, <2>3 DEF Item, Row
  <2> QED BY <2>1, <2>4 DEF Faithful, Unembedded, Exists
<1>4. items \in [1..n -> Item]
  BY <1>2, <1>3
<1> HIDE DEF n
<1>5. items \in Seq(Item) /\ DOMAIN items = 1..n
  BY <1>1, <1>4, IsASeq
<1> QED BY <1>3, <1>5 DEF Elements

\* the job goes on with a chunk of what it is given
LEMMA Continued ==
  ASSUME PipelineInv, NEW j \in Job, NEW items \in Seq(Item), Continue(j, items)
  PROVE  \E r \in JobState : /\ job' = [job EXCEPT ![j] = r]
                             /\ ChunkOf(r) /\ Elements(r.batch) \subseteq Elements(items)
<1>1. CASE items = <<>>
  BY <1>1, IdleJob DEF Continue, Elements
<1>2. CASE items # <<>>
  <2> DEFINE pc == IF j \in Script THEN "single" ELSE "embed"
             left == Least(ChunkCap, Len(items))
             r == [Idle EXCEPT !.pc = pc, !.batch = items, !.left = left, !.count = 1]
  <2>1. job' = [job EXCEPT ![j] = r]
    BY <1>2 DEF Continue
  <2>2. Len(items) \in Nat \ {0}
    BY <1>2, EmptySeq, LenProperties
  <2>3. left \in Nat /\ left >= 1 /\ left <= Len(items)
    BY <2>2, BoundAssumption DEF Least
  <2>4. pc \in {"single", "embed"}
    OBVIOUS
  <2> HIDE DEF pc, left
  <2>5. r \in JobState /\ r.left = left /\ r.batch = items
    BY <2>3, <2>4 DEF Idle, JobState
  <2> HIDE DEF r
  <2>6. ChunkOf(r)
    BY <2>3, <2>5 DEF ChunkOf
  <2> QED BY <2>1, <2>5, <2>6
<1> QED BY <1>1, <1>2

----------------------------------------------------------------------------
(***************************************************************************)
(* One job goes on. The rows it leaves may have new vectors only.          *)
(***************************************************************************)
Kept == rows' \in [Frag -> Row \cup {NoRow, Gone}] /\ Faithful \subseteq Faithful'
        /\ StaleOnlyIfOvertaken'

LEMMA UnchangedRows ==
  ASSUME PipelineInv, UNCHANGED <<rows, overtaken>>
  PROVE  Kept
BY DEF Kept, PipelineInv, TypeOK, Faithful, StaleOnlyIfOvertaken, Exists

LEMMA JobStep ==
  ASSUME PipelineInv, NEW j \in Job, NEW r \in JobState, ChunkOf(r),
         job' = [job EXCEPT ![j] = r], Elements(r.batch) \subseteq Faithful, Kept,
         queue' \in Seq(Frag), dead' \subseteq Frag, UNCHANGED <<owed, crashes, overtaken>>
  PROVE  PipelineInv'
<1>1. \A k \in Job : job'[k] = IF k = j THEN r ELSE job[k]
  BY AtJob
<1>2. Chunked'
  BY <1>1 DEF PipelineInv, Chunked
<1>3. job' \in [Job -> JobState]
  BY AtJob
<1>4. \A k \in Job : job'[k].left <= Len(job'[k].batch)
  BY <1>2 DEF Chunked, ChunkOf
<1>5. TypeOK'
  BY <1>3, <1>4 DEF PipelineInv, TypeOK, Kept
<1>6. ItemsFaithful'
  BY <1>1, AtJob DEF ItemsFaithful, Carried, Elements, Kept
<1> QED BY <1>2, <1>5, <1>6 DEF PipelineInv, Kept

LEMMA NewVector ==
  ASSUME NEW old \in Row, NEW v \in Content
  PROVE  /\ [old EXCEPT !.vec = v] \in Row
         /\ [old EXCEPT !.vec = v].content = old.content /\ [old EXCEPT !.vec = v].vec = v
BY DEF Row

\* the UPDATE stores vectors of items the job holds
LEMMA SavedKept ==
  ASSUME PipelineInv, NEW items \in Seq(Item), Elements(items) \subseteq Faithful,
         rows' = Saved(items), UNCHANGED overtaken
  PROVE  Kept
<1> DEFINE at(f) == CHOOSE i \in DOMAIN items : items[i].id = f
           Hit(f) == Exists(f) /\ \E i \in DOMAIN items : items[i].id = f
<1>1. ASSUME NEW f \in Frag, Hit(f)
      PROVE  /\ rows[f] \in Row /\ rows'[f] = [rows[f] EXCEPT !.vec = items[at(f)].content]
             /\ items[at(f)].content \in Content
             /\ items[at(f)].content # rows[f].content => f \in overtaken
  <2>1. at(f) \in DOMAIN items /\ items[at(f)].id = f
    BY <1>1
  <2> HIDE DEF at
  <2>2. items[at(f)] \in Faithful
    BY <2>1 DEF Elements
  <2>3. rows[f] \in Row
    BY <1>1 DEF Exists, PipelineInv, TypeOK
  <2>4. rows'[f] = [rows[f] EXCEPT !.vec = items[at(f)].content]
    BY <1>1 DEF Saved, at
  <2> DEFINE it == items[at(f)]
  <2>5. it \in Faithful /\ it.id = f
    BY <2>1, <2>2
  <2> HIDE DEF it
  <2>6. it.content \in Content /\ (it.content # rows[f].content => f \in overtaken)
    BY <1>1, <2>5 DEF Faithful, Item
  <2> QED BY <2>3, <2>4, <2>6 DEF it
<1>2. ASSUME NEW f \in Frag, ~Hit(f) PROVE rows'[f] = rows[f]
  BY <1>2 DEF Saved
<1> HIDE DEF at, Hit
<1>3. ASSUME NEW f \in Frag
      PROVE  /\ rows'[f] \in Row \cup {NoRow, Gone}
             /\ rows'[f] = NoRow <=> rows[f] = NoRow
             /\ rows'[f] = Gone <=> rows[f] = Gone
             /\ rows[f] \in Row => rows'[f].content = rows[f].content
  <2>1. CASE Hit(f)
    <3>1. rows'[f] \in Row /\ rows'[f].content = rows[f].content
      <4> DEFINE v == items[at(f)].content
      <4>1. v \in Content /\ rows[f] \in Row /\ rows'[f] = [rows[f] EXCEPT !.vec = v]
        BY <1>1, <2>1
      <4> HIDE DEF v
      <4> QED BY <4>1, NewVector
    <3> QED BY <1>1, <2>1, <3>1, RowAssumption
  <2>2. CASE ~Hit(f)
    BY <1>2, <2>2 DEF PipelineInv, TypeOK
  <2> QED BY <2>1, <2>2
<1>4. rows' \in [Frag -> Row \cup {NoRow, Gone}]
  <2>1. DOMAIN rows' = Frag /\ rows' = [f \in Frag |-> rows'[f]]
    BY DEF Saved
  <2> QED BY <1>3, <2>1
<1>5. ASSUME NEW f \in Frag
      PROVE  /\ Exists(f)' <=> Exists(f)
             /\ Exists(f) => rows'[f].content = rows[f].content
  BY <1>3 DEF Exists, PipelineInv, TypeOK
<1>6. Faithful \subseteq Faithful'
  <2> SUFFICES ASSUME NEW it \in Faithful PROVE it \in Faithful'
    OBVIOUS
  <2>1. PICK f \in Frag : f = it.id
    BY DEF Faithful, Item
  <2>2. /\ it \in Item /\ rows[f] # NoRow
        /\ Exists(f) /\ rows[f].content # it.content => f \in overtaken
    BY <2>1 DEF Faithful
  <2>3. rows'[f] # NoRow
    BY <1>3, <2>2
  <2>4. rows'[f] \notin {NoRow, Gone} /\ rows'[f].content # it.content => f \in overtaken'
    BY <1>5, <2>2 DEF Exists
  <2> QED BY <2>1, <2>2, <2>3, <2>4 DEF Faithful, Exists
<1>7. StaleOnlyIfOvertaken'
  <2> SUFFICES ASSUME NEW f \in Frag, rows'[f] \notin {NoRow, Gone},
                      rows'[f].vec \notin {NoVec, rows'[f].content}
               PROVE  f \in overtaken
    BY DEF StaleOnlyIfOvertaken, Exists
  <2>1. Exists(f)
    BY <1>5 DEF Exists
  <2>2. CASE Hit(f)
    <3>1. rows'[f].vec = items[at(f)].content
      <4> DEFINE v == items[at(f)].content
      <4>1. v \in Content /\ rows[f] \in Row /\ rows'[f] = [rows[f] EXCEPT !.vec = v]
        BY <1>1, <2>2
      <4> HIDE DEF v
      <4>2. rows'[f].vec = v
        BY <4>1, NewVector
      <4> QED BY <4>2 DEF v
    <3>2. items[at(f)].content # rows[f].content
      BY <1>5, <2>1, <3>1
    <3> QED BY <1>1, <2>2, <3>2
  <2>3. CASE ~Hit(f)
    BY <1>2, <2>1, <2>3 DEF PipelineInv, StaleOnlyIfOvertaken
  <2> QED BY <2>2, <2>3
<1> QED BY <1>4, <1>6, <1>7 DEF Kept

\* the four ways a job goes on
LEMMA GoOn ==
  ASSUME PipelineInv, NEW j \in Job, NEW items \in Seq(Item), Continue(j, items),
         Elements(items) \subseteq Faithful, Kept,
         queue' \in Seq(Frag), dead' \subseteq Frag, UNCHANGED <<owed, crashes, overtaken>>
  PROVE  PipelineInv'
<1>1. PICK r \in JobState : /\ job' = [job EXCEPT ![j] = r]
                            /\ ChunkOf(r) /\ Elements(r.batch) \subseteq Elements(items)
  BY Continued
<1> QED BY <1>1, JobStep

LEMMA SameBatch ==
  ASSUME PipelineInv, NEW j \in Job, NEW r \in JobState, r.batch = job[j].batch,
         r.left = job[j].left, r.pc \in Busy => r.left >= 1,
         job' = [job EXCEPT ![j] = r], UNCHANGED <<rows, overtaken>>,
         queue' \in Seq(Frag), dead' \subseteq Frag, UNCHANGED <<owed, crashes>>
  PROVE  PipelineInv'
<1>1. ChunkOf(r) /\ Elements(r.batch) \subseteq Faithful
  BY AtJob DEF ChunkOf
<1> QED BY <1>1, UnchangedRows, JobStep

LEMMA Stops ==
  ASSUME PipelineInv, NEW j \in Job, job' = [job EXCEPT ![j] = Idle],
         UNCHANGED <<rows, owed, queue, dead, crashes, overtaken>>
  PROVE  PipelineInv'
<1>1. queue' \in Seq(Frag) /\ dead' \subseteq Frag /\ Elements(Idle.batch) \subseteq Faithful
  BY IdleJob DEF PipelineInv, TypeOK
<1> QED BY <1>1, IdleJob, UnchangedRows, JobStep

\* the first row of the chunk is done with
LEMMA NextRow ==
  ASSUME PipelineInv, NEW j \in Job, NextSingle(j), job[j].pc \in Busy, Kept,
         queue' \in Seq(Frag), dead' \subseteq Frag, UNCHANGED <<owed, crashes, overtaken>>
  PROVE  PipelineInv'
<1> DEFINE old == job[j]
           rest == Tail(old.batch)
<1>1. old.left >= 1 /\ old.left <= Len(old.batch)
  BY AtJob DEF ChunkOf
<1>3. rest \in Seq(Item) /\ Elements(rest) \subseteq Faithful /\ Len(rest) = Len(old.batch) - 1
  <2>1. old.batch \in Seq(Item) /\ old.batch # <<>> /\ Elements(old.batch) \subseteq Faithful
    BY <1>1, AtJob, EmptySeq
  <2> QED BY <2>1, RestOfSeq
<1>4. CASE old.left = 1 \/ j \in Script
  BY <1>3, <1>4, GoOn DEF NextSingle
<1>5. CASE ~(old.left = 1 \/ j \in Script)
  <2> DEFINE r == [old EXCEPT !.pc = "single", !.batch = rest, !.left = old.left - 1, !.count = 1]
  <2>1. job' = [job EXCEPT ![j] = r]
    BY <1>5, AtJob DEF NextSingle, JobState
  <2>2. old.left - 1 \in Nat /\ old.left - 1 >= 1 /\ old.left - 1 <= Len(rest)
    BY <1>1, <1>3, <1>5, AtJob
  <2> HIDE DEF rest
  <2>3. r \in JobState /\ r.batch = rest /\ r.left = old.left - 1
    BY <1>3, <2>2, AtJob DEF JobState
  <2> HIDE DEF r
  <2>4. ChunkOf(r)
    BY <2>2, <2>3 DEF ChunkOf
  <2> QED BY <1>3, <2>1, <2>3, <2>4, JobStep
<1> QED BY <1>4, <1>5

----------------------------------------------------------------------------
(***************************************************************************)
(* The jobs.                                                               *)
(***************************************************************************)
LEMMA PollerSteps ==
  ASSUME PipelineInv, StartPoll \/ Take \/ SelectPopped \/ PollFails
  PROVE  PipelineInv'
<1>0. Poller \in Job /\ queue \in Seq(Frag) /\ dead \subseteq Frag
  BY DEF Job, PipelineInv, TypeOK
<1> DEFINE old == job[Poller]
<1>1. CASE StartPoll
  <2> DEFINE r == [old EXCEPT !.pc = "take"]
  <2>1. /\ job' = [job EXCEPT ![Poller] = r]
        /\ UNCHANGED <<rows, owed, queue, dead, crashes, overtaken>>
    BY <1>0, <1>1, AtJob DEF StartPoll, JobState
  <2>2. r \in JobState /\ r.batch = old.batch /\ r.left = old.left /\ r.pc = "take"
    BY <1>0, AtJob DEF JobState
  <2> HIDE DEF r
  <2>3. r.pc \notin Busy
    BY <2>2 DEF Busy
  <2> QED BY <1>0, <2>1, <2>2, <2>3, SameBatch
<1>2. CASE Take
  <2>1. CASE queue # <<>> /\ old.count < PollBatch
    <3> DEFINE r == [old EXCEPT !.ids = old.ids \cup {Head(queue)}, !.count = old.count + 1]
    <3>1. Head(queue) \in Frag /\ Tail(queue) \in Seq(Frag)
      BY <1>0, <2>1, HeadTailProperties
    <3>2. /\ job' = [job EXCEPT ![Poller] =
                      [@ EXCEPT !.ids = old.ids \cup {Head(queue)}, !.count = old.count + 1]]
          /\ queue' = Tail(queue) /\ old.pc = "take"
          /\ UNCHANGED <<rows, owed, dead, crashes, overtaken>>
      BY <1>2, <2>1 DEF Take
    <3>5. job' = [job EXCEPT ![Poller] = r]
      <4> DEFINE h == Head(queue)
      <4>1. job' = [job EXCEPT ![Poller] =
                     [@ EXCEPT !.ids = old.ids \cup {h}, !.count = old.count + 1]]
        BY <1>0, <3>2, AtJob DEF JobState
      <4> HIDE DEF h
      <4>2. \A x, y : [job EXCEPT ![Poller] = [@ EXCEPT !.ids = x, !.count = y]]
                      = [job EXCEPT ![Poller] = [old EXCEPT !.ids = x, !.count = y]]
        BY <1>0, AtJob DEF JobState
      <4> QED BY <4>1, <4>2 DEF h
    <3>3. r \in JobState /\ r.batch = old.batch /\ r.left = old.left /\ r.pc = old.pc
      <4> DEFINE ids == old.ids \cup {Head(queue)}
                 n == old.count + 1
      <4>1. ids \subseteq Frag /\ n \in Nat /\ r = [old EXCEPT !.ids = ids, !.count = n]
        BY <1>0, <3>1, AtJob
      <4> HIDE DEF ids, n, r
      <4> QED BY <1>0, <4>1, AtJob DEF JobState
    <3> HIDE DEF r
    <3>4. r.pc \notin Busy
      BY <3>2, <3>3 DEF Busy
    <3> QED BY <1>0, <3>1, <3>2, <3>3, <3>4, <3>5, SameBatch
  <2>2. CASE ~(queue # <<>> /\ old.count < PollBatch)
    <3> DEFINE r == [old EXCEPT !.pc = "select"]
    <3>1. /\ job' = [job EXCEPT ![Poller] = r]
          /\ UNCHANGED <<rows, owed, queue, dead, crashes, overtaken>>
      BY <1>0, <1>2, <2>2, AtJob DEF Take, JobState
    <3>2. r \in JobState /\ r.batch = old.batch /\ r.left = old.left /\ r.pc = "select"
      BY <1>0, AtJob DEF JobState
    <3> HIDE DEF r
    <3>3. r.pc \notin Busy
      BY <3>2 DEF Busy
    <3> QED BY <1>0, <3>1, <3>2, <3>3, SameBatch
  <2> QED BY <2>1, <2>2
<1>3. CASE SelectPopped
  <2>1. PICK items \in Pending(old.ids) : Continue(Poller, items)
    BY <1>3 DEF SelectPopped
  <2>2. items \in Seq(Item) /\ Elements(items) \subseteq Faithful
    BY <1>0, AtJob, PendingRows
  <2>3. UNCHANGED <<rows, owed, queue, dead, crashes, overtaken>>
    BY <1>3 DEF SelectPopped
  <2> QED BY <1>0, <2>1, <2>2, <2>3, UnchangedRows, GoOn
<1>4. CASE PollFails
  BY <1>0, <1>4, Stops DEF PollFails
<1> QED BY <1>1, <1>2, <1>3, <1>4

LEMMA SweepStep ==
  ASSUME PipelineInv, NEW j \in Job, StartSweep(j)
  PROVE  PipelineInv'
<1>1. PICK found \in Pending(Frag) :
        found # <<>> /\ Continue(j, SubSeq(found, 1, Least(SweepLimit, Len(found))))
  BY DEF StartSweep
<1> DEFINE n == Least(SweepLimit, Len(found))
<1>2. found \in Seq(Item) /\ Elements(found) \subseteq Faithful
  BY PendingRows
<1>3. n \in Nat /\ n <= Len(found)
  BY <1>2, BoundAssumption, LenProperties DEF Least
<1> HIDE DEF n
<1>4. SubSeq(found, 1, n) \in Seq(Item) /\ Elements(SubSeq(found, 1, n)) \subseteq Faithful
  BY <1>2, <1>3, Stretch
<1>5. UNCHANGED <<rows, owed, queue, dead, crashes, overtaken>>
  BY DEF StartSweep
<1>6. queue \in Seq(Frag) /\ dead \subseteq Frag
  BY DEF PipelineInv, TypeOK
<1> QED BY <1>1, <1>4, <1>5, <1>6, UnchangedRows, GoOn DEF n

\* steps that only move the job within its chunk
LEMMA MoveSteps ==
  ASSUME PipelineInv, NEW j \in Job,
         EmbedOk(j) \/ EmbedFails(j) \/ GenerateOk(j) \/ AttemptFails(j)
  PROVE  PipelineInv'
<1> DEFINE old == job[j]
<1>1. /\ old.pc \in Busy /\ UNCHANGED <<rows, owed, queue, dead, crashes, overtaken>>
      /\ \E pc \in Busy, n \in Nat : job' = [job EXCEPT ![j] = [old EXCEPT !.pc = pc, !.count = n]]
  <2>1. \A pc, n : [job EXCEPT ![j] = [@ EXCEPT !.pc = pc, !.count = n]]
                   = [job EXCEPT ![j] = [old EXCEPT !.pc = pc, !.count = n]]
    BY AtJob DEF JobState
  <2>2. \A pc : [job EXCEPT ![j].pc = pc] = [job EXCEPT ![j] = [old EXCEPT !.pc = pc, !.count = old.count]]
    BY AtJob DEF JobState
  <2>3. old.count \in Nat /\ old.count + 1 \in Nat
    BY AtJob
  <2>4. CASE EmbedOk(j)
    BY <2>2, <2>3, <2>4 DEF EmbedOk, Busy
  <2>5. CASE EmbedFails(j)
    <3>1. job' = [job EXCEPT ![j] = [@ EXCEPT !.pc = "single", !.count = 1]]
      BY <2>5 DEF EmbedFails
    <3>2. job' = [job EXCEPT ![j] = [old EXCEPT !.pc = "single", !.count = 1]]
      BY <2>1, <3>1
    <3> QED BY <2>5, <3>2 DEF EmbedFails, Busy
  <2>6. CASE GenerateOk(j)
    BY <2>2, <2>3, <2>6 DEF GenerateOk, Busy
  <2>7. CASE AttemptFails(j)
    <3>1. job' = [job EXCEPT ![j] = [@ EXCEPT !.pc = "single", !.count = old.count + 1]]
      BY <2>7 DEF AttemptFails
    <3>2. job' = [job EXCEPT ![j] = [old EXCEPT !.pc = "single", !.count = old.count + 1]]
      BY <2>1, <3>1
    <3>3. /\ old.pc \in Busy /\ "single" \in Busy
          /\ UNCHANGED <<rows, owed, queue, dead, crashes, overtaken>>
      BY <2>7 DEF AttemptFails, Busy
    <3> QED BY <2>3, <3>2, <3>3
  <2> QED BY <2>4, <2>5, <2>6, <2>7
<1>2. PICK pc \in Busy, n \in Nat : job' = [job EXCEPT ![j] = [old EXCEPT !.pc = pc, !.count = n]]
  BY <1>1
<1> DEFINE r == [old EXCEPT !.pc = pc, !.count = n]
<1>3. r \in JobState /\ r.batch = old.batch /\ r.left = old.left
  BY AtJob DEF JobState, Busy
<1> HIDE DEF r
<1>4. old.left >= 1
  BY <1>1, AtJob DEF ChunkOf
<1>5. queue \in Seq(Frag) /\ dead \subseteq Frag
  BY DEF PipelineInv, TypeOK
<1> QED BY <1>1, <1>2, <1>3, <1>4, <1>5, SameBatch DEF r

LEMMA InvalidStep ==
  ASSUME PipelineInv, NEW j \in Job, EmbedInvalid(j)
  PROVE  PipelineInv'
<1> DEFINE old == job[j]
<1>1. PICK i \in BadAt(j) :
        /\ dead' \in {dead, dead \cup {old.batch[NamedAt(i)].id}}
        /\ LET rest == RemoveAt(old.batch, NamedAt(i)) IN
           IF old.left = 1 THEN Continue(j, rest)
           ELSE job' = [job EXCEPT ![j] = [@ EXCEPT !.batch = rest, !.left = old.left - 1]]
  BY DEF EmbedInvalid
<1>2. /\ old.pc = "embed" /\ UNCHANGED <<rows, owed, queue, crashes, overtaken>>
  BY DEF EmbedInvalid
<1>3. old.left \in Nat /\ old.left >= 1 /\ old.left <= Len(old.batch) /\ old.batch \in Seq(Item)
  BY <1>2, AtJob DEF ChunkOf, Busy
<1>4. i \in 1..old.left
  BY DEF BadAt
<1> DEFINE at == NamedAt(i)
           rest == RemoveAt(old.batch, at)
<1>5. at \in 1..Len(old.batch)
  <2>1. at \in 1..i
    BY <1>3, <1>4, NamedInChunk
  <2> HIDE DEF at
  <2> QED BY <1>3, <1>4, <2>1, AtJob
<1>6. dead' \subseteq Frag /\ queue' \in Seq(Frag)
  <2>1. old.batch[at] \in Item
    BY <1>3, <1>5, ElementOfSeq
  <2>2. old.batch[at].id \in Frag
    BY <2>1 DEF Item
  <2> QED BY <1>1, <1>2, <2>2 DEF PipelineInv, TypeOK
<1> HIDE DEF at
<1>7. rest \in Seq(Item) /\ Len(rest) = Len(old.batch) - 1 /\ Elements(rest) \subseteq Faithful
  BY <1>3, <1>5, AtJob, Removed
<1>8. CASE old.left = 1
  BY <1>1, <1>2, <1>6, <1>7, <1>8, UnchangedRows, GoOn DEF at
<1>9. CASE old.left # 1
  <2> DEFINE r == [old EXCEPT !.batch = rest, !.left = old.left - 1]
  <2>1. job' = [job EXCEPT ![j] = [@ EXCEPT !.batch = rest, !.left = old.left - 1]]
    BY <1>1, <1>9 DEF at
  <2> HIDE DEF rest
  <2>2. job' = [job EXCEPT ![j] = r]
    BY <2>1, AtJob DEF JobState
  <2>3. old.left - 1 \in Nat /\ old.left - 1 >= 1 /\ old.left - 1 <= Len(rest)
    BY <1>3, <1>7, <1>9, AtJob
  <2>4. r \in JobState /\ r.batch = rest /\ r.left = old.left - 1
    BY <1>7, <2>3, AtJob DEF JobState
  <2> HIDE DEF r
  <2>5. ChunkOf(r)
    BY <2>3, <2>4 DEF ChunkOf
  <2> QED BY <1>2, <1>6, <1>7, <2>2, <2>4, <2>5, UnchangedRows, JobStep
<1> QED BY <1>8, <1>9

\* the steps that store vectors or drop rows
LEMMA StoreSteps ==
  ASSUME PipelineInv, NEW j \in Job, Store(j) \/ StoreFails(j) \/ SaveOk(j) \/ GiveUp(j)
  PROVE  PipelineInv'
<1> DEFINE old == job[j]
           s == old.batch
<1>0. queue \in Seq(Frag) /\ dead \subseteq Frag
  BY DEF PipelineInv, TypeOK
<1>1. /\ s \in Seq(Item) /\ Elements(s) \subseteq Faithful /\ Len(s) \in Nat
      /\ old.left \in Nat /\ old.left <= Len(s) /\ old.left >= 1 /\ old.pc \in Busy
  <2>1. old.pc \in Busy
    BY DEF Store, StoreFails, SaveOk, GiveUp, Busy
  <2> QED BY <2>1, AtJob DEF ChunkOf
<1>2. CASE Store(j)
  <2>1. /\ rows' = Saved(SubSeq(s, 1, old.left)) /\ Continue(j, SubSeq(s, old.left + 1, Len(s)))
        /\ UNCHANGED <<owed, queue, dead, crashes, overtaken>>
    BY <1>2 DEF Store, Chunk
  <2>2. SubSeq(s, 1, old.left) \in Seq(Item) /\ Elements(SubSeq(s, 1, old.left)) \subseteq Faithful
    BY <1>1, Stretch
  <2>3. /\ SubSeq(s, old.left + 1, Len(s)) \in Seq(Item)
        /\ Elements(SubSeq(s, old.left + 1, Len(s))) \subseteq Faithful
    BY <1>1, Stretch
  <2>4. Kept
    BY <2>1, <2>2, SavedKept
  <2> QED BY <1>0, <2>1, <2>3, <2>4, GoOn
<1>3. CASE StoreFails(j)
  BY <1>3, Stops DEF StoreFails
<1>4. CASE SaveOk(j)
  <2>1. /\ rows' = Saved(SubSeq(s, 1, 1)) /\ NextSingle(j)
        /\ UNCHANGED <<owed, queue, dead, crashes, overtaken>>
    BY <1>4 DEF SaveOk
  <2>2. SubSeq(s, 1, 1) \in Seq(Item) /\ Elements(SubSeq(s, 1, 1)) \subseteq Faithful
    BY <1>1, Stretch
  <2>3. Kept
    BY <2>1, <2>2, SavedKept
  <2> QED BY <1>0, <1>1, <2>1, <2>3, NextRow
<1>5. CASE GiveUp(j)
  <2>1. /\ dead' \in {dead} \cup (IF j \in Script THEN {} ELSE {dead \cup {s[1].id}})
        /\ NextSingle(j) /\ UNCHANGED <<rows, owed, queue, crashes, overtaken>>
    BY <1>5 DEF GiveUp
  <2>2. s[1] \in Item
    BY <1>1, ElementOfSeq
  <2>3. dead' \subseteq Frag
    BY <1>0, <2>1, <2>2 DEF Item
  <2> QED BY <1>0, <1>1, <2>1, <2>3, UnchangedRows, NextRow
<1> QED BY <1>2, <1>3, <1>4, <1>5

LEMMA WorkStep ==
  ASSUME PipelineInv, NEW j \in Job, Work(j)
  PROVE  PipelineInv'
BY PollerSteps, SweepStep, MoveSteps, InvalidStep, StoreSteps DEF Work

----------------------------------------------------------------------------
(***************************************************************************)
(* The tools, and a restart.                                               *)
(***************************************************************************)
LEMMA ToolSteps ==
  ASSUME PipelineInv, NEW f \in Frag, NEW c \in Content,
         Remember(f, c) \/ Amend(f, c) \/ Forget(f)
  PROVE  PipelineInv'
<1> DEFINE new == [content |-> c, vec |-> NoVec]
<1>1. new \in Row /\ new.content = c /\ new.vec = NoVec
  BY DEF Row
<1>2. /\ UNCHANGED <<queue, dead, job, crashes>> /\ owed' \subseteq Frag /\ overtaken' \subseteq Frag
      /\ rows' \in {[rows EXCEPT ![f] = new], [rows EXCEPT ![f] = Gone]}
  BY DEF Remember, Amend, Forget, PipelineInv, TypeOK
<1> HIDE DEF new
<1>3. /\ rows \in [Frag -> Row \cup {NoRow, Gone}]
      /\ \A g \in Frag : g # f => rows'[g] = rows[g]
      /\ rows'[f] \in {new, Gone}
  BY <1>2 DEF PipelineInv, TypeOK
<1>4. rows' \in [Frag -> Row \cup {NoRow, Gone}]
  BY <1>1, <1>2, <1>3
<1>5. TypeOK'
  BY <1>2, <1>4 DEF PipelineInv, TypeOK
<1>6. Chunked'
  BY <1>2 DEF PipelineInv, Chunked
<1>7. \A g \in Frag : g # f => (g \in overtaken' <=> g \in overtaken)
  BY DEF Remember, Amend, Forget
<1>8. ItemsFaithful'
  <2> SUFFICES ASSUME NEW j \in Job, NEW it \in Carried(j)
               PROVE  /\ it \in Item /\ rows'[it.id] # NoRow
                      /\ (rows'[it.id] \notin {NoRow, Gone} /\ rows'[it.id].content # it.content
                          => it.id \in overtaken')
    BY <1>2 DEF ItemsFaithful, Carried, Faithful, Exists
  <2>1. it \in Faithful
    BY DEF PipelineInv, ItemsFaithful
  <2>2. PICK g \in Frag : g = it.id
    BY <2>1 DEF Faithful, Item
  <2>3. /\ it \in Item /\ rows[g] # NoRow
        /\ Exists(g) /\ rows[g].content # it.content => g \in overtaken
    BY <2>1, <2>2 DEF Faithful
  <2>4. CASE g # f
    BY <1>3, <1>7, <2>2, <2>3, <2>4 DEF Exists
  <2>5. CASE g = f
    <3>1. Held(f)
      BY <2>2, <2>5 DEF Held, Carried
    <3>2. ~Remember(f, c)
      BY <2>3, <2>5 DEF Remember
    <3>3. CASE Amend(f, c)
      <4>1. f \in overtaken'
        BY <3>1, <3>3 DEF Amend
      <4> QED BY <1>1, <1>3, <2>2, <2>3, <2>5, <4>1, RowAssumption
    <3>4. CASE Forget(f)
      <4>1. rows'[f] = Gone
        BY <1>3, <3>4 DEF Forget
      <4> QED BY <2>2, <2>3, <2>5, <4>1, RowAssumption
    <3> QED BY <3>2, <3>3, <3>4
  <2> QED BY <2>4, <2>5
<1>9. StaleOnlyIfOvertaken'
  <2> SUFFICES ASSUME NEW g \in Frag, rows'[g] \notin {NoRow, Gone},
                      rows'[g].vec \notin {NoVec, rows'[g].content}
               PROVE  g \in overtaken'
    BY DEF StaleOnlyIfOvertaken, Exists
  <2>1. g # f
    BY <1>1, <1>3
  <2> QED BY <1>3, <1>7, <2>1 DEF PipelineInv, StaleOnlyIfOvertaken, Exists
<1> QED BY <1>5, <1>6, <1>8, <1>9 DEF PipelineInv

LEMMA QueueSteps ==
  ASSUME PipelineInv, NEW f \in Frag, RememberAgain(f) \/ Enqueue(f)
  PROVE  PipelineInv'
<1>1. queue \in Seq(Frag) /\ owed \subseteq Frag
  BY DEF PipelineInv, TypeOK
<1>2. Append(queue, f) \in Seq(Frag) /\ <<f>> \o queue \in Seq(Frag)
  BY <1>1
<1>3. /\ queue' \in Seq(Frag) /\ owed' \subseteq Frag
      /\ UNCHANGED <<rows, dead, job, crashes, overtaken>>
  BY <1>1, <1>2 DEF RememberAgain, Enqueue
<1>4. TypeOK'
  BY <1>3 DEF PipelineInv, TypeOK
<1>5. Chunked' /\ ItemsFaithful' /\ StaleOnlyIfOvertaken'
  BY <1>3 DEF PipelineInv, Chunked, ItemsFaithful, Carried, Faithful, StaleOnlyIfOvertaken, Exists
<1> QED BY <1>4, <1>5 DEF PipelineInv

LEMMA RestartStep ==
  ASSUME PipelineInv, Restart
  PROVE  PipelineInv'
<1>1. /\ \A j \in Job : job'[j] = Idle
      /\ owed' = {} /\ UNCHANGED <<rows, queue, dead, overtaken>>
      /\ job' \in [Job -> JobState]
  BY IdleJob DEF Restart
<1>2. crashes' \in 0..MaxCrash
  BY BoundAssumption DEF Restart, PipelineInv, TypeOK
<1>3. Chunked'
  BY <1>1, IdleJob DEF Chunked
<1>4. TypeOK'
  BY <1>1, <1>2, <1>3 DEF PipelineInv, TypeOK, Chunked, ChunkOf
<1>5. ItemsFaithful'
  BY <1>1, IdleJob DEF ItemsFaithful, Carried, Elements
<1>6. StaleOnlyIfOvertaken'
  BY <1>1 DEF PipelineInv, StaleOnlyIfOvertaken, Exists
<1> QED BY <1>3, <1>4, <1>5, <1>6 DEF PipelineInv

LEMMA InitInv == Init => PipelineInv
<1> SUFFICES ASSUME Init PROVE PipelineInv
  OBVIOUS
<1>1. \A j \in Job : job[j] = Idle
  BY DEF Init
<1>2. Chunked
  BY <1>1, IdleJob DEF Chunked
<1>3. job \in [Job -> JobState] /\ queue \in Seq(Frag) /\ crashes \in 0..MaxCrash
  BY IdleJob, BoundAssumption, EmptySeq DEF Init
<1>4. TypeOK
  BY <1>2, <1>3 DEF Init, TypeOK, Chunked, ChunkOf
<1>5. ItemsFaithful
  BY <1>1, IdleJob DEF ItemsFaithful, Carried, Elements
<1>6. StaleOnlyIfOvertaken
  BY DEF Init, StaleOnlyIfOvertaken, Exists
<1> QED BY <1>2, <1>4, <1>5, <1>6 DEF PipelineInv

LEMMA NextInv == PipelineInv /\ [Next]_vars => PipelineInv'
<1> SUFFICES ASSUME PipelineInv, [Next]_vars PROVE PipelineInv'
  OBVIOUS
<1>1. CASE UNCHANGED vars
  BY <1>1 DEF vars, PipelineInv, TypeOK, Chunked, ItemsFaithful, Carried, Faithful,
              StaleOnlyIfOvertaken, Exists
<1>2. ASSUME NEW f \in Frag, NEW c \in Content, Remember(f, c) \/ Amend(f, c) PROVE PipelineInv'
  BY <1>2, ToolSteps
<1>3. ASSUME NEW f \in Frag, RememberAgain(f) \/ Enqueue(f) PROVE PipelineInv'
  BY <1>3, QueueSteps
<1>4. ASSUME NEW f \in Frag, Forget(f) PROVE PipelineInv'
  <2>1. rows[f] \in Row
    BY <1>4 DEF Forget, Exists, PipelineInv, TypeOK
  <2>2. rows[f].content \in Content
    BY <2>1 DEF Row
  <2> QED BY <1>4, <2>2, ToolSteps
<1> QED BY <1>1, <1>2, <1>3, <1>4, WorkStep, RestartStep DEF Next

LEMMA Invariance == Spec => []PipelineInv
BY InitInv, NextInv, PTL DEF Spec

(***************************************************************************)
(* The rows, the queue and the chunks of every job keep their shape: the   *)
(* current chunk never has more rows than the batch has left               *)
(* (EmbeddingWorker._embedMany, _embedChunk, _embedOne).                   *)
(***************************************************************************)
THEOREM TypeCorrect == Spec => []TypeOK
<1>1. PipelineInv => TypeOK
  BY DEF PipelineInv
<1> QED BY <1>1, Invariance, PTL

(***************************************************************************)
(* Whatever was refused, dropped, retried or restarted in between, a       *)
(* stored vector belongs to the row's present content unless an amend      *)
(* overtook a job that had read the row (the UPDATE by id of _embedChunk   *)
(* and _embedOne).                                                         *)
(***************************************************************************)
THEOREM NoForeignVectors == Spec => []StaleOnlyIfOvertaken
<1>1. PipelineInv => StaleOnlyIfOvertaken
  BY DEF PipelineInv
<1> QED BY <1>1, Invariance, PTL
=============================================================================
