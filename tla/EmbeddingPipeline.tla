------------------------- MODULE EmbeddingPipeline -------------------------
(***************************************************************************)
(* How a fragment gets its embedding: the queue the post-processors fill,  *)
(* the polling EmbeddingWorker, the sweeps over rows whose embedding is    *)
(* NULL (the five-minute backfill, the consolidation stage and the         *)
(* backfill-embeddings script) and the dead-letter list                    *)
(* (lib/memory/EmbeddingWorker.js, lib/redis.js, lib/scheduler.js,         *)
(* scripts/backfill-embeddings.js).                                        *)
(*                                                                         *)
(* A vector is identified with the content it was computed from. The       *)
(* provider accepts a content, refuses it (Bad) or is temporarily failing. *)
(***************************************************************************)
EXTENDS Integers, Sequences, SequencesExt, FiniteSets

CONSTANTS
  Frag,        \* fragment ids
  Rank,        \* the place of an id by importance DESC, created_at DESC
  Content,     \* fragment contents
  Bad,         \* contents the provider always refuses
  Poller,      \* the queue worker
  Sweep,       \* passes over the rows without embedding
  Script,      \* the sweeps that are runs of backfill-embeddings.js
  SweepLimit,  \* the LIMIT of a sweep
  PollBatch,   \* embeddingWorker.batchSize
  ChunkCap,    \* rows of one generateBatchEmbeddings call (200)
  SubBatch,    \* inputs of one provider request (100)
  RetryLimit,  \* embeddingWorker.retryLimit
  MaxQueue,    \* bound on queued ids
  MaxCrash,    \* bound on restarts
  NoRow, Gone, NoVec

Job == {Poller} \cup Sweep

ASSUME DataAssumption == /\ IsFiniteSet(Frag) /\ Rank \in [Frag -> Nat]
                         /\ Bad \subseteq Content /\ NoVec \notin Content
ASSUME JobAssumption == Poller \notin Sweep /\ Script \subseteq Sweep
ASSUME BoundAssumption == /\ {SweepLimit, PollBatch, ChunkCap, SubBatch, RetryLimit} \subseteq Nat \ {0}
                          /\ MaxCrash \in Nat /\ MaxQueue \in Nat

Row == [content : Content, vec : Content \cup {NoVec}]
Item == [id : Frag, content : Content]
ASSUME RowAssumption == {NoRow, Gone} \cap Row = {} /\ NoRow # Gone

VARIABLES
  rows,      \* the fragments table
  owed,      \* rows whose post-processor has not reached pushToQueue yet
  queue,     \* memento:embedding_queue, the next item to RPOP first
  dead,      \* ids in the dead-letter list
  job,       \* what every job is doing
  crashes,   \* restarts so far
  overtaken  \* history: rows amended since a job that still holds them read them

vars == <<rows, owed, queue, dead, job, crashes, overtaken>>

(* pc of a job: idle; take: popping ids; select: reading their rows;       *)
(* embed/store: the batch request and its UPDATE; single/save: the same    *)
(* for one row. batch holds the rows still to do, its first "left" rows    *)
(* being the current chunk; count is the RPOPs made or the attempts at the *)
(* current row.                                                            *)
JobState == [pc : {"idle", "take", "select", "embed", "store", "single", "save"},
             ids : SUBSET Frag, batch : Seq(Item), left : Nat, count : Nat]

Idle == [pc |-> "idle", ids |-> {}, batch |-> <<>>, left |-> 0, count |-> 0]

TypeOK ==
  /\ rows \in [Frag -> Row \cup {NoRow, Gone}]
  /\ owed \subseteq Frag
  /\ queue \in Seq(Frag)
  /\ dead \subseteq Frag
  /\ job \in [Job -> JobState]
  /\ \A j \in Job : job[j].left <= Len(job[j].batch)
  /\ crashes \in 0..MaxCrash
  /\ overtaken \subseteq Frag

Exists(f) == rows[f] \notin {NoRow, Gone}
Unembedded(f) == Exists(f) /\ rows[f].vec = NoVec

\* what SELECT id, content may return for the ids in F that have no embedding
Pending(F) ==
  LET W == {f \in F : Unembedded(f)}
      n == Cardinality(W)
  IN  {[i \in 1..n |-> [id |-> s[i], content |-> rows[s[i]].content]] :
         s \in {t \in [1..n -> W] : \A i, k \in 1..n : i # k => t[i] # t[k]}}

\* ORDER BY importance DESC, created_at DESC
ByRank(items) == \A i, k \in DOMAIN items : i < k => Rank[items[i].id] <= Rank[items[k].id]

Least(a, b) == IF a < b THEN a ELSE b

Chunk(j) == SubSeq(job[j].batch, 1, job[j].left)

\* the job goes on with the given rows, cutting off the next chunk
Continue(j, batch) ==
  job' = [job EXCEPT ![j] =
    IF batch = <<>> THEN Idle
    ELSE [Idle EXCEPT !.pc = IF j \in Script THEN "single" ELSE "embed",
                      !.batch = batch, !.left = Least(ChunkCap, Len(batch)),
                      !.count = 1]]

\* UPDATE fragments SET embedding ... WHERE id = the item's id
Saved(items) ==
  [f \in Frag |->
     IF Exists(f) /\ \E i \in DOMAIN items : items[i].id = f
     THEN [rows[f] EXCEPT !.vec = items[CHOOSE i \in DOMAIN items : items[i].id = f].content]
     ELSE rows[f]]

Held(f) == \E j \in Job : \E i \in DOMAIN job[j].batch : job[j].batch[i].id = f

----------------------------------------------------------------------------
Init ==
  /\ rows = [f \in Frag |-> NoRow]
  /\ owed = {}
  /\ queue = <<>>
  /\ dead = {}
  /\ job = [j \in Job |-> Idle]
  /\ crashes = 0
  /\ overtaken = {}

(***************************************************************************)
(* The tools. A new row has embedding NULL; its post-processor then tries  *)
(* to push the id: LPUSH for remember, RPUSH (popped first) for reflect.   *)
(* pushToQueue swallows a Redis error and returns false.                   *)
(***************************************************************************)
Remember(f, c) ==
  /\ rows[f] = NoRow
  /\ rows' = [rows EXCEPT ![f] = [content |-> c, vec |-> NoVec]]
  /\ owed' = owed \cup {f}
  /\ UNCHANGED <<queue, dead, job, crashes, overtaken>>

\* a remember merged into an existing row runs the post-processor all the same
RememberAgain(f) ==
  /\ Exists(f) /\ Len(queue) + Cardinality(owed) < MaxQueue
  /\ owed' = owed \cup {f}
  /\ UNCHANGED <<rows, queue, dead, job, crashes, overtaken>>

Enqueue(f) ==
  /\ f \in owed
  /\ owed' = owed \ {f}
  /\ queue' \in {Append(queue, f), <<f>> \o queue, queue}
  /\ UNCHANGED <<rows, dead, job, crashes, overtaken>>

\* mutant of Amend: the new content keeps the old vector
AmendKeepingVector(f, c) ==
  /\ Exists(f) /\ rows[f].content # c
  /\ rows' = [rows EXCEPT ![f].content = c]
  /\ overtaken' = IF Held(f) THEN overtaken \cup {f} ELSE overtaken \ {f}
  /\ UNCHANGED <<owed, queue, dead, job, crashes>>

\* amend resets the embedding and queues nothing: a sweep finds the row
Amend(f, c) ==
  /\ Exists(f) /\ rows[f].content # c
  /\ rows' = [rows EXCEPT ![f] = [content |-> c, vec |-> NoVec]]
  /\ overtaken' = IF Held(f) THEN overtaken \cup {f} ELSE overtaken \ {f}
  /\ UNCHANGED <<owed, queue, dead, job, crashes>>

Forget(f) ==
  /\ Exists(f)
  /\ rows' = [rows EXCEPT ![f] = Gone]
  /\ UNCHANGED <<owed, queue, dead, job, crashes, overtaken>>

----------------------------------------------------------------------------
(* The queue worker: RPOP up to batchSize ids, then read the rows that     *)
(* still lack an embedding.                                                *)
StartPoll ==
  /\ job[Poller].pc = "idle" /\ queue # <<>>
  /\ job' = [job EXCEPT ![Poller].pc = "take"]
  /\ UNCHANGED <<rows, owed, queue, dead, crashes, overtaken>>

Take ==
  /\ job[Poller].pc = "take"
  /\ IF queue # <<>> /\ job[Poller].count < PollBatch
     THEN /\ job' = [job EXCEPT ![Poller] =
                      [@ EXCEPT !.ids = job[Poller].ids \cup {Head(queue)},
                                !.count = job[Poller].count + 1]]
          /\ queue' = Tail(queue)
     ELSE /\ job' = [job EXCEPT ![Poller].pc = "select"]
          /\ UNCHANGED queue
  /\ UNCHANGED <<rows, owed, dead, crashes, overtaken>>

SelectPopped ==
  /\ job[Poller].pc = "select"
  /\ \E items \in Pending(job[Poller].ids) : Continue(Poller, items)
  /\ UNCHANGED <<rows, owed, queue, dead, crashes, overtaken>>

\* RPOP or the SELECT throws: the ids already popped are lost to the queue
PollFails ==
  /\ job[Poller].pc \in {"take", "select"}
  /\ job' = [job EXCEPT ![Poller] = Idle]
  /\ UNCHANGED <<rows, owed, queue, dead, crashes, overtaken>>

\* mutant of StartSweep: a single row per pass, so a refused row blocks the rest
StartSweepOneRow(j) ==
  /\ job[j].pc = "idle"
  /\ \E found \in Pending(Frag) : /\ ByRank(found) /\ found # <<>>
                                /\ Continue(j, SubSeq(found, 1, 1))
  /\ UNCHANGED <<rows, owed, queue, dead, crashes, overtaken>>

\* processOrphanFragments and the script: SELECT ... IS NULL ... LIMIT
StartSweep(j) ==
  /\ job[j].pc = "idle"
  /\ \E found \in Pending(Frag) :
       /\ ByRank(found) /\ found # <<>>
       /\ Continue(j, SubSeq(found, 1, Least(SweepLimit, Len(found))))
  /\ UNCHANGED <<rows, owed, queue, dead, crashes, overtaken>>

----------------------------------------------------------------------------
(* _embedChunk: one batch request for the chunk, sent as sub-batches.      *)

BadAt(j) == {i \in 1..job[j].left : job[j].batch[i].content \in Bad}

EmbedOk(j) ==
  /\ job[j].pc = "embed" /\ BadAt(j) = {}
  /\ job' = [job EXCEPT ![j].pc = "store"]
  /\ UNCHANGED <<rows, owed, queue, dead, crashes, overtaken>>

\* the position the error names for row i counts within the failing sub-batch
NamedAt(i) == ((i - 1) % SubBatch) + 1

(***************************************************************************)
(* HTTP 400 "Invalid 'input[N]'": row N of the CHUNK goes to the dead      *)
(* letters (unless that push fails) and the rest is sent again.            *)
(***************************************************************************)
EmbedInvalid(j) ==
  /\ job[j].pc = "embed"
  /\ \E i \in BadAt(j) :
       /\ \A k \in BadAt(j) : i <= k
       /\ dead' \in {dead, dead \cup {job[j].batch[NamedAt(i)].id}}
       /\ LET rest == RemoveAt(job[j].batch, NamedAt(i)) IN
          IF job[j].left = 1 THEN Continue(j, rest)
          ELSE job' = [job EXCEPT ![j] = [@ EXCEPT !.batch = rest, !.left = job[j].left - 1]]
  /\ UNCHANGED <<rows, owed, queue, crashes, overtaken>>

\* any other error: the chunk is done row by row (_embedOne)
EmbedFails(j) ==
  /\ job[j].pc = "embed"
  /\ job' = [job EXCEPT ![j] = [@ EXCEPT !.pc = "single", !.count = 1]]
  /\ UNCHANGED <<rows, owed, queue, dead, crashes, overtaken>>

\* the multi-row UPDATE: rows that are gone are not matched
Store(j) ==
  /\ job[j].pc = "store"
  /\ rows' = Saved(Chunk(j))
  /\ Continue(j, SubSeq(job[j].batch, job[j].left + 1, Len(job[j].batch)))
  /\ UNCHANGED <<owed, queue, dead, crashes, overtaken>>

\* a failing UPDATE ends the pass; the rest of the batch is dropped
StoreFails(j) ==
  /\ job[j].pc = "store"
  /\ job' = [job EXCEPT ![j] = Idle]
  /\ UNCHANGED <<rows, owed, queue, dead, crashes, overtaken>>

----------------------------------------------------------------------------
(* _embedOne: generate, then UPDATE, up to RetryLimit attempts; the script *)
(* makes one attempt and keeps no dead letters.                            *)

\* the first row is done with: the next one, or the next chunk
NextSingle(j) ==
  IF job[j].left = 1 \/ j \in Script
  THEN Continue(j, Tail(job[j].batch))
  ELSE job' = [job EXCEPT ![j] =
                [@ EXCEPT !.pc = "single", !.batch = Tail(job[j].batch),
                          !.left = job[j].left - 1, !.count = 1]]

GenerateOk(j) ==
  /\ job[j].pc = "single" /\ job[j].batch[1].content \notin Bad
  /\ job' = [job EXCEPT ![j].pc = "save"]
  /\ UNCHANGED <<rows, owed, queue, dead, crashes, overtaken>>

SaveOk(j) ==
  /\ job[j].pc = "save"
  /\ rows' = Saved(SubSeq(job[j].batch, 1, 1))
  /\ NextSingle(j)
  /\ UNCHANGED <<owed, queue, dead, crashes, overtaken>>

AttemptFails(j) ==
  /\ job[j].pc \in {"single", "save"}
  /\ j \notin Script /\ job[j].count < RetryLimit
  /\ job' = [job EXCEPT ![j] = [@ EXCEPT !.pc = "single", !.count = job[j].count + 1]]
  /\ UNCHANGED <<rows, owed, queue, dead, crashes, overtaken>>

GiveUp(j) ==
  /\ job[j].pc \in {"single", "save"}
  /\ j \in Script \/ job[j].count = RetryLimit
  /\ dead' \in {dead} \cup (IF j \in Script THEN {} ELSE {dead \cup {job[j].batch[1].id}})
  /\ NextSingle(j)
  /\ UNCHANGED <<rows, owed, queue, crashes, overtaken>>

(***************************************************************************)
(* The process ends, gracefully or not: server.js reads the worker's       *)
(* reference before the asynchronous import has set it, so a shutdown      *)
(* never waits for a batch. Redis keeps the queue, PostgreSQL the rows.    *)
(***************************************************************************)
Restart ==
  /\ crashes < MaxCrash
  /\ crashes' = crashes + 1
  /\ job' = [j \in Job |-> Idle]
  /\ owed' = {}
  /\ UNCHANGED <<rows, queue, dead, overtaken>>

Work(j) ==
  \/ j = Poller /\ (StartPoll \/ Take \/ SelectPopped \/ PollFails)
  \/ j \in Sweep /\ StartSweep(j)
  \/ EmbedOk(j) \/ EmbedInvalid(j) \/ EmbedFails(j) \/ Store(j) \/ StoreFails(j)
  \/ GenerateOk(j) \/ SaveOk(j) \/ AttemptFails(j) \/ GiveUp(j)

Next ==
  \/ \E f \in Frag :
       \/ \E c \in Content : Remember(f, c) \/ Amend(f, c)
       \/ RememberAgain(f) \/ Enqueue(f) \/ Forget(f)
  \/ \E j \in Job : Work(j)
  \/ Restart

(***************************************************************************)
(* Fairness. Every running job goes on (its awaits settle) and the sweeps  *)
(* tick for ever. The provider and the database may fail again and again   *)
(* but not for ever on the same fragment: a fragment a sweep offers time   *)
(* and again is embedded and stored in the end.                            *)
(***************************************************************************)
Offers(j, f) == \E i \in 1..job[j].left : job[j].batch[i].id = f

Generates(f) == \E j \in Sweep : \/ Offers(j, f) /\ EmbedOk(j)
                                 \/ /\ job[j].pc = "single" /\ job[j].batch[1].id = f
                                    /\ GenerateOk(j)

Stores(f) == \E j \in Sweep : \/ Offers(j, f) /\ Store(j)
                              \/ /\ job[j].pc = "save" /\ job[j].batch[1].id = f
                                 /\ SaveOk(j)

Fairness == /\ \A j \in Job : WF_vars(Work(j))
            /\ \A f \in Frag : SF_vars(Generates(f)) /\ SF_vars(Stores(f))

Spec == Init /\ [][Next]_vars
FairSpec == Spec /\ Fairness

----------------------------------------------------------------------------
(* Properties                                                              *)

(***************************************************************************)
(* A stored vector belongs to the row's present content, unless an amend   *)
(* overtook a job that had already read the row: no pairing of vectors     *)
(* with the wrong ids, whatever was dropped from the chunk in between, and *)
(* no vector left behind by an amend alone.                                *)
(***************************************************************************)
StaleOnlyIfOvertaken ==
  \A f \in Frag :
    (Exists(f) /\ rows[f].vec \notin {NoVec, rows[f].content}) => f \in overtaken

(***************************************************************************)
(* A row the provider can embed gets an embedding, is amended or is        *)
(* deleted: a lost push, a crash or an error after the RPOP, an amend      *)
(* (which queues nothing) and a dead letter are all made good by the       *)
(* sweeps.                                                                 *)
(***************************************************************************)
EventuallyEmbedded ==
  \A f \in Frag, c \in Content \ Bad :
    (Unembedded(f) /\ rows[f].content = c)
      ~> ~(Unembedded(f) /\ rows[f].content = c)

(***************************************************************************)
(* docs/architecture.md: the row the error names is identified and moved   *)
(* to the dead-letter queue.                                               *)
(***************************************************************************)
RefusedRowIsDeadLettered ==
  [][\A j \in Job : EmbedInvalid(j) =>
       \A i \in 1..job[j].left :
         job[j].batch[i].id \in dead' \ dead => job[j].batch[i].content \in Bad]_vars

(***************************************************************************)
(* docs/cli.en.md: the embedding backfill re-generates the embeddings of   *)
(* fragments with missing or stale vectors.                                *)
(***************************************************************************)
StaleVectorsRegenerated ==
  \A f \in Frag :
    (Exists(f) /\ rows[f].vec \notin {NoVec, rows[f].content})
      ~> ~(Exists(f) /\ rows[f].vec \notin {NoVec, rows[f].content})
=============================================================================
