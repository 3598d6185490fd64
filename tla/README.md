# Verification of memento-mcp

TLA+ specifications of memento-mcp, an MCP server that keeps an agent's
long-term memory as *fragments* in PostgreSQL, indexed in Redis, embedded by a
provider and post-processed by LLMs. TLC checks the specifications on small
instances; TLAPS proves what matters most for every instance. Source paths
below are relative to `src/lib/` unless they start with `src/` or `docs/`.

## 1. Inventory

One Node.js process serves tool calls. JavaScript runs one callback at a time,
so two calls interleave exactly at their `await`s; several processes may share
the database and Redis, and the database is where they meet.

| component | state it keeps | operations | what is hard | what makes it correct | module |
|---|---|---|---|---|---|
| Write path: `memory/processors/MemoryRememberer.js`, `memory/BatchRememberProcessor.js`, `memory/FragmentWriter.js`, `memory/QuotaChecker.js` | tables `fragments`, `fragment_versions`; the row lock of `api_keys` | remember, batch_remember, amend, forget | check and insert in separate transactions, duplicate merging, retries with an idempotency key, rollbacks, crash after commit | quota, no duplicates, key isolation, lock given back, versions kept | FragmentStore |
| Reverse index: `memory/FragmentIndex.js` | Redis sets per keyword, topic, type; hot cache; per-session working memory | index, deindex, warmup, prune; add, trim | updated after the database, in other awaits; fails silently | no interleaving drops a live row; budget kept | FragmentStore, Recall, WorkingMemory |
| Embedding pipeline: `memory/EmbeddingWorker.js`, `scheduler.js`, `src/scripts/backfill-embeddings.js` | Redis queue and dead letters, `fragments.embedding` | push, poll, sweep, retry | ids popped before the work is done, rows changing meanwhile, partial failure of a batch | right vector on the right row, eventually embedded | EmbeddingPipeline |
| LLM dispatcher: `llm/index.js`, `llm/util/semaphore.js`, `llm/util/circuit-breaker.js` | per provider: slots, waiters, failures, open circuit (in memory or in Redis) | llmJson | slots handed over while timers run, answers out of order, processes that share a breaker | no slot lost, order kept, circuit opened and closed for a reason | LlmDispatch, SlotPool, SharedBreaker |
| Recall: `memory/FragmentSearch.js`, `memory/FragmentReader.js`, `memory/GraphNeighborSearch.js` | hot cache | recall | five layers that fail and filter on their own, caches filled after an await | isolation, completeness, expired answers from stale copies only | Recall |
| Context: `memory/ContextBuilder.js` | - | context | types compete for one budget | the best of every type is kept | ContextAssembly |
| Sessions: `sessions.js` | in-memory map, Redis copies | create, validate/restore, rotate, close, cleanup | restore racing with close and rotate; crash and shutdown | an ended session stays ended, a live one survives | Sessions |
| AutoReflect: `memory/AutoReflect.js`, `memory/SessionActivityTracker.js` | activity log in Redis | record, reflect | read-modify-write over awaits | one reflection | Reflection |
| Reflect tool: `memory/ReflectProcessor.js`, `memory/SessionLinker.js` | - (reads and clears the working memory) | reflect | clears last what it may not have stored: quota, rollback, refused items, Redis read as empty | what is cleared has been told | ReflectTool |
| Episodes: `memory/EpisodeContinuityService.js` | latest milestone per agent, edges | link | the map is read and written around awaits | no milestone skipped | Milestones |
| Case events: `memory/CaseEventStore.js`, `memory/HistoryReconstructor.js` | `case_events`, edges | append, add edge, reconstruct | MAX + 1 without a lock; cyclic links | order of a case, its chains, its open errors | CaseEvents, CaseHistory |
| Graph: `memory/GraphLinker.js`, `memory/LinkStore.js`, `memory/SessionLinker.js` | `fragment_links`, `linked_to` | link, dedup, supersede | concurrent linkers, lock order, partial failure | newer supersedes older, a superseded row leaves a trace, no deadlock of the locks | Supersession, LinkWrites |
| Consolidation: `memory/MemoryConsolidator.js`, `memory/ConsolidatorGC.js`, `memory/FragmentGC.js`, `memory/ContradictionDetector.js` | promise chain of cycles; importance, ttl tiers, expiry | staged passes | long passes over rows that change, stale counts written back | one cycle at a time, a copy survives, rows in use are not collected | Consolidation, Supersession, Retention |
| Evaluation: `memory/MemoryEvaluator.js` | queue in Redis | verdicts | the row changes while it is judged | - | Retention |
| Symbolic layer: `symbolic/`, `src/scripts/backfill-claims.js` | `fragment_claims` | extract, backfill, gate | paging over a changing table | every row gets its claim | Claims |
| API keys: `admin/ApiKeyStore.js`, `auth.js` | keys, groups, daily usage | authenticate, count | late count, change of date and limit | bounded excess | DailyUsage |
| OAuth: `oauth.js`, `handlers/oauth-handler.js`, `admin/OAuthClientStore.js`, `auth.js` | codes and tokens in Redis, registered clients | register, authorize, token, authenticate | reads and deletes in separate commands, retries, keys that change | a grant is replaced and not lost; requests act for the key shown | OAuthGrants |
| Migrations: `src/scripts/migrate.js` | ledger, advisory lock | apply | several processes and releases, failures | in order, once | Migrations |
| Rate limits, front end, admin, CLI, updater, metrics | see section 9 | | | | - |

Interactions. Handlers call `MemoryManager`, a facade over the processors;
remember writes the row, then the index, then runs `RememberPostProcessor`,
which pushes the id to the embedding queue. A stored embedding emits
`embedding_ready`, on which `GraphLinker` works. amend sets the embedding to
NULL and relies on the sweeps. Quality evaluation, splitting, contradiction
detection and reflection go through `llmJson` or a CLI client. `server.js`
starts the timers of `scheduler.js` and drains workers on shutdown.

`PROJECT.json` lists every component with its status, and the hazards of the
code at their lines with the properties that cover them.

## 2. Plan and composition

`FragmentStore`, `EmbeddingPipeline` and `LlmDispatch` have instances and runs
of their own; `MCPipelineAndStore` has the safety of the pipeline and the default
mode of the store in one run. The other components share no state with each other once the
rows they work on are given, so `MCServer` puts them side by side: a variable
`focus` chosen in the initial state says which of them runs, the others rest.
The run `server` therefore checks each component for all its behaviours, and
its state count is the sum of theirs. That a behaviour of the server is one of
every component is a theorem, `ServerRunsEach`. `ServerTypeOK` checks the type
invariant of the component in focus. A state is told apart by the variables of
the component in focus alone (`VIEW FocusView`), for the others never change.
Where components do meet, the meeting is inside a module: the retiring stages
of consolidation and the linker in `Supersession`, writers, expiry and caches
in `Recall`, cycle and tools in `Retention`, worker and tools in
`EmbeddingPipeline`; `CaseHistory` extends `CaseEvents`.

| module | models | instance in `MCServer` |
|---|---|---|
| Recall | recall over five layers and two caches, against writers, expiry and outages | one master and one key's row, linked; both callers; a keyword and a text query; one row per SQL search |
| Sessions | the map and its Redis copies | a session, 2 operations at once |
| Consolidation | the chain of cycles; GC, merging, anchors | 2 rows of two keys, 2 contents, 2 requesters, 3 requests |
| Supersession | every automatic way to retire a row because of another | 3 rows (two of the same moment, one of them like the third), a linker and the cycle |
| LinkWrites | link transactions, locks, `linked_to` | 3 rows, 3 writers (one a batch) |
| WorkingMemory | the session list and its budget | 3 items that exceed the budget of 5 together |
| Migrations | migrate.js | 3 runners, two releases |
| CaseEvents, CaseHistory | numbering and edges; reconstruct_history | a verdict, an error and a fix; 3 fragments with any links |
| Milestones | episode chain of one agent | 4 reflects, two of them alike |
| Reflection | activity log and closers | 2 tool calls, 2 closers, one of them the reflect tool |
| ReflectTool | gathering, batch, episode and clearing of reflect | 3 items for the session, a row and the episode, 2 calls (one brings its own summary), room for 2 rows |
| DailyUsage | the daily limit | 3 clients, limits 1 and 2, 5 calls |
| OAuthGrants | one authorization, its code and tokens | a client that spells out a key, another key, 2 calls at once, 2 pairs of tokens |
| SharedBreaker | the breaker in Redis | 2 requests, threshold 2, times up to 2 |
| Claims | claims of fragments and the backfill script | 2 fragments, 3 contents, page of one row, 3 edits |
| Retention | one row through cycles, recalls, amends and verdicts | 3 kinds, 60 and 180 days as 1 and 2 steps, one job |
| ContextAssembly | the core of context | 6 fragments of 2 requested types and one other, room for about half |

Every instance has at least two of whatever must collide, and one more than a
limit allows of whatever is limited.

## 3. FragmentStore

**State.** `rows` is the table (key, content, idempotency token, live iff
`valid_to IS NULL`); `minted` the ids ever used; `versions` the archive; `lock`
the holder of each key's `api_keys` row lock; `index` the ids registered in
Redis; `cold` says that the server has restarted and the warm-up has not run;
`call` is what each concurrent tool call is doing, with the values its
handler keeps across awaits; `lost` (fragments that a failed index write or
deletion, a death of their call or the pruning has left out of the index, and
that nothing has registered since) and `acked` are history. A content stands for
its `content_hash`; the index is membership, all words of a fragment at once.

**Actions.** Each is the code between two awaits that touch shared state:

| action | code |
|---|---|
| ReplayRemember, StartRemember | remember up to the idempotency lookup; dispatch to the atomic path |
| CheckQuota | `QuotaChecker.check`: BEGIN, FOR UPDATE, COUNT, COMMIT; it waits for the row lock, and releases it before it returns |
| FindDuplicate (after GateRejects), Insert | the policy gate; `FragmentWriter.insert`: duplicate SELECT, then INSERT ... ON CONFLICT with the two unique indexes |
| StartBatch, PhaseA | validation; `_checkQuotaPhaseA` trims to the remainder |
| LockKey, CountLocked, StoreLocked, StoreAborts | the transaction of `_rememberAtomic` and of batch phase B. StoreLocked ends with COMMIT; a failing chunk rolls back. `merged` are the rows that ON CONFLICT merged a batch's items into |
| IndexFragments, Supersede | `_finalizeRemember` and phase C: index, which may register any part of what it is given and tells nobody, then explicit supersedes of the caller's own rows |
| StartAmend, AmendStore, then Deindex, IndexFragments | amend: the read, the transaction of `update`, re-registration |
| StartForget, Deindex, Delete, DeleteFails | forget by id and by topic; the index lets go of the rows first, and a statement of the deletion may fail |
| PruneKeywordIndexes | the cycle trims the sets of the index to MaxSetSize, at random |
| Restart, Warmup | the process dies at any point; PostgreSQL rolls back, Redis keeps what it has; the next start registers at most WarmupLimit live rows |

The INSERT inside the locked transaction is one step: other transactions of
the key wait for the lock, and those that do not take it (the default
remember's INSERT, amend) meet it only in the unique indexes, whose verdict
does not depend on where within the step it falls. A batch answers with the ids
the INSERT returns, those of the rows its items were merged into included, and
counts them all as inserted; phase C indexes only what kept the id minted for it.
A batch item that is merged is therefore not indexed again. Splitting
(`ConsolidatorGC.js:317`) inserts rows of a key without a quota check and is
outside the module.

**Runs.** `fragment_store_atomic`: two callers, two ids, two contents, one
token, the master key and one key of limit 1, all tools. Two callers are enough
for every pairwise race, and the limit is reached after one row, so that most
behaviours meet it. `pipeline_and_store` (module `MCPipelineAndStore`, an
INSTANCE with variables of its own): the default mode with three ids,
three contents (one violating the policy of a hard-gated key), remember and
batch, beside the embedding pipeline, one of the two per behaviour. Callers, ids and (equally treated) contents are interchangeable:
symmetry. The archive and `acked` are never read by an action, so runs that do
not mention them leave them out of the view.

* `QuotaBound`: with the atomic remember the live rows of a key never exceed
  its limit. With the default one they exceed it by at most the number of
  *other* callers, each of which can have one row between its check and its
  INSERT. Batches count again under the lock and add nothing to the excess.
* `NoDuplicateRows`, `LockHeldInTransaction`. `AnswersOwnFragment`: every id that a
  remember or a batch answers with, rows that others wrote and its items were
  merged into included, is of the caller's key.
* `LiveRowsFindable`: no interleaving drops a live row from the index. One that is
  missing is in the hands of a running call that has still to index or delete it,
  or `lost`. That Redis fails silently, that a start loads 5000 rows and that
  large sets are pruned at random is so in the code, and none of it is repaired:
  such a row stays out until it is remembered again, amended or loaded by a start. It
  is stated for keys without a group: a key that can see the fragments of its
  group takes them out of the index when it forgets a topic, and then may not
  delete them. In the runs a set keeps one member and a start loads one row.

**Disagreements with the documentation.** `fragment_store_token`: the
idempotency key does not always lead back to the first fragment.
`fragment_store_amend`: overlapping amends lose a version. Not a run, because a
single call shows it: `docs/configuration.en.md:70` says a violating remember
of a hard-gated key is rejected, and the atomic path
(`MemoryRememberer.js:272`) branches off before the gate.

## 4. EmbeddingPipeline

**State.** `rows` (content and the content the vector was computed from; `Rank` is what
the sweeps order by, and a SELECT may return any set of rows that order allows),
`owed` (rows whose post-processor has yet to push), `queue`, `dead`, `job` (the
worker, the sweeps, runs of the script: their program counter, rows and current
chunk), `crashes`, and the history `overtaken`.

**Actions.** The tools (Remember, RememberAgain, Amend, Forget, Enqueue - a
push may fail silently), the worker (StartPoll, Take, SelectPopped, PollFails),
the sweeps (StartSweep), the batch (EmbedOk, EmbedInvalid, EmbedFails, Store,
StoreFails), the single-row path (GenerateOk, SaveOk, AttemptFails, GiveUp) and
Restart. The shutdown of `server.js` copies the worker reference before the
asynchronous import has set it (line 312), so it does not wait for a batch and
is no different from a crash here.

**Runs.** `pipeline_and_store` (safety: two rows, a content that is refused and one
that is not, the worker with chunks of two, the script, a queue that can hold a
second entry of a row, two attempts); `embedding_liveness` (the backfill sweep with chunks of two, the worker
with one id at a time, a second entry of a row in the queue, two attempts, a restart);
`embedding_dead_letter` and `embedding_stale`, two disagreements. Deadlock
checking is off: with every row embedded and no request coming the system
rests. A chunk of two rows and a sub-batch of one or two stand for 200 and 100.
`MaxQueue` bounds the repeated pushes, `MaxCrash` the restarts.

**Fairness.** Weak fairness of each job: awaits settle and intervals tick for
ever. Strong fairness of generating and storing per fragment: a provider or a
database that fails again and again, but not for ever on the same row that is
offered again and again. Nothing is assumed of the tools, the pushes or the
queue worker's success, so the promise rests on the sweeps alone. It needs a
sweep limit no smaller than the number of refused rows plus one (500 in
`scheduler.js`): refused rows are selected again by every sweep, and as many of
them as the limit would hide the rest. The run has a limit as large as its
table.

**What it shows.** Vectors are never paired with the wrong row by the removal
of rows from a chunk; a stale vector needs an amend that overtook a job that
had read the row (`StaleOnlyIfOvertaken`), and such a vector is then never
regenerated (`embedding_stale`), because the sweeps select missing embeddings
only.

## 5. LlmDispatch and SlotPool

`LlmDispatch` is `llmJson`: build the chain by asking each provider, walk it,
wait for a slot, look at the deadline and the circuit once more, call, release.
`active` and `waiters` are the closure variables of each semaphore, `failures`
and `circuit` those of the in-memory breaker per provider *name*, `streak`
counts uninterrupted failed requests (history). Clocks become choices: a call
may turn late, a slot timer may fire, a failure may have left the window, an
open circuit may lapse. `Kind` says how a provider class reports: compatible
ones once per failure, direct ones (Ollama, Anthropic, Cohere, GoogleGemini)
once or twice, CLI ones once.

`SlotPool` is what the semaphores promise: at most `Limit` clients inside and
strictly first come first served. `ImplementsSlotPool` is the refinement, with
`inside` mapped to the calls between acquire and release and `line` to
`waiters`.

`llm_dispatch` has three calls (one more than the first provider's slots, with
one to queue behind), two providers with one and two slots that share a breaker
name, threshold 3 and a deadline. Fairness is weak fairness of each call's own
next step: availability checks and requests carry timeouts, and an unfinished
response body is ended by the HTTP client's own idle timeout. Slot timers are
not fair, so `SomeWaiterServed` says that a waiter is served because holders
leave, and not because it gives up. It names one call; the calls are alike.

`OpenNeedsFailures`: an open circuit has at least half the threshold of failed
requests behind it with no success in between. It is half, although
`docs/operations/llm-providers.md:59` says five consecutive failures: a direct
provider records an error response where it sees it (`OllamaProvider.js:123`)
and again in the catch around it (line 138).

`SharedBreaker` is the other mode, with `openedAt` and the list of failures in
Redis and one step per command. `TripHolds`: a circuit that has not been open
for its time is closed only by a success, or by a request that had found it due
and whose DEL was overtaken by new failures. That exception is real; the
history variable `overtaken` is exactly it. A late SETEX may also set `openedAt` back
to the time its failure was recorded.

## 6. The components of `MCServer`

**Recall.** A recall is a sequence of steps, one per await: the Redis sets, the
hot cache, the keyword SQL, the vector side search of text queries, the merge,
the graph neighbours, the linked rows, each of which may fail or be missing.
Writers insert, index, expire, collect and forget rows; amends are not in the
module, so the contents, words, topics and importances stay. Cached copies are
filled late. A result is a copy, the id with the `valid_to` it was
read with. `AnswersOwnKeys`: no layer shows a key another key's row.
`KeywordRecallComplete`: whatever subset of the layers worked, a keyword recall
finds every own row that was live throughout and matches (a keyword, the topic,
the least importance), unless the answer already has `SqlLimit` matching rows, for
the keyword SQL ends with LIMIT 30 (`FragmentSearch.js:491`). `AnswersCurrent`:
what was gone, or superseded and not asked for, when the recall started is found
only by the master key, among its own, and from a copy of the hot cache that still
says it is live; such a copy may be answered for as long as it is cached
(`HOT_CACHE_TTL`), and `recall_stale` shows that, against the documented filter.
Copies for a group are never written, so a key does not get such a row at all.
`GhostNeedsLateFill`: a forgotten row comes back only because a fill had read it
before, or Redis kept the copy. Scores are abstracted (a
ranking, of SQL or of the merge, may put the rows in any order); the type filter
works as the topic does, and those on agent, workspace, case and the like restrict
the table; the time range, the limits of the other layers and the pruning of the
index, which only make L1 and L3 find less, are left out.

**Sessions.** Ids are numbered in the order of issue. The cleanup tick visits
any expired session at any time, one tick at a time; the shutdown takes its
snapshot of the map when it begins; a crash drops the map and keeps Redis.
`SurvivesRestart`: a session its client was given, has not ended and has not
left unused is in Redis, unless a command failed or it came back to life while
something was still ending it. `EndedStaysEnded`: a closed session is gone from
map and Redis until a client recovers its id or a request that already held it
puts it back. The run has one process and one session id, so a rotation is covered
by the theorems only. The exceptions are real, and two more things do not hold: a late closer
closes the session restored in between, and two initializes with one token make
two sessions.

**Consolidation.** Every request, the timer's and the tool's, chains on the
promise of the one before (`Released`, `MayEnter`). The chain is a variable of the
process (`MemoryConsolidator.js:45`), and the module is one process: nothing
serialises the cycles of several processes on one database, and the properties
say nothing of them. Rows have contents, at most one row of a key (`Account`)
each, and clients amend content, anchor and importance at any time.
`QueueNeverStuck`: whoever waits has a predecessor that still runs or has let it
in, also after failures. `MergeKeepsOne`: the content of a deleted row is in
another one, unless a client has forgotten or rewritten, or the garbage collection
has deleted, one of its copies (`dropped`), or an amend wrote it into a row that
the merge had already listed (`rewritten`): the merge reads once and deletes by id
(`MemoryConsolidator.js:299`, 339), so that what such an amend wrote is lost.

**Supersession.** One action per statement of the linker, of splitting, semantic deduplication,
compression, contradiction and detectSupersessions; the supersedes a client asks
for are `FragmentStore.Supersede`, and the "co_retrieved" links of recalls are left
out. `SupersededByNewer`: a `superseded_by` link never leads to an older row.
`SupersededLeavesTrace`: a row that the linker, a contradiction or
detectSupersessions retired is linked to what superseded it, however the awaits
fall and whatever fails, while both exist and semantic_dedup has not cleaned the
pair. The other ways to be retired promise no link, and the property says nothing
of them: the linker's gate writes none, semantic_dedup deletes those there are,
compression adds its own after `valid_to`. `supersession_gate` shows what becomes
of two exact duplicates embedded in one chunk: each handler finds the other valid
and both are retired. Embedding is immediate here (see
EmbeddingPipeline); the linker runs with no key, as the scheduler starts it
(`scheduler.js:131`).

**LinkWrites.** `createLink` and `createLinks` as transactions: advisory locks on
`hashtext` of the ids, taken in the order of the *ids*, the INSERT, then, after the
commit, the `linked_to` arrays. Each writer makes one call. `NoCircularWait`: the
transactions that write `fragment_links` wait for each other in a circle only if
two of the ids they link have the same 32-bit hash: with ids a < b < c, the hash of
c that of a, createLink(a, b) and createLink(b, c) wait for each other (PostgreSQL
ends that with an error after a second, and createLink fails). The run's hashes
differ, the theorem allows any. `LinkedBothWays`: a row
of the table is in both arrays, or an update has failed. The updates of
`linked_to` are statements of their own; those of two batches lock their rows in no
set order and may deadlock, which the model has as an update that fails and
`NoCircularWait` does not speak of. Links written elsewhere ("co_retrieved",
`GraphLinker.js:220`; compression, `ConsolidatorGC.js:569`) never enter the arrays
and are not in the module.

**WorkingMemory.** The pipeline of `addToWorkingMemory` and the trim after it
interleave with other calls of the session. `BudgetEnforced`: with no call under way
the list fits its budget or holds protected entries only, and a protected entry
is missing only if it was appended between the read and the rewrite of another
call, or the list was cleared.

**Migrations.** `AppliedInOrder`: the ledger is a prefix, whatever releases
run at once and whichever file fails or process dies.

**CaseEvents, CaseHistory.** Appends take MAX + 1 without a lock, under the
transaction's start time. `ListedInOrder`: the order a case is listed in is
that of the appends except for those that overlapped. `CaseHistory` adds
reconstruct_history: the reads one after the other, then the breadth-first walk.
`ChainsFollowLinks` compares the chains with a definition of reachability that
does not walk. `history_errors` shows that a resolved error is still reported:
the edge is written fix to error and looked for from the error. Ids of events
and fragments never coincide, so event edges add nothing to chains.

**Milestones.** `ChainSkipsNone`: of three calls that do not overlap the third
is chained to the first only if the second failed, repeated what had been told,
or the process was restarted in between.

**Reflection.** Tool calls and closers (DELETE, cleanup, idle scan, shutdown,
the reflect tool) read, change and write back one activity record.
`ReflectedOnce`: a session is reflected twice
only when closers overlap, a tool call writes back a log it read before the
mark, Redis loses the mark, or the process stops.

**ReflectTool.** One action per await of a reflect: the two lists it reads
(either may come back empty), both quota counts, the INSERT, the episode, the
DEL. The items are computed as the code does, as sequences, since their order
decides which the quota lets in: a summary is split where a sentence ends, cut
at `MAX_FRAGMENT_LENGTH`, and two items of one content make the INSERT fail.
`ClearedScrapsTold`: an entry of the working memory is cleared only if a stored
row tells it, or it came after the list was read, the client brought its own
items of that category, the quota had no room, or it ran on in a sentence too
long for a row. All of these happen, and reflect reports success with the
counts it intended in each. The instance has two facts that make one sentence, and a
procedure with the content of a decision. A failed INSERT must end the call:
were its error caught as those of the fallback path are, the property fails,
and that is its mutant. `Unfit` is empty in the run; the row that tells an
item may be an expired one that ON CONFLICT met.

**OAuthGrants.** Each command to Redis is a step; what a lookup of a key finds
is free, since keys are switched off and on and the database fails. A SETEX
that fails is not noticed: the record is as if expired at once.
`RotationAccounted`: a refresh token is deleted for its use only after its
successor was written, and a grant has two successors only if two calls had
read it at once, or a refresh token outlived its use. `ActsForShownKey`: along
any number of refreshes a request acts for the key shown last, and for the one
the client id spells out only after the first was found inactive. Both
exceptions come from the code: GET and DEL are two commands, and `auth.js`
falls through.

**DailyUsage.** The count is incremented after the call is let in and not
waited for, the limit may change and the day ends. `UsageBound`: the calls let
in exceed the largest limit of the day by at most the clients at work and the
increments that failed. Tokens bound to a key by id are let in whatever the
limit (`auth.js:128`), and are outside the bound.

**Claims.** `BackfillMissesNone`: whatever comes, goes or changes while the
script pages, every row it found due and did not fail on has its claim. The
options that restrict a run (`--limit`, `--tenant-key`, `--dry-run`) are left out.
The search for conflicting claims is not in the module, see section 8.

**Retention.** One row, with the importance as a band, idle times as steps and the
access count as zero or more. Comparisons inside a band, links, activation and
LIMIT are free, so the property holds whichever way they go, and so is what the
other rows are: splitting, merging, deduplication, compression and contradiction
may take the row or not. Time passes between cycles.
`CollectedIdle`: *collection* (deleteExpired, purgeStaleReflections) takes no row
that a recall has counted in the last 60 days (solved errors and reflections
apart), with one exception, and no preference used in the last 180, unless its
pinning failed or was undone in that cycle. The exception is reached in the run:
semantic_dedup and compression write back a sum of counts read earlier
(`MemoryConsolidator.js:720` and 758, `ConsolidatorGC.js:548` and 580), a recall
counted in between is lost, and the next cycle takes a fact for one never used
(`raced`). Merging (`MemoryConsolidator.js:339`) deletes rows whatever their use;
it is a stage here, and the property does not speak of it: what it promises is in
Consolidation.

**ContextAssembly.** The core part of `build`. `ContextKept`: the best of
every type is there whole, budgets and slots are kept, and nothing is left out
without a reason. The last of the reasons is a weak one: that some extra did not
fit the characters.

## 7. Proofs

`FragmentStoreProofs` (every set of callers, keys, groups, limits, ids and
contents allowed by the ASSUMEs of `FragmentStore`):

* `TypeCorrect`.
* `LockSafety`. `LockInv` adds `LockShape` to the type invariant and to the
  property: only keys other than master reach the steps that take a row lock.
* `NoDuplicates`. `DuplicateInv` adds `RowsMinted` (every existing row has a
  minted id, so new ids are fresh) and `OneItemPerToken` (a call with a token
  has at most one item: a batch has no token, which is why several fresh rows
  never share one).
* `QuotaSafety`. The property alone is not inductive: between check and INSERT
  of the default remember, and between count and commit of the locked
  transaction, the room found by the check must still be there. `Room(k)` says
  that the *load* of a key (its live rows plus the remembers past their check)
  stays within limit plus slack, also when the items are added that the holder
  of the lock is about to store; `UnlockedPathShape` says that the atomic mode
  leaves the unlocked path to the master key. The lock makes a check and a
  pending store exclusive (`LockInv`); each writer is shown to keep `Room` by
  counting with the cardinality facts of `FiniteSetTheorems`.
* `AnswersOwn`: rows never change key while they exist, and ids are not reused; it
  covers the rows a batch was merged into as well as those it has made.
* `RowsFindable`: `FindableInv` strengthens "some call has the row in hand" to
  "some call is *next* to index or to delete it" (`MissingDue`), and adds that what
  a `forget` has taken out of the index it may also delete (`DeletesOwned`); that
  is where the property needs the keys to have no groups.

`LlmDispatchProofs` (any calls, chain, limits, threshold):

* `TypeCorrect`, `SlotSafety`: `SlotInv` is the type invariant with
  `SlotsAccounted`. The lemmas on top say what Append, Tail and RemoveAt do to
  the elements of a duplicate-free sequence; the steps that do not touch a slot
  are treated together (`Quiet`), then Acquire, WaitTimesOut, Release each.
* `BreakerEvidence`: `failures[n] <= 2 * streak[n]` is what makes
  `OpenNeedsFailures` inductive.
* `Refinement`: every step of the dispatcher is a step of the pool or leaves it
  alone; it uses `SlotsAccounted` (the counter is the number of holders).

`EmbeddingPipelineProofs`: `TypeCorrect` and `NoForeignVectors`.
`PipelineInv` adds to the property that a chunk is what its job has read
(`Chunked`) and that every item of a job carries the content its row had when
it was read, or the row has been overtaken since (`ItemsFaithful`).

`UpkeepProofs` (what the server does to its own memory):

* `Serialised` (at most one cycle runs), `NobodyStuck`, `OneCopyKept`
  (Consolidation). `MergeInv` is the queue (slots are resolved in order, each
  unresolved one is held by one caller), what the merge still has to do
  (`TodoSound`) and the property.
* `OnlyIdleCollected` (Retention): `PreferenceHeld`
  follows a preference through the rest of the cycle (permanent, untouched for too
  long, or touched since), `CountedByAccess` relates the two idle times.
  `RecallCounted` says that a row recalled lately has a count above zero or has
  lost it to a stage (`raced`), `ZeroBefore` that as long as it has not, no running
  stage holds a count of zero read from that row.
* `TowardsNewer`, `TraceLeft` (Supersession). `RetiringTraced` and
  `HeirTraced` say that from the moment a row may be retired its link is there.

`ToolProofs` (what the reading tools do):

* `Isolation`, `Current`, `NoGhosts`, `KeywordComplete` (Recall).
  `RecallInv` says of every running call that the copies it got from SQL are of
  keys it may see and were read after its start (`CallsSound`), that rows only age
  (`StartPast`), and of the caches that what they hold is a row, or one of the rows
  about to leave that has been filled again (`HotSound`, `CachedSound`).
  `KeywordInv` adds what makes a keyword recall complete: no layer holds two copies
  of one id and a copy that says "expired" tells the truth (`TrueCopies`), so that
  what L2 has read live is neither displaced by a copy of the cache nor filtered
  out (`KeywordsFound`).
* `BudgetKept` (`BudgetEnforced` of WorkingMemory). `WmInv` adds `HeavyKept`: an
  protected entry that was pushed is in the list and in every list that is about
  to be written back, unless it came late or was cleared, and `OverLooked`: the list is within its budget unless
  a call has still to look at it, or has failed to.
* `CoreKept` (`ContextKept` of ContextAssembly). `Assembles` is the invariant of
  the loop that takes the extras one by one: the best of every section stand in
  front (`Fronted`), the budgets are kept and every type is counted (`Bounded`,
  `Tallied`), no extra is taken twice (`Distinguished`), and one that was looked
  at and left out came upon a limit (`Excused`, `Misfit`).
* `ClearedAreTold` (`ClearedScrapsTold` of ReflectTool). `RtInv` follows what a
  call has read from the session's list: until the batch it is told by the call's
  items or by what was dropped, after it by rows or what was dropped (`Owes`,
  `Square`); a call that has cleared the list is over (`Settled`). The lemmas say what
  splitting and cutting keep of the items.

These models fold over lists with a recursive function inside a LET. The
theorems of the library that define such functions take an operator as a
parameter, so what they compute is shown directly: on the finite set of positions
of the list a definition by recursion has a solution (`RecursionDefines`, by the
least position where it would fail), and a statement holds up to the end of the
list when it holds at 0 and passes from one position to the next (`UpTo`).

`ServiceProofs` (the parts around the memory):

* `MigrationOrder`, `NoCollisions`. The holder of the lock is whoever runs past
  it, the ledger is 1..k, and a runner's list is what is missing of its release.
* `UsageBounded`, by two sums: the calls let in are at most those counted, lost or
  being counted, and those with the ones about to enter at most the peak limit
  with its slack.
* `SessionSurvives`, `SessionEnds`. `SessionsInv` adds that nothing that would end
  a live session has it in hand (`LiveLeftAlone`), and that a request which still
  holds an ended session had it when it was closed (`HoldersKnow`).
* `Rotation`, `ShownKeyActs`. `GrantsInv`: a source that nobody contests has one
  user and one successor, which does not exist while the user has yet to write it
  (`OneUser`, `OneSuccessor`); no two calls write the same pair (`OwnTarget`); a
  code has successors only once it is gone, a refresh token only once it has been
  answered (`SourcesSpent`). `GrantsTypeCorrect` follows from the same invariant.
* `TripHeld`, an action property: `ExpiredOvertaken` says that a try which found
  the circuit due was overtaken if the circuit is fresh again.

`MemoryProofs` (what is kept around the fragments):

* `BothWays`. `LinkInv`: what a call holds follows from its phase (`HeldByPhase`,
  `PairsHeld`), and once it updates the targets the sources are done
  (`SourcesDone`). `NoCircle`: assume a set in which everybody
  waits for a member. Who waits for a row lock waits for nobody, since the locks
  of the pair keep all others away; those who wait for the lock of a pair, or for
  the second id of a single link, wait for something above all they hold of that
  kind, so the highest of them waits for nobody in the set (lemma `Maximal`; only
  finitely many calls have begun, `FewBegun`); and the first id is only held by
  calls that are past it. Locks are told apart by their hashes, so all of this is
  under the assumption that the ids in play have different ones, and that is the
  conclusion's alternative.
* `OrderKept`. `OverEarlier`: an event that was stored when the append of another
  began is no younger than it and has a lower number as soon as the other has one;
  the numbers are fewer than the events, so MAX + 1 is there to take.
* `ChainsFollow`. `WalkClosed` is the invariant of a breadth-first search: what
  has been visited or queued is reached from the root, contains it, and is closed
  under the links of what has been visited; with an empty queue the visited are
  the least closed set, which is what `Reached` means. Then chains are counted.
* `HistoryTypeCorrect` needs `CaseEventsSpec` beside `CaseHistorySpec`: a
  reconstruction reads the edges that the event store has written.
* `ChainWhole`. The latest event of an agent is one whose call is done
  (`LatestOver`), and is not one that a later, uncut call has been done after
  (`LatestNewest`).
* `Once`. While nothing excuses it, whoever summarises is alone (`SumsAlone`) and
  the first (`SumsFirst`), and a stored reflection is marked or about to be
  (`StoredMarked`).
* `NoneMissed`. `DueDone`: what is due has its claim or is still ahead of the
  script, in a tenant not yet begun, before the cursor, in the rows read or beyond
  them. That a page is the PageSize highest ids below the cursor is stated with
  cardinalities (`FromAbove`), and that it leaves no gap follows from the theorems
  on finite sets.

`ServerProofs`: `ServerRunsEach`, every behaviour of `MCServer` is, seen through
the variables of one component, a behaviour of that component's specification;
this is what lets the theorems above speak of the whole and not only of a part
(`ServerStep`: a step of the server is a step of the component in focus and
leaves the others alone). `ServerTypeCorrect` puts the type theorems together.

Where an induction is needed a set is given its least or its maximal member
(lemmas `LeastNatural`, `LeastNumber`, `Maximal`).

The constants are assumed to be what they are in the program: finite tables
(`Frag`, `Event`, `Story`, `Memo`), values that stand for "none" outside their
sets, at least one text and one kind of fragment, ranks that tell
fragments apart. TLC evaluates every ASSUME.

The theorems are about `Spec`, and so hold of `FairSpec` too.

Type correctness is proved of every module, and every safety invariant and
action property that a passing run checks is proved.

Only model-checked: liveness (`EventuallyEmbedded`, `SomeWaiterServed`), which
is beyond the proof system together with ENABLED. No module declares a RECURSIVE
operator.

## 8. Disagreements with documents and comments

Shown by a run: section 3 (tokens, versions), 4 (dead letters, stale vectors), and
`recall_stale`, `supersession_gate`, `history_errors`. Seen while modelling, and visible in
one call or beyond the instances:

* `docs/architecture.en.md:799`: "permanently excluded from MemoryConsolidator's decay and deletion" is said of
  anchors; `_mergeDuplicates` (`MemoryConsolidator.js:298-345`) has no `is_anchor` filter, groups rows by content
  over all keys and deletes all but the most important. In the model, too, MergeOne takes anchors.
* `docs/internals.en.md:99`: "Fragments with identical content_hash are merged"; the rows are deleted by the ids
  read before (`MemoryConsolidator.js:339`), whatever an amend has made of their contents since.
* `LinkStore.js:25`: sorted locks as prevention of deadlocks; the order is that of the ids, the locks are their
  32-bit hashes (see LinkWrites above).
* `docs/configuration.en.md:70`: the hard gate is not asked on the atomic path (`MemoryRememberer.js:272`).
* `docs/operations/llm-providers.md:59`: see section 5.
* `docs/architecture.en.md:774` says only L1 hits without content are dropped; the
  merge drops every hit found by L1 alone in text recalls (`FragmentSearch.js:328`, 762-781).
* `docs/internals.en.md:254` and 272 say case numbering locks its rows; `CaseEventStore.js` uses MAX + 1.
* `MemoryRememberer.js:560`: "the immediately preceding event" is one of the two oldest of the case (`getByCase` is ascending).
  EpisodeContinuityService and remember write `preceded_by` in opposite directions.
* `GraphLinker.js:147` relies on equal key ids; it is called without a key (`scheduler.js:131`), and pairs of different keys are linked.
* `ContradictionDetector`: candidates are selected without `key_id`, so keyed pairs are refused later; an unavailable
  model reads as "no contradiction" and drops the pending pair.
* `docs/architecture.en.md:795` exempts permanent rows from deletion; `transitionTTL` paroles them in the same pass, a
  preference nobody has read yet at once, and un-anchored time is charged in arrears by the next decay.
  `docs/architecture.en.md:428`: an anchored warm row does go to cold.
* `docs/internals.en.md:96`: rejected rows stay out of permanent, but hubs and preferences get there.
  `MemoryEvaluator.js:65`: dropped jobs are marked `quality_verified = false`, which the requeue (IS NULL) never selects.
* `docs/internals.en.md:107`: the feedback window is 7 days in the code; `docs/internals.en.md:112`: `decayEmaActivation` has no caller.
* `ClaimStore.findPolarityConflicts` joins claims of equal predicate and opposite polarity, but `_derivePredicate` makes the marker that decides
  the polarity the predicate: no two claims the extractor makes are a conflict, so neither the warning of `checkAssertionConsistency` nor
  the gate of proactive links fires on them.
* `docs/configuration.en.md:138`: an access token in use "never expires"; `extendOAuthToken` moves the TTL in Redis, while
  `validateAccessToken` (`oauth.js:457`) compares with the `expires_at` stored in the record. The first refresh token's record expires after
  24 times the access TTL, its key in Redis after REFRESH_TTL_SECONDS, whichever comes first.
* `registerClient` (ON CONFLICT) keeps the first name and addresses: a client that GET /authorize has registered by itself is not
  bound by a later POST /register with a key.
* `SessionLinker.js:57` takes every error of a session for a resolved one: reflect stores open ones as "[해결됨]" too. The milestone goes to the
  first fragment of a reflect and never to its episode, which is not in `fragments` (`ReflectProcessor.js:327`).
* `negotiateProtocolVersion` (`jsonrpc.js`) accepts an older unlisted version "for forward compatibility", which `handleMcpPost`
  then answers with 400 in every later request's header.
* `ContextBuilder`: learning fragments are read after the core has been put together and never reach it; anchors are looked for by a type
  that no fragment has.

## 9. Not modelled

* Of OAuth: redirect addresses, PKCE and the consent page (checks without state), the in-memory maps that replace Redis when it
  is off, `REJECT_NONAPIKEY_OAUTH=false`, and the metadata documents. Rate limits: a synchronous sliding window per process.
* Link weights (`ReconsolidationEngine.js`), reward back-propagation, EMA: real-valued single statements.
* Legacy SSE sessions: one map, no Redis copy, no await. `TemporalLinker`: one read, then up to five
  `createLink` at once (LinkWrites has calls that overlap, not this caller). "co_retrieved" links of a recall: single upserts.
* `CaseEventStore.deleteExpired`, `FragmentGC.decayEmaActivation`: no caller.
* `LLM_CONCURRENCY_ENABLED=false`: no semaphore at all. In remember: `dryRun`, `scope=session`. The token of a batch item is
  ignored by the code (its INSERT has no such column) and by the model.
* Ranking, similarity, tokenizing, prompts, schemas, the admin pages, CLI, updater, metrics and logs: formatting,
  arithmetic over reals, and I/O without shared state.
* Keys, limits and groups do not change during a behaviour of `FragmentStore` and `Recall`.

The share of the code the modules stand for is bounded by this: of its lines
a large part is presentation (the admin pages), declarations (tool schemas, the
OpenAPI document, configuration), command-line front ends and statistics.

## 10. Running

In this directory: `tlc -config FragmentStoreAtomic.cfg MCFragmentStore`, and
so on for each run of `PROJECT.json`; `tlc -config Server.cfg MCServer` takes a few
minutes. `tlapm FragmentStoreProofs.tla` and the other modules ending in Proofs.
