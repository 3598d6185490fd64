--------------------------- MODULE FragmentStore ---------------------------
(***************************************************************************)
(* The write path of the fragment store: remember, batch_remember, amend   *)
(* and forget, run by concurrent tool calls of one server process against  *)
(* PostgreSQL and the Redis reverse index (lib/memory/processors/          *)
(* MemoryRememberer.js, BatchRememberProcessor.js, QuotaChecker.js,        *)
(* FragmentWriter.js, FragmentIndex.js).                                   *)
(*                                                                         *)
(* Every await that reads or writes the database or the index is a step of *)
(* its own, so the calls interleave exactly where the event loop lets them.*)
(* A fragment's text, keywords and scores are abstracted to its content    *)
(* (two fragments have the same content iff the same content_hash) and its *)
(* idempotency key to a token.                                             *)
(***************************************************************************)
EXTENDS Integers, FiniteSets

CONSTANTS
  Caller,          \* concurrently running tool calls (handler slots)
  Key,             \* API keys, the master key (key_id NULL) among them
  Master,          \* the master key
  LimitedKey,      \* keys whose api_keys.fragment_limit is not NULL
  Limit,           \* fragment_limit of every limited key
  Group,           \* the keys whose fragments a key may see (groupKeyIds)
  HardGate,        \* keys with symbolic_hard_gate = true
  Frag,            \* fragment ids (bounds how many rows are ever created)
  Content,         \* fragment contents, one per content_hash
  Violating,       \* contents PolicyRules.check reports a violation for
  Token,           \* idempotency keys
  MaxBatch,        \* bound on the items of one batch_remember
  Tool,            \* the tools the mode preset leaves enabled
  AtomicRemember,  \* MEMENTO_REMEMBER_ATOMIC
  MaxSetSize,      \* members a keyword's set keeps when the index is pruned
  WarmupLimit,     \* rows the warm-up of a start loads at most
  NoCaller, NoFrag, NoToken, NoContent, NoRow

ASSUME CallerAssumption == IsFiniteSet(Caller) /\ Caller # {} /\ NoCaller \notin Caller
ASSUME KeyAssumption == /\ Master \in Key
                        /\ LimitedKey \subseteq Key \ {Master}
                        /\ HardGate \subseteq Key \ {Master}
                        /\ Limit \in [LimitedKey -> Nat]
                        /\ Group \in [Key -> SUBSET Key]
                        /\ \A k \in Key : k \in Group[k]
ASSUME DataAssumption == /\ IsFiniteSet(Frag) /\ NoFrag \notin Frag
                         /\ IsFiniteSet(Content) /\ NoContent \notin Content
                         /\ Violating \subseteq Content
                         /\ NoToken \notin Token
                         /\ MaxBatch \in Nat /\ MaxSetSize \in Nat /\ WarmupLimit \in Nat
                         /\ AtomicRemember \in BOOLEAN
                         /\ Tool \subseteq {"remember", "batch", "amend", "forget"}

(***************************************************************************)
(* A row of agent_memory.fragments; "live" is valid_to IS NULL.            *)
(***************************************************************************)
Row == [key : Key, content : Content, token : Token \cup {NoToken}, live : BOOLEAN]

ASSUME NoRowAssumption == NoRow \notin Row

VARIABLES
  rows,      \* the fragments table
  minted,    \* ids ever given to a row (ids are random and never reused)
  versions,  \* fragment_versions: <<fragment, archived content>>
  lock,      \* holder of the api_keys row lock (SELECT ... FOR UPDATE)
  index,     \* fragments registered in the Redis reverse index
  lost,      \* history: fragments that a failure or the pruning left unregistered
  cold,      \* the server has restarted and the index warm-up has not run
  call,      \* what each running tool call is doing
  acked      \* history: ids answered to remember calls with a token

vars == <<rows, minted, versions, lock, index, lost, cold, call, acked>>

Op == {"none", "remember", "batch", "amend", "forget"}
PC == {"idle", "quota", "gate", "insert", "phaseA", "lock", "count", "store",
       "index", "supersede", "amend", "deindex", "delete"}

Call == [op : Op, pc : PC, key : Key, items : SUBSET Content,
         token : Token \cup {NoToken}, frags : SUBSET Frag, merged : SUBSET Frag,
         old : Frag \cup {NoFrag}, was : Content \cup {NoContent}]

NoCall == [op |-> "none", pc |-> "idle", key |-> Master, items |-> {},
           token |-> NoToken, frags |-> {}, merged |-> {}, old |-> NoFrag,
           was |-> NoContent]

TypeOK ==
  /\ rows \in [Frag -> Row \cup {NoRow}]
  /\ minted \in SUBSET Frag
  /\ versions \in SUBSET (Frag \X (Content \cup {NoContent}))
  /\ lock \in [Key -> Caller \cup {NoCaller}]
  /\ index \in SUBSET Frag
  /\ lost \in SUBSET Frag
  /\ cold \in BOOLEAN
  /\ call \in [Caller -> Call]
  /\ acked \in SUBSET (Key \X Token \X Frag)

----------------------------------------------------------------------------
(* What the queries select.                                                *)

Exists(f) == rows[f] # NoRow

\* SELECT COUNT( * ) ... WHERE key_id = k AND valid_to IS NULL
Live(k) == {f \in Frag : Exists(f) /\ rows[f].key = k /\ rows[f].live}

\* mutant of Holding: the duplicate lookup forgets the key_id filter
HoldingAnyKey(k, c) == {f \in Frag : Exists(f) /\ rows[f].content = c}

\* the rows of key k with this content, expired ones included
Holding(k, c) == {f \in Frag : Exists(f) /\ rows[f].key = k /\ rows[f].content = c}

\* the rows of key k that carry idempotency key t, expired ones included
Carrying(k, t) == {f \in Frag : Exists(f) /\ rows[f].key = k /\ rows[f].token = t}

\* findByIdempotencyKey also asks for valid_to IS NULL
FindByIdempotencyKey(k, t) == Carrying(k, t) \cap Live(k)

\* the unique index on (key_id, idempotency_key) refuses a second row
TokenTaken(k, t) == t # NoToken /\ Carrying(k, t) # {}

\* getById and searchByTopic filter by the caller's group; master sees all
Visible(k, f) == Exists(f) /\ (k = Master \/ rows[f].key \in Group[k])

\* update and delete are refused to every key but the owner and master
Owns(k, f) == Exists(f) /\ (k = Master \/ rows[f].key = k)

\* mutant of Full: the limit itself is let through
FullOffByOne(k) == k \in LimitedKey /\ Cardinality(Live(k)) > Limit[k]

Full(k) == k \in LimitedKey /\ Cardinality(Live(k)) >= Limit[k]

\* what a batch may still add: the limit's remainder, or everything
Fits(k, items) ==
  k \in LimitedKey => Cardinality(items) <= Limit[k] - Cardinality(Live(k))

\* validFragments.splice(remaining): as many as fit are kept, never fewer
Kept(k, items) ==
  IF Fits(k, items)
  THEN {items}
  ELSE {kept \in SUBSET items : Cardinality(kept) = Limit[k] - Cardinality(Live(k))}

NewRow(k, c, t) == [key |-> k, content |-> c, token |-> t, live |-> TRUE]

Return(s) == call' = [call EXCEPT ![s] = NoCall]

(***************************************************************************)
(* The write is done. F is what the call answers with and goes on to       *)
(* index; M is what a batch answers with only: rows its items were merged  *)
(* into, whose ids are not those the batch had minted for them.            *)
(***************************************************************************)
Written(s, F, M) ==
  call' = [call EXCEPT ![s] = [@ EXCEPT !.pc = "index", !.items = {}, !.frags = F, !.merged = M]]

----------------------------------------------------------------------------
Init ==
  /\ rows = [f \in Frag |-> NoRow]
  /\ minted = {}
  /\ versions = {}
  /\ lock = [k \in Key |-> NoCaller]
  /\ index = {}
  /\ lost = {}
  /\ cold = FALSE
  /\ call = [s \in Caller |-> NoCall]
  /\ acked = {}

(***************************************************************************)
(* remember: the idempotency lookup comes first; a hit is answered at once *)
(* without spending quota.                                                 *)
(***************************************************************************)
ReplayRemember(s, k, t) ==
  /\ call[s].pc = "idle"
  /\ \E f \in FindByIdempotencyKey(k, t) : acked' = acked \cup {<<k, t, f>>}
  /\ UNCHANGED <<rows, minted, versions, lock, index, lost, cold, call>>

StartRemember(s, k, c, t, old) ==
  /\ call[s].pc = "idle"
  /\ t # NoToken => FindByIdempotencyKey(k, t) = {}
  /\ call' = [call EXCEPT ![s] =
       [NoCall EXCEPT !.op = "remember", !.key = k, !.items = {c}, !.token = t, !.old = old,
                      !.pc = IF AtomicRemember /\ k # Master THEN "lock" ELSE "quota"]]
  /\ UNCHANGED <<rows, minted, versions, lock, index, lost, cold, acked>>

(***************************************************************************)
(* QuotaChecker.check: its own transaction, which waits for the row lock,  *)
(* compares the count with the limit and gives the lock back.              *)
(***************************************************************************)
CheckQuota(s) ==
  LET k == call[s].key IN
  /\ call[s].pc = "quota"
  /\ lock[k] = NoCaller
  /\ IF Full(k) THEN Return(s)
                ELSE call' = [call EXCEPT ![s].pc = "gate"]
  /\ UNCHANGED <<rows, minted, versions, lock, index, lost, cold, acked>>

\* SymbolicPolicyViolationError: the key opted in to the hard gate
GateRejects(s) == call[s].key \in HardGate /\ call[s].items \cap Violating # {}

\* The gate first, then FragmentWriter.insert's duplicate SELECT, whose hit is the id to return
FindDuplicate(s) ==
  LET k == call[s].key IN
  /\ call[s].pc = "gate"
  /\ IF GateRejects(s)
       THEN Return(s)
       ELSE \E c \in call[s].items :
              \/ /\ Holding(k, c) = {}
                 /\ call' = [call EXCEPT ![s].pc = "insert"]
              \/ \E f \in Holding(k, c) : Written(s, {f}, {})
  /\ UNCHANGED <<rows, minted, versions, lock, index, lost, cold, acked>>

(***************************************************************************)
(* INSERT ... ON CONFLICT (key_id, content_hash) DO UPDATE RETURNING id:   *)
(* the row that won the race is returned, a taken idempotency key raises,  *)
(* otherwise there is a new row.                                           *)
(***************************************************************************)
Insert(s) ==
  LET k == call[s].key
      t == call[s].token
  IN
  /\ call[s].pc = "insert"
  /\ \E c \in call[s].items :
       \/ /\ Holding(k, c) = {} /\ TokenTaken(k, t)
          /\ Return(s)
          /\ UNCHANGED <<rows, minted>>
       \/ \E f \in Holding(k, c) :
            /\ Written(s, {f}, {})
            /\ UNCHANGED <<rows, minted>>
       \/ /\ Holding(k, c) = {} /\ ~TokenTaken(k, t)
          /\ \E f \in Frag \ minted :
               /\ rows' = [rows EXCEPT ![f] = NewRow(k, c, t)]
               /\ minted' = minted \cup {f}
               /\ Written(s, {f}, {})
  /\ UNCHANGED <<versions, lock, index, lost, cold, acked>>

(***************************************************************************)
(* batch_remember. Phase A trims the batch to the remaining quota in a     *)
(* transaction of its own; the master key has no quota and takes no lock.  *)
(***************************************************************************)
StartBatch(s, k, items) ==
  /\ call[s].pc = "idle"
  /\ call' = [call EXCEPT ![s] =
       [NoCall EXCEPT !.op = "batch", !.key = k, !.items = items,
                      !.pc = IF k = Master THEN "store" ELSE "phaseA"]]
  /\ UNCHANGED <<rows, minted, versions, lock, index, lost, cold, acked>>

PhaseA(s) ==
  LET k == call[s].key IN
  /\ call[s].pc = "phaseA"
  /\ lock[k] = NoCaller
  /\ IF Full(k)
     THEN Return(s)
     ELSE \E kept \in Kept(k, call[s].items) :
            call' = [call EXCEPT ![s] = [@ EXCEPT !.pc = "lock", !.items = kept]]
  /\ UNCHANGED <<rows, minted, versions, lock, index, lost, cold, acked>>

\* mutant of LockKey: the SELECT lost its FOR UPDATE
LockKeyShared(s) ==
  /\ call[s].pc = "lock"
  /\ lock' = [lock EXCEPT ![call[s].key] = s]
  /\ call' = [call EXCEPT ![s].pc = "count"]
  /\ UNCHANGED <<rows, minted, versions, index, lost, cold, acked>>

(***************************************************************************)
(* The locked transaction shared by the atomic remember and by phase B of  *)
(* a batch: BEGIN; SELECT ... FOR UPDATE; count; INSERT; COMMIT.           *)
(***************************************************************************)
LockKey(s) ==
  LET k == call[s].key IN
  /\ call[s].pc = "lock"
  /\ lock[k] = NoCaller
  /\ lock' = [lock EXCEPT ![k] = s]
  /\ call' = [call EXCEPT ![s].pc = "count"]
  /\ UNCHANGED <<rows, minted, versions, index, lost, cold, acked>>

\* the end of the transaction gives the row lock back (master holds none)
Unlock(s) == lock' = [k \in Key |-> IF lock[k] = s THEN NoCaller ELSE lock[k]]

\* mutant of CountLocked: the rejection forgets to ROLLBACK
CountLockedNoRollback(s) ==
  LET k == call[s].key IN
  /\ call[s].pc = "count"
  /\ IF Full(k)
     THEN Return(s)
     ELSE \E kept \in Kept(k, call[s].items) :
            call' = [call EXCEPT ![s] = [@ EXCEPT !.pc = "store", !.items = kept]]
  /\ UNCHANGED <<rows, minted, versions, lock, index, lost, cold, acked>>

CountLocked(s) ==
  LET k == call[s].key IN
  /\ call[s].pc = "count"
  /\ IF Full(k)
     THEN Return(s) /\ Unlock(s)
     ELSE /\ \E kept \in Kept(k, call[s].items) :
               call' = [call EXCEPT ![s] = [@ EXCEPT !.pc = "store", !.items = kept]]
          /\ UNCHANGED lock
  /\ UNCHANGED <<rows, minted, versions, index, lost, cold, acked>>

\* the items that ON CONFLICT does not merge into an existing row
Fresh(s) == {c \in call[s].items : Holding(call[s].key, c) = {}}

\* one new id per new row
NewIds(items) ==
  {ids \in [items -> Frag \ minted] : \A a, b \in items : a # b => ids[a] # ids[b]}

\* the rows that ON CONFLICT DO UPDATE merges items into and RETURNs
MergedInto(s) == UNION {Holding(call[s].key, c) : c \in call[s].items}

StoreLocked(s) ==
  LET k == call[s].key
      t == call[s].token
      fresh == Fresh(s)
      batch == call[s].op = "batch"
  IN
  /\ call[s].pc = "store"
  /\ fresh # {} => ~TokenTaken(k, t)
  /\ \E ids \in NewIds(fresh) :
       LET new == {ids[c] : c \in fresh} IN
       /\ rows' = [f \in Frag |->
                     IF f \in new
                     THEN NewRow(k, CHOOSE c \in fresh : ids[c] = f, t)
                     ELSE rows[f]]
       /\ minted' = minted \cup new
       /\ Written(s, IF batch \/ fresh # {} THEN new ELSE MergedInto(s),
                     IF batch THEN MergedInto(s) ELSE {})
  /\ Unlock(s)
  /\ UNCHANGED <<versions, index, lost, cold, acked>>

(***************************************************************************)
(* ROLLBACK: a taken idempotency key, or a batch one of whose chunks       *)
(* violates a constraint (two equal contents in one INSERT raise).         *)
(***************************************************************************)
StoreAborts(s) ==
  /\ call[s].pc = "store"
  /\ call[s].op = "batch" \/ (Fresh(s) # {} /\ TokenTaken(call[s].key, call[s].token))
  /\ Return(s)
  /\ Unlock(s)
  /\ UNCHANGED <<rows, minted, versions, index, lost, cold, acked>>

(***************************************************************************)
(* After the row is committed: FragmentIndex.index, then the explicit      *)
(* supersedes, which expire rows of the caller's own key only. Without a   *)
(* ready Redis, or when the pipeline fails, nothing is registered and      *)
(* nobody is told; an amended row is then not under its new words.         *)
(***************************************************************************)
IndexFragments(s) ==
  LET F == call[s].frags
      before == IF call[s].op = "amend" THEN index \ F ELSE index
  IN
  /\ call[s].pc = "index"
  /\ \E done \in SUBSET F :
       /\ index' = before \cup done
       /\ lost' = (lost \cup (F \ before)) \ done
  /\ IF call[s].op = "remember"
     THEN call' = [call EXCEPT ![s].pc = "supersede"]
     ELSE Return(s)
  /\ UNCHANGED <<rows, minted, versions, lock, cold, acked>>

Supersede(s) ==
  LET k == call[s].key
      old == call[s].old
  IN
  /\ call[s].pc = "supersede"
  /\ IF old # NoFrag /\ old \notin call[s].frags /\ Owns(k, old)
     THEN rows' = [rows EXCEPT ![old].live = FALSE]
     ELSE UNCHANGED rows
  /\ acked' = IF call[s].token = NoToken THEN acked
              ELSE acked \cup {<<k, call[s].token, f>> : f \in call[s].frags}
  /\ Return(s)
  /\ UNCHANGED <<minted, versions, lock, index, lost, cold>>

(***************************************************************************)
(* amend: the row is read first; the transaction then archives what was    *)
(* READ, checks for a duplicate and updates. A key that can see the row    *)
(* but does not own it is refused by update() before anything is written.  *)
(***************************************************************************)
\* mutant of StartAmend: an absent content is passed on as a new content
StartAmendUndefined(s, k, f, c) ==
  /\ call[s].pc = "idle"
  /\ Visible(k, f) /\ Owns(k, f) /\ rows[f].live
  /\ call' = [call EXCEPT ![s] =
       [NoCall EXCEPT !.op = "amend", !.pc = "amend", !.key = k, !.items = {NoContent},
                      !.frags = {f}, !.was = rows[f].content]]
  /\ UNCHANGED <<rows, minted, versions, lock, index, lost, cold, acked>>

StartAmend(s, k, f, c) ==
  /\ call[s].pc = "idle"
  /\ Visible(k, f) /\ Owns(k, f) /\ rows[f].live
  /\ call' = [call EXCEPT ![s] =
       [NoCall EXCEPT !.op = "amend", !.pc = "amend", !.key = k, !.items = {c},
                      !.frags = {f}, !.was = rows[f].content]]
  /\ UNCHANGED <<rows, minted, versions, lock, index, lost, cold, acked>>

\* mutant of AmendStore: no duplicate check before the UPDATE
AmendStoreUnchecked(s) ==
  /\ call[s].pc = "amend"
  /\ \E f \in call[s].frags, c \in call[s].items :
       /\ Exists(f)
       /\ versions' = versions \cup {<<f, call[s].was>>}
       /\ rows' = [rows EXCEPT ![f].content = c]
       /\ call' = [call EXCEPT ![s] = [@ EXCEPT !.pc = "deindex", !.items = {}, !.was = NoContent]]
  /\ UNCHANGED <<minted, lock, index, lost, cold, acked>>

AmendStore(s) ==
  /\ call[s].pc = "amend"
  /\ \E f \in call[s].frags, c \in call[s].items :
       IF Exists(f) /\ Holding(rows[f].key, c) \subseteq {f}
       THEN /\ versions' = versions \cup {<<f, call[s].was>>}
            /\ rows' = [rows EXCEPT ![f].content = c]
            /\ call' = [call EXCEPT ![s] =
                         [@ EXCEPT !.pc = "deindex", !.items = {}, !.was = NoContent]]
       ELSE Return(s) /\ UNCHANGED <<rows, versions>>
  /\ UNCHANGED <<minted, lock, index, lost, cold, acked>>

(***************************************************************************)
(* forget, by id (a live row) or by topic (a set of rows, expired ones     *)
(* included): what the caller's group may see is taken out of the index    *)
(* first, then only the rows the caller owns are deleted.                  *)
(***************************************************************************)
StartForget(s, k, F) ==
  /\ call[s].pc = "idle"
  /\ F # {} /\ \A f \in F : Visible(k, f)
  /\ call' = [call EXCEPT ![s] =
       [NoCall EXCEPT !.op = "forget", !.pc = "deindex", !.key = k, !.frags = F]]
  /\ UNCHANGED <<rows, minted, versions, lock, index, lost, cold, acked>>

\* mutant of Deindex: amend does not register the fragment again
DeindexOnly(s) ==
  /\ call[s].pc = "deindex"
  /\ \E gone \in SUBSET call[s].frags : index' = index \ gone
  /\ IF call[s].op = "amend" THEN Return(s)
     ELSE call' = [call EXCEPT ![s].pc = "delete"]
  /\ UNCHANGED <<rows, minted, versions, lock, lost, cold, acked>>

\* deindex fails as silently as index does
Deindex(s) ==
  /\ call[s].pc = "deindex"
  /\ \E gone \in SUBSET call[s].frags : index' = index \ gone
  /\ call' = [call EXCEPT ![s].pc = IF call[s].op = "amend" THEN "index" ELSE "delete"]
  /\ UNCHANGED <<rows, minted, versions, lock, lost, cold, acked>>

Delete(s) ==
  LET gone == {f \in call[s].frags : Owns(call[s].key, f)} IN
  /\ call[s].pc = "delete"
  /\ rows' = [f \in Frag |-> IF f \in gone THEN NoRow ELSE rows[f]]
  /\ versions' = {v \in versions : v[1] \notin gone}
  /\ Return(s)
  /\ UNCHANGED <<minted, lock, index, lost, cold, acked>>

\* a statement of the deletion fails: the rows stay, the index has let go of them
DeleteFails(s) ==
  /\ call[s].pc = "delete"
  /\ lost' = lost \cup (call[s].frags \ index)
  /\ Return(s)
  /\ UNCHANGED <<rows, minted, versions, lock, index, cold, acked>>

(***************************************************************************)
(* The consolidation cycle prunes the index: of a keyword's set, which may *)
(* be any of the registered fragments, the members beyond MaxSetSize go.   *)
(***************************************************************************)
PruneKeywordIndexes ==
  /\ \E out \in SUBSET index :
       /\ out # {} /\ Cardinality(out) <= Cardinality(index) - MaxSetSize
       /\ index' = index \ out
       /\ lost' = lost \cup out
  /\ UNCHANGED <<rows, minted, versions, lock, cold, call, acked>>

(***************************************************************************)
(* The process dies: running calls vanish, PostgreSQL rolls their open     *)
(* transactions back, Redis keeps the index. The next start registers live *)
(* rows that have keywords (FragmentIndex.warmup), WarmupLimit of them at  *)
(* most; each of those writes may fail too.                                *)
(***************************************************************************)
Restart ==
  /\ call # [s \in Caller |-> NoCall]
  /\ call' = [s \in Caller |-> NoCall]
  /\ lock' = [k \in Key |-> NoCaller]
  /\ lost' = lost \cup {f \in Frag \ index : \E s \in Caller : f \in call[s].frags}
  /\ cold' = TRUE
  /\ UNCHANGED <<rows, minted, versions, index, acked>>

Warmup ==
  /\ cold
  /\ cold' = FALSE
  /\ \E loaded \in SUBSET {f \in Frag : Exists(f) /\ rows[f].live} :
       /\ Cardinality(loaded) <= WarmupLimit
       /\ index' = index \cup loaded
       /\ lost' = lost \ loaded
  /\ UNCHANGED <<rows, minted, versions, lock, call, acked>>

Step(s) ==
  \/ CheckQuota(s) \/ FindDuplicate(s) \/ Insert(s)
  \/ PhaseA(s) \/ LockKey(s) \/ CountLocked(s) \/ StoreLocked(s) \/ StoreAborts(s)
  \/ IndexFragments(s) \/ Supersede(s) \/ AmendStore(s) \/ Deindex(s) \/ Delete(s)
  \/ DeleteFails(s)

Request(s) ==
  \E k \in Key :
    \/ /\ "remember" \in Tool
       /\ \/ \E t \in Token : ReplayRemember(s, k, t)
          \/ \E c \in Content, t \in Token \cup {NoToken}, old \in Frag \cup {NoFrag} :
               StartRemember(s, k, c, t, old)
    \/ /\ "batch" \in Tool
       /\ \E items \in SUBSET Content :
            items # {} /\ Cardinality(items) <= MaxBatch /\ StartBatch(s, k, items)
    \/ /\ "amend" \in Tool
       /\ \E f \in Frag, c \in Content : StartAmend(s, k, f, c)
    \/ /\ "forget" \in Tool
       /\ \E F \in SUBSET Frag : StartForget(s, k, F)

Next == (\E s \in Caller : Request(s) \/ Step(s)) \/ PruneKeywordIndexes \/ Restart \/ Warmup

Spec == Init /\ [][Next]_vars

----------------------------------------------------------------------------
(* Properties                                                              *)

\* remember calls that have passed QuotaChecker.check and not yet inserted
PendingInserts(k) ==
  {s \in Caller : call[s].key = k /\ call[s].pc \in {"gate", "insert"}}

(***************************************************************************)
(* A key's live fragments never exceed fragment_limit when remember is     *)
(* atomic. In the default mode the check and the INSERT are two            *)
(* transactions: every other running call can slip one row in between, and *)
(* that is also the worst that can happen, batches included.               *)
(***************************************************************************)
QuotaBound ==
  \A k \in LimitedKey :
    Cardinality(Live(k)) <= Limit[k] + (IF AtomicRemember THEN 0 ELSE Cardinality(Caller) - 1)

(***************************************************************************)
(* However remember, batch_remember and amend race, a key never has two    *)
(* rows of the same content, nor two rows that carry the same idempotency  *)
(* key (INSERT merges, amend refuses, the lookups come before both).       *)
(***************************************************************************)
NoDuplicateRows ==
  \A f, g \in Frag :
    (f # g /\ Exists(f) /\ Exists(g) /\ rows[f].key = rows[g].key) =>
      /\ rows[f].content # rows[g].content
      /\ rows[f].token # NoToken => rows[f].token # rows[g].token

\* the ids that a remember or a batch past its write answers with
Answered(s) == call[s].frags \cup call[s].merged

(***************************************************************************)
(* Every id that a remember or a batch is about to answer with is a row of *)
(* the caller's own key, the rows that its items were merged into, which   *)
(* somebody else wrote, among them.                                        *)
(***************************************************************************)
AnswersOwnFragment ==
  \A s \in Caller :
    call[s].op \in {"remember", "batch"} =>
      \A f \in Answered(s) : Exists(f) => rows[f].key = call[s].key

(***************************************************************************)
(* The api_keys row lock is held exactly by a call that is inside the      *)
(* locked transaction of that key: every rejection, rollback and commit    *)
(* gives it back, so later quota checks cannot wait for ever.              *)
(***************************************************************************)
LockHeldInTransaction ==
  \A k \in Key, s \in Caller :
    lock[k] = s <=> /\ call[s].key = k /\ k # Master
                    /\ call[s].pc \in {"count", "store"}

(***************************************************************************)
(* For keys without a group, no interleaving of calls drops a live row     *)
(* from the Redis index: one that the index lacks is in the hands of a     *)
(* running call that will index or delete it, unless an index write or a   *)
(* DELETE failed on it, its call died with the process or it was pruned,   *)
(* and nothing has registered it since.                                    *)
(***************************************************************************)
LiveRowsFindable ==
  (\A k \in Key : Group[k] = {k}) =>
    \A f \in Frag :
      (Exists(f) /\ rows[f].live /\ f \notin index) =>
        f \in lost \/ \E s \in Caller : f \in call[s].frags

(***************************************************************************)
(* docs/api-reference.md: calling remember again with the same             *)
(* idempotencyKey creates no new fragment and returns the existing id.     *)
(***************************************************************************)
SameTokenSameFragment ==
  \A a, b \in acked :
    (a[1] = b[1] /\ a[2] = b[2] /\ Exists(a[3]) /\ Exists(b[3])) => a[3] = b[3]

(***************************************************************************)
(* docs/architecture.en.md: each time a fragment is modified via amend,    *)
(* the previous version is preserved in fragment_versions.                 *)
(***************************************************************************)
AmendPreservesPreviousVersion ==
  [][\A f \in Frag :
       (Exists(f) /\ Exists(f)' /\ rows'[f].content # rows[f].content) =>
         <<f, rows[f].content>> \in versions']_<<rows, versions>>
=============================================================================
