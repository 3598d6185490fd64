------------------------------- MODULE Recall -------------------------------
(***************************************************************************)
(* The read path: how recall() combines the Redis reverse index (L1), the  *)
(* hot cache, the keyword search (L2), the graph neighbours (L2.5), the    *)
(* semantic search (L3) and the linked fragments into one answer, while    *)
(* fragments are written, expired, forgotten and collected underneath it   *)
(* (FragmentSearch.js, FragmentIndex.js, FragmentReader.js,                *)
(* GraphNeighborSearch.js, processors/MemoryRecaller.js).                  *)
(*                                                                         *)
(* A result is a copy: the id with the valid_to it was read with. Scores   *)
(* are abstracted: a ranking, of SQL or of the merge, may put what it ranks *)
(* in any order. The "type" filter works as "topic" does and is not        *)
(* modelled apart; the filters on agent, workspace, case and the like      *)
(* restrict Frag to what passes them. A time range, which adds a search    *)
(* beside L2 as the text does, and the limits of the other layers, which   *)
(* only make them return less, are left out.                               *)
(***************************************************************************)
EXTENDS Integers, FiniteSets

CONSTANTS
  Frag,       \* fragment ids
  Key,        \* API keys
  Master,     \* key_id NULL
  Owner,      \* the key a fragment belongs to
  Keywords,   \* explicit keywords of a fragment
  Terms,      \* further words the index extracts from its content
  Topic,      \* its topic
  Importance, \* its importance, as it is while the recalls run
  Link,       \* fragment_links between the fragments (they go with the rows)
  Caller,     \* recalls that may run at the same time
  Scope,      \* the keys of a caller's group; {} is the master key
  Query,      \* the queries asked
  NoTopic,
  SqlLimit,   \* rows a keyword or topic search returns at most (30)
  MaxRunning  \* bound on recalls that run at the same time

ASSUME OwnerAssumption == /\ IsFiniteSet(Frag)
                          /\ Master \notin Key /\ Owner \in [Frag -> Key \cup {Master}]
                          /\ Scope \in [Caller -> SUBSET Key]
                          /\ Link \subseteq Frag \X Frag
                          /\ MaxRunning \in Nat \ {0}

(* words and topic filter the search, text asks for the semantic search,   *)
(* all is includeSuperseded, budget is tokenBudget counted in fragments,   *)
(* min is minImportance or its default.                                    *)
ASSUME QueryAssumption ==
  /\ Query # {}
  /\ \A q \in Query : q.text \in BOOLEAN /\ q.all \in BOOLEAN /\ q.budget \in Nat /\ q.min \in Nat
  /\ Importance \in [Frag -> Nat] /\ SqlLimit \in Nat \ {0}

Status == {"none", "live", "expired", "gone"}
Copy == [id : Frag, st : {"live", "expired"}]
Entry == {"explicit", "derived"} \X Frag

VARIABLES
  row,      \* the rows; "expired" is valid_to set
  index,    \* reverse index: entries by keyword, topic and recency ("explicit")
            \* and by the terms of the content ("derived")
  hot,      \* hot cache: the master's copies of its own fragments (those it makes
            \* of others' are never read, no L1 id of its namespace leads to them)
  leaving,  \* deindexed by forget, row not yet deleted
  refilled, \* history: cached although forget had already dropped the copy
  call      \* the recalls

rcVars == <<row, index, hot, leaving, refilled, call>>

RecallPC == {"idle", "l1", "hot", "l2", "fetch", "graph", "merge", "links", "done"}
Call == [pc : RecallPC, q : Query, start : [Frag -> Status], l1 : SUBSET Frag,
         cached : SUBSET Copy, l2 : SUBSET Copy, side : SUBSET Copy, sided : BOOLEAN,
         graph : SUBSET Copy, found : SUBSET Frag, answer : SUBSET Frag]

RecallTypeOK ==
  /\ row \in [Frag -> Status]
  /\ leaving \subseteq Frag /\ refilled \subseteq Frag
  /\ index \subseteq Entry
  /\ hot \subseteq Copy
  /\ call \in [Caller -> Call]

Idle == [pc |-> "idle", q |-> CHOOSE q \in Query : TRUE, start |-> [f \in Frag |-> "none"],
         l1 |-> {}, cached |-> {}, l2 |-> {}, side |-> {}, sided |-> FALSE, graph |-> {},
         found |-> {}, answer |-> {}]

Ids(copies) == {x.id : x \in copies}

\* the SQL filter "key_id = ANY(group)", absent for the master key
Own(c, f) == Scope[c] = {} \/ Owner[f] \in Scope[c]

\* the Redis namespaces of a caller: _g, or one per key of the group
InNamespace(c, f) == IF Scope[c] = {} THEN Owner[f] = Master ELSE Owner[f] \in Scope[c]

\* mutant of Wanted: includeSuperseded is on unless it is asked off
WantedByDefault(q, st) == st \in {"live", "expired"}

\* valid_to IS NULL, unless the query includes superseded fragments
Wanted(q, st) == st = "live" \/ (q.all /\ st = "expired")

\* rows a SQL search of this caller may return, read now
Rows(c) == {f \in Frag : Own(c, f) /\ row[f] \in {"live", "expired"}}
CopyOf(f) == [id |-> f, st |-> row[f]]
Copies(F) == {CopyOf(f) : f \in F}

----------------------------------------------------------------------------
(***************************************************************************)
(* L1. Keywords hit explicit and content-derived entries, a topic only its *)
(* own set; sets that come back empty are left out of the intersection and *)
(* a Redis error makes a set empty. Without any set a text query gets      *)
(* nothing and another one the recent ids. (With fewer than three hits the *)
(* intersection over several keywords is widened to their union.)          *)
(***************************************************************************)
KeywordHits(c, q) ==
  {f \in Frag : InNamespace(c, f) /\ \/ <<"explicit", f>> \in index /\ q.words \cap Keywords[f] # {}
                                     \/ <<"derived", f>> \in index /\ q.words \cap Terms[f] # {}}
TopicHits(c, q) == {f \in Frag : /\ InNamespace(c, f) /\ <<"explicit", f>> \in index
                                 /\ Topic[f] = q.topic}
RecentHits(c) == {f \in Frag : InNamespace(c, f) /\ <<"explicit", f>> \in index}

L1Hits(q, kw, tp, recent) ==
  IF kw = {} /\ tp = {} THEN IF q.text THEN {} ELSE recent
  ELSE {f \in kw \cup tp : (kw # {} => f \in kw) /\ (tp # {} => f \in tp)}

\* what a ranking may leave of S when it keeps the first n
Best(n, S) == IF Cardinality(S) <= n THEN {S} ELSE {F \in SUBSET S : Cardinality(F) = n}

(***************************************************************************)
(* L2: keywords && words AND topic AND importance >= min, the first        *)
(* SqlLimit rows; when that finds nothing, the topic and the importance    *)
(* alone.                                                                  *)
(***************************************************************************)
Matches(q, f) == /\ q.words \cap Keywords[f] # {} /\ q.topic \in {NoTopic, Topic[f]}
                 /\ Importance[f] >= q.min

ByKeywords(c, q) == {f \in Rows(c) : Wanted(q, row[f]) /\ Matches(q, f)}
ByTopic(c, q) == {f \in Rows(c) : /\ Wanted(q, row[f]) /\ q.topic # NoTopic /\ Topic[f] = q.topic
                                  /\ Importance[f] >= q.min}

\* mutant of L2Hits: the keyword search is left to L1 (only its misses are read)
L2HitsByTopic(c, q) == Best(SqlLimit, ByTopic(c, q))

\* the results the search may have
L2Hits(c, q) == Best(SqlLimit, IF ByKeywords(c, q) # {} THEN ByKeywords(c, q) ELSE ByTopic(c, q))

\* live 1-hop neighbours of the L2 fragments, in both directions
Linked(F) == {f \in Frag : \E g \in F : <<f, g>> \in Link \/ <<g, f>> \in Link}
\* mutant of Neighbours: the neighbour query lacks the key filter
NeighboursOfAnyKey(c, r) == {f \in Linked(Ids(r.l2)) \ Ids(r.l2) : row[f] = "live"}

Neighbours(c, r) == {f \in Linked(Ids(r.l2)) \ Ids(r.l2) : Own(c, f) /\ row[f] = "live"}

(***************************************************************************)
(* The layers in the order they are merged. For a text query mergeRRF      *)
(* keeps the first entry of an id; L1 comes first and enters ids without   *)
(* content, which are dropped afterwards. Otherwise duplicates keep the    *)
(* first copy, or the cached one when it carries a similarity.             *)
(***************************************************************************)
Layer(r, i) == CASE i = 1 -> r.cached [] i = 2 -> r.l2 [] i = 3 -> r.graph [] i = 4 -> r.side

Fused(r) ==
  {x \in Copy : /\ x.id \notin r.l1
                /\ \E i \in 1..4 : /\ x \in Layer(r, i)
                                   /\ \A j \in 1..(i - 1) : x.id \notin Ids(Layer(r, j))}
Loaded(r) == UNION {Ids(Layer(r, i)) : i \in 1..4}

Deduplicated(r, preferCached) ==
  LET first == IF preferCached THEN r.cached ELSE r.l2
      next  == IF preferCached THEN r.l2 ELSE r.cached
  IN  first \cup {x \in next : x.id \notin Ids(first)}

\* the longest prefix of the ranking that fits
Trimmed(q, copies) == Best(q.budget, copies)
----------------------------------------------------------------------------
RecallInit ==
  /\ row = [f \in Frag |-> "none"]
  /\ index = {} /\ hot = {} /\ leaving = {} /\ refilled = {}
  /\ call = [c \in Caller |-> Idle]

(***************************************************************************)
(* The writers.                                                            *)
(***************************************************************************)
Remember(f) ==
  /\ row[f] = "none"
  /\ row' = [row EXCEPT ![f] = "live"]
  /\ UNCHANGED <<index, hot, leaving, refilled, call>>

\* remember and the warm-up index a row they inserted or read before, which may
\* be gone by then
IndexFragment(f) ==
  /\ row[f] # "none"
  /\ index' = index \cup (IF Terms[f] = {} THEN {"explicit"} ELSE {"explicit", "derived"}) \X {f}
  /\ UNCHANGED <<row, hot, leaving, refilled, call>>

\* expiry and supersession update the row and leave Redis alone
Expire(f) ==
  /\ row[f] = "live"
  /\ row' = [row EXCEPT ![f] = "expired"]
  /\ UNCHANGED <<index, hot, leaving, refilled, call>>

\* the garbage collector deletes the row and leaves Redis alone
Collect(f) ==
  /\ row[f] \in {"live", "expired"}
  /\ row' = [row EXCEPT ![f] = "gone"]
  /\ UNCHANGED <<index, hot, leaving, refilled, call>>

\* mutant of Deindexed: the hot copy is left behind
DeindexedKeepingCopy(f) == index' = index \ {<<"explicit", f>>} /\ UNCHANGED hot

\* deindex drops the explicit entries and the hot copy
Deindexed(f) ==
  /\ index' = index \ {<<"explicit", f>>}
  /\ hot' = {x \in hot : x.id # f}

\* forget: deindex (skipped when Redis is not ready), then delete
Deindex(f) ==
  /\ row[f] = "live" /\ f \notin leaving
  /\ leaving' = leaving \cup {f}
  /\ \/ Deindexed(f) /\ UNCHANGED refilled
     \/ /\ UNCHANGED <<index, hot>>
        /\ refilled' = IF f \in Ids(hot) THEN refilled \cup {f} ELSE refilled
  /\ UNCHANGED <<row, call>>

Delete(f) ==
  /\ f \in leaving /\ row[f] \in {"live", "expired"}
  /\ row' = [row EXCEPT ![f] = "gone"]
  /\ UNCHANGED <<index, hot, leaving, refilled, call>>

\* HOT_CACHE_TTL
CacheExpires(x) ==
  /\ x \in hot
  /\ hot' = hot \ {x}
  /\ UNCHANGED <<row, index, leaving, refilled, call>>

(***************************************************************************)
(* One recall. L2 and L3 run side by side; the graph search waits for both.*)
(***************************************************************************)
StartRecall(c, q) ==
  /\ call[c].pc = "idle" /\ Cardinality({d \in Caller : call[d].pc # "idle"}) < MaxRunning
  /\ call' = [call EXCEPT ![c] = [Idle EXCEPT !.pc = "l1", !.q = q, !.start = row]]
  /\ UNCHANGED <<row, index, hot, leaving, refilled>>

SearchL1(c) ==
  /\ call[c].pc = "l1"
  /\ \E kw \in {KeywordHits(c, call[c].q), {}}, tp \in {TopicHits(c, call[c].q), {}},
        recent \in {RecentHits(c), {}} :
       call' = [call EXCEPT ![c] =
                 [@ EXCEPT !.pc = "hot", !.l1 = L1Hits(call[c].q, kw, tp, recent)]]
  /\ UNCHANGED <<row, index, hot, leaving, refilled>>

\* only the master key reads what was cached: copies are never written for a group
TryHotCache(c) ==
  /\ call[c].pc = "hot"
  /\ \E hits \in SUBSET {x \in hot : x.id \in call[c].l1 /\ Scope[c] = {}} :
       call' = [call EXCEPT ![c] = [@ EXCEPT !.pc = "l2", !.cached = hits]]
  /\ UNCHANGED <<row, index, hot, leaving, refilled>>

SearchL2(c) ==
  /\ call[c].pc = "l2"
  /\ \E F \in L2Hits(c, call[c].q) :
       call' = [call EXCEPT ![c] = [@ EXCEPT !.pc = "fetch", !.l2 = Copies(F)]]
  /\ UNCHANGED <<row, index, hot, leaving, refilled>>

\* getByIds of the L1 ids neither cached nor found by L2
FetchL1Misses(c) ==
  /\ call[c].pc = "fetch"
  /\ LET misses == {f \in call[c].l1 \ Ids(call[c].cached \cup call[c].l2) :
                      f \in Rows(c) /\ row[f] = "live"}
     IN  call' = [call EXCEPT ![c] = [@ EXCEPT !.pc = "graph", !.l2 = call[c].l2 \cup Copies(misses)]]
  /\ UNCHANGED <<row, index, hot, leaving, refilled>>

\* L3, for a text query: any of the rows that pass its filters
SearchSide(c) ==
  /\ call[c].pc \in {"l2", "fetch", "graph"} /\ call[c].q.text /\ ~call[c].sided
  /\ \E F \in SUBSET {f \in Rows(c) : Wanted(call[c].q, row[f])} :
       call' = [call EXCEPT ![c] = [@ EXCEPT !.sided = TRUE, !.side = Copies(F)]]
  /\ UNCHANGED <<row, index, hot, leaving, refilled>>

SearchGraph(c) ==
  /\ call[c].pc = "graph" /\ (call[c].q.text => call[c].sided)
  /\ call' = [call EXCEPT ![c] =
               [@ EXCEPT !.pc = "merge",
                         !.graph = IF call[c].q.text THEN Copies(Neighbours(c, call[c]))
                                       ELSE {}]]
  /\ UNCHANGED <<row, index, hot, leaving, refilled>>

\* merge, trim to the budget, drop superseded copies, cache the rest (for a
\* group the cache key cannot be formed and the error is swallowed)
Merge(c) ==
  /\ call[c].pc = "merge"
  /\ \E preferCached \in BOOLEAN :
     \E kept \in Trimmed(call[c].q, IF call[c].q.text THEN Fused(call[c])
                                     ELSE Deduplicated(call[c], preferCached)) :
       LET clean == {x \in kept : Wanted(call[c].q, x.st)}
       IN  /\ call' = [call EXCEPT ![c] = [@ EXCEPT !.pc = "links", !.found = Ids(clean)]]
           /\ \/ /\ Scope[c] = {}
                 /\ LET own == {x \in clean : Owner[x.id] = Master} IN
                      /\ hot' = {x \in hot : x.id \notin Ids(own)} \cup own
                      /\ refilled' = refilled \cup (Ids(own) \cap leaving)
              \/ UNCHANGED <<hot, refilled>>
  /\ UNCHANGED <<row, index, leaving>>

\* includeLinks: 1-hop neighbours of the answer, whatever their valid_to
AddLinked(c) ==
  /\ call[c].pc = "links"
  /\ \E linked \in {{f \in Linked(call[c].found) : f \in Rows(c)}, {}} :
       call' = [call EXCEPT ![c] = [Idle EXCEPT !.pc = "done",
                                           !.answer = call[c].found \cup linked]]
  /\ UNCHANGED <<row, index, hot, leaving, refilled>>

Answer(c) ==
  /\ call[c].pc = "done"
  /\ call' = [call EXCEPT ![c] = Idle]
  /\ UNCHANGED <<row, index, hot, leaving, refilled>>

RecallStep(c) ==
  \/ \E q \in Query : StartRecall(c, q)
  \/ SearchL1(c) \/ TryHotCache(c) \/ SearchL2(c) \/ FetchL1Misses(c) \/ SearchSide(c)
  \/ SearchGraph(c) \/ Merge(c) \/ AddLinked(c) \/ Answer(c)

WriteStep(f) ==
  \/ Remember(f) \/ IndexFragment(f) \/ Expire(f) \/ Collect(f)
  \/ Deindex(f) \/ Delete(f)

RecallNext ==
  \/ \E c \in Caller : RecallStep(c)
  \/ \E f \in Frag : WriteStep(f)
  \/ \E x \in hot : CacheExpires(x)

RecallSpec == RecallInit /\ [][RecallNext]_rcVars

----------------------------------------------------------------------------
(***************************************************************************)
(* No layer shows a caller a fragment of a key outside its group: neither  *)
(* the namespaced sets of Redis, the hot cache, the three SQL searches,    *)
(* the graph neighbours nor the linked fragments (the keyId parameter of   *)
(* every layer, FragmentSearch.js:247-396, LinkStore.js:206).              *)
(***************************************************************************)
AnswersOwnKeys == \A c \in Caller : \A f \in call[c].found \cup call[c].answer : Own(c, f)

(***************************************************************************)
(* A keyword recall does not depend on Redis: whatever the index and the   *)
(* cache hold or fail to return, an own fragment with one of the keywords, *)
(* the topic and the importance asked for that was live throughout is      *)
(* found, unless the budget was exhausted or the answer already has        *)
(* SqlLimit fragments that match: the SQL search stands behind L1 and is   *)
(* cut off by its LIMIT only (docs/architecture.en.md:772,                 *)
(* FragmentSearch.js:487-511).                                             *)
(***************************************************************************)
KeywordRecallComplete ==
  \A c \in Caller : LET r == call[c] IN
    (r.pc = "links" /\ ~r.q.text /\ Cardinality(Loaded(r)) <= r.q.budget) =>
      \A f \in Frag :
        r.start[f] = "live" /\ row[f] = "live" /\ Own(c, f) /\ Matches(r.q, f) =>
          f \in r.found \/ Cardinality({g \in r.found : Matches(r.q, g)}) >= SqlLimit

\* the copy of f the recall took from the hot cache passes the last filter
FromCache(c, f) == /\ Scope[c] = {} /\ Owner[f] = Master
                   /\ \E x \in call[c].cached : x.id = f /\ Wanted(call[c].q, x.st)

(***************************************************************************)
(* Before the links are added, a recall that did not ask for superseded    *)
(* fragments returns one that was superseded or deleted before it started  *)
(* only to the master key, of the master's own, and only for a copy of the *)
(* hot cache that still says the row is live; one that says it is expired  *)
(* is filtered, and a group key, whose copies are not cached, never gets   *)
(* such a fragment (FragmentSearch.js:112, 118, FragmentIndex.js).         *)
(***************************************************************************)
AnswersCurrent ==
  \A c \in Caller : \A f \in call[c].found :
    \/ call[c].start[f] = "gone"
    \/ call[c].start[f] = "expired" /\ ~call[c].q.all
    => FromCache(c, f)

(***************************************************************************)
(* "All layer results pass through a `valid_to IS NULL` filter in the      *)
(* final stage -- fragments superseded via superseded_by are excluded      *)
(* from search by default" (docs/architecture.en.md:770): what had been    *)
(* superseded when the recall started is not found.                        *)
(***************************************************************************)
SupersededExcluded ==
  \A c \in Caller : \A f \in call[c].found : call[c].start[f] = "expired" => call[c].q.all

(***************************************************************************)
(* A fragment forgotten before a recall starts comes back only if Redis    *)
(* refused to drop its hot copy, or a recall that had read the row before  *)
(* the deletion put the copy back afterwards (MemoryRememberer.js:775,     *)
(* FragmentSearch.js:118).                                                 *)
(***************************************************************************)
GhostNeedsLateFill ==
  \A c \in Caller : \A f \in call[c].found :
    call[c].start[f] = "gone" /\ f \in leaving => f \in refilled
=============================================================================
