------------------------------- MODULE ToolProofs ------------------------------
(***************************************************************************)
(* Theorems about the tools: Recall, for every number of fragments, keys,  *)
(* callers and queries, any groups and links; WorkingMemory,               *)
(* ContextAssembly and ReflectTool, for any entries, fragments and scraps, *)
(* of any number and any sizes.                                            *)
(***************************************************************************)
EXTENDS Recall, WorkingMemory, ContextAssembly, ReflectTool, FiniteSetTheorems,
        SequenceTheorems, NaturalsInduction, WellFoundedInduction, TLAPS

(***************************************************************************)
(* Recall.                                                                 *)
(***************************************************************************)
(***************************************************************************)
(* What a running recall has collected. The copies of the SQL layers are   *)
(* of the caller's keys and were read after the start: none is of a row    *)
(* already gone, and one of a row already expired says so. The copies of   *)
(* the cache are of the master's fragments, and only the master reads      *)
(* them. The found ids are those of copies that passed the last filter.    *)
(***************************************************************************)
Sql(r) == r.l2 \cup r.graph \cup r.side
SqlSound(c, r) == \A x \in Sql(r) : /\ Own(c, x.id)
                                    /\ r.start[x.id] # "gone"
                                    /\ r.start[x.id] = "expired" => x.st = "expired"
Stale(r, f) == r.start[f] = "gone" \/ (r.start[f] = "expired" /\ ~r.q.all)
SaidLive(c, r, f) == /\ Scope[c] = {} /\ Owner[f] = Master
                     /\ \E x \in r.cached : x.id = f /\ Wanted(r.q, x.st)
FoundSound(c, r) == \A f \in r.found : Own(c, f) /\ (Stale(r, f) => SaidLive(c, r, f))
CallSound(c, r) ==
  /\ SqlSound(c, r) /\ FoundSound(c, r)
  /\ r.pc # "links" => r.found = {}
  /\ \A x \in r.cached : Scope[c] = {} /\ Owner[x.id] = Master
  /\ \A f \in r.answer : Own(c, f)
CallsSound == \A c \in Caller : CallSound(c, call[c])

(***************************************************************************)
(* Rows only grow older, so the start of a recall bounds what it can read. *)
(***************************************************************************)
StartPast ==
  \A c \in Caller, f \in Frag :
    /\ call[c].start[f] = "gone" => row[f] = "gone"
    /\ call[c].start[f] = "expired" => row[f] \in {"expired", "gone"}

(***************************************************************************)
(* A copy of a forgotten fragment is in the cache, or in the hands of a    *)
(* recall that began after the deletion, only if it was put there late.    *)
(***************************************************************************)
Ghost == leaving \ refilled
HotSound == \A x \in hot : x.id \notin Ghost /\ Owner[x.id] = Master
CachedSound ==
  \A c \in Caller : \A x \in call[c].cached : call[c].start[x.id] = "gone" => x.id \notin Ghost

RecallInv == RecallTypeOK /\ CallsSound /\ StartPast /\ HotSound /\ CachedSound

LEMMA IdleCall ==
  /\ Idle \in Call
  /\ Idle.start = [f \in Frag |-> "none"] /\ Idle.l1 = {} /\ Idle.cached = {} /\ Idle.l2 = {}
  /\ Idle.side = {} /\ Idle.graph = {} /\ Idle.found = {} /\ Idle.answer = {}
  /\ \A c \in Caller : CallSound(c, Idle)
<1>1. (CHOOSE q \in Query : TRUE) \in Query
  BY QueryAssumption
<1>2. /\ Idle \in Call
      /\ Idle.start = [f \in Frag |-> "none"] /\ Idle.l1 = {} /\ Idle.cached = {} /\ Idle.l2 = {}
      /\ Idle.side = {} /\ Idle.graph = {} /\ Idle.found = {} /\ Idle.answer = {}
  BY <1>1 DEF Idle, Call, RecallPC, Status
<1> QED BY <1>2 DEF CallSound, SqlSound, Sql, FoundSound

LEMMA RecallInitInv == RecallInit => RecallInv
<1> SUFFICES ASSUME RecallInit PROVE RecallInv
  OBVIOUS
<1>1. \A c \in Caller : call[c] = Idle
  BY DEF RecallInit
<1>2. RecallTypeOK
  BY IdleCall DEF RecallInit, RecallTypeOK, Status
<1>3. CallsSound /\ CachedSound
  BY <1>1, IdleCall DEF CallsSound, CachedSound
<1>4. StartPast
  BY <1>1, IdleCall DEF StartPast
<1>5. HotSound
  BY DEF RecallInit, HotSound
<1> QED BY <1>2, <1>3, <1>4, <1>5 DEF RecallInv

----------------------------------------------------------------------------
(***************************************************************************)
(* One recall goes on, and the rows stay as they are.                      *)
(***************************************************************************)
LEMMA CallerStep ==
  ASSUME RecallInv, NEW c \in Caller, NEW r \in Call, CallSound(c, r),
         call' = [call EXCEPT ![c] = r],
         r.start = call[c].start \/ (r.start = row /\ r.cached = {}) \/ r.start = [f \in Frag |-> "none"],
         \A x \in r.cached : r.start[x.id] = "gone" => x.id \notin Ghost,
         UNCHANGED <<row, index, leaving>>,
         refilled \subseteq refilled', refilled' \subseteq Frag,
         hot' \subseteq Copy, HotSound'
  PROVE  RecallInv'
<1>0. call \in [Caller -> Call] /\ row \in [Frag -> Status]
  BY DEF RecallInv, RecallTypeOK
<1>1. \A d \in Caller : call'[d] = IF d = c THEN r ELSE call[d]
  BY <1>0
<1>2. RecallTypeOK'
  BY <1>0 DEF RecallInv, RecallTypeOK
<1>3. CallsSound'
  BY <1>1 DEF RecallInv, CallsSound
<1>4. StartPast'
  BY <1>0, <1>1 DEF RecallInv, StartPast
<1>5. CachedSound'
  BY <1>1 DEF RecallInv, CachedSound, Ghost
<1> QED BY <1>2, <1>3, <1>4, <1>5 DEF RecallInv

\* without a change of the cache
LEMMA ReadStep ==
  ASSUME RecallInv, NEW c \in Caller, NEW r \in Call, CallSound(c, r),
         call' = [call EXCEPT ![c] = r],
         r.start = call[c].start \/ (r.start = row /\ r.cached = {}) \/ r.start = [f \in Frag |-> "none"],
         \A x \in r.cached : r.start[x.id] = "gone" => x.id \notin Ghost,
         UNCHANGED <<row, index, hot, leaving, refilled>>
  PROVE  RecallInv'
<1>1. HotSound' /\ hot' \subseteq Copy /\ refilled' \subseteq Frag
  BY DEF RecallInv, RecallTypeOK, HotSound, Ghost
<1> QED BY <1>1, CallerStep

(***************************************************************************)
(* The rows, the index or the cache change, and the recalls wait.          *)
(***************************************************************************)
LEMMA WriterStep ==
  ASSUME RecallInv, UNCHANGED call, RecallTypeOK',
         \A f \in Frag : /\ row[f] = "gone" => row'[f] = "gone"
                         /\ row[f] = "expired" => row'[f] \in {"expired", "gone"},
         \A f \in Ghost' : f \in Ghost \/ row'[f] = "live",
         HotSound'
  PROVE  RecallInv'
<1>1. CallsSound' /\ StartPast'
  BY DEF RecallInv, CallsSound, StartPast
<1>2. CachedSound'
  <2> SUFFICES ASSUME NEW c \in Caller, NEW x \in call[c].cached,
                      call[c].start[x.id] = "gone", x.id \in Ghost'
               PROVE  FALSE
    BY DEF CachedSound
  <2>1. x.id \in Frag
    BY DEF RecallInv, RecallTypeOK, Call, Copy
  <2>2. row[x.id] = "gone" /\ x.id \notin Ghost
    BY <2>1 DEF RecallInv, StartPast, CachedSound
  <2> QED BY <2>1, <2>2
<1> QED BY <1>1, <1>2 DEF RecallInv

LEMMA WritersInv ==
  ASSUME RecallInv, NEW f \in Frag, WriteStep(f)
  PROVE  RecallInv'
<1>0. RecallTypeOK /\ HotSound
  BY DEF RecallInv
<1>1. CASE Remember(f)
  BY <1>0, <1>1, WriterStep DEF Remember, RecallTypeOK, HotSound, Ghost, Status
<1>2. CASE IndexFragment(f)
  <2>1. index' \subseteq Entry
    BY <1>0, <1>2 DEF IndexFragment, RecallTypeOK, Entry
  <2> QED BY <1>0, <1>2, <2>1, WriterStep DEF IndexFragment, RecallTypeOK, HotSound, Ghost
<1>3. CASE Expire(f)
  BY <1>0, <1>3, WriterStep DEF Expire, RecallTypeOK, HotSound, Ghost, Status
<1>4. CASE Collect(f)
  BY <1>0, <1>4, WriterStep DEF Collect, RecallTypeOK, HotSound, Ghost, Status
<1>5. CASE Deindex(f)
  <2>1. row[f] = "live" /\ leaving' = leaving \cup {f} /\ UNCHANGED <<row, call>>
    BY <1>5 DEF Deindex
  <2>2. /\ RecallTypeOK' /\ HotSound' /\ refilled \subseteq refilled'
    <3>1. CASE Deindexed(f) /\ UNCHANGED refilled
      BY <1>0, <2>1, <3>1 DEF Deindexed, RecallTypeOK, HotSound, Ghost
    <3>2. CASE /\ UNCHANGED <<index, hot>>
               /\ refilled' = IF f \in Ids(hot) THEN refilled \cup {f} ELSE refilled
      <4>1. RecallTypeOK' /\ refilled \subseteq refilled'
        BY <1>0, <2>1, <3>2 DEF RecallTypeOK
      <4>2. HotSound'
        BY <1>0, <2>1, <3>2 DEF HotSound, Ghost, Ids
      <4> QED BY <4>1, <4>2
    <3> QED BY <1>5, <3>1, <3>2 DEF Deindex
  <2>3. \A g \in Ghost' : g \in Ghost \/ row'[g] = "live"
    BY <2>1, <2>2 DEF Ghost
  <2> QED BY <2>1, <2>2, <2>3, WriterStep
<1>6. CASE Delete(f)
  BY <1>0, <1>6, WriterStep DEF Delete, RecallTypeOK, HotSound, Ghost, Status
<1> QED BY <1>1, <1>2, <1>3, <1>4, <1>5, <1>6 DEF WriteStep

----------------------------------------------------------------------------
LEMMA AtCall ==
  ASSUME RecallInv, NEW c \in Caller
  PROVE  /\ call[c] \in Call /\ CallSound(c, call[c]) /\ call \in [Caller -> Call]
         /\ row \in [Frag -> Status]
         /\ \A x \in call[c].cached : call[c].start[x.id] = "gone" => x.id \notin Ghost
         /\ \A f \in Frag : /\ call[c].start[f] = "gone" => row[f] = "gone"
                            /\ call[c].start[f] = "expired" => row[f] \in {"expired", "gone"}
BY DEF RecallInv, RecallTypeOK, CallsSound, CachedSound, StartPast

\* what a SQL search returns now is sound for any recall of the caller
LEMMA RowsSound ==
  ASSUME RecallInv, NEW c \in Caller, NEW F \in SUBSET Rows(c)
  PROVE  /\ Copies(F) \subseteq Copy
         /\ \A x \in Copies(F) : /\ Own(c, x.id)
                                 /\ call[c].start[x.id] # "gone"
                                 /\ call[c].start[x.id] = "expired" => x.st = "expired"
<1> SUFFICES ASSUME NEW x \in Copies(F)
             PROVE  /\ x \in Copy /\ Own(c, x.id) /\ call[c].start[x.id] # "gone"
                    /\ call[c].start[x.id] = "expired" => x.st = "expired"
  OBVIOUS
<1>1. PICK f \in F : x = CopyOf(f)
  BY DEF Copies
<1>2. f \in Frag /\ Own(c, f) /\ row[f] \in {"live", "expired"}
  BY DEF Rows
<1>3. x.id = f /\ x.st = row[f] /\ x \in Copy
  BY <1>1, <1>2 DEF CopyOf, Copy
<1> QED BY <1>2, <1>3, AtCall

LEMMA StartInv ==
  ASSUME RecallInv, NEW c \in Caller, NEW q \in Query, StartRecall(c, q)
  PROVE  RecallInv'
<1> DEFINE r == [Idle EXCEPT !.pc = "l1", !.q = q, !.start = row]
<1>1. /\ r \in Call /\ r.start = row /\ r.cached = {} /\ r.l2 = {} /\ r.graph = {} /\ r.side = {}
      /\ r.found = {} /\ r.answer = {}
  BY IdleCall, AtCall DEF Call, RecallPC
<1>2. call' = [call EXCEPT ![c] = r] /\ UNCHANGED <<row, index, hot, leaving, refilled>>
  BY DEF StartRecall
<1> HIDE DEF r
<1>3. CallSound(c, r)
  BY <1>1 DEF CallSound, SqlSound, Sql, FoundSound
<1> QED BY <1>1, <1>2, <1>3, ReadStep

LEMMA L1Inv ==
  ASSUME RecallInv, NEW c \in Caller, SearchL1(c)
  PROVE  RecallInv'
<1> DEFINE q == call[c].q
<1>1. PICK kw \in {KeywordHits(c, q), {}}, tp \in {TopicHits(c, q), {}}, recent \in {RecentHits(c), {}} :
        call' = [call EXCEPT ![c] = [@ EXCEPT !.pc = "hot", !.l1 = L1Hits(q, kw, tp, recent)]]
  BY DEF SearchL1
<1>2. L1Hits(q, kw, tp, recent) \subseteq Frag
  BY DEF L1Hits, KeywordHits, TopicHits, RecentHits
<1> DEFINE hits == L1Hits(q, kw, tp, recent)
           r == [call[c] EXCEPT !.pc = "hot", !.l1 = hits]
<1> HIDE DEF hits
<1>3. /\ r \in Call /\ r.start = call[c].start /\ r.cached = call[c].cached
      /\ r.l2 = call[c].l2 /\ r.graph = call[c].graph /\ r.side = call[c].side
      /\ r.found = {} /\ r.answer = call[c].answer
  <2>1. hits \subseteq Frag
    BY <1>2 DEF hits
  <2>2. call[c] \in Call /\ call[c].found = {}
    BY AtCall DEF SearchL1, CallSound
  <2> QED BY <2>1, <2>2 DEF Call, RecallPC
<1>4. call' = [call EXCEPT ![c] = r]
  BY <1>1, AtCall DEF Call, hits
<1> HIDE DEF r
<1>5. CallSound(c, r)
  BY <1>3, AtCall DEF CallSound, SqlSound, Sql, FoundSound
<1>6. UNCHANGED <<row, index, hot, leaving, refilled>>
  BY DEF SearchL1
<1> QED BY <1>3, <1>4, <1>5, <1>6, AtCall, ReadStep

LEMMA HotInv ==
  ASSUME RecallInv, NEW c \in Caller, TryHotCache(c)
  PROVE  RecallInv'
<1>1. PICK hits \in SUBSET {x \in hot : x.id \in call[c].l1 /\ Scope[c] = {}} :
        call' = [call EXCEPT ![c] = [@ EXCEPT !.pc = "l2", !.cached = hits]]
  BY DEF TryHotCache
<1> DEFINE r == [call[c] EXCEPT !.pc = "l2", !.cached = hits]
<1>2. /\ hits \subseteq Copy /\ hits \subseteq hot
      /\ \A x \in hits : Scope[c] = {} /\ Owner[x.id] = Master
  BY DEF RecallInv, RecallTypeOK, HotSound
<1>0. call[c].pc = "hot" /\ call[c].found = {}
  BY AtCall DEF TryHotCache, CallSound
<1>3. /\ r \in Call /\ r.start = call[c].start /\ r.cached = hits
      /\ r.l2 = call[c].l2 /\ r.graph = call[c].graph /\ r.side = call[c].side
      /\ r.found = {} /\ r.answer = call[c].answer
  BY <1>0, <1>2, AtCall DEF Call, RecallPC
<1>4. call' = [call EXCEPT ![c] = r]
  BY <1>1, AtCall DEF Call
<1> HIDE DEF r
<1>5. CallSound(c, r)
  BY <1>2, <1>3, AtCall DEF CallSound, SqlSound, Sql, FoundSound
<1>6. UNCHANGED <<row, index, hot, leaving, refilled>>
  BY DEF TryHotCache
<1>7. \A x \in r.cached : x.id \notin Ghost
  BY <1>2, <1>3 DEF RecallInv, HotSound
<1> QED BY <1>3, <1>4, <1>5, <1>6, <1>7, ReadStep

\* the SQL layers: the caller adds copies it has just read to one of them
LEMMA SqlStep ==
  ASSUME RecallInv, NEW c \in Caller, NEW r \in Call, NEW F \in SUBSET Rows(c),
         call[c].pc # "links", r.pc # "links",
         call' = [call EXCEPT ![c] = r],
         r.start = call[c].start, r.cached = call[c].cached,
         r.found = call[c].found, r.answer = call[c].answer,
         Sql(r) \subseteq Sql(call[c]) \cup Copies(F),
         UNCHANGED <<row, index, hot, leaving, refilled>>
  PROVE  RecallInv'
<1>1. SqlSound(c, r)
  BY RowsSound, AtCall DEF CallSound, SqlSound
<1>2. CallSound(c, r)
  BY <1>1, AtCall DEF CallSound, FoundSound
<1> QED BY <1>2, AtCall, ReadStep

LEMMA L2Inv ==
  ASSUME RecallInv, NEW c \in Caller, SearchL2(c)
  PROVE  RecallInv'
<1>0. PICK F \in L2Hits(c, call[c].q) :
        call' = [call EXCEPT ![c] = [@ EXCEPT !.pc = "fetch", !.l2 = Copies(F)]]
  BY DEF SearchL2
<1> DEFINE r == [call[c] EXCEPT !.pc = "fetch", !.l2 = Copies(F)]
<1>1. F \subseteq Rows(c)
  BY DEF L2Hits, Best, ByKeywords, ByTopic
<1>2. Copies(F) \subseteq Copy
  BY <1>1, RowsSound
<1>3. /\ r \in Call /\ r.pc = "fetch" /\ r.start = call[c].start /\ r.cached = call[c].cached
      /\ r.l2 = Copies(F) /\ r.graph = call[c].graph /\ r.side = call[c].side
      /\ r.found = call[c].found /\ r.answer = call[c].answer
  BY <1>2, AtCall DEF Call, RecallPC
<1>4. /\ call' = [call EXCEPT ![c] = r] /\ call[c].pc = "l2"
      /\ UNCHANGED <<row, index, hot, leaving, refilled>>
  BY <1>0, AtCall DEF SearchL2, Call
<1> HIDE DEF r
<1>5. Sql(r) \subseteq Sql(call[c]) \cup Copies(F)
  BY <1>3 DEF Sql
<1> QED BY <1>1, <1>3, <1>4, <1>5, SqlStep

LEMMA FetchInv ==
  ASSUME RecallInv, NEW c \in Caller, FetchL1Misses(c)
  PROVE  RecallInv'
<1> DEFINE F == {f \in call[c].l1 \ Ids(call[c].cached \cup call[c].l2) :
                   f \in Rows(c) /\ row[f] = "live"}
           r == [call[c] EXCEPT !.pc = "graph", !.l2 = @ \cup Copies(F)]
<1>1. F \subseteq Rows(c)
  OBVIOUS
<1>2. call[c].pc = "fetch" /\ UNCHANGED <<row, index, hot, leaving, refilled>>
  BY DEF FetchL1Misses
<1>3. call' = [call EXCEPT ![c] = [@ EXCEPT !.pc = "graph", !.l2 = call[c].l2 \cup Copies(F)]]
  BY DEF FetchL1Misses
<1> HIDE DEF F
<1>4. Copies(F) \subseteq Copy
  BY <1>1, RowsSound
<1>5. /\ r \in Call /\ r.pc = "graph" /\ r.start = call[c].start /\ r.cached = call[c].cached
      /\ r.l2 = call[c].l2 \cup Copies(F) /\ r.graph = call[c].graph /\ r.side = call[c].side
      /\ r.found = call[c].found /\ r.answer = call[c].answer
  BY <1>4, AtCall DEF Call, RecallPC
<1>6. call' = [call EXCEPT ![c] = r]
  BY <1>3, AtCall DEF Call
<1> HIDE DEF r
<1>7. Sql(r) \subseteq Sql(call[c]) \cup Copies(F)
  BY <1>5 DEF Sql
<1> QED BY <1>1, <1>2, <1>5, <1>6, <1>7, SqlStep

LEMMA SideInv ==
  ASSUME RecallInv, NEW c \in Caller, SearchSide(c)
  PROVE  RecallInv'
<1>1. PICK F \in SUBSET {f \in Rows(c) : Wanted(call[c].q, row[f])} :
        call' = [call EXCEPT ![c] = [@ EXCEPT !.sided = TRUE, !.side = Copies(F)]]
  BY DEF SearchSide
<1> DEFINE r == [call[c] EXCEPT !.sided = TRUE, !.side = Copies(F)]
<1>2. F \subseteq Rows(c) /\ Copies(F) \subseteq Copy
  BY RowsSound
<1>3. /\ r \in Call /\ r.pc = call[c].pc /\ r.start = call[c].start /\ r.cached = call[c].cached
      /\ r.l2 = call[c].l2 /\ r.graph = call[c].graph /\ r.side = Copies(F)
      /\ r.found = call[c].found /\ r.answer = call[c].answer
  BY <1>2, AtCall DEF Call, RecallPC
<1>4. /\ call' = [call EXCEPT ![c] = r] /\ call[c].pc # "links"
      /\ UNCHANGED <<row, index, hot, leaving, refilled>>
  BY <1>1, AtCall DEF SearchSide, Call
<1> HIDE DEF r
<1>5. Sql(r) \subseteq Sql(call[c]) \cup Copies(F)
  BY <1>3 DEF Sql
<1> QED BY <1>2, <1>3, <1>4, <1>5, SqlStep

LEMMA GraphInv ==
  ASSUME RecallInv, NEW c \in Caller, SearchGraph(c)
  PROVE  RecallInv'
<1> DEFINE F == IF call[c].q.text THEN Neighbours(c, call[c]) ELSE {}
           r == [call[c] EXCEPT !.pc = "merge", !.graph = Copies(F)]
<1>1. F \subseteq Rows(c)
  BY DEF Neighbours, Rows, Linked
<1>2. /\ call[c].pc = "graph" /\ UNCHANGED <<row, index, hot, leaving, refilled>>
      /\ call' = [call EXCEPT ![c] =
                   [@ EXCEPT !.pc = "merge",
                             !.graph = IF call[c].q.text THEN Copies(Neighbours(c, call[c])) ELSE {}]]
  BY DEF SearchGraph
<1>3. (IF call[c].q.text THEN Copies(Neighbours(c, call[c])) ELSE {}) = Copies(F)
  BY DEF Copies
<1> HIDE DEF F
<1>4. Copies(F) \subseteq Copy
  BY <1>1, RowsSound
<1>5. /\ r \in Call /\ r.pc = "merge" /\ r.start = call[c].start /\ r.cached = call[c].cached
      /\ r.l2 = call[c].l2 /\ r.graph = Copies(F) /\ r.side = call[c].side
      /\ r.found = call[c].found /\ r.answer = call[c].answer
  BY <1>4, AtCall DEF Call, RecallPC
<1>6. call' = [call EXCEPT ![c] = r]
  BY <1>2, <1>3, AtCall DEF Call
<1> HIDE DEF r
<1>7. Sql(r) \subseteq Sql(call[c]) \cup Copies(F)
  BY <1>5 DEF Sql
<1> QED BY <1>1, <1>2, <1>5, <1>6, <1>7, SqlStep

\* merging only chooses among the copies of the layers
LEMMA MergedCopies ==
  ASSUME NEW r \in Call, NEW b \in BOOLEAN
  PROVE  /\ Fused(r) \subseteq r.cached \cup Sql(r)
         /\ Deduplicated(r, b) \subseteq r.cached \cup Sql(r)
<1>1. \A i \in 1..4 : Layer(r, i) \subseteq r.cached \cup Sql(r)
  BY DEF Layer, Sql
<1> QED BY <1>1 DEF Fused, Deduplicated, Sql

LEMMA RecallMergeInv ==
  ASSUME RecallInv, NEW c \in Caller, Merge(c)
  PROVE  RecallInv'
<1> DEFINE q == call[c].q
<1>1. PICK preferCached \in BOOLEAN :
        \E kept \in Trimmed(q, IF q.text THEN Fused(call[c]) ELSE Deduplicated(call[c], preferCached)) :
          LET clean == {x \in kept : Wanted(q, x.st)}
          IN  /\ call' = [call EXCEPT ![c] = [@ EXCEPT !.pc = "links", !.found = Ids(clean)]]
              /\ \/ /\ Scope[c] = {}
                    /\ LET own == {x \in clean : Owner[x.id] = Master} IN
                         /\ hot' = {x \in hot : x.id \notin Ids(own)} \cup own
                         /\ refilled' = refilled \cup (Ids(own) \cap leaving)
                 \/ UNCHANGED <<hot, refilled>>
  BY DEF Merge
<1>2. PICK kept \in Trimmed(q, IF q.text THEN Fused(call[c]) ELSE Deduplicated(call[c], preferCached)) :
          LET clean == {x \in kept : Wanted(q, x.st)}
          IN  /\ call' = [call EXCEPT ![c] = [@ EXCEPT !.pc = "links", !.found = Ids(clean)]]
              /\ \/ /\ Scope[c] = {}
                    /\ LET own == {x \in clean : Owner[x.id] = Master} IN
                         /\ hot' = {x \in hot : x.id \notin Ids(own)} \cup own
                         /\ refilled' = refilled \cup (Ids(own) \cap leaving)
                 \/ UNCHANGED <<hot, refilled>>
  BY <1>1
<1> DEFINE clean == {x \in kept : Wanted(q, x.st)}
           own == {x \in clean : Owner[x.id] = Master}
           r == [call[c] EXCEPT !.pc = "links", !.found = Ids(clean)]
<1>3. clean \subseteq call[c].cached \cup Sql(call[c]) /\ \A x \in clean : Wanted(q, x.st)
  <2>1. kept \subseteq call[c].cached \cup Sql(call[c])
    BY AtCall, MergedCopies DEF Trimmed, Best
  <2> QED BY <2>1
<1>4. /\ call' = [call EXCEPT ![c] = [@ EXCEPT !.pc = "links", !.found = Ids(clean)]]
      /\ \/ /\ hot' = {x \in hot : x.id \notin Ids(own)} \cup own
            /\ refilled' = refilled \cup (Ids(own) \cap leaving)
         \/ UNCHANGED <<hot, refilled>>
      /\ own \subseteq clean /\ \A x \in own : Owner[x.id] = Master
  BY <1>2
<1> HIDE DEF clean, own
<1>5. clean \subseteq Copy
  BY <1>3, AtCall DEF Sql, Call
<1>6. Ids(clean) \subseteq Frag
  BY <1>5 DEF Ids, Copy
<1>7. /\ r \in Call /\ r.pc = "links" /\ r.start = call[c].start /\ r.cached = call[c].cached
      /\ r.l2 = call[c].l2 /\ r.graph = call[c].graph /\ r.side = call[c].side /\ r.q = call[c].q
      /\ r.found = Ids(clean) /\ r.answer = call[c].answer
  BY <1>6, AtCall DEF Call, RecallPC
<1>8. call' = [call EXCEPT ![c] = r]
  BY <1>4, AtCall DEF Call
<1> HIDE DEF r
<1>9. FoundSound(c, r)
  <2> SUFFICES ASSUME NEW x \in clean
               PROVE  Own(c, x.id) /\ (Stale(r, x.id) => SaidLive(c, r, x.id))
    BY <1>7 DEF FoundSound, Ids
  <2>1. CASE x \in call[c].cached
    <3>1. Scope[c] = {} /\ Owner[x.id] = Master
      BY <2>1, AtCall DEF CallSound
    <3>2. SaidLive(c, r, x.id)
      BY <1>3, <1>7, <2>1, <3>1 DEF SaidLive
    <3> QED BY <3>1, <3>2 DEF Own
  <2>2. CASE x \in Sql(call[c])
    <3>1. /\ Own(c, x.id) /\ call[c].start[x.id] # "gone"
          /\ call[c].start[x.id] = "expired" => x.st = "expired"
      BY <2>2, AtCall DEF CallSound, SqlSound
    <3>2. ~Stale(r, x.id)
      BY <1>3, <1>7, <3>1 DEF Stale, Wanted
    <3> QED BY <3>1, <3>2
  <2> QED BY <1>3, <2>1, <2>2
<1>10. CallSound(c, r)
  BY <1>7, <1>9, AtCall DEF CallSound, SqlSound, Sql
<1>11. UNCHANGED <<row, index, leaving>>
  BY DEF Merge
<1>12. hot' \subseteq Copy /\ refilled \subseteq refilled' /\ refilled' \subseteq Frag
  BY <1>4, <1>5 DEF RecallInv, RecallTypeOK
<1>13. HotSound'
  BY <1>4, <1>11 DEF RecallInv, HotSound, Ghost, Ids
<1> QED BY <1>7, <1>8, <1>10, <1>11, <1>12, <1>13, AtCall, CallerStep

LEMMA LinksInv ==
  ASSUME RecallInv, NEW c \in Caller, AddLinked(c) \/ Answer(c)
  PROVE  RecallInv'
<1>1. UNCHANGED <<row, index, hot, leaving, refilled>>
  BY DEF AddLinked, Answer
<1>2. CASE AddLinked(c)
  <2>1. PICK linked \in {{f \in Linked(call[c].found) : f \in Rows(c)}, {}} :
          call' = [call EXCEPT ![c] = [Idle EXCEPT !.pc = "done", !.answer = call[c].found \cup linked]]
    BY <1>2 DEF AddLinked
  <2> DEFINE A == call[c].found \cup linked
             r == [Idle EXCEPT !.pc = "done", !.answer = A]
  <2>2. A \subseteq Frag /\ \A f \in A : Own(c, f)
    BY AtCall DEF Call, CallSound, FoundSound, Rows
  <2> HIDE DEF A
  <2>3. /\ r \in Call /\ r.pc = "done" /\ r.start = [f \in Frag |-> "none"] /\ r.answer = A
        /\ r.cached = {} /\ r.l2 = {} /\ r.graph = {} /\ r.side = {} /\ r.found = {}
    BY <2>2, IdleCall DEF Call, RecallPC
  <2>4. call' = [call EXCEPT ![c] = r]
    BY <2>1 DEF A
  <2> HIDE DEF r
  <2>5. CallSound(c, r)
    BY <2>2, <2>3 DEF CallSound, SqlSound, Sql, FoundSound
  <2> QED BY <1>1, <2>3, <2>4, <2>5, ReadStep
<1>3. CASE Answer(c)
  BY <1>1, <1>3, IdleCall, ReadStep DEF Answer
<1> QED BY <1>2, <1>3

LEMMA RecallNextInv == RecallInv /\ [RecallNext]_rcVars => RecallInv'
<1> SUFFICES ASSUME RecallInv, [RecallNext]_rcVars PROVE RecallInv'
  OBVIOUS
<1>1. ASSUME NEW c \in Caller, RecallStep(c) PROVE RecallInv'
  BY <1>1, StartInv, L1Inv, HotInv, L2Inv, FetchInv, SideInv, GraphInv, RecallMergeInv, LinksInv DEF RecallStep
<1>2. ASSUME NEW f \in Frag, WriteStep(f) PROVE RecallInv'
  BY <1>2, WritersInv
<1>3. ASSUME NEW x \in hot, CacheExpires(x) PROVE RecallInv'
  BY <1>3, WriterStep DEF CacheExpires, RecallInv, RecallTypeOK, HotSound, Ghost
<1>4. CASE UNCHANGED rcVars
  BY <1>4, WriterStep DEF rcVars, RecallInv, RecallTypeOK, HotSound, Ghost
<1> QED BY <1>1, <1>2, <1>3, <1>4 DEF RecallNext

LEMMA RecallInvariance == RecallSpec => []RecallInv
BY RecallInitInv, RecallNextInv, PTL DEF RecallSpec

(***************************************************************************)
(* Type correctness of rows, index, cache and recalls.                     *)
(***************************************************************************)
THEOREM RecallTypeCorrect == RecallSpec => []RecallTypeOK
<1>1. RecallInv => RecallTypeOK
  BY DEF RecallInv
<1> QED BY <1>1, RecallInvariance, PTL

(***************************************************************************)
(* No layer of a recall leads to a fragment of a key outside the caller's  *)
(* group, for any groups, links and contents of Redis.                     *)
(***************************************************************************)
THEOREM Isolation == RecallSpec => []AnswersOwnKeys
<1>1. RecallInv => AnswersOwnKeys
  BY DEF RecallInv, CallsSound, CallSound, FoundSound, AnswersOwnKeys
<1> QED BY <1>1, RecallInvariance, PTL

(***************************************************************************)
(* A fragment superseded before the recall, and not asked for, or deleted  *)
(* before it comes only from a copy of the hot cache that says it is live, *)
(* and only to the master key.                                             *)
(***************************************************************************)
THEOREM Current == RecallSpec => []AnswersCurrent
<1>1. RecallInv => AnswersCurrent
  BY DEF RecallInv, CallsSound, CallSound, FoundSound, Stale, SaidLive, AnswersCurrent, FromCache
<1> QED BY <1>1, RecallInvariance, PTL

(***************************************************************************)
(* A forgotten fragment is found by a later recall only if the cache kept  *)
(* or got its copy after forget had begun.                                 *)
(***************************************************************************)
THEOREM NoGhosts == RecallSpec => []GhostNeedsLateFill
<1>1. ASSUME RecallInv PROVE GhostNeedsLateFill
  <2> SUFFICES ASSUME NEW c \in Caller, NEW f \in call[c].found,
                      call[c].start[f] = "gone", f \in leaving
               PROVE  f \in refilled
    BY DEF GhostNeedsLateFill
  <2>1. SaidLive(c, call[c], f)
    BY <1>1 DEF RecallInv, CallsSound, CallSound, FoundSound, Stale
  <2>2. PICK x \in call[c].cached : x.id = f
    BY <2>1 DEF SaidLive
  <2> QED BY <1>1, <2>2 DEF RecallInv, CachedSound, Ghost
<1> QED BY <1>1, RecallInvariance, PTL

----------------------------------------------------------------------------
(***************************************************************************)
(* The keyword search. A layer holds one copy of a fragment, and one that  *)
(* says "expired" is of a row that is no longer live; so what has been     *)
(* live throughout is among the rows L2 chooses from, and neither the      *)
(* copies of the cache nor the last filter take away what L2 has read.     *)
(***************************************************************************)
OneCopy(S) == \A x, y \in S : x.id = y.id => x = y
TrueCopies(S) == OneCopy(S) /\ \A x \in S : x.st = "expired" => row[x.id] \in {"expired", "gone"}
LayersTrue(r) == /\ TrueCopies(r.cached) /\ TrueCopies(r.l2)
                 /\ TrueCopies(r.graph) /\ TrueCopies(r.side)
Sought(c, r, f) == r.start[f] = "live" /\ row[f] = "live" /\ Own(c, f) /\ Matches(r.q, f)
\* F has the fragment, or as many as the limit lets through
Covers(q, F, f) == f \in F \/ Cardinality({g \in F : Matches(q, g)}) >= SqlLimit
\* what L2 read passes the last filter, and so does a cached copy of it
Passing(r) == \A x \in r.l2 : /\ Wanted(r.q, x.st)
                              /\ \A y \in r.cached : y.id = x.id => Wanted(r.q, y.st)
KeywordsFound(c, r) ==
  ~r.q.text =>
    /\ r.pc \in {"fetch", "graph", "merge"} =>
         Passing(r) /\ \A f \in Frag : Sought(c, r, f) => Covers(r.q, Ids(r.l2), f)
    /\ r.pc = "links" /\ Cardinality(Loaded(r)) <= r.q.budget =>
         \A f \in Frag : Sought(c, r, f) => Covers(r.q, r.found, f)
StartedLive == \A c \in Caller, f \in Frag : call[c].start[f] = "live" => row[f] # "none"
KeywordInv ==
  /\ TrueCopies(hot) /\ StartedLive
  /\ \A c \in Caller : LayersTrue(call[c]) /\ KeywordsFound(c, call[c])

\* one recall goes on
LEMMA KeywordCaller ==
  ASSUME RecallInv, KeywordInv, NEW c \in Caller, NEW r \in Call,
         call' = [call EXCEPT ![c] = r], row' = row, TrueCopies(hot)',
         r.start = call[c].start \/ r.start = row \/ r.start = [f \in Frag |-> "none"],
         LayersTrue(r), KeywordsFound(c, r)
  PROVE  KeywordInv'
<1>1. \A d \in Caller : call'[d] = IF d = c THEN r ELSE call[d]
  BY AtCall
<1>2. \A S : TrueCopies(S)' = TrueCopies(S)
  BY DEF TrueCopies, OneCopy
<1>3. StartedLive'
  BY <1>1 DEF KeywordInv, StartedLive
<1>4. ASSUME NEW d \in Caller PROVE LayersTrue(call[d])' /\ KeywordsFound(d, call[d])'
  <2>1. LayersTrue(call'[d]) /\ KeywordsFound(d, call'[d])
    BY <1>1 DEF KeywordInv
  <2>2. LayersTrue(call[d])'
    BY <2>1 DEF LayersTrue, TrueCopies, OneCopy
  <2>3. \A f \in Frag : Sought(d, call[d], f)' = Sought(d, call'[d], f)
    BY DEF Sought, Own
  <2>4. KeywordsFound(d, call[d])'
    BY <2>1, <2>3 DEF KeywordsFound, Passing, Covers, Loaded, Layer, Ids
  <2> QED BY <2>2, <2>4
<1> QED BY <1>3, <1>4 DEF KeywordInv

\* the recalls wait
LEMMA KeywordWriter ==
  ASSUME RecallInv, KeywordInv, UNCHANGED call, hot' \subseteq hot,
         \A f \in Frag : /\ row[f] # "none" /\ row'[f] = "live" => row[f] = "live"
                         /\ row[f] # "none" => row'[f] # "none"
                         /\ row[f] \in {"expired", "gone"} => row'[f] \in {"expired", "gone"}
  PROVE  KeywordInv'
<1>2. TrueCopies(hot)'
  <2>1. hot \in SUBSET Copy /\ hot' \in SUBSET hot /\ TrueCopies(hot)
    BY DEF KeywordInv, RecallInv, RecallTypeOK
  <2>2. \A x \in hot' : x \in hot /\ x.id \in Frag
    BY <2>1 DEF Copy
  <2> QED BY <2>1, <2>2 DEF TrueCopies, OneCopy
<1>3. StartedLive'
  BY DEF KeywordInv, StartedLive
<1>4. ASSUME NEW d \in Caller PROVE LayersTrue(call[d])' /\ KeywordsFound(d, call[d])'
  <2>1. LayersTrue(call[d]) /\ KeywordsFound(d, call[d]) /\ call[d] \in Call
    BY AtCall DEF KeywordInv
  <2>2. \A x \in call[d].cached \cup call[d].l2 \cup call[d].graph \cup call[d].side : x.id \in Frag
    BY <2>1 DEF Call, Copy
  <2>3. LayersTrue(call[d])'
    BY <2>1, <2>2 DEF LayersTrue, TrueCopies, OneCopy
  <2>4. \A f \in Frag : Sought(d, call[d], f)' => Sought(d, call[d], f)
    BY DEF Sought, Own, KeywordInv, StartedLive
  <2>5. \A F, f : Covers(call[d].q, F, f)' = Covers(call[d].q, F, f)
    BY DEF Covers, Matches
  <2>6. /\ Passing(call[d])' = Passing(call[d]) /\ Loaded(call[d])' = Loaded(call[d])
        /\ Ids(call[d].l2)' = Ids(call[d].l2) /\ call'[d] = call[d]
    BY DEF Passing, Wanted, Loaded, Layer, Ids
  <2>7. KeywordsFound(d, call[d])'
    BY <2>1, <2>4, <2>5, <2>6 DEF KeywordsFound
  <2> QED BY <2>3, <2>7
<1> QED BY <1>2, <1>3, <1>4 DEF KeywordInv

LEMMA KeywordInitInv == RecallInit => KeywordInv
<1> SUFFICES ASSUME RecallInit PROVE KeywordInv
  OBVIOUS
<1>1. \A c \in Caller : call[c] = Idle
  BY DEF RecallInit
<1>2. Idle.pc = "idle"
  BY DEF Idle
<1>3. \A c \in Caller : LayersTrue(call[c]) /\ KeywordsFound(c, call[c])
  BY <1>1, <1>2, IdleCall DEF LayersTrue, TrueCopies, OneCopy, KeywordsFound
<1>4. TrueCopies(hot) /\ StartedLive
  BY <1>1, IdleCall DEF RecallInit, TrueCopies, OneCopy, StartedLive
<1> QED BY <1>3, <1>4 DEF KeywordInv

\* what a SQL search returns is true now
LEMMA CopiesTrue ==
  ASSUME NEW c \in Caller, NEW F \in SUBSET Rows(c)
  PROVE  /\ TrueCopies(Copies(F)) /\ Ids(Copies(F)) = F /\ Copies(F) \subseteq Copy
<1>1. \A f \in F : f \in Frag /\ row[f] \in {"live", "expired"}
  BY DEF Rows
<1>2. \A f \in F : CopyOf(f).id = f /\ CopyOf(f).st = row[f] /\ CopyOf(f) \in Copy
  BY <1>1 DEF CopyOf, Copy
<1>3. \A x \in Copies(F) : x.id \in F /\ x = CopyOf(x.id)
  BY <1>2 DEF Copies
<1>4. \A f \in F : CopyOf(f) \in Copies(F)
  BY DEF Copies
<1>5. TrueCopies(Copies(F))
  BY <1>2, <1>3 DEF TrueCopies, OneCopy
<1>6. Ids(Copies(F)) = F
  BY <1>2, <1>3, <1>4 DEF Ids
<1> QED BY <1>2, <1>3, <1>5, <1>6

\* more fragments cover no less
LEMMA CoversMore ==
  ASSUME NEW q, NEW F \in SUBSET Frag, NEW G \in SUBSET Frag, F \subseteq G, NEW f, Covers(q, F, f)
  PROVE  Covers(q, G, f)
<1> DEFINE in(S) == {g \in S : Matches(q, g)}
<1>1. in(F) \subseteq in(G) /\ IsFiniteSet(in(G))
  BY OwnerAssumption, FS_Subset
<1>2. /\ Cardinality(in(F)) <= Cardinality(in(G))
      /\ Cardinality(in(F)) \in Nat /\ Cardinality(in(G)) \in Nat
  BY <1>1, FS_Subset, FS_CardinalityType
<1>3. SqlLimit \in Nat
  BY QueryAssumption
<1> HIDE DEF in
<1>4. CASE f \in F
  BY <1>4 DEF Covers
<1>5. CASE Cardinality(in(F)) >= SqlLimit
  <2>1. Cardinality(in(G)) >= SqlLimit
    BY <1>2, <1>3, <1>5
  <2> QED BY <2>1 DEF Covers, in
<1> QED BY <1>4, <1>5 DEF Covers, in

\* the rows the search chooses hold the one sought, or are as many as the limit
LEMMA L2Covers ==
  ASSUME NEW c \in Caller, NEW q \in Query, NEW F \in L2Hits(c, q), NEW f \in ByKeywords(c, q)
  PROVE  Covers(q, F, f) /\ F \subseteq ByKeywords(c, q)
<1>1. F \in Best(SqlLimit, ByKeywords(c, q))
  BY DEF L2Hits
<1>2. F = ByKeywords(c, q) \/ (F \subseteq ByKeywords(c, q) /\ Cardinality(F) = SqlLimit)
  BY <1>1 DEF Best
<1>3. F \subseteq ByKeywords(c, q)
  BY <1>2
<1>4. {g \in F : Matches(q, g)} = F
  BY <1>3 DEF ByKeywords
<1>5. SqlLimit \in Nat
  BY QueryAssumption
<1> QED BY <1>2, <1>3, <1>4, <1>5 DEF Covers

LEMMA KeywordStarts ==
  ASSUME RecallInv, KeywordInv, NEW c \in Caller, NEW q \in Query, StartRecall(c, q)
  PROVE  KeywordInv'
<1> DEFINE r == [Idle EXCEPT !.pc = "l1", !.q = q, !.start = row]
<1>1. /\ r \in Call /\ r.start = row /\ r.cached = {} /\ r.l2 = {} /\ r.graph = {} /\ r.side = {}
      /\ r.pc = "l1"
  BY IdleCall, AtCall DEF Call, RecallPC
<1>2. call' = [call EXCEPT ![c] = r] /\ UNCHANGED <<row, hot>>
  BY DEF StartRecall
<1> HIDE DEF r
<1>3. LayersTrue(r) /\ KeywordsFound(c, r)
  BY <1>1 DEF LayersTrue, TrueCopies, OneCopy, KeywordsFound
<1>4. TrueCopies(hot)'
  BY <1>2 DEF KeywordInv, TrueCopies, OneCopy
<1> QED BY <1>1, <1>2, <1>3, <1>4, KeywordCaller

LEMMA KeywordSearches ==
  ASSUME RecallInv, KeywordInv, NEW c \in Caller, SearchL1(c) \/ TryHotCache(c)
  PROVE  KeywordInv'
<1> DEFINE old == call[c]
<1>0. old \in Call /\ LayersTrue(old) /\ TrueCopies(hot)
  BY AtCall DEF KeywordInv
<1>1. UNCHANGED <<row, hot>>
  BY DEF SearchL1, TryHotCache
<1>2. TrueCopies(hot)'
  BY <1>0, <1>1 DEF TrueCopies, OneCopy
<1>3. CASE SearchL1(c)
  <2>1. PICK kw \in {KeywordHits(c, old.q), {}}, tp \in {TopicHits(c, old.q), {}}, recent \in {RecentHits(c), {}} :
          call' = [call EXCEPT ![c] = [@ EXCEPT !.pc = "hot", !.l1 = L1Hits(old.q, kw, tp, recent)]]
    BY <1>3 DEF SearchL1
  <2> DEFINE hits == L1Hits(old.q, kw, tp, recent)
             r == [old EXCEPT !.pc = "hot", !.l1 = hits]
  <2>2. hits \subseteq Frag
    BY DEF L1Hits, KeywordHits, TopicHits, RecentHits
  <2> HIDE DEF hits
  <2>3. /\ r \in Call /\ r.start = old.start /\ r.cached = old.cached /\ r.l2 = old.l2
        /\ r.graph = old.graph /\ r.side = old.side /\ r.pc = "hot"
    BY <1>0, <2>2 DEF Call, RecallPC
  <2>4. call' = [call EXCEPT ![c] = r]
    BY <2>1, AtCall DEF Call, hits
  <2> HIDE DEF r
  <2>5. LayersTrue(r) /\ KeywordsFound(c, r)
    BY <1>0, <2>3 DEF LayersTrue, KeywordsFound
  <2> QED BY <1>1, <1>2, <2>3, <2>4, <2>5, KeywordCaller
<1>4. CASE TryHotCache(c)
  <2>1. PICK hits \in SUBSET {x \in hot : x.id \in old.l1 /\ Scope[c] = {}} :
          call' = [call EXCEPT ![c] = [@ EXCEPT !.pc = "l2", !.cached = hits]]
    BY <1>4 DEF TryHotCache
  <2> DEFINE r == [old EXCEPT !.pc = "l2", !.cached = hits]
  <2>2. hits \subseteq Copy /\ hits \subseteq hot
    BY DEF RecallInv, RecallTypeOK
  <2>3. /\ r \in Call /\ r.start = old.start /\ r.cached = hits /\ r.l2 = old.l2
        /\ r.graph = old.graph /\ r.side = old.side /\ r.pc = "l2"
    BY <1>0, <2>2 DEF Call, RecallPC
  <2>4. call' = [call EXCEPT ![c] = r]
    BY <2>1, AtCall DEF Call
  <2> HIDE DEF r
  <2>5. TrueCopies(hits)
    BY <1>0, <2>2 DEF TrueCopies, OneCopy
  <2>6. LayersTrue(r) /\ KeywordsFound(c, r)
    BY <1>0, <2>3, <2>5 DEF LayersTrue, KeywordsFound
  <2> QED BY <1>1, <1>2, <2>3, <2>4, <2>6, KeywordCaller
<1> QED BY <1>3, <1>4

LEMMA KeywordL2 ==
  ASSUME RecallInv, KeywordInv, NEW c \in Caller, SearchL2(c)
  PROVE  KeywordInv'
<1> DEFINE old == call[c]
<1>0. old \in Call /\ LayersTrue(old) /\ TrueCopies(hot) /\ old.q \in Query
  BY AtCall DEF KeywordInv, Call
<1>10. PICK F \in L2Hits(c, old.q) :
         call' = [call EXCEPT ![c] = [@ EXCEPT !.pc = "fetch", !.l2 = Copies(F)]]
  BY DEF SearchL2
<1> DEFINE r == [old EXCEPT !.pc = "fetch", !.l2 = Copies(F)]
<1>1. F \in SUBSET Rows(c) /\ \A f \in F : Wanted(old.q, row[f])
  BY DEF L2Hits, Best, ByKeywords, ByTopic
<1>2. \A f \in Frag : Sought(c, old, f) => Covers(old.q, F, f)
  <2>1. \A f \in Frag : Sought(c, old, f) => f \in ByKeywords(c, old.q)
    BY DEF Sought, ByKeywords, Rows, Wanted
  <2> QED BY <1>0, <2>1, L2Covers
<1>3. TrueCopies(Copies(F)) /\ Ids(Copies(F)) = F /\ Copies(F) \subseteq Copy
  BY <1>1, CopiesTrue
<1>4. /\ r \in Call /\ r.pc = "fetch" /\ r.start = old.start /\ r.cached = old.cached
      /\ r.l2 = Copies(F) /\ r.graph = old.graph /\ r.side = old.side /\ r.q = old.q
  BY <1>0, <1>3 DEF Call, RecallPC
<1>5. /\ call' = [call EXCEPT ![c] = r] /\ UNCHANGED <<row, hot>>
  BY <1>10, AtCall DEF SearchL2, Call
<1> HIDE DEF r
<1>6. LayersTrue(r)
  BY <1>0, <1>3, <1>4 DEF LayersTrue
<1>7. \A f \in Frag : Sought(c, r, f) => Covers(r.q, Ids(r.l2), f)
  BY <1>2, <1>3, <1>4 DEF Sought
<1>11. Passing(r)
  <2> SUFFICES ASSUME NEW x \in Copies(F)
               PROVE  /\ Wanted(old.q, x.st)
                      /\ \A y \in old.cached : y.id = x.id => Wanted(old.q, y.st)
    BY <1>4 DEF Passing
  <2>1. PICK f \in F : x = CopyOf(f)
    BY DEF Copies
  <2>2. x.id = f /\ x.st = row[f] /\ Wanted(old.q, row[f])
    BY <1>1, <2>1 DEF CopyOf
  <2>3. ASSUME NEW y \in old.cached, y.id = f PROVE Wanted(old.q, y.st)
    <3>1. y \in Copy /\ (y.st = "expired" => row[f] \in {"expired", "gone"})
      BY <1>0, <2>3 DEF Call, LayersTrue, TrueCopies
    <3> QED BY <2>2, <3>1 DEF Copy, Wanted
  <2> QED BY <2>2, <2>3
<1>8. KeywordsFound(c, r)
  BY <1>4, <1>7, <1>11 DEF KeywordsFound
<1>9. TrueCopies(hot)'
  BY <1>0, <1>5 DEF TrueCopies, OneCopy
<1> QED BY <1>4, <1>5, <1>6, <1>8, <1>9, KeywordCaller

LEMMA KeywordFetch ==
  ASSUME RecallInv, KeywordInv, NEW c \in Caller, FetchL1Misses(c)
  PROVE  KeywordInv'
<1> DEFINE old == call[c]
           F == {f \in old.l1 \ Ids(old.cached \cup old.l2) : f \in Rows(c) /\ row[f] = "live"}
           r == [old EXCEPT !.pc = "graph", !.l2 = @ \cup Copies(F)]
<1>0. old \in Call /\ LayersTrue(old) /\ TrueCopies(hot) /\ KeywordsFound(c, old) /\ old.pc = "fetch"
  BY AtCall DEF KeywordInv, FetchL1Misses
<1>1. /\ F \in SUBSET Rows(c)
      /\ \A f \in F : f \notin Ids(old.l2) /\ f \notin Ids(old.cached) /\ row[f] = "live"
  BY DEF Ids
<1>2. call' = [call EXCEPT ![c] =
                [@ EXCEPT !.pc = "graph", !.l2 = old.l2 \cup Copies(F)]] /\ UNCHANGED <<row, hot>>
  BY DEF FetchL1Misses
<1> HIDE DEF F
<1>3. TrueCopies(Copies(F)) /\ Ids(Copies(F)) = F /\ Copies(F) \subseteq Copy
  BY <1>1, CopiesTrue
<1>4. /\ r \in Call /\ r.pc = "graph" /\ r.start = old.start /\ r.cached = old.cached
      /\ r.l2 = old.l2 \cup Copies(F) /\ r.graph = old.graph /\ r.side = old.side /\ r.q = old.q
  BY <1>0, <1>3 DEF Call, RecallPC
<1>5. call' = [call EXCEPT ![c] = r]
  BY <1>2, AtCall DEF Call
<1> HIDE DEF r
<1>6. TrueCopies(old.l2 \cup Copies(F))
  <2>1. \A x \in old.l2, y \in Copies(F) : x.id # y.id
    BY <1>1, <1>3 DEF Ids
  <2> QED BY <1>0, <1>3, <2>1 DEF LayersTrue, TrueCopies, OneCopy
<1>7. LayersTrue(r)
  BY <1>0, <1>4, <1>6 DEF LayersTrue
<1>8. \A f \in Frag : ~r.q.text /\ Sought(c, r, f) => Covers(r.q, Ids(r.l2), f)
  <2>1. Ids(old.l2) \subseteq Ids(r.l2) /\ Ids(old.l2) \subseteq Frag /\ Ids(r.l2) \subseteq Frag
    BY <1>0, <1>4 DEF Ids, Call, Copy
  <2>2. \A f \in Frag : ~r.q.text /\ Sought(c, r, f) => Covers(r.q, Ids(old.l2), f)
    BY <1>0, <1>4 DEF Sought, KeywordsFound
  <2> QED BY <2>1, <2>2, CoversMore
<1>11. ~r.q.text => Passing(r)
  <2> SUFFICES ASSUME ~old.q.text, NEW x \in r.l2
               PROVE  /\ Wanted(old.q, x.st)
                      /\ \A y \in old.cached : y.id = x.id => Wanted(old.q, y.st)
    BY <1>4 DEF Passing
  <2>1. CASE x \in old.l2
    BY <1>0, <2>1 DEF KeywordsFound, Passing
  <2>2. CASE x \in Copies(F)
    <3>1. PICK f \in F : x = CopyOf(f)
      BY <2>2 DEF Copies
    <3>2. x.id = f /\ x.st = "live" /\ f \notin Ids(old.cached)
      BY <1>1, <3>1 DEF CopyOf
    <3> QED BY <3>2 DEF Wanted, Ids
  <2> QED BY <1>4, <2>1, <2>2
<1>9. KeywordsFound(c, r)
  BY <1>4, <1>8, <1>11 DEF KeywordsFound
<1>10. TrueCopies(hot)'
  BY <1>0, <1>2 DEF TrueCopies, OneCopy
<1> QED BY <1>2, <1>4, <1>5, <1>7, <1>9, <1>10, KeywordCaller

LEMMA KeywordSide ==
  ASSUME RecallInv, KeywordInv, NEW c \in Caller, SearchSide(c)
  PROVE  KeywordInv'
<1> DEFINE old == call[c]
<1>0. old \in Call /\ LayersTrue(old) /\ TrueCopies(hot)
  BY AtCall DEF KeywordInv
<1>1. PICK F \in SUBSET {f \in Rows(c) : Wanted(old.q, row[f])} :
        call' = [call EXCEPT ![c] = [@ EXCEPT !.sided = TRUE, !.side = Copies(F)]]
  BY DEF SearchSide
<1> DEFINE r == [old EXCEPT !.sided = TRUE, !.side = Copies(F)]
<1>2. F \in SUBSET Rows(c)
  OBVIOUS
<1>3. TrueCopies(Copies(F)) /\ Copies(F) \subseteq Copy
  BY <1>2, CopiesTrue
<1>4. /\ r \in Call /\ r.start = old.start /\ r.cached = old.cached
      /\ r.l2 = old.l2 /\ r.graph = old.graph /\ r.side = Copies(F) /\ r.q = old.q
  BY <1>0, <1>3 DEF Call, RecallPC
<1>5. call' = [call EXCEPT ![c] = r] /\ old.q.text /\ UNCHANGED <<row, hot>>
  BY <1>1, AtCall DEF SearchSide, Call
<1> HIDE DEF r
<1>6. LayersTrue(r) /\ KeywordsFound(c, r)
  BY <1>0, <1>3, <1>4, <1>5 DEF LayersTrue, KeywordsFound
<1>7. TrueCopies(hot)'
  BY <1>0, <1>5 DEF TrueCopies, OneCopy
<1> QED BY <1>4, <1>5, <1>6, <1>7, KeywordCaller

LEMMA KeywordGraph ==
  ASSUME RecallInv, KeywordInv, NEW c \in Caller, SearchGraph(c)
  PROVE  KeywordInv'
<1> DEFINE old == call[c]
           F == IF old.q.text THEN Neighbours(c, old) ELSE {}
           r == [old EXCEPT !.pc = "merge", !.graph = Copies(F)]
<1>0. old \in Call /\ LayersTrue(old) /\ TrueCopies(hot) /\ KeywordsFound(c, old) /\ old.pc = "graph"
  BY AtCall DEF KeywordInv, SearchGraph
<1>1. F \in SUBSET Rows(c)
  BY DEF Neighbours, Rows, Linked
<1>2. /\ UNCHANGED <<row, hot>>
      /\ call' = [call EXCEPT ![c] =
                   [@ EXCEPT !.pc = "merge",
                             !.graph = IF old.q.text THEN Copies(Neighbours(c, old)) ELSE {}]]
  BY DEF SearchGraph
<1>3. (IF old.q.text THEN Copies(Neighbours(c, old)) ELSE {}) = Copies(F)
  BY DEF Copies
<1> HIDE DEF F
<1>4. TrueCopies(Copies(F)) /\ Copies(F) \subseteq Copy
  BY <1>1, CopiesTrue
<1>5. /\ r \in Call /\ r.pc = "merge" /\ r.start = old.start /\ r.cached = old.cached
      /\ r.l2 = old.l2 /\ r.graph = Copies(F) /\ r.side = old.side /\ r.q = old.q
  BY <1>0, <1>4 DEF Call, RecallPC
<1>6. call' = [call EXCEPT ![c] = r]
  BY <1>2, <1>3, AtCall DEF Call
<1> HIDE DEF r
<1>7. LayersTrue(r)
  BY <1>0, <1>4, <1>5 DEF LayersTrue
<1>8. ~r.q.text => /\ Passing(r)
                   /\ \A f \in Frag : Sought(c, r, f) => Covers(r.q, Ids(r.l2), f)
  BY <1>0, <1>5 DEF Sought, KeywordsFound, Passing
<1>9. KeywordsFound(c, r)
  BY <1>5, <1>8 DEF KeywordsFound
<1>10. TrueCopies(hot)'
  BY <1>0, <1>2 DEF TrueCopies, OneCopy
<1> QED BY <1>2, <1>5, <1>6, <1>7, <1>9, <1>10, KeywordCaller

\* the layers merged have one copy of a fragment, and no more than were loaded
LEMMA KeywordMerged ==
  ASSUME NEW r \in Call, LayersTrue(r), NEW b \in BOOLEAN
  PROVE  /\ TrueCopies(Fused(r)) /\ TrueCopies(Deduplicated(r, b))
         /\ Ids(r.l2) \subseteq Ids(Deduplicated(r, b))
         /\ Cardinality(Deduplicated(r, b)) <= Cardinality(Loaded(r))
         /\ Cardinality(Deduplicated(r, b)) \in Nat /\ Cardinality(Loaded(r)) \in Nat
<1> DEFINE D == Deduplicated(r, b)
<1>1. \A i \in 1..4 : TrueCopies(Layer(r, i)) /\ Layer(r, i) \subseteq Copy
  BY DEF Layer, LayersTrue, Call
<1>2. TrueCopies(Fused(r))
  <2>1. ASSUME NEW x \in Fused(r), NEW y \in Fused(r), x.id = y.id PROVE x = y
    <3>1. PICK i \in 1..4 : x \in Layer(r, i) /\ \A j \in 1..(i - 1) : x.id \notin Ids(Layer(r, j))
      BY DEF Fused
    <3>2. PICK k \in 1..4 : y \in Layer(r, k) /\ \A j \in 1..(k - 1) : y.id \notin Ids(Layer(r, j))
      BY DEF Fused
    <3>3. x.id \in Ids(Layer(r, i)) /\ y.id \in Ids(Layer(r, k))
      BY <3>1, <3>2 DEF Ids
    <3>4. i = k
      BY <2>1, <3>1, <3>2, <3>3
    <3> QED BY <1>1, <2>1, <3>1, <3>2, <3>4 DEF TrueCopies, OneCopy
  <2>2. ASSUME NEW x \in Fused(r), x.st = "expired" PROVE row[x.id] \in {"expired", "gone"}
    <3>1. PICK i \in 1..4 : x \in Layer(r, i)
      BY DEF Fused
    <3> QED BY <1>1, <2>2, <3>1 DEF TrueCopies
  <2> QED BY <2>1, <2>2 DEF TrueCopies, OneCopy
<1>3. D \subseteq r.cached \cup r.l2
  BY DEF Deduplicated
<1>4. TrueCopies(D)
  <2>1. TrueCopies(r.cached) /\ TrueCopies(r.l2)
    BY DEF LayersTrue
  <2>2. ASSUME NEW x \in D, NEW y \in D, x.id = y.id PROVE x = y
    BY <2>1, <2>2 DEF Deduplicated, TrueCopies, OneCopy, Ids
  <2> QED BY <1>3, <2>1, <2>2 DEF TrueCopies, OneCopy
<1>5. Ids(r.l2) \subseteq Ids(D)
  BY DEF Deduplicated, Ids
<1>6. Ids(r.cached) \subseteq Loaded(r) /\ Ids(r.l2) \subseteq Loaded(r)
  BY DEF Loaded, Layer
<1>7. Loaded(r) \subseteq Frag
  BY <1>1 DEF Loaded, Ids, Copy
<1>8. IsFiniteSet(Loaded(r)) /\ Cardinality(Loaded(r)) \in Nat
  BY <1>7, OwnerAssumption, FS_Subset, FS_CardinalityType
<1>9. Cardinality(D) <= Cardinality(Loaded(r)) /\ IsFiniteSet(D)
  <2> DEFINE name == [x \in D |-> x.id]
  <2>1. \A x \in D : x.id \in Loaded(r)
    BY <1>3, <1>6 DEF Ids
  <2> HIDE DEF D
  <2>2. name \in Injection(D, Loaded(r))
    BY <1>4, <2>1 DEF Injection, IsInjective, TrueCopies, OneCopy
  <2> HIDE DEF name
  <2> QED BY <1>8, <2>2, FS_Injection
<1> QED BY <1>2, <1>4, <1>5, <1>8, <1>9, FS_CardinalityType

LEMMA KeywordMerge ==
  ASSUME RecallInv, KeywordInv, NEW c \in Caller, Merge(c)
  PROVE  KeywordInv'
<1> DEFINE old == call[c]
           q == old.q
           pool(b) == IF q.text THEN Fused(old) ELSE Deduplicated(old, b)
<1>0. /\ old \in Call /\ LayersTrue(old) /\ TrueCopies(hot) /\ KeywordsFound(c, old)
      /\ old.pc = "merge" /\ q.text \in BOOLEAN /\ q.budget \in Nat /\ UNCHANGED row
  BY AtCall, QueryAssumption DEF KeywordInv, Merge, Call
<1>1. PICK b \in BOOLEAN : \E kept \in Trimmed(q, pool(b)) :
          LET clean == {x \in kept : Wanted(q, x.st)}
          IN  /\ call' = [call EXCEPT ![c] = [@ EXCEPT !.pc = "links", !.found = Ids(clean)]]
              /\ \/ /\ Scope[c] = {}
                    /\ LET own == {x \in clean : Owner[x.id] = Master} IN
                         /\ hot' = {x \in hot : x.id \notin Ids(own)} \cup own
                         /\ refilled' = refilled \cup (Ids(own) \cap leaving)
                 \/ UNCHANGED <<hot, refilled>>
  BY DEF Merge
<1>2. PICK kept \in Trimmed(q, pool(b)) :
          LET clean == {x \in kept : Wanted(q, x.st)}
          IN  /\ call' = [call EXCEPT ![c] = [@ EXCEPT !.pc = "links", !.found = Ids(clean)]]
              /\ \/ /\ Scope[c] = {}
                    /\ LET own == {x \in clean : Owner[x.id] = Master} IN
                         /\ hot' = {x \in hot : x.id \notin Ids(own)} \cup own
                         /\ refilled' = refilled \cup (Ids(own) \cap leaving)
                 \/ UNCHANGED <<hot, refilled>>
  BY <1>1
<1> DEFINE clean == {x \in kept : Wanted(q, x.st)}
           own == {x \in clean : Owner[x.id] = Master}
           r == [old EXCEPT !.pc = "links", !.found = Ids(clean)]
<1>3. kept \subseteq pool(b) /\ (Cardinality(pool(b)) <= q.budget => kept = pool(b))
  BY DEF Trimmed, Best
<1>4. TrueCopies(pool(b)) /\ pool(b) \subseteq Copy
  <2>1. Fused(old) \subseteq Copy /\ Deduplicated(old, b) \subseteq Copy
    BY <1>0 DEF Fused, Deduplicated, Call
  <2>2. TrueCopies(Fused(old)) /\ TrueCopies(Deduplicated(old, b))
    BY <1>0, KeywordMerged
  <2> QED BY <2>1, <2>2
<1>5. clean \subseteq kept /\ TrueCopies(clean) /\ clean \subseteq Copy
  BY <1>3, <1>4 DEF TrueCopies, OneCopy
<1>6. /\ call' = [call EXCEPT ![c] = [@ EXCEPT !.pc = "links", !.found = Ids(clean)]]
      /\ hot' = {x \in hot : x.id \notin Ids(own)} \cup own \/ hot' = hot
      /\ own \subseteq clean
  BY <1>2
<1>7. \A x \in kept : Wanted(q, x.st) => x \in clean
  OBVIOUS
<1> HIDE DEF clean, own, pool
<1>8. Ids(clean) \subseteq Frag
  BY <1>5 DEF Ids, Copy
<1>9. /\ r \in Call /\ r.pc = "links" /\ r.start = old.start /\ r.cached = old.cached
      /\ r.l2 = old.l2 /\ r.graph = old.graph /\ r.side = old.side /\ r.q = q /\ r.found = Ids(clean)
  BY <1>0, <1>8 DEF Call, RecallPC
<1>10. call' = [call EXCEPT ![c] = r]
  BY <1>6, AtCall DEF Call
<1> HIDE DEF r
<1>11. LayersTrue(r)
  BY <1>0, <1>9 DEF LayersTrue
<1>12. KeywordsFound(c, r)
  <2> SUFFICES ASSUME ~q.text, NEW f \in Frag, Sought(c, r, f), Cardinality(Loaded(r)) <= q.budget
               PROVE  Covers(q, Ids(clean), f)
    BY <1>9 DEF KeywordsFound
  <2>1. Loaded(r) = Loaded(old)
    BY <1>9 DEF Loaded, Layer
  <2>2. Passing(old) /\ Covers(q, Ids(old.l2), f)
    <3>1. Sought(c, old, f)
      BY <1>9 DEF Sought
    <3> QED BY <1>0, <3>1 DEF KeywordsFound
  <2>3. pool(b) = Deduplicated(old, b)
    BY DEF pool
  <2>4. Ids(old.l2) \subseteq Ids(pool(b)) /\ kept = pool(b)
    <3>1. /\ Ids(old.l2) \subseteq Ids(Deduplicated(old, b))
          /\ Cardinality(Deduplicated(old, b)) <= Cardinality(Loaded(old))
          /\ Cardinality(Deduplicated(old, b)) \in Nat /\ Cardinality(Loaded(old)) \in Nat
      BY <1>0, KeywordMerged
    <3> QED BY <1>0, <1>3, <2>1, <2>3, <3>1
  <2>5. kept \subseteq old.cached \cup old.l2
    BY <2>3, <2>4 DEF Deduplicated
  <2>6. ASSUME NEW x \in old.l2 PROVE x.id \in Ids(clean)
    <3>1. PICK y \in kept : y.id = x.id
      BY <2>4 DEF Ids
    <3>2. Wanted(q, y.st)
      BY <2>2, <2>5, <3>1 DEF Passing
    <3> QED BY <1>7, <3>1, <3>2 DEF Ids
  <2>7. Ids(old.l2) \subseteq Ids(clean) /\ Ids(old.l2) \subseteq Frag
    BY <1>0, <2>6 DEF Ids, Call, Copy
  <2> QED BY <1>8, <2>2, <2>7, CoversMore
<1>13. TrueCopies(hot)'
  <2>1. ASSUME hot' = {x \in hot : x.id \notin Ids(own)} \cup own PROVE TrueCopies(hot)'
    <3>1. TrueCopies(own)
      BY <1>5, <1>6 DEF TrueCopies, OneCopy
    <3>2. \A x \in own : x.id \in Ids(own)
      BY DEF Ids
    <3>3. \A x \in hot' : x \in own \/ (x \in hot /\ x.id \notin Ids(own))
      BY <2>1
    <3> QED BY <1>0, <3>1, <3>2, <3>3 DEF TrueCopies, OneCopy
  <2>2. ASSUME hot' = hot PROVE TrueCopies(hot)'
    BY <1>0, <2>2 DEF TrueCopies, OneCopy
  <2> QED BY <1>6, <2>1, <2>2
<1> QED BY <1>0, <1>9, <1>10, <1>11, <1>12, <1>13, KeywordCaller

LEMMA KeywordLinks ==
  ASSUME RecallInv, KeywordInv, NEW c \in Caller, AddLinked(c) \/ Answer(c)
  PROVE  KeywordInv'
<1>1. UNCHANGED <<row, hot>>
  BY DEF AddLinked, Answer
<1>2. TrueCopies(hot)'
  BY <1>1 DEF KeywordInv, TrueCopies, OneCopy
<1>3. ASSUME NEW r \in Call, r.pc \in {"idle", "done"}, r.cached = {}, r.l2 = {}, r.graph = {}, r.side = {},
             r.start = [f \in Frag |-> "none"], call' = [call EXCEPT ![c] = r]
      PROVE  KeywordInv'
  <2>1. LayersTrue(r) /\ KeywordsFound(c, r)
    BY <1>3 DEF LayersTrue, TrueCopies, OneCopy, KeywordsFound
  <2> QED BY <1>1, <1>2, <1>3, <2>1, KeywordCaller
<1>4. CASE AddLinked(c)
  <2>1. PICK linked \in {{f \in Linked(call[c].found) : f \in Rows(c)}, {}} :
          call' = [call EXCEPT ![c] = [Idle EXCEPT !.pc = "done", !.answer = call[c].found \cup linked]]
    BY <1>4 DEF AddLinked
  <2> DEFINE A == call[c].found \cup linked
             r == [Idle EXCEPT !.pc = "done", !.answer = A]
  <2>2. A \subseteq Frag
    BY AtCall DEF Call, Rows
  <2> HIDE DEF A
  <2>3. /\ r \in Call /\ r.pc = "done" /\ r.start = [f \in Frag |-> "none"]
        /\ r.cached = {} /\ r.l2 = {} /\ r.graph = {} /\ r.side = {}
    BY <2>2, IdleCall DEF Call, RecallPC
  <2>4. call' = [call EXCEPT ![c] = r]
    BY <2>1 DEF A
  <2> HIDE DEF r
  <2> QED BY <1>3, <2>3, <2>4
<1>5. CASE Answer(c)
  <2>1. call' = [call EXCEPT ![c] = Idle] /\ Idle.pc = "idle"
    BY <1>5 DEF Answer, Idle
  <2> QED BY <1>3, <2>1, IdleCall
<1> QED BY <1>4, <1>5

LEMMA KeywordNextInv == RecallInv /\ KeywordInv /\ [RecallNext]_rcVars => KeywordInv'
<1> SUFFICES ASSUME RecallInv, KeywordInv, [RecallNext]_rcVars PROVE KeywordInv'
  OBVIOUS
<1>1. ASSUME NEW c \in Caller, RecallStep(c) PROVE KeywordInv'
  BY <1>1, KeywordStarts, KeywordSearches, KeywordL2, KeywordFetch, KeywordSide, KeywordGraph,
     KeywordMerge, KeywordLinks DEF RecallStep
<1>2. ASSUME NEW f \in Frag, WriteStep(f) PROVE KeywordInv'
  <2>1. row \in [Frag -> Status]
    BY DEF RecallInv, RecallTypeOK
  <2>2. UNCHANGED call /\ hot' \subseteq hot
    BY <1>2 DEF WriteStep, Remember, IndexFragment, Expire, Collect, Deindex, Deindexed, Delete
  <2>3. \A g \in Frag : /\ row[g] # "none" /\ row'[g] = "live" => row[g] = "live"
                        /\ row[g] # "none" => row'[g] # "none"
                        /\ row[g] \in {"expired", "gone"} => row'[g] \in {"expired", "gone"}
    BY <1>2, <2>1 DEF WriteStep, Remember, IndexFragment, Expire, Collect, Deindex, Delete
  <2> QED BY <2>2, <2>3, KeywordWriter
<1>3. ASSUME NEW x \in hot, CacheExpires(x) PROVE KeywordInv'
  BY <1>3, KeywordWriter DEF CacheExpires
<1>4. CASE UNCHANGED rcVars
  BY <1>4, KeywordWriter DEF rcVars
<1> QED BY <1>1, <1>2, <1>3, <1>4 DEF RecallNext

(***************************************************************************)
(* A keyword recall finds every own live fragment that matches, or as many *)
(* that match as the SQL search returns at most, in whatever state Redis   *)
(* is and whatever happens meanwhile, as long as the budget holds what was *)
(* loaded; for any fragments, importances, limits, callers and queries.    *)
(***************************************************************************)
THEOREM KeywordComplete == RecallSpec => []KeywordRecallComplete
<1>1. KeywordInv => KeywordRecallComplete
  BY DEF KeywordInv, KeywordsFound, Sought, Covers, KeywordRecallComplete
<1> QED BY <1>1, RecallInitInv, RecallNextInv, KeywordInitInv, KeywordNextInv, PTL DEF RecallSpec

----------------------------------------------------------------------------
(***************************************************************************)
(* The models fold lists with recursive functions. What such a function    *)
(* is follows by induction up to the length of the list; the induction is  *)
(* over a set, not over a predicate.                                       *)
(***************************************************************************)
\* a nonempty set of naturals has a least member
LEMMA LeastNatural == ASSUME NEW K \in SUBSET Nat, K # {} PROVE \E m \in K : \A k \in K : m <= k
<1>1. PICK m \in K : \A k \in K : <<k, m>> \notin OpToRel(<, Nat)
  BY NatLessThanWellFounded, WFMin, Zenon
<1>2. \A k \in K : ~(k < m)
  BY <1>1 DEF OpToRel
<1> QED BY <1>2

(***************************************************************************)
(* Induction up to a bound: a set with 0 and the successor of each of its  *)
(* members has everything up to it.                                        *)
(***************************************************************************)
LEMMA UpTo ==
  ASSUME NEW N \in Nat, NEW T, 0 \in T, \A n \in 1..N : n - 1 \in T => n \in T
  PROVE  0..N \subseteq T
<1> DEFINE K == {n \in 0..N : n \notin T}
<1> SUFFICES ASSUME K # {} PROVE FALSE
  OBVIOUS
<1>1. K \in SUBSET Nat
  OBVIOUS
<1>2. PICK m \in K : \A k \in K : m <= k
  <2> HIDE DEF K
  <2> QED BY <1>1, LeastNatural
<1>3. m \in 1..N /\ m - 1 \in 0..N
  OBVIOUS
<1>4. m - 1 \in K
  BY <1>3
<1> QED BY <1>2, <1>3, <1>4

(***************************************************************************)
(* A recursion over the numbers up to a bound defines a function: there is *)
(* one up to every number, and each extends the one before.                *)
(***************************************************************************)
Recurs(f, step, base, m) == f[0] = base /\ \A n \in 1..m : f[n] = step[n][f[n - 1]]

LEMMA RecursionDefines ==
  ASSUME NEW N \in Nat, NEW S, NEW base \in S, NEW step \in [1..N -> [S -> S]]
  PROVE  \E f \in [0..N -> S] : Recurs(f, step, base, N)
<1> DEFINE T == {m \in 0..N : \E f \in [0..m -> S] : Recurs(f, step, base, m)}
<1>1. 0 \in T
  <2> DEFINE f == [n \in 0..0 |-> base]
  <2>1. f \in [0..0 -> S] /\ f[0] = base
    OBVIOUS
  <2>2. Recurs(f, step, base, 0)
    BY <2>1 DEF Recurs
  <2> HIDE DEF f
  <2> QED BY <2>1, <2>2
<1>2. ASSUME NEW m \in 1..N, m - 1 \in T PROVE m \in T
  <2>1. PICK f \in [0..(m - 1) -> S] : Recurs(f, step, base, m - 1)
    BY <1>2
  <2> DEFINE g == [n \in 0..m |-> IF n = m THEN step[m][f[m - 1]] ELSE f[n]]
  <2>2. f[m - 1] \in S /\ step[m] \in [S -> S] /\ step[m][f[m - 1]] \in S
    BY m - 1 \in 0..(m - 1)
  <2>3. g \in [0..m -> S]
    <3>1. \A n \in 0..m : n # m => n \in 0..(m - 1)
      OBVIOUS
    <3> QED BY <2>2, <3>1
  <2>4. g[m] = step[m][f[m - 1]] /\ \A n \in 0..(m - 1) : g[n] = f[n]
    OBVIOUS
  <2> HIDE DEF g
  <2>5. g[0] = base /\ \A n \in 1..(m - 1) : g[n] = step[n][g[n - 1]]
    <3>1. 0 \in 0..(m - 1) /\ \A n \in 1..(m - 1) : n \in 0..(m - 1) /\ n - 1 \in 0..(m - 1)
      OBVIOUS
    <3> QED BY <2>1, <2>4, <3>1 DEF Recurs
  <2>6. g[m] = step[m][g[m - 1]]
    BY <2>4, m - 1 \in 0..(m - 1)
  <2>7. \A n \in 1..m : n = m \/ n \in 1..(m - 1)
    OBVIOUS
  <2>8. Recurs(g, step, base, m)
    BY <2>5, <2>6, <2>7 DEF Recurs
  <2> QED BY <2>3, <2>8
<1>3. 0..N \subseteq T
  <2> HIDE DEF T
  <2> QED BY <1>1, <1>2, UpTo
<1> QED BY <1>3, N \in 0..N

----------------------------------------------------------------------------
(***************************************************************************)
(* The working memory.                                                     *)
(***************************************************************************)
IsSum(sum, s) == /\ sum \in [0..Len(s) -> Nat] /\ sum[0] = 0
                 /\ \A n \in 1..Len(s) : sum[n] = sum[n - 1] + Tokens[s[n]]

\* the tokens of a list are added up from its front
LEMMA Sums ==
  ASSUME NEW s \in Seq(Item)
  PROVE  \E sum : IsSum(sum, s) /\ Total(s) = sum[Len(s)]
<1> DEFINE Adds(f) == f = [n \in 0..Len(s) |-> IF n = 0 THEN 0 ELSE f[n - 1] + Tokens[s[n]]]
           step == [n \in 1..Len(s) |-> [t \in Nat |-> t + Tokens[s[n]]]]
           sum == CHOOSE f : Adds(f)
<1>1. Len(s) \in Nat /\ \A n \in 1..Len(s) : s[n] \in Item /\ Tokens[s[n]] \in Nat
  BY BudgetAssumption
<1>2. step \in [1..Len(s) -> [Nat -> Nat]]
  BY <1>1
<1>3. PICK f \in [0..Len(s) -> Nat] : Recurs(f, step, 0, Len(s))
  <2> HIDE DEF step
  <2> QED BY <1>1, <1>2, RecursionDefines
<1>4. Adds(f)
  <2>1. \A n \in 1..Len(s) : n - 1 \in 0..Len(s) /\ f[n - 1] \in Nat
    BY <1>1
  <2>2. \A n \in 1..Len(s) : f[n] = f[n - 1] + Tokens[s[n]]
    BY <1>1, <1>3, <2>1 DEF Recurs
  <2>3. \A n \in 0..Len(s) : f[n] = IF n = 0 THEN 0 ELSE f[n - 1] + Tokens[s[n]]
    BY <1>1, <1>3, <2>2 DEF Recurs
  <2> QED BY <2>3
<1>5. Adds(sum)
  <2> HIDE DEF Adds
  <2> QED BY <1>4
<1> HIDE DEF sum
<1>6. sum[0] = 0 /\ \A n \in 1..Len(s) : sum[n] = sum[n - 1] + Tokens[s[n]]
  BY <1>1, <1>5
<1>7. sum \in [0..Len(s) -> Nat]
  <2> DEFINE T == {n \in 0..Len(s) : sum[n] \in Nat}
  <2>1. 0 \in T
    BY <1>1, <1>6
  <2>2. ASSUME NEW n \in 1..Len(s), n - 1 \in T PROVE n \in T
    <3>1. sum[n - 1] \in Nat /\ n \in 0..Len(s)
      BY <2>2
    <3> QED BY <1>1, <1>6, <3>1
  <2>3. 0..Len(s) \subseteq T
    <3> HIDE DEF T
    <3> QED BY <1>1, <2>1, <2>2, UpTo
  <2> QED BY <1>5, <2>3
<1>8. Total(s) = sum[Len(s)]
  BY Zenon DEF Total, sum
<1> QED BY <1>6, <1>7, <1>8 DEF IsSum

LEMMA TotalOfNone == Total(<<>>) = 0
<1>1. PICK sum : IsSum(sum, <<>>) /\ Total(<<>>) = sum[Len(<<>>)]
  <2>1. <<>> \in Seq(Item)
    OBVIOUS
  <2> QED BY <2>1, Sums
<1> QED BY <1>1 DEF IsSum

LEMMA TotalNat == ASSUME NEW s \in Seq(Item) PROVE Total(s) \in Nat
<1>1. PICK sum : IsSum(sum, s) /\ Total(s) = sum[Len(s)]
  BY Sums
<1> QED BY <1>1, Len(s) \in 0..Len(s) DEF IsSum

LEMMA TotalAppend ==
  ASSUME NEW s \in Seq(Item), NEW i \in Item
  PROVE  Total(s) \in Nat /\ Total(Append(s, i)) = Total(s) + Tokens[i]
<1>1. PICK f : IsSum(f, s) /\ Total(s) = f[Len(s)]
  BY Sums
<1>2. PICK g : IsSum(g, Append(s, i)) /\ Total(Append(s, i)) = g[Len(Append(s, i))]
  <2>1. Append(s, i) \in Seq(Item)
    OBVIOUS
  <2> QED BY <2>1, Sums
<1> DEFINE T == {n \in 0..Len(s) : f[n] = g[n]}
<1>3. 0..Len(s) \subseteq T
  <2>1. 0 \in T
    BY <1>1, <1>2 DEF IsSum
  <2>2. ASSUME NEW n \in 1..Len(s), n - 1 \in T PROVE n \in T
    <3>1. Append(s, i)[n] = s[n] /\ n \in 1..Len(Append(s, i))
      OBVIOUS
    <3> QED BY <1>1, <1>2, <2>2, <3>1 DEF IsSum
  <2> HIDE DEF T
  <2> QED BY <2>1, <2>2, UpTo, Len(s) \in Nat
<1>4. Len(s) \in 0..Len(s) /\ f[Len(s)] = g[Len(s)]
  BY <1>3
<1>5. g[Len(s) + 1] = g[Len(s)] + Tokens[Append(s, i)[Len(s) + 1]]
  BY <1>2, Len(s) + 1 \in 1..Len(Append(s, i)), Len(s) + 1 - 1 = Len(s) DEF IsSum
<1> QED BY <1>1, <1>2, <1>4, <1>5 DEF IsSum
Within(s) == Total(s) <= Budget \/ \A n \in 1..Len(s) : s[n] \in Heavy

Trimming == [kept : Seq(Item), tokens : Int]
IsTrim(trim, s) == /\ trim \in [0..Len(s) -> Trimming]
                   /\ trim[0] = [kept |-> <<>>, tokens |-> Total(s)]
                   /\ \A n \in 1..Len(s) : trim[n] = Look(trim[n - 1], s[n])

LEMMA LookType == ASSUME NEW t \in Trimming, NEW i \in Item PROVE Look(t, i) \in Trimming
<1>1. Tokens[i] \in Nat /\ t.tokens \in Int /\ t.kept \in Seq(Item)
  BY BudgetAssumption DEF Trimming
<1>2. [t EXCEPT !.tokens = @ - Tokens[i]] \in Trimming
  BY <1>1 DEF Trimming
<1>3. Append(t.kept, i) \in Seq(Item)
  BY <1>1
<1>4. [t EXCEPT !.kept = Append(@, i)] \in Trimming
  BY <1>3 DEF Trimming
<1> QED BY <1>2, <1>4 DEF Look

\* what is left of a list is what the loop has kept in the end
LEMMA Trims ==
  ASSUME NEW s \in Seq(Item)
  PROVE  \E trim : IsTrim(trim, s) /\ Remaining(s) = trim[Len(s)].kept
<1> DEFINE base == [kept |-> <<>>, tokens |-> Total(s)]
           Loops(f) == f = [n \in 0..Len(s) |-> IF n = 0 THEN [kept |-> <<>>, tokens |-> Total(s)]
                                                ELSE Look(f[n - 1], s[n])]
           step == [n \in 1..Len(s) |-> [t \in Trimming |-> Look(t, s[n])]]
           trim == CHOOSE f : Loops(f)
<1>1. Len(s) \in Nat /\ \A n \in 1..Len(s) : s[n] \in Item
  OBVIOUS
<1>2. base \in Trimming
  <2>1. Total(s) \in Nat
    BY TotalNat
  <2> QED BY <2>1 DEF Trimming
<1>3. step \in [1..Len(s) -> [Trimming -> Trimming]]
  BY <1>1, LookType
<1>4. PICK f \in [0..Len(s) -> Trimming] : Recurs(f, step, base, Len(s))
  <2> HIDE DEF step, base
  <2> QED BY <1>1, <1>2, <1>3, RecursionDefines
<1>5. Loops(f)
  <2>1. \A n \in 1..Len(s) : n - 1 \in 0..Len(s) /\ f[n - 1] \in Trimming
    BY <1>1
  <2>2. \A n \in 1..Len(s) : f[n] = Look(f[n - 1], s[n])
    BY <1>1, <1>4, <2>1 DEF Recurs
  <2>3. \A n \in 0..Len(s) : f[n] = IF n = 0 THEN base ELSE Look(f[n - 1], s[n])
    BY <1>1, <1>4, <2>2 DEF Recurs
  <2> QED BY <2>3
<1>6. Loops(trim)
  <2> HIDE DEF Loops
  <2> QED BY <1>5
<1> HIDE DEF trim
<1>7. trim[0] = base /\ \A n \in 1..Len(s) : trim[n] = Look(trim[n - 1], s[n])
  BY <1>1, <1>6
<1>8. trim \in [0..Len(s) -> Trimming]
  <2> DEFINE T == {n \in 0..Len(s) : trim[n] \in Trimming}
  <2>1. 0 \in T
    BY <1>1, <1>2, <1>7
  <2>2. ASSUME NEW n \in 1..Len(s), n - 1 \in T PROVE n \in T
    <3>1. trim[n - 1] \in Trimming /\ n \in 0..Len(s)
      BY <2>2
    <3> QED BY <1>1, <1>7, <3>1, LookType
  <2>3. 0..Len(s) \subseteq T
    <3> HIDE DEF T
    <3> QED BY <1>1, <2>1, <2>2, UpTo
  <2> QED BY <1>6, <2>3
<1>9. Remaining(s) = trim[Len(s)].kept
  BY Zenon DEF Remaining, trim
<1> QED BY <1>7, <1>8, <1>9 DEF IsTrim

(***************************************************************************)
(* What the loop leaves is within the budget or protected, nothing that is *)
(* protected gets lost, and nothing is there that was not before.          *)
(***************************************************************************)
LEMMA RemainingFits ==
  ASSUME NEW s \in Seq(Item)
  PROVE  /\ Remaining(s) \in Seq(Item) /\ Within(Remaining(s))
         /\ \A n \in 1..Len(s) : s[n] \in Heavy =>
              \E k \in 1..Len(Remaining(s)) : Remaining(s)[k] = s[n]
<1>1. PICK trim : IsTrim(trim, s) /\ Remaining(s) = trim[Len(s)].kept
  BY Trims
<1>2. PICK sum : IsSum(sum, s) /\ Total(s) = sum[Len(s)]
  BY Sums
<1> DEFINE Fits(n) ==
             LET t == trim[n] IN
             /\ t.tokens = Total(t.kept) + Total(s) - sum[n]
             /\ t.tokens > Budget => \A k \in 1..Len(t.kept) : t.kept[k] \in Heavy
             /\ \A m \in 1..n : s[m] \in Heavy => \E k \in 1..Len(t.kept) : t.kept[k] = s[m]
           T == {n \in 0..Len(s) : Fits(n)}
<1>3. Len(s) \in Nat /\ \A n \in 1..Len(s) : s[n] \in Item /\ Tokens[s[n]] \in Nat
  BY BudgetAssumption
<1>4. \A n \in 0..Len(s) : /\ trim[n].kept \in Seq(Item) /\ trim[n].tokens \in Int
                           /\ sum[n] \in Nat
  BY <1>1, <1>2 DEF IsTrim, IsSum, Trimming
<1>5. Total(s) \in Nat /\ Budget \in Nat
  BY <1>2, <1>3, <1>4, BudgetAssumption
<1>6. 0 \in T
  <2>1. trim[0].kept = <<>> /\ trim[0].tokens = Total(s) /\ sum[0] = 0
    BY <1>1, <1>2 DEF IsTrim, IsSum
  <2>2. Fits(0)
    BY <1>5, <2>1, TotalOfNone
  <2> QED BY <1>3, <2>2
<1>7. ASSUME NEW n \in 1..Len(s), n - 1 \in T PROVE n \in T
  <2> DEFINE t == trim[n - 1]
             i == s[n]
  <2>1. /\ n - 1 \in 0..Len(s) /\ n \in 0..Len(s) /\ Fits(n - 1)
        /\ t.kept \in Seq(Item) /\ t.tokens \in Int /\ i \in Item /\ Tokens[i] \in Nat
        /\ sum[n - 1] \in Nat
    BY <1>3, <1>4, <1>7
  <2>2. trim[n] = Look(t, i) /\ sum[n] = sum[n - 1] + Tokens[i] /\ t \in Trimming
    BY <1>1, <1>2, <2>1 DEF IsTrim, IsSum
  <2>3. Total(t.kept) \in Nat /\ Total(Append(t.kept, i)) = Total(t.kept) + Tokens[i]
    BY <2>1, TotalAppend
  <2>4. \A m \in 1..n : m = n \/ m \in 1..(n - 1)
    OBVIOUS
  <2>5. CASE MayEvict(i, t.tokens)
    <3>1. trim[n].kept = t.kept /\ trim[n].tokens = t.tokens - Tokens[i]
      BY <2>2, <2>5 DEF Look, Trimming
    <3>2. i \notin Heavy /\ t.tokens > Budget
      BY <2>5 DEF MayEvict
    <3>3. trim[n].tokens = Total(trim[n].kept) + Total(s) - sum[n]
      BY <1>5, <2>1, <2>2, <2>3, <3>1
    <3>4. trim[n].tokens > Budget => \A k \in 1..Len(trim[n].kept) : trim[n].kept[k] \in Heavy
      BY <2>1, <3>1, <3>2
    <3>5. \A m \in 1..n : s[m] \in Heavy => \E k \in 1..Len(trim[n].kept) : trim[n].kept[k] = s[m]
      BY <2>1, <2>4, <3>1, <3>2
    <3> QED BY <2>1, <3>3, <3>4, <3>5
  <2>6. CASE ~MayEvict(i, t.tokens)
    <3>1. trim[n].kept = Append(t.kept, i) /\ trim[n].tokens = t.tokens
      BY <2>2, <2>6 DEF Look, Trimming
    <3>2. i \in Heavy \/ ~(t.tokens > Budget)
      BY <2>6 DEF MayEvict
    <3>3. trim[n].tokens = Total(trim[n].kept) + Total(s) - sum[n]
      <4>1. Total(trim[n].kept) = Total(t.kept) + Tokens[i]
        BY <2>3, <3>1
      <4>2. t.tokens = Total(t.kept) + Total(s) - sum[n - 1]
        BY <2>1
      <4>3. Total(t.kept) \in Nat /\ Total(s) \in Nat /\ sum[n - 1] \in Nat /\ Tokens[i] \in Nat
        BY <1>5, <2>1, <2>3
      <4>4. sum[n] = sum[n - 1] + Tokens[i] /\ trim[n].tokens = t.tokens
        BY <2>2, <3>1
      <4> HIDE DEF t, i
      <4> QED BY <4>1, <4>2, <4>3, <4>4
    <3>4. /\ Len(trim[n].kept) = Len(t.kept) + 1 /\ trim[n].kept[Len(t.kept) + 1] = i
          /\ \A k \in 1..Len(t.kept) : trim[n].kept[k] = t.kept[k]
          /\ \A k \in 1..Len(trim[n].kept) : k = Len(t.kept) + 1 \/ k \in 1..Len(t.kept)
          /\ Len(t.kept) + 1 \in 1..Len(trim[n].kept) /\ 1..Len(t.kept) \subseteq 1..Len(trim[n].kept)
      <4> DEFINE kept == t.kept
      <4>1. kept \in Seq(Item) /\ i \in Item
        BY <2>1
      <4> HIDE DEF kept, i
      <4>2. /\ Len(Append(kept, i)) = Len(kept) + 1 /\ Append(kept, i)[Len(kept) + 1] = i
            /\ Len(kept) \in Nat /\ \A k \in 1..Len(kept) : Append(kept, i)[k] = kept[k]
        BY <4>1
      <4>3. /\ \A k \in 1..(Len(kept) + 1) : k = Len(kept) + 1 \/ k \in 1..Len(kept)
            /\ Len(kept) + 1 \in 1..(Len(kept) + 1) /\ 1..Len(kept) \subseteq 1..(Len(kept) + 1)
        BY <4>2
      <4>4. trim[n].kept = Append(kept, i)
        BY <3>1 DEF kept, i
      <4> QED BY <4>2, <4>3, <4>4 DEF kept, i
    <3>5. trim[n].tokens > Budget => \A k \in 1..Len(trim[n].kept) : trim[n].kept[k] \in Heavy
      <4> SUFFICES ASSUME trim[n].tokens > Budget, NEW k \in 1..Len(trim[n].kept)
                   PROVE  trim[n].kept[k] \in Heavy
        OBVIOUS
      <4>1. i \in Heavy /\ t.tokens > Budget
        BY <3>1, <3>2
      <4>2. \A m \in 1..Len(t.kept) : t.kept[m] \in Heavy
        BY <2>1, <4>1
      <4> QED BY <3>4, <4>1, <4>2
    <3>6. \A m \in 1..n : s[m] \in Heavy => \E k \in 1..Len(trim[n].kept) : trim[n].kept[k] = s[m]
      BY <2>1, <2>4, <3>4
    <3> QED BY <2>1, <3>3, <3>5, <3>6
  <2> QED BY <2>5, <2>6
<1>8. Fits(Len(s)) /\ Len(s) \in 0..Len(s)
  <2>1. 0..Len(s) \subseteq T
    <3> HIDE DEF T
    <3> QED BY <1>3, <1>6, <1>7, UpTo
  <2> QED BY <1>3, <2>1
<1>9. Total(Remaining(s)) <= Budget \/ \A k \in 1..Len(Remaining(s)) : Remaining(s)[k] \in Heavy
  <2>1. trim[Len(s)].tokens = Total(Remaining(s)) + Total(s) - Total(s)
    BY <1>1, <1>2, <1>8
  <2>2. trim[Len(s)].tokens \in Int /\ Remaining(s) \in Seq(Item)
    BY <1>1, <1>4, <1>8
  <2>3. Total(Remaining(s)) \in Nat
    BY <2>2, TotalNat
  <2> QED BY <1>1, <1>5, <1>8, <2>1, <2>2, <2>3
<1> QED BY <1>1, <1>4, <1>8, <1>9 DEF Within
(***************************************************************************)
(* The inductive invariant: a protected entry that was pushed is listed,   *)
(* and in every list that is about to be written back, unless it came late *)
(* or was cleared; and the list is within its budget, unless a call is     *)
(* still to look at it or has failed to.                                   *)
(***************************************************************************)
In(i, s) == \E k \in 1..Len(s) : s[k] = i
HeavyKept ==
  \A i \in Heavy : add[i].at # "none" =>
    i \in late \/ (In(i, wm) /\ \A j \in Item : add[j].at = "trim" => In(i, add[j].saw))
OverLooked == slack \/ (\E i \in Item : add[i].at \in {"pushed", "trim"}) \/ Within(wm)
WmInv == WmTypeOK /\ HeavyKept /\ OverLooked

LEMMA WmInitInv == WmInit => WmInv
<1> SUFFICES ASSUME WmInit PROVE WmInv
  OBVIOUS
<1>1. WmTypeOK
  <2>1. <<>> \in Seq(Item)
    OBVIOUS
  <2> QED BY <2>1 DEF WmInit, WmTypeOK
<1>2. HeavyKept
  BY BudgetAssumption DEF WmInit, HeavyKept
<1>3. OverLooked
  <2>1. wm = <<>> /\ Len(wm) = 0
    BY DEF WmInit
  <2> QED BY <2>1 DEF OverLooked, Within
<1> QED BY <1>1, <1>2, <1>3 DEF WmInv

LEMMA WmNextInv == WmInv /\ [WmNext]_wmVars => WmInv'
<1> SUFFICES ASSUME WmInv, [WmNext]_wmVars PROVE WmInv'
  OBVIOUS
<1>t. /\ wm \in Seq(Item) /\ slack \in BOOLEAN /\ late \subseteq Item
      /\ add \in [Item -> [at : {"none", "pushed", "trim", "done"}, saw : Seq(Item)]]
      /\ Heavy \subseteq Item
  BY BudgetAssumption DEF WmInv, WmTypeOK
<1>h. HeavyKept /\ OverLooked
  BY DEF WmInv
<1>1. ASSUME NEW i \in Item, Push(i) PROVE WmInv'
  <2>1. WmTypeOK'
    <3>1. wm' \in Seq(Item)
      BY <1>1, <1>t DEF Push
    <3>2. add' \in [Item -> [at : {"none", "pushed", "trim", "done"}, saw : Seq(Item)]]
      <4>1. [add[i] EXCEPT !.at = "pushed"] \in [at : {"none", "pushed", "trim", "done"}, saw : Seq(Item)]
        BY <1>t
      <4>2. add' = [add EXCEPT ![i] = [add[i] EXCEPT !.at = "pushed"]]
        BY <1>1, <1>t DEF Push
      <4> QED BY <1>t, <4>1, <4>2
    <3>3. slack' \in BOOLEAN
      BY <1>1, <1>t DEF Push
    <3>4. late' \subseteq Item
      BY <1>1, <1>t DEF Push
    <3> QED BY <3>1, <3>2, <3>3, <3>4 DEF WmTypeOK
  <2>2. HeavyKept'
    <3> SUFFICES ASSUME NEW h \in Heavy, add'[h].at # "none", h \notin late'
                 PROVE  /\ In(h, wm)'
                        /\ \A j \in Item : add'[j].at = "trim" => In(h, add'[j].saw)
      BY DEF HeavyKept
    <3>1. h \notin late /\ h \in Item
      BY <1>1, <1>t DEF Push
    <3>2. \A j \in Item : add'[j].at = "trim" => add[j].at = "trim" /\ add'[j].saw = add[j].saw
      BY <1>1, <1>t DEF Push
    <3>3. wm' = Append(wm, i)
      BY <1>1 DEF Push
    <3>4. CASE h = i
      <4>1. \A j \in Item : add[j].at # "trim"
        BY <1>1, <3>4 DEF Push
      <4>2. In(h, wm)'
        BY <1>t, <3>3, <3>4, Len(wm) + 1 \in 1..Len(wm') DEF In
      <4> QED BY <3>2, <4>1, <4>2
    <3>5. CASE h # i
      <4>1. add[h].at # "none"
        BY <1>1, <1>t, <3>1, <3>5 DEF Push
      <4>2. In(h, wm) /\ \A j \in Item : add[j].at = "trim" => In(h, add[j].saw)
        BY <1>h, <3>1, <4>1 DEF HeavyKept
      <4>3. In(h, wm)'
        BY <1>t, <3>3, <4>2 DEF In
      <4> QED BY <3>2, <4>2, <4>3
    <3> QED BY <3>4, <3>5
  <2>3. OverLooked'
    BY <1>1, <1>t DEF Push, OverLooked
  <2> QED BY <2>1, <2>2, <2>3 DEF WmInv
<1>2. ASSUME NEW i \in Item, ReadList(i) PROVE WmInv'
  <2>1. WmTypeOK'
    BY <1>2, <1>t DEF ReadList, WmTypeOK
  <2>2. HeavyKept'
    <3> SUFFICES ASSUME NEW h \in Heavy, add'[h].at # "none", h \notin late
                 PROVE  /\ In(h, wm)
                        /\ \A j \in Item : add'[j].at = "trim" => In(h, add'[j].saw)
      BY <1>2 DEF HeavyKept, ReadList, In
    <3>1. h \in Item /\ add[h].at # "none"
      BY <1>2, <1>t DEF ReadList
    <3>2. In(h, wm) /\ \A j \in Item : add[j].at = "trim" => In(h, add[j].saw)
      BY <1>h, <3>1 DEF HeavyKept
    <3>3. \A j \in Item : add'[j].at = "trim" =>
            add'[j].saw = wm \/ (add[j].at = "trim" /\ add'[j].saw = add[j].saw)
      BY <1>2, <1>t DEF ReadList
    <3> QED BY <3>2, <3>3
  <2>3. OverLooked'
    <3>1. CASE NeedsTrim(wm)
      BY <1>2, <1>t, <3>1 DEF ReadList, OverLooked
    <3>2. CASE ~NeedsTrim(wm)
      <4>1. Within(wm)
        <5>1. CASE Remaining(wm) = wm
          BY <1>t, <5>1, RemainingFits
        <5>2. CASE ~(Total(wm) > Budget)
          <6>1. Total(wm) \in Nat /\ Budget \in Nat
            BY <1>t, TotalNat, BudgetAssumption
          <6> QED BY <5>2, <6>1 DEF Within
        <5> QED BY <3>2, <5>1, <5>2 DEF NeedsTrim
      <4> QED BY <1>2, <4>1 DEF ReadList, OverLooked, Within
    <3> QED BY <3>1, <3>2
  <2> QED BY <2>1, <2>2, <2>3 DEF WmInv
<1>3. ASSUME NEW i \in Item, RewriteList(i) PROVE WmInv'
  <2> DEFINE saw == add[i].saw
  <2>0. /\ saw \in Seq(Item) /\ wm' = Remaining(saw) /\ Remaining(saw) \in Seq(Item)
        /\ Within(Remaining(saw))
        /\ \A n \in 1..Len(saw) : saw[n] \in Heavy => In(saw[n], Remaining(saw))
    BY <1>3, <1>t, RemainingFits DEF RewriteList, In
  <2>1. WmTypeOK'
    BY <1>3, <1>t, <2>0 DEF RewriteList, WmTypeOK
  <2>2. HeavyKept'
    <3> SUFFICES ASSUME NEW h \in Heavy, add'[h].at # "none", h \notin late
                 PROVE  /\ In(h, Remaining(saw))
                        /\ \A j \in Item : add'[j].at = "trim" => In(h, add'[j].saw)
      BY <1>3, <2>0 DEF HeavyKept, RewriteList, In
    <3>1. h \in Item /\ add[h].at # "none"
      BY <1>3, <1>t DEF RewriteList
    <3>2. \A j \in Item : add[j].at = "trim" => In(h, add[j].saw)
      BY <1>h, <3>1 DEF HeavyKept
    <3>3. In(h, saw)
      BY <1>3, <3>2 DEF RewriteList
    <3>4. In(h, Remaining(saw))
      BY <2>0, <3>3 DEF In
    <3>5. \A j \in Item : add'[j].at = "trim" => add[j].at = "trim" /\ add'[j].saw = add[j].saw
      BY <1>3, <1>t DEF RewriteList
    <3> QED BY <3>2, <3>4, <3>5
  <2>3. OverLooked'
    BY <2>0 DEF OverLooked, Within
  <2> QED BY <2>1, <2>2, <2>3 DEF WmInv
<1>4. ASSUME NEW i \in Item, AddFails(i) PROVE WmInv'
  <2>1. WmTypeOK'
    BY <1>4, <1>t DEF AddFails, WmTypeOK
  <2>2. HeavyKept'
    <3>1. \A j \in Item : /\ add'[j].at = "trim" => add[j].at = "trim" /\ add'[j].saw = add[j].saw
                          /\ add'[j].at # "none" => add[j].at # "none"
      BY <1>4, <1>t DEF AddFails
    <3>2. wm' = wm /\ late' = late
      BY <1>4 DEF AddFails
    <3> SUFFICES ASSUME NEW h \in Heavy, add'[h].at # "none", h \notin late
                 PROVE  /\ In(h, wm)
                        /\ \A j \in Item : add'[j].at = "trim" => In(h, add'[j].saw)
      BY <3>2 DEF HeavyKept, In
    <3>3. In(h, wm) /\ \A j \in Item : add[j].at = "trim" => In(h, add[j].saw)
      BY <1>h, <1>t, <3>1 DEF HeavyKept
    <3> QED BY <3>1, <3>3
  <2>3. OverLooked'
    BY <1>4 DEF AddFails, OverLooked
  <2> QED BY <2>1, <2>2, <2>3 DEF WmInv
<1>5. ASSUME ClearList PROVE WmInv'
  <2>1. WmTypeOK'
    BY <1>5, <1>t DEF ClearList, WmTypeOK, Listed
  <2>2. HeavyKept'
    <3>1. \A h \in Heavy : add[h].at # "none" => h \in late'
      BY <1>5, <1>h DEF ClearList, HeavyKept, In, Listed
    <3> QED BY <1>5, <3>1 DEF ClearList, HeavyKept
  <2>3. OverLooked'
    <3>1. wm' = <<>>
      BY <1>5 DEF ClearList
    <3>2. \A n \in 1..Len(wm') : wm'[n] \in Heavy
      BY <3>1
    <3> QED BY <3>2 DEF OverLooked, Within
  <2> QED BY <2>1, <2>2, <2>3 DEF WmInv
<1>6. ASSUME UNCHANGED wmVars PROVE WmInv'
  BY <1>6, <1>h, <1>t DEF wmVars, WmInv, WmTypeOK, HeavyKept, OverLooked, In, Within
<1> QED BY <1>1, <1>2, <1>3, <1>4, <1>5, <1>6 DEF WmNext

LEMMA WmBudget == WmInv => BudgetEnforced
<1> SUFFICES ASSUME WmInv PROVE BudgetEnforced
  OBVIOUS
<1>1. ASSUME \A i \in Item : add[i].at \in {"none", "done"}, ~slack
      PROVE  Total(wm) <= Budget \/ Listed \subseteq Heavy
  BY <1>1 DEF WmInv, OverLooked, Within, Listed
<1>2. ASSUME NEW i \in Heavy, add[i].at # "none" PROVE i \in Listed \cup late
  BY <1>2 DEF WmInv, HeavyKept, In, Listed
<1> QED BY <1>1, <1>2 DEF BudgetEnforced

LEMMA WmInvariance == WmSpec => []WmInv
<1> QED BY WmInitInv, WmNextInv, PTL DEF WmSpec

(***************************************************************************)
(* Whatever calls overwrite each other's lists, with none under way the    *)
(* list is within its budget or has protected entries only, and no         *)
(* protected entry was evicted for the budget.                             *)
(***************************************************************************)
THEOREM BudgetKept == WmSpec => []BudgetEnforced
<1> QED BY WmInvariance, WmBudget, PTL

\* The list and the calls that add to it are well typed.
THEOREM WmTypeCorrect == WmSpec => []WmTypeOK
<1>1. WmInv => WmTypeOK
  BY DEF WmInv
<1> QED BY <1>1, WmInvariance, PTL

----------------------------------------------------------------------------
(***************************************************************************)
(* The context.                                                            *)
(***************************************************************************)
Finds == [Section -> Seq(Note)]
Top(found, s) == [note |-> Head(found[s]), section |-> s, chars |-> NoteSize[Head(found[s])]]

LEMMA NoteTyped ==
  ASSUME NEW n \in Note
  PROVE  /\ NoteType[n] \in NoteTypes /\ NoteSize[n] \in Nat /\ TypeSlots[NoteType[n]] \in Nat
         /\ NoteType[n] \in Section <=> NoteType[n] \in Requested
  BY ContextAssumption DEF NoteTypes, Section

\* there are finitely many sections
LEMMA SectionsFinite == IsFiniteSet(Section)
<1> DEFINE f == [n \in Note |-> NoteType[n]]
<1>1. f \in Surjection(Note, NoteTypes)
  BY DEF Surjection, NoteTypes
<1>2. IsFiniteSet(NoteTypes)
  <2> HIDE DEF f
  <2> QED BY <1>1, FS_Surjection, ContextAssumption
<1>3. IsFiniteSet(Requested)
  BY <1>2, FS_Subset, ContextAssumption
<1>4. IsFiniteSet(Requested \cup {Reflections})
  BY <1>3, FS_AddElement
<1> QED BY <1>4 DEF Section

LEMMA HeadIn ==
  ASSUME NEW found \in Finds, NEW s \in Section, found[s] # <<>>
  PROVE  /\ Head(found[s]) \in Note /\ 1 \in DOMAIN found[s] /\ Head(found[s]) = found[s][1]
         /\ Top(found, s) \in Excerpt
<1>1. found[s] \in Seq(Note)
  BY DEF Finds
<1>2. Head(found[s]) \in Note /\ 1 \in DOMAIN found[s] /\ Head(found[s]) = found[s][1]
  BY <1>1
<1> QED BY <1>2, NoteTyped DEF Top, Excerpt

\* the list of a finite set has each of its members once
LEMMA SetListed ==
  ASSUME NEW S, IsFiniteSet(S)
  PROVE  LET q == SetToSeq(S) IN
         /\ q \in Seq(S) /\ Len(q) = Cardinality(S) /\ Cardinality(S) \in Nat
         /\ \A x \in S : \E i \in 1..Len(q) : q[i] = x
         /\ \A i, j \in 1..Len(q) : q[i] = q[j] => i = j
<1> DEFINE q == SetToSeq(S)
           N == Cardinality(S)
<1>1. N \in Nat /\ ExistsBijection(1..N, S)
  BY FS_CardinalityType
<1>2. \E f \in [1..N -> S] : IsInjective(f)
  BY <1>1 DEF ExistsBijection, Bijection, Injection
<1>3. q \in [1..N -> S] /\ IsInjective(q)
  BY <1>2, Zenon DEF SetToSeq
<1> HIDE DEF q
<1>4. q \in Seq(S) /\ Len(q) = N
  BY <1>1, <1>3
<1>5. q \in Injection(1..N, S)
  BY <1>3 DEF Injection
<1>6. IsFiniteSet(1..N) /\ Cardinality(1..N) = N
  BY <1>1, FS_Interval
<1>7. q \in Surjection(1..N, S)
  BY <1>5, <1>6, FS_Injection
<1>8. \A x \in S : \E i \in 1..N : q[i] = x
  BY <1>7 DEF Surjection
<1> QED BY <1>1, <1>3, <1>4, <1>8 DEF q, IsInjective

LEMMA TopsListed ==
  ASSUME NEW found \in Finds
  PROVE  LET q == Tops(found) IN
         /\ q \in Seq(Excerpt) /\ Len(q) = Cardinality(Filled(found)) /\ Len(q) \in Nat
         /\ \A s \in Filled(found) : \E i \in 1..Len(q) : q[i] = Top(found, s)
         /\ \A i \in 1..Len(q) : q[i].section \in Filled(found) /\ q[i] = Top(found, q[i].section)
         /\ \A i, j \in 1..Len(q) : q[i].section = q[j].section => i = j
<1> DEFINE S == {Top(found, s) : s \in Filled(found)}
           g == [s \in Filled(found) |-> Top(found, s)]
           q == SetToSeq(S)
<1>0. q = Tops(found)
  BY DEF Tops, Top
<1>1. IsFiniteSet(Filled(found))
  <2>1. Filled(found) \in SUBSET Section
    BY DEF Filled
  <2> QED BY <2>1, SectionsFinite, FS_Subset
<1>2. g \in Bijection(Filled(found), S)
  <2>1. \A s, t \in Filled(found) : g[s] = g[t] => s = t
    BY DEF Top
  <2>2. g \in Injection(Filled(found), S)
    BY <2>1 DEF Injection, IsInjective
  <2>3. g \in Surjection(Filled(found), S)
    BY DEF Surjection
  <2> HIDE DEF g, S
  <2> QED BY <2>2, <2>3 DEF Bijection
<1>3. IsFiniteSet(S) /\ Cardinality(S) = Cardinality(Filled(found))
  <2> HIDE DEF g, S
  <2>1. ExistsBijection(Filled(found), S)
    BY <1>2 DEF ExistsBijection
  <2> QED BY <1>1, <2>1, FS_Bijection
<1>4. /\ q \in Seq(S) /\ Len(q) = Cardinality(S) /\ Len(q) \in Nat
      /\ \A x \in S : \E i \in 1..Len(q) : q[i] = x
      /\ \A i, j \in 1..Len(q) : q[i] = q[j] => i = j
  <2> HIDE DEF S
  <2> QED BY <1>3, SetListed
<1>5. S \subseteq Excerpt
  BY HeadIn DEF Filled
<1> HIDE DEF q
<1>6. \A i \in 1..Len(q) : q[i].section \in Filled(found) /\ q[i] = Top(found, q[i].section)
  <2>1. \A i \in 1..Len(q) : q[i] \in S
    BY <1>4
  <2>2. \A x \in S : x.section \in Filled(found) /\ x = Top(found, x.section)
    BY DEF Top
  <2> HIDE DEF S
  <2> QED BY <2>1, <2>2
<1>7. q \in Seq(Excerpt)
  <2> HIDE DEF S
  <2> QED BY <1>4, <1>5
<1>8. \A i, j \in 1..Len(q) : q[i].section = q[j].section => i = j
  BY <1>4, <1>6
<1>9. \A s \in Filled(found) : \E i \in 1..Len(q) : q[i] = Top(found, s)
  BY <1>4
<1> HIDE DEF S
<1> QED BY <1>0, <1>3, <1>4, <1>6, <1>7, <1>8, <1>9

----------------------------------------------------------------------------
CharsAdded(sum, core) ==
  /\ sum \in [0..Len(core) -> Nat] /\ sum[0] = 0
  /\ \A n \in 1..Len(core) : sum[n] = sum[n - 1] + core[n].chars

LEMMA CharsSum ==
  ASSUME NEW core \in Seq(Excerpt)
  PROVE  \E sum : CharsAdded(sum, core) /\ Chars(core) = sum[Len(core)]
<1> DEFINE Adds(f) == f = [n \in 0..Len(core) |-> IF n = 0 THEN 0 ELSE f[n - 1] + core[n].chars]
           step == [n \in 1..Len(core) |-> [t \in Nat |-> t + core[n].chars]]
           sum == CHOOSE f : Adds(f)
<1>1. Len(core) \in Nat /\ \A n \in 1..Len(core) : core[n].chars \in Nat
  <2>1. Len(core) \in Nat /\ \A n \in 1..Len(core) : core[n] \in Excerpt
    OBVIOUS
  <2> QED BY <2>1 DEF Excerpt
<1>2. step \in [1..Len(core) -> [Nat -> Nat]]
  BY <1>1
<1>3. PICK f \in [0..Len(core) -> Nat] : Recurs(f, step, 0, Len(core))
  <2> HIDE DEF step
  <2> QED BY <1>1, <1>2, RecursionDefines
<1>4. Adds(f)
  <2>1. \A n \in 1..Len(core) : n - 1 \in 0..Len(core) /\ f[n - 1] \in Nat
    BY <1>1
  <2>2. \A n \in 1..Len(core) : f[n] = f[n - 1] + core[n].chars
    BY <1>1, <1>3, <2>1 DEF Recurs
  <2>3. \A n \in 0..Len(core) : f[n] = IF n = 0 THEN 0 ELSE f[n - 1] + core[n].chars
    BY <1>1, <1>3, <2>2 DEF Recurs
  <2> QED BY <2>3
<1>5. Adds(sum)
  <2> HIDE DEF Adds
  <2> QED BY <1>4
<1> HIDE DEF sum
<1>6. sum[0] = 0 /\ \A n \in 1..Len(core) : sum[n] = sum[n - 1] + core[n].chars
  BY <1>1, <1>5
<1>7. sum \in [0..Len(core) -> Nat]
  <2> DEFINE T == {n \in 0..Len(core) : sum[n] \in Nat}
  <2>1. 0 \in T
    BY <1>1, <1>6
  <2>2. ASSUME NEW n \in 1..Len(core), n - 1 \in T PROVE n \in T
    <3>1. sum[n - 1] \in Nat /\ n \in 0..Len(core)
      BY <2>2
    <3>2. core[n].chars \in Nat /\ sum[n] = sum[n - 1] + core[n].chars
      BY <1>1, <1>6
    <3> QED BY <3>1, <3>2
  <2>3. 0..Len(core) \subseteq T
    <3> HIDE DEF T
    <3> QED BY <1>1, <2>1, <2>2, UpTo
  <2> QED BY <1>5, <2>3
<1>8. Chars(core) = sum[Len(core)]
  BY Zenon DEF Chars, sum
<1> QED BY <1>6, <1>7, <1>8 DEF CharsAdded

LEMMA CharsAppend ==
  ASSUME NEW core \in Seq(Excerpt), NEW e \in Excerpt
  PROVE  Chars(core) \in Nat /\ Chars(Append(core, e)) = Chars(core) + e.chars
<1>1. PICK f : CharsAdded(f, core) /\ Chars(core) = f[Len(core)]
  BY CharsSum
<1>2. PICK g : CharsAdded(g, Append(core, e)) /\ Chars(Append(core, e)) = g[Len(Append(core, e))]
  <2>1. Append(core, e) \in Seq(Excerpt)
    OBVIOUS
  <2> QED BY <2>1, CharsSum
<1> DEFINE T == {n \in 0..Len(core) : f[n] = g[n]}
<1>3. 0..Len(core) \subseteq T
  <2>1. 0 \in T
    BY <1>1, <1>2 DEF CharsAdded
  <2>2. ASSUME NEW n \in 1..Len(core), n - 1 \in T PROVE n \in T
    <3>1. Append(core, e)[n] = core[n] /\ n \in 1..Len(Append(core, e))
      OBVIOUS
    <3> QED BY <1>1, <1>2, <2>2, <3>1 DEF CharsAdded
  <2> HIDE DEF T
  <2> QED BY <2>1, <2>2, UpTo, Len(core) \in Nat
<1>4. Len(core) \in 0..Len(core) /\ f[Len(core)] = g[Len(core)]
  BY <1>3
<1>5. g[Len(core) + 1] = g[Len(core)] + Append(core, e)[Len(core) + 1].chars
  BY <1>2, Len(core) + 1 \in 1..Len(Append(core, e)), Len(core) + 1 - 1 = Len(core) DEF CharsAdded
<1> QED BY <1>1, <1>2, <1>4, <1>5 DEF CharsAdded

----------------------------------------------------------------------------
Filling == [core : Seq(Excerpt), placed : Nat, charged : Nat, count : [NoteTypes -> Nat], full : BOOLEAN]
OfType(core, t) == {i \in 1..Len(core) : core[i].section = t}

\* what a fragment is put into the core with
Seated(a, n, chars, full) ==
  [core |-> IF NoteType[n] \in Section THEN Append(a.core, [note |-> n, section |-> NoteType[n], chars |-> chars])
            ELSE a.core,
   placed |-> a.placed + 1, charged |-> a.charged + chars,
   count |-> [a.count EXCEPT ![NoteType[n]] = @ + 1], full |-> full]

LEMMA AddCases ==
  ASSUME NEW a \in Filling, NEW n \in Note
  PROVE  LET t == NoteType[n] IN
         \/ Add(a, n) = a /\ (a.full \/ a.placed >= MaxCore \/ a.count[t] >= TypeSlots[t])
         \/ Add(a, n) = [a EXCEPT !.full = TRUE] /\ a.charged + NoteSize[n] > CoreChars
         \/ /\ a.placed < MaxCore /\ a.count[t] < TypeSlots[t] /\ ~a.full
            /\ \E chars \in Nat, full \in BOOLEAN :
                 /\ Add(a, n) = Seated(a, n, chars, full) /\ a.charged + chars <= CoreChars
                 /\ full => a.charged + chars + NoteSize[n] > CoreChars
<1> DEFINE t == NoteType[n]
           room == CoreChars - a.charged
<1>1. /\ NoteSize[n] \in Nat /\ a.charged \in Nat /\ CoreChars \in Nat /\ LeastCut \in Nat /\ MaxCore \in Nat
      /\ a.placed \in Nat /\ a.count[t] \in Nat /\ TypeSlots[t] \in Nat
  BY NoteTyped, ContextAssumption DEF Filling
<1>2. CASE a.full \/ a.placed >= MaxCore \/ a.count[t] >= TypeSlots[t]
  BY <1>2 DEF Add
<1>3. CASE ~(a.full \/ a.placed >= MaxCore \/ a.count[t] >= TypeSlots[t])
  <2>0. a.placed < MaxCore /\ a.count[t] < TypeSlots[t] /\ ~a.full
    BY <1>1, <1>3
  <2>1. CASE NoteSize[n] <= room
    <3>1. Add(a, n) = Seated(a, n, NoteSize[n], FALSE)
      BY <1>3, <2>1 DEF Add, Seated
    <3>2. a.charged + NoteSize[n] <= CoreChars
      BY <1>1, <2>1
    <3> HIDE DEF t
    <3> QED BY <1>1, <2>0, <3>1, <3>2 DEF t
  <2>2. CASE ~(NoteSize[n] <= room) /\ room > LeastCut
    <3>1. Add(a, n) = Seated(a, n, room, TRUE)
      BY <1>3, <2>2 DEF Add, Seated
    <3>2. /\ room \in Nat /\ a.charged + room <= CoreChars
          /\ a.charged + room + NoteSize[n] > CoreChars
      BY <1>1, <2>2
    <3> HIDE DEF t, room
    <3> QED BY <2>0, <3>1, <3>2 DEF t
  <2>3. CASE ~(NoteSize[n] <= room) /\ ~(room > LeastCut)
    <3>1. Add(a, n) = [a EXCEPT !.full = TRUE]
      BY <1>3, <2>3 DEF Add
    <3>2. a.charged + NoteSize[n] > CoreChars
      BY <1>1, <2>3
    <3> QED BY <3>1, <3>2
  <2> QED BY <2>1, <2>2, <2>3
<1> QED BY <1>2, <1>3

(***************************************************************************)
(* What holds while the extras are put into the core, when k of them have  *)
(* been looked at: the best of each section stand in front, the budgets    *)
(* are kept, every type is counted, and an extra that is not there came    *)
(* upon a limit.                                                           *)
(***************************************************************************)
Fronted(found, a) ==
  /\ Len(Tops(found)) <= Len(a.core)
  /\ \A i \in 1..Len(Tops(found)) : a.core[i] = Tops(found)[i]
Bounded(found, a) ==
  /\ Chars(a.core) <= a.charged /\ (a.charged = Charged(found) \/ a.charged <= CoreChars)
  /\ Len(a.core) <= a.placed /\ (a.placed = Len(Tops(found)) \/ a.placed <= MaxCore)
Tallied(a) ==
  \A t \in Requested : /\ IsFiniteSet(OfType(a.core, t)) /\ Cardinality(OfType(a.core, t)) = a.count[t]
                       /\ a.count[t] <= 1 \/ a.count[t] <= TypeSlots[t]
Distinguished(found, scored, k, a) ==
  \A i \in 1..Len(a.core) : i > Len(Tops(found)) =>
    /\ \E j \in 1..k : a.core[i].note = scored[j]
    /\ a.core[i].section = NoteType[a.core[i].note]
    /\ \A m \in 1..Len(a.core) : m > Len(Tops(found)) /\ a.core[i].note = a.core[m].note => i = m
Excused(scored, k, a) ==
  \A j \in 1..k :
    NoteType[scored[j]] \in Requested =>
      \/ \E i \in 1..Len(a.core) : a.core[i].note = scored[j]
      \/ a.count[NoteType[scored[j]]] >= TypeSlots[NoteType[scored[j]]]
      \/ a.placed >= MaxCore
      \/ a.full
Misfit(found, a) == a.full => \E m \in Extras(found) : a.charged + NoteSize[m] > CoreChars
Assembles(found, scored, k, a) ==
  /\ a \in Filling /\ Fronted(found, a) /\ Bounded(found, a) /\ Tallied(a)
  /\ Distinguished(found, scored, k, a) /\ Excused(scored, k, a) /\ Misfit(found, a)

LEMMA GuaranteedAssembles ==
  ASSUME NEW found \in Finds, NEW scored
  PROVE  Assembles(found, scored, 0, Guaranteed(found))
<1> DEFINE T == Tops(found)
           a == Guaranteed(found)
<1>1. /\ T \in Seq(Excerpt) /\ Len(T) \in Nat
      /\ \A s \in Filled(found) : \E i \in 1..Len(T) : T[i] = Top(found, s)
      /\ \A i \in 1..Len(T) : T[i].section \in Filled(found) /\ T[i] = Top(found, T[i].section)
      /\ \A i, j \in 1..Len(T) : T[i].section = T[j].section => i = j
  BY TopsListed
<1>2. PICK sum : CharsAdded(sum, T) /\ Chars(T) = sum[Len(T)]
  BY <1>1, CharsSum
<1>3. Chars(T) \in Nat
  BY <1>1, <1>2, Len(T) \in 0..Len(T) DEF CharsAdded
<1>4. /\ a.core = T /\ a.placed = Len(T) /\ a.charged = Charged(found) /\ a.full = FALSE
      /\ a.count = [t \in NoteTypes |-> IF t \in Filled(found) THEN 1 ELSE 0]
      /\ Charged(found) = Chars(T)
  BY DEF Guaranteed, Charged
<1>5. a \in Filling
  <2>1. [t \in NoteTypes |-> IF t \in Filled(found) THEN 1 ELSE 0] \in [NoteTypes -> Nat]
    OBVIOUS
  <2> QED BY <1>1, <1>3, <2>1 DEF Guaranteed, Charged, Filling
<1> HIDE DEF a, T
<1>6. Fronted(found, a) /\ Bounded(found, a) /\ Misfit(found, a)
  BY <1>1, <1>3, <1>4 DEF Fronted, Bounded, Misfit, T
<1>7. Tallied(a)
  <2> SUFFICES ASSUME NEW t \in Requested
               PROVE  /\ IsFiniteSet(OfType(T, t)) /\ Cardinality(OfType(T, t)) = a.count[t]
                      /\ a.count[t] <= 1
    BY <1>4 DEF Tallied
  <2>1. t \in NoteTypes /\ a.count[t] = IF t \in Filled(found) THEN 1 ELSE 0
    BY <1>4, ContextAssumption
  <2>2. CASE t \in Filled(found)
    <3>1. PICK i \in 1..Len(T) : T[i] = Top(found, t)
      BY <1>1, <2>2
    <3>2. T[i].section = t
      BY <3>1 DEF Top
    <3>3. OfType(T, t) = {i}
      BY <1>1, <3>2 DEF OfType
    <3>4. IsFiniteSet({i}) /\ Cardinality({i}) = 1
      BY FS_Singleton
    <3> QED BY <2>1, <2>2, <3>3, <3>4
  <2>3. CASE t \notin Filled(found)
    <3>1. OfType(T, t) = {}
      BY <1>1, <2>3 DEF OfType
    <3> QED BY <2>1, <2>3, <3>1, FS_EmptySet
  <2> QED BY <2>2, <2>3
<1>8. Distinguished(found, scored, 0, a) /\ Excused(scored, 0, a)
  BY <1>1, <1>4 DEF Distinguished, Excused, T
<1> QED BY <1>5, <1>6, <1>7, <1>8 DEF Assembles, a

LEMMA AddAssembles ==
  ASSUME NEW found \in Finds, NEW scored \in Seq(Extras(found)), NEW k \in 1..Len(scored),
         Extras(found) \subseteq Note, \A i, j \in 1..Len(scored) : scored[i] = scored[j] => i = j,
         NEW a, Assembles(found, scored, k - 1, a)
  PROVE  Assembles(found, scored, k, Add(a, scored[k]))
<1> DEFINE T == Tops(found)
           n == scored[k]
           t == NoteType[n]
           b == Add(a, n)
<1>1. /\ k \in 1..k /\ \A j \in 1..k : j = k \/ j \in 1..(k - 1)
      /\ \A j \in 1..(k - 1) : j \in 1..k /\ j \in 1..Len(scored) /\ j # k
  OBVIOUS
<1>2. /\ n \in Note /\ n \in Extras(found) /\ t \in NoteTypes /\ (t \in Section <=> t \in Requested)
      /\ \A m \in NoteTypes : TypeSlots[m] \in Nat
      /\ NoteSize[n] \in Nat /\ MaxCore \in Nat /\ CoreChars \in Nat
  BY NoteTyped, ContextAssumption
<1>3. /\ a \in Filling /\ Fronted(found, a) /\ Bounded(found, a) /\ Tallied(a)
      /\ Distinguished(found, scored, k - 1, a) /\ Excused(scored, k - 1, a) /\ Misfit(found, a)
  BY DEF Assembles
<1>4. /\ a.core \in Seq(Excerpt) /\ a.placed \in Nat /\ a.charged \in Nat /\ a.count \in [NoteTypes -> Nat]
      /\ T \in Seq(Excerpt) /\ Len(T) \in Nat /\ Len(a.core) \in Nat /\ Chars(a.core) \in Nat
  <2>1. /\ a.core \in Seq(Excerpt) /\ a.placed \in Nat /\ a.charged \in Nat
        /\ a.count \in [NoteTypes -> Nat]
    BY <1>3 DEF Filling
  <2>2. Chars(a.core) \in Nat
    <3>1. PICK sum : CharsAdded(sum, a.core) /\ Chars(a.core) = sum[Len(a.core)]
      BY <2>1, CharsSum
    <3>2. Len(a.core) \in 0..Len(a.core)
      BY <2>1
    <3>3. sum \in [0..Len(a.core) -> Nat]
      BY <3>1 DEF CharsAdded
    <3> QED BY <3>1, <3>2, <3>3
  <2>3. T \in Seq(Excerpt) /\ Len(T) \in Nat
    BY TopsListed
  <2>4. Len(a.core) \in Nat
    BY <2>1
  <2> QED BY <2>1, <2>2, <2>3, <2>4
<1> HIDE DEF b
<1>5. CASE b = a /\ (a.full \/ a.placed >= MaxCore \/ a.count[t] >= TypeSlots[t])
  <2>1. Distinguished(found, scored, k, b)
    BY <1>1, <1>3, <1>5 DEF Distinguished
  <2>2. Excused(scored, k, b)
    BY <1>1, <1>3, <1>5 DEF Excused
  <2> QED BY <1>3, <1>5, <2>1, <2>2 DEF Assembles, b
<1>6. CASE b = [a EXCEPT !.full = TRUE] /\ a.charged + NoteSize[n] > CoreChars
  <2>0. /\ b \in Filling /\ b.core = a.core /\ b.placed = a.placed /\ b.charged = a.charged
        /\ b.count = a.count /\ b.full = TRUE
    BY <1>3, <1>6 DEF Filling
  <2>1. Distinguished(found, scored, k, b)
    BY <1>1, <1>3, <2>0 DEF Distinguished
  <2>2. Excused(scored, k, b)
    BY <2>0 DEF Excused
  <2>3. Misfit(found, b)
    BY <1>2, <1>6, <2>0 DEF Misfit
  <2>4. Fronted(found, b) /\ Bounded(found, b) /\ Tallied(b)
    BY <1>3, <2>0 DEF Fronted, Bounded, Tallied
  <2> QED BY <2>0, <2>1, <2>2, <2>3, <2>4 DEF Assembles, b
<1>7. ASSUME a.placed < MaxCore, a.count[t] < TypeSlots[t], ~a.full,
             NEW chars \in Nat, NEW full \in BOOLEAN, b = Seated(a, n, chars, full),
             a.charged + chars <= CoreChars, full => a.charged + chars + NoteSize[n] > CoreChars
      PROVE  Assembles(found, scored, k, b)
  <2> DEFINE e == [note |-> n, section |-> t, chars |-> chars]
  <2>0. /\ b.core = (IF t \in Section THEN Append(a.core, e) ELSE a.core)
        /\ b.placed = a.placed + 1 /\ b.charged = a.charged + chars
        /\ b.count = [a.count EXCEPT ![t] = @ + 1] /\ b.full = full
    BY <1>7 DEF Seated
  <2>1. t \in Section => e \in Excerpt
    BY <1>2 DEF Excerpt
  <2> HIDE DEF e
  <2>2. t \in Section => /\ Append(a.core, e) \in Seq(Excerpt)
                         /\ Chars(Append(a.core, e)) = Chars(a.core) + e.chars
    BY <1>4, <2>1, CharsAppend
  <2>3. b \in Filling
    <3>1. [a.count EXCEPT ![t] = @ + 1] \in [NoteTypes -> Nat]
      BY <1>2, <1>4
    <3>2. b.core \in Seq(Excerpt)
      BY <1>4, <2>0, <2>2
    <3>3. b = [core |-> b.core, placed |-> b.placed, charged |-> b.charged, count |-> b.count,
               full |-> b.full]
      BY <1>7 DEF Seated
    <3>4. b.count \in [NoteTypes -> Nat] /\ b.full \in BOOLEAN
      BY <1>7, <2>0, <3>1, Zenon
    <3>5. b.placed \in Nat /\ b.charged \in Nat
      <4>1. a.placed \in Nat /\ a.charged \in Nat
        BY <1>4
      <4>2. a.placed + 1 \in Nat /\ a.charged + chars \in Nat
        BY <4>1
      <4> QED BY <2>0, <4>2, Zenon
    <3>6. [core |-> b.core, placed |-> b.placed, charged |-> b.charged, count |-> b.count,
           full |-> b.full] \in Filling
      BY <3>2, <3>4, <3>5 DEF Filling
    <3> QED BY <3>3, <3>6, Zenon
  <2>4. /\ Len(a.core) <= Len(b.core) /\ Len(b.core) <= Len(a.core) + 1
        /\ \A i \in 1..Len(a.core) : i \in 1..Len(b.core) /\ b.core[i] = a.core[i]
        /\ \A i \in 1..Len(b.core) : i \in 1..Len(a.core) \/ (i = Len(a.core) + 1 /\ b.core[i] = e)
        /\ t \in Section => Len(a.core) + 1 \in 1..Len(b.core) /\ b.core[Len(a.core) + 1] = e
        /\ t \notin Section => b.core = a.core
    <3> DEFINE core == a.core
    <3>1. core \in Seq(Excerpt)
      BY <1>4
    <3>2. b.core = Append(core, e) \/ (t \notin Section /\ b.core = core)
      BY <2>0
    <3>3. t \in Section => b.core = Append(core, e)
      BY <2>0
    <3>4. t \notin Section => b.core = core
      BY <2>0
    <3> HIDE DEF core
    <3>5. /\ Len(core) \in Nat /\ Len(Append(core, e)) = Len(core) + 1
          /\ Append(core, e)[Len(core) + 1] = e
          /\ \A i \in 1..Len(core) : Append(core, e)[i] = core[i]
      BY <3>1
    <3>6. /\ \A i \in 1..(Len(core) + 1) : i \in 1..Len(core) \/ i = Len(core) + 1
          /\ \A i \in 1..Len(core) : i \in 1..(Len(core) + 1)
          /\ Len(core) + 1 \in 1..(Len(core) + 1) /\ Len(core) <= Len(core) + 1
      BY <3>5
    <3>7. CASE t \in Section
      BY <3>3, <3>5, <3>6, <3>7 DEF core
    <3>8. CASE t \notin Section
      BY <3>4, <3>5, <3>8 DEF core
    <3> QED BY <3>7, <3>8
  <2>5. Fronted(found, b)
    <3>1. /\ Len(T) <= Len(a.core) /\ Len(T) \in Nat /\ Len(a.core) \in Nat
          /\ \A i \in 1..Len(T) : a.core[i] = T[i]
      BY <1>3, <1>4 DEF Fronted
    <3>2. Len(b.core) \in Nat
      BY <2>3 DEF Filling
    <3> HIDE DEF T
    <3>3. Len(T) <= Len(b.core)
      BY <2>4, <3>1, <3>2
    <3>4. \A i \in 1..Len(T) : i \in 1..Len(a.core)
      BY <3>1
    <3>5. \A i \in 1..Len(T) : b.core[i] = T[i]
      BY <2>4, <3>1, <3>4
    <3> QED BY <3>3, <3>5 DEF Fronted, T
  <2>6. Bounded(found, b)
    <3>1. e.chars = chars
      BY DEF e
    <3>2. Chars(b.core) <= a.charged + chars
      BY <1>3, <1>4, <1>7, <2>0, <2>2, <3>1 DEF Bounded
    <3>3. Len(b.core) <= a.placed + 1 /\ a.placed + 1 <= MaxCore
      <4>1. Len(a.core) <= a.placed
        BY <1>3 DEF Bounded
      <4>2. Len(b.core) \in Nat
        BY <2>3 DEF Filling
      <4>3. Len(b.core) <= a.placed + 1
        <5>1. Len(b.core) <= Len(a.core) + 1
          BY <2>4, Zenon
        <5>2. Len(a.core) \in Nat /\ a.placed \in Nat
          BY <1>4
        <5> QED BY <4>1, <4>2, <5>1, <5>2
      <4>4. a.placed + 1 <= MaxCore
        BY <1>2, <1>4, <1>7
      <4> QED BY <4>3, <4>4
    <3> QED BY <1>7, <2>0, <3>2, <3>3 DEF Bounded
  <2>7. Tallied(b)
    <3> SUFFICES ASSUME NEW r \in Requested
                 PROVE  /\ IsFiniteSet(OfType(b.core, r)) /\ Cardinality(OfType(b.core, r)) = b.count[r]
                        /\ b.count[r] <= 1 \/ b.count[r] <= TypeSlots[r]
      BY DEF Tallied
    <3>0. /\ r \in NoteTypes /\ r \in Section /\ a.count[r] \in Nat
          /\ IsFiniteSet(OfType(a.core, r)) /\ Cardinality(OfType(a.core, r)) = a.count[r]
          /\ a.count[r] <= 1 \/ a.count[r] <= TypeSlots[r]
      BY <1>3, <1>4, ContextAssumption DEF Tallied, Section
    <3>1. CASE r = t
      <4>1. b.count[r] = a.count[r] + 1 /\ b.count[r] <= TypeSlots[r]
        <5>1. b.count[r] = a.count[r] + 1
          BY <1>4, <2>0, <3>0, <3>1
        <5>2. a.count[r] < TypeSlots[r] /\ TypeSlots[r] \in Nat
          BY <1>2, <1>7, <3>0, <3>1
        <5> QED BY <3>0, <5>1, <5>2
      <4>2. OfType(b.core, r) = OfType(a.core, r) \cup {Len(a.core) + 1}
        <5>1. /\ \A i \in 1..Len(a.core) : i \in 1..Len(b.core) /\ b.core[i].section = a.core[i].section
              /\ Len(a.core) + 1 \in 1..Len(b.core) /\ b.core[Len(a.core) + 1].section = r
              /\ \A i \in 1..Len(b.core) : i \in 1..Len(a.core) \/ i = Len(a.core) + 1
          <6>1. e.section = t
            BY DEF e
          <6> QED BY <2>4, <3>0, <3>1, <6>1
        <5> QED BY <5>1 DEF OfType
      <4>3. Len(a.core) + 1 \notin OfType(a.core, r)
        BY <1>4 DEF OfType
      <4>4. /\ IsFiniteSet(OfType(b.core, r))
            /\ Cardinality(OfType(b.core, r)) = Cardinality(OfType(a.core, r)) + 1
        <5> DEFINE O == OfType(a.core, r)
                   x == Len(a.core) + 1
        <5>1. IsFiniteSet(O) /\ x \notin O /\ OfType(b.core, r) = O \cup {x}
          BY <3>0, <4>2, <4>3
        <5> HIDE DEF O, x
        <5>2. IsFiniteSet(O \cup {x}) /\ Cardinality(O \cup {x}) = Cardinality(O) + 1
          BY <5>1, FS_AddElement
        <5> QED BY <5>1, <5>2 DEF O
      <4> QED BY <3>0, <4>1, <4>4
    <3>2. CASE r # t
      <4>1. b.count[r] = a.count[r]
        BY <1>4, <2>0, <3>0, <3>2
      <4>2. OfType(b.core, r) = OfType(a.core, r)
        <5>1. /\ \A i \in 1..Len(a.core) : i \in 1..Len(b.core) /\ b.core[i].section = a.core[i].section
              /\ \A i \in 1..Len(b.core) : i \in 1..Len(a.core) \/ b.core[i].section # r
          <6>1. e.section = t
            BY DEF e
          <6> QED BY <2>4, <3>2, <6>1
        <5> QED BY <5>1 DEF OfType
      <4> QED BY <3>0, <4>1, <4>2
    <3> QED BY <3>1, <3>2
  <2>8. Distinguished(found, scored, k, b)
    <3>0. e.note = n /\ e.section = t
      BY DEF e
    <3>1. \A i \in 1..Len(a.core) : i > Len(T) =>
            /\ \E j \in 1..(k - 1) : a.core[i].note = scored[j]
            /\ a.core[i].section = NoteType[a.core[i].note]
            /\ \A m \in 1..Len(a.core) : m > Len(T) /\ a.core[i].note = a.core[m].note => i = m
      BY <1>3 DEF Distinguished
    <3>2. \A i \in 1..Len(a.core) : i > Len(T) => a.core[i].note # n
      BY <1>1, <3>1
    <3> SUFFICES ASSUME NEW i \in 1..Len(b.core), i > Len(T)
                 PROVE  /\ \E j \in 1..k : b.core[i].note = scored[j]
                        /\ b.core[i].section = NoteType[b.core[i].note]
                        /\ \A m \in 1..Len(b.core) :
                             m > Len(T) /\ b.core[i].note = b.core[m].note => i = m
      BY DEF Distinguished
    <3>3. CASE i \in 1..Len(a.core)
      <4>0. b.core[i] = a.core[i]
        BY <2>4, <3>3
      <4>1. \E j \in 1..k : b.core[i].note = scored[j]
        BY <1>1, <3>1, <3>3, <4>0
      <4>2. b.core[i].section = NoteType[b.core[i].note]
        BY <3>1, <3>3, <4>0
      <4>3. ASSUME NEW m \in 1..Len(b.core), m > Len(T), b.core[i].note = b.core[m].note
            PROVE  i = m
        <5>1. m \in 1..Len(a.core)
          BY <2>4, <3>0, <3>2, <3>3, <4>0, <4>3
        <5>2. b.core[m] = a.core[m]
          BY <2>4, <5>1
        <5> QED BY <3>1, <3>3, <4>0, <4>3, <5>1, <5>2
      <4> QED BY <4>1, <4>2, <4>3
    <3>4. CASE i = Len(a.core) + 1 /\ b.core[i] = e
      BY <1>1, <2>4, <3>0, <3>2, <3>4
    <3> QED BY <2>4, <3>3, <3>4
  <2>9. Excused(scored, k, b)
    <3> SUFFICES ASSUME NEW j \in 1..k, NoteType[scored[j]] \in Requested
                 PROVE  \/ \E i \in 1..Len(b.core) : b.core[i].note = scored[j]
                        \/ b.count[NoteType[scored[j]]] >= TypeSlots[NoteType[scored[j]]]
                        \/ b.placed >= MaxCore
      BY DEF Excused
    <3>1. CASE j = k
      BY <1>2, <2>4, <3>1 DEF e
    <3>2. CASE j \in 1..(k - 1)
      <4>0. NoteType[scored[j]] \in NoteTypes
        BY ContextAssumption
      <4>1. CASE \E i \in 1..Len(a.core) : a.core[i].note = scored[j]
        BY <2>4, <4>1
      <4>2. CASE a.count[NoteType[scored[j]]] >= TypeSlots[NoteType[scored[j]]]
        <5>1. b.count[NoteType[scored[j]]] >= a.count[NoteType[scored[j]]]
          <6>1. CASE NoteType[scored[j]] = t
            BY <1>2, <1>4, <2>0, <6>1
          <6>2. CASE NoteType[scored[j]] # t
            BY <1>2, <1>4, <2>0, <4>0, <6>2
          <6> QED BY <6>1, <6>2
        <5>2. /\ b.count[NoteType[scored[j]]] \in Nat /\ a.count[NoteType[scored[j]]] \in Nat
              /\ TypeSlots[NoteType[scored[j]]] \in Nat
          BY <1>2, <1>4, <2>3, <4>0 DEF Filling
        <5> QED BY <4>2, <5>1, <5>2
      <4>3. CASE a.placed >= MaxCore
        BY <1>2, <1>4, <1>7, <4>3
      <4> QED BY <1>3, <1>7, <3>2, <4>1, <4>2, <4>3 DEF Excused
    <3> QED BY <1>1, <3>1, <3>2
  <2>10. Misfit(found, b)
    BY <1>2, <1>7, <2>0 DEF Misfit
  <2> QED BY <2>3, <2>5, <2>6, <2>7, <2>8, <2>9, <2>10 DEF Assembles
<1> QED BY <1>2, <1>3, <1>5, <1>6, <1>7, AddCases DEF b

----------------------------------------------------------------------------
IsFill(fill, found, scored) ==
  /\ fill \in [0..Len(scored) -> Filling] /\ fill[0] = Guaranteed(found)
  /\ \A n \in 1..Len(scored) : fill[n] = Add(fill[n - 1], scored[n])

LEMMA AddType == ASSUME NEW a \in Filling, NEW n \in Note PROVE Add(a, n) \in Filling
<1>1. /\ a.core \in Seq(Excerpt) /\ a.placed \in Nat /\ a.charged \in Nat /\ a.count \in [NoteTypes -> Nat]
      /\ NoteType[n] \in NoteTypes
  BY NoteTyped DEF Filling
<1>2. [a EXCEPT !.full = TRUE] \in Filling
  BY DEF Filling
<1>3. ASSUME NEW chars \in Nat, NEW full \in BOOLEAN PROVE Seated(a, n, chars, full) \in Filling
  <2>1. [a.count EXCEPT ![NoteType[n]] = @ + 1] \in [NoteTypes -> Nat]
    BY <1>1
  <2>2. NoteType[n] \in Section =>
          Append(a.core, [note |-> n, section |-> NoteType[n], chars |-> chars]) \in Seq(Excerpt)
    <3>1. NoteType[n] \in Section => [note |-> n, section |-> NoteType[n], chars |-> chars] \in Excerpt
      BY DEF Excerpt
    <3> QED BY <1>1, <3>1
  <2>3. a.placed + 1 \in Nat /\ a.charged + chars \in Nat
    BY <1>1
  <2> DEFINE core == IF NoteType[n] \in Section
                     THEN Append(a.core, [note |-> n, section |-> NoteType[n], chars |-> chars]) ELSE a.core
             count == [a.count EXCEPT ![NoteType[n]] = @ + 1]
  <2>4. core \in Seq(Excerpt)
    BY <1>1, <2>2
  <2>5. Seated(a, n, chars, full) =
          [core |-> core, placed |-> a.placed + 1, charged |-> a.charged + chars, count |-> count, full |-> full]
    BY DEF Seated
  <2>6. count \in [NoteTypes -> Nat]
    BY <2>1
  <2> HIDE DEF core, count
  <2>7. [core |-> core, placed |-> a.placed + 1, charged |-> a.charged + chars, count |-> count,
         full |-> full] \in Filling
    BY <2>3, <2>4, <2>6 DEF Filling
  <2> QED BY <2>5, <2>7
<1>4. \/ Add(a, n) = a \/ Add(a, n) = [a EXCEPT !.full = TRUE]
      \/ \E chars \in Nat, full \in BOOLEAN : Add(a, n) = Seated(a, n, chars, full)
  BY AddCases, Zenon
<1> QED BY <1>2, <1>3, <1>4, Zenon

\* what is assembled is what the loop has put together in the end
LEMMA Fills ==
  ASSUME NEW found \in Finds, NEW scored \in Seq(Note)
  PROVE  \E fill : IsFill(fill, found, scored) /\ Assembled(found, scored) = fill[Len(scored)]
<1> DEFINE base == Guaranteed(found)
           Loops(f) == f = [n \in 0..Len(scored) |-> IF n = 0 THEN Guaranteed(found)
                                                     ELSE Add(f[n - 1], scored[n])]
           step == [n \in 1..Len(scored) |-> [a \in Filling |-> Add(a, scored[n])]]
           fill == CHOOSE f : Loops(f)
<1>1. Len(scored) \in Nat /\ \A n \in 1..Len(scored) : scored[n] \in Note
  OBVIOUS
<1>2. base \in Filling
  BY GuaranteedAssembles DEF Assembles
<1>3. step \in [1..Len(scored) -> [Filling -> Filling]]
  BY <1>1, AddType
<1>4. PICK f \in [0..Len(scored) -> Filling] : Recurs(f, step, base, Len(scored))
  <2> HIDE DEF step, base
  <2> QED BY <1>1, <1>2, <1>3, RecursionDefines
<1>5. Loops(f)
  <2>1. \A n \in 1..Len(scored) : n - 1 \in 0..Len(scored) /\ f[n - 1] \in Filling
    BY <1>1
  <2>2. \A n \in 1..Len(scored) : f[n] = Add(f[n - 1], scored[n])
    BY <1>1, <1>4, <2>1 DEF Recurs
  <2>3. \A n \in 0..Len(scored) : f[n] = IF n = 0 THEN base ELSE Add(f[n - 1], scored[n])
    BY <1>1, <1>4, <2>2 DEF Recurs
  <2> QED BY <2>3
<1>6. Loops(fill)
  <2> HIDE DEF Loops
  <2> QED BY <1>5
<1> HIDE DEF fill
<1>7. fill[0] = base /\ \A n \in 1..Len(scored) : fill[n] = Add(fill[n - 1], scored[n])
  BY <1>1, <1>6
<1>8. fill \in [0..Len(scored) -> Filling]
  <2> DEFINE T == {n \in 0..Len(scored) : fill[n] \in Filling}
  <2>1. 0 \in T
    BY <1>1, <1>2, <1>7
  <2>2. ASSUME NEW n \in 1..Len(scored), n - 1 \in T PROVE n \in T
    <3>1. fill[n - 1] \in Filling /\ n \in 0..Len(scored)
      BY <2>2
    <3> QED BY <1>1, <1>7, <3>1, AddType
  <2>3. 0..Len(scored) \subseteq T
    <3> HIDE DEF T
    <3> QED BY <1>1, <2>1, <2>2, UpTo
  <2> QED BY <1>6, <2>3
<1>9. Assembled(found, scored) = fill[Len(scored)]
  BY Zenon DEF Assembled, fill
<1> QED BY <1>7, <1>8, <1>9 DEF IsFill

LEMMA AssembledAssembles ==
  ASSUME NEW found \in Finds, NEW scored \in SetToSeqs(Extras(found))
  PROVE  /\ Assembles(found, scored, Len(scored), Assembled(found, scored))
         /\ scored \in Seq(Extras(found)) /\ Extras(found) \subseteq Note
         /\ \A n \in Extras(found) : \E j \in 1..Len(scored) : scored[j] = n
<1> DEFINE E == Extras(found)
           N == Cardinality(E)
<1>1. E \subseteq Note
  <2>1. \A s \in Section : Range(found[s]) \subseteq Note
    BY DEF Finds, Range
  <2> QED BY <2>1 DEF Extras
<1>2. IsFiniteSet(E) /\ N \in Nat
  BY <1>1, FS_Subset, FS_CardinalityType, ContextAssumption
<1>3. scored \in [1..N -> E] /\ \A i, j \in 1..N : i # j => scored[i] # scored[j]
  BY Zenon DEF SetToSeqs
<1> HIDE DEF E
<1>4. scored \in Seq(E) /\ Len(scored) = N
  BY <1>2, <1>3
<1>5. \A n \in E : \E j \in 1..N : scored[j] = n
  <2>1. scored \in Injection(1..N, E)
    BY <1>3 DEF Injection, IsInjective
  <2>2. IsFiniteSet(1..N) /\ Cardinality(1..N) = N
    BY <1>2, FS_Interval
  <2>3. scored \in Surjection(1..N, E)
    BY <1>2, <2>1, <2>2, FS_Injection DEF E
  <2> QED BY <2>3 DEF Surjection
<1>6. scored \in Seq(Note)
  BY <1>1, <1>4
<1>7. PICK fill : IsFill(fill, found, scored) /\ Assembled(found, scored) = fill[Len(scored)]
  BY <1>6, Fills
<1> DEFINE T == {k \in 0..Len(scored) : Assembles(found, scored, k, fill[k])}
<1>8. 0 \in T
  BY <1>2, <1>4, <1>7, GuaranteedAssembles DEF IsFill
<1>9. ASSUME NEW k \in 1..Len(scored), k - 1 \in T PROVE k \in T
  <2>1. Assembles(found, scored, k - 1, fill[k - 1]) /\ fill[k] = Add(fill[k - 1], scored[k])
    BY <1>7, <1>9 DEF IsFill
  <2>2. \A i, j \in 1..Len(scored) : scored[i] = scored[j] => i = j
    BY <1>3, <1>4
  <2>3. Assembles(found, scored, k, Add(fill[k - 1], scored[k]))
    BY <1>1, <1>4, <2>1, <2>2, AddAssembles DEF E
  <2> QED BY <2>1, <2>3
<1>10. 0..Len(scored) \subseteq T
  <2> HIDE DEF T
  <2> QED BY <1>2, <1>4, <1>8, <1>9, UpTo
<1>11. Len(scored) \in T
  BY <1>2, <1>4, <1>10
<1> QED BY <1>1, <1>4, <1>5, <1>7, <1>11 DEF E

----------------------------------------------------------------------------
LEMMA MaxOfTwo ==
  ASSUME NEW x \in Nat, NEW y \in Nat
  PROVE  \A n \in Nat : n <= x \/ n <= y => n <= Max({x, y})
<1> DEFINE IsMax(m) == m \in {x, y} /\ \A n \in {x, y} : m >= n
<1>1. IsMax(x) \/ IsMax(y)
  OBVIOUS
<1>2. Max({x, y}) = CHOOSE m : IsMax(m)
  BY Zenon DEF Max
<1>3. IsMax(Max({x, y}))
  <2> HIDE DEF IsMax
  <2> QED BY <1>1, <1>2
<1> QED BY <1>3

Held(c) ==
  LET core == c.core
      found == c.found
      OfSection(s) == {i \in DOMAIN core : core[i].section = s} IN
  /\ \A s \in Filled(found) : \E i \in OfSection(s) :
       core[i].note = Head(found[s]) /\ core[i].chars = NoteSize[core[i].note]
  /\ Chars(core) <= Max({CoreChars, Charged(found)})
  /\ Len(core) <= Max({MaxCore, Cardinality(Filled(found))})
  /\ \A t \in Requested : Cardinality(OfSection(t)) <= Max({TypeSlots[t], 1})
  /\ \A i, j \in DOMAIN core :
       i # j /\ core[i].note = core[j].note =>
         core[i].section # core[j].section /\ core[i].note \in TopNotes(found)
  /\ \A n \in Extras(found) :
       NoteType[n] \in Requested /\ (\A i \in DOMAIN core : core[i].note # n) =>
         \/ Cardinality(OfSection(NoteType[n])) >= TypeSlots[NoteType[n]]
         \/ c.placed >= MaxCore
         \/ \E m \in Extras(found) : c.charged + NoteSize[m] > CoreChars

LEMMA ExtraNotTop == ASSUME NEW found, NEW n \in Extras(found) PROVE n \notin TopNotes(found)
  BY DEF Extras

\* What the loop leaves keeps what the core promises.
LEMMA AssembledKeeps ==
  ASSUME NEW c, c.found \in Finds, NEW scored \in SetToSeqs(Extras(c.found)),
         NEW a, a = Assembled(c.found, scored),
         c.core = a.core, c.placed = a.placed, c.charged = a.charged
  PROVE  Held(c)
<1> DEFINE found == c.found
           core == c.core
           T == Tops(found)
           OfSection(s) == {i \in DOMAIN core : core[i].section = s}
<1>0. found \in Finds /\ core = a.core
  OBVIOUS
<1> HIDE DEF found, core
<1>1. /\ Assembles(found, scored, Len(scored), a)
      /\ scored \in Seq(Extras(found)) /\ Extras(found) \subseteq Note
      /\ \A n \in Extras(found) : \E j \in 1..Len(scored) : scored[j] = n
  BY <1>0, AssembledAssembles DEF found
<1>2. /\ a \in Filling /\ Fronted(found, a) /\ Bounded(found, a) /\ Tallied(a)
      /\ Distinguished(found, scored, Len(scored), a) /\ Excused(scored, Len(scored), a)
      /\ Misfit(found, a)
  BY <1>1 DEF Assembles
<1>3. core \in Seq(Excerpt) /\ DOMAIN core = 1..Len(core) /\ Len(core) \in Nat
      /\ a.placed \in Nat /\ a.charged \in Nat /\ a.count \in [NoteTypes -> Nat]
  <2>1. core \in Seq(Excerpt) /\ a.placed \in Nat /\ a.charged \in Nat /\ a.count \in [NoteTypes -> Nat]
    BY <1>0, <1>2 DEF Filling
  <2> QED BY <2>1
<1>4. /\ T \in Seq(Excerpt) /\ Len(T) = Cardinality(Filled(found)) /\ Len(T) \in Nat
      /\ \A s \in Filled(found) : \E i \in 1..Len(T) : T[i] = Top(found, s)
      /\ \A i \in 1..Len(T) : T[i].section \in Filled(found) /\ T[i] = Top(found, T[i].section)
      /\ \A i, j \in 1..Len(T) : T[i].section = T[j].section => i = j
  BY <1>0, TopsListed
<1>5. Len(T) <= Len(core) /\ \A i \in 1..Len(T) : i \in 1..Len(core) /\ core[i] = T[i]
  BY <1>0, <1>2, <1>3, <1>4 DEF Fronted
<1>6. Charged(found) \in Nat /\ Chars(core) \in Nat
  <2>1. PICK f : CharsAdded(f, T) /\ Chars(T) = f[Len(T)]
    BY <1>4, CharsSum
  <2>2. PICK g : CharsAdded(g, core) /\ Chars(core) = g[Len(core)]
    BY <1>3, CharsSum
  <2>3. Len(T) \in 0..Len(T) /\ Len(core) \in 0..Len(core)
    BY <1>3, <1>4
  <2> QED BY <2>1, <2>2, <2>3 DEF CharsAdded, Charged
<1>7. MaxCore \in Nat /\ CoreChars \in Nat /\ \A t \in Requested : t \in NoteTypes /\ TypeSlots[t] \in Nat
  BY ContextAssumption
<1>8. \A s \in Filled(found) : \E i \in OfSection(s) :
        core[i].note = Head(found[s]) /\ core[i].chars = NoteSize[core[i].note]
  <2> SUFFICES ASSUME NEW s \in Filled(found)
               PROVE  \E i \in OfSection(s) :
                        core[i].note = Head(found[s]) /\ core[i].chars = NoteSize[core[i].note]
    OBVIOUS
  <2>1. PICK i \in 1..Len(T) : T[i] = Top(found, s)
    BY <1>4
  <2>2. /\ T[i].section = s /\ T[i].note = Head(found[s])
        /\ T[i].chars = NoteSize[Head(found[s])]
    BY <2>1 DEF Top
  <2>3. i \in OfSection(s) /\ core[i] = T[i]
    BY <1>3, <1>5, <2>2
  <2> QED BY <2>2, <2>3
<1>9. Chars(core) <= Max({CoreChars, Charged(found)})
  <2>1. Chars(core) <= CoreChars \/ Chars(core) <= Charged(found)
    BY <1>0, <1>2, <1>3, <1>6, <1>7 DEF Bounded
  <2> QED BY <1>6, <1>7, <2>1, MaxOfTwo
<1>10. Len(core) <= Max({MaxCore, Cardinality(Filled(found))})
  <2>1. Len(core) <= MaxCore \/ Len(core) <= Len(T)
    BY <1>0, <1>2, <1>3, <1>4, <1>7 DEF Bounded
  <2> QED BY <1>3, <1>4, <1>7, <2>1, MaxOfTwo
<1>11. ASSUME NEW t \in Requested
       PROVE  Cardinality(OfSection(t)) = a.count[t] /\ Cardinality(OfSection(t)) <= Max({TypeSlots[t], 1})
  <2>1. OfSection(t) = OfType(core, t)
    BY <1>3 DEF OfType
  <2>2. Cardinality(OfSection(t)) = a.count[t] /\ (a.count[t] <= 1 \/ a.count[t] <= TypeSlots[t])
    BY <1>0, <1>2, <2>1 DEF Tallied
  <2>3. a.count[t] \in Nat
    BY <1>3, <1>7
  <2> HIDE DEF OfSection
  <2> QED BY <1>7, <2>2, <2>3, MaxOfTwo
<1>12. ASSUME NEW i \in 1..Len(core), NEW j \in 1..Len(core), i # j, core[i].note = core[j].note
       PROVE  core[i].section # core[j].section /\ core[i].note \in TopNotes(found)
  <2>1. ASSUME NEW m \in 1..Len(core)
        PROVE  \/ m \in 1..Len(T) /\ core[m] = T[m] /\ core[m].note \in TopNotes(found)
               \/ m > Len(T) /\ core[m].note \notin TopNotes(found)
    <3>1. CASE m \in 1..Len(T)
      <4>1. core[m] = T[m] /\ T[m].section \in Filled(found) /\ T[m] = Top(found, T[m].section)
        BY <1>4, <1>5, <3>1
      <4>2. T[m].note = Head(found[T[m].section])
        BY <4>1 DEF Top
      <4> QED BY <3>1, <4>1, <4>2 DEF TopNotes
    <3>2. CASE m > Len(T)
      <4>1. PICK k \in 1..Len(scored) : core[m].note = scored[k]
        BY <1>0, <1>2, <3>2 DEF Distinguished
      <4>2. scored[k] \in Extras(found)
        BY <1>1
      <4>3. scored[k] \notin TopNotes(found)
        BY <4>2, ExtraNotTop
      <4> QED BY <3>2, <4>1, <4>3
    <3> QED BY <1>4, <3>1, <3>2
  <2>2. ~(i > Len(T) /\ j > Len(T))
    BY <1>0, <1>2, <1>12 DEF Distinguished
  <2>3. i \in 1..Len(T) /\ j \in 1..Len(T)
    BY <1>12, <2>1, <2>2
  <2>4. core[i] = T[i] /\ core[j] = T[j]
    BY <1>5, <2>3
  <2> QED BY <1>4, <1>12, <2>1, <2>2, <2>3, <2>4
<1>13. ASSUME NEW n \in Extras(found), NoteType[n] \in Requested, \A i \in 1..Len(core) : core[i].note # n
       PROVE  \/ Cardinality(OfSection(NoteType[n])) >= TypeSlots[NoteType[n]]
              \/ a.placed >= MaxCore
              \/ \E m \in Extras(found) : a.charged + NoteSize[m] > CoreChars
  <2>1. PICK j \in 1..Len(scored) : scored[j] = n
    BY <1>1
  <2>2. \/ a.count[NoteType[n]] >= TypeSlots[NoteType[n]] \/ a.placed >= MaxCore \/ a.full
    BY <1>0, <1>2, <1>13, <2>1 DEF Excused
  <2>3. Cardinality(OfSection(NoteType[n])) = a.count[NoteType[n]]
    BY <1>11, <1>13
  <2> HIDE DEF OfSection
  <2> QED BY <1>2, <2>2, <2>3 DEF Misfit
<1>14. a.placed = c.placed /\ a.charged = c.charged /\ DOMAIN core = 1..Len(core)
  BY <1>3
<1> HIDE DEF T
<1>15. \A i, j \in DOMAIN core :
         i # j /\ core[i].note = core[j].note =>
           core[i].section # core[j].section /\ core[i].note \in TopNotes(found)
  BY <1>12, <1>14
<1>16. \A n \in Extras(found) :
         NoteType[n] \in Requested /\ (\A i \in DOMAIN core : core[i].note # n) =>
           \/ Cardinality(OfSection(NoteType[n])) >= TypeSlots[NoteType[n]]
           \/ c.placed >= MaxCore
           \/ \E m \in Extras(found) : c.charged + NoteSize[m] > CoreChars
  BY <1>13, <1>14
<1> QED BY <1>8, <1>9, <1>10, <1>11, <1>15, <1>16, Zenon DEF Held, found, core

LEMMA FoundTyped ==
  ASSUME NEW N \in SUBSET Note, NEW ranked \in FoundOf(N)
  PROVE  ranked \in Seq(Note)
<1>1. PICK S \in SUBSET N : ranked \in SetToSeqs(S)
  BY DEF FoundOf
<1>2. ranked \in [1..Cardinality(S) -> S]
  BY <1>1, Zenon DEF SetToSeqs
<1>3. IsFiniteSet(S) /\ Cardinality(S) \in Nat
  BY FS_Subset, FS_CardinalityType, ContextAssumption
<1> QED BY <1>2, <1>3

ContextInv == ContextTypeOK /\ ContextKept

LEMMA ContextNextInv == ContextInv /\ [ContextNext]_caVars => ContextInv'
<1> SUFFICES ASSUME ContextInv, [ContextNext]_caVars PROVE ContextInv'
  OBVIOUS
<1>t. context \in ContextState
  BY DEF ContextInv, ContextTypeOK
<1>f. context.found \in Finds
  BY <1>t DEF ContextState, Finds
<1>1. ASSUME NEW type \in Requested, RecallSection(type) PROVE ContextInv'
  <2>1. PICK ranked \in FoundOf({n \in Note : NoteType[n] = type}) :
          context' = [context EXCEPT !.left = @ \ {type}, !.found[type] = ranked,
                        !.at = IF context.left = {type} THEN "reflect" ELSE @]
    BY <1>1 DEF RecallSection
  <2>2. ranked \in Seq(Note)
    BY {n \in Note : NoteType[n] = type} \in SUBSET Note, FoundTyped
  <2>3. [context.found EXCEPT ![type] = ranked] \in Finds
    BY <1>f, <2>2 DEF Finds
  <2>4. context'.at # "done"
    BY <1>1, <1>t, <2>1 DEF ContextState, RecallSection
  <2>5. context' \in ContextState
    BY <1>t, <2>1, <2>3 DEF ContextState, Finds
  <2> QED BY <2>4, <2>5 DEF ContextInv, ContextTypeOK, ContextKept
<1>2. ASSUME RecallReflections PROVE ContextInv'
  <2>1. PICK ranked \in FoundOf(Told) :
          context' = [context EXCEPT !.found[Reflections] = ranked, !.at = "assemble"]
    BY <1>2 DEF RecallReflections
  <2>2. ranked \in Seq(Note)
    BY FoundTyped, ContextAssumption
  <2>3. [context.found EXCEPT ![Reflections] = ranked] \in Finds
    BY <1>f, <2>2 DEF Finds
  <2>4. context'.at # "done"
    BY <1>t, <2>1 DEF ContextState
  <2>5. context' \in ContextState
    BY <1>t, <2>1, <2>3 DEF ContextState, Finds
  <2> QED BY <2>4, <2>5 DEF ContextInv, ContextTypeOK, ContextKept
<1>3. ASSUME Assemble PROVE ContextInv'
  <2> DEFINE found == context.found
  <2>1. PICK scored \in SetToSeqs(Extras(found)) :
          LET a == Assembled(found, scored) IN
          context' = [context EXCEPT !.at = "done", !.core = a.core, !.placed = a.placed,
                        !.charged = a.charged]
    BY <1>3 DEF Assemble
  <2> DEFINE a == Assembled(found, scored)
  <2>2. Assembles(found, scored, Len(scored), a)
    BY <1>f, AssembledAssembles
  <2>3. a \in Filling
    BY <2>2 DEF Assembles
  <2> HIDE DEF a
  <2>4. /\ context' = [context EXCEPT !.at = "done", !.core = a.core, !.placed = a.placed,
                         !.charged = a.charged]
    BY <2>1 DEF a
  <2>5. context'.at = "done" /\ context'.found = context.found /\ context'.core = a.core
        /\ context'.placed = a.placed /\ context'.charged = a.charged
    BY <1>t, <2>4 DEF ContextState
  <2>6. context' \in ContextState
    BY <1>t, <2>3, <2>4 DEF ContextState, Filling
  <2>7. ContextKept'
    <3>1. Held(context')
      BY <1>f, <2>1, <2>5, AssembledKeeps DEF a
    <3>2. Held(context') => ContextKept'
      BY Zenon DEF Held, ContextKept
    <3> QED BY <3>1, <3>2
  <2> QED BY <2>6, <2>7 DEF ContextInv, ContextTypeOK
<1>4. ASSUME UNCHANGED caVars PROVE ContextInv'
  <2>1. context' = context
    BY <1>4 DEF caVars
  <2> QED BY <2>1 DEF ContextInv, ContextTypeOK, ContextKept
<1> QED BY <1>1, <1>2, <1>3, <1>4 DEF ContextNext

LEMMA ContextInvariance == ContextSpec => []ContextInv
<1>1. ContextInit => ContextInv
  <2> SUFFICES ASSUME ContextInit PROVE ContextInv
    OBVIOUS
  <2>1. [s \in Section |-> <<>>] \in [Section -> Seq(Note)] /\ <<>> \in Seq(Excerpt)
    OBVIOUS
  <2> QED BY <2>1 DEF ContextInit, ContextInv, ContextTypeOK, ContextState, ContextKept
<1> QED BY <1>1, ContextNextInv, PTL DEF ContextSpec

(***************************************************************************)
(* In whatever order the extras are scored, the best of each section is in *)
(* the core, the budgets are kept, nothing is there twice, and what is     *)
(* left out came upon a limit.                                             *)
(***************************************************************************)
THEOREM CoreKept == ContextSpec => []ContextKept
<1>1. ContextInv => ContextKept
  BY DEF ContextInv
<1> QED BY <1>1, ContextInvariance, PTL

\* What the call has found and put together is well typed.
THEOREM ContextTypeCorrect == ContextSpec => []ContextTypeOK
<1>1. ContextInv => ContextTypeOK
  BY DEF ContextInv
<1> QED BY <1>1, ContextInvariance, PTL

----------------------------------------------------------------------------
(***************************************************************************)
(* The reflect tool.                                                       *)
(***************************************************************************)
NoStop(x) == \A n \in 1..(Len(x) - 1) : x[n] \notin Closed
Has(s, e) == \E n \in 1..Len(s) : s[n] = e

----------------------------------------------------------------------------
(***************************************************************************)
(* The length of a text: it is added up scrap by scrap, so that of a text  *)
(* put together of two is the sum, and a part from the front is no longer. *)
(***************************************************************************)
IsExtent(sum, s) == /\ sum \in [0..Len(s) -> Nat] /\ sum[0] = 0
                    /\ \A n \in 1..Len(s) : sum[n] = sum[n - 1] + Length[s[n]]

LEMMA Extents ==
  ASSUME NEW s \in Seq(Scrap)
  PROVE  \E sum : IsExtent(sum, s) /\ Extent(s) = sum[Len(s)]
<1> DEFINE Adds(f) == f = [n \in 0..Len(s) |-> IF n = 0 THEN 0 ELSE f[n - 1] + Length[s[n]]]
           step == [n \in 1..Len(s) |-> [t \in Nat |-> t + Length[s[n]]]]
           sum == CHOOSE f : Adds(f)
<1>1. Len(s) \in Nat /\ \A n \in 1..Len(s) : s[n] \in Scrap /\ Length[s[n]] \in Nat
  BY ScrapAssumption
<1>2. step \in [1..Len(s) -> [Nat -> Nat]]
  BY <1>1
<1>3. PICK f \in [0..Len(s) -> Nat] : Recurs(f, step, 0, Len(s))
  <2> HIDE DEF step
  <2> QED BY <1>1, <1>2, RecursionDefines
<1>4. Adds(f)
  <2>1. \A n \in 1..Len(s) : n - 1 \in 0..Len(s) /\ f[n - 1] \in Nat
    BY <1>1
  <2>2. \A n \in 1..Len(s) : f[n] = f[n - 1] + Length[s[n]]
    BY <1>1, <1>3, <2>1 DEF Recurs
  <2>3. \A n \in 0..Len(s) : f[n] = IF n = 0 THEN 0 ELSE f[n - 1] + Length[s[n]]
    BY <1>1, <1>3, <2>2 DEF Recurs
  <2> QED BY <2>3
<1>5. Adds(sum)
  <2> HIDE DEF Adds
  <2> QED BY <1>4
<1> HIDE DEF sum
<1>6. sum[0] = 0 /\ \A n \in 1..Len(s) : sum[n] = sum[n - 1] + Length[s[n]]
  BY <1>1, <1>5
<1>7. sum \in [0..Len(s) -> Nat]
  <2> DEFINE T == {n \in 0..Len(s) : sum[n] \in Nat}
  <2>1. 0 \in T
    BY <1>1, <1>6
  <2>2. ASSUME NEW n \in 1..Len(s), n - 1 \in T PROVE n \in T
    <3>1. sum[n - 1] \in Nat /\ n \in 0..Len(s)
      BY <2>2
    <3> QED BY <1>1, <1>6, <3>1
  <2>3. 0..Len(s) \subseteq T
    <3> HIDE DEF T
    <3> QED BY <1>1, <2>1, <2>2, UpTo
  <2> QED BY <1>5, <2>3
<1>8. Extent(s) = sum[Len(s)]
  BY Zenon DEF Extent, sum
<1> QED BY <1>6, <1>7, <1>8 DEF IsExtent

\* where two texts agree their lengths do
LEMMA ExtentsAgree ==
  ASSUME NEW s, NEW t, NEW f, NEW g, IsExtent(f, s), IsExtent(g, t), NEW N \in Nat,
         N <= Len(s), N <= Len(t), Len(s) \in Nat, Len(t) \in Nat, \A n \in 1..N : s[n] = t[n]
  PROVE  f[N] = g[N]
<1> DEFINE T == {n \in 0..N : f[n] = g[n]}
<1>1. 0 \in T
  BY DEF IsExtent
<1>2. ASSUME NEW n \in 1..N, n - 1 \in T PROVE n \in T
  <2>1. n \in 1..Len(s) /\ n \in 1..Len(t)
    OBVIOUS
  <2>2. s[n] = t[n] /\ f[n - 1] = g[n - 1] /\ n \in 0..N
    BY <1>2
  <2>3. /\ f[n] = f[n - 1] + Length[s[n]]
        /\ g[n] = g[n - 1] + Length[t[n]]
    BY <2>1 DEF IsExtent
  <2> QED BY <2>2, <2>3
<1>3. 0..N \subseteq T
  <2> HIDE DEF T
  <2> QED BY <1>1, <1>2, UpTo
<1> QED BY <1>3, N \in 0..N

LEMMA ExtentNat == ASSUME NEW s \in Seq(Scrap) PROVE Extent(s) \in Nat
<1>1. PICK f : IsExtent(f, s) /\ Extent(s) = f[Len(s)]
  BY Extents
<1> QED BY <1>1, Len(s) \in 0..Len(s) DEF IsExtent

LEMMA ExtentGrows ==
  ASSUME NEW s \in Seq(Scrap), NEW f, IsExtent(f, s), NEW m \in 0..Len(s)
  PROVE  f[m] <= f[Len(s)]
<1> DEFINE T == {n \in 0..(Len(s) - m) : f[m] <= f[m + n]}
<1>1. Len(s) \in Nat /\ Len(s) - m \in Nat
  OBVIOUS
<1>2. 0 \in T
  BY DEF IsExtent
<1>3. ASSUME NEW n \in 1..(Len(s) - m), n - 1 \in T PROVE n \in T
  <2>1. /\ m + n \in 1..Len(s) /\ m + n - 1 \in 0..Len(s) /\ m + n \in 0..Len(s) /\ m + (n - 1) = m + n - 1
    BY <1>1
  <2>2. Length[s[m + n]] \in Nat /\ f[m + n - 1] \in Nat /\ f[m] \in Nat
    <3>1. s[m + n] \in Scrap
      BY <2>1
    <3>2. f \in [0..Len(s) -> Nat]
      BY DEF IsExtent
    <3> QED BY <2>1, <3>1, <3>2, ScrapAssumption
  <2>3. f[m + n] = f[m + n - 1] + Length[s[m + n]]
    BY <2>1 DEF IsExtent
  <2> QED BY <1>3, <2>1, <2>2, <2>3
<1>4. 0..(Len(s) - m) \subseteq T
  <2> HIDE DEF T
  <2> QED BY <1>1, <1>2, <1>3, UpTo
<1>5. Len(s) - m \in T
  <2>1. Len(s) - m \in 0..(Len(s) - m)
    BY <1>1
  <2> HIDE DEF T
  <2> QED BY <1>4, <2>1
<1>6. m + (Len(s) - m) = Len(s)
  BY <1>1
<1> QED BY <1>5, <1>6

LEMMA ExtentPrefix ==
  ASSUME NEW s \in Seq(Scrap), NEW m \in 1..Len(s)
  PROVE  Extent(SubSeq(s, 1, m)) <= Extent(s)
<1> DEFINE t == SubSeq(s, 1, m)
<1>1. t \in Seq(Scrap) /\ Len(t) = m /\ \A n \in 1..m : t[n] = s[n]
  OBVIOUS
<1> HIDE DEF t
<1>2. PICK f : IsExtent(f, s) /\ Extent(s) = f[Len(s)]
  BY Extents
<1>3. PICK g : IsExtent(g, t) /\ Extent(t) = g[Len(t)]
  BY <1>1, Extents
<1>4. f[m] = g[m]
  BY <1>1, <1>2, <1>3, ExtentsAgree
<1>5. f[m] <= f[Len(s)]
  BY <1>2, ExtentGrows
<1> QED BY <1>1, <1>2, <1>3, <1>4, <1>5 DEF t

LEMMA ExtentConcat ==
  ASSUME NEW s \in Seq(Scrap), NEW t \in Seq(Scrap)
  PROVE  Extent(s \o t) = Extent(s) + Extent(t)
<1> DEFINE u == s \o t
<1>1. /\ u \in Seq(Scrap) /\ Len(u) = Len(s) + Len(t) /\ Len(s) \in Nat /\ Len(t) \in Nat
      /\ \A n \in 1..Len(s) : u[n] = s[n]
      /\ \A n \in 1..Len(t) : u[Len(s) + n] = t[n]
  OBVIOUS
<1> HIDE DEF u
<1>2. PICK f : IsExtent(f, s) /\ Extent(s) = f[Len(s)]
  BY Extents
<1>3. PICK g : IsExtent(g, t) /\ Extent(t) = g[Len(t)]
  BY Extents
<1>4. PICK h : IsExtent(h, u) /\ Extent(u) = h[Len(u)]
  BY <1>1, Extents
<1>5. h[Len(s)] = f[Len(s)] /\ f[Len(s)] \in Nat
  <2>1. h[Len(s)] = f[Len(s)]
    <3>1. Len(s) <= Len(u) /\ Len(s) <= Len(s)
      BY <1>1
    <3> QED BY <1>1, <1>2, <1>4, <3>1, ExtentsAgree
  <2> QED BY <1>1, <1>2, <2>1, Len(s) \in 0..Len(s) DEF IsExtent
<1> DEFINE T == {n \in 0..Len(t) : h[Len(s) + n] = f[Len(s)] + g[n]}
<1>6. 0 \in T
  BY <1>1, <1>3, <1>5 DEF IsExtent
<1>7. ASSUME NEW n \in 1..Len(t), n - 1 \in T PROVE n \in T
  <2>1. /\ Len(s) + n \in 1..Len(u) /\ Len(s) + n - 1 = Len(s) + (n - 1)
        /\ n - 1 \in 0..Len(t) /\ n \in 0..Len(t)
    BY <1>1
  <2>2. Length[t[n]] \in Nat /\ g[n - 1] \in Nat
    <3>1. t[n] \in Scrap
      BY <1>1
    <3>2. g \in [0..Len(t) -> Nat]
      BY <1>3 DEF IsExtent
    <3> QED BY <2>1, <3>1, <3>2, ScrapAssumption
  <2>3. h[Len(s) + n] = h[Len(s) + (n - 1)] + Length[t[n]] /\ g[n] = g[n - 1] + Length[t[n]]
    <3>1. h[Len(s) + n] = h[Len(s) + n - 1] + Length[u[Len(s) + n]]
      BY <1>4, <2>1 DEF IsExtent
    <3>2. g[n] = g[n - 1] + Length[t[n]] /\ u[Len(s) + n] = t[n]
      BY <1>1, <1>3 DEF IsExtent
    <3> QED BY <2>1, <3>1, <3>2
  <2> QED BY <1>5, <1>7, <2>1, <2>2, <2>3
<1>8. 0..Len(t) \subseteq T
  <2> HIDE DEF T
  <2> QED BY <1>1, <1>6, <1>7, UpTo
<1>9. Len(t) \in T
  <2>1. Len(t) \in 0..Len(t)
    BY <1>1
  <2> HIDE DEF T
  <2> QED BY <1>8, <2>1
<1> QED BY <1>1, <1>2, <1>3, <1>4, <1>9 DEF u

----------------------------------------------------------------------------
(***************************************************************************)
(* The loops over the scraps and over their sentences, each as a function  *)
(* of the rounds done.                                                     *)
(***************************************************************************)
Wording == {Marked(e) : e \in Scrap}
Clause == Seq(Scrap) \ {<<>>}

\* one more fact, if the scrap is one
Picked(facts, e) == IF Category[e] = "summary" THEN Append(facts, e) ELSE facts

IsOneEach(f, s, k) == /\ f \in [0..Len(s) -> Seq(Wording)] /\ f[0] = <<>>
                  /\ \A n \in 1..Len(s) : f[n] = Include(f[n - 1], s[n], k)

\* the items of a category
LEMMA OneEachLoop ==
  ASSUME NEW s \in Seq(Scrap), NEW k
  PROVE  \E f : IsOneEach(f, s, k) /\ OneEach(s, k) = f[Len(s)]
<1> DEFINE Loops(f) == f = [n \in 0..Len(s) |-> IF n = 0 THEN <<>> ELSE Include(f[n - 1], s[n], k)]
           step == [n \in 1..Len(s) |-> [t \in Seq(Wording) |-> Include(t, s[n], k)]]
           loop == CHOOSE f : Loops(f)
<1>1. Len(s) \in Nat /\ \A n \in 1..Len(s) : s[n] \in Scrap
  OBVIOUS
<1>2. <<>> \in Seq(Wording)
  OBVIOUS
<1>3. \A n \in 1..Len(s), t \in Seq(Wording) : Include(t, s[n], k) \in Seq(Wording)
  BY <1>1 DEF Include, Wording
<1>4. PICK f \in [0..Len(s) -> Seq(Wording)] : Recurs(f, step, <<>>, Len(s))
  <2>1. step \in [1..Len(s) -> [Seq(Wording) -> Seq(Wording)]]
    BY <1>3
  <2> HIDE DEF step
  <2> QED BY <1>1, <1>2, <2>1, RecursionDefines
<1>5. Loops(f)
  <2>1. ASSUME NEW n \in 1..Len(s) PROVE n - 1 \in 0..Len(s) /\ f[n - 1] \in Seq(Wording)
    <3> HIDE DEF step
    <3>1. n - 1 \in 0..Len(s)
      BY <1>1
    <3> QED BY <3>1, Zenon
  <2>2. \A n \in 1..Len(s) : f[n] = Include(f[n - 1], s[n], k)
    BY <1>1, <1>4, <2>1 DEF Recurs
  <2>3. \A n \in 0..Len(s) : f[n] = IF n = 0 THEN <<>> ELSE Include(f[n - 1], s[n], k)
    BY <1>1, <1>4, <2>2 DEF Recurs
  <2> QED BY <2>3
<1>6. Loops(loop)
  <2> HIDE DEF Loops
  <2> QED BY <1>5
<1>7. OneEach(s, k) = loop[Len(s)]
  BY Zenon DEF OneEach, loop
<1> HIDE DEF loop
<1>8. loop[0] = <<>> /\ \A n \in 1..Len(s) : loop[n] = Include(loop[n - 1], s[n], k)
  BY <1>1, <1>6
<1>9. loop \in [0..Len(s) -> Seq(Wording)]
  <2> DEFINE T == {n \in 0..Len(s) : loop[n] \in Seq(Wording)}
  <2>1. 0 \in T
    <3>1. 0 \in 0..Len(s)
      BY <1>1
    <3> QED BY <1>2, <1>8, <3>1, Zenon
  <2>2. ASSUME NEW n \in 1..Len(s), n - 1 \in T PROVE n \in T
    <3>1. loop[n - 1] \in Seq(Wording) /\ n \in 0..Len(s)
      BY <2>2
    <3> QED BY <1>3, <1>8, <3>1
  <2>3. 0..Len(s) \subseteq T
    <3> HIDE DEF T
    <3> QED BY <1>1, <2>1, <2>2, UpTo
  <2> QED BY <1>6, <2>3
<1> QED BY <1>7, <1>8, <1>9 DEF IsOneEach

IsFacts(f, s) == /\ f \in [0..Len(s) -> Seq(Scrap)] /\ f[0] = <<>>
                /\ \A n \in 1..Len(s) : f[n] = Picked(f[n - 1], s[n])

\* the scraps for the summary
LEMMA FactsLoop ==
  ASSUME NEW s \in Seq(Scrap)
  PROVE  \E f : IsFacts(f, s) /\ FactsOf(s) = f[Len(s)]
<1> DEFINE Loops(f) == f = [n \in 0..Len(s) |-> IF n = 0 THEN <<>> ELSE Picked(f[n - 1], s[n])]
           step == [n \in 1..Len(s) |-> [t \in Seq(Scrap) |-> Picked(t, s[n])]]
           loop == CHOOSE f : Loops(f)
<1>1. Len(s) \in Nat /\ \A n \in 1..Len(s) : s[n] \in Scrap
  OBVIOUS
<1>2. <<>> \in Seq(Scrap)
  OBVIOUS
<1>3. \A n \in 1..Len(s), t \in Seq(Scrap) : Picked(t, s[n]) \in Seq(Scrap)
  BY <1>1 DEF Picked
<1>4. PICK f \in [0..Len(s) -> Seq(Scrap)] : Recurs(f, step, <<>>, Len(s))
  <2>1. step \in [1..Len(s) -> [Seq(Scrap) -> Seq(Scrap)]]
    BY <1>3
  <2> HIDE DEF step
  <2> QED BY <1>1, <1>2, <2>1, RecursionDefines
<1>5. Loops(f)
  <2> HIDE DEF Loops, step
  <2>0. \A n \in 1..Len(s) : n - 1 \in 0..Len(s)
    BY <1>1
  <2>1. \A n \in 1..Len(s) : n - 1 \in 0..Len(s) /\ f[n - 1] \in Seq(Scrap)
    BY <1>4, <2>0, Zenon
  <2>2. ASSUME NEW n \in 1..Len(s) PROVE f[n] = Picked(f[n - 1], s[n])
    <3>1. f[n] = step[n][f[n - 1]] /\ f[n - 1] \in Seq(Scrap)
      BY <1>4, <2>1 DEF Recurs
    <3>2. step[n] = [t \in Seq(Scrap) |-> Picked(t, s[n])]
      BY DEF step
    <3> QED BY <3>1, <3>2, Zenon
  <2>3. \A n \in 0..Len(s) : f[n] = IF n = 0 THEN <<>> ELSE Picked(f[n - 1], s[n])
    BY <1>1, <1>4, <2>2 DEF Recurs
  <2> QED BY <2>3 DEF Loops
<1>6. Loops(loop)
  <2> HIDE DEF Loops
  <2> QED BY <1>5
<1>7. FactsOf(s) = loop[Len(s)]
  BY Zenon DEF FactsOf, Picked, loop
<1> HIDE DEF loop
<1>8. loop[0] = <<>> /\ \A n \in 1..Len(s) : loop[n] = Picked(loop[n - 1], s[n])
  BY <1>1, <1>6
<1>9. loop \in [0..Len(s) -> Seq(Scrap)]
  <2> DEFINE T == {n \in 0..Len(s) : loop[n] \in Seq(Scrap)}
  <2>1. 0 \in T
    <3>1. 0 \in 0..Len(s)
      BY <1>1
    <3> QED BY <1>2, <1>8, <3>1, Zenon
  <2>2. ASSUME NEW n \in 1..Len(s), n - 1 \in T PROVE n \in T
    <3>1. loop[n - 1] \in Seq(Scrap) /\ n \in 0..Len(s)
      BY <2>2
    <3> QED BY <1>3, <1>8, <3>1
  <2>3. 0..Len(s) \subseteq T
    <3> HIDE DEF T
    <3> QED BY <1>1, <2>1, <2>2, UpTo
  <2> QED BY <1>6, <2>3
<1> QED BY <1>7, <1>8, <1>9 DEF IsFacts

LEMMA RunOnType == ASSUME NEW done \in Seq(Clause), NEW e \in Scrap PROVE RunOn(done, e) \in Seq(Clause)
<1>1. <<e>> \in Clause
  BY DEF Clause
<1>2. CASE done = <<>> \/ Last(Last(done)) \in Closed
  BY <1>1, <1>2 DEF RunOn
<1>3. CASE ~(done = <<>> \/ Last(Last(done)) \in Closed)
  <2>1. Len(done) \in 1..Len(done) /\ done[Len(done)] \in Clause
    BY <1>3
  <2>2. Append(done[Len(done)], e) \in Clause
    BY <2>1 DEF Clause
  <2>3. RunOn(done, e) = [done EXCEPT ![Len(done)] = Append(done[Len(done)], e)]
    BY <1>3 DEF RunOn
  <2> HIDE DEF Clause
  <2> QED BY <2>1, <2>2, <2>3
<1> QED BY <1>2, <1>3

IsSentences(f, s) == /\ f \in [0..Len(s) -> Seq(Clause)] /\ f[0] = <<>>
                    /\ \A n \in 1..Len(s) : f[n] = RunOn(f[n - 1], s[n])

\* the sentences of a text
LEMMA SentencesLoop ==
  ASSUME NEW s \in Seq(Scrap)
  PROVE  \E f : IsSentences(f, s) /\ Sentences(s) = f[Len(s)]
<1> DEFINE Loops(f) == f = [n \in 0..Len(s) |-> IF n = 0 THEN <<>> ELSE RunOn(f[n - 1], s[n])]
           step == [n \in 1..Len(s) |-> [t \in Seq(Clause) |-> RunOn(t, s[n])]]
           loop == CHOOSE f : Loops(f)
<1>1. Len(s) \in Nat /\ \A n \in 1..Len(s) : s[n] \in Scrap
  OBVIOUS
<1>2. <<>> \in Seq(Clause)
  OBVIOUS
<1>3. \A n \in 1..Len(s), t \in Seq(Clause) : RunOn(t, s[n]) \in Seq(Clause)
  BY <1>1, RunOnType
<1>4. PICK f \in [0..Len(s) -> Seq(Clause)] : Recurs(f, step, <<>>, Len(s))
  <2>1. step \in [1..Len(s) -> [Seq(Clause) -> Seq(Clause)]]
    BY <1>3
  <2> HIDE DEF step
  <2> QED BY <1>1, <1>2, <2>1, RecursionDefines
<1>5. Loops(f)
  <2>1. ASSUME NEW n \in 1..Len(s) PROVE n - 1 \in 0..Len(s) /\ f[n - 1] \in Seq(Clause)
    <3> HIDE DEF step
    <3>1. n - 1 \in 0..Len(s)
      BY <1>1
    <3> QED BY <3>1, Zenon
  <2>2. \A n \in 1..Len(s) : f[n] = RunOn(f[n - 1], s[n])
    BY <1>1, <1>4, <2>1 DEF Recurs
  <2>3. \A n \in 0..Len(s) : f[n] = IF n = 0 THEN <<>> ELSE RunOn(f[n - 1], s[n])
    BY <1>1, <1>4, <2>2 DEF Recurs
  <2> QED BY <2>3
<1>6. Loops(loop)
  <2> HIDE DEF Loops
  <2> QED BY <1>5
<1>7. Sentences(s) = loop[Len(s)]
  BY Zenon DEF Sentences, loop
<1> HIDE DEF loop
<1>8. loop[0] = <<>> /\ \A n \in 1..Len(s) : loop[n] = RunOn(loop[n - 1], s[n])
  BY <1>1, <1>6
<1>9. loop \in [0..Len(s) -> Seq(Clause)]
  <2> DEFINE T == {n \in 0..Len(s) : loop[n] \in Seq(Clause)}
  <2>1. 0 \in T
    <3>1. 0 \in 0..Len(s)
      BY <1>1
    <3> QED BY <1>2, <1>8, <3>1, Zenon
  <2>2. ASSUME NEW n \in 1..Len(s), n - 1 \in T PROVE n \in T
    <3>1. loop[n - 1] \in Seq(Clause) /\ n \in 0..Len(s)
      BY <2>2
    <3> QED BY <1>3, <1>8, <3>1
  <2>3. 0..Len(s) \subseteq T
    <3> HIDE DEF T
    <3> QED BY <1>1, <2>1, <2>2, UpTo
  <2> QED BY <1>6, <2>3
<1> QED BY <1>7, <1>8, <1>9 DEF IsSentences

LEMMA FitType == ASSUME NEW done \in Seq(Clause), NEW x \in Clause PROVE Fit(done, x) \in Seq(Clause)
<1>2. CASE done = <<>> \/ Extent(Last(done)) + Extent(x) > MaxLength
  BY <1>2 DEF Fit
<1>3. CASE ~(done = <<>> \/ Extent(Last(done)) + Extent(x) > MaxLength)
  <2>1. Len(done) \in 1..Len(done) /\ done[Len(done)] \in Clause
    BY <1>3
  <2>2. done[Len(done)] \o x \in Clause
    BY <2>1 DEF Clause
  <2>3. Fit(done, x) = [done EXCEPT ![Len(done)] = done[Len(done)] \o x]
    BY <1>3 DEF Fit
  <2> HIDE DEF Clause
  <2> QED BY <2>1, <2>2, <2>3
<1> QED BY <1>2, <1>3

IsChunks(f, x) == /\ f \in [0..Len(x) -> Seq(Clause)] /\ f[0] = <<>>
                 /\ \A n \in 1..Len(x) : f[n] = Fit(f[n - 1], x[n])

\* the parts sentences are put together to
LEMMA ChunksLoop ==
  ASSUME NEW x \in Seq(Clause)
  PROVE  \E f : IsChunks(f, x) /\ Chunked(x) = f[Len(x)]
<1> DEFINE Loops(f) == f = [n \in 0..Len(x) |-> IF n = 0 THEN <<>> ELSE Fit(f[n - 1], x[n])]
           step == [n \in 1..Len(x) |-> [t \in Seq(Clause) |-> Fit(t, x[n])]]
           loop == CHOOSE f : Loops(f)
<1>1. Len(x) \in Nat /\ \A n \in 1..Len(x) : x[n] \in Clause
  OBVIOUS
<1>2. <<>> \in Seq(Clause)
  OBVIOUS
<1>3. \A n \in 1..Len(x), t \in Seq(Clause) : Fit(t, x[n]) \in Seq(Clause)
  BY <1>1, FitType
<1>4. PICK f \in [0..Len(x) -> Seq(Clause)] : Recurs(f, step, <<>>, Len(x))
  <2>1. step \in [1..Len(x) -> [Seq(Clause) -> Seq(Clause)]]
    BY <1>3
  <2> HIDE DEF step
  <2> QED BY <1>1, <1>2, <2>1, RecursionDefines
<1>5. Loops(f)
  <2> HIDE DEF Loops, step
  <2>0. \A n \in 1..Len(x) : n - 1 \in 0..Len(x)
    BY <1>1
  <2>1. \A n \in 1..Len(x) : n - 1 \in 0..Len(x) /\ f[n - 1] \in Seq(Clause)
    BY <1>4, <2>0, Zenon
  <2>2. ASSUME NEW n \in 1..Len(x) PROVE f[n] = Fit(f[n - 1], x[n])
    <3>1. f[n] = step[n][f[n - 1]] /\ f[n - 1] \in Seq(Clause)
      BY <1>4, <2>1 DEF Recurs
    <3>2. step[n] = [t \in Seq(Clause) |-> Fit(t, x[n])]
      BY DEF step
    <3> QED BY <3>1, <3>2, Zenon
  <2>3. \A n \in 0..Len(x) : f[n] = IF n = 0 THEN <<>> ELSE Fit(f[n - 1], x[n])
    BY <1>1, <1>4, <2>2 DEF Recurs
  <2> QED BY <2>3 DEF Loops
<1>6. Loops(loop)
  <2> HIDE DEF Loops
  <2> QED BY <1>5
<1>7. Chunked(x) = loop[Len(x)]
  BY Zenon DEF Chunked, loop
<1> HIDE DEF loop
<1>8. loop[0] = <<>> /\ \A n \in 1..Len(x) : loop[n] = Fit(loop[n - 1], x[n])
  BY <1>1, <1>6
<1>9. loop \in [0..Len(x) -> Seq(Clause)]
  <2> DEFINE T == {n \in 0..Len(x) : loop[n] \in Seq(Clause)}
  <2>1. 0 \in T
    <3>1. 0 \in 0..Len(x)
      BY <1>1
    <3> QED BY <1>2, <1>8, <3>1, Zenon
  <2>2. ASSUME NEW n \in 1..Len(x), n - 1 \in T PROVE n \in T
    <3>1. loop[n - 1] \in Seq(Clause) /\ n \in 0..Len(x)
      BY <2>2
    <3> QED BY <1>3, <1>8, <3>1
  <2>3. 0..Len(x) \subseteq T
    <3> HIDE DEF T
    <3> QED BY <1>1, <2>1, <2>2, UpTo
  <2> QED BY <1>6, <2>3
<1> QED BY <1>7, <1>8, <1>9 DEF IsChunks

----------------------------------------------------------------------------
\* Every scrap of a category is among its items.
LEMMA OneEachHas ==
  ASSUME NEW s \in Seq(Scrap), NEW k
  PROVE  /\ OneEach(s, k) \in Seq(Wording)
         /\ \A n \in 1..Len(s) : Category[s[n]] = k => Has(OneEach(s, k), Marked(s[n]))
<1>1. PICK f : IsOneEach(f, s, k) /\ OneEach(s, k) = f[Len(s)]
  BY OneEachLoop
<1> DEFINE T == {n \in 0..Len(s) : \A m \in 1..n : Category[s[m]] = k => Has(f[n], Marked(s[m]))}
<1>2. 0 \in T
  OBVIOUS
<1>3. ASSUME NEW n \in 1..Len(s), n - 1 \in T PROVE n \in T
  <2> DEFINE done == f[n - 1]
  <2>1. /\ n - 1 \in 0..Len(s) /\ n \in 0..Len(s) /\ done \in Seq(Wording) /\ f[n] = Include(done, s[n], k)
        /\ s[n] \in Scrap /\ Marked(s[n]) \in Wording
    BY <1>1 DEF IsOneEach, Wording
  <2>2. \A m \in 1..(n - 1) : Category[s[m]] = k => Has(done, Marked(s[m]))
    BY <1>3
  <2> HIDE DEF done
  <2>3. ASSUME NEW m \in 1..n, Category[s[m]] = k PROVE Has(f[n], Marked(s[m]))
    <3>1. m = n \/ m \in 1..(n - 1)
      OBVIOUS
    <3>2. CASE f[n] = done
      <4>1. m = n => Has(done, Marked(s[n]))
        <5>1. CASE Contains(done, Marked(s[n]))
          BY <5>1 DEF Contains, Has
        <5>2. CASE ~Contains(done, Marked(s[n])) /\ m = n
          <6>1. Append(done, Marked(s[n])) = done
            BY <2>1, <2>3, <3>2, <5>2 DEF Include
          <6>2. Len(Append(done, Marked(s[n]))) = Len(done) + 1 /\ Len(done) \in Nat
            BY <2>1
          <6> QED BY <6>1, <6>2
        <5> QED BY <5>1, <5>2
      <4> QED BY <2>2, <2>3, <3>1, <3>2, <4>1
    <3>3. CASE f[n] = Append(done, Marked(s[n]))
      <4>1. /\ Len(f[n]) = Len(done) + 1 /\ f[n][Len(done) + 1] = Marked(s[n]) /\ Len(done) \in Nat
            /\ \A i \in 1..Len(done) : f[n][i] = done[i]
        BY <2>1, <3>3
      <4>2. Len(done) + 1 \in 1..Len(f[n]) /\ \A i \in 1..Len(done) : i \in 1..Len(f[n])
        BY <4>1
      <4> QED BY <2>2, <2>3, <3>1, <4>1, <4>2 DEF Has
    <3> QED BY <2>1, <3>2, <3>3 DEF Include
  <2> QED BY <2>1, <2>3
<1>4. 0..Len(s) \subseteq T
  <2> HIDE DEF T
  <2> QED BY <1>2, <1>3, UpTo, Len(s) \in Nat
<1>5. Len(s) \in 0..Len(s)
  OBVIOUS
<1> QED BY <1>1, <1>4, <1>5 DEF IsOneEach

\* Every scrap for the summary is among its facts.
LEMMA FactsHas ==
  ASSUME NEW s \in Seq(Scrap)
  PROVE  /\ FactsOf(s) \in Seq(Scrap)
         /\ \A n \in 1..Len(s) : Category[s[n]] = "summary" => Has(FactsOf(s), s[n])
<1>1. PICK f : IsFacts(f, s) /\ FactsOf(s) = f[Len(s)]
  BY FactsLoop
<1> DEFINE T == {n \in 0..Len(s) : \A m \in 1..n : Category[s[m]] = "summary" => Has(f[n], s[m])}
<1>2. 0 \in T
  OBVIOUS
<1>3. ASSUME NEW n \in 1..Len(s), n - 1 \in T PROVE n \in T
  <2> DEFINE done == f[n - 1]
  <2>1. /\ n - 1 \in 0..Len(s) /\ n \in 0..Len(s) /\ done \in Seq(Scrap) /\ f[n] = Picked(done, s[n])
        /\ s[n] \in Scrap
    BY <1>1 DEF IsFacts
  <2>2. \A m \in 1..(n - 1) : Category[s[m]] = "summary" => Has(done, s[m])
    BY <1>3
  <2> HIDE DEF done
  <2>3. ASSUME NEW m \in 1..n, Category[s[m]] = "summary" PROVE Has(f[n], s[m])
    <3>1. m = n \/ m \in 1..(n - 1)
      OBVIOUS
    <3>2. CASE Category[s[n]] # "summary"
      BY <2>1, <2>2, <2>3, <3>1, <3>2 DEF Picked
    <3>3. CASE Category[s[n]] = "summary"
      <4>0. f[n] = Append(done, s[n])
        BY <2>1, <3>3 DEF Picked
      <4>1. /\ Len(f[n]) = Len(done) + 1 /\ f[n][Len(done) + 1] = s[n] /\ Len(done) \in Nat
            /\ \A i \in 1..Len(done) : f[n][i] = done[i]
        BY <2>1, <4>0
      <4>2. Len(done) + 1 \in 1..Len(f[n]) /\ \A i \in 1..Len(done) : i \in 1..Len(f[n])
        BY <4>1
      <4> QED BY <2>2, <2>3, <3>1, <4>1, <4>2 DEF Has
    <3> QED BY <3>2, <3>3
  <2> QED BY <2>1, <2>3
<1>4. 0..Len(s) \subseteq T
  <2> HIDE DEF T
  <2> QED BY <1>2, <1>3, UpTo, Len(s) \in Nat
<1>5. Len(s) \in 0..Len(s)
  OBVIOUS
<1> QED BY <1>1, <1>4, <1>5 DEF IsFacts

\* A text put after others, or a text that goes on: what was there stays.
Extends(done, next, x) ==
  /\ Len(done) \in Nat /\ Len(next) \in Nat /\ Len(next) \in 1..Len(next)
  /\ \A i \in 1..Len(next) : i = Len(next) \/ (i \in 1..Len(done) /\ next[i] = done[i])
  /\ \A e : Has(x, e) => Has(next[Len(next)], e)
  /\ \A i \in 1..Len(done) : \A e : Has(done[i], e) => \E j \in 1..Len(next) : Has(next[j], e)

LEMMA Extended ==
  ASSUME NEW done \in Seq(Clause), NEW next \in Seq(Clause), NEW x \in Clause,
         \/ next = Append(done, x)
         \/ /\ done # <<>>
            /\ next = [done EXCEPT ![Len(done)] = done[Len(done)] \o x]
  PROVE  Extends(done, next, x)
<1>1. x \in Seq(Scrap) /\ Len(x) \in Nat /\ Len(done) \in Nat /\ Len(next) \in Nat
  BY DEF Clause
<1>2. CASE next = Append(done, x)
  <2>1. /\ Len(next) = Len(done) + 1 /\ next[Len(next)] = x /\ Len(next) \in 1..Len(next)
        /\ \A i \in 1..Len(next) : i = Len(next) \/ i \in 1..Len(done)
        /\ \A i \in 1..Len(done) : i \in 1..Len(next) /\ next[i] = done[i]
    BY <1>1, <1>2
  <2> QED BY <1>1, <2>1 DEF Extends
<1>3. CASE done # <<>> /\ next = [done EXCEPT ![Len(done)] = done[Len(done)] \o x]
  <2> DEFINE last == done[Len(done)]
  <2>1. /\ Len(done) \in 1..Len(done) /\ Len(next) = Len(done) /\ next[Len(next)] = last \o x
        /\ \A i \in 1..Len(next) : i = Len(next) \/ (i \in 1..Len(done) /\ next[i] = done[i])
        /\ last \in Clause
    BY <1>1, <1>3
  <2>2. last \in Seq(Scrap) /\ Len(last) \in Nat
    BY <2>1 DEF Clause
  <2> HIDE DEF last
  <2>3. /\ Len(last \o x) = Len(last) + Len(x)
        /\ \A i \in 1..Len(last) : (last \o x)[i] = last[i]
        /\ \A i \in 1..Len(x) : (last \o x)[Len(last) + i] = x[i]
    BY <1>1, <2>2
  <2>4. \A e : Has(x, e) => Has(last \o x, e)
    <3> SUFFICES ASSUME NEW i \in 1..Len(x) PROVE Has(last \o x, x[i])
      BY DEF Has
    <3>1. Len(last) + i \in 1..Len(last \o x)
      BY <1>1, <2>2, <2>3
    <3> QED BY <2>3, <3>1 DEF Has
  <2>5. \A e : Has(last, e) => Has(last \o x, e)
    <3> SUFFICES ASSUME NEW i \in 1..Len(last) PROVE Has(last \o x, last[i])
      BY DEF Has
    <3>1. i \in 1..Len(last \o x)
      BY <1>1, <2>2, <2>3
    <3> QED BY <2>3, <3>1 DEF Has
  <2>6. ASSUME NEW i \in 1..Len(done), NEW e, Has(done[i], e) PROVE \E j \in 1..Len(next) : Has(next[j], e)
    <3>1. CASE i = Len(done)
      <4>1. Has(next[Len(next)], e)
        BY <2>1, <2>5, <2>6, <3>1 DEF last
      <4> QED BY <2>1, <4>1
    <3>2. CASE i # Len(done)
      <4>1. i \in 1..Len(next) /\ next[i] = done[i]
        BY <2>1, <3>2
      <4> QED BY <2>6, <4>1
    <3> QED BY <3>1, <3>2
  <2> QED BY <1>1, <2>1, <2>4, <2>6 DEF Extends
<1> QED BY <1>2, <1>3

(***************************************************************************)
(* No sentence has a full stop before its end, and every scrap of the text *)
(* is in one.                                                              *)
(***************************************************************************)
LEMMA SentencesKeep ==
  ASSUME NEW s \in Seq(Scrap)
  PROVE  /\ Sentences(s) \in Seq(Clause) /\ \A i \in 1..Len(Sentences(s)) : NoStop(Sentences(s)[i])
         /\ \A n \in 1..Len(s) : \E i \in 1..Len(Sentences(s)) : Has(Sentences(s)[i], s[n])
<1>1. PICK f : IsSentences(f, s) /\ Sentences(s) = f[Len(s)]
  BY SentencesLoop
<1> DEFINE T == {n \in 0..Len(s) : /\ \A i \in 1..Len(f[n]) : NoStop(f[n][i])
                                   /\ \A m \in 1..n : \E i \in 1..Len(f[n]) : Has(f[n][i], s[m])}
<1>2. 0 \in T
  <2>1. f[0] = <<>> /\ Len(f[0]) = 0
    BY <1>1 DEF IsSentences
  <2> QED BY <2>1
<1>3. ASSUME NEW n \in 1..Len(s), n - 1 \in T PROVE n \in T
  <2> DEFINE done == f[n - 1]
             next == f[n]
             e == s[n]
             last == done[Len(done)]
  <2>0. n - 1 \in 0..Len(s) /\ n \in 0..Len(s) /\ s[n] \in Scrap
    OBVIOUS
  <2>1. /\ n - 1 \in 0..Len(s) /\ n \in 0..Len(s) /\ done \in Seq(Clause) /\ next = RunOn(done, e)
        /\ next \in Seq(Clause) /\ e \in Scrap
    BY <1>1, <2>0 DEF IsSentences
  <2>2. /\ \A i \in 1..Len(done) : NoStop(done[i])
        /\ \A m \in 1..(n - 1) : \E i \in 1..Len(done) : Has(done[i], s[m])
    BY <1>3
  <2> HIDE DEF done, next, e
  <2>3. <<e>> \in Clause /\ Has(<<e>>, e) /\ NoStop(<<e>>)
    <3>1. Len(<<e>>) = 1 /\ <<e>>[1] = e /\ <<e>> \in Seq(Scrap) /\ <<e>> # <<>>
      BY <2>1
    <3> QED BY <3>1 DEF Clause, Has, NoStop
  <2>4. /\ \/ next = Append(done, <<e>>)
           \/ done # <<>> /\ next = [done EXCEPT ![Len(done)] = last \o <<e>>]
        /\ NoStop(next[Len(next)])
    <3>1. CASE done = <<>> \/ Last(Last(done)) \in Closed
      <4>1. next = Append(done, <<e>>)
        BY <2>1, <3>1 DEF RunOn
      <4>2. next[Len(next)] = <<e>>
        BY <2>1, <4>1
      <4> QED BY <2>3, <4>1, <4>2
    <3>2. CASE ~(done = <<>> \/ Last(Last(done)) \in Closed)
      <4>1. next = [done EXCEPT ![Len(done)] = Append(last, e)]
        BY <2>1, <3>2 DEF RunOn
      <4>2. Len(done) \in 1..Len(done) /\ last \in Clause
        BY <2>1, <3>2
      <4>3. last \in Seq(Scrap) /\ last # <<>> /\ Len(last) \in Nat /\ Len(last) # 0
        BY <4>2 DEF Clause
      <4>4. Append(last, e) = last \o <<e>>
        BY <2>1, <4>3, AppendIsConcat
      <4>5. NoStop(last) /\ last[Len(last)] \notin Closed
        BY <2>2, <3>2, <4>2 DEF Last
      <4>6. NoStop(Append(last, e))
        <5>1. Len(Append(last, e)) = Len(last) + 1 /\ \A i \in 1..Len(last) : Append(last, e)[i] = last[i]
          BY <4>3
        <5>2. \A i \in 1..Len(last) : i = Len(last) \/ i \in 1..(Len(last) - 1)
          BY <4>3
        <5>3. Len(Append(last, e)) - 1 = Len(last)
          BY <4>3, <5>1
        <5> QED BY <4>5, <5>1, <5>2, <5>3 DEF NoStop
      <4>7. next[Len(next)] = Append(last, e)
        BY <2>1, <4>1, <4>2
      <4> QED BY <3>2, <4>1, <4>4, <4>6, <4>7
    <3> QED BY <3>1, <3>2
  <2>5. /\ Len(done) \in Nat /\ Len(next) \in Nat /\ Len(next) \in 1..Len(next)
        /\ \A i \in 1..Len(next) : i = Len(next) \/ (i \in 1..Len(done) /\ next[i] = done[i])
        /\ \A y : Has(<<e>>, y) => Has(next[Len(next)], y)
        /\ \A i \in 1..Len(done) : \A y : Has(done[i], y) => \E j \in 1..Len(next) : Has(next[j], y)
    <3> HIDE DEF last
    <3>1. \/ next = Append(done, <<e>>)
          \/ done # <<>> /\ next = [done EXCEPT ![Len(done)] = done[Len(done)] \o <<e>>]
      BY <2>4 DEF last
    <3>2. Extends(done, next, <<e>>)
      BY <2>1, <2>3, <3>1, Extended
    <3> QED BY <3>2 DEF Extends
  <2>6. \A i \in 1..Len(next) : NoStop(next[i])
    BY <2>2, <2>4, <2>5
  <2>7. ASSUME NEW m \in 1..n PROVE \E i \in 1..Len(next) : Has(next[i], s[m])
    <3>1. CASE m = n
      BY <2>3, <2>5, <3>1 DEF e
    <3>2. CASE m \in 1..(n - 1)
      BY <2>2, <2>5, <3>2
    <3> QED BY <3>1, <3>2
  <2> QED BY <2>1, <2>6, <2>7 DEF next
<1>4. 0..Len(s) \subseteq T
  <2> HIDE DEF T
  <2> QED BY <1>2, <1>3, UpTo, Len(s) \in Nat
<1>5. Len(s) \in 0..Len(s)
  OBVIOUS
<1> QED BY <1>1, <1>4, <1>5 DEF IsSentences

\* A part is as long as any may be, or it is one sentence, and no scrap gets lost.
LEMMA ChunksKeep ==
  ASSUME NEW x \in Seq(Clause), \A i \in 1..Len(x) : NoStop(x[i])
  PROVE  /\ Chunked(x) \in Seq(Clause)
         /\ \A i \in 1..Len(Chunked(x)) : NoStop(Chunked(x)[i]) \/ Extent(Chunked(x)[i]) <= MaxLength
         /\ \A n \in 1..Len(x) : \A e : Has(x[n], e) => \E i \in 1..Len(Chunked(x)) : Has(Chunked(x)[i], e)
<1>1. PICK f : IsChunks(f, x) /\ Chunked(x) = f[Len(x)]
  BY ChunksLoop
<1> DEFINE Good(p) == NoStop(p) \/ Extent(p) <= MaxLength
           T == {n \in 0..Len(x) : /\ \A i \in 1..Len(f[n]) : Good(f[n][i])
                                   /\ \A m \in 1..n : \A e : Has(x[m], e) => \E i \in 1..Len(f[n]) : Has(f[n][i], e)}
<1>2. 0 \in T
  <2>1. f[0] = <<>> /\ Len(f[0]) = 0
    BY <1>1 DEF IsChunks
  <2> QED BY <2>1
<1>3. ASSUME NEW n \in 1..Len(x), n - 1 \in T PROVE n \in T
  <2> DEFINE done == f[n - 1]
             next == f[n]
             y == x[n]
             last == done[Len(done)]
  <2>1. /\ n - 1 \in 0..Len(x) /\ n \in 0..Len(x) /\ done \in Seq(Clause) /\ next = Fit(done, y)
        /\ next \in Seq(Clause) /\ y \in Clause /\ NoStop(y)
    BY <1>1 DEF IsChunks
  <2>2. /\ \A i \in 1..Len(done) : Good(done[i])
        /\ \A m \in 1..(n - 1) : \A e : Has(x[m], e) => \E i \in 1..Len(done) : Has(done[i], e)
    BY <1>3
  <2> HIDE DEF done, next, y, Good
  <2>3. /\ \/ next = Append(done, y)
           \/ done # <<>> /\ next = [done EXCEPT ![Len(done)] = last \o y]
        /\ Good(next[Len(next)])
    <3>1. CASE done = <<>> \/ Extent(Last(done)) + Extent(y) > MaxLength
      <4>1. next = Append(done, y)
        BY <2>1, <3>1 DEF Fit
      <4>2. next[Len(next)] = y
        BY <2>1, <4>1
      <4> QED BY <2>1, <4>1, <4>2 DEF Good
    <3>2. CASE ~(done = <<>> \/ Extent(Last(done)) + Extent(y) > MaxLength)
      <4>1. next = [done EXCEPT ![Len(done)] = last \o y]
        BY <2>1, <3>2 DEF Fit
      <4>2. Len(done) \in 1..Len(done) /\ last \in Clause
        BY <2>1, <3>2
      <4>3. last \in Seq(Scrap) /\ y \in Seq(Scrap)
        BY <2>1, <4>2 DEF Clause
      <4>4. Extent(last \o y) = Extent(last) + Extent(y) /\ Extent(last) \in Nat /\ Extent(y) \in Nat
        BY <4>3, ExtentConcat, ExtentNat
      <4>5. Extent(last \o y) <= MaxLength
        <5> HIDE DEF last
        <5>1. ~(Extent(last) + Extent(y) > MaxLength)
          BY <3>2 DEF Last, last
        <5> QED BY <4>4, <5>1, ScrapAssumption
      <4>6. next[Len(next)] = last \o y
        BY <2>1, <4>1, <4>2
      <4> QED BY <3>2, <4>1, <4>5, <4>6 DEF Good
    <3> QED BY <3>1, <3>2
  <2>4. /\ Len(done) \in Nat /\ Len(next) \in Nat /\ Len(next) \in 1..Len(next)
        /\ \A i \in 1..Len(next) : i = Len(next) \/ (i \in 1..Len(done) /\ next[i] = done[i])
        /\ \A e : Has(y, e) => Has(next[Len(next)], e)
        /\ \A i \in 1..Len(done) : \A e : Has(done[i], e) => \E j \in 1..Len(next) : Has(next[j], e)
    <3> HIDE DEF last
    <3>1. \/ next = Append(done, y)
          \/ done # <<>> /\ next = [done EXCEPT ![Len(done)] = done[Len(done)] \o y]
      BY <2>3 DEF last
    <3>2. Extends(done, next, y)
      BY <2>1, <3>1, Extended
    <3> QED BY <3>2 DEF Extends
  <2>5. \A i \in 1..Len(next) : Good(next[i])
    BY <2>2, <2>3, <2>4
  <2>6. ASSUME NEW m \in 1..n, NEW e, Has(x[m], e) PROVE \E i \in 1..Len(next) : Has(next[i], e)
    <3>1. CASE m = n
      BY <2>4, <2>6, <3>1 DEF y
    <3>2. CASE m \in 1..(n - 1)
      BY <2>2, <2>4, <2>6, <3>2
    <3> QED BY <3>1, <3>2
  <2> QED BY <2>1, <2>5, <2>6 DEF next
<1>4. 0..Len(x) \subseteq T
  <2> HIDE DEF T
  <2> QED BY <1>2, <1>3, UpTo, Len(x) \in Nat
<1>5. Len(x) \in 0..Len(x)
  OBVIOUS
<1> QED BY <1>1, <1>4, <1>5 DEF IsChunks

----------------------------------------------------------------------------
IsSeq(q) == q \in Seq(ToSet(q))

\* an item tells a scrap: it is its own, or a part of the summary that holds it
Tells(item, e) ==
  \/ item = Marked(e)
  \/ /\ item.mark = "summary" /\ e \in ToSet(item.words)
     /\ e \in Uncut(item.words) \/ ToSet(Front(item.words)) \cap Closed = {}

LEMMA SeqOfItself == ASSUME NEW S, NEW q \in Seq(S) PROVE IsSeq(q) /\ ToSet(q) \subseteq S
  BY DEF IsSeq, ToSet

LEMMA ConcatHolds ==
  ASSUME NEW a, NEW b, IsSeq(a), IsSeq(b)
  PROVE  IsSeq(a \o b) /\ ToSet(a) \subseteq ToSet(a \o b) /\ ToSet(b) \subseteq ToSet(a \o b)
<1> DEFINE S == ToSet(a) \cup ToSet(b)
           c == a \o b
<1>1. a \in Seq(S) /\ b \in Seq(S)
  BY DEF IsSeq
<1> HIDE DEF S
<1>2. /\ c \in Seq(S) /\ Len(c) = Len(a) + Len(b) /\ Len(a) \in Nat /\ Len(b) \in Nat
      /\ \A i \in 1..Len(a) : c[i] = a[i]
      /\ \A i \in 1..Len(b) : c[Len(a) + i] = b[i]
      /\ DOMAIN a = 1..Len(a) /\ DOMAIN b = 1..Len(b) /\ DOMAIN c = 1..Len(c)
  BY <1>1
<1>3. IsSeq(c)
  BY <1>2, SeqOfItself
<1> HIDE DEF c
<1>4. ToSet(a) \subseteq ToSet(c)
  <2>1. \A i \in 1..Len(a) : i \in 1..Len(c)
    BY <1>2
  <2> QED BY <1>2, <2>1 DEF ToSet
<1>5. ToSet(b) \subseteq ToSet(c)
  <2>1. \A i \in 1..Len(b) : Len(a) + i \in 1..Len(c)
    BY <1>2
  <2> QED BY <1>2, <2>1 DEF ToSet
<1> QED BY <1>3, <1>4, <1>5 DEF c

\* A part that is no longer than it may be is told to its end.
LEMMA Whole ==
  ASSUME NEW p \in Seq(Scrap), NEW e, Has(p, e), NoStop(p) \/ Extent(p) <= MaxLength
  PROVE  Tells([mark |-> "summary", words |-> p], e)
<1>1. PICK n \in 1..Len(p) : p[n] = e
  BY DEF Has
<1>2. DOMAIN p = 1..Len(p) /\ Len(p) \in Nat
  OBVIOUS
<1>3. e \in ToSet(p)
  BY <1>1, <1>2 DEF ToSet
<1>4. CASE NoStop(p)
  <2>1. /\ Len(Front(p)) = Len(p) - 1 /\ DOMAIN Front(p) = 1..(Len(p) - 1)
        /\ \A i \in 1..(Len(p) - 1) : Front(p)[i] = p[i]
    BY <1>1, <1>2 DEF Front
  <2>2. ToSet(Front(p)) \cap Closed = {}
    BY <1>4, <2>1 DEF ToSet, NoStop
  <2> QED BY <1>3, <2>2 DEF Tells
<1>5. CASE Extent(p) <= MaxLength
  <2>1. \A m \in 1..Len(p) : Extent(SubSeq(p, 1, m)) <= MaxLength
    <3> SUFFICES ASSUME NEW m \in 1..Len(p) PROVE Extent(SubSeq(p, 1, m)) <= MaxLength
      OBVIOUS
    <3>1. Extent(SubSeq(p, 1, m)) <= Extent(p)
      BY ExtentPrefix
    <3>2. SubSeq(p, 1, m) \in Seq(Scrap)
      OBVIOUS
    <3>3. Extent(p) \in Nat /\ Extent(SubSeq(p, 1, m)) \in Nat /\ MaxLength \in Nat
      BY <3>2, ExtentNat, ScrapAssumption
    <3> QED BY <1>5, <3>1, <3>3
  <2>2. e \in Uncut(p)
    BY <1>1, <1>2, <2>1 DEF Uncut
  <2> QED BY <1>3, <2>2 DEF Tells
<1> QED BY <1>4, <1>5

\* A scrap for the summary is told by a part of it.
LEMMA SummaryTells ==
  ASSUME NEW s \in Seq(Scrap)
  PROVE  /\ IsSeq(SummaryOf(s))
         /\ \A n \in 1..Len(s) : Category[s[n]] = "summary" =>
              \E item \in ToSet(SummaryOf(s)) : Tells(item, s[n])
<1> DEFINE facts == FactsOf(s)
           parts == Parts(facts)
           told == [n \in DOMAIN parts |-> [mark |-> "summary", words |-> parts[n]]]
<1>1. facts \in Seq(Scrap) /\ \A n \in 1..Len(s) : Category[s[n]] = "summary" => Has(facts, s[n])
  BY FactsHas
<1> HIDE DEF facts
<1>2. /\ Sentences(facts) \in Seq(Clause) /\ \A i \in 1..Len(Sentences(facts)) : NoStop(Sentences(facts)[i])
      /\ \A n \in 1..Len(facts) : \E i \in 1..Len(Sentences(facts)) : Has(Sentences(facts)[i], facts[n])
  BY <1>1, SentencesKeep
<1>3. /\ parts \in Seq(Clause)
      /\ \A i \in 1..Len(parts) : NoStop(parts[i]) \/ Extent(parts[i]) <= MaxLength
      /\ \A n \in 1..Len(Sentences(facts)) : \A e :
           Has(Sentences(facts)[n], e) => \E i \in 1..Len(parts) : Has(parts[i], e)
  BY <1>2, ChunksKeep DEF Parts
<1> HIDE DEF parts
<1>4. /\ DOMAIN parts = 1..Len(parts) /\ Len(parts) \in Nat /\ DOMAIN told = 1..Len(parts)
      /\ \A n \in 1..Len(parts) : told[n] = [mark |-> "summary", words |-> parts[n]]
  BY <1>3
<1> HIDE DEF told
<1>5. SummaryOf(s) = IF facts # <<>> THEN told
                     ELSE IF \E n \in DOMAIN s : Category[s[n]] # "questions"
                          THEN <<[mark |-> "counts", words |-> <<>>]>> ELSE <<>>
  BY Zenon DEF SummaryOf, facts, parts, told
<1>6. IsSeq(SummaryOf(s))
  <2>1. IsSeq(told)
    <3> DEFINE R == {[mark |-> "summary", words |-> parts[n]] : n \in 1..Len(parts)}
    <3>1. told \in [1..Len(parts) -> R]
      BY <1>4 DEF told
    <3>2. told \in Seq(R)
      <4> HIDE DEF R
      <4> QED BY <1>4, <3>1
    <3> QED BY <3>2, SeqOfItself
  <2>2. IsSeq(<<[mark |-> "counts", words |-> <<>>]>>) /\ IsSeq(<<>>)
    <3> DEFINE x == [mark |-> "counts", words |-> <<>>]
    <3>1. <<x>> \in Seq({x}) /\ <<>> \in Seq({x})
      OBVIOUS
    <3> HIDE DEF x
    <3>2. IsSeq(<<x>>) /\ IsSeq(<<>>)
      BY <3>1, SeqOfItself
    <3> QED BY <3>2 DEF x
  <2> QED BY <1>5, <2>1, <2>2
<1>7. ASSUME NEW n \in 1..Len(s), Category[s[n]] = "summary"
      PROVE  \E item \in ToSet(SummaryOf(s)) : Tells(item, s[n])
  <2>1. Has(facts, s[n])
    BY <1>1, <1>7
  <2>2. PICK m \in 1..Len(facts) : facts[m] = s[n]
    BY <2>1 DEF Has
  <2>3. facts # <<>>
    BY <2>2
  <2>4. PICK k \in 1..Len(Sentences(facts)) : Has(Sentences(facts)[k], s[n])
    BY <1>2, <2>2
  <2>5. PICK i \in 1..Len(parts) : Has(parts[i], s[n])
    BY <1>3, <2>4
  <2>6. parts[i] \in Clause
    BY <1>3
  <2>7. parts[i] \in Seq(Scrap)
    BY <2>6 DEF Clause
  <2>8. Tells([mark |-> "summary", words |-> parts[i]], s[n])
    BY <1>3, <2>5, <2>7, Whole
  <2>9. told[i] \in ToSet(told)
    BY <1>4 DEF ToSet
  <2> QED BY <1>4, <1>5, <2>3, <2>8, <2>9
<1> QED BY <1>6, <1>7

(***************************************************************************)
(* Every scrap a call has read, of a category it has no items of its own   *)
(* for, is told by an item.                                                *)
(***************************************************************************)
LEMMA ItemsTell ==
  ASSUME NEW v \in Review, NEW s \in Seq(Scrap)
  PROVE  /\ IsSeq(ItemsOf(v, s))
         /\ \A n \in 1..Len(s) : Category[s[n]] \notin Given[v] =>
              \E item \in ToSet(ItemsOf(v, s)) : Tells(item, s[n])
<1> DEFINE Of(k, own) == IF k \in Given[v] THEN <<[mark |-> "given", words |-> <<k, v>>]>> ELSE own
           a == Of("summary", SummaryOf(s))
           b == Of("decisions", OneEach(s, "decisions"))
           c == Of("errors", OneEach(s, "errors"))
           d == Of("procedures", OneEach(s, "procedures"))
           q == Of("questions", OneEach(s, "questions"))
           ab == a \o b
           abc == ab \o c
           abcd == abc \o d
           all == abcd \o q
<1>0. ItemsOf(v, s) = all
  BY Zenon DEF ItemsOf
<1>1. ASSUME NEW k, NEW own, IsSeq(own) PROVE IsSeq(Of(k, own))
  <2> DEFINE x == [mark |-> "given", words |-> <<k, v>>]
  <2>1. <<x>> \in Seq({x})
    OBVIOUS
  <2> HIDE DEF x
  <2>2. IsSeq(<<x>>)
    BY <2>1, SeqOfItself
  <2> QED BY <1>1, <2>2 DEF x
<1>2. \A k : IsSeq(OneEach(s, k))
  BY OneEachHas, SeqOfItself
<1>3. IsSeq(a) /\ IsSeq(b) /\ IsSeq(c) /\ IsSeq(d) /\ IsSeq(q)
  <2> HIDE DEF Of
  <2> QED BY <1>1, <1>2, SummaryTells
<1>4. ASSUME NEW k
      PROVE  \A n \in 1..Len(s) : Category[s[n]] = k => \E item \in ToSet(OneEach(s, k)) : Tells(item, s[n])
  <2> SUFFICES ASSUME NEW n \in 1..Len(s), Category[s[n]] = k
               PROVE  \E item \in ToSet(OneEach(s, k)) : Tells(item, s[n])
    OBVIOUS
  <2>1. Has(OneEach(s, k), Marked(s[n])) /\ OneEach(s, k) \in Seq(Wording)
    BY OneEachHas
  <2>2. DOMAIN OneEach(s, k) = 1..Len(OneEach(s, k))
    BY <2>1
  <2>3. Marked(s[n]) \in ToSet(OneEach(s, k))
    BY <2>1, <2>2 DEF Has, ToSet
  <2> QED BY <2>3 DEF Tells
<1>5. ASSUME NEW n \in 1..Len(s), Category[s[n]] \notin Given[v]
      PROVE  \/ \E item \in ToSet(a) : Tells(item, s[n])
             \/ \E item \in ToSet(b) : Tells(item, s[n])
             \/ \E item \in ToSet(c) : Tells(item, s[n])
             \/ \E item \in ToSet(d) : Tells(item, s[n])
             \/ \E item \in ToSet(q) : Tells(item, s[n])
  <2>1. Category[s[n]] \in Categories
    BY ScrapAssumption
  <2>2. CASE Category[s[n]] = "summary"
    <3>1. a = SummaryOf(s)
      BY <1>5, <2>2
    <3> QED BY <2>2, <3>1, SummaryTells
  <2>3. CASE Category[s[n]] = "decisions"
    <3>1. b = OneEach(s, "decisions")
      BY <1>5, <2>3
    <3> QED BY <1>4, <2>3, <3>1
  <2>4. CASE Category[s[n]] = "errors"
    <3>1. c = OneEach(s, "errors")
      BY <1>5, <2>4
    <3> QED BY <1>4, <2>4, <3>1
  <2>5. CASE Category[s[n]] = "procedures"
    <3>1. d = OneEach(s, "procedures")
      BY <1>5, <2>5
    <3> QED BY <1>4, <2>5, <3>1
  <2>6. CASE Category[s[n]] = "questions"
    <3>1. q = OneEach(s, "questions")
      BY <1>5, <2>6
    <3> QED BY <1>4, <2>6, <3>1
  <2> QED BY <2>1, <2>2, <2>3, <2>4, <2>5, <2>6 DEF Categories
<1> HIDE DEF Of, a, b, c, d, q
<1>6. IsSeq(ab) /\ ToSet(a) \subseteq ToSet(ab) /\ ToSet(b) \subseteq ToSet(ab)
  BY <1>3, ConcatHolds
<1> HIDE DEF ab
<1>7. IsSeq(abc) /\ ToSet(ab) \subseteq ToSet(abc) /\ ToSet(c) \subseteq ToSet(abc)
  BY <1>3, <1>6, ConcatHolds
<1> HIDE DEF abc
<1>8. IsSeq(abcd) /\ ToSet(abc) \subseteq ToSet(abcd) /\ ToSet(d) \subseteq ToSet(abcd)
  BY <1>3, <1>7, ConcatHolds
<1> HIDE DEF abcd
<1>9. IsSeq(all) /\ ToSet(abcd) \subseteq ToSet(all) /\ ToSet(q) \subseteq ToSet(all)
  BY <1>3, <1>8, ConcatHolds
<1> HIDE DEF all
<1>10. /\ ToSet(a) \subseteq ToSet(all) /\ ToSet(b) \subseteq ToSet(all) /\ ToSet(c) \subseteq ToSet(all)
       /\ ToSet(d) \subseteq ToSet(all)
  BY <1>6, <1>7, <1>8, <1>9
<1>11. ItemsOf(v, s) = all
  BY <1>0, Zenon DEF all, abcd, abc, ab
<1> QED BY <1>5, <1>9, <1>10, <1>11

----------------------------------------------------------------------------
(***************************************************************************)
(* The inductive invariant. What a call has read is told by the items it   *)
(* is about to store or has been refused, and once they are stored by the  *)
(* rows; a call that has cleared is over, so that this stays so.           *)
(***************************************************************************)
Places == {"idle", "count", "store", "tell", "clear", "over"}

ReviewOK(r) ==
  /\ r = [at |-> r.at, seen |-> r.seen, items |-> r.items, dropped |-> r.dropped]
  /\ r.at \in Places /\ r.seen \subseteq Scrap /\ IsSeq(r.items)

Owes(r, v, told) ==
  \A e \in r.seen : Category[e] \notin Given[v] => \E item \in told : Tells(item, e)

Square(r, v, stored) ==
  /\ r.at \in {"count", "store"} => Owes(r, v, ToSet(r.items) \cup r.dropped)
  /\ r.at \in {"tell", "clear"} => Owes(r, v, stored \cup r.dropped)

CallsOK == /\ review = [v \in Review |-> review[v]]
           /\ \A v \in Review : ReviewOK(review[v]) /\ Square(review[v], v, rows)

Settled(c, r, stored) ==
  /\ r.at = "over"
  /\ c[1] \in r.seen /\ Category[c[1]] \notin Given[c[2]] =>
       \E item \in stored \cup r.dropped : Tells(item, c[1])

ClearedOK == \A c \in cleared : Settled(c, review[c[2]], rows)

StoresOK == /\ scraps \in Seq(Scrap \ Lasting) /\ listed \subseteq Lasting /\ IsFiniteSet(listed)
            /\ spare \in 0..MaxRoom /\ cleared \subseteq Scrap \X Review

RtInv == StoresOK /\ CallsOK /\ ClearedOK

LEMMA NoneThere == ASSUME NEW q, q = <<>> PROVE IsSeq(q) /\ ToSet(q) = {}
<1> DEFINE S == {}
<1>1. q \in Seq(S)
  OBVIOUS
<1> HIDE DEF S
<1>2. IsSeq(q) /\ ToSet(q) \subseteq S
  BY <1>1, SeqOfItself
<1> QED BY <1>2 DEF S

\* A step of one call keeps what holds of all.
LEMMA CallStep ==
  ASSUME RtInv, NEW v \in Review, NEW r, review' = [review EXCEPT ![v] = r], ReviewOK(r),
         rows \subseteq rows', Square(r, v, rows'), review[v].at # "over",
         \A c \in cleared' : c \in cleared \/ (c[2] = v /\ Settled(c, r, rows'))
  PROVE  CallsOK' /\ ClearedOK'
<1>1. review = [w \in Review |-> review[w]]
  BY DEF RtInv, CallsOK
<1>2. review' = [w \in Review |-> IF w = v THEN r ELSE review[w]]
  BY <1>1, Zenon
<1>3. review'[v] = r /\ \A w \in Review : w # v => review'[w] = review[w]
  BY <1>2
<1>4. review' = [w \in Review |-> review'[w]]
  BY <1>2, <1>3
<1>5. ASSUME NEW w \in Review PROVE ReviewOK(review'[w]) /\ Square(review'[w], w, rows')
  <2>1. CASE w = v
    BY <1>3, <2>1
  <2>2. CASE w # v
    <3>1. review'[w] = review[w] /\ ReviewOK(review[w]) /\ Square(review[w], w, rows)
      BY <1>3, <2>2 DEF RtInv, CallsOK
    <3>2. Square(review[w], w, rows')
      BY <3>1 DEF Square, Owes
    <3> QED BY <3>1, <3>2
  <2> QED BY <2>1, <2>2
<1>6. CallsOK'
  BY <1>4, <1>5 DEF CallsOK, ReviewOK, Square, Owes, IsSeq, Tells, ToSet, Front, Uncut, Marked, Unmarked
<1>7. ASSUME NEW c \in cleared' PROVE Settled(c, review'[c[2]], rows')
  <2>1. CASE c \in cleared
    <3>1. Settled(c, review[c[2]], rows) /\ c[2] \in Review
      BY <2>1 DEF RtInv, ClearedOK, StoresOK
    <3>2. c[2] # v
      BY <3>1 DEF Settled
    <3> QED BY <1>3, <3>1, <3>2 DEF Settled
  <2>2. CASE c[2] = v /\ Settled(c, r, rows')
    BY <1>3, <2>2
  <2> QED BY <1>7, <2>1, <2>2
<1>8. ClearedOK'
  BY <1>7 DEF ClearedOK
<1> QED BY <1>6, <1>8

\* What the quota does not leave room for is reported back.
LEMMA QuotaKeeps ==
  ASSUME NEW v \in Review, ReviewOK(review[v]), spare \in Nat
  PROVE  LET r == review[v]
             u == UnderQuota(v) IN
         /\ ReviewOK(u) /\ u.seen = r.seen /\ u.at \in {"tell", "store"}
         /\ ToSet(r.items) \cup r.dropped \subseteq ToSet(u.items) \cup u.dropped
         /\ u.at = "tell" => ToSet(u.items) = {}
         /\ Len(u.items) \in Nat /\ Len(u.items) <= spare
<1> DEFINE r == review[v]
           items == r.items
           m == IF spare < Len(items) THEN spare ELSE Len(items)
           fits == SubSeq(items, 1, m)
           u == UnderQuota(v)
<1>1. /\ r = [at |-> r.at, seen |-> r.seen, items |-> r.items, dropped |-> r.dropped]
      /\ r.at \in Places /\ r.seen \subseteq Scrap /\ items \in Seq(ToSet(items))
  BY DEF ReviewOK, IsSeq
<1>2. m \in 0..Len(items) /\ m <= spare /\ Len(items) \in Nat
  BY <1>1
<1>3. u = [r EXCEPT !.items = fits, !.dropped = @ \cup (ToSet(items) \ ToSet(fits)),
                    !.at = IF fits = <<>> THEN "tell" ELSE "store"]
  BY Zenon DEF UnderQuota
<1> HIDE DEF items, u, m
<1>4. fits \in Seq(ToSet(items)) /\ Len(fits) = m
  BY <1>1, <1>2
<1>5. IsSeq(fits)
  BY <1>4, SeqOfItself
<1> HIDE DEF fits, r
<1>6. /\ u.items = fits /\ u.dropped = r.dropped \cup (ToSet(items) \ ToSet(fits)) /\ u.seen = r.seen
      /\ u.at = (IF fits = <<>> THEN "tell" ELSE "store")
      /\ u = [at |-> u.at, seen |-> u.seen, items |-> u.items, dropped |-> u.dropped]
  BY <1>1, <1>3
<1>7. ReviewOK(u)
  BY <1>1, <1>5, <1>6 DEF ReviewOK, Places
<1>8. ToSet(items) \cup r.dropped \subseteq ToSet(u.items) \cup u.dropped
  BY <1>6
<1>9. u.at = "tell" => ToSet(u.items) = {}
  <2>1. u.at = "tell" => u.items = <<>>
    BY <1>6
  <2> QED BY <2>1, NoneThere
<1> QED BY <1>2, <1>4, <1>6, <1>7, <1>8, <1>9 DEF items, u, r

LEMMA CallChanged ==
  ASSUME NEW r, NEW x, NEW y,
         r = [at |-> r.at, seen |-> r.seen, items |-> r.items, dropped |-> r.dropped]
  PROVE  [[r EXCEPT !.at = x] EXCEPT !.items = y]
           = [at |-> x, seen |-> r.seen, items |-> y, dropped |-> r.dropped]
<1>1. PICK a, b, c, d : r = [at |-> a, seen |-> b, items |-> c, dropped |-> d]
  OBVIOUS
<1>2. r.seen = b /\ r.dropped = d
  BY <1>1
<1>3. [r EXCEPT !.at = x] = [at |-> x, seen |-> b, items |-> c, dropped |-> d]
  BY <1>1
<1>4. [[at |-> x, seen |-> b, items |-> c, dropped |-> d] EXCEPT !.items = y]
        = [at |-> x, seen |-> b, items |-> y, dropped |-> d]
  OBVIOUS
<1> QED BY <1>2, <1>3, <1>4

\* A call that goes on takes along what it had.
LEMMA Advances ==
  ASSUME RtInv, NEW v \in Review, NEW at \in Places, Advance(v, at)
  PROVE  LET r == [at |-> at, seen |-> review[v].seen,
                   items |-> IF at = "over" THEN <<>> ELSE review[v].items,
                   dropped |-> review[v].dropped] IN
         ReviewOK(r) /\ review' = [review EXCEPT ![v] = r]
<1> DEFINE items == IF at = "over" THEN <<>> ELSE review[v].items
           r == [at |-> at, seen |-> review[v].seen, items |-> items, dropped |-> review[v].dropped]
<1>1. /\ review = [w \in Review |-> review[w]] /\ ReviewOK(review[v])
      /\ review' = [review EXCEPT ![v] =
                     [@ EXCEPT !.at = at, !.items = IF at = "over" THEN <<>> ELSE review[v].items]]
  BY DEF RtInv, CallsOK, Advance
<1>2. review[v] = [at |-> review[v].at, seen |-> review[v].seen, items |-> review[v].items,
                   dropped |-> review[v].dropped]
  BY <1>1 DEF ReviewOK
<1>3. IsSeq(items)
  <2>1. at = "over" => IsSeq(items)
    BY NoneThere
  <2>2. at # "over" => IsSeq(items)
    BY <1>1 DEF ReviewOK
  <2> QED BY <2>1, <2>2
<1> HIDE DEF items
<1>4. ReviewOK(r)
  BY <1>1, <1>3 DEF ReviewOK
<1>5. review' = [review EXCEPT ![v] = [[review[v] EXCEPT !.at = at] EXCEPT !.items = items]]
  BY <1>1 DEF items
<1>6. [[review[v] EXCEPT !.at = at] EXCEPT !.items = items] = r
  BY <1>2, CallChanged
<1> QED BY <1>4, <1>5, <1>6 DEF items

\* The members of a list are no more than its places.
LEMMA ToSetFinite ==
  ASSUME NEW q, IsSeq(q)
  PROVE  IsFiniteSet(ToSet(q)) /\ Cardinality(ToSet(q)) <= Len(q) /\ Len(q) \in Nat
<1>1. q \in [1..Len(q) -> ToSet(q)] /\ DOMAIN q = 1..Len(q) /\ Len(q) \in Nat
  BY DEF IsSeq
<1>2. q \in Surjection(1..Len(q), ToSet(q))
  <2>1. \A x \in ToSet(q) : \E i \in 1..Len(q) : q[i] = x
    BY <1>1 DEF ToSet
  <2> QED BY <1>1, <2>1 DEF Surjection
<1>3. IsFiniteSet(1..Len(q)) /\ Cardinality(1..Len(q)) = Len(q)
  <2> DEFINE N == Len(q)
  <2>1. N \in Nat
    BY <1>1
  <2> HIDE DEF N
  <2>2. IsFiniteSet(1..N) /\ Cardinality(1..N) = N
    BY <2>1, FS_Interval
  <2> QED BY <2>2 DEF N
<1>4. IsFiniteSet(ToSet(q)) /\ Cardinality(ToSet(q)) <= Cardinality(1..Len(q))
  BY <1>2, <1>3, FS_Surjection
<1> QED BY <1>1, <1>3, <1>4

LEMMA GatherInv == ASSUME RtInv, NEW v \in Review, Gather(v) PROVE RtInv'
<1>1. PICK old \in {SetToSeq(listed), <<>>}, new \in {scraps, <<>>} :
        LET s == old \o new
            items == ItemsOf(v, s)
        IN review' = [review EXCEPT ![v] =
             [at |-> IF Refused(v, s) THEN "over" ELSE IF items = <<>> THEN "tell" ELSE "count",
              seen |-> ToSet(new), items |-> IF Refused(v, s) THEN <<>> ELSE items,
              dropped |-> {}]]
  BY DEF Gather
<1> DEFINE s == old \o new
           items == ItemsOf(v, s)
           at == IF Refused(v, s) THEN "over" ELSE IF items = <<>> THEN "tell" ELSE "count"
           r == [at |-> at,
                 seen |-> ToSet(new), items |-> IF Refused(v, s) THEN <<>> ELSE items, dropped |-> {}]
<1>2. review' = [review EXCEPT ![v] = r]
  BY <1>1
<1>3. old \in Seq(Scrap) /\ new \in Seq(Scrap)
  <2>1. scraps \in Seq(Scrap) /\ <<>> \in Seq(Scrap)
    BY DEF RtInv, StoresOK
  <2>2. SetToSeq(listed) \in Seq(listed)
    BY SetListed DEF RtInv, StoresOK
  <2>3. SetToSeq(listed) \in Seq(Scrap)
    BY <2>2, ScrapAssumption DEF RtInv, StoresOK
  <2>4. old = SetToSeq(listed) \/ old = <<>>
    OBVIOUS
  <2>5. new = scraps \/ new = <<>>
    OBVIOUS
  <2> QED BY <2>1, <2>3, <2>4, <2>5
<1>4. s \in Seq(Scrap) /\ \A e \in ToSet(new) : \E n \in 1..Len(s) : s[n] = e
  <2>1. /\ s \in Seq(Scrap) /\ Len(s) = Len(old) + Len(new) /\ Len(old) \in Nat /\ Len(new) \in Nat
        /\ \A i \in 1..Len(new) : s[Len(old) + i] = new[i]
        /\ DOMAIN new = 1..Len(new)
    BY <1>3
  <2>2. \A i \in 1..Len(new) : Len(old) + i \in 1..Len(s)
    BY <2>1
  <2> HIDE DEF s
  <2> QED BY <2>1, <2>2 DEF ToSet
<1>5. /\ IsSeq(items)
      /\ \A n \in 1..Len(s) : Category[s[n]] \notin Given[v] => \E item \in ToSet(items) : Tells(item, s[n])
  BY <1>4, ItemsTell
<1> HIDE DEF s, items
<1>6. /\ r.seen = ToSet(new) /\ r.items = (IF Refused(v, s) THEN <<>> ELSE items) /\ r.dropped = {}
      /\ r.at \in {"over", "tell", "count"}
      /\ r.at = "tell" => items = <<>> /\ ~Refused(v, s)
      /\ r.at = "count" => ~Refused(v, s)
  <2>1. /\ at \in {"over", "tell", "count"} /\ (at = "tell" => items = <<>> /\ ~Refused(v, s))
        /\ at = "count" => ~Refused(v, s)
    <3>1. CASE Refused(v, s)
      <4>1. at = "over"
        BY <3>1 
      <4> QED BY <4>1
    <3>2. CASE ~Refused(v, s) /\ items = <<>>
      <4>1. at = "tell"
        BY <3>2
      <4> QED BY <3>2, <4>1
    <3>3. CASE ~Refused(v, s) /\ items # <<>>
      <4>1. at = "count"
        BY <3>3
      <4> QED BY <3>3, <4>1
    <3> QED BY <3>1, <3>2, <3>3
  <2> HIDE DEF at
  <2>2. /\ r.at = at /\ r.seen = ToSet(new) /\ r.dropped = {}
        /\ r.items = (IF Refused(v, s) THEN <<>> ELSE items)
    OBVIOUS
  <2> HIDE DEF r
  <2> QED BY <2>1, <2>2
<1>7. ReviewOK(r)
  <2>1. ToSet(new) \subseteq Scrap
    BY <1>3, SeqOfItself
  <2>2. IsSeq(r.items)
    BY <1>5, <1>6, NoneThere
  <2>3. r = [at |-> r.at, seen |-> r.seen, items |-> r.items, dropped |-> r.dropped]
    OBVIOUS
  <2> HIDE DEF r
  <2> QED BY <1>6, <2>1, <2>2, <2>3 DEF ReviewOK, Places
<1> HIDE DEF r
<1>8. Owes(r, v, ToSet(items))
  BY <1>4, <1>5, <1>6 DEF Owes
<1>9. Square(r, v, rows')
  <2>1. CASE r.at = "count"
    BY <1>6, <1>8, <2>1 DEF Square, Owes
  <2>2. CASE r.at = "tell"
    <3>1. ToSet(items) = {}
      BY <1>6, <2>2, NoneThere
    <3> QED BY <1>8, <2>2, <3>1 DEF Square, Owes
  <2>3. CASE r.at = "over"
    BY <2>3 DEF Square
  <2> QED BY <1>6, <2>1, <2>2, <2>3
<1>10. UNCHANGED <<listed, rows, spare, scraps, cleared>> /\ review[v].at = "idle"
  BY DEF Gather
<1>11. CallsOK' /\ ClearedOK'
  BY <1>2, <1>7, <1>9, <1>10, CallStep
<1>12. StoresOK'
  BY <1>10 DEF RtInv, StoresOK
<1> QED BY <1>11, <1>12 DEF RtInv

LEMMA QuotaInv == ASSUME RtInv, NEW v \in Review, CountItems(v) \/ StoreItems(v) PROVE RtInv'
<1> DEFINE r == review[v]
           u == UnderQuota(v)
<1>1. /\ ReviewOK(r) /\ Square(r, v, rows) /\ spare \in Nat /\ spare \in 0..MaxRoom
  BY ScrapAssumption DEF RtInv, CallsOK, StoresOK
<1>2. /\ ReviewOK(u) /\ u.seen = r.seen /\ u.at \in {"tell", "store"}
      /\ ToSet(r.items) \cup r.dropped \subseteq ToSet(u.items) \cup u.dropped
      /\ u.at = "tell" => ToSet(u.items) = {}
      /\ Len(u.items) \in Nat /\ Len(u.items) <= spare
  BY <1>1, QuotaKeeps
<1> HIDE DEF u
<1>3. r.at \in {"count", "store"}
  BY DEF CountItems, StoreItems
<1>4. Owes(u, v, ToSet(u.items) \cup u.dropped)
  BY <1>1, <1>2, <1>3 DEF Square, Owes
<1>5. CASE CountItems(v)
  <2>1. /\ review' = [review EXCEPT ![v] = u] /\ UNCHANGED <<scraps, listed, rows, spare, cleared>>
        /\ review[v].at = "count"
    BY <1>5 DEF CountItems, u
  <2>2. Square(u, v, rows')
    BY <1>2, <1>4 DEF Square, Owes
  <2>3. CallsOK' /\ ClearedOK'
    BY <1>2, <2>1, <2>2, CallStep
  <2>4. StoresOK'
    BY <2>1 DEF RtInv, StoresOK
  <2> QED BY <2>3, <2>4 DEF RtInv
<1>6. CASE StoreItems(v)
  <2> DEFINE w == [u EXCEPT !.at = "tell"]
             new == ToSet(u.items) \ rows
  <2>1. /\ review' = [review EXCEPT ![v] = w] /\ UNCHANGED <<scraps, listed, cleared>>
        /\ review[v].at = "store" /\ rows' = rows \cup new /\ spare' = spare - Cardinality(new)
    BY <1>6 DEF StoreItems, u
  <2>2. /\ w.at = "tell" /\ w.seen = u.seen /\ w.items = u.items /\ w.dropped = u.dropped
        /\ w = [at |-> w.at, seen |-> w.seen, items |-> w.items, dropped |-> w.dropped]
    BY <1>2 DEF ReviewOK
  <2> HIDE DEF w
  <2>3. ReviewOK(w)
    BY <1>2, <2>2 DEF ReviewOK, Places
  <2>4. Square(w, v, rows')
    BY <1>4, <2>1, <2>2 DEF Square, Owes
  <2>5. CallsOK' /\ ClearedOK'
    BY <2>1, <2>3, <2>4, CallStep
  <2>6. spare' \in 0..MaxRoom
    <3>1. IsFiniteSet(ToSet(u.items)) /\ Cardinality(ToSet(u.items)) <= Len(u.items)
      BY <1>2, ToSetFinite DEF ReviewOK
    <3>2. /\ Cardinality(new) <= Cardinality(ToSet(u.items)) /\ Cardinality(new) \in Nat
          /\ Cardinality(ToSet(u.items)) \in Nat
      BY <3>1, FS_Subset, FS_CardinalityType
    <3> HIDE DEF new
    <3> QED BY <1>1, <1>2, <2>1, <3>1, <3>2, ScrapAssumption
  <2>7. StoresOK'
    BY <2>1, <2>6 DEF RtInv, StoresOK
  <2> QED BY <2>5, <2>7 DEF RtInv
<1> QED BY <1>5, <1>6

\* Where no call moves, what the rows tell stays told.
LEMMA ToolQuietStep ==
  ASSUME RtInv, review' = review, cleared' = cleared, rows \subseteq rows'
  PROVE  CallsOK' /\ ClearedOK'
<1>1. ASSUME NEW w \in Review PROVE ReviewOK(review[w]) /\ Square(review[w], w, rows')
  <2>1. ReviewOK(review[w]) /\ Square(review[w], w, rows)
    BY DEF RtInv, CallsOK
  <2> QED BY <2>1 DEF Square, Owes
<1>2. review' = [w \in Review |-> review'[w]]
  BY Zenon DEF RtInv, CallsOK
<1>3. CallsOK'
  BY <1>1, <1>2 DEF CallsOK
<1>4. ClearedOK'
  BY DEF RtInv, ClearedOK, Settled
<1> QED BY <1>3, <1>4

LEMMA RememberInv ==
  ASSUME RtInv, \/ \E e \in Scrap : RememberForSession(e) \/ RememberRow(e)
                \/ OthersUseQuota
  PROVE  RtInv'
<1>0. /\ scraps \in Seq(Scrap \ Lasting) /\ listed \subseteq Lasting /\ IsFiniteSet(listed)
      /\ spare \in 0..MaxRoom /\ cleared \subseteq Scrap \X Review /\ MaxRoom \in Nat
  BY ScrapAssumption DEF RtInv, StoresOK
<1>1. ASSUME NEW e \in Scrap, RememberForSession(e) PROVE RtInv'
  <2>1. scraps' \in Seq(Scrap \ Lasting)
    BY <1>0, <1>1 DEF RememberForSession
  <2>2. UNCHANGED <<listed, rows, spare, review, cleared>>
    BY <1>1 DEF RememberForSession
  <2>3. StoresOK'
    BY <1>0, <2>1, <2>2 DEF StoresOK
  <2> QED BY <2>2, <2>3, ToolQuietStep DEF RtInv
<1>2. ASSUME NEW e \in Scrap, RememberRow(e) PROVE RtInv'
  <2>1. /\ UNCHANGED <<scraps, review, cleared>> /\ rows \subseteq rows' /\ spare' = spare - 1 /\ spare > 0
        /\ listed' \in {listed, listed \cup {e}} /\ e \in Lasting
    BY <1>2 DEF RememberRow
  <2>2. IsFiniteSet(listed')
    BY <1>0, <2>1, FS_AddElement
  <2>3. spare' \in 0..MaxRoom
    BY <1>0, <2>1
  <2>4. StoresOK'
    BY <1>0, <2>1, <2>2, <2>3 DEF StoresOK
  <2> QED BY <2>1, <2>4, ToolQuietStep DEF RtInv
<1>3. ASSUME OthersUseQuota PROVE RtInv'
  <2>1. UNCHANGED <<scraps, listed, rows, review, cleared>> /\ spare' = 0
    BY <1>3 DEF OthersUseQuota
  <2>2. StoresOK'
    BY <1>0, <2>1 DEF StoresOK
  <2> QED BY <2>1, <2>2, ToolQuietStep DEF RtInv
<1> QED BY <1>1, <1>2, <1>3

LEMMA EndInv == ASSUME RtInv, NEW v \in Review, StoreFails(v) \/ BreakOff(v) PROVE RtInv'
<1> DEFINE r == [at |-> "over", seen |-> review[v].seen, items |-> <<>>, dropped |-> review[v].dropped]
<1>1. /\ Advance(v, "over") /\ UNCHANGED <<scraps, listed, rows, spare, cleared>>
      /\ review[v].at # "over"
  BY DEF StoreFails, BreakOff
<1>2. ReviewOK(r) /\ review' = [review EXCEPT ![v] = r]
  BY <1>1, Advances DEF Places
<1>3. r.at = "over"
  OBVIOUS
<1> HIDE DEF r
<1>4. Square(r, v, rows')
  BY <1>3 DEF Square
<1>5. CallsOK' /\ ClearedOK'
  BY <1>1, <1>2, <1>4, CallStep
<1>6. StoresOK'
  BY <1>1 DEF RtInv, StoresOK
<1> QED BY <1>5, <1>6 DEF RtInv

LEMMA TellInv == ASSUME RtInv, NEW v \in Review, Tell(v) PROVE RtInv'
<1> DEFINE r == [at |-> "clear", seen |-> review[v].seen, items |-> review[v].items,
                 dropped |-> review[v].dropped]
<1>1. /\ Advance(v, "clear") /\ UNCHANGED <<scraps, cleared>> /\ review[v].at = "tell"
      /\ rows \subseteq rows' /\ (spare' = spare \/ (spare' = spare - 1 /\ spare > 0))
      /\ listed' = listed \/ listed' = listed \cup {Saga}
  BY DEF Tell
<1>2. ReviewOK(r) /\ review' = [review EXCEPT ![v] = r]
  BY <1>1, Advances DEF Places
<1>3. r.at = "clear" /\ r.seen = review[v].seen /\ r.dropped = review[v].dropped
  OBVIOUS
<1> HIDE DEF r
<1>4. Square(r, v, rows')
  <2>1. Owes(review[v], v, rows \cup review[v].dropped)
    BY <1>1 DEF RtInv, CallsOK, Square
  <2> QED BY <1>1, <1>3, <2>1 DEF Square, Owes
<1>5. CallsOK' /\ ClearedOK'
  BY <1>1, <1>2, <1>4, CallStep
<1>6. StoresOK'
  <2>1. /\ scraps \in Seq(Scrap \ Lasting) /\ listed \subseteq Lasting /\ IsFiniteSet(listed)
        /\ spare \in 0..MaxRoom /\ cleared \subseteq Scrap \X Review /\ MaxRoom \in Nat
    BY ScrapAssumption DEF RtInv, StoresOK
  <2>2. IsFiniteSet(listed') /\ listed' \subseteq Lasting
    BY <1>1, <2>1, FS_AddElement, ScrapAssumption
  <2>3. spare' \in 0..MaxRoom
    BY <1>1, <2>1
  <2> QED BY <1>1, <2>1, <2>2, <2>3 DEF StoresOK
<1> QED BY <1>5, <1>6 DEF RtInv

LEMMA ClearInv == ASSUME RtInv, NEW v \in Review, ClearScraps(v) PROVE RtInv'
<1> DEFINE r == [at |-> "over", seen |-> review[v].seen, items |-> <<>>, dropped |-> review[v].dropped]
<1>1. /\ Advance(v, "over") /\ UNCHANGED <<listed, rows, spare>> /\ review[v].at = "clear"
      /\ \/ scraps' = <<>> /\ cleared' = cleared \cup (ToSet(scraps) \X {v})
         \/ UNCHANGED <<scraps, cleared>>
  BY DEF ClearScraps
<1>2. ReviewOK(r) /\ review' = [review EXCEPT ![v] = r]
  BY <1>1, Advances DEF Places
<1>3. r.at = "over" /\ r.seen = review[v].seen /\ r.dropped = review[v].dropped
  OBVIOUS
<1> HIDE DEF r
<1>4. Square(r, v, rows')
  BY <1>3 DEF Square
<1>5. ASSUME NEW c \in cleared' PROVE c \in cleared \/ (c[2] = v /\ Settled(c, r, rows'))
  <2>1. Owes(review[v], v, rows \cup review[v].dropped)
    BY <1>1 DEF RtInv, CallsOK, Square
  <2>2. c \in cleared \/ c[2] = v
    BY <1>1, <1>5
  <2>3. c[2] = v => Settled(c, r, rows')
    BY <1>1, <1>3, <2>1 DEF Settled, Owes
  <2> QED BY <2>2, <2>3
<1>6. CallsOK' /\ ClearedOK'
  BY <1>1, <1>2, <1>4, <1>5, CallStep
<1>7. StoresOK'
  <2>1. /\ scraps \in Seq(Scrap \ Lasting) /\ listed \subseteq Lasting /\ IsFiniteSet(listed)
        /\ spare \in 0..MaxRoom /\ cleared \subseteq Scrap \X Review
    BY DEF RtInv, StoresOK
  <2>2. ToSet(scraps) \subseteq Scrap
    <3>1. ToSet(scraps) \subseteq Scrap \ Lasting
      BY <2>1, SeqOfItself
    <3> QED BY <3>1
  <2>3. scraps' \in Seq(Scrap \ Lasting)
    <3>1. scraps' = <<>> \/ scraps' = scraps
      BY <1>1
    <3>2. <<>> \in Seq(Scrap \ Lasting)
      OBVIOUS
    <3> QED BY <2>1, <3>1, <3>2
  <2>4. cleared' \subseteq Scrap \X Review
    BY <1>1, <2>1, <2>2
  <2> QED BY <1>1, <2>1, <2>3, <2>4 DEF StoresOK
<1> QED BY <1>6, <1>7 DEF RtInv

LEMMA ReflectToolInvariance == ReflectToolSpec => []RtInv
<1>1. ReflectToolInit => RtInv
  <2> SUFFICES ASSUME ReflectToolInit PROVE RtInv
    OBVIOUS
  <2>1. StoresOK
    <3>1. <<>> \in Seq(Scrap \ Lasting) /\ IsFiniteSet({}) /\ MaxRoom \in 0..MaxRoom
      BY FS_EmptySet, ScrapAssumption
    <3> QED BY <3>1 DEF ReflectToolInit, StoresOK
  <2>2. ASSUME NEW v \in Review PROVE ReviewOK(review[v]) /\ Square(review[v], v, rows)
    <3>1. review[v] = [at |-> "idle", seen |-> {}, items |-> <<>>, dropped |-> {}]
      BY DEF ReflectToolInit, Blank
    <3> DEFINE r == review[v]
    <3>2. /\ r.at = "idle" /\ r.seen = {} /\ r.items = <<>>
          /\ r = [at |-> r.at, seen |-> r.seen, items |-> r.items, dropped |-> r.dropped]
      BY <3>1
    <3>3. IsSeq(r.items)
      BY <3>2, NoneThere
    <3> HIDE DEF r
    <3>4. ReviewOK(r) /\ Square(r, v, rows)
      BY <3>2, <3>3 DEF ReviewOK, Square, Places
    <3> QED BY <3>4 DEF r
  <2>3. review = [v \in Review |-> review[v]]
    BY DEF ReflectToolInit
  <2>4. ClearedOK
    BY DEF ReflectToolInit, ClearedOK
  <2> QED BY <2>1, <2>2, <2>3, <2>4 DEF RtInv, CallsOK
<1>2. RtInv /\ [ReflectToolNext]_rtoolVars => RtInv'
  <2> SUFFICES ASSUME RtInv, [ReflectToolNext]_rtoolVars PROVE RtInv'
    OBVIOUS
  <2>1. CASE \/ \E e \in Scrap : RememberForSession(e) \/ RememberRow(e)
             \/ OthersUseQuota
    BY <2>1, RememberInv
  <2>2. ASSUME NEW v \in Review,
               \/ Gather(v) \/ CountItems(v) \/ StoreItems(v) \/ StoreFails(v)
               \/ Tell(v) \/ BreakOff(v) \/ ClearScraps(v)
        PROVE  RtInv'
    BY <2>2, GatherInv, QuotaInv, EndInv, TellInv, ClearInv
  <2>3. CASE UNCHANGED rtoolVars
    <3>1. UNCHANGED <<scraps, listed, rows, spare, review, cleared>>
      BY <2>3 DEF rtoolVars
    <3>2. CallsOK' /\ ClearedOK'
      BY <3>1, ToolQuietStep
    <3>3. StoresOK'
      BY <3>1 DEF RtInv, StoresOK
    <3> QED BY <3>2, <3>3 DEF RtInv
  <2> QED BY <2>1, <2>2, <2>3 DEF ReflectToolNext
<1> QED BY <1>1, <1>2, PTL DEF ReflectToolSpec

(***************************************************************************)
(* Whatever calls, quota and failures there are, what a reflection clears  *)
(* from the working memory is told by a row stored before, unless the call *)
(* had not read it, had items of its own of that category, or no room.     *)
(***************************************************************************)
THEOREM ClearedAreTold == ReflectToolSpec => []ClearedScrapsTold
<1>1. RtInv => ClearedScrapsTold
  <2> SUFFICES ASSUME RtInv, NEW c \in cleared,
                      c[1] \in review[c[2]].seen, Category[c[1]] \notin Given[c[2]]
               PROVE  \/ IsTold(c[1]) \/ IsRunOn(c[1])
                      \/ \E item \in review[c[2]].dropped : Mentions(item, c[1])
    BY Zenon DEF ClearedScrapsTold
  <2>1. PICK item \in rows \cup review[c[2]].dropped : Tells(item, c[1])
    BY DEF RtInv, ClearedOK, Settled
  <2>2. Mentions(item, c[1])
    BY <2>1 DEF Tells, Mentions
  <2>3. item \in rows => IsTold(c[1]) \/ IsRunOn(c[1])
    BY <2>1, <2>2 DEF Tells, IsTold, IsRunOn
  <2> QED BY <2>1, <2>2, <2>3
<1> QED BY <1>1, ReflectToolInvariance, PTL

\* The working memory, the quota and the calls are well typed.
THEOREM ReflectToolTypeCorrect == ReflectToolSpec => []ReflectToolTypeOK
<1>1. RtInv => ReflectToolTypeOK
  <2> SUFFICES ASSUME RtInv PROVE ReflectToolTypeOK
    OBVIOUS
  <2>1. ASSUME NEW v \in Review
        PROVE  /\ review[v].at \in {"idle", "count", "store", "tell", "clear", "over"}
               /\ review[v].seen \subseteq Scrap /\ DOMAIN review[v] = DOMAIN Blank
    <3>1. ReviewOK(review[v])
      BY DEF RtInv, CallsOK
    <3>2. DOMAIN Blank = {"at", "seen", "items", "dropped"}
      BY DEF Blank
    <3>3. DOMAIN review[v] = {"at", "seen", "items", "dropped"}
      BY <3>1 DEF ReviewOK
    <3> QED BY <3>1, <3>2, <3>3 DEF ReviewOK, Places
  <2> QED BY <2>1 DEF RtInv, StoresOK, ReflectToolTypeOK
<1> QED BY <1>1, ReflectToolInvariance, PTL
================================================================================
