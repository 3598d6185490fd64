---------------------------- MODULE Supersession ----------------------------
(***************************************************************************)
(* The automatic writers of fragment_links and valid_to: GraphLinker, run  *)
(* for every new embedding and by the maintenance cycle, and the stages of *)
(* the cycle that split, deduplicate, compress, contradict and supersede   *)
(* fragments (GraphLinker.js, ContradictionDetector.js, ConsolidatorGC.js, *)
(* MemoryConsolidator.js, LinkStore.js), while rows come and go.           *)
(*                                                                         *)
(* The fragments share one topic and one type and are embedded as soon as  *)
(* they are stored; what another topic or type would change is that the    *)
(* pair is never compared, or linked as "related" only. The verdicts of    *)
(* the classifier and the LLM are free. linked_to, the array beside the    *)
(* table of links, is left out; so are the superseding that a client asks  *)
(* for (FragmentStore) and the "co_retrieved" links of recalls.            *)
(***************************************************************************)
EXTENDS Integers, FiniteSets

CONSTANTS
  Node,      \* fragment ids
  Born,      \* created_at; rows of one transaction are born together
  Holder,    \* key_id
  NoHolder,  \* the master's
  Cos,       \* cosine similarity of two fragments, in percent
  Anchored,  \* fragments with is_anchor
  Linker,    \* linkFragment handlers that may run at the same time
  TheCycle,  \* the maintenance cycle
  NoNode,
  MaxTasks   \* bound on the handlers and stages begun

ASSUME NodeAssumption ==
  /\ MaxTasks \in Nat /\ NoNode \notin Node /\ TheCycle \notin Linker /\ Anchored \subseteq Node
  /\ Born \in [Node -> Nat]
  /\ Cos \in [Node \X Node -> 0..100]
  /\ \A f, g \in Node : Cos[<<f, g>>] = Cos[<<g, f>>]

VARIABLES
  node,    \* the rows; "expired" is valid_to set
  rel,     \* fragment_links: the relation of <<from, to>>, "" without a row
  work,    \* the handlers and the cycle
  heir,    \* history: the fragment a retired one was superseded by
  cleaned, \* history: pairs whose links semantic_dedup deleted
  begun    \* handlers and stages begun

spVars == <<node, rel, work, heir, cleaned, begun>>

Worker == Linker \cup {TheCycle}
Relation == {"", "related", "superseded_by", "contradicts", "supersedes"}
Task == {"link", "split", "dedup", "compress", "contradict", "supersede"}
Step == {"idle", "next", "gate", "candidates", "contradicts", "clean", "link", "retire"}
Pair == (Node \cup {NoNode}) \X (Node \cup {NoNode})
NoPair == <<NoNode, NoNode>>
Resting == [task |-> "link", step |-> "idle", todo |-> {}, pair |-> NoPair]

SupersessionTypeOK ==
  /\ node \in [Node -> {"none", "live", "expired", "gone"}]
  /\ rel \in [Node \X Node -> Relation]
  /\ work \in [Worker -> [task : Task, step : Step, todo : SUBSET (Node \X Node), pair : Pair]]
  /\ heir \in [Node -> Node \cup {NoNode}]
  /\ cleaned \subseteq Node \X Node
  /\ begun \in 0..MaxTasks

Exists(f) == node[f] \in {"live", "expired"}
Live(f) == node[f] = "live"
Joined(f, g) == rel[<<f, g>>] # "" \/ rel[<<g, f>>] # ""
Similar(f, F, low) == {g \in F \ {f} : Cos[<<f, g>>] >= low}

\* ORDER BY similarity DESC LIMIT n
Nearest(f, F, n) ==
  {S \in SUBSET F :
     /\ Cardinality(S) <= n /\ (Cardinality(S) = n \/ S = F)
     /\ \A g \in S, h \in F \ S : Cos[<<f, g>>] >= Cos[<<f, h>>]}

\* a pair <<old, new>> by created_at; the ids decide between two born together
ByAge(f, g) == CHOOSE p \in {<<f, g>>, <<g, f>>} : Born[p[1]] <= Born[p[2]]

Expired(f) == node' = [node EXCEPT ![f] = IF Live(f) THEN "expired" ELSE @]
Turn(w, step, pair) == work' = [work EXCEPT ![w] = [@ EXCEPT !.step = step, !.pair = pair]]
Proceed(w) == work' = [work EXCEPT ![w] =
                IF @.todo = {} THEN Resting ELSE [@ EXCEPT !.step = "next", !.pair = NoPair]]
Begin(w, task, step, todo, pair) ==
  /\ work[w].step = "idle" /\ begun < MaxTasks
  /\ begun' = begun + 1
  /\ work' = [work EXCEPT ![w] = [task |-> task, step |-> step, todo |-> todo, pair |-> pair]]
  /\ UNCHANGED <<node, rel, heir, cleaned>>
Take(w, task, todo, step, pair) ==
  /\ work[w].task = task /\ work[w].step = "next"
  /\ work' = [work EXCEPT ![w] = [@ EXCEPT !.todo = todo, !.step = step, !.pair = pair]]
  /\ UNCHANGED <<node, rel, heir, cleaned, begun>>

----------------------------------------------------------------------------
SupersessionInit ==
  /\ node = [f \in Node |-> "none"]
  /\ rel = [p \in Node \X Node |-> ""]
  /\ work = [w \in Worker |-> Resting]
  /\ heir = [f \in Node |-> NoNode]
  /\ cleaned = {} /\ begun = 0

Appear(f) ==
  /\ node[f] = "none"
  /\ node' = [node EXCEPT ![f] = "live"]
  /\ UNCHANGED <<rel, work, heir, cleaned, begun>>

\* forget, garbage collection: the links go with the row (ON DELETE CASCADE)
Disappear(f) ==
  /\ Exists(f)
  /\ node' = [node EXCEPT ![f] = "gone"]
  /\ rel' = [p \in Node \X Node |-> IF f \in {p[1], p[2]} THEN "" ELSE rel[p]]
  /\ UNCHANGED <<work, heir, cleaned, begun>>

(***************************************************************************)
(* linkFragment(f), started by an embedding or by retroLink, whether f is  *)
(* still valid or not. The gate: a live fragment of at least 95 % retires  *)
(* f itself.                                                               *)
(***************************************************************************)
LinkBegins(w, f) ==
  /\ Exists(f)
  /\ w = TheCycle => \A g \in Node : ~Joined(f, g)
  /\ \E top \in Nearest(f, Similar(f, {g \in Node : Live(g)}, 90), 1) :
       \/ /\ \E g \in top : Cos[<<f, g>>] >= 95
          /\ Begin(w, "link", "gate", {}, <<f, f>>)
       \/ /\ \A g \in top : Cos[<<f, g>>] < 95
          /\ Begin(w, "link", "candidates", {}, <<f, f>>)

GateCloses(w) ==
  /\ work[w].step = "gate"
  /\ Expired(work[w].pair[1])
  /\ Proceed(w)
  /\ UNCHANGED <<rel, heir, cleaned, begun>>

\* the three most similar rows above 70 %, valid or not
LinkCandidates(w) ==
  LET f == work[w].pair[1] IN
  /\ work[w].step = "candidates"
  /\ \E S \in Nearest(f, Similar(f, {g \in Node : Exists(g) /\ Exists(f)}, 71), 3) :
       work' = [work EXCEPT ![w] = IF S = {} THEN Resting
                  ELSE [@ EXCEPT !.todo = S \X {f}, !.step = "next", !.pair = NoPair]]
  /\ UNCHANGED <<node, rel, heir, cleaned, begun>>

LinkNext(w) ==
  \E p \in work[w].todo : Take(w, "link", work[w].todo \ {p}, "link", p)

(***************************************************************************)
(* The stages of the cycle. Each first reads a list.                       *)
(***************************************************************************)
Unanchored == {f \in Node : Live(f) /\ f \notin Anchored}

\* the LLM splits long fragments, or not; their parts are fragments outside Node
SplitBegins ==
  /\ Unanchored # {}
  /\ Begin(TheCycle, "split", "next", {<<f, f>> : f \in Unanchored}, NoPair)

SplitNext ==
  \E p \in work[TheCycle].todo, step \in {"next", "retire"} :
    Take(TheCycle, "split", work[TheCycle].todo \ {p}, step, IF step = "next" THEN NoPair ELSE p)

\* semantic_dedup: the list is read once, the neighbours again for each entry
DedupBegins ==
  /\ Unanchored # {}
  /\ Begin(TheCycle, "dedup", "next", {<<f, f>> : f \in Unanchored}, NoPair)

DedupNext ==
  \E p \in work[TheCycle].todo :
    \/ Take(TheCycle, "dedup", work[TheCycle].todo \ {p}, "next", NoPair)
    \/ \E g \in Similar(p[1], Unanchored, 92) :
         LET q == IF Born[p[1]] >= Born[g] THEN <<g, p[1]>> ELSE <<p[1], g>> IN
         Take(TheCycle, "dedup", work[TheCycle].todo \ {<<q[1], q[1]>>}, "clean", q)

\* the statements that should move the links are no valid SQL and are skipped;
\* those that delete the links between the two are not
Clean(w) ==
  LET p == work[w].pair
      q == <<p[2], p[1]>> IN
  /\ work[w].step = "clean"
  /\ rel' = [rel EXCEPT ![p] = "", ![q] = ""]
  /\ cleaned' = cleaned \cup {p, q}
  /\ Turn(w, "retire", p)
  /\ UNCHANGED <<node, heir, begun>>

\* compress_old_fragments: at least three around a seed, one is kept
CompressBegins ==
  \E seed \in Unanchored : \E group \in SUBSET Similar(seed, Unanchored, 80) :
    /\ Cardinality(group) >= 2
    /\ \E keeper \in group \cup {seed} :
         Begin(TheCycle, "compress", "next", ((group \cup {seed}) \ {keeper}) \X {keeper}, NoPair)

CompressNext ==
  \E p \in work[TheCycle].todo : Take(TheCycle, "compress", work[TheCycle].todo \ {p}, "retire", p)

(***************************************************************************)
(* detect_contradictions and the pending pairs. resolveContradiction works *)
(* for one key only; the detection does not read the key of the candidate, *)
(* which leaves the master's pairs, the pending pairs have it.             *)
(***************************************************************************)
ContradictBegins ==
  /\ \E f \in Node : Exists(f)
  /\ Begin(TheCycle, "contradict", "next", {<<f, f>> : f \in {g \in Node : Exists(g)}}, NoPair)

Resolvable(f, g) ==
  /\ Exists(g) /\ Holder[f] = Holder[g] /\ Cos[<<f, g>>] > 85
  /\ "contradicts" \notin {rel[<<f, g>>], rel[<<g, f>>]}
  /\ Holder[f] = NoHolder \/ Cos[<<f, g>>] > 92

ContradictNext ==
  \E p \in work[TheCycle].todo :
    \/ Take(TheCycle, "contradict", work[TheCycle].todo \ {p}, "next", NoPair)
    \/ \E g \in Node \ {p[1]} : /\ Resolvable(p[1], g)
                               /\ Take(TheCycle, "contradict", work[TheCycle].todo,
                                       "contradicts", <<p[1], g>>)

\* then the older one is superseded, or the examined one of two born together
PutContradicts(w) ==
  LET p == work[w].pair IN
  /\ work[w].step = "contradicts" /\ Exists(p[1]) /\ Exists(p[2])
  /\ rel' = [rel EXCEPT ![p] = "contradicts"]
  /\ Turn(w, "link", IF Born[p[1]] > Born[p[2]] THEN <<p[2], p[1]>> ELSE p)
  /\ UNCHANGED <<node, heir, cleaned, begun>>

\* detect_supersessions: live pairs of one key, 70 to 85 %, without a link
SupersedeBegins ==
  LET P == {p \in Node \X Node : /\ p[1] # p[2] /\ Live(p[1]) /\ Live(p[2])
                                 /\ p = ByAge(p[1], p[2]) /\ Holder[p[1]] = Holder[p[2]]
                                 /\ Cos[p] \in 70..85 /\ ~Joined(p[1], p[2])}
  IN P # {} /\ Begin(TheCycle, "supersede", "next", P, NoPair)

SupersedeNext ==
  \E p \in work[TheCycle].todo, step \in {"next", "link"} :
    Take(TheCycle, "supersede", work[TheCycle].todo \ {p}, step, IF step = "next" THEN NoPair ELSE p)

(***************************************************************************)
(* The writes. createLink inserts the link or changes the relation of the  *)
(* one that is there; it fails without one of the rows (foreign key) or    *)
(* for any other reason, and then nothing is retired.                      *)
(***************************************************************************)
\* mutant of Supersedes: similarity alone decides
SupersedesIfSimilar(task, p) == task # "link" \/ Cos[p] > 85

Supersedes(task, p) == task # "link" \/ (Cos[p] > 85 /\ Born[p[1]] < Born[p[2]])

PutLink(w) ==
  LET p == work[w].pair
      retires == Supersedes(work[w].task, p)
  IN
  /\ work[w].step = "link" /\ Exists(p[1]) /\ Exists(p[2])
  /\ rel' = [rel EXCEPT ![p] = IF retires THEN "superseded_by" ELSE "related"]
  /\ IF retires THEN Turn(w, "retire", p) ELSE Proceed(w)
  /\ UNCHANGED <<node, heir, cleaned, begun>>

\* mutant of AfterFailure: the fragment is retired although the link failed
RetireAnyway(w) == Turn(w, "retire", work[w].pair)

AfterFailure(w) == Proceed(w)

LinkFails(w) ==
  /\ work[w].step \in {"link", "contradicts"}
  /\ AfterFailure(w)
  /\ UNCHANGED <<node, rel, heir, cleaned, begun>>

\* valid_to = NOW() WHERE valid_to IS NULL; compression then adds its link
Retire(w) ==
  LET p == work[w].pair
      task == work[w].task
  IN
  /\ work[w].step = "retire"
  /\ Expired(p[1])
  /\ heir' = IF Live(p[1]) /\ task \in {"link", "contradict", "supersede"}
             THEN [heir EXCEPT ![p[1]] = p[2]] ELSE heir
  /\ \/ /\ task = "compress" /\ Exists(p[1]) /\ Exists(p[2])
        /\ rel' = [rel EXCEPT ![<<p[2], p[1]>>] = "supersedes"]
     \/ UNCHANGED rel
  /\ Proceed(w)
  /\ UNCHANGED <<cleaned, begun>>

\* a stage fails, or the process is restarted
Abandon(w) ==
  /\ work[w].step # "idle"
  /\ work' = [work EXCEPT ![w] = Resting]
  /\ UNCHANGED <<node, rel, heir, cleaned, begun>>

StageStep ==
  \/ SplitBegins \/ SplitNext \/ DedupBegins \/ DedupNext \/ CompressBegins \/ CompressNext
  \/ ContradictBegins \/ ContradictNext \/ SupersedeBegins \/ SupersedeNext

WriteLinks(w) ==
  \/ GateCloses(w) \/ LinkCandidates(w) \/ LinkNext(w) \/ Clean(w) \/ PutContradicts(w)
  \/ PutLink(w) \/ LinkFails(w) \/ Retire(w) \/ Abandon(w)

SupersessionNext ==
  \/ \E f \in Node : Appear(f) \/ Disappear(f)
  \/ \E w \in Worker, f \in Node : LinkBegins(w, f)
  \/ StageStep
  \/ \E w \in Worker : WriteLinks(w)

SupersessionSpec == SupersessionInit /\ [][SupersessionNext]_spVars

----------------------------------------------------------------------------
(***************************************************************************)
(* However the writers interleave, a superseded_by link leads to a         *)
(* fragment that is no older, so following the links cannot go back in     *)
(* time (GraphLinker.js, ContradictionDetector.js resolveContradiction and *)
(* detectSupersessions; HistoryReconstructor follows these links).         *)
(***************************************************************************)
SupersededByNewer ==
  \A p \in Node \X Node : rel[p] = "superseded_by" => Born[p[1]] <= Born[p[2]]

(***************************************************************************)
(* A fragment that the linker, a contradiction or a supersession retired   *)
(* because another one supersedes it can be traced: some link still joins  *)
(* the two, unless one of the rows is gone or semantic_dedup cleaned the   *)
(* pair. The link is written before valid_to and a failed link retires     *)
(* nothing, other writers only change its relation (LinkStore.js ON        *)
(* CONFLICT DO UPDATE). It says nothing of the other ways to be retired,   *)
(* which promise no link: the gate writes none (GraphLinker.js:83),        *)
(* semantic_dedup deletes those there are, a split row is linked to its    *)
(* parts, which are outside Node, and compression adds its link after      *)
(* valid_to and lets it fail (ConsolidatorGC.js:562).                      *)
(***************************************************************************)
SupersededLeavesTrace ==
  \A f \in Node : heir[f] # NoNode =>
    Joined(f, heir[f]) \/ ~Exists(f) \/ ~Exists(heir[f]) \/ <<f, heir[f]>> \in cleaned

(***************************************************************************)
(* GraphLinker.js:84: the gate soft-deletes the new fragment of two exact  *)
(* duplicates and touches the existing one. So whenever it retires a       *)
(* fragment, a duplicate of it is still valid, unless it was deleted since *)
(* the gate found it.                                                      *)
(***************************************************************************)
GateKeepsDuplicate ==
  [][\A w \in Worker, f \in Node :
       (work[w].step = "gate" /\ work'[w] # work[w] /\ Live(f) /\ node'[f] = "expired") =>
         \E g \in Similar(f, Node, 95) : node[g] \in {"live", "gone"}]_spVars
=============================================================================
