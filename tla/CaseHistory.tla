---------------------------- MODULE CaseHistory ----------------------------
(***************************************************************************)
(* reconstruct_history of a case (HistoryReconstructor.js): the timeline,  *)
(* the events and their edges and the links are read one after the other   *)
(* while remember goes on, then the causal links are followed breadth      *)
(* first from every root. Fragments and events are not found under each    *)
(* other's id, so that no edge between events adds to a chain; the         *)
(* evidence of the events, the order of the timeline and the summary are   *)
(* left out.                                                               *)
(***************************************************************************)
EXTENDS CaseEvents, Sequences, SequencesExt

CONSTANTS
  Story,   \* fragments that links may lead to
  Reader,  \* key of the caller, or Anyone
  NoStory

ASSUME StoryAssumption == IsFiniteSet(Story) /\ NoStory \notin Story

VARIABLE story  \* the call, with what it has read and built

chVars == <<story>>

StoryPhase == {"idle", "timeline", "events", "edges", "walking", "done"}
Outcome == {"none", "open", "resolved"}

StoryState ==
  [at : StoryPhase,
   timeline : SUBSET Story,                \* live fragments of the case
   outcome : [Story -> Outcome],           \* resolution_status of those
   seen : SUBSET Event,                    \* case_events
   dag : SUBSET (Event \X Event \X EdgeType),
   links : SUBSET (Story \X Story),        \* caused_by and resolved_by
   roots : SUBSET Story,                   \* still to be walked from
   root : Story \cup {NoStory},
   queue : Seq(Story), visited : SUBSET Story, chain : Seq(Story),
   chains : SUBSET (Story \X Seq(Story))]

CaseHistoryTypeOK == story \in StoryState
----------------------------------------------------------------------------
CaseHistoryInit ==
  story = [at |-> "idle", timeline |-> {}, outcome |-> [f \in Story |-> "none"], seen |-> {},
           dag |-> {}, links |-> {}, roots |-> {}, root |-> NoStory, queue |-> <<>>,
           visited |-> {}, chain |-> <<>>, chains |-> {}]

\* whatever the case holds then
ReadTimeline ==
  /\ story.at = "idle"
  /\ \E T \in SUBSET Story : \E o \in [T -> Outcome] :
       story' = [story EXCEPT !.at = "timeline", !.timeline = T,
                   !.outcome = [f \in Story |-> IF f \in T THEN o[f] ELSE "none"]]

\* getByCase; a query that fails reads as no events
ReadEvents ==
  /\ story.at = "timeline"
  /\ \E E \in {{}, {e \in StoredEvents : Reader \in {Anyone, Author[e]}}} :
       story' = [story EXCEPT !.at = "events", !.seen = E]

\* getEdgesByEvents: either end among the events read, both ends the reader's
EdgesRead ==
  {x \in edge : /\ {x[1], x[2]} \cap story.seen # {}
                /\ Reader # Anyone => Author[x[1]] = Reader /\ Author[x[2]] = Reader}

ReadEdges ==
  /\ story.at = "events"
  /\ \E D \in {{}, EdgesRead} : story' = [story EXCEPT !.at = "edges", !.dag = D]

\* nothing to tell: the answer is empty
NothingFound ==
  /\ story.at = "edges" /\ story.timeline = {} /\ story.seen = {}
  /\ story' = [story EXCEPT !.at = "done"]

\* the links with an end in the timeline, whichever the graph has
LinksOf(L) == {x \in L : {x[1], x[2]} \cap story.timeline # {}}

\* ends that lead somewhere and that nothing leads to
Roots(L) == {x[1] : x \in L} \ {x[2] : x \in L}

ReadLinks ==
  /\ story.at = "edges"
  /\ story.timeline # {} \/ story.seen # {}
  /\ \E L \in SUBSET (Story \X Story) :
       /\ \A x \in L : x[1] # x[2]
       /\ LinksOf(L) = L
       /\ story' = [story EXCEPT !.at = "walking", !.links = L, !.roots = Roots(L)]

WalkFrom(r) ==
  /\ story.at = "walking" /\ story.root = NoStory /\ r \in story.roots
  /\ story' = [story EXCEPT !.roots = @ \ {r}, !.root = r, !.queue = <<r>>,
                 !.visited = {}, !.chain = <<>>]

\* mutant of Onward: a fragment outside the timeline ends the walk
OnwardInTimeline(f) ==
  IF f \in story.timeline
    THEN {g \in Story \ (story.visited \cup {f}) : <<f, g>> \in story.links} ELSE {}

Onward(f) == {g \in Story \ (story.visited \cup {f}) : <<f, g>> \in story.links}

Visit ==
  /\ story.root # NoStory /\ story.queue # <<>>
  /\ LET f == Head(story.queue) IN
     IF f \in story.visited
       THEN story' = [story EXCEPT !.queue = Tail(@)]
       ELSE \E onward \in SetToSeqs(Onward(f)) :
              story' = [story EXCEPT !.queue = Tail(@) \o onward,
                          !.visited = @ \cup {f},
                          !.chain = IF f \in story.timeline THEN Append(@, f) ELSE @]

EndChain ==
  /\ story.root # NoStory /\ story.queue = <<>>
  /\ story' = [story EXCEPT !.root = NoStory, !.visited = {}, !.chain = <<>>,
                 !.chains = IF story.chain = <<>> THEN @ ELSE @ \cup {<<story.root, story.chain>>}]

EndWalk ==
  /\ story.at = "walking" /\ story.root = NoStory /\ story.roots = {}
  /\ story' = [story EXCEPT !.at = "done"]

CaseHistoryNext ==
  \/ ReadTimeline \/ ReadEvents \/ ReadEdges \/ NothingFound \/ ReadLinks
  \/ (\E r \in Story : WalkFrom(r)) \/ Visit \/ EndChain \/ EndWalk

CaseHistorySpec == CaseHistoryInit /\ [][CaseHistoryNext]_chVars

----------------------------------------------------------------------------
(***************************************************************************)
(* What the answer says: is_resolved of a chain, and the open fragments    *)
(* and the errors without an outgoing resolved_by of _detectUnresolvedBranches *)
(***************************************************************************)
InResolvedChain ==
  UNION {Range(c[2]) : c \in {d \in story.chains :
                                \E i \in DOMAIN d[2] : story.outcome[d[2][i]] = "resolved"}}

OpenBranches == {f \in story.timeline : story.outcome[f] = "open"} \ InResolvedChain

OpenErrors ==
  {e \in story.seen : EventKind[e] = "error" /\ \A f \in Event : <<e, f, "resolved_by">> \notin story.dag}

\* the fragments that links lead to from r, r among them: the least closed set
Reached(r) ==
  {f \in Story : \A C \in SUBSET Story :
     r \in C /\ (\A x \in story.links : x[1] \in C => x[2] \in C) => f \in C}

(***************************************************************************)
(* Every root of the links read has one chain, of the fragments of the     *)
(* timeline that links lead to from it, also those behind a fragment of    *)
(* another case or a cycle, each once; a root from which none is reached   *)
(* has no chain. An open fragment is left out of the unresolved branches   *)
(* only if one of these stories has a resolved fragment.                   *)
(***************************************************************************)
ChainsFollowLinks ==
  story.at = "done" =>
    LET Tale(r) == Reached(r) \cap story.timeline
        R == {r \in Roots(story.links) : Tale(r) # {}} IN
    /\ \A c \in story.chains : /\ c[1] \in R /\ Range(c[2]) = Tale(c[1])
                               /\ Len(c[2]) = Cardinality(Tale(c[1]))
    /\ \A r \in R : Cardinality({c \in story.chains : c[1] = r}) = 1
    /\ \A f \in story.timeline :
         f \in OpenBranches <=>
           /\ story.outcome[f] = "open"
           /\ \A r \in R : f \in Tale(r) => \A g \in Tale(r) : story.outcome[g] # "resolved"

(***************************************************************************)
(* An error that a fix of the case has resolved is not listed as           *)
(* unresolved (HistoryReconstructor.js:338, docs/architecture.en.md:841).  *)
(* It is: remember stores the edge from the fix to the error, and          *)
(* reconstruct looks for one from the error.                               *)
(***************************************************************************)
ResolvedErrorsClosed ==
  story.at = "done" =>
    \A e, f \in Event : <<f, e, "resolved_by">> \in story.dag => e \notin OpenErrors
=============================================================================
