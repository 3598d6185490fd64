----------------------------- MODULE Milestones -----------------------------
(***************************************************************************)
(* EpisodeContinuityService.js: after a reflect, in the background, its    *)
(* episode becomes a milestone event, with an edge from the last milestone *)
(* of the agent, which a map of the process remembers. The edges are read  *)
(* with the events of a case (HistoryReconstructor.js).                    *)
(***************************************************************************)
EXTENDS Integers, FiniteSets

CONSTANTS
  Reflect,  \* calls of linkEpisodeMilestone of one agent and key
  Episode,  \* the fragment of each; a narrative told twice is one fragment
  NoReflect

ASSUME EpisodeAssumption == NoReflect \notin Reflect /\ DOMAIN Episode = Reflect

VARIABLES
  milestone, \* the calls; one that is past "none" and not a "repeat" has its event
  chain,     \* the preceded_by edges
  latest,    \* lastEventByAgent
  after,     \* history: <<e, f>>: the call e was over when f began
  cut        \* history: milestones whose call was cut short, or stored before a restart

msVars == <<milestone, chain, latest, after, cut>>

MilestonesTypeOK ==
  /\ milestone \in [Reflect -> {"none", "stored", "linked", "done", "repeat"}]
  /\ chain \subseteq Reflect \X Reflect
  /\ latest \in Reflect \cup {NoReflect}
  /\ after \subseteq Reflect \X Reflect /\ cut \subseteq Reflect

StoredMilestones == {e \in Reflect : milestone[e] \in {"stored", "linked", "done"}}
Over == {e \in Reflect : milestone[e] \in {"done", "repeat"}}

----------------------------------------------------------------------------
MilestonesInit ==
  /\ milestone = [e \in Reflect |-> "none"]
  /\ chain = {} /\ latest = NoReflect /\ after = {} /\ cut = {}

\* INSERT ... ON CONFLICT (idempotency_key) DO NOTHING
InsertMilestone(e) ==
  /\ milestone[e] = "none"
  /\ milestone' = [milestone EXCEPT ![e] =
       IF \E f \in StoredMilestones : Episode[f] = Episode[e] THEN "repeat" ELSE "stored"]
  /\ after' = after \cup {<<f, e>> : f \in Over}
  /\ UNCHANGED <<chain, latest, cut>>

\* the edge, from what the map holds when the INSERT has returned
ChainMilestone(e) ==
  /\ milestone[e] = "stored"
  /\ chain' = IF latest = NoReflect THEN chain ELSE chain \cup {<<latest, e>>}
  /\ milestone' = [milestone EXCEPT ![e] = "linked"]
  /\ UNCHANGED <<latest, after, cut>>

\* mutant of NewLatest: the map keeps the first milestone
FirstLatest(e) == IF latest = NoReflect THEN e ELSE latest

NewLatest(e) == e

RememberMilestone(e) ==
  /\ milestone[e] = "linked"
  /\ latest' = NewLatest(e)
  /\ milestone' = [milestone EXCEPT ![e] = "done"]
  /\ UNCHANGED <<chain, after, cut>>

\* the edge cannot be written: the map keeps the milestone before
MilestoneFails(e) ==
  /\ milestone[e] = "stored"
  /\ milestone' = [milestone EXCEPT ![e] = "done"]
  /\ cut' = cut \cup {e}
  /\ UNCHANGED <<chain, latest, after>>

\* the process is restarted: the map is empty and the calls are gone
LoseMap ==
  /\ StoredMilestones # {}
  /\ milestone' = [e \in Reflect |-> IF e \in StoredMilestones THEN "done" ELSE milestone[e]]
  /\ latest' = NoReflect
  /\ cut' = cut \cup StoredMilestones
  /\ UNCHANGED <<chain, after>>

MilestonesNext ==
  \/ \E e \in Reflect : \/ InsertMilestone(e) \/ ChainMilestone(e) \/ RememberMilestone(e)
                        \/ MilestoneFails(e)
  \/ LoseMap

MilestonesSpec == MilestonesInit /\ [][MilestonesNext]_msVars

----------------------------------------------------------------------------
(***************************************************************************)
(* The chain leaves out no milestone that was recorded without a failure:  *)
(* of three calls, each begun after the one before was over, the third is  *)
(* chained to the first only if the second failed, told what had been told *)
(* before, or the process was restarted in between                         *)
(* (EpisodeContinuityService.js:66-76).                                    *)
(***************************************************************************)
ChainSkipsNone ==
  \A p, q \in after :
    p[2] = q[1] /\ <<p[1], q[2]>> \in chain => q[1] \in cut \/ milestone[q[1]] = "repeat"
=============================================================================
