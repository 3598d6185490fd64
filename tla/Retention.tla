------------------------------ MODULE Retention ------------------------------
(***************************************************************************)
(* How long a fragment is kept: the tier, importance and use of one row,   *)
(* the statements of a consolidation cycle that change or collect it       *)
(* (FragmentGC.js, FragmentWriter.deleteExpired, MemoryConsolidator.js,    *)
(* ConsolidatorGC.js), and what recalls, amends, a repeated remember and   *)
(* the quality worker (MemoryEvaluator.js) do to it between any two of     *)
(* them. The importance is a band: a comparison within one, like one with  *)
(* an age, the links, the activation or the LIMIT, may go either way, and  *)
(* a computed importance may fall into any band its formula may reach. So  *)
(* is which rows are alike: the others are not in the model.               *)
(***************************************************************************)
EXTENDS Integers

CONSTANTS
  KeptKind,  \* what amend may make of it: "preference", "fact" (or decision), "reflection"
             \* (one of the topic session_reflect), "solved" (an error so marked), "other"
  Inactive,  \* 60 days, in steps of the time
  Forgotten, \* 180 days
  MaxJobs    \* bound on the jobs of the quality worker

ASSUME RetentionAssumption ==
  /\ KeptKind \subseteq {"preference", "fact", "reflection", "solved", "other"} /\ KeptKind # {}
  /\ Inactive \in Nat \ {0} /\ Forgotten \in Nat /\ Inactive < Forgotten /\ MaxJobs \in Nat

VARIABLES
  kept,     \* the row
  stage,    \* where the cycle is
  tally,    \* the counts of the row the stage has read
  jobs,     \* of the quality worker
  unpinned, \* history: as a preference the row may lack the tier it is pinned to
  raced     \* history: the last recall was counted behind the back of a stage that had read the count

rtVars == <<kept, stage, tally, jobs, unpinned, raced>>

Never == Forgotten + 1    \* accessed_at IS NULL
Lapse == 0..Never

\* below 0.3, below 0.5, below 0.8, and above
Low == 0
Fair == 1
Good == 2
High == 3
Band == Low..High

Tier == {"short", "hot", "warm", "cold", "permanent"}

KeptRow ==
  [is : {"unborn", "live", "merged", "deleted"}, kind : KeptKind, tier : Tier, anchor : BOOLEAN, importance : Band,
   quality : {"unknown", "kept", "rejected"},  \* quality_verified
   settled : BOOLEAN,                          \* past the grace period
   idle : Lapse,                               \* since accessed_at
   count : 0..1,                               \* access_count, 1 for any above 0
   recalled : Lapse,                           \* since the last recall that was counted
   useless : BOOLEAN]                          \* utility_score below the threshold

CycleStage == {"rest", "preference", "hub", "merit", "cool", "parole", "decay", "delete", "split", "merge",
          "dedup", "compress", "utility", "requeue", "anchors", "contradict", "calibrate", "purge"}
NextStage(s) ==
  CASE s = "rest" -> "preference" [] s = "preference" -> "hub" [] s = "hub" -> "merit"
    [] s = "merit" -> "cool" [] s = "cool" -> "parole" [] s = "parole" -> "decay"
    [] s = "decay" -> "delete" [] s = "delete" -> "split" [] s = "split" -> "merge"
    [] s = "merge" -> "dedup" [] s = "dedup" -> "compress" [] s = "compress" -> "utility"
    [] s = "utility" -> "requeue" [] s = "requeue" -> "anchors" [] s = "anchors" -> "contradict"
    [] s = "contradict" -> "calibrate" [] s = "calibrate" -> "purge" [] s = "purge" -> "rest"

RetentionTypeOK ==
  /\ kept \in KeptRow /\ stage \in CycleStage /\ tally \subseteq 0..1
  /\ jobs \in 0..MaxJobs
  /\ unpinned \in BOOLEAN /\ raced \in BOOLEAN

Alive == kept.is = "live"
Collectible == Alive /\ kept.tier # "permanent" /\ ~kept.anchor
Accessed(row) == [row EXCEPT !.idle = 0]
----------------------------------------------------------------------------
\* _inferTTL
Inferred(kind, b) ==
  IF kind = "preference" \/ b = High THEN {"permanent"}
  ELSE IF kind = "solved" THEN {"hot"}
  ELSE IF kind = "other" THEN {"hot", "warm", "cold"} ELSE IF b = Good THEN {"warm"} ELSE {"warm", "cold"}

RetentionInit ==
  /\ kept = [is |-> "unborn", kind |-> CHOOSE k \in KeptKind : TRUE, tier |-> "warm", anchor |-> FALSE,
             importance |-> Fair, quality |-> "unknown", settled |-> FALSE, idle |-> Never,
             count |-> 0, recalled |-> Never, useless |-> FALSE]
  /\ stage = "rest" /\ unpinned = FALSE
  /\ tally = {} /\ raced = FALSE
  /\ jobs = 0

\* remember: a fragment of low importance is made short-lived after its INSERT,
\* and one that may be judged is queued for it; a part of a split one is warm
RememberKept ==
  /\ kept.is = "unborn"
  /\ \E kind \in KeptKind, b \in Band, anchor \in BOOLEAN :
       \E tier \in Inferred(kind, b) \cup {"warm"} \cup (IF b = Low THEN {"short"} ELSE {}) :
         /\ kept' = [kept EXCEPT !.is = "live", !.kind = kind, !.tier = tier, !.anchor = anchor,
                                 !.importance = b]
         /\ unpinned' = (kind = "preference" /\ tier # "permanent")
  /\ jobs' \in {0, 1} \cap 0..MaxJobs
  /\ UNCHANGED <<stage, tally, raced>>

Older(t, most) == IF t < most THEN t + 1 ELSE t

\* a cycle is short against the times that matter
TimeGoes ==
  /\ Alive /\ stage = "rest"
  /\ kept' = [kept EXCEPT !.settled = TRUE, !.idle = Older(@, Forgotten), !.recalled = Older(@, Inactive)]
  /\ UNCHANGED <<stage, tally, jobs, unpinned, raced>>

----------------------------------------------------------------------------
\* incrementAccess, which may be lost
CountAccess ==
  /\ Alive /\ kept' = [Accessed(kept) EXCEPT !.count = 1, !.recalled = 0]
  /\ raced' = (tally # {})
  /\ UNCHANGED <<stage, tally, jobs, unpinned>>

\* a new fragment the linker takes for the same is counted on the old one
CountDuplicate ==
  /\ Alive /\ kept' = [kept EXCEPT !.count = 1]
  /\ UNCHANGED <<stage, tally, jobs, unpinned, raced>>

\* a client stores what supersedes it: it is retired, and worth half
SupersedeKept ==
  /\ Alive /\ \E b \in Low..kept.importance : kept' = [kept EXCEPT !.importance = b]
  /\ UNCHANGED <<stage, tally, jobs, unpinned, raced>>

\* touchLinked; the ON CONFLICT branch of insert
Touch ==
  /\ Alive
  /\ \/ \E b \in kept.importance..High : kept' = [Accessed(kept) EXCEPT !.importance = b]
     \/ kept' = [Accessed(kept) EXCEPT !.anchor = TRUE]
  /\ UNCHANGED <<stage, tally, jobs, unpinned, raced>>

\* remember of the same content with a low importance: merged, and yet made short-lived
Demote ==
  /\ Alive /\ kept.tier # "short"
  /\ kept' = [kept EXCEPT !.tier = "short"]
  /\ unpinned' = TRUE
  /\ UNCHANGED <<stage, tally, jobs, raced>>

\* amend of one of the fields; several at once come to the same as one by one
AmendKept ==
  /\ Alive
  /\ \/ \E kind \in KeptKind :
          kept' = [Accessed(kept) EXCEPT !.kind = kind] /\ unpinned' = (unpinned \/ kind # kept.kind)
     \/ \E b \in Band : kept' = [Accessed(kept) EXCEPT !.importance = b] /\ UNCHANGED unpinned
     \/ \E anchor \in BOOLEAN : kept' = [Accessed(kept) EXCEPT !.anchor = anchor] /\ UNCHANGED unpinned
  /\ UNCHANGED <<stage, tally, jobs, raced>>

\* _loop: the oldest jobs beyond the cap are dropped, with a mark
DropJob ==
  /\ jobs > 0
  /\ jobs' = jobs - 1
  /\ kept' = IF Alive THEN [Accessed(kept) EXCEPT !.quality = "rejected"] ELSE kept
  /\ UNCHANGED <<stage, tally, unpinned, raced>>

\* keep, downgrade or discard: the verdict on what the fragment was when the job
\* was read, over whatever it has become; or no verdict
GiveVerdict ==
  /\ jobs > 0
  /\ jobs' = jobs - 1
  /\ \/ UNCHANGED kept
     \/ Alive /\ \E b \in Band : kept' = [Accessed(kept) EXCEPT !.importance = b, !.quality = "kept"]
     \/ Alive /\ \E b \in {Low, Fair} : kept' = [Accessed(kept) EXCEPT !.importance = b, !.quality = "rejected"]
  /\ UNCHANGED <<stage, tally, unpinned, raced>>

----------------------------------------------------------------------------
\* one statement of the cycle, which finds the row if it matches
Statement(at, matches, row) ==
  /\ stage = at /\ stage' = NextStage(at)
  /\ kept' = IF Alive /\ matches THEN row ELSE kept

\* transitionTTL ends with the statement that fails, the cycle does not
StatementFails ==
  /\ stage # "rest"
  /\ stage' = IF stage \in {"preference", "hub", "merit", "cool", "parole"} THEN "decay" ELSE NextStage(stage)
  /\ unpinned' = (unpinned \/ stage = "preference")
  /\ tally' = {}
  /\ UNCHANGED <<kept, jobs, raced>>

StartCycle ==
  /\ stage = "rest" /\ kept.is \in {"unborn", "live"} /\ stage' = "preference"
  /\ UNCHANGED <<kept, tally, jobs, unpinned, raced>>

PinPreference ==
  /\ Statement("preference", kept.kind = "preference", [kept EXCEPT !.tier = "permanent"])
  /\ unpinned' = FALSE
  /\ UNCHANGED <<tally, jobs, raced>>

\* five links or more
PromoteHub ==
  /\ \E hub \in BOOLEAN : Statement("hub", hub, [kept EXCEPT !.tier = "permanent"])
  /\ UNCHANGED <<tally, jobs, unpinned, raced>>

\* a row not judged yet needs an anchor, or 0.9
PromoteMerit ==
  /\ \E nine \in BOOLEAN :
       Statement("merit", /\ kept.importance = High
                          /\ \/ kept.quality = "kept"
                             \/ kept.quality = "unknown" /\ (kept.anchor \/ nine),
                 [kept EXCEPT !.tier = "permanent"])
  /\ UNCHANGED <<tally, jobs, unpinned, raced>>

Cool ==
  /\ \E month \in BOOLEAN :
       Statement("cool", /\ kept.tier = "warm"
                         /\ \/ kept.importance = Low
                            \/ kept.idle > 0 /\ kept.settled /\ month,
                 [kept EXCEPT !.tier = "cold"])
  /\ UNCHANGED <<tally, jobs, unpinned, raced>>

\* mutant of Unaccessed: two months are taken for six
UnaccessedInactive == kept.idle >= Inactive

Unaccessed == kept.idle >= Forgotten

Parole ==
  /\ Statement("parole", kept.tier = "permanent" /\ ~kept.anchor /\ kept.importance <= Fair /\ Unaccessed,
               [kept EXCEPT !.tier = "cold"])
  /\ UNCHANGED <<tally, jobs, unpinned, raced>>

Decay ==
  /\ \E b \in Low..kept.importance : Statement("decay", Collectible, [kept EXCEPT !.importance = b])
  /\ UNCHANGED <<tally, jobs, unpinned, raced>>

\* the alternatives of the WHERE; which of the rows in it the LIMIT takes is free
Outlived ==
  /\ Collectible /\ kept.settled
  /\ \/ kept.useless /\ kept.idle >= Inactive
     \/ kept.kind \in {"fact", "reflection"} /\ kept.importance = Low /\ kept.count = 0
     \/ kept.importance = Low /\ kept.idle >= Inactive
     \/ kept.kind = "solved" /\ kept.importance = Low

DeleteExpired ==
  /\ \E taken \in BOOLEAN : Statement("delete", Outlived /\ taken, [kept EXCEPT !.is = "deleted"])
  /\ UNCHANGED <<tally, jobs, unpinned, raced>>

\* split in parts, or found contradicted or superseded: retired, and worth less
Devalue ==
  /\ \E at \in {"split", "contradict"}, b \in Low..kept.importance :
       Statement(at, TRUE, [kept EXCEPT !.importance = b])
  /\ UNCHANGED <<tally, jobs, unpinned, raced>>

\* another row of the same content is of more importance, or older: whatever this
\* one's tier, anchor and use, it goes
MergeKept ==
  /\ \E taken \in BOOLEAN : Statement("merge", taken, [kept EXCEPT !.is = "merged"])
  /\ UNCHANGED <<tally, jobs, unpinned, raced>>

\* _semanticDedup, compressOldFragments: rows that are alike are read, again and
\* again, ...
ReadCount ==
  /\ Alive /\ ~kept.anchor
  /\ \/ stage = "dedup"
     \/ stage = "compress" /\ kept.importance <= Fair /\ kept.idle \in 1..Forgotten
  /\ tally' = tally \cup {kept.count}
  /\ UNCHANGED <<kept, stage, jobs, unpinned, raced>>

\* ... and the sum of the counts read is written to the one that stays
WriteCount ==
  /\ stage \in {"dedup", "compress"} /\ tally # {}
  /\ Alive /\ \E sum \in tally \cup {1} : kept' = [kept EXCEPT !.count = sum]
  /\ UNCHANGED <<stage, tally, jobs, unpinned, raced>>

StopCounting ==
  /\ stage \in {"dedup", "compress"} /\ stage' = NextStage(stage) /\ tally' = {}
  /\ UNCHANGED <<kept, jobs, unpinned, raced>>

\* the importance times the logarithm of the accesses by the age
ScoreUtility ==
  /\ \E useless \in BOOLEAN :
       /\ useless => kept.settled \/ kept.importance = Low
       /\ Statement("utility", TRUE, [kept EXCEPT !.useless = useless])
  /\ UNCHANGED <<tally, jobs, unpinned, raced>>

Requeue ==
  /\ Statement("requeue", FALSE, kept)
  /\ jobs' = IF /\ Alive /\ kept.tier # "permanent" /\ kept.importance <= Fair
                /\ kept.quality = "unknown" /\ jobs < MaxJobs
               THEN jobs + 1 ELSE jobs
  /\ UNCHANGED <<tally, unpinned, raced>>

PromoteAnchor ==
  /\ \E ten \in BOOLEAN :
       Statement("anchors", kept.importance = High /\ kept.count > 0 /\ ten, [kept EXCEPT !.anchor = TRUE])
  /\ UNCHANGED <<tally, jobs, unpinned, raced>>

\* the feedback of several sessions may take it anywhere
Calibrate ==
  /\ \E b \in Band : Statement("calibrate", ~kept.anchor, [kept EXCEPT !.importance = b])
  /\ UNCHANGED <<tally, jobs, unpinned, raced>>

PurgeReflection ==
  /\ \E taken \in BOOLEAN :
       Statement("purge", kept.kind = "reflection" /\ Collectible /\ kept.settled /\ kept.importance = Low /\ taken,
                 [kept EXCEPT !.is = "deleted"])
  /\ UNCHANGED <<tally, jobs, unpinned, raced>>

RetentionNext ==
  \/ RememberKept \/ TimeGoes \/ CountAccess \/ CountDuplicate \/ SupersedeKept \/ Touch \/ Demote
  \/ AmendKept
  \/ DropJob \/ GiveVerdict \/ StartCycle \/ StatementFails \/ PinPreference \/ PromoteHub \/ PromoteMerit \/ Cool \/ Parole
  \/ Decay \/ DeleteExpired \/ Devalue \/ MergeKept \/ ReadCount \/ WriteCount \/ StopCounting
  \/ ScoreUtility \/ Requeue \/ PromoteAnchor \/ Calibrate \/ PurgeReflection

RetentionSpec == RetentionInit /\ [][RetentionNext]_rtVars

----------------------------------------------------------------------------
(***************************************************************************)
(* Collection (deleteExpired, purgeStaleReflections) takes no fragment     *)
(* that a recall has counted in the last 60 days, a solved error or a      *)
(* session_reflect apart, unless that recall was counted between a stage's *)
(* reading the count and its writing the sum of what it read over it       *)
(* (MemoryConsolidator.js:720, 758; ConsolidatorGC.js:548, 580), which     *)
(* makes the fragment one never used. And it takes no preference that has  *)
(* been accessed in the last 180, although it is collected after 60: every *)
(* cycle pins it again before it collects (FragmentGC.js:133), unless that *)
(* statement failed or the tier or type was changed after it. Of the merge *)
(* it says nothing: it deletes rows whatever their use.                    *)
(***************************************************************************)
CollectedIdle ==
  kept.is = "deleted" /\ kept.kind \notin {"solved", "reflection"} =>
    /\ kept.recalled >= Inactive \/ (raced /\ kept.count = 0)
    /\ kept.kind = "preference" => kept.idle >= Forgotten \/ unpinned
=============================================================================
