------------------------------ MODULE MCServer ------------------------------
(***************************************************************************)
(* The components that share no state with each other, side by side: in    *)
(* each behaviour one of them, the focus, runs, and the others rest in     *)
(* their initial states. Checking them together checks each for all its    *)
(* behaviours, and none in the company of another.                         *)
(***************************************************************************)
EXTENDS Recall, Sessions, Consolidation, Supersession, LinkWrites, WorkingMemory,
        Migrations, CaseHistory, Milestones, Reflection, DailyUsage, SharedBreaker,
        Claims, Retention, ContextAssembly, ReflectTool, OAuthGrants, TLC

CONSTANTS ka, m1, k1, cm, ca, wd, tm, o1, o2, a1, b1, n1, n2, n3, h1,
          g1, g2, g3, w1, w2, w3, i1, i2, i3, r1, r2, r3, v1, e1, f1, x1, x2, x3, x4,
          s1, s2, s3, t1, t2, t3, use, ban, p1, p2, q1, q2, q3, q4, q5, q6,
          y1, y2, y3, y4, ys, y5, y6, wx, az, kx, ky

VARIABLE focus

\* Recall: one fragment of the master and one of a key, linked to each other; a
\* keyword query, one for the important only, and a text query with a topic
MCOwner == m1 :> Master @@ k1 :> ka
MCKeywords == m1 :> {wd} @@ k1 :> {wd}
MCTerms == m1 :> {} @@ k1 :> {tm}
MCTopic == m1 :> "t1" @@ k1 :> "t2"
MCLink == {<<m1, k1>>}
MCScope == cm :> {} @@ ca :> {ka}
MCImportance == m1 :> 1 @@ k1 :> 2
MCQuery ==
  {[words |-> {wd}, topic |-> NoTopic, text |-> FALSE, all |-> TRUE, budget |-> 2, min |-> 1],
   [words |-> {wd}, topic |-> NoTopic, text |-> FALSE, all |-> FALSE, budget |-> 2, min |-> 2],
   [words |-> {tm}, topic |-> "t2", text |-> TRUE, all |-> FALSE, budget |-> 1, min |-> 1]}

\* Consolidation: a fragment of each of two keys, which may store the same content
MCAccount == a1 :> 1 @@ b1 :> 2

\* Supersession: an old fragment, and two that were stored together, one of them like it
MCBorn == n1 :> 1 @@ n2 :> 2 @@ n3 :> 2
MCCos == [q \in Node \X Node |->
            CASE q[1] = q[2] -> 100
              [] {q[1], q[2]} = {n1, n2} -> 96
              [] OTHER -> 80]
MCHolder == [f \in Node |-> NoHolder]

\* LinkWrites: the order of the hashes is not that of the ids
MCRank == g1 :> 1 @@ g2 :> 2 @@ g3 :> 3
MCHash == g2 :> 1 @@ g3 :> 2 @@ g1 :> 3
MCSingle == {<<g1, g3>>}
MCBatch == {{<<g2, g1>>, <<g3, g2>>}}

\* WorkingMemory: three entries do not fit
MCTokens == i1 :> 3 @@ i2 :> 2 @@ i3 :> 2

\* Migrations: an old release beside two of the next
MCRelease == r1 :> 2 @@ r2 :> 3 @@ r3 :> 3

\* CaseEvents: a key's verdict and error, and the master's fix
MCEventKind == v1 :> "verdict" @@ e1 :> "error" @@ f1 :> "fix"
MCAuthor == v1 :> ka @@ e1 :> ka @@ f1 :> Anyone

\* Milestones: the last two calls tell the same
MCEpisode == x1 :> 1 @@ x2 :> 2 @@ x3 :> 3 @@ x4 :> 3

\* Claims: a rule, its opposite, and a remark
MCTenant == <<"master", "master">>
MCAbout == [t \in Text |-> "x"]
MCMarker == t1 :> use @@ t2 :> ban @@ t3 :> NoMarker

\* ContextAssembly: more than the core has room for, in fragments of four sizes
MCNoteType == [n \in Note |-> CASE n \in {q1, q2, q3} -> "preference" [] n \in {q4, q5} -> "error" [] n = q6 -> "fact"]
MCNoteSize == q1 :> 2 @@ q2 :> 3 @@ q3 :> 1 @@ q4 :> 4 @@ q5 :> 1 @@ q6 :> 1
MCTypeSlots == [t \in NoteTypes |-> 2]

\* ReflectTool: two facts that make one sentence, a decision that is also a procedure
MCCategory == y1 :> "summary" @@ y2 :> "summary" @@ y3 :> "procedures" @@ y4 :> "decisions" @@ ys :> "summary"
MCWords == y1 :> y1 @@ y2 :> y2 @@ y3 :> wx @@ y4 :> wx @@ ys :> ys
MCLength == [y \in Scrap |-> IF y = ys THEN 1 ELSE 2]
MCGiven == y5 :> {} @@ y6 :> {"summary", "narrative"}

\* OAuthGrants: a client id that spells out a key
MCOwnKey == az :> kx
MCBearerKey == az :> NoApiKey

Component == {"recall", "sessions", "consolidation", "supersession", "links", "memory",
              "migrations", "events", "milestones", "reflection", "usage",
              "history", "breaker", "claims", "retention", "context", "reflecttool", "grants"}

ServerInit ==
  /\ RecallInit /\ SessionsInit /\ ConsolidationInit /\ SupersessionInit /\ LinkWritesInit
  /\ WmInit /\ MigrationsInit /\ CaseEventsInit /\ MilestonesInit /\ ReflectionInit
  /\ DailyUsageInit /\ CaseHistoryInit /\ SharedBreakerInit /\ ClaimsInit /\ RetentionInit
  /\ ContextInit /\ ReflectToolInit /\ OAuthGrantsInit
  /\ focus \in Component

RunRecall ==
  /\ focus = "recall"
  /\ UNCHANGED <<focus, ssVars, cnVars, spVars, lwVars, wmVars, mgVars, ceVars, chVars,
                 msVars, rfVars, duVars, sbVars, clVars, rtVars, caVars,
                 rtoolVars, oaVars>>
  /\ RecallNext

RunSessions ==
  /\ focus = "sessions"
  /\ UNCHANGED <<focus, rcVars, cnVars, spVars, lwVars, wmVars, mgVars, ceVars, chVars,
                 msVars, rfVars, duVars, sbVars, clVars, rtVars, caVars,
                 rtoolVars, oaVars>>
  /\ SessionsNext

RunConsolidation ==
  /\ focus = "consolidation"
  /\ UNCHANGED <<focus, rcVars, ssVars, spVars, lwVars, wmVars, mgVars, ceVars, chVars,
                 msVars, rfVars, duVars, sbVars, clVars, rtVars, caVars,
                 rtoolVars, oaVars>>
  /\ ConsolidationNext

RunSupersession ==
  /\ focus = "supersession"
  /\ UNCHANGED <<focus, rcVars, ssVars, cnVars, lwVars, wmVars, mgVars, ceVars, chVars,
                 msVars, rfVars, duVars, sbVars, clVars, rtVars, caVars,
                 rtoolVars, oaVars>>
  /\ SupersessionNext

RunLinkWrites ==
  /\ focus = "links"
  /\ UNCHANGED <<focus, rcVars, ssVars, cnVars, spVars, wmVars, mgVars, ceVars, chVars,
                 msVars, rfVars, duVars, sbVars, clVars, rtVars, caVars,
                 rtoolVars, oaVars>>
  /\ LinkWritesNext

RunWm ==
  /\ focus = "memory"
  /\ UNCHANGED <<focus, rcVars, ssVars, cnVars, spVars, lwVars, mgVars, ceVars, chVars,
                 msVars, rfVars, duVars, sbVars, clVars, rtVars, caVars,
                 rtoolVars, oaVars>>
  /\ WmNext

RunMigrations ==
  /\ focus = "migrations"
  /\ UNCHANGED <<focus, rcVars, ssVars, cnVars, spVars, lwVars, wmVars, ceVars, chVars,
                 msVars, rfVars, duVars, sbVars, clVars, rtVars, caVars,
                 rtoolVars, oaVars>>
  /\ MigrationsNext

RunCaseEvents ==
  /\ focus = "events"
  /\ UNCHANGED <<focus, rcVars, ssVars, cnVars, spVars, lwVars, wmVars, mgVars, chVars,
                 msVars, rfVars, duVars, sbVars, clVars, rtVars, caVars,
                 rtoolVars, oaVars>>
  /\ CaseEventsNext

RunMilestones ==
  /\ focus = "milestones"
  /\ UNCHANGED <<focus, rcVars, ssVars, cnVars, spVars, lwVars, wmVars, mgVars, ceVars,
                 chVars, rfVars, duVars, sbVars, clVars, rtVars, caVars,
                 rtoolVars, oaVars>>
  /\ MilestonesNext

RunReflection ==
  /\ focus = "reflection"
  /\ UNCHANGED <<focus, rcVars, ssVars, cnVars, spVars, lwVars, wmVars, mgVars, ceVars,
                 chVars, msVars, duVars, sbVars, clVars, rtVars, caVars,
                 rtoolVars, oaVars>>
  /\ ReflectionNext

RunDailyUsage ==
  /\ focus = "usage"
  /\ UNCHANGED <<focus, rcVars, ssVars, cnVars, spVars, lwVars, wmVars, mgVars, ceVars,
                 chVars, msVars, rfVars, sbVars, clVars, rtVars, caVars,
                 rtoolVars, oaVars>>
  /\ DailyUsageNext

RunCaseHistory ==
  /\ focus = "history"
  /\ UNCHANGED <<focus, rcVars, ssVars, cnVars, spVars, lwVars, wmVars, mgVars, ceVars,
                 msVars, rfVars, duVars, sbVars, clVars, rtVars, caVars,
                 rtoolVars, oaVars>>
  /\ CaseHistoryNext

RunSharedBreaker ==
  /\ focus = "breaker"
  /\ UNCHANGED <<focus, rcVars, ssVars, cnVars, spVars, lwVars, wmVars, mgVars, ceVars,
                 chVars, msVars, rfVars, duVars, clVars, rtVars, caVars,
                 rtoolVars, oaVars>>
  /\ SharedBreakerNext

RunClaims ==
  /\ focus = "claims"
  /\ UNCHANGED <<focus, rcVars, ssVars, cnVars, spVars, lwVars, wmVars, mgVars, ceVars,
                 chVars, msVars, rfVars, duVars, sbVars, rtVars, caVars,
                 rtoolVars, oaVars>>
  /\ ClaimsNext

RunRetention ==
  /\ focus = "retention"
  /\ UNCHANGED <<focus, rcVars, ssVars, cnVars, spVars, lwVars, wmVars, mgVars, ceVars,
                 chVars, msVars, rfVars, duVars, sbVars, clVars, caVars, rtoolVars, oaVars>>
  /\ RetentionNext

RunContext ==
  /\ focus = "context"
  /\ UNCHANGED <<focus, rcVars, ssVars, cnVars, spVars, lwVars, wmVars, mgVars, ceVars,
                 chVars, msVars, rfVars, duVars, sbVars, clVars, rtVars, rtoolVars, oaVars>>
  /\ ContextNext

RunReflectTool ==
  /\ focus = "reflecttool"
  /\ UNCHANGED <<focus, rcVars, ssVars, cnVars, spVars, lwVars, wmVars, mgVars, ceVars,
                 chVars, msVars, rfVars, duVars, sbVars, clVars, rtVars, caVars, oaVars>>
  /\ ReflectToolNext

RunOAuthGrants ==
  /\ focus = "grants"
  /\ UNCHANGED <<focus, rcVars, ssVars, cnVars, spVars, lwVars, wmVars, mgVars, ceVars,
                 chVars, msVars, rfVars, duVars, sbVars, clVars, rtVars, caVars, rtoolVars>>
  /\ OAuthGrantsNext

ServerNext ==
  \/ RunRecall \/ RunSessions \/ RunConsolidation \/ RunSupersession \/ RunLinkWrites
  \/ RunWm \/ RunMigrations \/ RunCaseEvents \/ RunMilestones \/ RunReflection \/ RunDailyUsage
  \/ RunCaseHistory \/ RunSharedBreaker \/ RunClaims \/ RunRetention \/ RunContext
  \/ RunReflectTool \/ RunOAuthGrants

ServerVars ==
  <<focus, rcVars, ssVars, cnVars, spVars, lwVars, wmVars, mgVars, ceVars, chVars, msVars,
    rfVars, duVars, sbVars, clVars, rtVars, caVars, rtoolVars, oaVars>>

ServerSpec == ServerInit /\ [][ServerNext]_ServerVars

\* every variable of the component that runs has its type
ServerTypeOK ==
  /\ focus = "recall" => RecallTypeOK
  /\ focus = "sessions" => SessionsTypeOK
  /\ focus = "consolidation" => ConsolidationTypeOK
  /\ focus = "supersession" => SupersessionTypeOK
  /\ focus = "links" => LinkWritesTypeOK
  /\ focus = "memory" => WmTypeOK
  /\ focus = "migrations" => MigrationsTypeOK
  /\ focus = "events" => CaseEventsTypeOK
  /\ focus = "milestones" => MilestonesTypeOK
  /\ focus = "reflection" => ReflectionTypeOK
  /\ focus = "usage" => DailyUsageTypeOK
  /\ focus = "history" => CaseHistoryTypeOK
  /\ focus = "breaker" => SharedBreakerTypeOK
  /\ focus = "claims" => ClaimsTypeOK
  /\ focus = "retention" => RetentionTypeOK
  /\ focus = "context" => ContextTypeOK
  /\ focus = "reflecttool" => ReflectToolTypeOK
  /\ focus = "grants" => OAuthGrantsTypeOK

(***************************************************************************)
(* What a state is told apart by: the focus and its variables, for those   *)
(* of the others never change.                                             *)
(***************************************************************************)
FocusView ==
  CASE focus = "recall" -> <<focus, rcVars>>
    [] focus = "sessions" -> <<focus, ssVars>>
    [] focus = "consolidation" -> <<focus, cnVars>>
    [] focus = "supersession" -> <<focus, spVars>>
    [] focus = "links" -> <<focus, lwVars>>
    [] focus = "memory" -> <<focus, wmVars>>
    [] focus = "migrations" -> <<focus, mgVars>>
    [] focus = "events" -> <<focus, ceVars>>
    [] focus = "milestones" -> <<focus, msVars>>
    [] focus = "reflection" -> <<focus, rfVars>>
    [] focus = "usage" -> <<focus, duVars>>
    [] focus = "history" -> <<focus, chVars, ceVars>>
    [] focus = "breaker" -> <<focus, sbVars>>
    [] focus = "claims" -> <<focus, clVars>>
    [] focus = "retention" -> <<focus, rtVars>>
    [] focus = "context" -> <<focus, caVars>>
    [] focus = "reflecttool" -> <<focus, rtoolVars>>
    [] focus = "grants" -> <<focus, oaVars>>

=============================================================================
