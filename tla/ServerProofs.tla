----------------------------- MODULE ServerProofs ----------------------------
(***************************************************************************)
(* Theorems about MCServer: running the components side by side, one of    *)
(* them at a time, is running each of them. What is proved of a component  *)
(* so holds in the company of the others.                                  *)
(***************************************************************************)
EXTENDS MCServer, UpkeepProofs, MemoryProofs, ServiceProofs, ToolProofs, TLAPS

\* a step of the server is a step of a component, and leaves the others alone
LEMMA ServerStep ==
  ASSUME [ServerNext]_ServerVars
  PROVE  /\ [RecallNext]_rcVars
         /\ [SessionsNext]_ssVars
         /\ [ConsolidationNext]_cnVars
         /\ [SupersessionNext]_spVars
         /\ [LinkWritesNext]_lwVars
         /\ [WmNext]_wmVars
         /\ [MigrationsNext]_mgVars
         /\ [CaseEventsNext]_ceVars
         /\ [CaseHistoryNext]_chVars
         /\ [MilestonesNext]_msVars
         /\ [ReflectionNext]_rfVars
         /\ [DailyUsageNext]_duVars
         /\ [SharedBreakerNext]_sbVars
         /\ [ClaimsNext]_clVars
         /\ [RetentionNext]_rtVars
         /\ [ContextNext]_caVars
         /\ [ReflectToolNext]_rtoolVars
         /\ [OAuthGrantsNext]_oaVars
<1>1. CASE UNCHANGED ServerVars
  BY <1>1 DEF ServerVars
<1>2. CASE RunRecall
  BY <1>2 DEF RunRecall
<1>3. CASE RunSessions
  BY <1>3 DEF RunSessions
<1>4. CASE RunConsolidation
  BY <1>4 DEF RunConsolidation
<1>5. CASE RunSupersession
  BY <1>5 DEF RunSupersession
<1>6. CASE RunLinkWrites
  BY <1>6 DEF RunLinkWrites
<1>7. CASE RunWm
  BY <1>7 DEF RunWm
<1>8. CASE RunMigrations
  BY <1>8 DEF RunMigrations
<1>9. CASE RunCaseEvents
  BY <1>9 DEF RunCaseEvents
<1>10. CASE RunMilestones
  BY <1>10 DEF RunMilestones
<1>11. CASE RunReflection
  BY <1>11 DEF RunReflection
<1>12. CASE RunDailyUsage
  BY <1>12 DEF RunDailyUsage
<1>13. CASE RunCaseHistory
  BY <1>13 DEF RunCaseHistory
<1>14. CASE RunSharedBreaker
  BY <1>14 DEF RunSharedBreaker
<1>15. CASE RunClaims
  BY <1>15 DEF RunClaims
<1>16. CASE RunRetention
  BY <1>16 DEF RunRetention
<1>17. CASE RunContext
  BY <1>17 DEF RunContext
<1>18. CASE RunReflectTool
  BY <1>18 DEF RunReflectTool
<1>19. CASE RunOAuthGrants
  BY <1>19 DEF RunOAuthGrants
<1> QED BY <1>1, <1>2, <1>3, <1>4, <1>5, <1>6, <1>7, <1>8, <1>9, <1>10, <1>11, <1>12, <1>13,
           <1>14, <1>15, <1>16, <1>17, <1>18, <1>19 DEF ServerNext

(***************************************************************************)
(* Every behaviour of the server is one of each of its components, so that *)
(* what holds of a component holds of the server.                          *)
(***************************************************************************)
THEOREM ServerRunsEach ==
  ServerSpec => /\ RecallSpec
                /\ SessionsSpec
                /\ ConsolidationSpec
                /\ SupersessionSpec
                /\ LinkWritesSpec
                /\ WmSpec
                /\ MigrationsSpec
                /\ CaseEventsSpec
                /\ CaseHistorySpec
                /\ MilestonesSpec
                /\ ReflectionSpec
                /\ DailyUsageSpec
                /\ SharedBreakerSpec
                /\ ClaimsSpec
                /\ RetentionSpec
                /\ ContextSpec
                /\ ReflectToolSpec
                /\ OAuthGrantsSpec
<1>1. ServerInit => /\ RecallInit
                    /\ SessionsInit
                    /\ ConsolidationInit
                    /\ SupersessionInit
                    /\ LinkWritesInit
                    /\ WmInit
                    /\ MigrationsInit
                    /\ CaseEventsInit
                    /\ CaseHistoryInit
                    /\ MilestonesInit
                    /\ ReflectionInit
                    /\ DailyUsageInit
                    /\ SharedBreakerInit
                    /\ ClaimsInit
                    /\ RetentionInit
                    /\ ContextInit
                    /\ ReflectToolInit
                    /\ OAuthGrantsInit
  BY DEF ServerInit
<1>2. ServerSpec => RecallSpec
  BY <1>1, ServerStep, PTL DEF ServerSpec, ServerVars, RecallSpec
<1>3. ServerSpec => SessionsSpec
  BY <1>1, ServerStep, PTL DEF ServerSpec, ServerVars, SessionsSpec
<1>4. ServerSpec => ConsolidationSpec
  BY <1>1, ServerStep, PTL DEF ServerSpec, ServerVars, ConsolidationSpec
<1>5. ServerSpec => SupersessionSpec
  BY <1>1, ServerStep, PTL DEF ServerSpec, ServerVars, SupersessionSpec
<1>6. ServerSpec => LinkWritesSpec
  BY <1>1, ServerStep, PTL DEF ServerSpec, ServerVars, LinkWritesSpec
<1>7. ServerSpec => WmSpec
  BY <1>1, ServerStep, PTL DEF ServerSpec, ServerVars, WmSpec
<1>8. ServerSpec => MigrationsSpec
  BY <1>1, ServerStep, PTL DEF ServerSpec, ServerVars, MigrationsSpec
<1>9. ServerSpec => CaseEventsSpec
  BY <1>1, ServerStep, PTL DEF ServerSpec, ServerVars, CaseEventsSpec
<1>10. ServerSpec => CaseHistorySpec
  BY <1>1, ServerStep, PTL DEF ServerSpec, ServerVars, CaseHistorySpec
<1>11. ServerSpec => MilestonesSpec
  BY <1>1, ServerStep, PTL DEF ServerSpec, ServerVars, MilestonesSpec
<1>12. ServerSpec => ReflectionSpec
  BY <1>1, ServerStep, PTL DEF ServerSpec, ServerVars, ReflectionSpec
<1>13. ServerSpec => DailyUsageSpec
  BY <1>1, ServerStep, PTL DEF ServerSpec, ServerVars, DailyUsageSpec
<1>14. ServerSpec => SharedBreakerSpec
  BY <1>1, ServerStep, PTL DEF ServerSpec, ServerVars, SharedBreakerSpec
<1>15. ServerSpec => ClaimsSpec
  BY <1>1, ServerStep, PTL DEF ServerSpec, ServerVars, ClaimsSpec
<1>16. ServerSpec => RetentionSpec
  BY <1>1, ServerStep, PTL DEF ServerSpec, ServerVars, RetentionSpec
<1>17. ServerSpec => ContextSpec
  BY <1>1, ServerStep, PTL DEF ServerSpec, ServerVars, ContextSpec
<1>18. ServerSpec => ReflectToolSpec
  BY <1>1, ServerStep, PTL DEF ServerSpec, ServerVars, ReflectToolSpec
<1>19. ServerSpec => OAuthGrantsSpec
  BY <1>1, ServerStep, PTL DEF ServerSpec, ServerVars, OAuthGrantsSpec
<1> QED BY <1>2, <1>3, <1>4, <1>5, <1>6, <1>7, <1>8, <1>9, <1>10, <1>11, <1>12, <1>13, <1>14,
           <1>15, <1>16, <1>17, <1>18, <1>19

(***************************************************************************)
(* Every variable of every component has its type, for any constants that  *)
(* satisfy the components' assumptions.                                    *)
(***************************************************************************)
THEOREM ServerTypeCorrect == ServerSpec => []ServerTypeOK
<1>1. /\ RecallTypeOK
      /\ SessionsTypeOK
      /\ ConsolidationTypeOK
      /\ SupersessionTypeOK
      /\ LinkWritesTypeOK
      /\ WmTypeOK
      /\ MigrationsTypeOK
      /\ CaseEventsTypeOK
      /\ CaseHistoryTypeOK
      /\ MilestonesTypeOK
      /\ ReflectionTypeOK
      /\ DailyUsageTypeOK
      /\ SharedBreakerTypeOK
      /\ ClaimsTypeOK
      /\ RetentionTypeOK
      /\ ContextTypeOK
      /\ ReflectToolTypeOK
      /\ OAuthGrantsTypeOK
      => ServerTypeOK
  BY DEF ServerTypeOK
<1> QED BY <1>1, ServerRunsEach, RecallTypeCorrect, SessionsTypeCorrect,
           ConsolidationTypeCorrect, SupersessionTypeCorrect, LinkTypeCorrect, WmTypeCorrect,
           MigrationsTypeCorrect, CaseEventsTypeCorrect, HistoryTypeCorrect,
           MilestonesTypeCorrect, ReflectionTypeCorrect, UsageTypeCorrect, BreakerTypeCorrect,
           ClaimsTypeCorrect, RetentionTypeCorrect, ContextTypeCorrect, ReflectToolTypeCorrect,
           GrantsTypeCorrect, PTL
==============================================================================
