---------------------------- MODULE MCCaseHistory ----------------------------
(***************************************************************************)
(* A history is reconstructed while remember appends events to the case.   *)
(***************************************************************************)
EXTENDS CaseHistory

CONSTANTS v1, e1, f1

MCEventKind == v1 :> "verdict" @@ e1 :> "error" @@ f1 :> "fix"
MCAuthor == [e \in Event |-> Anyone]

MCInit == CaseEventsInit /\ CaseHistoryInit

Record == CaseEventsNext /\ UNCHANGED chVars
Reconstruct == CaseHistoryNext /\ UNCHANGED ceVars

MCSpec == MCInit /\ [][Record \/ Reconstruct]_<<ceVars, chVars>>
=============================================================================
