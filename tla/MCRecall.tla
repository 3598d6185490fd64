------------------------------- MODULE MCRecall -------------------------------
(***************************************************************************)
(* Recall alone, for what the documentation says of its last filter: one   *)
(* fragment of the master key and one keyword query after the other.       *)
(***************************************************************************)
EXTENDS Recall, TLC

CONSTANTS m1, cm, wd

MCOwner == m1 :> Master
MCKeywords == m1 :> {wd}
MCTerms == m1 :> {}
MCTopic == m1 :> "t1"
MCImportance == m1 :> 1
MCScope == cm :> {}
MCQuery == {[words |-> {wd}, topic |-> NoTopic, text |-> FALSE, all |-> FALSE, budget |-> 1, min |-> 1]}
=============================================================================
