---------------------------- MODULE WorkingMemory ----------------------------
(***************************************************************************)
(* The working memory of a session: a Redis list to which                  *)
(* remember(scope=session) appends an entry, after which the same call     *)
(* reads the list and, if it exceeds the token budget, rewrites it without *)
(* its oldest unprotected entries (FragmentIndex.js addToWorkingMemory,    *)
(* _enforceWmBudget). The pipeline of the rewrite is sent as a whole by    *)
(* the one connection of the process, so it is one step.                   *)
(***************************************************************************)
EXTENDS Integers, Sequences

CONSTANTS
  Item,    \* entries, each added by one call
  Tokens,  \* estimated_tokens
  Heavy,   \* entries of importance above 0.8
  Budget   \* WM_MAX_TOKENS

ASSUME BudgetAssumption == Budget \in Nat /\ Tokens \in [Item -> Nat] /\ Heavy \subseteq Item

VARIABLES
  wm,      \* the list
  add,     \* the call of each entry
  slack,   \* history: a call failed before it had enforced the budget, and no
           \* other has looked since
  late     \* history: entries pushed while another call was about to rewrite
           \* the list, and those in it when it was cleared

wmVars == <<wm, add, slack, late>>

Listed == {wm[i] : i \in 1..Len(wm)}
WmTypeOK ==
  /\ wm \in Seq(Item)
  /\ add \in [Item -> [at : {"none", "pushed", "trim", "done"}, saw : Seq(Item)]]
  /\ slack \in BOOLEAN /\ late \subseteq Item

Total(s) ==
  LET sum[n \in 0..Len(s)] == IF n = 0 THEN 0 ELSE sum[n - 1] + Tokens[s[n]]
  IN  sum[Len(s)]

\* mutant of MayEvict: the importance is not looked at
MayEvictAny(i, tokens) == tokens > Budget

MayEvict(i, tokens) == i \notin Heavy /\ tokens > Budget

\* one round of the loop: first in, first out, until the rest fits; the
\* protected ones stay
Look(t, i) == IF MayEvict(i, t.tokens) THEN [t EXCEPT !.tokens = @ - Tokens[i]]
              ELSE [t EXCEPT !.kept = Append(@, i)]

Remaining(s) ==
  LET trim[n \in 0..Len(s)] == IF n = 0 THEN [kept |-> <<>>, tokens |-> Total(s)]
                               ELSE Look(trim[n - 1], s[n])
  IN  trim[Len(s)].kept
----------------------------------------------------------------------------
WmInit ==
  /\ wm = <<>> /\ slack = FALSE /\ late = {}
  /\ add = [i \in Item |-> [at |-> "none", saw |-> <<>>]]

Push(i) ==
  /\ add[i].at = "none"
  /\ wm' = Append(wm, i)
  /\ add' = [add EXCEPT ![i].at = "pushed"]
  /\ late' = IF \E j \in Item : add[j].at = "trim" THEN late \cup {i} ELSE late
  /\ UNCHANGED slack

NeedsTrim(s) == Total(s) > Budget /\ Remaining(s) # s

ReadList(i) ==
  /\ add[i].at = "pushed"
  /\ add' = [add EXCEPT ![i] = IF NeedsTrim(wm)
                               THEN [at |-> "trim", saw |-> wm] ELSE [@ EXCEPT !.at = "done"]]
  /\ slack' = FALSE
  /\ UNCHANGED <<wm, late>>

RewriteList(i) ==
  /\ add[i].at = "trim"
  /\ wm' = Remaining(add[i].saw)
  /\ add' = [add EXCEPT ![i] = [at |-> "done", saw |-> <<>>]]
  /\ UNCHANGED <<slack, late>>

\* Redis fails, which is swallowed, or the process stops
AddFails(i) ==
  /\ add[i].at \in {"pushed", "trim"}
  /\ add' = [add EXCEPT ![i] = [at |-> "done", saw |-> <<>>]]
  /\ slack' = TRUE
  /\ UNCHANGED <<wm, late>>

\* the end of the session's reflection, or WM_TTL
ClearList ==
  /\ wm # <<>>
  /\ wm' = <<>>
  /\ late' = late \cup Listed
  /\ UNCHANGED <<add, slack>>

WmNext ==
  \/ \E i \in Item : Push(i) \/ ReadList(i) \/ RewriteList(i) \/ AddFails(i)
  \/ ClearList

WmSpec == WmInit /\ [][WmNext]_wmVars

----------------------------------------------------------------------------
(***************************************************************************)
(* With no call under way, the list is within its budget or has protected  *)
(* entries only, whatever calls have overwritten each other's lists        *)
(* (_enforceWmBudget, FragmentIndex.js:290), and what was evicted for it   *)
(* was not protected (FragmentIndex.js:299, "importance > 0.8"): an entry  *)
(* of that importance is missing only if it was appended between the read  *)
(* and the rewrite of another call, or the list was cleared.               *)
(***************************************************************************)
BudgetEnforced ==
  /\ (\A i \in Item : add[i].at \in {"none", "done"}) /\ ~slack =>
       Total(wm) <= Budget \/ Listed \subseteq Heavy
  /\ \A i \in Heavy : add[i].at # "none" => i \in Listed \cup late
=============================================================================
