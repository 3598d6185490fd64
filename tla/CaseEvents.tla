----------------------------- MODULE CaseEvents -----------------------------
(***************************************************************************)
(* The events of one case: what remember records of a fragment with a      *)
(* case_id, and amend of one whose assertion it verifies or rejects, in    *)
(* the background and side by side (CaseEventStore.js,                     *)
(* MemoryRememberer._recordCaseEvent). The fragments that are the evidence *)
(* of an event are left out, and so is the reward of a verification, one   *)
(* UPDATE of their importance.                                             *)
(***************************************************************************)
EXTENDS Integers, FiniteSets

CONSTANTS
  Event,     \* calls that record an event, one each
  EventKind, \* "error", "fix" and "decision" by remember, "verdict" by amend
  Author,    \* key_id
  Anyone,    \* the master's, who sees the events of all keys
  MaxClock   \* bound on the readings of the database clock

ASSUME EventAssumption ==
  /\ EventKind \in [Event -> {"error", "fix", "decision", "verdict"}]
  /\ IsFiniteSet(Event) /\ MaxClock \in Nat

VARIABLES
  clock,  \* the database clock, which may stand still between two transactions
  event,  \* the calls and the rows they have stored
  edge,   \* case_event_edges
  over    \* history: <<e, f>>: e was stored when the append of f began

ceVars == <<clock, event, edge, over>>

EventPhase == {"none", "begun", "numbered", "stored", "previous", "done", "failed"}
EventState == [at : EventPhase, born : 0..MaxClock, no : 0..Cardinality(Event)]
EdgeType == {"preceded_by", "resolved_by"}

CaseEventsTypeOK ==
  /\ clock \in 0..MaxClock
  /\ event \in [Event -> EventState]
  /\ edge \subseteq Event \X Event \X EdgeType
  /\ over \subseteq Event \X Event

StoredEvents == {e \in Event : event[e].at \in {"stored", "previous", "done"}}

\* ORDER BY created_at, sequence_no
ListedUpTo(e, f) ==
  \/ event[e].born < event[f].born
  \/ event[e].born = event[f].born /\ event[e].no <= event[f].no

\* the events of the case that the author of e sees
Seen(e) == {f \in StoredEvents : Author[e] \in {Anyone, Author[f]}}

ToPhase(e, at) == event' = [event EXCEPT ![e].at = at]
----------------------------------------------------------------------------
CaseEventsInit ==
  /\ clock = 0 /\ edge = {} /\ over = {}
  /\ event = [e \in Event |-> [at |-> "none", born |-> 0, no |-> 0]]

Tick ==
  /\ clock < MaxClock
  /\ clock' = clock + 1
  /\ UNCHANGED <<event, edge, over>>

(***************************************************************************)
(* append: BEGIN fixes created_at, MAX(sequence_no) + 1 is read without a  *)
(* lock, INSERT and COMMIT.                                                *)
(***************************************************************************)
BeginAppend(e) ==
  /\ event[e].at = "none"
  /\ event' = [event EXCEPT ![e] = [at |-> "begun", born |-> clock, no |-> 0]]
  /\ over' = over \cup {<<f, e>> : f \in StoredEvents}
  /\ UNCHANGED <<clock, edge>>

\* mutant of NextNumber: the highest number is used again
NextNumberAgain ==
  LET F == StoredEvents IN
  IF F = {} THEN 0 ELSE CHOOSE n \in {event[f].no : f \in F} : \A f \in F : event[f].no <= n

NextNumber ==
  LET F == StoredEvents IN
  CHOOSE n \in 0..Cardinality(Event) :
    IF F = {} THEN n = 0 ELSE /\ \A f \in F : event[f].no < n
                              /\ \E f \in F : event[f].no = n - 1

ReadNumber(e) ==
  /\ event[e].at = "begun"
  /\ event' = [event EXCEPT ![e] = [@ EXCEPT !.at = "numbered", !.no = NextNumber]]
  /\ UNCHANGED <<clock, edge, over>>

CommitEvent(e) ==
  /\ event[e].at = "numbered"
  /\ ToPhase(e, IF EventKind[e] = "verdict" THEN "done" ELSE "stored")
  /\ UNCHANGED <<clock, edge, over>>

\* ROLLBACK, which the caller only logs, or the process stops
AppendFails(e) ==
  /\ event[e].at \in {"begun", "numbered"}
  /\ ToPhase(e, "failed")
  /\ UNCHANGED <<clock, edge, over>>

(***************************************************************************)
(* _recordCaseEvent goes on: an edge to the first of the two oldest events *)
(* that is another one, then from a fix to the errors. An edge that cannot *)
(* be written is skipped.                                                  *)
(***************************************************************************)
AddPreceding(e) ==
  /\ event[e].at = "stored"
  /\ \/ \E f \in Seen(e) \ {e} :
          /\ \A g \in Seen(e) \ {e, f} : ListedUpTo(f, g)
          /\ edge' = edge \cup {<<e, f, "preceded_by">>}
     \/ UNCHANGED edge
  /\ ToPhase(e, IF EventKind[e] = "fix" THEN "previous" ELSE "done")
  /\ UNCHANGED <<clock, over>>

ErrorsOf(e) == {f \in Seen(e) : EventKind[f] = "error"}

AddResolved(e) ==
  /\ event[e].at = "previous"
  /\ \E F \in SUBSET ErrorsOf(e) : edge' = edge \cup ({e} \X F \X {"resolved_by"})
  /\ ToPhase(e, "done")
  /\ UNCHANGED <<clock, over>>

\* a list cannot be read, or the process stops
RecordingFails(e) ==
  /\ event[e].at \in {"stored", "previous"}
  /\ ToPhase(e, "done")
  /\ UNCHANGED <<clock, edge, over>>

CaseEventsNext ==
  \/ Tick
  \/ \E e \in Event : \/ BeginAppend(e) \/ ReadNumber(e) \/ CommitEvent(e) \/ AppendFails(e)
                      \/ AddPreceding(e) \/ AddResolved(e) \/ RecordingFails(e)

CaseEventsSpec == CaseEventsInit /\ [][CaseEventsNext]_ceVars

----------------------------------------------------------------------------
(***************************************************************************)
(* The sequence numbers are read without a lock and two events may get the *)
(* same one, but an event that was stored before the append of another     *)
(* began is listed before it, even if the clock reads the same for both    *)
(* (CaseEventStore.js:51, getByCase).                                      *)
(***************************************************************************)
ListedInOrder ==
  \A e, f \in StoredEvents : <<e, f>> \in over => ~ListedUpTo(f, e)
=============================================================================
