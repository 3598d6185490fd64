---------------------------- MODULE Consolidation ----------------------------
(***************************************************************************)
(* The maintenance cycle as far as it deletes rows: the promise chain that *)
(* serialises the cycles of a process, the garbage collection, the merging *)
(* of fragments with the same content and the anchors, while clients       *)
(* store, amend, pin and forget fragments and their importance changes     *)
(* (MemoryConsolidator.js, FragmentGC.js, ConsolidatorGC.js, scheduler.js).*)
(* The chain lives in one process, and so does this module: the cycles of  *)
(* several processes on one database are not serialised by anything.       *)
(*                                                                         *)
(* The stages that only set valid_to or write links are in the module      *)
(* Supersession; none of the stages below looks at valid_to. Utility, age, *)
(* tier and access count are abstracted: a row that passes the tests on    *)
(* is_anchor may pass the others or not.                                   *)
(***************************************************************************)
EXTENDS Integers, FiniteSets

CONSTANTS
  Fragment,  \* fragment ids
  Content,   \* contents (content_hash)
  Account,   \* the key of each fragment; it stores a content at most once
  Request,   \* callers of consolidate(), each waiting for its own result (the
             \* scheduler skips a tick while its last one is active)
  MaxTickets \* bound on the calls of consolidate() in the life of a process

ASSUME TicketAssumption == MaxTickets \in Nat /\ Content # {}

VARIABLES
  stored,    \* the rows
  body,      \* their contents
  pinned,    \* is_anchor
  heavy,     \* fragments whose importance is above that of the others
  dropped,   \* history: contents of which a client forgot or rewrote a copy, or
             \* the garbage collection deleted one
  rewritten, \* history: contents an amend wrote into a row listed for deletion
  tickets,   \* calls of consolidate() so far: the promises of the chain
  released,  \* those whose slot is resolved
  cycle      \* the callers

cnVars == <<stored, body, pinned, heavy, dropped, rewritten, tickets, released, cycle>>
\* what the stages of a cycle that delete nothing leave alone
cnTexts == <<stored, body, dropped, rewritten>>

Stage == {"idle", "waiting", "collect", "read", "merge", "promote", "purge", "leave"}
Cycle == [stage : Stage, ticket : 0..MaxTickets, todo : SUBSET (Fragment \X Fragment)]
NoCycle == [stage |-> "idle", ticket |-> 0, todo |-> {}]

ConsolidationTypeOK ==
  /\ stored \in [Fragment -> {"none", "row", "gone"}] /\ body \in [Fragment -> Content]
  /\ pinned \subseteq Fragment /\ heavy \subseteq Fragment
  /\ dropped \subseteq Content /\ rewritten \subseteq Content
  /\ tickets \in 0..MaxTickets /\ released \subseteq 1..MaxTickets
  /\ cycle \in [Request -> Cycle]

StoredRows == {f \in Fragment : stored[f] = "row"}
Running(r) == cycle[r].stage \notin {"idle", "waiting"}

----------------------------------------------------------------------------
ConsolidationInit ==
  /\ stored = [f \in Fragment |-> "none"]
  /\ body = [f \in Fragment |-> CHOOSE c \in Content : TRUE]
  /\ pinned = {} /\ heavy = {} /\ dropped = {} /\ rewritten = {}
  /\ tickets = 0 /\ released = {}
  /\ cycle = [r \in Request |-> NoCycle]

(***************************************************************************)
(* What goes on around the cycle.                                          *)
(***************************************************************************)
\* no other row of the key has the content
Unused(f, c) == \A g \in StoredRows \ {f} : Account[g] = Account[f] => body[g] # c

Store(f, c) ==
  /\ stored[f] = "none" /\ Unused(f, c)
  /\ stored' = [stored EXCEPT ![f] = "row"] /\ body' = [body EXCEPT ![f] = c]
  /\ UNCHANGED <<pinned, heavy, dropped, rewritten, tickets, released, cycle>>

\* a running cycle is going to delete the row
Doomed(f) == \E r \in Request : \E p \in cycle[r].todo : p[1] = f

\* amend: the content, isAnchor and the importance, or some of them
Amend(f, c) ==
  /\ f \in StoredRows /\ Unused(f, c)
  /\ body' = [body EXCEPT ![f] = c]
  /\ pinned' \in {pinned \cup {f}, pinned \ {f}} /\ heavy' \in {heavy \cup {f}, heavy \ {f}}
  /\ dropped' = IF c = body[f] THEN dropped ELSE dropped \cup {body[f]}
  /\ rewritten' = IF c # body[f] /\ Doomed(f) THEN rewritten \cup {c} ELSE rewritten
  /\ UNCHANGED <<stored, tickets, released, cycle>>

\* decay, feedback calibration, the evaluator
Reweigh(f) ==
  /\ f \in StoredRows
  /\ heavy' \in {heavy \cup {f}, heavy \ {f}} \ {heavy}
  /\ UNCHANGED <<cnTexts, pinned, tickets, released, cycle>>

Forget(f) ==
  /\ f \in StoredRows
  /\ stored' = [stored EXCEPT ![f] = "gone"]
  /\ dropped' = dropped \cup {body[f]}
  /\ UNCHANGED <<body, pinned, heavy, rewritten, tickets, released, cycle>>

(***************************************************************************)
(* consolidate(): a call waits until every earlier slot of the chain is    *)
(* resolved, tail = previous.then(() => slot).                             *)
(***************************************************************************)
Ask(r) ==
  /\ cycle[r].stage = "idle" /\ tickets < MaxTickets
  /\ tickets' = tickets + 1
  /\ cycle' = [cycle EXCEPT ![r] = [NoCycle EXCEPT !.stage = "waiting", !.ticket = tickets + 1]]
  /\ UNCHANGED <<cnTexts, pinned, heavy, released>>

\* mutant of MayEnter: the previous slot is not awaited
MayEnterAtOnce(r) == cycle[r].stage = "waiting"

MayEnter(r) == 1..(cycle[r].ticket - 1) \subseteq released

Enter(r) ==
  /\ cycle[r].stage = "waiting" /\ MayEnter(r)
  /\ cycle' = [cycle EXCEPT ![r].stage = "collect"]
  /\ UNCHANGED <<cnTexts, pinned, heavy, tickets, released>>

(***************************************************************************)
(* The stages, in their order. Each may fail, which timedStage swallows,   *)
(* and then does nothing, or in the case of merge_duplicates, no more.     *)
(***************************************************************************)
\* deleteExpired and purgeStaleReflections: one DELETE, never of an anchor
DeleteUnpinned(r, stage, next) ==
  /\ cycle[r].stage = stage
  /\ \E old \in SUBSET (StoredRows \ pinned) :
       /\ stored' = [f \in Fragment |-> IF f \in old THEN "gone" ELSE stored[f]]
       /\ dropped' = dropped \cup {body[f] : f \in old}
  /\ cycle' = [cycle EXCEPT ![r].stage = next]
  /\ UNCHANGED <<body, pinned, heavy, rewritten, tickets, released>>

\* for contents stored more than once (LIMIT 50), whatever the key: the copy to keep
\* has the highest importance (of equals the oldest)
ReadDuplicates(r) ==
  /\ cycle[r].stage = "read"
  /\ \E keep \in SUBSET StoredRows :
       /\ \A k, f \in keep : body[k] = body[f] => k = f
       /\ \A k \in keep, f \in StoredRows : body[k] = body[f] /\ f \in heavy => k \in heavy
       /\ cycle' = [cycle EXCEPT ![r] =
                     [@ EXCEPT !.stage = "merge",
                               !.todo = {p \in StoredRows \X keep : /\ body[p[1]] = body[p[2]]
                                                              /\ p[1] # p[2]}]]
  /\ UNCHANGED <<cnTexts, pinned, heavy, tickets, released>>

\* the links of a duplicate are moved to the keeper and its row is deleted, by its id
MergeOne(r, p) ==
  /\ cycle[r].stage = "merge" /\ p \in cycle[r].todo
  /\ stored' = [stored EXCEPT ![p[1]] = "gone"]
  /\ cycle' = [cycle EXCEPT ![r].todo = @ \ {p}]
  /\ UNCHANGED <<body, pinned, heavy, dropped, rewritten, tickets, released>>

MergeEnds(r) ==
  /\ cycle[r].stage = "merge"
  /\ cycle' = [cycle EXCEPT ![r] = [@ EXCEPT !.stage = "promote", !.todo = {}]]
  /\ UNCHANGED <<cnTexts, pinned, heavy, tickets, released>>

\* often used fragments of high importance become anchors
PromoteAnchors(r) ==
  /\ cycle[r].stage = "promote"
  /\ \E often \in SUBSET (StoredRows \cap heavy) : pinned' = pinned \cup often
  /\ cycle' = [cycle EXCEPT ![r].stage = "purge"]
  /\ UNCHANGED <<cnTexts, heavy, tickets, released>>

\* mutant of Released: the slot of a call that queued behind another is not resolved
ReleasedUnlessQueued(t) == IF t = 1 THEN released \cup {t} ELSE released

\* mutant of Released: the slot the call itself awaited is resolved
ReleasedPrevious(t) == released \cup {t - 1}

Released(t) == released \cup {t}

\* finally: the slot is resolved
Leave(r) ==
  /\ cycle[r].stage = "leave"
  /\ released' = Released(cycle[r].ticket)
  /\ cycle' = [cycle EXCEPT ![r] = NoCycle]
  /\ UNCHANGED <<cnTexts, pinned, heavy, tickets>>

\* the chain lives in the process
RestartProcess ==
  /\ tickets > 0
  /\ tickets' = 0 /\ released' = {}
  /\ cycle' = [r \in Request |-> NoCycle]
  /\ UNCHANGED <<cnTexts, pinned, heavy>>

CycleStep(r) ==
  \/ Ask(r) \/ Enter(r)
  \/ DeleteUnpinned(r, "collect", "read")
  \/ ReadDuplicates(r) \/ MergeEnds(r) \/ PromoteAnchors(r) \/ Leave(r)
  \/ \E p \in Fragment \X Fragment : MergeOne(r, p)
  \/ DeleteUnpinned(r, "purge", "leave")

ClientStep(f) ==
  \/ \E c \in Content : Store(f, c) \/ Amend(f, c)
  \/ Reweigh(f) \/ Forget(f)

ConsolidationNext ==
  \/ \E f \in Fragment : ClientStep(f)
  \/ \E r \in Request : CycleStep(r)
  \/ RestartProcess

ConsolidationSpec == ConsolidationInit /\ [][ConsolidationNext]_cnVars

----------------------------------------------------------------------------
(***************************************************************************)
(* At most one cycle of a process is at work, whoever asks for it and      *)
(* however many calls queue up (the CONSOLIDATION_QUEUE chain,             *)
(* MemoryConsolidator.js:66-95).                                           *)
(***************************************************************************)
OneCycleAtATime == \A r, s \in Request : Running(r) /\ Running(s) => r = s

(***************************************************************************)
(* No call waits in vain: while calls wait, a cycle is at work or one of   *)
(* them may start, so no slot of the chain is left unresolved              *)
(* (MemoryConsolidator.js:91-94).                                          *)
(***************************************************************************)
QueueNeverStuck ==
  (\E r \in Request : cycle[r].stage = "waiting") =>
    \E r \in Request : Running(r) \/ (cycle[r].stage = "waiting" /\ MayEnter(r))

(***************************************************************************)
(* Merging loses no content that its clients left alone: what a deleted    *)
(* row held is in another row, unless a client has forgotten or rewritten, *)
(* or the garbage collection has deleted, one of its copies, or an amend   *)
(* wrote it into a row which the merge, having read the duplicates, then   *)
(* deleted by its id (MemoryConsolidator.js:299-339). Importances that     *)
(* decide which copy is kept change between two cycles, so this needs the  *)
(* cycles not to overlap.                                                  *)
(***************************************************************************)
MergeKeepsOne ==
  \A f \in Fragment : stored[f] = "gone" =>
    \/ body[f] \in dropped \cup rewritten
    \/ \E g \in StoredRows : body[g] = body[f]
=============================================================================
