-------------------------- MODULE MCPipelineAndStore --------------------------
(***************************************************************************)
(* The embedding pipeline and, beside it, the fragment store in its        *)
(* default mode (MEMENTO_REMEMBER_ATOMIC is off), which share no state     *)
(* here: in each behaviour one of them, the focus, runs, and the other     *)
(* rests in its initial state.                                             *)
(***************************************************************************)
EXTENDS EmbeddingPipeline, TLC

CONSTANTS s1, s2, Limited, TheMaster, r1, r2, r3, c1, c2, c3, NoOne, NoId, NoKey, NoText

VARIABLES focus, stored, minted, versions, lock, index, lost, cold, call, acked

storeVars == <<stored, minted, versions, lock, index, lost, cold, call, acked>>

\* a key that may hold one live fragment and has opted in to the hard gate, which
\* refuses one of the contents
Default == INSTANCE FragmentStore
  WITH Caller <- {s1, s2}, Key <- {TheMaster, Limited}, Master <- TheMaster,
       LimitedKey <- {Limited}, Limit <- [k \in {Limited} |-> 1],
       Group <- [k \in {TheMaster, Limited} |-> {k}], HardGate <- {Limited},
       Frag <- {r1, r2, r3}, Content <- {c1, c2, c3}, Violating <- {c3}, Token <- {},
       MaxBatch <- 2, Tool <- {"remember", "batch"}, AtomicRemember <- FALSE,
       MaxSetSize <- 1, WarmupLimit <- 1, NoCaller <- NoOne, NoFrag <- NoId,
       NoToken <- NoKey, NoContent <- NoText, rows <- stored

\* importance: any order will do, the ids are interchangeable
AnyRank == LET s == SetToSeq(Frag) IN [f \in Frag |-> CHOOSE i \in DOMAIN s : s[i] = f]

BothInit == Init /\ Default!Init /\ focus \in {"pipeline", "store"}

RunPipeline ==
  /\ focus = "pipeline"
  /\ UNCHANGED <<focus, storeVars>>
  /\ Next

RunStore ==
  /\ focus = "store"
  /\ UNCHANGED <<focus, vars>>
  /\ Default!Next

BothNext == RunPipeline \/ RunStore

BothVars == <<focus, vars, storeVars>>

BothSpec == BothInit /\ [][BothNext]_BothVars

(***************************************************************************)
(* QuotaBound of FragmentStore: the check and the INSERT of the default    *)
(* remember are two transactions, and the live fragments of a key exceed   *)
(* its limit by at most the number of the other callers.                   *)
(***************************************************************************)
QuotaBound == Default!QuotaBound

\* callers, ids and the contents that the gate treats alike are interchangeable
Interchangeable == Permutations({s1, s2}) \cup Permutations({r1, r2, r3}) \cup Permutations({c1, c2})

(***************************************************************************)
(* What is written and never read (dead letters, archive), and the Redis   *)
(* index, on which nothing else of the store depends, are left out.        *)
(***************************************************************************)
FocusView == IF focus = "pipeline" THEN <<focus, rows, owed, queue, job, crashes, overtaken>>
             ELSE <<focus, stored, minted, lock, call, acked>>
=============================================================================
