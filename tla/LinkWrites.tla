----------------------------- MODULE LinkWrites -----------------------------
(***************************************************************************)
(* The writers of fragment_links and of the linked_to arrays: createLink,  *)
(* createLinks and the rule-based linking of a reflected session, which    *)
(* uses the second and falls back to the first (LinkStore.js,              *)
(* SessionLinker.js). The transactions take advisory locks and the lock of *)
(* the unique index entry; the arrays are updated after the commit, in     *)
(* statements of their own. That of a batch locks several rows in an order *)
(* nothing sets, so two may be each other's deadlock: one of them fails.   *)
(***************************************************************************)
EXTENDS Integers, FiniteSets

CONSTANTS
  Piece,     \* fragment ids
  Rank,      \* their order as strings
  Hash,      \* hashtext of an id, 32 bits: two ids may have the same
  Writer,    \* the calls, numbered in the order they begin
  Single,    \* pairs createLink is asked for
  Batch      \* sets of pairs autoLinkSessionFragments may be left with by the cycle check

ASSUME PieceAssumption ==
  /\ Rank \in [Piece -> Nat] /\ \A f, g \in Piece : Rank[f] = Rank[g] => f = g
  /\ Hash \in [Piece -> Nat]
  /\ Single \subseteq Piece \X Piece /\ Batch \subseteq SUBSET (Piece \X Piece)
  /\ Writer \subseteq Nat

Updating == {"from", "to", "froms", "tos"}

VARIABLES
  link,      \* committed rows of fragment_links
  linkedTo,  \* the array of each fragment
  held,      \* locks of the open transactions
  job,       \* the calls
  torn       \* history: pairs whose arrays a failure left behind

lwVars == <<link, linkedTo, held, job, torn>>

Phase == {"idle", "low", "high", "row", "pairs", "rows", "from", "to", "froms", "tos", "over"}
Unborn == [phase |-> "idle", pairs |-> {}, todo |-> {}, rest |-> {}]
Finished == [Unborn EXCEPT !.phase = "over"]
Job == [phase : Phase, pairs : SUBSET (Piece \X Piece), todo : SUBSET (Piece \X Piece),
        rest : SUBSET (Piece \X Piece)]

\* mutant of LockOrder: the ids are locked in the direction of the link
LockOrderOfLink(p) == p

\* the two ids in ascending order, from which sortedKey is made as well
LockOrder(p) == IF Rank[p[1]] <= Rank[p[2]] THEN p ELSE <<p[2], p[1]>>
Lo(p) == LockOrder(p)[1]
Hi(p) == LockOrder(p)[2]

Lock == ({"id"} \X {Hash[f] : f \in Piece})
          \cup ({"pair"} \X ({Hash[f] : f \in Piece} \X {Hash[f] : f \in Piece}))
          \cup ({"row"} \X (Piece \X Piece))

LinkWritesTypeOK ==
  /\ link \subseteq Piece \X Piece /\ torn \subseteq Piece \X Piece
  /\ linkedTo \in [Piece -> SUBSET Piece]
  /\ held \in [Writer -> SUBSET Lock]
  /\ job \in [Writer -> Job]

Before(p, q) == \/ Rank[Lo(p)] < Rank[Lo(q)]
                \/ Lo(p) = Lo(q) /\ Rank[Hi(p)] <= Rank[Hi(q)]
Least(S) == CHOOSE p \in S : \A q \in S : Before(p, q)

\* the lock a call asks for next
Asked(j) ==
  IF j.todo = {} THEN {}
  ELSE LET p == Least(j.todo) IN
       CASE j.phase = "low"            -> {<<"id", Hash[Lo(p)]>>}
         [] j.phase = "high"           -> {<<"id", Hash[Hi(p)]>>}
         [] j.phase = "pairs"          -> {<<"pair", <<Hash[Lo(p)], Hash[Hi(p)]>>>>}
         [] j.phase \in {"row", "rows"} -> {<<"row", p>>}
         [] OTHER                      -> {}
LockWanted(w) == Asked(job[w])

WaitsFor(w, v) == w # v /\ LockWanted(w) \cap held[v] # {}

\* the next createLink of the fallback, or the end of the call
NextSingle(rest) ==
  IF rest = {} THEN Finished
  ELSE LET p == Least(rest) IN
       [phase |-> "low", pairs |-> {p}, todo |-> {p}, rest |-> rest \ {p}]
----------------------------------------------------------------------------
LinkWritesInit ==
  /\ link = {} /\ linkedTo = [f \in Piece |-> {}]
  /\ held = [w \in Writer |-> {}] /\ job = [w \in Writer |-> Unborn]
  /\ torn = {}

StartJob(w, j) ==
  /\ job[w].phase = "idle" /\ \A v \in Writer : v < w => job[v].phase # "idle"
  /\ job' = [job EXCEPT ![w] = j]
  /\ UNCHANGED <<link, linkedTo, held, torn>>

CreateLink(w, p) == StartJob(w, NextSingle({p}))

\* the cycle check, a read of linked_to, is over
AutoLink(w, B) == StartJob(w, [phase |-> "pairs", pairs |-> B, todo |-> B, rest |-> {}])

\* the locks of the ids, then the row; or those of all pairs, then all rows
AcquireLock(w) ==
  LET j == job[w]
      left == j.todo \ {Least(j.todo)}
  IN
  /\ LockWanted(w) # {} /\ \A v \in Writer : ~WaitsFor(w, v)
  /\ held' = [held EXCEPT ![w] = @ \cup LockWanted(w)]
  /\ job' = [job EXCEPT ![w] =
       CASE j.phase = "low"  -> [j EXCEPT !.phase = "high"]
         [] j.phase = "high" -> [j EXCEPT !.phase = "row"]
         [] j.phase = "row"  -> [j EXCEPT !.todo = {}]
         [] j.phase = "pairs" /\ left = {} -> [j EXCEPT !.phase = "rows", !.todo = j.pairs]
         [] OTHER            -> [j EXCEPT !.todo = left]]
  /\ UNCHANGED <<link, linkedTo, torn>>

CommitLinks(w) ==
  /\ job[w].phase \in {"row", "rows"} /\ job[w].todo = {}
  /\ link' = link \cup job[w].pairs
  /\ held' = [held EXCEPT ![w] = {}]
  /\ job' = [job EXCEPT ![w].phase = IF @ = "row" THEN "from" ELSE "froms"]
  /\ UNCHANGED <<linkedTo, torn>>

\* mutant of FromSide: the array of the first id only, and of the first pair
FromSideOfOne(pairs) == {Least(pairs)[1]}

FromSide(pairs) == {p[1] : p \in pairs}
ToSide(pairs) == {p[2] : p \in pairs}

\* a batch puts every target into the array of every source
AppendTo(F, G) == linkedTo' = [f \in Piece |-> IF f \in F THEN linkedTo[f] \cup G ELSE linkedTo[f]]

LinkSources(w) ==
  /\ job[w].phase \in {"from", "froms"}
  /\ AppendTo(FromSide(job[w].pairs), ToSide(job[w].pairs))
  /\ job' = [job EXCEPT ![w].phase = IF @ = "from" THEN "to" ELSE "tos"]
  /\ UNCHANGED <<link, held, torn>>

LinkTargets(w) ==
  /\ job[w].phase \in {"to", "tos"}
  /\ AppendTo(ToSide(job[w].pairs), FromSide(job[w].pairs))
  /\ job' = [job EXCEPT ![w] = NextSingle(@.rest)]
  /\ UNCHANGED <<link, held, torn>>

\* an error rolls the transaction back (for a batch also lock_timeout, and the
\* pairs are then created one by one)
RollBack(w) ==
  /\ job[w].phase \in {"low", "high", "row", "pairs", "rows"}
  /\ held' = [held EXCEPT ![w] = {}]
  /\ job' = [job EXCEPT ![w] = NextSingle(IF @.phase \in {"pairs", "rows"} THEN @.pairs ELSE @.rest)]
  /\ UNCHANGED <<link, linkedTo, torn>>

\* an update of the arrays fails, deadlocks included: createLink stops, createLinks goes on
UpdateFails(w) ==
  /\ job[w].phase \in Updating
  /\ torn' = torn \cup job[w].pairs
  /\ job' = [job EXCEPT ![w] = IF @.phase = "froms" THEN [@ EXCEPT !.phase = "tos"]
                              ELSE NextSingle(@.rest)]
  /\ UNCHANGED <<link, linkedTo, held>>

\* the process stops: its transactions are rolled back
WritersCrash ==
  /\ \E w \in Writer : job[w].phase \notin {"idle", "over"}
  /\ torn' = torn \cup UNION {IF job[w].phase \in Updating THEN job[w].pairs ELSE {} :
                                w \in Writer}
  /\ job' = [w \in Writer |-> IF job[w].phase = "idle" THEN Unborn ELSE Finished]
  /\ held' = [w \in Writer |-> {}]
  /\ UNCHANGED <<link, linkedTo>>

LinkWritesNext ==
  \/ \E w \in Writer : \/ \E p \in Single : CreateLink(w, p)
                       \/ \E B \in Batch : AutoLink(w, B)
                       \/ AcquireLock(w) \/ CommitLinks(w) \/ LinkSources(w) \/ LinkTargets(w)
                       \/ RollBack(w) \/ UpdateFails(w)
  \/ WritersCrash

LinkWritesSpec == LinkWritesInit /\ [][LinkWritesNext]_lwVars

----------------------------------------------------------------------------
Circle(S) == \A w \in S : \E v \in S : WaitsFor(w, v)
InPlay(S) == UNION {{p[1], p[2]} : p \in UNION {job[w].pairs : w \in S}}

(***************************************************************************)
(* However single links and batches meet, the transactions that write      *)
(* fragment_links do not wait for each other in a circle, unless two of    *)
(* the ids they link have the same hash: the locks are taken in the order  *)
(* of the ids, which is then not one of the locks (LinkStore.js:30, 40,    *)
(* 114; SessionLinker.js:133). The updates of linked_to, after the commit, *)
(* are not among the transactions it speaks of.                            *)
(***************************************************************************)
NoCircularWait ==
  \A S \in (SUBSET Writer) \ {{}} :
    Circle(S) => \E f, g \in InPlay(S) : f # g /\ Hash[f] = Hash[g]

(***************************************************************************)
(* A link that is in the table is in the arrays of both its fragments, as  *)
(* soon as the call that wrote it is over and unless one of its updates    *)
(* failed (LinkStore.createLink and createLinks).                          *)
(***************************************************************************)
LinkedBothWays ==
  \A p \in link \ torn :
    \/ p[2] \in linkedTo[p[1]] /\ p[1] \in linkedTo[p[2]]
    \/ \E w \in Writer : job[w].phase \in Updating /\ p \in job[w].pairs
=============================================================================
