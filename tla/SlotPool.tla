------------------------------ MODULE SlotPool ------------------------------
(***************************************************************************)
(* What the provider semaphores promise (lib/llm/util/semaphore.js): every *)
(* key has a fixed number of slots, at most that many clients are inside,  *)
(* and those that have to wait are let in strictly in order of arrival. A  *)
(* client that gives up waiting leaves the others' order alone.            *)
(***************************************************************************)
EXTENDS Integers, Sequences, SequencesExt, FiniteSets

CONSTANTS Client, Slot, Limit

VARIABLES
  inside,  \* the clients holding a slot of every key
  line     \* the clients waiting for one, first come first

poolVars == <<inside, line>>

Free(s) == Cardinality(inside[s]) < Limit[s]

PoolInit ==
  /\ inside = [s \in Slot |-> {}]
  /\ line = [s \in Slot |-> <<>>]

\* nobody who waits is overtaken
Enter(c, s) ==
  /\ Free(s) /\ line[s] = <<>>
  /\ inside' = [inside EXCEPT ![s] = @ \cup {c}]
  /\ UNCHANGED line

Queue(c, s) ==
  /\ ~Free(s)
  /\ line' = [line EXCEPT ![s] = Append(@, c)]
  /\ UNCHANGED inside

\* a slot that becomes free goes to the first in line at once
Leave(c, s) ==
  /\ c \in inside[s]
  /\ IF line[s] = <<>>
     THEN /\ inside' = [inside EXCEPT ![s] = @ \ {c}]
          /\ UNCHANGED line
     ELSE /\ inside' = [inside EXCEPT ![s] = (@ \ {c}) \cup {Head(line[s])}]
          /\ line' = [line EXCEPT ![s] = Tail(@)]

GiveUp(c, s) ==
  /\ \E i \in DOMAIN line[s] :
       /\ line[s][i] = c
       /\ line' = [line EXCEPT ![s] = RemoveAt(@, i)]
  /\ UNCHANGED inside

PoolNext ==
  \E c \in Client, s \in Slot : Enter(c, s) \/ Queue(c, s) \/ Leave(c, s) \/ GiveUp(c, s)

PoolSpec == PoolInit /\ [][PoolNext]_poolVars
=============================================================================
