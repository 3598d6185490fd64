--------------------------- MODULE MCLlmDispatch ---------------------------
(* Instances of LlmDispatch for TLC.                                       *)
EXTENDS LlmDispatch, TLC

CONSTANTS p1, p2

\* a direct provider that falls back on a compatible one of the same name
DirectThenCompatible == [p \in Provider |-> IF p = p1 THEN "direct" ELSE "compatible"]
DirectThenCli == [p \in Provider |-> IF p = p1 THEN "direct" ELSE "cli"]
InOrder == <<p1, p2>>
OwnSemaphore == [p \in Provider |-> p]
OneSlotThenTwo == [s \in SemKey |-> IF s = p1 THEN 1 ELSE 2]
OneName == [p \in Provider |-> CHOOSE n \in Name : TRUE]

(* The calls are interchangeable: what holds of one of them holds of all.  *)
SomeWaiterServed == WaiterServed(CHOOSE c \in Call : TRUE)
=============================================================================
