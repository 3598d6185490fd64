-------------------------- MODULE MCFragmentStore --------------------------
(* Instances of FragmentStore for TLC.                                     *)
EXTENDS FragmentStore, TLC

\* every limited key may hold a single live fragment
MCLimit == [k \in LimitedKey |-> 1]
NoGroups == [k \in Key |-> {k}]

(* Calls and ids are interchangeable, and so are the contents that the     *)
(* policy rules treat alike.                                               *)
Symmetry == Permutations(Caller) \cup Permutations(Frag)
            \cup Permutations(Content \ Violating)

(* The archive and the history of acknowledged ids are written and never   *)
(* read: runs whose properties do not mention them leave them out.         *)
WithoutHistory == <<rows, minted, lock, index, lost, cold, call>>

\* without what became of the Redis index, which nothing else depends on
WithoutIndex == <<rows, minted, lock, call, acked>>
=============================================================================
