------------------------ MODULE MCEmbeddingPipeline ------------------------
(* Instances of EmbeddingPipeline for TLC.                                 *)
EXTENDS EmbeddingPipeline, TLC

\* importance: any order will do, the ids are interchangeable
AnyRank == LET s == SetToSeq(Frag) IN [f \in Frag |-> CHOOSE i \in DOMAIN s : s[i] = f]

(* The dead letters and the history of overtaken rows are written and      *)
(* never read: a run whose property does not mention them leaves them out. *)
WithoutHistory == <<rows, owed, queue, job, crashes>>
=============================================================================
