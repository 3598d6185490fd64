--------------------------- MODULE MCSupersession ---------------------------
(***************************************************************************)
(* Supersession alone, for what the comment of the linker's gate says: two *)
(* fragments of one text that are embedded in the same chunk, each with a  *)
(* handler of its embedding_ready event, and the maintenance cycle.        *)
(***************************************************************************)
EXTENDS Supersession, TLC

CONSTANTS t1, t2

MCBorn == t1 :> 1 @@ t2 :> 2
MCHolder == t1 :> 1 @@ t2 :> 1
MCCos == [q \in Node \X Node |-> IF q[1] = q[2] THEN 100 ELSE 97]
=============================================================================
