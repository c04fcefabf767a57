------------------------------ MODULE MCOutputs ------------------------------
(* Instances of Outputs for TLC.                                            *)
EXTENDS Outputs, TLC

CONSTANTS t1, t2, o1, o2

(* One output in each of two tabs; only the first loads enough rows to fill *)
(* its queue.                                                               *)
Places == o1 :> t1 @@ o2 :> t2
Loads == o1 :> 2 @@ o2 :> 0

=============================================================================
