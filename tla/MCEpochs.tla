------------------------------ MODULE MCEpochs ------------------------------
(* The commit epoch on two tabs: one worker each and several writes, whose  *)
(* workers may die; or a second worker in the first tab, one write and      *)
(* every failure.                                                           *)
EXTENDS Epochs, TLC

CONSTANTS r1, r2

TwoAndOne == (r1 :> 2) @@ (r2 :> 1)

ManyWrites == [absent |-> {<<r1, 2>>}, writes |-> 3, faults |-> {"crash"}]

ManyFaults == [absent |-> {}, writes |-> 1,
               faults |-> {"publish", "realm", "late", "crash"}]

ManyWritesOrManyFaults == {ManyWrites, ManyFaults}

LateCommits == {[absent |-> {<<r1, 2>>}, writes |-> 1, faults |-> {"late"}]}
=============================================================================
