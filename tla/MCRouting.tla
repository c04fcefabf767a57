------------------------------ MODULE MCRouting ------------------------------
(* Instances of Routing for TLC.                                            *)
EXTENDS Routing, TLC

CONSTANTS c1, c2

CallSet == {c1, c2}

(* One caller streams, and may be cut; the other reads its rows at once.    *)
Uses == c1 :> {"stream"} @@ c2 :> {"run", "first"}

Streams == {c1}

(* Nothing yet.                                                             *)
Nothing == {Empty}

=============================================================================
