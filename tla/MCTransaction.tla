---------------------------- MODULE MCTransaction ----------------------------
(* Instances of Transaction for TLC.                                        *)
EXTENDS Transaction

(* Two calls of any kind, in any mode, under every failure.                 *)
Pairs ==
    [mode : {"write", "readOnly", "manual"}, calls : {2}, kinds : {CallKinds},
     names : {{"a"}}, signals : {{"call", "transaction"}}, unawaited : {{}},
     faults : {{"fail", "left", "control", "crash"}}]

(* Nested savepoints around writes.                                         *)
Nested ==
    [mode : {"write"}, calls : {4},
     kinds : {{"write", "savepoint", "release", "rollbackTo"}},
     names : {{"a", "b"}}, signals : {{}}, unawaited : {{}}, faults : {{}}]

(* Three calls in one queue, each with a signal of its own or without.      *)
Queued ==
    [mode : {"write"}, calls : {3}, kinds : {{"read", "write", "batch"}},
     names : {{}}, signals : {{"call"}}, unawaited : {{}}, faults : {{}}]

Everything == Pairs \cup Nested \cup Queued

=============================================================================
