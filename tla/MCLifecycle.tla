---------------------------- MODULE MCLifecycle ----------------------------
(* The client's lifecycle in the settings that differ in kind: a lock shared *)
(* at once, one that decides whether any worker starts, and one that waits   *)
(* for worker 0 while the browser may refuse surplus workers; each with      *)
(* every inopportune death and with none.                                    *)
EXTENDS Lifecycle

Kinds ==
    {[connection |-> "shared", declining |-> FALSE, setup |-> FALSE],
     [connection |-> "exclusive", declining |-> FALSE, setup |-> TRUE],
     [connection |-> "probed", declining |-> FALSE, setup |-> TRUE],
     [connection |-> "probed", declining |-> TRUE, setup |-> FALSE]}

Everywhere ==
    {[connection |-> k.connection, declining |-> k.declining,
      setup |-> k.setup, deaths |-> d] :
        k \in Kinds, d \in {{}, {"stale", "closing"}}}
=============================================================================
