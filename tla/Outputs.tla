------------------------------ MODULE Outputs ------------------------------
(* output() and the bulk writer inside it, in the tabs of one origin. Rows  *)
(* are buffered into batches, batches are written one after another into a  *)
(* staging table of the output's own, and close() swaps that table in for   *)
(* the target. A staging lock marks the table as in use; the first output() *)
(* of a client sweeps the staging tables nobody holds a lock for. A tab may *)
(* die at any step, which releases its locks and leaves its table behind.   *)
EXTENDS Naturals, Sequences, FiniteSets, Functions

CONSTANTS
    Tabs,           \* one client each
    Outputs,        \* calls of output(), all with the same target table
    TabOf,          \* which tab calls which output
    MaxRows,        \* per output: the rows its caller enqueues at most
    BatchRows,      \* maxBufferSize: the rows of a full batch
    QueueSize,      \* queueSize, already raised to 1
    Signalled,      \* the outputs with a signal or a deadline
    Faults          \* of "tab", "fail", "stuck"

ASSUME OutputsAssumption ==
    /\ TabOf \in [Outputs -> Tabs]
    /\ MaxRows \in [Outputs -> Nat]
    /\ BatchRows \in Nat \ {0} /\ QueueSize \in Nat \ {0}
    /\ Signalled \subseteq Outputs
    /\ Faults \subseteq {"tab", "fail", "stuck"}

VARIABLES
    tab,            \* per tab: alive?, its client's sweep memo, its sweep
    out,            \* per output: its lock, its table's creation, its writer
    staging,        \* the staging tables there are: output to rows
    target          \* the table readers see: [of, rows]

vars == <<tab, out, staging, target>>

Old == "old"        \* the target as it was before any output()

NoWriter ==
    [rows |-> 0, queue |-> <<>>, running |-> FALSE, stuck |-> FALSE,
     queuedRows |-> 0, room |-> FALSE, failure |-> FALSE, aborted |-> FALSE,
     given |-> 0, written |-> 0, notWritten |-> 0]

Writers ==
    [rows : Nat, queue : Seq(Nat), running : BOOLEAN, stuck : BOOLEAN,
     queuedRows : Nat, room : BOOLEAN, failure : BOOLEAN, aborted : BOOLEAN,
     given : Nat, written : Nat, notWritten : Nat]

Calls ==
    [at : {"none", "open", "close", "drain", "swap",
           "drop", "release", "swapped", "ok", "rejected"},
     lock : {"none", "asked", "held", "released"},
     created : {"no", "yes", "failed"},
     lateDrop : BOOLEAN,
     w : Writers]

Clients ==
    [alive : BOOLEAN,
     swept : {"no", "ask", "first", "second", "drop", "yes", "failed"},
     tables : SUBSET Outputs, held : SUBSET Outputs, due : SUBSET Outputs]

(* Every variable keeps its type.                                           *)
TypeOK ==
    /\ tab \in [Tabs -> Clients]
    /\ out \in [Outputs -> Calls]
    /\ DOMAIN staging \subseteq Outputs
    /\ \A o \in DOMAIN staging : staging[o] \in Nat
    /\ target \in [of : Outputs \cup {Old}, rows : Nat]

Init ==
    /\ tab = [t \in Tabs |-> [alive |-> TRUE, swept |-> "no",
                              tables |-> {}, held |-> {}, due |-> {}]]
    /\ out = [o \in Outputs |-> [at |-> "none", lock |-> "none", created |-> "no",
                                 lateDrop |-> FALSE, w |-> NoWriter]]
    /\ staging = <<>>
    /\ target = [of |-> Old, rows |-> 0]

Alive(o) == tab[TabOf[o]].alive

Exists(o) == o \in DOMAIN staging

(* The table of an output is created or gets rows, or is no more.           *)
Put(o, rows) ==
    staging' = [p \in DOMAIN staging \cup {o} |-> IF p = o THEN rows ELSE staging[p]]

Drop(o) == staging' = Restrict(staging, DOMAIN staging \ {o})

(* What the browser reports as held: a dead tab holds nothing.              *)
HeldLocks == {o \in Outputs : out[o].lock = "held"}

-----------------------------------------------------------------------------
(* The bulk writer, as functions of its record.                             *)

Queued(w) ==
    LET upTo[n \in 0..Len(w.queue)] ==
          IF n = 0 THEN 0 ELSE upTo[n - 1] + w.queue[n]
    IN upTo[Len(w.queue)]

ReleaseRoom(w) == [w EXCEPT !.room = FALSE]

(* flush(): what is buffered becomes a batch at the end of the chain.       *)
Flush(w) ==
    [w EXCEPT !.queue = Append(@, w.rows),
              !.queuedRows = @ + w.rows,
              !.rows = 0]

(* enqueue() of one row that binds: the batch is flushed when full, and the *)
(* caller is parked while the queue is.                                     *)
Enqueued(w) ==
    LET held == [w EXCEPT !.rows = @ + 1, !.given = @ + 1]
        next == IF held.rows >= BatchRows THEN Flush(held) ELSE held
    IN [next EXCEPT !.room = next.queuedRows >= QueueSize]

(* The finally block of a batch: every exit passes it.                      *)
Settled(w) ==
    LET next == [w EXCEPT !.queue = Tail(@), !.queuedRows = @ - Head(w.queue),
                          !.running = FALSE, !.stuck = FALSE]
    IN IF next.queuedRows < QueueSize THEN ReleaseRoom(next) ELSE next

(* A batch that writes nothing, because one failed before it or the abort   *)
(* came first.                                                              *)
Skipped_KeepsQueue(w) ==
    [w EXCEPT !.queue = Tail(@), !.notWritten = @ + Head(w.queue),
              !.running = FALSE]

Skipped_Uncounted(w) == Settled(w)

Skipped(w) == Settled([w EXCEPT !.notWritten = @ + Head(w.queue)])

(* A batch that was written.                                                *)
Landed(w) == Settled([w EXCEPT !.written = @ + Head(w.queue)])

(* A batch whose write, or whose table's creation, was rejected: an abort   *)
(* is not a failure, anything else is latched.                              *)
Rejected_Unlatched(w) == Skipped(w)

Rejected(w) == Skipped(IF w.aborted THEN w ELSE [w EXCEPT !.failure = TRUE])

(* The abort releases a parked producer, and rejects the write in flight.   *)
Aborted(w) == ReleaseRoom([w EXCEPT !.aborted = TRUE])

Set(o, w) == out' = [out EXCEPT ![o].w = w]

-----------------------------------------------------------------------------
(* The sweep, net 2 of the cleanup.                                         *)

(* Its two readings in their order: the tables, then the locks.             *)
SweepPlan_LocksFirst == <<"held", "tables">>
SweepPlan == <<"tables", "held">>

(* staleStagingTables.                                                      *)
Stale(tables, held) == tables \ held

Sweep(t, r) == tab' = [tab EXCEPT ![t] = r]

(* tryWithLock on bsq:sweep: refused, the attempt is memoized all the same. *)
SweepAsk(t) ==
    /\ tab[t].alive /\ tab[t].swept = "ask"
    /\ Sweep(t, IF \E u \in Tabs : tab[u].alive
                      /\ tab[u].swept \in {"first", "second", "drop"}
                THEN [tab[t] EXCEPT !.swept = "yes"]
                ELSE [tab[t] EXCEPT !.swept = "first",
                        !.due = {o \in Outputs : Exists(o) /\ ~Alive(o)}])
    /\ UNCHANGED <<out, staging, target>>

Reading(r, what) ==
    IF what = "tables" THEN [r EXCEPT !.tables = {o \in Outputs : Exists(o)}]
                       ELSE [r EXCEPT !.held = HeldLocks]

SweepFirst(t) ==
    /\ tab[t].alive /\ tab[t].swept = "first"
    /\ LET r == Reading(tab[t], SweepPlan[1])
       IN Sweep(t, [r EXCEPT !.swept =
             IF SweepPlan[1] = "tables" /\ r.tables = {} THEN "yes" ELSE "second"])
    /\ UNCHANGED <<out, staging, target>>

SweepSecond(t) ==
    /\ tab[t].alive /\ tab[t].swept = "second"
    /\ LET r == Reading(tab[t], SweepPlan[2])
       IN Sweep(t, [r EXCEPT !.swept = "drop",
                             !.tables = Stale(r.tables, r.held)])
    /\ UNCHANGED <<out, staging, target>>

(* DROP TABLE IF EXISTS of one stale table; the sweep ends after the last.  *)
SweepDrop(t) ==
    /\ tab[t].alive /\ tab[t].swept = "drop"
    /\ \/ /\ tab[t].tables = {}
          /\ Sweep(t, [tab[t] EXCEPT !.swept = "yes"])
          /\ UNCHANGED staging
       \/ \E o \in tab[t].tables :
             /\ Sweep(t, [tab[t] EXCEPT !.tables = @ \ {o}])
             /\ Drop(o)
    /\ UNCHANGED <<out, target>>

(* A statement of the sweep fails: the sweep ends, and fails nobody.        *)
SweepFails(t) ==
    /\ "fail" \in Faults
    /\ tab[t].alive /\ tab[t].swept \in {"first", "drop"}
    /\ Sweep(t, [tab[t] EXCEPT !.swept = "failed"])
    /\ UNCHANGED <<out, staging, target>>

-----------------------------------------------------------------------------
(* output().                                                                *)

(* The staging lock is asked for, not waited for, and the sweep is started  *)
(* unless this client has had its own.                                      *)
Output(o) ==
    /\ Alive(o) /\ out[o].at = "none"
    /\ out' = [out EXCEPT ![o].at = "open", ![o].lock = "asked"]
    /\ tab' = [tab EXCEPT ![TabOf[o]].swept = IF @ = "no" THEN "ask" ELSE @]
    /\ UNCHANGED <<staging, target>>

(* Nobody contends for the name.                                            *)
GrantLock(o) ==
    /\ Alive(o) /\ out[o].lock = "asked"
    /\ out' = [out EXCEPT ![o].lock = "held"]
    /\ UNCHANGED <<tab, staging, target>>

(* createStaging. The lock manager answers a page's requests in order, and  *)
(* CREATE is a write, whose own lock is asked for after the staging lock.   *)
Create(o) ==
    /\ Alive(o) /\ out[o].at # "none" /\ out[o].created = "no"
    /\ tab[TabOf[o]].swept \in {"yes", "failed"}
    /\ out[o].lock = "held"
    /\ \/ /\ out' = [out EXCEPT ![o].created = "yes"]
          /\ Put(o, 0)
       \/ /\ "fail" \in Faults
          /\ out' = [out EXCEPT ![o].created = "failed"]
          /\ UNCHANGED staging
    /\ UNCHANGED <<tab, target>>

(* The caller enqueues a row and waits for its promise before the next.     *)
Enqueue(o) ==
    /\ Alive(o) /\ out[o].at = "open"
    /\ ~out[o].w.room /\ ~out[o].w.aborted /\ ~out[o].w.failure
    /\ out[o].w.given < MaxRows[o]
    /\ Set(o, Enqueued(out[o].w))
    /\ UNCHANGED <<tab, staging, target>>

(* The next batch of the chain starts, or is skipped.                       *)
StartBatch(o) ==
    /\ Alive(o) /\ out[o].w.queue # <<>> /\ ~out[o].w.running
    /\ IF out[o].w.failure \/ out[o].w.aborted
       THEN Set(o, Skipped(out[o].w))
       ELSE Set(o, [out[o].w EXCEPT !.running = TRUE])
    /\ UNCHANGED <<tab, staging, target>>

(* It waits for the staging table, and its INSERT succeeds, fails, never    *)
(* answers, or is rejected by the abort - having landed or not.             *)
Insert(o) ==
    /\ Alive(o) /\ out[o].w.running /\ out[o].created # "no"
    /\ \/ /\ out[o].created = "yes" /\ Exists(o)
          /\ ~out[o].w.aborted /\ ~out[o].w.stuck
          /\ Set(o, Landed(out[o].w))
          /\ Put(o, staging[o] + Head(out[o].w.queue))
       \/ /\ \/ out[o].created = "failed" \/ ~Exists(o)
             \/ "fail" \in Faults /\ ~out[o].w.stuck
          /\ Set(o, Rejected(out[o].w))
          /\ UNCHANGED staging
       \/ /\ out[o].w.aborted
          /\ Set(o, Rejected(out[o].w))
          /\ \/ UNCHANGED staging
             \/ Exists(o) /\ Put(o, staging[o] + Head(out[o].w.queue))
    /\ UNCHANGED <<tab, target>>

(* A write of a caller without a deadline that never answers holds its      *)
(* close() for ever, by design: it is left out.                             *)
InsertSticks(o) ==
    /\ "stuck" \in Faults /\ o \in Signalled
    /\ Alive(o) /\ out[o].w.running /\ ~out[o].w.stuck /\ out[o].created = "yes"
    /\ Set(o, [out[o].w EXCEPT !.stuck = TRUE])
    /\ UNCHANGED <<tab, staging, target>>

(* The caller's signal or the deadline. The writer listens until close()    *)
(* has settled.                                                             *)
Abort(o) ==
    /\ o \in Signalled
    /\ Alive(o) /\ out[o].at \in {"open", "close", "drain"} /\ ~out[o].w.aborted
    /\ Set(o, Aborted(out[o].w))
    /\ UNCHANGED <<tab, staging, target>>

-----------------------------------------------------------------------------
(* close().                                                                 *)

Close(o) ==
    /\ Alive(o) /\ out[o].at = "open"
    /\ out' = [out EXCEPT ![o].at = "close"]
    /\ UNCHANGED <<tab, staging, target>>

(* createStaging has settled: rejected, the staging table is dropped;       *)
(* otherwise the writer's own close() flushes the last batch.               *)
CloseWriter(o) ==
    /\ Alive(o) /\ out[o].at = "close" /\ out[o].created # "no"
    /\ IF out[o].created = "failed"
       THEN out' = [out EXCEPT ![o].at = "drop"]
       ELSE out' = [out EXCEPT ![o].at = "drain",
                       ![o].w = IF @.rows > 0 THEN Flush(@) ELSE @]
    /\ UNCHANGED <<tab, staging, target>>

(* The chain has run out: an abort or a latched failure rejects.            *)
Drained(o) ==
    /\ Alive(o) /\ out[o].at = "drain" /\ out[o].w.queue = <<>>
    /\ out' = [out EXCEPT ![o].at =
          IF out[o].w.aborted \/ out[o].w.failure THEN "drop" ELSE "swap"]
    /\ UNCHANGED <<tab, staging, target>>

(* One transaction drops the target, renames the staging table onto it and  *)
(* builds the indexes; it commits whole or, failing, leaves both as they    *)
(* were.                                                                    *)
SwapFails(o) ==
    /\ Alive(o) /\ out[o].at = "swap"
    /\ "fail" \in Faults \/ ~Exists(o)
    /\ out' = [out EXCEPT ![o].at = "drop"]
    /\ UNCHANGED <<tab, staging, target>>

Swap(o) ==
    /\ Alive(o) /\ out[o].at = "swap" /\ Exists(o)
    /\ target' = [of |-> o, rows |-> staging[o]]
    /\ Drop(o)
    /\ out' = [out EXCEPT ![o].at = "swapped"]
    /\ UNCHANGED tab

(* dropStaging: the DROP is answered, fails, or is given up after           *)
(* DROP_STAGING_TIMEOUT and may still run.                                  *)
DropStaging(o) ==
    /\ Alive(o) /\ out[o].at = "drop"
    /\ \/ /\ Drop(o)
          /\ out' = [out EXCEPT ![o].at = "release"]
       \/ /\ "fail" \in Faults
          /\ out' = [out EXCEPT ![o].at = "release"]
          /\ UNCHANGED staging
       \/ /\ "stuck" \in Faults
          /\ out' = [out EXCEPT ![o].at = "release", ![o].lateDrop = TRUE]
          /\ UNCHANGED staging
    /\ UNCHANGED <<tab, target>>

LateDrop(o) ==
    /\ Alive(o) /\ out[o].lateDrop
    /\ out' = [out EXCEPT ![o].lateDrop = FALSE]
    /\ Drop(o)
    /\ UNCHANGED <<tab, target>>

(* releaseLock, after the attempt to drop and not before, then close()      *)
(* settles.                                                                 *)
ReleaseLock(o) ==
    /\ Alive(o) /\ out[o].at \in {"release", "swapped"}
    /\ out[o].lock = "held"
    /\ out' = [out EXCEPT ![o].lock = "released",
                          ![o].at = IF @ = "swapped" THEN "ok" ELSE "rejected"]
    /\ UNCHANGED <<tab, staging, target>>

(* A tab dies: the browser releases its locks.                              *)
TabDies(t) ==
    /\ "tab" \in Faults /\ tab[t].alive
    /\ tab' = [tab EXCEPT ![t].alive = FALSE]
    /\ out' = [o \in Outputs |->
          IF TabOf[o] = t /\ out[o].lock # "none"
          THEN [out[o] EXCEPT !.lock = "released"] ELSE out[o]]
    /\ UNCHANGED <<staging, target>>

-----------------------------------------------------------------------------

Sweeps(t) == SweepAsk(t) \/ SweepFirst(t) \/ SweepSecond(t) \/ SweepDrop(t)

Runs(o) ==
    \/ GrantLock(o) \/ Create(o) \/ StartBatch(o) \/ Insert(o)
    \/ CloseWriter(o) \/ Drained(o) \/ Swap(o) \/ SwapFails(o)
    \/ DropStaging(o) \/ ReleaseLock(o)

Next ==
    \/ \E t \in Tabs : Sweeps(t) \/ SweepFails(t) \/ TabDies(t)
    \/ \E o \in Outputs :
          \/ Output(o) \/ Enqueue(o) \/ Close(o) \/ Abort(o)
          \/ Runs(o) \/ InsertSticks(o) \/ LateDrop(o)

Spec == Init /\ [][Next]_vars

(* The writer's chain, the sweep and close() go on by themselves. A caller  *)
(* whose write never answers has a deadline; nobody else has to abort.      *)
FairSpec ==
    /\ Spec
    /\ \A t \in Tabs : WF_vars(Sweeps(t))
    /\ \A o \in Outputs :
          WF_vars(Runs(o)) /\ WF_vars(out[o].w.stuck /\ Abort(o))

-----------------------------------------------------------------------------

(* Readers find the old target, or one that holds every row its output was  *)
(* given: no failed, skipped or aborted batch is swapped in.                *)
TargetWhole ==
    target.of # Old =>
        /\ target.rows = out[target.of].w.given
        /\ out[target.of].w.notWritten = 0

(* No sweep of any tab takes a staging table from under an output that is   *)
(* still filling it or about to swap it in.                                 *)
LiveIsSpared ==
    \A o \in Outputs :
        Alive(o) /\ out[o].created = "yes"
            /\ out[o].at \in {"open", "close", "drain", "swap"} => Exists(o)

(* A sweep that ran to its end leaves none of the tables whose tab was dead *)
(* when it began.                                                           *)
SweepCollects ==
    \A t \in Tabs : tab[t].alive /\ tab[t].swept = "yes" =>
        \A o \in tab[t].due : ~Exists(o)

(* The sweep takes the tables of dead tabs, all of them, and no other.      *)
SweepTakesOrphans == LiveIsSpared /\ SweepCollects

(* Every row the caller was not refused is in the table, reported as not    *)
(* written, or still in the writer: what SQLiteBulkWriteError reports adds  *)
(* up.                                                                      *)
RowsAccounted ==
    \A o \in Outputs :
        LET w == out[o].w
        IN /\ w.given = w.written + w.notWritten + w.rows + Queued(w)
           /\ w.queuedRows = Queued(w)
           /\ w.queuedRows < QueueSize + BatchRows

(* A producer parked on a full queue is let go, and close() settles, though *)
(* batches fail, are skipped, or never answer.                              *)
WritersEnd ==
    \A o \in Outputs :
        /\ out[o].w.room ~> ~out[o].w.room \/ ~Alive(o)
        /\ out[o].at = "close" ~> out[o].at \in {"ok", "rejected"} \/ ~Alive(o)
=============================================================================
