------------------------------ MODULE Lifecycle ------------------------------
(***************************************************************************)
(* The client's worker lifecycle (client.ts) with its restart policy        *)
(* (supervisor.ts): starting the pool, the startup verdict and its one      *)
(* retry round, deaths, restarts, losses, the fatal failure of the client,  *)
(* the connection lock with worker 0's probe, and close().                  *)
(*                                                                         *)
(* The client's own state is one record, c: handleDeath, the gate's         *)
(* callbacks and failClient call each other synchronously, so each is an    *)
(* operator from the record it finds to the record it leaves.  The          *)
(* scheduler is represented by its gate.                                    *)
(***************************************************************************)
EXTENDS Gate, Sequences

CONSTANTS
    MaxRestarts,    \* options.maxWorkerRestarts
    MaxCrashes,     \* bound on the workers that fail by themselves
    MaxTxThread,    \* bound: transactions begin on a slot's first threads only
    Environments    \* the settings a client may be made in, see Settings

(* How the VFS takes its connection lock; whether the browser refuses       *)
(* surplus workers; whether some pragmas write the database; and which      *)
(* inopportune deaths happen.  "stale": a transaction may report a worker   *)
(* that already died.  "closing": a worker may fail, or be so reported,     *)
(* after close() was called.                                                *)
Settings ==
    [connection : {"shared", "exclusive", "probed"},
     declining  : BOOLEAN,
     setup      : BOOLEAN,
     deaths     : SUBSET {"stale", "closing"}]

ASSUME LifecycleAssumption ==
    /\ MaxRestarts \in Nat
    /\ MaxCrashes \in Nat
    /\ MaxTxThread \in Nat
    /\ Environments \subseteq Settings

VARIABLES
    c,              \* the client's state
    phase,          \* how far close() has come
    swept,          \* the pool as close()'s sweep captured it
    tx,             \* the threads a transaction still owes a COMMIT or ROLLBACK
    crashes,        \* the workers that failed by themselves
    deaths          \* the same per slot, since a worker of it last served

vars == <<c, phase, swept, tx, crashes, deaths>>

(* A worker thread; a slot's threads are numbered in the order of spawn().  *)
ThreadStates == {"probing", "answered", "opening", "ready", "dead"}

Alive == ThreadStates \ {"dead"}

(* "none" once a client that failed or closed first has taken no lock.      *)
LockStates == {"undecided", "asked", "granted", "refused", "none", "released"}

SlotRecords ==                       \* the supervisor's Slot
    [everReady : BOOLEAN, alive : BOOLEAN, lost : BOOLEAN, restarts : Nat]

Clients ==
    [env       : Settings,
     gate      : Gates,
     inStartup : BOOLEAN,
     losses    : SUBSET Slots,       \* startupLosses
     thread    : [Slots -> Seq(ThreadStates)],
     pool      : [Slots -> Nat],     \* the thread in pool[i]; 0 is undefined
     sup       : [Slots -> SlotRecords],
     reported  : [Slots -> Nat],     \* calls of onWorkerLost
     size      : 1 .. PoolSize,      \* effectivePoolSize
     conn      : LockStates,         \* the connection lock
     probed    : BOOLEAN,            \* probeSettled
     granted   : BOOLEAN,            \* lockGranted
     fatal     : BOOLEAN,
     ready     : {"pending", "resolved", "rejected"}]

TypeOK ==
    /\ c \in Clients
    /\ phase \in {"open", "draining", "sweeping", "swept", "closed"}
    /\ swept \in [Slots -> Nat]
    /\ tx \subseteq Slots \X (Nat \ {0})
    /\ crashes \in 0 .. MaxCrashes
    /\ deaths \in [Slots -> Nat]

Closing == phase # "open"

-----------------------------------------------------------------------------
(***************************************************************************)
(* spawn, terminate and failClient                                          *)
(***************************************************************************)

(* Worker 0 probes first where an answer is owed and no lock is held yet.   *)
FirstState(d, i) ==
    IF i = 0 /\ d.env.connection = "probed" /\ ~d.granted THEN "probing"
    ELSE "opening"

(* Mutant: spawn() does not report, so a replacement stays counted dead.    *)
Spawned_Unreported(s) == s

(* supervisor.report(i, 'spawned')                                          *)
Spawned(s) == [s EXCEPT !.alive = @ \/ ~s.lost]

(* spawn() for every slot of I.                                             *)
Spawn(d, I) ==
    [d EXCEPT
        !.sup    = [i \in Slots |-> IF i \in I THEN Spawned(@[i]) ELSE @[i]],
        !.thread = [i \in Slots |->
                       IF i \in I THEN Append(@[i], FirstState(d, i)) ELSE @[i]],
        !.pool   = [i \in Slots |->
                       IF i \in I THEN Len(d.thread[i]) + 1 ELSE @[i]]]

(* terminate() of the workers in pool[i] for i in I.  It poisons the        *)
(* transport and reports nothing.                                           *)
Terminate(d, I) ==
    [d EXCEPT !.thread =
        [i \in Slots |-> [n \in 1 .. Len(@[i]) |->
            IF i \in I /\ n = d.pool[i] THEN "dead" ELSE @[i][n]]]]

Released(l) == IF l = "granted" THEN "released" ELSE l

FailClient(d) ==
    [Terminate(d, Slots) EXCEPT
        !.fatal  = TRUE,
        !.probed = TRUE,
        !.conn   = Released(@),
        !.ready  = IF @ = "pending" THEN "rejected" ELSE @,
        !.gate   = RejectGate(@)]

(* emitWorkerLost() for every slot of I.                                    *)
EmitWorkerLost(d, I) ==
    [d EXCEPT !.reported = [i \in Slots |-> IF i \in I THEN @[i] + 1 ELSE @[i]]]

-----------------------------------------------------------------------------
(***************************************************************************)
(* The gate's callbacks                                                     *)
(***************************************************************************)

Live(sup) == {i \in Slots : sup[i].alive}

(* supervisor.report(i, 'lost'), and 'retired', which only differ in what   *)
(* they answer.                                                             *)
Lost(s) == [s EXCEPT !.alive = FALSE, !.lost = @ \/ s.alive]

(* startupLosses.delete(i): a slot that recovered in the retry round.       *)
Recovered(losses, i) == losses \ {i}

(* Slot 0 is gone and nobody will answer its probe: connLockPromise would   *)
(* never settle.                                                            *)
AnswerLost(d, i) == i = 0 /\ ~d.probed

(* Mutant: a startup that failed everywhere announces no loss.              *)
FailStartup_Quiet(d) ==
    FailClient([d EXCEPT !.inStartup = FALSE, !.losses = {}])

(* Nothing opened: every loss is announced, then the client fails.          *)
FailStartup(d) ==
    FailClient([EmitWorkerLost(d, d.losses) EXCEPT !.inStartup = FALSE,
                                                   !.losses = {}])

(* The pool as the startup losses leave it, each announced.                 *)
StartupOver(d) ==
    [EmitWorkerLost(d, d.losses) EXCEPT
        !.inStartup = FALSE,
        !.losses = {},
        !.sup = [i \in Slots |-> IF i \in d.losses THEN Lost(@[i]) ELSE @[i]]]

StartupFailed(d, e) ==
    \/ Live(e.sup) = {} /\ Live(d.sup) # {}
    \/ \E i \in d.losses : AnswerLost(d, i)
    \/ \A i \in Slots : d.pool[i] = 0

(* readyDeferred.resolve(), put off where pragmas are still to be applied.  *)
Resolved(d) ==
    [d EXCEPT !.ready = IF @ = "pending" /\ ~d.env.setup THEN "resolved" ELSE @]

OnGateOpen(d) ==
    LET e == StartupOver(d) IN
    Resolved(IF StartupFailed(d, e) THEN FailClient(e) ELSE e)

(* settleGateSlot with the callbacks it makes before it returns.            *)
Settle(d, i, how) ==
    LET g == SettleGateSlot(d.gate, i, how)
        e == [d EXCEPT !.gate = g]
    IN CASE g.fired /\ ~d.gate.fired /\ g.opened = {} -> FailStartup(e)
         [] d.gate.state = "closed" /\ g.state = "open" -> OnGateOpen(e)
         [] OTHER -> Spawn(e, Rearmed(d.gate, g))

-----------------------------------------------------------------------------
(***************************************************************************)
(* handleDeath                                                              *)
(***************************************************************************)

(* A slot counted as dead already reports nothing more.                     *)
Repeated(s) == ~s.alive

(* Mutant: one restart too few.                                             *)
MayRestart_OffByOne(s) == s.everReady /\ s.restarts + 1 < MaxRestarts

MayRestart(s) == s.everReady /\ s.restarts < MaxRestarts

(* supervisor.report(i, 'died') and what the client does about it.          *)
Judge(d, i) ==
    LET s == d.sup[i]
        restarted == [d EXCEPT !.sup[i].alive = FALSE, !.sup[i].restarts = @ + 1]
        lost == EmitWorkerLost([d EXCEPT !.sup[i] = Lost(s)], {i})
    IN CASE Repeated(s) -> d
         [] ~Repeated(s) /\ MayRestart(s) -> Spawn(restarted, {i})
         [] OTHER -> IF Live(lost.sup) = {} \/ AnswerLost(d, i)
                     THEN FailClient(lost) ELSE lost

HandleDeath(d, i) ==
    LET e == [Terminate(d, {i}) EXCEPT
                 !.pool[i] = 0,
                 !.losses  = IF d.inStartup THEN @ \cup {i} ELSE @]
        f == Settle(e, i, "failed")
    IN IF d.inStartup THEN f ELSE Judge(f, i)

(* The thread n of slot i failed by itself and is reported.                 *)
Died(d, i, n) == HandleDeath([d EXCEPT !.thread[i][n] = "dead"], i)

-----------------------------------------------------------------------------
(***************************************************************************)
(* What workers do                                                          *)
(***************************************************************************)

Threads == UNION {{i} \X (1 .. Len(c.thread[i])) : i \in Slots}

State(t) == c.thread[t[1]][t[2]]

(* Only surplus workers decline.                                            *)
MayDecline(i) == c.env.declining /\ i # 0

(* 'ready': the slot joins the scheduler.                                   *)
Ready(t) ==
    LET i == t[1]
        s == c.sup[i]
    IN
    /\ State(t) = "opening"
    /\ ~MayDecline(i)
    /\ c' = Settle([c EXCEPT
                !.thread[i][t[2]] = "ready",
                !.sup[i] = IF s.lost THEN s
                           ELSE [s EXCEPT !.everReady = TRUE, !.alive = TRUE],
                !.losses = Recovered(@, i)], i, "opened")
    /\ UNCHANGED <<phase, swept, tx, crashes, deaths>>

(* 'declined': retireSlot.                                                  *)
Decline(t) ==
    LET i == t[1]
        d == [Terminate(c, {i}) EXCEPT
                 !.losses = Recovered(@, i),
                 !.sup[i] = Lost(@),
                 !.pool[i] = IF Closing THEN @ ELSE 0,
                 !.size    = IF Closing THEN @ ELSE @ - 1]
    IN
    /\ State(t) = "opening"
    /\ MayDecline(i)
    /\ c' = Settle(d, i, "declined")
    /\ UNCHANGED <<phase, swept, tx, crashes, deaths>>

Opportune == Closing => "closing" \in c.env.deaths

MayFail == crashes < MaxCrashes /\ Opportune

(* A worker fails by itself: an open error, an expired openTimeout or       *)
(* drainTimeout, or a crash.                                                *)
Crash(t) ==
    /\ State(t) \in Alive
    /\ MayFail
    /\ crashes' = crashes + 1
    /\ deaths' = [deaths EXCEPT ![t[1]] = @ + 1]
    /\ c' = Died(c, t[1], t[2])
    /\ UNCHANGED <<phase, swept, tx>>

(* A statement of the consumer completed: supervisor.report(i, 'served').   *)
Serve(t) ==
    /\ State(t) = "ready"
    /\ c.sup[t[1]].alive
    /\ c' = [c EXCEPT !.sup[t[1]].restarts = 0]
    /\ deaths' = [deaths EXCEPT ![t[1]] = 0]
    /\ UNCHANGED <<phase, swept, tx, crashes>>

(* A transaction begins on a worker the scheduler leased to it.             *)
Begin(t) ==
    /\ State(t) = "ready"
    /\ t[2] <= MaxTxThread
    /\ c.pool[t[1]] = t[2]
    /\ ~Closing
    /\ c.conn = "granted"
    /\ c.ready = "resolved"
    /\ t \notin tx
    /\ tx' = tx \cup {t}
    /\ UNCHANGED <<c, phase, swept, crashes, deaths>>

(* It ends, with nothing owed to the connection any more.                   *)
End(t) ==
    /\ t \in tx
    /\ tx' = tx \ {t}
    /\ UNCHANGED <<c, phase, swept, crashes, deaths>>

(* Its ROLLBACK failed, and onPoisoned names the slot, not the worker.  The *)
(* worker may have died, and been replaced, already.                        *)
Poison(t) ==
    /\ t \in tx
    /\ tx' = tx \ {t}
    /\ \/ /\ State(t) = "ready"
          /\ MayFail
          /\ crashes' = crashes + 1
          /\ deaths' = [deaths EXCEPT ![t[1]] = @ + 1]
       \/ /\ State(t) = "dead"
          /\ "stale" \in c.env.deaths /\ Opportune
          /\ UNCHANGED <<crashes, deaths>>
    /\ c' = HandleDeath(c, t[1])
    /\ UNCHANGED <<phase, swept>>

-----------------------------------------------------------------------------
(***************************************************************************)
(* The connection lock                                                      *)
(***************************************************************************)

(* Worker 0 answers the probe; it opens once the lock is ours too.          *)
Probed(t) ==
    /\ State(t) = "probing"
    /\ c' = [c EXCEPT
                !.thread[0][t[2]] =
                    IF c.granted /\ ~Closing THEN "opening" ELSE "answered",
                !.probed = TRUE]
    /\ UNCHANGED <<phase, swept, tx, crashes, deaths>>

(* Another client of the realm answered for the same features.              *)
ProbedElsewhere ==
    /\ ~c.probed
    /\ c' = [c EXCEPT !.probed = TRUE]
    /\ UNCHANGED <<phase, swept, tx, crashes, deaths>>

(* connLockPromise where the mode depends on the answer: a client that      *)
(* failed or closed first takes no lock.                                    *)
AskLock ==
    /\ c.conn = "undecided"
    /\ c.probed
    /\ c' = [c EXCEPT !.conn = IF c.fatal \/ Closing THEN "none" ELSE "asked"]
    /\ UNCHANGED <<phase, swept, tx, crashes, deaths>>

(* startWorkers(), once an exclusive lock is ours.  Mutant: a closing       *)
(* client starts its workers all the same.                                  *)
StartWorkers_WhenClosing(d) == Spawn(d, Slots)

StartWorkers(d) == IF Closing THEN d ELSE Spawn(d, Slots)

(* maybeProceed                                                             *)
Proceed(d) ==
    [d EXCEPT !.granted = TRUE,
              !.thread[0] = [n \in 1 .. Len(@) |->
                  IF @[n] = "answered" /\ ~Closing THEN "opening" ELSE @[n]]]

(* What the client does with a lock it got.                                 *)
Granted(d) ==
    CASE d.env.connection = "shared"    -> d
      [] d.env.connection = "exclusive" -> StartWorkers(d)
      [] d.env.connection = "probed"    -> Proceed(d)

(* A client refused an exclusive lock fails.  Mutant: it is left waiting.   *)
Refused_Waits(d) == d

Refused(d) == FailClient(d)

(* The lock request settles; a client that failed meanwhile keeps nothing.  *)
LockTaken ==
    /\ c.conn = "asked"
    /\ \/ c.fatal /\ c' = [c EXCEPT !.conn = "none"]
       \/ ~c.fatal /\ c' = Granted([c EXCEPT !.conn = "granted"])
       \/ /\ ~c.fatal /\ c.env.connection # "shared"
          /\ c' = Refused([c EXCEPT !.conn = "refused"])
    /\ UNCHANGED <<phase, swept, tx, crashes, deaths>>

(* databaseSetup: the pragmas that write the database are applied through   *)
(* the write path, once the gate is open and the lock is ours.              *)
SettingUp ==
    /\ c.env.setup
    /\ c.gate.state = "open"
    /\ c.ready = "pending"
    /\ c.conn = "granted"

SetupApplied ==
    /\ SettingUp
    /\ \E i \in Slots : c.pool[i] # 0 /\ c.thread[i][c.pool[i]] = "ready"
    /\ c' = [c EXCEPT !.ready = "resolved"]
    /\ UNCHANGED <<phase, swept, tx, crashes, deaths>>

(* A pragma failed, or the worker that ran it died.                         *)
SetupFails ==
    /\ SettingUp
    /\ c' = FailClient(c)
    /\ UNCHANGED <<phase, swept, tx, crashes, deaths>>

-----------------------------------------------------------------------------
(***************************************************************************)
(* close()                                                                  *)
(***************************************************************************)

(* What close() does before its first await: probeAnswer, readyDeferred and *)
(* shutdown().                                                              *)
FrontDoor(d) ==
    [d EXCEPT !.probed = TRUE,
              !.ready = IF @ = "pending" THEN "rejected" ELSE @,
              !.gate = RejectGate(@)]

Close ==
    /\ phase = "open"
    /\ phase' = "draining"
    /\ c' = FrontDoor(c)
    /\ UNCHANGED <<swept, tx, crashes, deaths>>

(* The leases came back, or drainTimeout expired: the sweep takes the pool  *)
(* as it is now.                                                            *)
Sweep ==
    /\ phase = "draining"
    /\ phase' = "sweeping"
    /\ swept' = c.pool
    /\ UNCHANGED <<c, tx, crashes, deaths>>

(* A captured worker answered `closed', died, or drainTimeout expired.      *)
CloseWorker(i) ==
    /\ phase = "sweeping"
    /\ swept[i] # 0
    /\ c' = [c EXCEPT !.thread[i][swept[i]] = "dead"]
    /\ swept' = [swept EXCEPT ![i] = 0]
    /\ UNCHANGED <<phase, tx, crashes, deaths>>

(* pool.length = 0                                                          *)
ClearPool ==
    /\ phase = "sweeping"
    /\ \A i \in Slots : swept[i] = 0
    /\ phase' = "swept"
    /\ c' = [c EXCEPT !.pool = [i \in Slots |-> 0]]
    /\ UNCHANGED <<swept, tx, crashes, deaths>>

(* The connection lock, once settled, is released.                          *)
Closed ==
    /\ phase = "swept"
    /\ c.conn \notin {"undecided", "asked"}
    /\ phase' = "closed"
    /\ c' = [c EXCEPT !.conn = Released(@)]
    /\ UNCHANGED <<swept, tx, crashes, deaths>>

-----------------------------------------------------------------------------
NewClient(e) ==
    [env       |-> e,
     gate      |-> ClosedGate,
     inStartup |-> TRUE,
     losses    |-> {},
     thread    |-> [i \in Slots |-> <<>>],
     pool      |-> [i \in Slots |-> 0],
     sup       |-> [i \in Slots |-> [everReady |-> FALSE, alive |-> TRUE,
                                     lost |-> FALSE, restarts |-> 0]],
     reported  |-> [i \in Slots |-> 0],
     size      |-> PoolSize,
     conn      |-> IF e.connection = "probed" THEN "undecided" ELSE "asked",
     probed    |-> e.connection # "probed",
     granted   |-> FALSE,
     fatal     |-> FALSE,
     ready     |-> "pending"]

(* startWorkers(), deferred where the lock is exclusive.                    *)
Init ==
    /\ \E e \in Environments :
          c = IF e.connection = "exclusive" THEN NewClient(e)
              ELSE Spawn(NewClient(e), Slots)
    /\ phase = "open"
    /\ swept = [i \in Slots |-> 0]
    /\ tx = {}
    /\ crashes = 0
    /\ deaths = [i \in Slots |-> 0]

Next ==
    \/ \E t \in Threads :
          Ready(t) \/ Decline(t) \/ Crash(t) \/ Serve(t) \/ Begin(t) \/ End(t)
          \/ Poison(t) \/ Probed(t)
    \/ ProbedElsewhere \/ AskLock \/ LockTaken \/ SetupApplied \/ SetupFails
    \/ Close \/ Sweep \/ (\E i \in Slots : CloseWorker(i)) \/ ClearPool \/ Closed

Spec == Init /\ [][Next]_vars

(***************************************************************************)
(* Fairness: every worker answers its open and its probe, unless it fails;  *)
(* the lock manager answers, and the promise chains of startup and close()  *)
(* run.  Each wait on a worker is bounded by openTimeout or drainTimeout.   *)
(***************************************************************************)
Fairness ==
    /\ WF_vars(\E t \in Threads : Ready(t) \/ Decline(t))
    /\ WF_vars(\E t \in Threads : Probed(t))
    /\ WF_vars(AskLock) /\ WF_vars(LockTaken) /\ WF_vars(SetupApplied)
    /\ WF_vars(Sweep) /\ WF_vars(\E i \in Slots : CloseWorker(i))
    /\ WF_vars(ClearPool) /\ WF_vars(Closed)

FairSpec == Spec /\ Fairness

-----------------------------------------------------------------------------
(***************************************************************************)
(* Properties                                                               *)
(***************************************************************************)

LiveThread(i) == \E n \in 1 .. Len(c.thread[i]) : c.thread[i][n] \in Alive

(* Past startup, and neither failed nor closing.                            *)
Running == ~c.inStartup /\ ~c.fatal /\ ~Closing

(* The pool array still names the workers: close() has not emptied it.      *)
PoolKept == phase \notin {"swept", "closed"}

(* The pool is never "empty and silent": a running client has a worker that *)
(* serves or is about to.                                                   *)
NeverSilentlyEmpty ==
    Running => \E i \in Slots : c.pool[i] # 0 /\ LiveThread(i)

(* "Called when a worker is lost for good": a slot that was announced never *)
(* lives again, and is announced once.                                      *)
LossIsFinal ==
    \A i \in Slots : /\ c.reported[i] <= 1
                     /\ c.reported[i] = 1 /\ PoolKept => ~LiveThread(i)

(* No quiet loss: past startup, a slot without a worker has been announced, *)
(* unless the environment declined it.                                      *)
NoQuietLoss ==
    ~c.inStartup /\ ~Closing =>
        \A i \in Slots : c.pool[i] = 0 =>
            c.reported[i] = 1 \/ i \in c.gate.declined

(* onWorkerLost is called for exactly the slots that are lost for good:     *)
(* whichever signals about one death arrive, and however startup, the retry *)
(* round and the failure of the client follow each other.                   *)
LossesAnnounced == LossIsFinal /\ NoQuietLoss

(* maxWorkerRestarts is "how many times a slot may be restarted after it    *)
(* dies": past startup, a slot is given up only after that many restarts    *)
(* and one more death, counted from the last worker that served - unless a  *)
(* transaction reports a worker that was dead already, which is charged to  *)
(* its replacement.                                                         *)
BudgetHonoured ==
    [][\A i \in Slots :
          "stale" \notin c.env.deaths /\ ~c.inStartup /\ ~c.sup[i].lost /\ c'.sup[i].lost
              => deaths'[i] > MaxRestarts]_vars

(* close() settles "once every worker has closed and been terminated": no   *)
(* thread outlives it, unless one died, or a transaction reported one that  *)
(* had, while it was closing, and is replaced.                              *)
NoOrphan ==
    phase = "closed" /\ "closing" \notin c.env.deaths =>
        \A i \in Slots : ~LiveThread(i)

(* client.ready settles.                                                    *)
ReadySettles == <>(c.ready # "pending")

(* No method waits for ever on the connection lock: the answer it depends   *)
(* on comes, or the client fails, whatever happens to worker 0.             *)
LockDecided == <>(c.conn \notin {"undecided", "asked"})

(* close() always settles.                                                  *)
CloseEnds == Closing ~> phase = "closed"

(* Nothing the client promises to settle waits for ever, whichever workers  *)
(* die, when they die and how often they are reported.                      *)
ClientSettles == ReadySettles /\ LockDecided /\ CloseEnds
=============================================================================
