------------------------------- MODULE Epochs -------------------------------
(***************************************************************************)
(* The commit epoch and its barrier (epochs.ts, and applyBarrier, afterWrite *)
(* and the write path of client.ts): how a connection comes to see what any  *)
(* other connection of the origin has committed.                             *)
(*                                                                         *)
(* A realm is a tab.  Its clients share one counter, the cell, and publish   *)
(* it as the name of a held Web Lock, the marker.  A worker is a connection: *)
(* it sees its own commits, and everybody's once a barrier statement has run *)
(* on it.  An operation is a read or a write on a worker the scheduler has   *)
(* leased to it, from the call to the return of the lease.                   *)
(***************************************************************************)
EXTENDS Integers, Sequences, FiniteSetsExt

CONSTANTS
    Realms,         \* the tabs of the origin
    PoolSize,       \* the workers of each tab, at most
    MaxWrites,      \* bound on the writes called
    Settings        \* what may happen in one behaviour, see EpochsAssumption

Workers == UNION {{r} \X (1 .. PoolSize[r]) : r \in Realms}

(* A setting: the workers that are not there, the writes called at most,    *)
(* and the failures that may happen.                                        *)
(* "publish": the marker's lock request is rejected.  "realm": a tab goes   *)
(* away, and the browser releases its locks.  "late": the statement of an   *)
(* aborted write still commits before its worker is idle.  "crash": a       *)
(* worker dies.                                                             *)
ASSUME EpochsAssumption ==
    /\ PoolSize \in [Realms -> Nat]
    /\ MaxWrites \in Nat
    /\ Settings \subseteq
          [absent : SUBSET Workers, writes : 0 .. MaxWrites,
           faults : SUBSET {"publish", "realm", "late", "crash"}]

VARIABLES
    setting,        \* fixed
    log,            \* the database file: the realm of each commit, in order
    cell,           \* the realm's epoch
    markers,        \* the epochs whose markers the realm holds
    lock,           \* the worker whose write holds the origin's write lock
    op,             \* the operation on a worker
    seen,           \* worker.seen
    view,           \* the commits the connection has observed
    late,           \* workers still busy with the statement of an aborted write
    done,           \* the commits whose write has resolved to its caller
    writes          \* the writes called

fileVars  == <<log, done, writes>>
realmVars == <<cell, markers>>
vars      == <<setting, fileVars, realmVars, lock, op, seen, view, late>>

RealmOf(w) == w[1]

Nobody == <<>>

Commits == 1 .. MaxWrites

(* An operation: how far it has come and what it is; worker.epochTarget,    *)
(* which every operation sets anew; what originMax() answered; the epoch of *)
(* its own write; the commit it made and was told of, or 0; and the commits *)
(* resolved when it was called.                                             *)
Operations ==
    [pc : {"idle", "locking", "asking", "answered", "barrier", "absorbed",
           "running", "wrote", "publishing", "held", "published",
           "releasing", "gone"},
     kind : {"read", "write", "abandoned"},
     target : Nat, origin : Nat, next : Nat,
     made : {0} \cup Commits, owed : SUBSET Commits]

Idle == [pc |-> "idle", kind |-> "read", target |-> 0, origin |-> 0,
         next |-> 0, made |-> 0, owed |-> {}]

TypeOK ==
    /\ setting \in Settings
    /\ log \in Seq(Realms)
    /\ Len(log) <= writes
    /\ cell \in [Realms -> 0 .. writes]
    /\ markers \in [Realms -> SUBSET Nat]
    /\ lock \in Workers \cup {Nobody}
    /\ op \in [Workers -> Operations]
    /\ seen \in [Workers -> Nat \cup {-1}]
    /\ view \in [Workers -> SUBSET Commits]
    /\ late \in SUBSET Workers
    /\ done \in SUBSET Commits
    /\ writes \in 0 .. MaxWrites

(* A new worker starts at seen = -1: it is behind every epoch.              *)
Init ==
    /\ setting \in Settings
    /\ log = <<>>
    /\ cell = [r \in Realms |-> 0]
    /\ markers = [r \in Realms |-> {}]
    /\ lock = Nobody
    /\ op = [w \in Workers |->
          IF w \in setting.absent THEN [Idle EXCEPT !.pc = "gone"] ELSE Idle]
    /\ seen = [w \in Workers |-> -1]
    /\ view = [w \in Workers |-> {}]
    /\ late = {}
    /\ done = {}
    /\ writes = 0

-----------------------------------------------------------------------------
(***************************************************************************)
(* acquireLease: the write lock before the lease, then the barrier          *)
(***************************************************************************)

At(w, step) == op[w].pc = step

Goto(w, step) == op' = [op EXCEPT ![w].pc = step]

(* The operation is over, and with it its locals.                           *)
Return(w) == op' = [op EXCEPT ![w] = Idle]

Unlocked(w) == IF lock = w THEN Nobody ELSE lock

Call(w, k) ==
    /\ At(w, "idle")
    /\ k = "write" => writes < setting.writes
    /\ writes' = IF k = "write" THEN writes + 1 ELSE writes
    /\ op' = [op EXCEPT ![w] = [Idle EXCEPT
                !.pc = IF k = "write" THEN "locking" ELSE "asking",
                !.kind = k,
                !.owed = done]]
    /\ UNCHANGED <<log, done, realmVars, lock, seen, view, late>>

(* locks.hold(writeLock)                                                    *)
LockWrite(w) ==
    /\ At(w, "locking")
    /\ lock = Nobody
    /\ lock' = w
    /\ Goto(w, "asking")
    /\ UNCHANGED <<fileVars, realmVars, seen, view, late>>

(* The highest epoch published in the origin.                               *)
MaxEpochIn(held) == Max({0} \cup UNION {held[r] : r \in Realms})

(* originMax(): a snapshot of the lock registry, on its way back.           *)
AskOrigin(w) ==
    /\ At(w, "asking")
    /\ op' = [op EXCEPT ![w].origin = MaxEpochIn(markers),
                        ![w].pc = "answered"]
    /\ UNCHANGED <<fileVars, realmVars, lock, seen, view, late>>

RaisedTo(c, n) == IF n > c THEN n ELSE c

NeedsBarrier(s, t) == s < t

(* What follows the barrier: the statement, or, when the caller has left,   *)
(* the return of the lease.                                                 *)
PastBarrier(o) ==
    IF o.kind = "abandoned" THEN Idle ELSE [o EXCEPT !.pc = "running"]

(* The answer is in: the target is fixed before the barrier statement, and  *)
(* a worker that has seen it needs none.                                    *)
AimBarrier(w) ==
    LET t     == RaisedTo(cell[RealmOf(w)], op[w].origin)
        aimed == [op[w] EXCEPT !.target = t, !.pc = "barrier"]
    IN
    /\ At(w, "answered")
    /\ cell' = [cell EXCEPT ![RealmOf(w)] = t]
    /\ op' = [op EXCEPT ![w] = IF NeedsBarrier(seen[w], t) THEN aimed
                               ELSE PastBarrier(aimed)]
    /\ UNCHANGED <<fileVars, markers, lock, seen, view, late>>

(* The barrier statement runs on the connection.                            *)
RunBarrier(w) ==
    /\ At(w, "barrier")
    /\ view' = [view EXCEPT ![w] = DOMAIN log]
    /\ Goto(w, "absorbed")
    /\ UNCHANGED <<fileVars, realmVars, lock, seen, late>>

(* What the barrier has shown.  Mutant: the epoch of the moment it ends.    *)
Absorbed_AtEnd(w) == RaisedTo(cell[RealmOf(w)], MaxEpochIn(markers))

Absorbed(w) == op[w].target

EndBarrier(w) ==
    /\ At(w, "absorbed")
    /\ seen' = [seen EXCEPT ![w] = Absorbed(w)]
    /\ op' = [op EXCEPT ![w] = PastBarrier(@)]
    /\ UNCHANGED <<fileVars, realmVars, lock, view, late>>

(* The caller's signal fires during the barrier: the write lock goes back   *)
(* at once, the worker only once the barrier has ended.                     *)
AbandonBarrier(w) ==
    /\ op[w].pc \in {"asking", "answered", "barrier", "absorbed"}
    /\ op[w].kind # "abandoned"
    /\ lock' = Unlocked(w)
    /\ op' = [op EXCEPT ![w].kind = "abandoned"]
    /\ UNCHANGED <<fileVars, realmVars, seen, view, late>>

(* The wait for the write lock or for the lease is aborted, or the barrier  *)
(* statement fails, which leaves the worker marked behind.                  *)
GiveUp(w) ==
    /\ op[w].pc \in {"locking", "asking", "barrier"}
    /\ lock' = Unlocked(w)
    /\ Return(w)
    /\ UNCHANGED <<fileVars, realmVars, seen, view, late>>

-----------------------------------------------------------------------------
(***************************************************************************)
(* The statement                                                            *)
(***************************************************************************)

(* A read is answered from what its connection has observed.                *)
Read(w) ==
    /\ At(w, "running")
    /\ op[w].kind = "read"
    /\ Return(w)
    /\ UNCHANGED <<fileVars, realmVars, lock, seen, view, late>>

(* The connection of w commits.                                             *)
Committed(w) ==
    /\ log' = Append(log, RealmOf(w))
    /\ view' = [view EXCEPT ![w] = @ \cup {Len(log) + 1}]

(* A write runs and commits.                                                *)
Write(w) ==
    /\ At(w, "running")
    /\ op[w].kind = "write"
    /\ Committed(w)
    /\ op' = [op EXCEPT ![w].pc = "wrote", ![w].made = Len(log) + 1]
    /\ UNCHANGED <<done, writes, realmVars, lock, seen, late>>

(* A write fails, or is aborted and over for its caller, while its worker   *)
(* may go on with the statement until quiesce() has seen it idle.           *)
FailWrite(w) ==
    /\ At(w, "running")
    /\ op[w].kind = "write"
    /\ late' \in {late} \cup (IF "late" \in setting.faults THEN {late \cup {w}} ELSE {})
    /\ Goto(w, "wrote")
    /\ UNCHANGED <<fileVars, realmVars, lock, seen, view>>

LateCommit(w) ==
    /\ w \in late
    /\ Committed(w)
    /\ late' = late \ {w}
    /\ UNCHANGED <<done, writes, realmVars, lock, op, seen>>

(* advanceSeen: a worker that was current, and whose commit is the very     *)
(* next one, stays current.                                                 *)
AdvanceSeen(s, t, n) == IF s = t /\ n = t + 1 THEN n ELSE s

Bumped(w) == cell[RealmOf(w)] + 1

(* afterWrite, up to its first await: the bump, whether or not the write    *)
(* succeeded.                                                               *)
AfterWrite(w) ==
    LET n == Bumped(w) IN
    /\ At(w, "wrote")
    /\ cell' = [cell EXCEPT ![RealmOf(w)] = n]
    /\ op' = [op EXCEPT ![w].pc = "publishing", ![w].next = n]
    /\ seen' = [seen EXCEPT ![w] = AdvanceSeen(@, op[w].target, n)]
    /\ UNCHANGED <<fileVars, markers, lock, view, late>>

-----------------------------------------------------------------------------
(***************************************************************************)
(* publish(): the new marker before the old one is released                 *)
(***************************************************************************)

(* The markers of a realm while it publishes n.  Mutant: the old one is     *)
(* released first.                                                          *)
Publishing_OldFirst(held, n) == {}

Publishing(held, n) == held \cup {n}

HoldMarker(w) ==
    /\ At(w, "publishing")
    /\ markers' = [markers EXCEPT ![RealmOf(w)] = Publishing(@, op[w].next)]
    /\ Goto(w, "held")
    /\ UNCHANGED <<fileVars, cell, lock, seen, view, late>>

SwapMarker(w) ==
    /\ At(w, "held")
    /\ markers' = [markers EXCEPT ![RealmOf(w)] = {op[w].next}]
    /\ Goto(w, "published")
    /\ UNCHANGED <<fileVars, cell, lock, seen, view, late>>

(* The request is rejected, which is logged and goes no further.            *)
PublishFails(w) ==
    /\ "publish" \in setting.faults
    /\ At(w, "publishing")
    /\ Goto(w, "published")
    /\ UNCHANGED <<fileVars, realmVars, lock, seen, view, late>>

(* The write resolves to its caller once it is published.  Mutant: as soon  *)
(* as the epoch is bumped.                                                  *)
Resolves_Unpublished(step) == step \in {"publishing", "published"}

Resolves(step) == step = "published"

Resolve(w) ==
    /\ Resolves(op[w].pc)
    /\ done' = done \cup ({op[w].made} \ {0})
    /\ Goto(w, "releasing")
    /\ UNCHANGED <<log, writes, realmVars, lock, seen, view, late>>

(* quiesce() has seen the worker idle: the lease and the write lock go back.*)
Release(w) ==
    /\ At(w, "releasing")
    /\ lock' = Unlocked(w)
    /\ late' = late \ {w}
    /\ Return(w)
    /\ UNCHANGED <<fileVars, realmVars, seen, view>>

-----------------------------------------------------------------------------
(***************************************************************************)
(* Failures                                                                 *)
(***************************************************************************)

InStatement(w) == At(w, "running") /\ op[w].kind = "write"

PastStatement(w) ==
    op[w].pc \in {"wrote", "publishing", "held", "published", "releasing"}

(* The worker dies and its slot is given a new connection.  A write that    *)
(* was running has committed or not, and still bumps; one past its          *)
(* statement goes on publishing; any other operation rejects.               *)
Crash(w) ==
    /\ "crash" \in setting.faults
    /\ ~At(w, "gone")
    /\ seen' = [seen EXCEPT ![w] = -1]
    /\ view' = [view EXCEPT ![w] = {}]
    /\ late' = late \ {w}
    /\ \/ /\ InStatement(w)
          /\ log' \in {log, Append(log, RealmOf(w))}
          /\ Goto(w, "wrote")
          /\ UNCHANGED lock
       \/ /\ PastStatement(w)
          /\ UNCHANGED <<log, op, lock>>
       \/ /\ ~InStatement(w) /\ ~PastStatement(w)
          /\ lock' = Unlocked(w)
          /\ Return(w)
          /\ UNCHANGED log
    /\ UNCHANGED <<done, writes, realmVars>>

(* The tab goes away: its connections, its locks and its counter with it.   *)
RealmDies(r) ==
    LET its == {w \in Workers : RealmOf(w) = r} IN
    /\ "realm" \in setting.faults
    /\ \E w \in its : ~At(w, "gone")
    /\ op' = [w \in Workers |-> IF w \in its THEN [Idle EXCEPT !.pc = "gone"]
                                ELSE op[w]]
    /\ seen' = [w \in Workers |-> IF w \in its THEN -1 ELSE seen[w]]
    /\ view' = [w \in Workers |-> IF w \in its THEN {} ELSE view[w]]
    /\ late' = late \ its
    /\ cell' = [cell EXCEPT ![r] = 0]
    /\ markers' = [markers EXCEPT ![r] = {}]
    /\ lock' = IF lock \in its THEN Nobody ELSE lock
    /\ UNCHANGED fileVars

-----------------------------------------------------------------------------
Next ==
    /\ UNCHANGED setting
    /\ \/ \E w \in Workers :
             \/ \E k \in {"read", "write"} : Call(w, k)
             \/ LockWrite(w) \/ AskOrigin(w) \/ AimBarrier(w)
             \/ RunBarrier(w) \/ EndBarrier(w) \/ AbandonBarrier(w) \/ GiveUp(w)
             \/ Read(w) \/ Write(w) \/ FailWrite(w) \/ LateCommit(w)
             \/ AfterWrite(w) \/ HoldMarker(w) \/ SwapMarker(w) \/ PublishFails(w)
             \/ Resolve(w) \/ Release(w) \/ Crash(w)
       \/ \E r \in Realms : RealmDies(r)

Spec == Init /\ [][Next]_vars

-----------------------------------------------------------------------------
(***************************************************************************)
(* Properties                                                               *)
(***************************************************************************)

(* Neither a publication, a tab nor an aborted statement comes in the way.  *)
OnlyCrashes == setting.faults \subseteq {"crash"}

FreshAcrossRealms ==
    \A w \in Workers : At(w, "running") => op[w].owed \subseteq view[w]

FreshWithinRealm ==
    \A w \in Workers :
        At(w, "running") =>
            {c \in op[w].owed : log[c] = RealmOf(w)} \subseteq view[w]

(* Read-your-writes: when the statement of an operation runs, its           *)
(* connection has observed every commit whose write had resolved when the   *)
(* operation was called. Across tabs the markers see to it; within a tab    *)
(* the cell alone does, whatever becomes of the markers, of the other tabs  *)
(* and of statements that commit late.                                      *)
Fresh == FreshWithinRealm /\ (OnlyCrashes => FreshAcrossRealms)

(* "Marking a connection current when it is not is the only class of bug    *)
(* this design must make impossible": with no write under way, a worker     *)
(* that would skip the barrier has observed every commit.                   *)
CurrentIsCurrent ==
    \A w \in Workers :
        /\ lock = Nobody
        /\ At(w, "idle")
        /\ ~NeedsBarrier(seen[w], RaisedTo(cell[RealmOf(w)], MaxEpochIn(markers)))
        => view[w] = DOMAIN log

(* The same where every commit's epoch is published after it and stays      *)
(* published: deaths of workers at any step mark no connection current.     *)
MarkedIsCurrent == OnlyCrashes => CurrentIsCurrent

(* "New before old, always: `max` must never dip between the two": while    *)
(* its tabs live, the epoch a tab can learn from the origin never goes      *)
(* back.                                                                    *)
OriginNeverDips ==
    [][(\A w \in Workers : ~At(w, "gone") => op'[w].pc # "gone")
          => MaxEpochIn(markers') >= MaxEpochIn(markers)]_vars
=============================================================================
