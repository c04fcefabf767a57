------------------------------ MODULE Scheduler ------------------------------
(***************************************************************************)
(* The worker scheduler of scheduler.ts: availability, the three wait       *)
(* queues, the write designation, leases, and shutdown.                     *)
(*                                                                         *)
(* An action is one synchronous block of the code.  A waiter that is served *)
(* is only resolved: its lease is made by makeLease, one microtask later.   *)
(* Between the two the worker is in neither `available' nor `leased', and   *)
(* the request is in state "granted".  Interrupts says which calls may land *)
(* in that window.                                                          *)
(***************************************************************************)
EXTENDS Gate, Sequences

CONSTANTS
    Requests,       \* acquire() calls; each is made at most once
    Designable,     \* the slots canDesignateWriter accepts
    MaxGen,         \* bound on the removals of one slot
    Interrupts      \* the calls that may land between a grant and its lease

ASSUME SchedulerAssumption ==
    /\ Designable \subseteq Slots
    /\ MaxGen \in Nat
    /\ Interrupts \subseteq {"remove", "shutdown"}

VARIABLES
    gate,           \* the readiness gate
    slot,           \* the worker thread of a slot, as the client spawns it
    gen,            \* generations
    available,      \* the one record of who is free
    leased,
    queue,          \* verdictQueue, writerQueue and readerQueue, by name
    writer,         \* currentWriterIndex
    lastWriter,     \* lastWriterIndex
    closing,        \* shutdownReason is set
    drained,        \* shutdownDeferred has resolved
    st,             \* where a request stands
    kind,           \* what it asked for
    at,             \* the slot of the worker it was given
    born,           \* the generation of that slot when that worker joined it
    lgen,           \* myGen: the generation its lease was made under
    demoted,        \* the leases that gave up the designation
    aborted         \* the requests whose AbortSignal has fired

slotVars  == <<gate, slot, gen>>
poolVars  == <<available, leased, queue, writer, lastWriter>>
closeVars == <<closing, drained>>
reqVars   == <<st, kind, at, born, lgen, demoted, aborted>>
vars      == <<slotVars, poolVars, closeVars, reqVars>>

NoWriter == -1

QueueNames == {"verdict", "write", "read"}

(* "free" is a verdict that only a free worker may serve: offer() skips it. *)
Kinds == {"read", "write", "verdict", "free"}

QueueOf(k) == IF k = "free" THEN "verdict" ELSE k

States == {"idle", "gated", "queued", "granted", "holding", "lent",
           "done", "rejected"}

TypeOK ==
    /\ gate \in Gates
    /\ slot \in [Slots -> {"pending", "ready", "down", "retired"}]
    /\ gen \in [Slots -> Nat]
    /\ available \in SUBSET Slots
    /\ leased \in SUBSET Slots
    /\ queue \in [QueueNames -> Seq(Requests)]
    /\ writer \in Slots \cup {NoWriter}
    /\ lastWriter \in Slots \cup {NoWriter}
    /\ closing \in BOOLEAN
    /\ drained \in BOOLEAN
    /\ st \in [Requests -> States]
    /\ kind \in [Requests -> Kinds]
    /\ at \in [Requests -> Slots]
    /\ born \in [Requests -> Nat]
    /\ lgen \in [Requests -> Nat]
    /\ demoted \in SUBSET Requests
    /\ aborted \in SUBSET Requests

Init ==
    /\ gate = ClosedGate
    /\ slot = [i \in Slots |-> "pending"]
    /\ gen = [i \in Slots |-> 0]
    /\ available = {}
    /\ leased = {}
    /\ queue = [q \in QueueNames |-> <<>>]
    /\ writer = NoWriter
    /\ lastWriter = NoWriter
    /\ closing = FALSE
    /\ drained = FALSE
    /\ st = [r \in Requests |-> "idle"]
    /\ kind = [r \in Requests |-> "read"]
    /\ at = [r \in Requests |-> 0]
    /\ born = [r \in Requests |-> 0]
    /\ lgen = [r \in Requests |-> 0]
    /\ demoted = {}
    /\ aborted = {}

-----------------------------------------------------------------------------
(***************************************************************************)
(* Choosing a free worker                                                   *)
(***************************************************************************)

(* The free workers a request may take: any, or for a write one that may    *)
(* be designated.                                                           *)
Usable(write) ==
    {i \in available : slot[i] = "ready" /\ (write => i \in Designable)}

(* Mutant: the last writer is waited for instead of preferred.              *)
Takeable_AffinityOnly(write, w) ==
    IF write /\ w # NoWriter THEN {w} \cap available
    ELSE IF lastWriter # NoWriter THEN {lastWriter} \cap Usable(write)
    ELSE {i \in Usable(write) : \A j \in Usable(write) : i <= j}

(* takeAvailable when w is the designated writer: a write takes that worker *)
(* or none; otherwise the last writer is preferred, then the lowest index.  *)
(* The set is empty when takeAvailable returns undefined.                   *)
Takeable(write, w) ==
    IF write /\ w # NoWriter THEN {w} \cap available
    ELSE IF lastWriter \in Usable(write) THEN {lastWriter}
    ELSE {i \in Usable(write) : \A j \in Usable(write) : i <= j}

(* waiter.resolve(worker): request r leaves the head of queue q for the     *)
(* worker of slot i that joined at generation b.  s is st with what the     *)
(* caller of this block has already changed.                                *)
Serve(q, i, b, s) ==
    LET r == Head(queue[q]) IN
    /\ queue[q] # <<>>
    /\ queue' = [queue EXCEPT ![q] = Tail(@)]
    /\ st' = [s EXCEPT ![r] = "granted"]
    /\ at' = [at EXCEPT ![r] = i]
    /\ born' = [born EXCEPT ![r] = b]

(* Mutant: the head writer is served whoever is designated.                 *)
MayServeWriter_AnyWorker(i) == queue["write"] # <<>> /\ i \in Designable

MayServeWriter(i) ==
    /\ queue["write"] # <<>>
    /\ writer = i \/ (writer = NoWriter /\ i \in Designable)

ServeWriterFirst(i, b, s) ==
    /\ MayServeWriter(i)
    /\ Serve("write", i, b, s)
    /\ writer' = i
    /\ lastWriter' = i
    /\ UNCHANGED available

(* The designation, once slot i comes back and no write is served there.    *)
Undesignated(i) == IF writer = i THEN NoWriter ELSE writer

HandOver(i, b, s) ==
    \/ /\ Serve("verdict", i, b, s)
       /\ writer' = IF queue["write"] = <<>> THEN Undesignated(i) ELSE writer
       /\ UNCHANGED <<available, lastWriter>>
    \/ /\ queue["verdict"] = <<>>
       /\ ServeWriterFirst(i, b, s)
    \/ /\ queue["verdict"] = <<>>
       /\ ~MayServeWriter(i)
       /\ writer' = Undesignated(i)
       /\ UNCHANGED lastWriter
       /\ \/ /\ Serve("read", i, b, s)
             /\ UNCHANGED available
          \/ /\ queue["read"] = <<>>
             /\ available' = available \cup {i}
             /\ st' = s
             /\ UNCHANGED <<queue, at, born>>

CheckShutdown(c, l) == drained \/ (c /\ l = {})

-----------------------------------------------------------------------------
(***************************************************************************)
(* Acquiring                                                                *)
(***************************************************************************)

(* The part of acquire() behind the gate: the free worker of slot i is      *)
(* taken and its lease made at once, or the request joins its queue.        *)
Take(r, k, i) ==
    /\ available' = available \ {i}
    /\ leased' = leased \cup {i}
    /\ writer' = IF k = "write" THEN i ELSE writer
    /\ lastWriter' = IF k = "write" /\ writer = NoWriter THEN i ELSE lastWriter
    /\ st' = [st EXCEPT ![r] = "holding"]
    /\ at' = [at EXCEPT ![r] = i]
    /\ born' = [born EXCEPT ![r] = gen[i]]
    /\ lgen' = [lgen EXCEPT ![r] = gen[i]]
    /\ UNCHANGED queue

Enqueue(r, k) ==
    /\ queue' = [queue EXCEPT ![QueueOf(k)] = Append(@, r)]
    /\ st' = [st EXCEPT ![r] = "queued"]
    /\ UNCHANGED <<available, leased, writer, lastWriter, at, born, lgen>>

TakeOrQueue(r, k) ==
    LET found == Takeable(k = "write", writer) IN
    \/ \E i \in found : Take(r, k, i)
    \/ found = {} /\ Enqueue(r, k)

(* acquire(k): refused once closing, suspended on a closed gate, else       *)
(* served or queued.  A signal already fired rejects here and changes       *)
(* nothing, so it is not a step.                                            *)
Acquire(r, k) ==
    /\ st[r] = "idle"
    /\ kind' = [kind EXCEPT ![r] = k]
    /\ \/ /\ closing
          /\ st' = [st EXCEPT ![r] = "rejected"]
          /\ UNCHANGED <<poolVars, at, born, lgen>>
       \/ /\ ~closing
          /\ gate.state = "closed"
          /\ st' = [st EXCEPT ![r] = "gated"]
          /\ UNCHANGED <<poolVars, at, born, lgen>>
       \/ /\ ~closing
          /\ gate.state # "closed"
          /\ TakeOrQueue(r, k)
    /\ UNCHANGED <<slotVars, closeVars, demoted, aborted>>

(* A gated caller resumes once the gate has settled.                        *)
PassGate(r) ==
    /\ st[r] = "gated"
    /\ gate.state # "closed"
    /\ \/ /\ closing
          /\ st' = [st EXCEPT ![r] = "rejected"]
          /\ UNCHANGED <<poolVars, at, born, lgen>>
       \/ /\ ~closing
          /\ TakeOrQueue(r, kind[r])
    /\ UNCHANGED <<slotVars, closeVars, kind, demoted, aborted>>

(* s.splice(n, 1).                                                          *)
Splice(s, n) ==
    [m \in 1 .. Len(s) - 1 |-> IF m < n THEN s[m] ELSE s[m + 1]]

(* The caller's AbortSignal fires, once, during its wait.  It ends a wait   *)
(* at a closed gate or in a queue.  A gated caller aborted after the gate   *)
(* has settled goes on with a signal that will not fire again, and a waiter *)
(* already shifted ignores the abort, which is not a step.                  *)
Abort(r) ==
    /\ st[r] \in {"gated", "queued"}
    /\ r \notin aborted
    /\ aborted' = aborted \cup {r}
    /\ \/ /\ st[r] = "gated" /\ gate.state = "closed"
          /\ st' = [st EXCEPT ![r] = "rejected"]
          /\ UNCHANGED queue
       \/ /\ st[r] = "gated" /\ gate.state # "closed"
          /\ UNCHANGED <<st, queue>>
       \/ /\ st[r] = "queued"
          /\ st' = [st EXCEPT ![r] = "rejected"]
          /\ \E n \in 1 .. Len(queue[QueueOf(kind[r])]) :
                /\ queue[QueueOf(kind[r])][n] = r
                /\ queue' = [queue EXCEPT ![QueueOf(kind[r])] = Splice(@, n)]
    /\ UNCHANGED <<slotVars, closeVars, available, leased, writer, lastWriter,
                   kind, at, born, lgen, demoted>>

(* The microtask of a served waiter: makeLease.                             *)
MakeLease(r) ==
    /\ st[r] = "granted"
    /\ st' = [st EXCEPT ![r] = "holding"]
    /\ leased' = leased \cup {at[r]}
    /\ lgen' = [lgen EXCEPT ![r] = gen[at[r]]]
    /\ UNCHANGED <<slotVars, closeVars, available, queue, writer, lastWriter,
                   kind, at, born, demoted, aborted>>

-----------------------------------------------------------------------------
(***************************************************************************)
(* What a lease does                                                        *)
(***************************************************************************)

(* remove() came between the lease and its release.  Mutant: the check is   *)
(* dropped.                                                                 *)
Stale_Never(r) == FALSE

Stale(r) == gen[at[r]] # lgen[r]

Release(r) ==
    /\ st[r] = "holding"
    /\ \/ /\ Stale(r)
          /\ st' = [st EXCEPT ![r] = "done"]
          /\ UNCHANGED <<poolVars, at, born>>
       \/ /\ ~Stale(r)
          /\ leased' = leased \ {at[r]}
          /\ HandOver(at[r], born[r], [st EXCEPT ![r] = "done"])
    /\ drained' = CheckShutdown(closing, leased')
    /\ UNCHANGED <<slotVars, closing, kind, lgen, demoted, aborted>>

(* A streamed write is complete: its lease gives up the designation and     *)
(* keeps the worker.  The head writer moves to another free worker.         *)
Demote(r) ==
    LET next == Takeable(TRUE, NoWriter) IN
    /\ st[r] = "holding"
    /\ kind[r] = "write"
    /\ ~Stale(r)
    /\ writer = at[r]
    /\ demoted' = demoted \cup {r}
    /\ \/ /\ queue["write"] = <<>> \/ next = {}
          /\ writer' = NoWriter
          /\ UNCHANGED <<available, queue, lastWriter, st, at, born>>
       \/ \E i \in next :
             /\ Serve("write", i, gen[i], st)
             /\ available' = available \ {i}
             /\ writer' = i
             /\ lastWriter' = i
    /\ UNCHANGED <<slotVars, closeVars, leased, kind, lgen, aborted>>

(* A transaction lends its worker to the first verdict waiter that is not   *)
(* free-only.  The borrowed lease touches no availability.                  *)
Offer(r) ==
    LET q == queue["verdict"]
        lendable == {n \in 1 .. Len(q) : kind[q[n]] = "verdict"}
    IN
    /\ st[r] = "holding"
    /\ kind[r] \in {"read", "write"}
    /\ \E n \in lendable :
          /\ \A m \in lendable : n <= m
          /\ queue' = [queue EXCEPT !["verdict"] = Splice(@, n)]
          /\ st' = [st EXCEPT ![q[n]] = "lent"]
          /\ at' = [at EXCEPT ![q[n]] = at[r]]
          /\ born' = [born EXCEPT ![q[n]] = born[r]]
    /\ UNCHANGED <<slotVars, closeVars, available, leased, writer, lastWriter,
                   kind, lgen, demoted, aborted>>

(* The borrowed lease is released, which changes nothing in the scheduler.  *)
EndLoan(r) ==
    /\ st[r] = "lent"
    /\ st' = [st EXCEPT ![r] = "done"]
    /\ UNCHANGED <<slotVars, poolVars, closeVars, kind, at, born, lgen,
                   demoted, aborted>>

-----------------------------------------------------------------------------
(***************************************************************************)
(* Slots joining and leaving                                                *)
(***************************************************************************)

(* Mutant: the slots re-armed for the retry round are not respawned.        *)
SettledSlots_NotRespawned(i, s, g, h) ==
    [j \in Slots |-> IF j = i THEN s ELSE slot[j]]

(* The slots after slot i settled the gate from g to h and became s; the    *)
(* client respawns the re-armed ones inside the same call.                  *)
SettledSlots(i, s, g, h) ==
    [j \in Slots |-> IF j \in Rearmed(g, h) THEN "pending"
                     ELSE IF j = i THEN s ELSE slot[j]]

(* A worker became ready: add().  Nothing here touches the designation      *)
(* except a queued write served.                                            *)
Add(i) ==
    /\ slot[i] = "pending"
    /\ gate' = SettleGateSlot(gate, i, "opened")
    /\ slot' = SettledSlots(i, "ready", gate, gate')
    /\ \/ /\ Serve("verdict", i, gen[i], st)
          /\ UNCHANGED <<available, writer, lastWriter>>
       \/ /\ queue["verdict"] = <<>>
          /\ ServeWriterFirst(i, gen[i], st)
       \/ /\ queue["verdict"] = <<>>
          /\ ~MayServeWriter(i)
          /\ Serve("read", i, gen[i], st)
          /\ UNCHANGED <<available, writer, lastWriter>>
       \/ /\ queue["verdict"] = <<>>
          /\ ~MayServeWriter(i)
          /\ queue["read"] = <<>>
          /\ available' = available \cup {i}
          /\ UNCHANGED <<queue, writer, lastWriter, st, at, born>>
    /\ UNCHANGED <<gen, leased, closeVars, kind, lgen, demoted, aborted>>

(* The client fails inside settleGateSlot when no slot opened, and inside   *)
(* onGateOpen when none is left.                                            *)
FailsAtGate(g, h) ==
    /\ g.state = "closed"
    /\ \/ h.state = "rejected"
       \/ h.state = "open" /\ \A j \in Slots : slot'[j] \in {"down", "retired"}

(* Mutant: taking a slot out starts no new generation.                      *)
NextGen_Same(i) == gen

NextGen(i) == [gen EXCEPT ![i] = @ + 1]

(* settleGateSlot followed by takeOut: the slot leaves, its leases become   *)
(* stale, and shutdown no longer waits for them.                            *)
TakeOut(i, how, s) ==
    /\ gen[i] < MaxGen
    /\ "remove" \notin Interrupts =>
          ~ \E r \in Requests : st[r] = "granted" /\ at[r] = i
    /\ gate' = SettleGateSlot(gate, i, how)
    /\ slot' = SettledSlots(i, s, gate, gate')
    /\ gen' = NextGen(i)
    /\ available' = available \ {i}
    /\ leased' = leased \ {i}
    /\ writer' = Undesignated(i)
    /\ lastWriter' = IF lastWriter = i THEN NoWriter ELSE lastWriter
    /\ closing' = (closing \/ FailsAtGate(gate, gate'))
    /\ drained' = CheckShutdown(closing', leased')
    /\ UNCHANGED <<queue, reqVars>>

(* handleDeath: the slot's worker failed to open, crashed, or was evicted   *)
(* by a transaction whose ROLLBACK failed.  The last may find the slot down *)
(* already.                                                                 *)
RemoveSlot(i) == slot[i] # "retired" /\ TakeOut(i, "failed", "down")

(* The worker declined to open; slot 0 never does.                          *)
Retire(i) == i # 0 /\ slot[i] = "pending" /\ TakeOut(i, "declined", "retired")

(* The client may restart a dead slot once the startup verdict is known,    *)
(* whether or not it is closing.                                            *)
Respawn(i) ==
    /\ slot[i] = "down"
    /\ gate.state = "open"
    /\ slot' = [slot EXCEPT ![i] = "pending"]
    /\ UNCHANGED <<gate, gen, poolVars, closeVars, reqVars>>

(* shutdown(): the gate, every waiter and every later acquire() reject.     *)
Shutdown ==
    /\ ~closing
    /\ "shutdown" \notin Interrupts =>
          \A r \in Requests : st[r] # "granted"
    /\ closing' = TRUE
    /\ gate' = RejectGate(gate)
    /\ queue' = [q \in QueueNames |-> <<>>]
    /\ st' = [r \in Requests |-> IF st[r] = "queued" THEN "rejected" ELSE st[r]]
    /\ drained' = CheckShutdown(TRUE, leased)
    /\ UNCHANGED <<slot, gen, available, leased, writer, lastWriter,
                   kind, at, born, lgen, demoted, aborted>>

-----------------------------------------------------------------------------
Next ==
    \/ \E r \in Requests :
          \/ \E k \in Kinds : Acquire(r, k)
          \/ PassGate(r)
          \/ Abort(r)
          \/ MakeLease(r)
          \/ Release(r)
          \/ Demote(r)
          \/ Offer(r)
          \/ EndLoan(r)
    \/ \E i \in Slots : Add(i) \/ RemoveSlot(i) \/ Retire(i) \/ Respawn(i)
    \/ Shutdown

Spec == Init /\ [][Next]_vars

(***************************************************************************)
(* Fairness: microtasks run, a worker that was spawned becomes ready or     *)
(* dies, and every lease is released (client.ts releases on every path once *)
(* the worker is quiescent; a transaction whose callback never returns is   *)
(* outside this assumption).  A dead slot need not come back, but a pool    *)
(* with no worker left is restarted or shut down: the client is never empty *)
(* and silent, which Lifecycle checks.                                      *)
(***************************************************************************)
Fairness ==
    /\ \A r \in Requests :
          /\ WF_vars(PassGate(r))
          /\ WF_vars(MakeLease(r))
          /\ WF_vars(Release(r))
          /\ WF_vars(EndLoan(r))
    /\ \A i \in Slots : WF_vars(Add(i))
    /\ WF_vars(/\ \A i \in Slots : slot[i] \in {"down", "retired"}
               /\ Shutdown \/ \E i \in Slots : Respawn(i))

FairSpec == Spec /\ Fairness

-----------------------------------------------------------------------------
(***************************************************************************)
(* Properties                                                               *)
(***************************************************************************)

(* r was given the worker now living in slot i and has not returned it.     *)
Owns(r, i) ==
    /\ st[r] \in {"granted", "holding"}
    /\ at[r] = i
    /\ born[r] = gen[i]

(* "Exactly one query is ever in flight per worker": no two requests own    *)
(* the worker of one slot, through crashes, respawns and stale releases.    *)
LeaseExclusive ==
    \A r, s \in Requests : \A i \in Slots :
        Owns(r, i) /\ Owns(s, i) => r = s

(* No worker is stranded and none is republished while borrowed: a ready    *)
(* worker is either free or owned, never both and never neither, and only   *)
(* ready workers are free.                                                  *)
WorkerAccounted ==
    /\ \A i \in available : slot[i] = "ready"
    /\ \A i \in Slots :
          slot[i] = "ready" => ((i \in available) # (\E r \in Requests : Owns(r, i)))

(* The designation serializes writes: two writes that have not given it up  *)
(* never run at once, whichever workers they are on.                        *)
OneWriter ==
    \A r, s \in Requests :
        /\ kind[r] = "write" /\ r \notin demoted /\ Owns(r, at[r])
        /\ kind[s] = "write" /\ s \notin demoted /\ Owns(s, at[s])
        => r = s

(* "designated and leased coincide": the designated writer is a worker some *)
(* request owns, never an idle or a dead one, so no write waits behind it   *)
(* for nothing.                                                             *)
DesignatedIsLeased ==
    writer # NoWriter => \E r \in Requests : Owns(r, writer)

(* A waiter that left (aborted, rejected, served) is in no queue, and one   *)
(* still waiting is in exactly its own: a dead entry would be handed a      *)
(* worker nobody releases.                                                  *)
QueuesHoldWaiters ==
    /\ \A q \in QueueNames : \A n \in 1 .. Len(queue[q]) :
          /\ st[queue[q][n]] = "queued"
          /\ QueueOf(kind[queue[q][n]]) = q
          /\ \A m \in 1 .. Len(queue[q]) : queue[q][m] = queue[q][n] => m = n
    /\ \A r \in Requests : st[r] = "queued" =>
          \E n \in 1 .. Len(queue[QueueOf(kind[r])]) :
              queue[QueueOf(kind[r])][n] = r

(* acquire() queues only "when none is free": while a read or a verdict     *)
(* waits, no worker sits idle.                                              *)
NoIdleWhileReadersWait ==
    queue["read"] # <<>> \/ queue["verdict"] # <<>> => available = {}

Waiting(r) == st[r] \in {"gated", "queued"}

(* Every wait of a read or a verdict ends, at the gate or in a queue,       *)
(* however many slots are lost for good.                                    *)
ReadWaitEnds ==
    \A r \in Requests : Waiting(r) /\ kind[r] # "write" ~> ~Waiting(r)

(* Every wait of a write ends, provided no slot stays down: serving what    *)
(* waited behind a dead writer is left to the next worker that joins.       *)
WriteWaitEnds ==
    ([]<>(\A i \in Slots : slot[i] # "down"))
        => \A r \in Requests : Waiting(r) /\ kind[r] = "write" ~> ~Waiting(r)

(* Closing ends: shutdown()'s promise settles.                              *)
DrainEnds == closing ~> drained

(* Nobody waits for ever: not for a lease, at the gate or in a queue, and   *)
(* not for the last lease to come back; though workers die, slots are lost  *)
(* and waiters leave.                                                       *)
EveryWaitEnds == ReadWaitEnds /\ WriteWaitEnds /\ DrainEnds
=============================================================================
