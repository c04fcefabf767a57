------------------------------ MODULE Transport ------------------------------
(***************************************************************************)
(* One pool worker and the page that talks to it (pool.ts, queries.ts,      *)
(* abandon.ts, credits.ts, the message loop of worker/worker.ts): a query's *)
(* rows in chunks under a credit window, the stop-and-drain of a consumer   *)
(* that leaves, verdicts between two chunks, close, and the ways the        *)
(* transport breaks.                                                        *)
(*                                                                         *)
(* A page task runs to completion and wakes the generators it settles, so   *)
(* the page is one record, p, and each piece of it is an operator from the  *)
(* record it finds to the record it leaves.  The worker, w, is interleaved  *)
(* with it; two FIFO channels join them, kept with the side that posts.  A   *)
(* query is posted once, so it is its own callId.                           *)
(***************************************************************************)
EXTENDS Naturals, Sequences, FiniteSets, SequencesExt

CONSTANTS
    Queries,        \* the transport generators made on this worker
    Verdicts,       \* the verdicts asked of it
    Sizes,          \* how many chunks the rows of a statement may fill
    Window,         \* options.credits
    Builds,         \* how a running statement can be reached, see BuildKinds
    Reuse,          \* what a waiting statement waits for, see ReuseRules
    Faults          \* what may go wrong, see FaultKinds

(* "yielding": async and jspi, whose progress handler gives the event loop  *)
(* a turn; "polling": sync with the shared abort slot; "deaf": sync without.*)
BuildKinds == {"yielding", "polling", "deaf"}

(* "idle": quiesce(), the lease of a client statement.                      *)
(* "freed": free(), the queue of a transaction with an open generator.      *)
ReuseRules == {"idle", "freed"}

FaultKinds == {"error", "lost", "death", "timeout", "close"}

ASSUME TransportAssumption ==
    /\ Queries \cap Verdicts = {}
    /\ Sizes \subseteq Nat
    /\ Window \in Nat \ {0}
    /\ Builds \subseteq BuildKinds
    /\ Reuse \in ReuseRules
    /\ Faults \subseteq FaultKinds

Nobody == "nobody"

ASSUME NobodyAssumption == {Nobody, "closer"} \cap (Queries \cup Verdicts) = {}

VARIABLES
    p,              \* the page: the closure of createPoolWorker, its generators
    w,              \* the worker
    size            \* how many chunks each statement's rows fill

vars == <<p, w, size>>

Callers == Queries \cup {Nobody}

(* A chunk of rows, numbered from 1; n = 0 is the count of changed rows,    *)
(* the last value of every query.                                           *)
Values == [call : Queries, n : Nat]

GenStates ==
    {"new",         \* no next() yet
     "waiting",     \* in the race of the delivery loop
     "rows",        \* suspended at the yield of a chunk
     "count",       \* suspended at the yield of the count
     "draining",    \* in its finally, waiting for the answer to its stop
     "ended"}

Outcomes == {"none", "complete", "left", "failed", "busy"}

PageMessages ==
    [type : {"chunk", "done", "error"}, call : Queries, n : Nat]
        \cup [type : {"verdict", "verdict-error"}, call : Verdicts]
        \cup [type : {"closed"}]

WorkerMessages ==
    [type : {"query", "credit", "stop"}, call : Queries]
        \cup [type : {"verdict"}, call : Verdicts]
        \cup [type : {"close"}]

WorkerPhases ==
    {"idle",
     "turn",        \* waiting for the mutex before its first call
     "running",     \* in SQLite
     "taking",      \* in gate.take(): the mutex let go, a credit awaited
     "back",        \* credit taken, waiting for the mutex again
     "gone"}        \* terminated

(* What the page keeps: "inbox" is the pulled generator's queue, "waiters"   *)
(* the generators in the race, oldest first, "returning" those whose        *)
(* return() was called, "slot" is abortSlots[index].  A verdict is "lost"   *)
(* when its reply was: to the page it is still asked.                       *)
Pages ==
    [deferredChunk : {"none", "armed", "failed"},
     inbox         : Seq(Values),
     stopped       : BOOLEAN,
     servingQuery  : Callers,
     currentCallId : Callers,
     failure       : BOOLEAN,
     dead          : BOOLEAN,
     waiters       : Seq(Queries),
     gen           : [Queries -> GenStates],
     got           : [Queries -> Seq(Values)],
     outcome       : [Queries -> Outcomes],
     returning     : SUBSET Queries,
     verdict       : [Verdicts -> {"new", "asked", "lost", "settled"}],
     slot          : Callers,
     close         : {"none", "asked", "closed"},
     posted        : Seq(WorkerMessages)]

(* Who may hold SQLite, or wait for it.                                     *)
Holders == Queries \cup Verdicts \cup {"closer"}

(* What the worker keeps: "call" is the gate's currentCallId, "sent" the     *)
(* chunks stepped so far.                                                   *)
WorkerStates ==
    [build   : Builds,
     phase   : WorkerPhases,
     call    : Callers,
     credits : Nat,
     stopped : BOOLEAN,
     taken   : {"go", "stopped"},
     sent    : Nat,
     closing : BOOLEAN,
     closer  : {"none", "query", "mutex", "closed"},
     holder  : Holders \cup {Nobody},
     queue   : Seq(Holders),
     replied : Seq(PageMessages)]

TypeOK ==
    /\ p \in Pages
    /\ w \in WorkerStates
    /\ size \in [Queries -> Sizes]

Init ==
    /\ p = [deferredChunk |-> "none", inbox |-> <<>>, stopped |-> FALSE,
            servingQuery |-> Nobody, currentCallId |-> Nobody,
            failure |-> FALSE, dead |-> FALSE, waiters |-> <<>>,
            gen |-> [q \in Queries |-> "new"],
            got |-> [q \in Queries |-> <<>>],
            outcome |-> [q \in Queries |-> "none"],
            returning |-> {},
            verdict |-> [v \in Verdicts |-> "new"],
            slot |-> Nobody, close |-> "none", posted |-> <<>>]
    /\ \E b \in Builds :
          w = [build |-> b, phase |-> "idle", call |-> Nobody, credits |-> 0,
               stopped |-> FALSE, taken |-> "go", sent |-> 0,
               closing |-> FALSE, closer |-> "none",
               holder |-> Nobody, queue |-> <<>>, replied |-> <<>>]
    /\ size \in [Queries -> Sizes]

-----------------------------------------------------------------------------
(* The page: a transport generator                                          *)

Post(s, m) == [s EXCEPT !.posted = Append(@, m)]

(* The end of the finally: the worker is nobody's again.                    *)
Teardown(s, q) ==
    [s EXCEPT !.deferredChunk = "none", !.inbox = <<>>,
              !.servingQuery = Nobody, !.gen[q] = "ended"]

(* Mutant: the stop is posted and the worker given back at once.            *)
Finally_NoDrain(s, q, why) ==
    LET t == [s EXCEPT !.outcome[q] = why]
    IN  IF s.servingQuery # q THEN [t EXCEPT !.gen[q] = "ended"]
        ELSE IF s.deferredChunk = "none" \/ s.dead THEN Teardown(t, q)
        ELSE Teardown(Post(t, [type |-> "stop", call |-> s.currentCallId]), q)

(* The finally.  Only the generator being served tears anything down; one   *)
(* whose query still runs stops it first and waits for its answer, which a  *)
(* rejected deferredChunk already is.                                       *)
Finally(s, q, why) ==
    LET t == [s EXCEPT !.outcome[q] = why]
    IN  IF s.servingQuery # q THEN [t EXCEPT !.gen[q] = "ended"]
        ELSE IF s.deferredChunk = "none" \/ s.dead THEN Teardown(t, q)
        ELSE LET u == Post(t, [type |-> "stop", call |-> s.currentCallId])
             IN  IF s.deferredChunk = "failed" THEN Teardown(u, q)
                 ELSE [u EXCEPT !.gen[q] = "draining"]

(* A value handed to the consumer, or to a return() queued behind the       *)
(* next() it settles.                                                       *)
Yield(s, q) ==
    LET v == Head(s.inbox)
        t == [s EXCEPT !.inbox = Tail(@)]
    IN  IF q \in s.returning THEN Finally(t, q, "left")
        ELSE [t EXCEPT !.got[q] = Append(@, v),
                       !.gen[q] = IF v.n = 0 THEN "count" ELSE "rows"]

(* Mutant: the loop ends with the last message, whatever is still queued.   *)
Loop_FlagOnly(s, q) ==
    IF s.deferredChunk = "none" THEN Finally(s, q, "complete")
    ELSE IF s.inbox # <<>>
    THEN IF s.stopped THEN Finally(s, q, "left")
         ELSE IF s.failure THEN Finally(s, q, "failed")
         ELSE Yield(s, q)
    ELSE IF s.deferredChunk = "failed" THEN Finally(s, q, "failed")
         ELSE IF s.stopped THEN Finally(s, q, "left")
         ELSE IF s.failure THEN Finally(s, q, "failed")
         ELSE [s EXCEPT !.gen[q] = "waiting", !.waiters = Append(@, q)]

(* The delivery loop, from its test to its next suspension.  With nothing   *)
(* queued it races the next message, a stop and a broken transport; with    *)
(* something queued it looks at the last two before it delivers.            *)
Loop(s, q) ==
    IF s.inbox # <<>>
    THEN IF s.stopped THEN Finally(s, q, "left")
         ELSE IF s.failure THEN Finally(s, q, "failed")
         ELSE Yield(s, q)
    ELSE IF s.deferredChunk = "none" THEN Finally(s, q, "complete")
         ELSE IF s.deferredChunk = "failed" THEN Finally(s, q, "failed")
         ELSE IF s.stopped THEN Finally(s, q, "left")
         ELSE IF s.failure THEN Finally(s, q, "failed")
         ELSE [s EXCEPT !.gen[q] = "waiting", !.waiters = Append(@, q)]

(* Every generator in the race goes round its loop, oldest first.           *)
Wake(s) ==
    LET woken[i \in 0 .. Len(s.waiters)] ==
            IF i = 0 THEN [s EXCEPT !.waiters = <<>>]
                     ELSE Loop(woken[i - 1], s.waiters[i])
    IN  woken[Len(s.waiters)]

(* The answer a draining generator waits for has come.                      *)
EndDrain(s) ==
    LET D == {q \in Queries : s.gen[q] = "draining"}
    IN  IF D = {} \/ s.deferredChunk = "armed" THEN s
        ELSE Teardown(s, CHOOSE q \in D : TRUE)

(* poison() and die(): what is in flight rejects, and so will what follows. *)
Die(s) ==
    IF s.dead THEN s
    ELSE Wake([s EXCEPT !.dead = TRUE, !.failure = TRUE,
                 !.verdict = [v \in Verdicts |->
                     IF @[v] = "new" THEN "new" ELSE "settled"],
                 !.close = IF @ = "asked" THEN "closed" ELSE @])

-----------------------------------------------------------------------------
(* The page: what its callers do                                            *)

(* When a statement that waits for this worker may be pulled: quiesce()     *)
(* settled, or free().                                                      *)
MayStart ==
    IF Reuse = "idle" THEN p.servingQuery = Nobody
                      ELSE p.deferredChunk = "none"

(* The reuse guard and the claim.  On a dead worker the query fails at once.*)
Claim(s, q) ==
    IF s.deferredChunk # "none" THEN Finally(s, q, "busy")
    ELSE Loop(Post([s EXCEPT !.inbox = <<>>, !.stopped = FALSE,
                             !.servingQuery = q, !.failure = s.dead,
                             !.deferredChunk = "armed", !.currentCallId = q],
                   [type |-> "query", call |-> q]), q)

(* The first next().                                                        *)
Start(q) ==
    /\ p.gen[q] = "new"
    /\ MayStart
    /\ p' = Claim(p, q)
    /\ UNCHANGED <<w, size>>

(* A later next(): the chunk taken is credited to the call the worker is    *)
(* on now, then the loop goes round.                                        *)
Resume(s, q) ==
    Loop(IF s.gen[q] = "count" THEN s
         ELSE Post(s, [type |-> "credit", call |-> s.currentCallId]), q)

Pull(q) ==
    /\ p.gen[q] \in {"rows", "count"}
    /\ q \notin p.returning
    /\ p' = Resume(p, q)
    /\ UNCHANGED <<w, size>>

(* interrupt(): only for the transport the worker is serving.               *)
Interrupt(s, q) ==
    IF s.servingQuery # q THEN s
    ELSE Wake([s EXCEPT !.stopped = TRUE, !.slot = s.currentCallId])

(* return(): at a yield the finally runs, before the first next() nothing   *)
(* does, and with a next() in flight it queues.                             *)
Return(s, q) ==
    LET t == [s EXCEPT !.returning = @ \cup {q}]
    IN  CASE s.gen[q] = "new" ->
                [t EXCEPT !.gen[q] = "ended", !.outcome[q] = "left"]
          [] s.gen[q] \in {"rows", "count"} -> Finally(t, q, "left")
          [] OTHER -> t

(* The consumer breaks, its signal fires or it is collected: drain()'s      *)
(* finally and reclaim() do the same, whichever comes first.                *)
Leave(q) ==
    /\ p.gen[q] # "ended"
    /\ q \notin p.returning
    /\ p' = Return(Interrupt(p, q), q)
    /\ UNCHANGED <<w, size>>

AskVerdict(v) ==
    /\ p.verdict[v] = "new"
    /\ p' = IF p.dead THEN [p EXCEPT !.verdict[v] = "settled"]
            ELSE Post([p EXCEPT !.verdict[v] = "asked"],
                      [type |-> "verdict", call |-> v])
    /\ UNCHANGED <<w, size>>

Close ==
    /\ "close" \in Faults
    /\ p.close = "none"
    /\ p' = IF p.dead THEN [p EXCEPT !.close = "closed"]
            ELSE Post([p EXCEPT !.close = "asked"], [type |-> "close"])
    /\ UNCHANGED <<w, size>>

-----------------------------------------------------------------------------
(* The page: what reaches it                                                *)

(* Mutant: the wake-up alone carries the chunk; one nobody awaits is lost.  *)
Arrive_Unqueued(s, v) ==
    IF s.waiters = <<>> THEN s
    ELSE Wake([s EXCEPT !.inbox = Append(@, v), !.deferredChunk = "armed"])

(* A chunk: queued first, then whoever waits is woken.                      *)
Arrive(s, v) ==
    Wake([s EXCEPT !.inbox = Append(@, v), !.deferredChunk = "armed"])

(* worker.onmessage.  A chunk or an answer under another callId, or under   *)
(* none, is ignored.                                                        *)
OnMessage(s, m) ==
    IF m.type \in {"verdict", "verdict-error"}
    THEN [s EXCEPT !.verdict[m.call] = "settled"]
    ELSE IF m.type = "closed" THEN [s EXCEPT !.close = "closed"]
    ELSE IF s.deferredChunk = "none" \/ m.call # s.currentCallId THEN s
    ELSE CASE m.type = "chunk" ->
                 Arrive(s, [call |-> m.call, n |-> m.n])
           [] m.type = "done" ->
                 EndDrain(Wake(
                     [s EXCEPT !.inbox = Append(@, [call |-> m.call, n |-> 0]),
                               !.deferredChunk = "none"]))
           [] m.type = "error" ->
                 EndDrain(Wake([s EXCEPT !.deferredChunk = "failed"]))

Deliver ==
    /\ w.replied # <<>>
    /\ p' = OnMessage(p, Head(w.replied))
    /\ w' = [w EXCEPT !.replied = Tail(@)]
    /\ UNCHANGED size

(* The answer to a verdict was lost: its entry stays in `verdicts`.         *)
Missed(s, m) ==
    IF m.type \in {"verdict", "verdict-error"}
    THEN [s EXCEPT !.verdict[m.call] = IF @ = "asked" THEN "lost" ELSE @]
    ELSE s

(* A message that could not be deserialized, whatever it was: the `lost` of *)
(* the query being served rejects, if there is one, and nothing else; the   *)
(* transport stays.                                                         *)
MessageError ==
    /\ "lost" \in Faults
    /\ w.replied # <<>>
    /\ LET s == Missed(p, Head(w.replied))
       IN  p' = IF p.servingQuery = Nobody THEN s
                ELSE Wake([s EXCEPT !.failure = TRUE])
    /\ w' = [w EXCEPT !.replied = Tail(@)]
    /\ UNCHANGED size

(* The drain timer: a worker that has not answered a stop is presumed dead, *)
(* and its client terminates it.                                            *)
DrainTimeout(q) ==
    /\ "timeout" \in Faults \/ p.dead
    /\ p.gen[q] = "draining"
    /\ p' = Teardown(Die(p), q)
    /\ w' = [w EXCEPT !.phase = "gone"]
    /\ UNCHANGED size

(* worker.onerror, or terminate().                                          *)
Death ==
    /\ "death" \in Faults
    /\ ~p.dead
    /\ p' = Die(p)
    /\ w' = [w EXCEPT !.phase = "gone"]
    /\ UNCHANGED size

(* The client's close() terminates the worker once it has answered, or has  *)
(* not for drainTimeout.                                                    *)
Terminate ==
    /\ ~p.dead
    /\ \/ p.close = "closed"
       \/ p.close = "asked" /\ "timeout" \in Faults
    /\ p' = Die(p)
    /\ w' = [w EXCEPT !.phase = "gone"]
    /\ UNCHANGED size

-----------------------------------------------------------------------------
(* The worker                                                               *)

(* One SQLite call sequence at a time, handed on in arrival order.          *)
HoldSqlite(s, x) ==
    IF s.holder = Nobody THEN [s EXCEPT !.holder = x]
                         ELSE [s EXCEPT !.queue = Append(@, x)]

ReleaseSqlite(s) ==
    IF s.queue = <<>> THEN [s EXCEPT !.holder = Nobody]
    ELSE [s EXCEPT !.holder = Head(s.queue), !.queue = Tail(@)]

Reply(s, m) == [s EXCEPT !.replied = Append(@, m)]

(* The query's finally; the close that waited for it queues for the mutex.  *)
EndQuery(s) ==
    LET t == ReleaseSqlite([s EXCEPT !.phase = "idle"])
    IN  IF t.closer # "query" THEN t
        ELSE HoldSqlite([t EXCEPT !.closer = "mutex"], "closer")

Answer(s) ==
    EndQuery(Reply(s, [type |-> IF s.closing THEN "error" ELSE "done",
                       call |-> s.call, n |-> 0]))

(* Mutant: close takes the mutex without waiting for the query.             *)
OnClose_Unwaited(s) ==
    HoldSqlite([s EXCEPT !.stopped = TRUE, !.closer = "mutex"], "closer")

(* close: the query is stopped and waited for, then the mutex.              *)
OnClose(s) ==
    LET t == [s EXCEPT !.stopped = TRUE]
    IN  IF s.phase # "idle" THEN [t EXCEPT !.closer = "query"]
        ELSE HoldSqlite([t EXCEPT !.closer = "mutex"], "closer")

(* self.onmessage, up to the first wait of each case.                       *)
OnRequest(s, m) ==
    CASE m.type = "query" ->
            HoldSqlite([s EXCEPT !.call = m.call, !.credits = Window,
                                 !.stopped = FALSE, !.sent = 0,
                                 !.phase = "turn"], m.call)
      [] m.type = "credit" ->
            [s EXCEPT !.credits = IF m.call = s.call THEN @ + 1 ELSE @]
      [] m.type = "stop" -> [s EXCEPT !.stopped = TRUE]
      [] m.type = "verdict" -> HoldSqlite(s, m.call)
      [] m.type = "close" -> OnClose([s EXCEPT !.closing = TRUE])

(* A worker inside SQLite reads no message unless its build yields.         *)
Request ==
    /\ w.phase # "gone"
    /\ p.posted # <<>>
    /\ w.holder = Nobody \/ w.build = "yielding"
    /\ w' = OnRequest(w, Head(p.posted))
    /\ p' = [p EXCEPT !.posted = Tail(@)]
    /\ UNCHANGED size

BeginQuery ==
    /\ w.phase = "turn"
    /\ w.holder = w.call
    /\ w' = [w EXCEPT !.phase = "running"]
    /\ UNCHANGED <<p, size>>

(* Mutant: the mutex is kept while a credit is awaited.                     *)
StepChunk_Holding ==
    /\ w.phase = "running"
    /\ w.closer # "closed"
    /\ ~w.stopped
    /\ w.sent < size[w.call]
    /\ w' = [w EXCEPT !.sent = @ + 1, !.phase = "taking"]
    /\ UNCHANGED <<p, size>>

(* The rows fill a chunk: the mutex is let go while a credit is awaited.    *)
StepChunk ==
    /\ w.phase = "running"
    /\ w.closer # "closed"
    /\ ~w.stopped
    /\ w.sent < size[w.call]
    /\ w' = ReleaseSqlite([w EXCEPT !.sent = @ + 1, !.phase = "taking"])
    /\ UNCHANGED <<p, size>>

(* gate.take(), then the mutex again.                                       *)
Take ==
    /\ w.phase = "taking"
    /\ w.credits > 0 \/ w.stopped
    /\ w' = HoldSqlite(
                IF w.stopped
                THEN [w EXCEPT !.phase = "back", !.taken = "stopped"]
                ELSE [w EXCEPT !.phase = "back", !.taken = "go",
                               !.credits = @ - 1], w.call)
    /\ UNCHANGED <<p, size>>

SendChunk ==
    /\ w.phase = "back"
    /\ w.holder = w.call
    /\ w' = IF w.taken = "stopped" THEN Answer(w)
            ELSE Reply([w EXCEPT !.phase = "running"],
                       [type |-> "chunk", call |-> w.call, n |-> w.sent])
    /\ UNCHANGED <<p, size>>

(* The rows are over, or a stop ended the statement early: by the gate's    *)
(* flag, or by the slot the sync build polls.                               *)
StepEnd ==
    /\ w.phase = "running"
    /\ w.closer # "closed"
    /\ \/ w.stopped
       \/ w.sent = size[w.call]
       \/ w.build = "polling" /\ p.slot = w.call
    /\ w' = Answer(w)
    /\ UNCHANGED <<p, size>>

(* The statement fails, as every one does on a closed database.             *)
StepError ==
    /\ w.phase = "running"
    /\ "error" \in Faults \/ w.closer = "closed"
    /\ w' = EndQuery(Reply(w, [type |-> "error", call |-> w.call, n |-> 0]))
    /\ UNCHANGED <<p, size>>

RunVerdict ==
    /\ w.phase # "gone"
    /\ w.holder \in Verdicts
    /\ w' = ReleaseSqlite(Reply(w,
                [type |-> IF w.closing THEN "verdict-error" ELSE "verdict",
                 call |-> w.holder]))
    /\ UNCHANGED <<p, size>>

CloseDatabase ==
    /\ w.phase # "gone"
    /\ w.holder = "closer"
    /\ w' = Reply(ReleaseSqlite([w EXCEPT !.closer = "closed"]),
                  [type |-> "closed"])
    /\ UNCHANGED <<p, size>>

-----------------------------------------------------------------------------
Worker ==
    \/ Request
    \/ BeginQuery
    \/ StepChunk
    \/ Take
    \/ SendChunk
    \/ StepEnd
    \/ StepError
    \/ RunVerdict
    \/ CloseDatabase

Next ==
    \/ \E q \in Queries : Start(q) \/ Pull(q) \/ Leave(q) \/ DrainTimeout(q)
    \/ \E v \in Verdicts : AskVerdict(v)
    \/ Close
    \/ Deliver
    \/ MessageError
    \/ Death
    \/ Terminate
    \/ Worker

Spec == Init /\ [][Next]_vars

(* Messages arrive and timers fire.  Nothing is assumed of the consumer,    *)
(* who may stop pulling for ever, nor of the worker, which may go silent.   *)
FairSpec ==
    /\ Spec
    /\ WF_vars(Deliver)
    /\ WF_vars(Terminate)
    /\ \A q \in Queries : WF_vars(DrainTimeout(q))

-----------------------------------------------------------------------------
(* Properties                                                               *)

(* A consumer receives the rows of its own query, each once and in order,   *)
(* and the count only after all of them: the inbox, its reset at a claim    *)
(* and the checks on callId neither drop a chunk nor deliver another's.     *)
OwnRowsInOrder ==
    \A q \in Queries :
        /\ Len(p.got[q]) <= size[q] + 1
        /\ \A i \in DOMAIN p.got[q] :
              p.got[q][i] = [call |-> q, n |-> IF i <= size[q] THEN i ELSE 0]

(* A stream that ends without an error and without being left has given     *)
(* all its rows: no stop, late or meant for an earlier query, no close and  *)
(* no other statement cuts it short in silence.                             *)
NoShortRead ==
    \A q \in Queries :
        p.outcome[q] = "complete" =>
            \A n \in 1 .. size[q] : Contains(p.got[q], [call |-> q, n |-> n])

(* When the page calls a living worker free, the worker is out of its query *)
(* and no query is on its way to it: the stop-and-drain waits for the       *)
(* worker's answer, not for its own request.  And no query ever meets the   *)
(* reuse guard.                                                             *)
FreeMeansIdle ==
    /\ p.deferredChunk = "none" /\ w.phase # "gone" =>
          /\ w.phase = "idle"
          /\ \A i \in DOMAIN p.posted : p.posted[i].type # "query"
    /\ \A q \in Queries : p.outcome[q] # "busy"

(* SQLite is entered by the holder of the mutex alone, and the database is  *)
(* closed under no open statement, one parked on a credit included.         *)
SqliteExclusive ==
    /\ w.phase = "running" => w.holder = w.call
    /\ w.holder = "closer" => w.phase \in {"idle", "turn", "gone"}

(* The stop-and-drain ends though the worker never answers it, or its       *)
(* answer is lost: a timer bounds it.                                       *)
DrainSettles ==
    \A q \in Queries : p.gen[q] = "draining" ~> p.gen[q] = "ended"

(* So does close(), and with it every request of the worker: the client     *)
(* terminates a worker that has answered, or has not in time.               *)
CloseSettles ==
    p.close = "asked" ~>
        /\ p.close = "closed"
        /\ \A q \in Queries : p.gen[q] # "waiting"
        /\ \A v \in Verdicts : p.verdict[v] \in {"new", "settled"}

(* No timer bounds a next() or a verdict: a worker that stops stepping      *)
(* without a word leaves them pending.                                      *)
WorkerAnswers == WF_vars(Worker)

(* A next() in flight settles, whatever message is lost.                    *)
NextSettles ==
    \A q \in Queries : p.gen[q] = "waiting" ~> p.gen[q] # "waiting"

(* A verdict is answered while a query is parked on a credit its consumer   *)
(* may never send, for the mutex is let go there; but one whose reply is    *)
(* lost stays pending, until the worker is terminated (see CloseSettles).   *)
VerdictAnswered ==
    \A v \in Verdicts : p.verdict[v] = "asked" ~> p.verdict[v] \in {"lost", "settled"}

(* The waits of the page on its worker that end by the page's own means,    *)
(* and those that end if the worker goes on: a query parked for a consumer  *)
(* that never pulls again, a stop or a lost message holds up nobody else.   *)
RequestsSettle ==
    /\ DrainSettles
    /\ CloseSettles
    /\ WorkerAnswers => NextSettles /\ VerdictAnswered
=============================================================================
