---------------------------- MODULE Transaction ----------------------------
(***************************************************************************)
(* One call of transaction() (transaction.ts, savepoints.ts) on one worker,  *)
(* with the savepoint prelude and the reply of the worker's query handler.   *)
(*                                                                         *)
(* A call is a method of the handle the callback was given.  Calls share     *)
(* one connection: each takes a place in a queue, and the queue's tail is    *)
(* captured and replaced when the call is made.  A write that may be given   *)
(* up alone, because it carries a signal of its own, runs inside a savepoint *)
(* of the library, which the next message to the worker concludes.  The      *)
(* transaction's own BEGIN, COMMIT and ROLLBACK are call 0 and take no       *)
(* place.  A step is what the page does between two awaits.                  *)
(***************************************************************************)
EXTENDS Savepoints

CONSTANTS
    MaxCalls,       \* bound on the calls made on the handle
    Scenarios       \* what the callback and its surroundings may do

(* Kinds: "read" and "write" stand for run, all, first and writeDirect,     *)
(* "gen" for a chunk() or stream() that writes, "batch" for a batch of a    *)
(* bulk writer, which reserves its place and asks for no verdict.           *)
CallKinds == {"read", "write", "gen", "batch", "savepoint", "release",
              "rollbackTo", "commit", "rollback"}

(* A scenario: the transaction's mode; how many calls of which kinds the    *)
(* callback makes, and the names it gives its savepoints; which signals may *)
(* fire, the "call"'s or the "transaction"'s; the calls left unsettled when *)
(* the callback returns, with "asked" for those waiting for a verdict; and  *)
(* the failures: "fail", of a statement; "left", one after which SQLite has *)
(* rolled back the whole transaction; "control", of BEGIN, COMMIT, ROLLBACK *)
(* or a savepoint verb, COMMIT perhaps with a rollback; "explicit", of      *)
(* commit() and rollback() too; "crash", the worker dies; "last", a call    *)
(* gives up its place at the end of the queue.                              *)
Scenario ==
    [mode : {"write", "readOnly", "manual"}, calls : 0 .. MaxCalls,
     kinds : SUBSET CallKinds, names : SUBSET {"a", "b"},
     signals : SUBSET {"call", "transaction"},
     unawaited : SUBSET (CallKinds \cup {"asked"}),
     faults : SUBSET {"fail", "left", "control", "explicit", "crash", "last"}]

ASSUME TransactionAssumption ==
    /\ MaxCalls \in Nat
    /\ Scenarios \subseteq Scenario

VARIABLE x          \* the closure of transaction(), its worker and the file

-----------------------------------------------------------------------------
(***************************************************************************)
(* State                                                                   *)
(***************************************************************************)

Library == "__bsq_sp"

(* No call, as a queue's tail or a predecessor.                             *)
Nobody == 0

(* The worker's query in flight: whose it is, what it does, the savepoint   *)
(* it was posted with, whether a stop has been sent, and how far it is.     *)
Messages ==
    [call : 0 .. MaxCalls,
     verb : {"begin", "commit", "rollback", "read", "write", "savepoint",
             "release", "rollbackTo"},
     name : {"a", "b", Library}, conclude : {"none", "release", "undo"},
     open : BOOLEAN, stop : BOOLEAN, failed : BOOLEAN,
     stage : {"posted", "affected", "delivering", "ended"}]

Idle == [stage |-> "idle"]

Call ==
    [kind : CallKinds, own : BOOLEAN, name : {"a", "b", Library},
     keep : BOOLEAN, prior : 0 .. MaxCalls,
     pc : {"fresh", "waiting", "asking", "running", "delivering", "stopping",
           "dropping", "left", "over"},
     told : {"nothing", "ok", "error", "busy", "cut", "closed"}]

(* "acquiring" the lease, in "begin", in the "callback", "closing" the      *)
(* statements it left open, "ready" to conclude, "concluding", "unwinding"  *)
(* after an error, "rolling" back, "finishing", "publishing" the epoch,     *)
(* and "released".                                                          *)
Phases == {"acquiring", "begin", "callback", "closing", "ready", "concluding",
           "unwinding", "rolling", "finishing", "publishing", "released"}

Endings == {"none", "committed", "rolled-back", "died"}

Calls == 1 .. MaxCalls

(* The writes and marks of a journal.                                       *)
Entries == [call : 0 .. MaxCalls, name : {"a", "b", Library, ""}]

(* The closure's variables, with "closing" the generators that are to be    *)
(* closed; what the page heard ("said") of the connection, which is "dead"  *)
(* with its worker; the connection and the file; the account of AtomicTx.   *)
States ==
    [sc : Scenarios, pc : Phases, readOnly : BOOLEAN, autoCommit : BOOLEAN,
     ending : Endings, cut : BOOLEAN, begun : BOOLEAN, done : BOOLEAN,
     poisoned : BOOLEAN, pending : {"none", "release", "undo"},
     abandoned : 0 .. MaxCalls, tail : 0 .. MaxCalls, calls : Seq(Call),
     stack : Seq(Calls), closing : SUBSET Calls, busy : Messages \cup {Idle},
     said : {"in", "out"}, dead : BOOLEAN,
     conn : [in : BOOLEAN, log : Seq(Entries)], db : SUBSET Calls,
     ledger : Seq(Entries)]

TypeOK ==
    /\ x \in States
    /\ Len(x.calls) <= MaxCalls
    /\ {x.tail, x.abandoned} \subseteq {Nobody} \cup DOMAIN x.calls
    /\ x.closing \cup ToSet(x.stack) \cup x.db \subseteq DOMAIN x.calls

(* The worker last said, of an earlier query, that it was in no transaction. *)
Init ==
    \E sc \in Scenarios :
        x = [sc |-> sc, pc |-> "acquiring", readOnly |-> sc.mode = "readOnly",
             autoCommit |-> sc.mode # "manual", ending |-> "none", cut |-> FALSE,
             begun |-> FALSE, done |-> FALSE, poisoned |-> FALSE,
             pending |-> "none", abandoned |-> Nobody, tail |-> Nobody,
             calls |-> <<>>, stack |-> <<>>, closing |-> {},
             busy |-> Idle, said |-> "out", dead |-> FALSE,
             conn |-> [in |-> FALSE, log |-> <<>>], db |-> {},
             ledger |-> <<>>]

Statement(kind) == kind \in {"read", "write", "gen", "batch"}

IsIdle(s) == s.busy = Idle

Unsettled(s) == {i \in DOMAIN s.calls : s.calls[i].pc # "over"}

-----------------------------------------------------------------------------
(***************************************************************************)
(* The handle: endings, the queue, the messages                            *)
(***************************************************************************)

(* A query told to stop: one whose rows are being delivered ends with that. *)
Halted(m, stop) ==
    IF m.stage = "delivering" THEN [m EXCEPT !.stage = "ended"]
                              ELSE [m EXCEPT !.stop = @ \/ stop]

(* The transaction's signal aborts: onAbort, and the stop of the statement  *)
(* on the worker, unless it is the library's own control.                   *)
Cut(s) ==
    [s EXCEPT !.cut = TRUE,
              !.ending = IF @ = "none" THEN "died" ELSE @,
              !.busy = IF IsIdle(s) THEN Idle
                       ELSE Halted(@, @.verb \in {"read", "write"})]

Die(s) == IF s.ending = "none" THEN Cut(s) ELSE s

(* dieIfConnectionLeft                                                      *)
DieIfLeft(s) ==
    IF s.begun /\ s.ending = "none" /\ s.said = "out" THEN Die(s) ELSE s

(* Mutant: a place given up early is not passed on.                         *)
LeaveQueue_Unresolved(s, i) ==
    [s EXCEPT !.tail = IF @ = i THEN Nobody ELSE @]

(* if (tail === mine.promise) tail = undefined; mine.resolve(prior)         *)
LeaveQueue(s, i) ==
    [s EXCEPT !.tail = IF @ = i THEN Nobody ELSE @,
              !.calls = [j \in DOMAIN s.calls |->
                  IF s.calls[j].prior = i
                  THEN [s.calls[j] EXCEPT !.prior = s.calls[i].prior]
                  ELSE s.calls[j]]]

Told(s, i, v) == [s EXCEPT !.calls[i].told = IF @ = "nothing" THEN v ELSE @]

(* The call settles and gives its place up.                                 *)
Settle(s, i, v) ==
    LET given == LeaveQueue(Told(s, i, v), i) IN
    [given EXCEPT !.calls[i].pc = "over"]

(* Mutant: the conclusion owed is forgotten by the message that carries it. *)
Post_Unconcluded(s, i, verb, name, open) ==
    [s EXCEPT !.busy = [call |-> i, verb |-> verb, name |-> name,
                        conclude |-> "none", open |-> open,
                        stop |-> FALSE, failed |-> FALSE, stage |-> "posted"],
              !.pending = IF open THEN "release" ELSE "none"]

(* via(open): the message takes the pending conclusion with it, and owes    *)
(* one in turn when it opens a savepoint of its own.                        *)
Post(s, i, verb, name, open) ==
    [s EXCEPT !.busy = [call |-> i, verb |-> verb, name |-> name,
                        conclude |-> s.pending, open |-> open,
                        stop |-> FALSE, failed |-> FALSE, stage |-> "posted"],
              !.pending = IF open THEN "release" ELSE "none"]

VerbOf(c) ==
    CASE c.kind \in {"write", "gen", "batch"} -> "write"
      [] OTHER -> c.kind

(* A call reaches the worker, or meets the pool's reuse guard, or a worker  *)
(* that has died.  A failed savepoint verb kills the transaction.           *)
Start(s, i, open) ==
    LET c == s.calls[i]
        refused == IF Statement(c.kind) \/ c.kind \in {"commit", "rollback"}
                   THEN s ELSE Die(s)
        base == IF c.kind = "rollback" THEN [s EXCEPT !.pending = "none"] ELSE s
    IN  IF ~IsIdle(s) THEN Settle(refused, i, "busy")
        ELSE IF s.dead THEN Settle(refused, i, "error")
        ELSE [Post(base, i, VerbOf(c), c.name, open) EXCEPT !.calls[i].pc = "running"]

(* opensSavepoint: a statement with a signal of its own asks the worker     *)
(* what it is, unless the library knows.                                    *)
Asks(s, c) == c.own /\ ~s.readOnly /\ c.kind \in {"read", "write", "gen"}

(* The call's turn: nothing of the transaction is before it.                *)
Take(s, i) ==
    LET c == s.calls[i] IN
    IF Asks(s, c) THEN [s EXCEPT !.calls[i].pc = "asking"]
                  ELSE Start(s, i, c.own /\ ~s.readOnly /\ c.kind = "batch")

(* Its place in the queue, and its turn at once when there is no one before *)
(* it and no abandoned write still runs.                                    *)
Enqueue(s, i) ==
    LET placed == [s EXCEPT !.calls[i].prior = s.tail, !.calls[i].pc = "waiting",
                            !.tail = i]
    IN IF s.tail = Nobody /\ s.abandoned = Nobody THEN Take(placed, i) ELSE placed

-----------------------------------------------------------------------------
(***************************************************************************)
(* The callback                                                            *)
(***************************************************************************)

NewCall(kind, own, name, keep) ==
    [kind |-> kind, own |-> own, name |-> name, keep |-> keep,
     prior |-> Nobody, pc |-> "fresh", told |-> "nothing"]

(* A method of the handle is reached while the transaction has not ended,   *)
(* from the callback, or from code it left running.                         *)
Reachable(kind) ==
    /\ x.ending = "none"
    /\ x.begun
    /\ \/ x.pc = "callback"
       \/ x.pc \in {"closing", "ready", "concluding"} /\ kind \in x.sc.unawaited

Make(c) ==
    LET i == Len(x.calls) + 1
        made == [x EXCEPT !.calls = Append(@, c)]
    IN  /\ i <= x.sc.calls
        /\ x' = IF c.kind = "gen" THEN made ELSE Enqueue(made, i)

(* run, all, first, writeDirect, chunk, stream, a batch's reserve           *)
Issue(kind, own) ==
    /\ Statement(kind)
    /\ Reachable(kind)
    /\ x.readOnly => kind # "batch"
    /\ Make(NewCall(kind, own, Library, FALSE))

(* tx.commit() and tx.rollback()                                            *)
Conclude(kind) ==
    /\ kind \in {"commit", "rollback"}
    /\ Reachable(kind)
    /\ Make(NewCall(kind, FALSE, Library, FALSE))

(* The first next() of a generator: it joins the queue only now.            *)
Pull(i) ==
    /\ x.calls[i].kind = "gen"
    /\ x.calls[i].pc = "fresh"
    /\ x.pc = "callback" \/ "gen" \in x.sc.unawaited
    /\ i \notin x.closing
    /\ x' = IF x.ending = "none" THEN Enqueue(x, i)
            ELSE [x EXCEPT !.calls[i].pc = "over", !.calls[i].told = "closed"]

(* savepoint(): the library's copy of the stack is updated at the call.     *)
OpenSavepoint(name) ==
    /\ Reachable("savepoint")
    /\ ~x.readOnly
    /\ \A i \in ToSet(x.stack) : x.calls[i].name # name
    /\ Len(x.calls) < x.sc.calls
    /\ LET i == Len(x.calls) + 1
           made == [x EXCEPT !.calls = Append(@, NewCall("savepoint", FALSE, name, FALSE)),
                             !.stack = Append(@, i)]
       IN x' = Enqueue(made, i)

(* The stack below a savepoint, and with it.                                *)
Below(stack, i) == SubSeq(stack, 1, SelectInSeq(stack, LAMBDA e : e = i) - 1)

(* Mutant: a rollback that keeps its savepoint forgets those above it.      *)
StackAfter_KeepsAbove(stack, kind, i, keep) ==
    IF kind = "rollbackTo" /\ keep THEN stack ELSE Below(stack, i)

(* RELEASE closes the savepoint and those above it, ROLLBACK TO those above *)
(* it, and itself unless it is to be kept.                                  *)
StackAfter(stack, kind, i, keep) ==
    IF kind = "rollbackTo" /\ keep THEN Append(Below(stack, i), i)
                                   ELSE Below(stack, i)

(* handle.release() and handle.rollback(), on a handle whose SAVEPOINT has  *)
(* succeeded.  One already closed sends nothing.                            *)
UseSavepoint(kind, i, keep) ==
    /\ kind \in {"release", "rollbackTo"}
    /\ Reachable(kind)
    /\ i \in ToSet(x.stack)
    /\ x.calls[i].told = "ok"
    /\ kind = "release" => ~keep
    /\ Len(x.calls) < x.sc.calls
    /\ LET j == Len(x.calls) + 1
           made == [x EXCEPT !.calls = Append(@, NewCall(kind, FALSE, x.calls[i].name, keep)),
                             !.stack = StackAfter(@, kind, i, keep)]
       IN x' = Enqueue(made, j)

-----------------------------------------------------------------------------
(***************************************************************************)
(* Waiting, verdicts and signals                                           *)
(***************************************************************************)

(* waitFor: the turn comes once the place before and the abandoned write    *)
(* are over; a call that waited checks that the transaction has not ended.  *)
Turn(i) ==
    /\ x.calls[i].pc = "waiting"
    /\ x.calls[i].prior = Nobody
    /\ x.abandoned = Nobody
    /\ x' = IF x.ending = "none" THEN Take(x, i) ELSE Settle(x, i, "closed")

(* The transaction's signal rejects a call that waits, the reserved place   *)
(* of a batch excepted.                                                     *)
Reject(i) ==
    /\ x.cut
    /\ \/ x.calls[i].pc = "waiting" /\ x.calls[i].kind # "batch"
       \/ x.calls[i].pc = "asking"
    /\ x' = Settle(x, i, "closed")

(* kindAt: the worker's verdict, between two queries.  A failed one counts  *)
(* as "write".                                                              *)
Answer(i, open) ==
    /\ x.calls[i].pc = "asking"
    /\ ~x.cut
    /\ IsIdle(x) \/ x.busy.stage # "posted"
    /\ x.calls[i].kind # "read" => open
    /\ x' = Start(x, i, open)

(* A batch whose writer's signal has fired is skipped at its turn.          *)
SkipBatch(i) ==
    /\ x.calls[i].kind = "batch"
    /\ x.calls[i].own
    /\ x.calls[i].pc = "waiting"
    /\ x.calls[i].prior = Nobody
    /\ x' = Settle(x, i, "cut")

(* abandon: the caller has its rejection and the write runs on; the next    *)
(* message will undo it, and everyone waits until it is over.               *)
Abandon(s, i) ==
    LET given == LeaveQueue(Told(s, i, "cut"), i) IN
    [given EXCEPT !.calls[i].pc = "left", !.pending = "undo", !.abandoned = i]

(* A statement is stopped: interrupt() and the transport's return().        *)
Stop(s) == [s EXCEPT !.busy = Halted(@, TRUE)]

(* The signal of one call fires.                                            *)
CutOwn(i) ==
    LET c == x.calls[i] IN
    /\ c.own
    /\ \/ /\ c.pc \in {"waiting", "asking"}
          /\ c.kind # "batch"
          /\ c.pc = "waiting" /\ x.tail = i => "last" \in x.sc.faults
          /\ x' = Settle(x, i, "cut")
       \/ /\ c.pc = "running"
          /\ x' = IF x.busy.open THEN Abandon(x, i)
                  ELSE [Stop(x) EXCEPT !.calls[i].pc = "stopping"]
       \/ /\ c.pc = "delivering"
          /\ x' = Stop(x)

(* The caller's signal, the deadline or close().  It reaches the handle     *)
(* until the finally block detaches it.                                     *)
CutTransaction ==
    /\ "transaction" \in x.sc.signals
    /\ ~x.cut
    /\ x.pc \notin {"publishing", "released"}
    /\ x' = Cut(x)

-----------------------------------------------------------------------------
(***************************************************************************)
(* The worker: the savepoint prelude, the statement, the reply             *)
(***************************************************************************)

OutOfTransaction == [in |-> FALSE, log |-> <<>>]

(* The last savepointed write is kept, or undone.                           *)
Concluded(log, conclude) ==
    IF conclude = "undo" THEN Released(RolledBackTo(log, Library), Library)
    ELSE IF conclude = "release" THEN Released(log, Library) ELSE log

(* The prelude concludes the last savepointed write and opens the next.     *)
Prelude(conn, m) ==
    LET concluded == Concluded(conn.log, m.conclude) IN
    IF m.open THEN [in |-> TRUE, log |-> Append(concluded, Mark(Library))]
              ELSE [conn EXCEPT !.log = concluded]

PreludeFits(conn, m) == m.conclude # "none" => HasMark(conn.log, Library)

(* The statement itself.  Outside a transaction a write commits by itself.  *)
Fits(conn, m) ==
    CASE m.verb = "begin"                     -> ~conn.in
      [] m.verb \in {"commit", "rollback"}    -> conn.in
      [] m.verb \in {"release", "rollbackTo"} -> HasMark(conn.log, m.name)
      [] m.verb = "write"                     -> ~x.readOnly
      [] OTHER                                -> TRUE

Executed(conn, m) ==
    CASE m.verb = "begin"                  -> [in |-> TRUE, log |-> <<>>]
      [] m.verb \in {"commit", "rollback"} -> OutOfTransaction
      [] m.verb = "write" /\ conn.in ->
             [conn EXCEPT !.log = Append(@, Effect(m.call))]
      [] m.verb = "savepoint" ->
             [in |-> TRUE, log |-> Append(conn.log, Mark(m.name))]
      [] m.verb = "release"    -> [conn EXCEPT !.log = Released(@, m.name)]
      [] m.verb = "rollbackTo" -> [conn EXCEPT !.log = RolledBackTo(@, m.name)]
      [] OTHER                 -> conn

Written(conn, m) ==
    CASE m.verb = "commit"               -> Effects(conn.log)
      [] m.verb = "write" /\ ~conn.in    -> {m.call}
      [] OTHER                           -> {}

Posted == ~IsIdle(x) /\ x.busy.stage = "posted"

(* A generator's write is stepped to its end before its rows are delivered. *)
Succeeds ==
    /\ Posted
    /\ PreludeFits(x.conn, x.busy)
    /\ LET m == x.busy
           conn == Prelude(x.conn, m)
       IN  /\ Fits(conn, m)
           /\ x' = [x EXCEPT
                 !.conn = Executed(conn, m),
                 !.db = @ \cup Written(conn, m),
                 !.busy.stage = IF m.verb = "write" /\ x.calls[m.call].kind = "gen"
                                THEN "affected" ELSE "ended"]

(* A statement fails or is interrupted and the transaction stays open.      *)
Fails ==
    /\ Posted
    /\ PreludeFits(x.conn, x.busy)
    /\ LET m == x.busy
           conn == Prelude(x.conn, m)
       IN  /\ \/ ~Fits(conn, m)
              \/ m.verb \in {"read", "write"} /\ "fail" \in x.sc.faults
              \/ m.verb = "read" /\ m.stop
              \/ /\ m.verb \notin {"read", "write"}
                 /\ "control" \in x.sc.faults
                 /\ m.verb = "rollback" /\ m.call # 0 => "explicit" \in x.sc.faults
           /\ x' = [x EXCEPT !.conn = conn, !.busy.stage = "ended",
                             !.busy.failed = TRUE]

(* The connection leaves the transaction: an interrupted write, a failure   *)
(* SQLite answers with a rollback, or a prelude that fails, after which the *)
(* worker itself rolls back.                                                *)
Leaves ==
    /\ Posted
    /\ \/ x.busy.verb = "write" /\ (x.busy.stop \/ "left" \in x.sc.faults)
       \/ x.busy.verb = "commit" /\ "control" \in x.sc.faults
       \/ x.busy.conclude # "none" /\ "control" \in x.sc.faults
       \/ ~PreludeFits(x.conn, x.busy)
    /\ x.busy.verb = "commit" /\ x.busy.call # 0 => "explicit" \in x.sc.faults
    /\ x' = [x EXCEPT !.conn = OutOfTransaction, !.busy.stage = "ended",
                      !.busy.failed = TRUE]

(* The worker dies: what is in flight fails, and nobody is told how the     *)
(* connection stands.                                                       *)
Crash ==
    /\ "crash" \in x.sc.faults
    /\ ~x.dead
    /\ x.pc \notin {"acquiring", "released"}
    /\ x' = [x EXCEPT !.dead = TRUE, !.conn = OutOfTransaction,
                      !.busy = IF @ = Idle THEN Idle
                               ELSE [@ EXCEPT !.stage = "ended", !.failed = TRUE]]

-----------------------------------------------------------------------------
(***************************************************************************)
(* The reply                                                               *)
(***************************************************************************)

(* The query is over: worker.inTransaction is what its reply said.          *)
Replied(s) ==
    [s EXCEPT !.busy = Idle,
              !.said = IF s.dead THEN @ ELSE IF s.conn.in THEN "in" ELSE "out"]

(* The account of what callers were told (see AtomicTx).                    *)
Recorded(s, i) ==
    LET c == s.calls[i] IN
    [s EXCEPT !.ledger =
        CASE VerbOf(c) = "write"     -> Append(@, Effect(i))
          [] c.kind = "savepoint"    -> Append(@, Mark(c.name))
          [] c.kind = "release"      -> Released(@, c.name)
          [] c.kind = "rollbackTo"   -> IF c.keep THEN RolledBackTo(@, c.name)
                                        ELSE Released(RolledBackTo(@, c.name), c.name)
          [] OTHER                   -> @]

(* Mutant: the signal that fires during a COMMIT has the last word.         *)
Committed_UnlessDied(s) ==
    [s EXCEPT !.done = TRUE, !.ending = IF @ = "none" THEN "committed" ELSE @]

Committed(s) == [s EXCEPT !.done = TRUE, !.ending = "committed"]
RolledBack(s) == [s EXCEPT !.done = TRUE,
                           !.ending = IF @ = "none" THEN "rolled-back" ELSE @]

(* A savepoint verb: ROLLBACK TO is followed by RELEASE in the same place,  *)
(* unless the transaction ended in between.                                 *)
ControlReplied(s, i, failed) ==
    LET c == s.calls[i] IN
    IF failed THEN Settle(Die(s), i, "error")
    ELSE IF c.kind = "rollbackTo" /\ ~c.keep /\ c.pc = "running"
    THEN IF s.ending # "none" THEN Settle(s, i, "closed")
         ELSE [Post(s, i, "release", c.name, FALSE) EXCEPT !.calls[i].pc = "dropping"]
    ELSE Recorded(Settle(s, i, "ok"), i)

StatementReplied(s, i, m) ==
    LET verdict == IF s.calls[i].pc = "stopping" THEN "cut"
                   ELSE IF m.stop THEN "closed"
                   ELSE IF m.failed THEN "error" ELSE "ok"
        fresh == s.calls[i].told = "nothing"
        settled == Settle(DieIfLeft(s), i, verdict)
    IN IF verdict = "ok" /\ fresh THEN Recorded(settled, i) ELSE settled

(* The page hears that a call's query is over, and the call settles.        *)
HearCall ==
    /\ ~IsIdle(x)
    /\ x.busy.stage = "ended"
    /\ x.busy.call # 0
    /\ LET m == x.busy
           i == m.call
           s == Replied(x)
       IN x' = IF x.calls[i].pc = "left"
               THEN [DieIfLeft(s) EXCEPT !.calls[i].pc = "over",
                           !.abandoned = IF @ = i THEN Nobody ELSE @]
               ELSE IF Statement(x.calls[i].kind) THEN StatementReplied(s, i, m)
               ELSE IF x.calls[i].kind \in {"savepoint", "release", "rollbackTo"}
               THEN ControlReplied(s, i, m.failed)
               ELSE IF m.failed THEN Settle(s, i, "error")
               ELSE IF x.calls[i].kind = "commit" THEN Committed(Settle(s, i, "ok"))
               ELSE RolledBack(Settle(s, i, "ok"))

(* The count of a generator's write: from here on the write stays.  An      *)
(* abandoned or stopped one is drained to its end.                          *)
HearAffected ==
    /\ ~IsIdle(x)
    /\ x.busy.stage = "affected"
    /\ LET i == x.busy.call IN
       x' = IF x.calls[i].pc = "running" /\ ~x.busy.stop
            THEN Recorded(Told([x EXCEPT !.busy.stage = "delivering",
                                         !.calls[i].pc = "delivering"], i, "ok"), i)
            ELSE [x EXCEPT !.busy.stage = "ended"]

(* The consumer reads a generator to its end, or leaves it.                 *)
Consume ==
    /\ ~IsIdle(x)
    /\ x.busy.stage = "delivering"
    /\ x' = [x EXCEPT !.busy.stage = "ended"]

-----------------------------------------------------------------------------
(***************************************************************************)
(* The transaction itself                                                  *)
(***************************************************************************)

(* The generators handed out and not finished.                              *)
OpenStatements(s) ==
    {i \in DOMAIN s.calls : /\ s.calls[i].kind = "gen"
                            /\ s.calls[i].pc \notin {"left", "over"}}

(* The catch block: the transaction dies, and closes what is open.          *)
Fail(s) == [Die(s) EXCEPT !.pc = "unwinding", !.closing = OpenStatements(s)]

(* The lease is granted, and BEGIN goes out unless the signal has fired.    *)
Acquire ==
    /\ x.pc = "acquiring"
    /\ ~x.cut
    /\ x' = [Post(x, 0, "begin", Library, FALSE) EXCEPT !.pc = "begin"]

(* The signal ends the wait for a lease: there is nothing to give back.     *)
AcquireRejected ==
    /\ x.pc = "acquiring"
    /\ x.cut
    /\ x' = [x EXCEPT !.pc = "released"]

(* The callback may return with generators open, and, where the instance    *)
(* says so, with calls it did not await.                                    *)
MayReturn ==
    \A i \in Unsettled(x) :
        LET c == x.calls[i] IN
        \/ c.pc \in {"fresh", "delivering", "left"}
        \/ c.kind \in x.sc.unawaited /\ (Asks(x, c) => "asked" \in x.sc.unawaited)

Return ==
    /\ x.pc = "callback"
    /\ ~x.cut
    /\ MayReturn
    /\ x' = [x EXCEPT !.pc = "closing", !.closing = OpenStatements(x)]

(* The callback throws, or the signal wins the race against it.             *)
Throw ==
    /\ x.pc = "callback"
    /\ x' = Fail(x)

(* closeOpenStatements closes one generator after the other, oldest first:  *)
(* interrupt(), then return(), which waits behind a next() in flight.       *)
CloseOne ==
    /\ x.pc \in {"closing", "unwinding"}
    /\ x.closing # {}
    /\ LET i == Min(x.closing)
           c == x.calls[i]
           rest == [x EXCEPT !.closing = @ \ {i}]
       IN  \/ /\ c.pc \in {"left", "over"}
              /\ x' = rest
           \/ /\ c.pc = "fresh"
              /\ x' = [rest EXCEPT !.calls[i].pc = "over", !.calls[i].told = "closed"]
           \/ /\ c.pc \in {"running", "delivering"}
              /\ x.busy.stage # "ended"
              /\ ~x.busy.stop
              /\ x' = Stop(x)

(* quiesce(), and the COMMIT or ROLLBACK is next.                           *)
Closed ==
    /\ x.pc = "closing"
    /\ x.closing = {}
    /\ IsIdle(x)
    /\ x' = [x EXCEPT !.pc = IF x.done THEN "finishing" ELSE "ready"]

(* The COMMIT waits for a write given up by its signal, and takes no place  *)
(* in the queue.                                                            *)
ConcludeItself ==
    /\ x.pc = "ready"
    /\ x.cut \/ x.abandoned = Nobody
    /\ x' = IF x.cut \/ ~IsIdle(x) \/ x.dead THEN Fail(x)
            ELSE IF x.autoCommit
            THEN [Post(x, 0, "commit", Library, FALSE) EXCEPT !.pc = "concluding"]
            ELSE [Post([x EXCEPT !.pending = "none"], 0, "rollback", Library, FALSE)
                     EXCEPT !.pc = "concluding"]

(* Mutant: a transaction cut by its signal is left to the worker.           *)
OwesRollback_UnlessCut(s) == s.begun /\ ~s.done /\ s.said # "out" /\ ~s.cut

OwesRollback(s) == s.begun /\ ~s.done /\ s.said # "out"

(* After an error: ROLLBACK, unless the connection has left already.        *)
Unwind ==
    /\ x.pc = "unwinding"
    /\ x.closing = {}
    /\ IsIdle(x)
    /\ x' = IF ~OwesRollback(x) THEN [x EXCEPT !.pc = "finishing"]
            ELSE IF x.dead THEN [x EXCEPT !.pc = "finishing", !.poisoned = TRUE]
            ELSE [Post([x EXCEPT !.pending = "none"], 0, "rollback", Library, FALSE)
                     EXCEPT !.pc = "rolling"]

(* The replies to the transaction's own BEGIN, COMMIT and ROLLBACK.  A      *)
(* failed ROLLBACK gives the worker up (onPoisoned).                        *)
HearOwn ==
    /\ ~IsIdle(x)
    /\ x.busy.call = 0
    /\ x.busy.stage = "ended"
    /\ LET m == x.busy
           s == Replied(x)
       IN x' = CASE x.pc = "begin" ->
                        IF m.failed THEN Fail(s)
                        ELSE IF s.cut THEN Fail([s EXCEPT !.begun = TRUE])
                        ELSE [s EXCEPT !.begun = TRUE, !.pc = "callback"]
                 [] x.pc = "concluding" ->
                        IF m.failed THEN Fail(s)
                        ELSE [IF m.verb = "commit" THEN Committed(s) ELSE RolledBack(s)
                                 EXCEPT !.pc = "finishing"]
                 [] x.pc = "rolling" ->
                        [IF m.failed THEN [s EXCEPT !.poisoned = TRUE] ELSE RolledBack(s)
                            EXCEPT !.pc = "finishing"]

(* The finally block: no path leaves the handle open.                       *)
Finish ==
    /\ x.pc = "finishing"
    /\ x' = [x EXCEPT !.pc = "publishing",
                      !.ending = IF @ = "none" THEN "rolled-back" ELSE @]

(* afterWrite() has published, and quiesce() has found the worker idle: the *)
(* lease goes back.                                                         *)
Release ==
    /\ x.pc = "publishing"
    /\ IsIdle(x)
    /\ x' = [x EXCEPT !.pc = "released"]

-----------------------------------------------------------------------------
Callback ==
    \/ \E kind \in x.sc.kinds : \/ \E own \in {FALSE, "call" \in x.sc.signals} : Issue(kind, own)
                           \/ Conclude(kind)
                           \/ \E i \in DOMAIN x.calls, keep \in BOOLEAN :
                                  UseSavepoint(kind, i, keep)
    \/ "savepoint" \in x.sc.kinds /\ \E n \in x.sc.names : OpenSavepoint(n)
    \/ \E i \in DOMAIN x.calls : Pull(i)
    \/ Consume
    \/ Return
    \/ Throw

Signals == CutTransaction \/ \E i \in DOMAIN x.calls : CutOwn(i)

Waiting ==
    \E i \in DOMAIN x.calls :
        Turn(i) \/ Reject(i) \/ SkipBatch(i) \/ \E open \in BOOLEAN : Answer(i, open)

Worker == Succeeds \/ Fails \/ Leaves

Page == HearCall \/ HearAffected \/ HearOwn

Itself ==
    \/ Acquire \/ AcquireRejected \/ CloseOne \/ Closed \/ ConcludeItself
    \/ Unwind \/ Finish \/ Release

Next == Callback \/ Signals \/ Waiting \/ Worker \/ Crash \/ Page \/ Itself

Spec == Init /\ [][Next]_x

(* The worker, the page's tasks and the transaction's own steps go on; the  *)
(* callback need do nothing, except that the signal wins its race.          *)
FairSpec ==
    /\ Spec
    /\ WF_x(Waiting) /\ WF_x(Worker) /\ WF_x(Page) /\ WF_x(Itself)
    /\ WF_x(x.cut /\ Throw)

-----------------------------------------------------------------------------
(***************************************************************************)
(* Properties                                                              *)
(***************************************************************************)

(* The calls as AtomicTx sees them.                                         *)
AskedOf(i) ==
    IF i \notin DOMAIN x.calls \/ x.calls[i].kind \in {"read", "commit", "rollback"}
    THEN [verb |-> "none", name |-> "none"]
    ELSE LET c == x.calls[i] IN
         [name |-> c.name,
          verb |-> CASE VerbOf(c) = "write"               -> "write"
                     [] c.kind = "rollbackTo" /\ c.keep   -> "undo"
                     [] c.kind = "rollbackTo" /\ ~c.keep  -> "drop"
                     [] OTHER                             -> c.kind]

ToldOf(i) == IF AskedOf(i).verb = "none" THEN "nothing" ELSE x.calls[i].told

Abstract ==
    INSTANCE AtomicTx WITH
        Calls  <- Calls,
        asked  <- [i \in Calls |-> AskedOf(i)],
        told   <- [i \in Calls |-> ToldOf(i)],
        ledger <- x.ledger,
        db     <- x.db,
        over   <- x.pc \notin {"acquiring", "begin"} /\ ~x.conn.in

(* transaction() implements AtomicTx: the file changes once, at a COMMIT,   *)
(* and to exactly the writes whose callers were told "ok" and that no       *)
(* rollback to a savepoint took back.  A write given up by its own signal,  *)
(* refused or failed is not among them, though it may have run.             *)
Atomic == Abstract!Spec

(* A connection goes back to the pool outside any transaction, or its       *)
(* worker is given up (transaction.ts, onPoisoned).                         *)
NeverReturnedOpen ==
    x.pc = "released" => ~x.conn.in \/ x.poisoned \/ x.dead

(* Once the transaction has ended, nothing the handle does reaches the      *)
(* worker, which may be serving somebody else (the comment on `ending`).    *)
NothingAfterEnding ==
    [][x.busy.stage # "posted" /\ x'.busy.stage = "posted"
           => x'.busy.call = 0 \/ x.ending = "none"]_x

(* The library's copy of the savepoint stack is SQLite's, whenever nothing  *)
(* is on its way to the connection.                                         *)
StackAgrees ==
    x.pc = "callback" /\ x.ending = "none" /\ ~x.dead /\ IsIdle(x) /\ x.tail = Nobody
        => [k \in DOMAIN x.stack |-> x.calls[x.stack[k]].name]
             = LET marks == SelectSeq(x.conn.log, LAMBDA e : IsMark(e) /\ e.name # Library)
               IN [k \in DOMAIN marks |-> marks[k].name]

(* Calls of one transaction wait for each other: none meets the pool's      *)
(* reuse guard (the comments on `tail` and on mine.resolve(prior)).         *)
NeverBusy == \A i \in DOMAIN x.calls : x.calls[i].told # "busy"

(* What the handle says of its ending is what became of the data.           *)
EndingTruthful ==
    x.pc = "released" =>
        /\ x.ending # "none"
        /\ x.db # {} /\ ~x.dead => x.ending = "committed"
        /\ x.ending = "committed" => x.db = Effects(x.ledger)

(* A transaction whose signal has fired, or whose callback is over, gives   *)
(* its lease back, whatever was left open, and then no call of it waits for *)
(* ever (waitFor, closeOpenStatements, quiesce).                            *)
TransactionEnds ==
    /\ (x.cut \/ x.pc \notin {"acquiring", "begin", "callback"}) ~> x.pc = "released"
    /\ x.pc = "released" ~> \A i \in DOMAIN x.calls : x.calls[i].pc \in {"fresh", "over"}

=============================================================================
