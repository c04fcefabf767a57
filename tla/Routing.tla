------------------------------ MODULE Routing ------------------------------
(***************************************************************************)
(* Where the client sends a statement (client.ts, verdicts.ts, queries.ts).  *)
(*                                                                         *)
(* A worker says whether a text reads or writes; the answer is shared by     *)
(* the callers that wait for it, and memoised.  A read goes to any worker,   *)
(* a write to the writer.  A verdict depends on the schema, which other      *)
(* callers and other tabs change, so a worker refuses a write that was sent  *)
(* as a read, before it changes anything, and the client sends it again.     *)
(* Leases are granted as Scheduler says; a statement is one step of the      *)
(* worker, except that a stream's rows are delivered one chunk at a time.    *)
(***************************************************************************)
EXTENDS Integers, Sequences, FiniteSets

CONSTANTS
    Calls,          \* the calls of run(), first() and stream()
    Signalled,      \* those with a signal or a deadline
    Methods,        \* which of the three each may be
    Texts,          \* the SQL texts they use
    TxTexts,        \* those a transaction uses on the same client
    Long,           \* those longer than the memo's maxLength
    MaxEntries,     \* the memo's bound
    Initially,      \* the schemas a client may find
    MaxChanges,     \* bound on the changes of the schema
    MaxAsks,        \* bound on the verdicts asked for
    Faults          \* what may go wrong at a worker

(* Texts: "select" needs a table; "ensure" (CREATE TABLE IF NOT EXISTS ...  *)
(* AS SELECT) needs it too, and writes until its own exists; "two" holds    *)
(* two statements.  Faults: "busy", SQLITE_BUSY of a statement; "passing",  *)
(* BUSY, INTERRUPT or LOCKED of a verdict or of its barrier; "death" of the *)
(* worker that gives a verdict; "error", any other failure of a statement   *)
(* (its worker's death among them), of a verdict or of its barrier.         *)
ASSUME RoutingAssumption ==
    /\ Signalled \subseteq Calls
    /\ Methods \in [Calls -> SUBSET {"run", "first", "stream"}]
    /\ Texts \cup TxTexts \subseteq {"select", "ensure", "two"}
    /\ Long \subseteq Texts
    /\ Initially \subseteq [table : BOOLEAN, target : BOOLEAN]
    /\ MaxEntries \in Nat /\ MaxChanges \in Nat /\ MaxAsks \in Nat
    /\ Faults \subseteq {"busy", "passing", "death", "error"}

VARIABLES
    memo,           \* verdicts: the least recently used entry first
    asks,           \* the verdicts asked for
    calls,          \* the callers
    schema          \* what is committed, and what a connection may still see

vars == <<memo, asks, calls, schema>>

-----------------------------------------------------------------------------
(***************************************************************************)
(* State                                                                   *)
(***************************************************************************)

NoAsk == 0

Schemas == [table : BOOLEAN, target : BOOLEAN]

Empty == [table |-> FALSE, target |-> FALSE]

Entry == [text : Texts \cup TxTexts, verdict : {"asking", "read", "write", "refused"},
          ask : 0 .. MaxAsks]

(* A verdict in flight (Asking), with askVerdict's loop: what the barrier   *)
(* let its worker see, and whether the table existed when it was asked for. *)
Ask == [text : Texts, waiters : SUBSET Calls, settled : BOOLEAN,
        cancelled : BOOLEAN, free : BOOLEAN, lease : {"none", "free", "borrowed"},
        failed : SUBSET {"passing", "death"}, sees : Schemas, knew : BOOLEAN,
        pc : {"acquiring", "asked", "barrier", "again", "over"},
        answer : {"none", "read", "write", "refused", "prepare", "passing",
                  "death", "error", "cancelled"}]

(* A call.  wrote counts the times its statement changed the file, from the *)
(* attempts whose rows its caller has seen, counted the attempt whose count *)
(* it was told.  Its pc: "made" (a generator not pulled), waiting for a     *)
(* "verdict" or for a lease, "running", "delivering" a stream's rows,       *)
(* "over".                                                                  *)
Call == [method : {"run", "first", "stream"}, text : Texts, ask : 0 .. MaxAsks,
         kind : {"read", "write"}, attempt : Nat \ {0}, delivered : BOOLEAN,
         early : BOOLEAN, aborted : BOOLEAN, wrote : Nat, from : SUBSET Nat,
         counted : Nat,
         told : {"nothing", "ok", "multiple", "prepare", "notARead", "closed",
                 "aborted", "cancelled", "busy", "error", "passing", "death"},
         pc : {"made", "verdict", "leasing", "running", "delivering", "over"}]

NewCall(method, text) ==
    [method |-> method, text |-> text, ask |-> NoAsk, kind |-> "read",
     attempt |-> 1, delivered |-> FALSE, early |-> FALSE, aborted |-> FALSE,
     wrote |-> 0, from |-> {}, counted |-> 0, told |-> "nothing",
     pc |-> "made"]

NoCall == [pc |-> "idle"]

(* Every variable keeps its type.                                           *)
TypeOK ==
    /\ memo \in Seq(Entry)
    /\ asks \in Seq(Ask) /\ Len(asks) <= MaxAsks
    /\ calls \in [Calls -> Call \cup {NoCall}]
    /\ schema \in [now : Schemas, past : SUBSET Schemas]

Started == {c \in Calls : calls[c].pc # "idle"}

Init ==
    /\ memo = <<>>
    /\ asks = <<>>
    /\ calls = [c \in Calls |-> NoCall]
    /\ \E now \in Initially : schema = [now |-> now, past |-> {}]

(* What a connection that has not gone through the barrier may see.         *)
Seen == schema.past \cup {schema.now}

(* What a prepare on a connection that sees s says of a text (verdictOf).   *)
Prepared(text, s) ==
    CASE text = "two"                   -> "refused"
      [] text # "two" /\ ~s.table       -> "prepare"
      [] text = "select" /\ s.table     -> "read"
      [] text = "ensure" /\ s.table     -> IF s.target THEN "read" ELSE "write"

Runs(text) == Prepared(text, schema.now) \in {"read", "write"}

Writes(text) == Prepared(text, schema.now) = "write"

-----------------------------------------------------------------------------
(***************************************************************************)
(* The memo (createVerdictMemo)                                            *)
(***************************************************************************)

Held(m, text) == {m[i] : i \in {j \in DOMAIN m : m[j].text = text}}

(* The memo has one entry per text, as a Map has per key.                   *)
Without(m, text) ==
    IF Held(m, text) = {} THEN m
    ELSE LET j == CHOOSE i \in DOMAIN m : m[i].text = text
         IN [i \in 1 .. Len(m) - 1 |-> IF i < j THEN m[i] ELSE m[i + 1]]

(* get: the entry becomes the most recently used.                           *)
Used(m, text) ==
    IF Held(m, text) = {} THEN m
    ELSE Append(Without(m, text), CHOOSE e \in Held(m, text) : TRUE)

MemoSet(m, text, verdict, ask) ==
    LET grown == Append(Without(m, text),
                        [text |-> text, verdict |-> verdict, ask |-> ask])
    IN IF text \in Long THEN m
       ELSE IF Len(grown) > MaxEntries THEN Tail(grown) ELSE grown

(* Mutant: the answer replaces whatever the memo has come to hold.          *)
HoldsAsk_Any(m, text, k) == Held(m, text) # {}

HoldsAsk(m, text, k) == \E e \in Held(m, text) : e.ask = k /\ e.verdict = "asking"

Settled(m, text) == \E e \in Held(m, text) : e.verdict # "asking"

-----------------------------------------------------------------------------
(***************************************************************************)
(* kindFor, waitForKind                                                    *)
(***************************************************************************)

Misrouted(m, text) == MemoSet(m, text, "write", NoAsk)

(* The caller hears, and a stream's count settles with it (affectedSlot).   *)
Over(call, v) ==
    [call EXCEPT !.pc = "over", !.told = v, !.ask = NoAsk, !.kind = "read",
                 !.early = FALSE, !.delivered = FALSE]

(* The slot is settled once.                                                *)
Counted(call) == [call EXCEPT !.counted = IF @ = 0 THEN call.attempt ELSE @]

(* kindOf: a text of several statements is the caller's error.              *)
Kinded(call, verdict) ==
    IF verdict = "refused" THEN Over(call, "multiple")
    ELSE [call EXCEPT !.pc = "leasing", !.kind = verdict]

NewAsk(c, text) ==
    [text |-> text, waiters |-> {c}, settled |-> FALSE, cancelled |-> FALSE,
     free |-> FALSE, lease |-> "none", failed |-> {},
     sees |-> Empty, knew |-> schema.now.table, pc |-> "acquiring",
     answer |-> "none"]

Becomes(c, call) == calls' = [calls EXCEPT ![c] = call]

(* A call reaches kindFor: a verdict the memo holds is taken, one in flight *)
(* is joined, and otherwise one is asked for.                               *)
KindFor(c, call) ==
    LET held == Held(memo, call.text)
        k == Len(asks) + 1
    IN  \/ /\ Settled(memo, call.text)
           /\ memo' = Used(memo, call.text)
           /\ \E e \in held : Becomes(c, Kinded(call, e.verdict))
           /\ UNCHANGED asks
        \/ /\ held # {} /\ ~Settled(memo, call.text)
           /\ memo' = Used(memo, call.text)
           /\ \E e \in held :
                  /\ Becomes(c, [call EXCEPT !.pc = "verdict", !.ask = e.ask])
                  /\ asks' = [asks EXCEPT ![e.ask].waiters = @ \cup {c}]
        \/ /\ held = {}
           /\ k <= MaxAsks
           /\ memo' = MemoSet(memo, call.text, "asking", k)
           /\ Becomes(c, [call EXCEPT !.pc = "verdict", !.ask = k])
           /\ asks' = Append(asks, NewAsk(c, call.text))

(* run() and all() reach kindFor in the task they are called in; first()    *)
(* asks for no verdict.                                                     *)
Run(c, text) ==
    /\ calls[c].pc = "idle"
    /\ KindFor(c, NewCall("run", text))
    /\ UNCHANGED schema

First(c, text) ==
    /\ calls[c].pc = "idle"
    /\ Becomes(c, [NewCall("first", text) EXCEPT !.pc = "leasing"])
    /\ UNCHANGED <<memo, asks, schema>>

(* stream() and chunk() only hand a generator out.                          *)
Stream(c, text) ==
    /\ calls[c].pc = "idle"
    /\ Becomes(c, NewCall("stream", text))
    /\ UNCHANGED <<memo, asks, schema>>

(* The first next() of a generator.                                         *)
Pull(c) ==
    /\ calls[c].pc = "made"
    /\ IF calls[c].aborted
       THEN Becomes(c, Over(calls[c], "aborted")) /\ UNCHANGED <<memo, asks>>
       ELSE KindFor(c, calls[c])
    /\ UNCHANGED schema

(* Mutant: the first to leave cancels the request of the others.            *)
Left_First(k, c) ==
    LET a == asks[k] IN
    /\ asks' = [asks EXCEPT ![k].waiters = @ \ {c},
                            ![k].cancelled = @ \/ ~a.settled]
    /\ memo' = IF ~a.settled /\ HoldsAsk(memo, a.text, k)
               THEN Without(memo, a.text) ELSE memo

(* The finally of waitForKind: the last to leave cancels what it leaves,    *)
(* and takes it out of the memo.                                            *)
Left(k, c) ==
    LET a == asks[k]
        last == a.waiters = {c} /\ ~a.settled
    IN  /\ asks' = [asks EXCEPT ![k].waiters = @ \ {c},
                                ![k].cancelled = @ \/ last]
        /\ memo' = IF last /\ HoldsAsk(memo, a.text, k)
                   THEN Without(memo, a.text) ELSE memo

(* raceAbort: the caller's signal ends its wait, not the verdict.           *)
LeaveVerdict(c) ==
    /\ calls[c].pc = "verdict"
    /\ calls[c].aborted
    /\ Left(calls[c].ask, c)
    /\ Becomes(c, Over(calls[c], "aborted"))
    /\ UNCHANGED schema

(* The verdict, or its error, reaches a caller.                             *)
HearVerdict(c) ==
    /\ calls[c].pc = "verdict"
    /\ ~calls[c].aborted
    /\ LET k == calls[c].ask
           answer == asks[k].answer
       IN  /\ asks[k].settled
           /\ Left(k, c)
           /\ Becomes(c, IF answer \in {"read", "write", "refused"}
                         THEN Kinded(calls[c], answer) ELSE Over(calls[c], answer))
    /\ UNCHANGED schema

-----------------------------------------------------------------------------
(***************************************************************************)
(* askVerdict                                                              *)
(***************************************************************************)

(* The request settles; the memo keeps a verdict and forgets an error, if   *)
(* it still holds this request.                                             *)
SettleAsk(k, answer) ==
    LET a == asks[k]
        held == HoldsAsk(memo, a.text, k)
    IN  /\ asks' = [asks EXCEPT ![k] =
               [a EXCEPT !.pc = "over", !.settled = TRUE, !.answer = answer,
                         !.lease = "none", !.free = FALSE, !.failed = {},
                         !.sees = Empty]]
        /\ memo' = CASE ~held -> memo
                     [] held /\ answer \in {"read", "write", "refused"} ->
                            MemoSet(memo, a.text, answer, NoAsk)
                     [] OTHER -> Without(memo, a.text)

(* Mutant: the failures met so far are forgotten at each turn.              *)
AskMore_Forgetful(k, change) ==
    /\ asks' = [asks EXCEPT ![k] = [change EXCEPT !.pc = "acquiring", !.lease = "none",
                                                  !.failed = {}]]
    /\ UNCHANGED memo

(* The loop turns: another lease is asked for.                              *)
AskMore(k, change) ==
    /\ asks' = [asks EXCEPT ![k] = [change EXCEPT !.pc = "acquiring", !.lease = "none"]]
    /\ UNCHANGED memo

(* The scheduler's verdict lease: a free worker or, unless only a free one  *)
(* will do, a transaction's; or the request has been cancelled.             *)
AskAcquire(k) ==
    /\ asks[k].pc = "acquiring"
    /\ \/ /\ asks[k].cancelled
          /\ SettleAsk(k, "cancelled")
       \/ /\ ~asks[k].cancelled
          /\ \E lease \in {"free", "borrowed"} :
                 /\ asks[k].free => lease = "free"
                 /\ asks' = [asks EXCEPT ![k].pc = "asked", ![k].lease = lease]
          /\ UNCHANGED memo
    /\ UNCHANGED <<calls, schema>>

(* The prepare fails, or the barrier before the second: after a passing     *)
(* failure, or the worker's death, the verdict is asked for once more; any  *)
(* other failure is the call's.                                             *)
AskFails(k, why) ==
    LET a == asks[k] IN
    /\ why \in Faults
    /\ a.pc \in {"asked", "barrier", "again"}
    /\ IF why = "error" \/ why \in a.failed THEN SettleAsk(k, why)
       ELSE AskMore(k, [a EXCEPT !.failed = @ \cup {why}])
    /\ UNCHANGED <<calls, schema>>

(* The worker answers.  A failed prepare on a free worker is followed by    *)
(* the barrier, one on a transaction's by a free worker.                    *)
AskAnswers(k) ==
    /\ asks[k].pc = "asked"
    /\ \E s \in Seen :
           LET a == asks[k]
               answer == Prepared(a.text, s)
           IN CASE answer # "prepare" -> SettleAsk(k, answer)
                [] answer = "prepare" /\ a.lease = "borrowed" ->
                       AskMore(k, [a EXCEPT !.free = TRUE])
                [] OTHER -> /\ asks' = [asks EXCEPT ![k].pc = "barrier"]
                            /\ UNCHANGED memo
    /\ UNCHANGED <<calls, schema>>

(* applyBarrier: the worker sees what is committed.                         *)
AskBarrier(k) ==
    /\ asks[k].pc = "barrier"
    /\ asks' = [asks EXCEPT ![k].pc = "again", ![k].sees = schema.now]
    /\ UNCHANGED <<memo, calls, schema>>

(* The second failure is the statement's.                                   *)
AskAgain(k) ==
    /\ asks[k].pc = "again"
    /\ \E s \in {asks[k].sees, schema.now} : SettleAsk(k, Prepared(asks[k].text, s))
    /\ UNCHANGED <<calls, schema>>

-----------------------------------------------------------------------------
(***************************************************************************)
(* The statement runs: readWithRetry, streamWithRetry, runOnWriter         *)
(***************************************************************************)

(* A generator is closed before its first next(): nothing ran               *)
(* (settleOnClose).                                                         *)
CloseUnread(c) ==
    /\ calls[c].pc = "made"
    /\ calls[c].method = "stream"
    /\ Becomes(c, Over(calls[c], "closed"))
    /\ UNCHANGED <<memo, asks, schema>>

(* The caller's signal or the call's deadline fires.                        *)
Abort(c) ==
    /\ c \in Signalled
    /\ calls[c].pc \notin {"idle", "over"}
    /\ ~calls[c].aborted
    /\ calls' = [calls EXCEPT ![c].aborted = TRUE]
    /\ UNCHANGED <<memo, asks, schema>>

(* The lease is granted, or the signal ends the wait for it.                *)
Lease(c) ==
    /\ calls[c].pc = "leasing"
    /\ Becomes(c, IF calls[c].aborted THEN Over(calls[c], "aborted")
                  ELSE [calls[c] EXCEPT !.pc = "running"])
    /\ UNCHANGED <<memo, asks, schema>>

(* Mutant: any failure is tried again, whatever was sent.                   *)
Retries_AnyFailure(call, why) == call.attempt = 1 /\ ~call.delivered /\ ~call.aborted

(* A BUSY is tried again once, for a read that has delivered nothing.       *)
Retries(call, why) ==
    /\ why = "busy"
    /\ call.kind = "read"
    /\ call.attempt = 1
    /\ ~call.delivered
    /\ ~call.aborted

Retried(call) == [call EXCEPT !.pc = "leasing", !.attempt = @ + 1, !.early = FALSE]

(* The statement cannot be prepared, for all a verdict said: first() asked  *)
(* for none, and a transaction's may rest on changes it rolled back.        *)
Unprepared(c) ==
    LET now == Prepared(calls[c].text, schema.now) IN
    /\ calls[c].pc = "running"
    /\ now \in {"prepare", "refused"}
    /\ Becomes(c, Over(calls[c], IF now = "refused" THEN "multiple" ELSE "prepare"))
    /\ UNCHANGED <<memo, asks, schema>>

(* The worker refuses a write sent as a read, before its first step or on   *)
(* it: in a stream the count of a read may then have gone out already.      *)
Refused(c) ==
    /\ calls[c].pc = "running"
    /\ calls[c].kind = "read"
    /\ Writes(calls[c].text)
    /\ \/ /\ calls[c].method = "first"
          /\ Becomes(c, Over(calls[c], "notARead"))
          /\ UNCHANGED memo
       \/ /\ calls[c].method # "first"
          /\ memo' = Misrouted(memo, calls[c].text)
          /\ Becomes(c, [Retried(calls[c]) EXCEPT !.kind = "write"])
    /\ UNCHANGED <<asks, schema>>

(* A program prepared before the last change of the schema may still be in  *)
(* the worker's cache.                                                      *)
LooksRead(text) == \E s \in Seen : Prepared(text, s) = "read"

(* Mutant: a read's count is told as it comes.                              *)
CountZero_AtOnce(c) ==
    /\ calls[c].pc = "running"
    /\ calls[c].method = "stream"
    /\ ~calls[c].early
    /\ Runs(calls[c].text) /\ LooksRead(calls[c].text)
    /\ Becomes(c, Counted([calls[c] EXCEPT !.early = TRUE]))
    /\ UNCHANGED <<memo, asks, schema>>

(* A streamed statement the worker holds for a read announces a count of 0  *)
(* before its first step; the client keeps it until a row, if it sent a     *)
(* read.                                                                    *)
CountZero(c) ==
    /\ calls[c].pc = "running"
    /\ calls[c].method = "stream"
    /\ ~calls[c].early
    /\ Runs(calls[c].text) /\ LooksRead(calls[c].text)
    /\ LET announced == [calls[c] EXCEPT !.early = TRUE] IN
       Becomes(c, IF calls[c].kind = "write" THEN Counted(announced) ELSE announced)
    /\ UNCHANGED <<memo, asks, schema>>

(* The statement has run: a caller that has left hears nothing of it.  A    *)
(* streamed write is complete, its epoch published and its count told,      *)
(* before its rows.                                                         *)
Ran(c) ==
    LET call == calls[c]
        writes == Writes(call.text)
        done == [call EXCEPT !.wrote = IF writes THEN @ + 1 ELSE @]
    IN  /\ call.pc = "running"
        /\ Runs(call.text)
        /\ call.kind = "read" => ~writes
        /\ call.method = "stream" /\ ~writes => call.early
        /\ Becomes(c,
               CASE call.aborted -> Over(done, "aborted")
                 [] ~call.aborted /\ call.method = "stream" ->
                        [IF writes THEN Counted(done) ELSE done EXCEPT !.pc = "delivering"]
                 [] OTHER -> [Over(done, "ok") EXCEPT !.from = {call.attempt}])
        /\ UNCHANGED <<memo, asks, schema>>

(* A chunk is handed over.                                                  *)
Deliver(c) ==
    /\ calls[c].pc = "delivering"
    /\ ~calls[c].aborted
    /\ Becomes(c, [Counted(calls[c]) EXCEPT !.delivered = TRUE,
                                            !.from = @ \cup {calls[c].attempt}])
    /\ UNCHANGED <<memo, asks, schema>>

(* The stream ends, is closed by its consumer, or is cut by its signal.     *)
EndStream(c) ==
    /\ calls[c].pc = "delivering"
    /\ Becomes(c, IF calls[c].aborted THEN Over(calls[c], "aborted")
                  ELSE Over(Counted(calls[c]), "ok"))
    /\ UNCHANGED <<memo, asks, schema>>

(* statementError: a lock conflict is one outcome, any other a second.      *)
FailedWith(call, why) ==
    Over(call, IF why = "error" /\ call.aborted THEN "aborted" ELSE why)

(* The statement fails, before it has run or while its rows are delivered.  *)
(* A BUSY is a step's, and a write has taken its last one before its first  *)
(* row goes out (drainWrite).  Any other failure may come after the write   *)
(* took effect: of a worker that dies with its answer, or an answer lost.   *)
Fails(c) ==
    LET call == calls[c] IN
    /\ call.pc \in {"running", "delivering"}
    /\ \E why \in Faults \cap {"busy", "error"}, took \in {0, 1} :
          /\ why = "busy" => call.pc = "running" \/ call.wrote = 0
          /\ took = 1 => /\ why = "error" /\ call.pc = "running"
                         /\ call.kind = "write" /\ Writes(call.text)
          /\ LET failed == [call EXCEPT !.wrote = @ + took] IN
             Becomes(c, IF Retries(call, why) THEN Retried(failed)
                        ELSE FailedWith(failed, why))
    /\ UNCHANGED <<memo, asks, schema>>

-----------------------------------------------------------------------------
(***************************************************************************)
(* A transaction's verdicts, and the schema                                *)
(***************************************************************************)

(* kindOnWorker: unless the memo says "write" or "refused" the              *)
(* transaction's own worker is asked, which sees the transaction's changes  *)
(* too, and its answer is kept if the memo has none when it comes.          *)
TxVerdict(text) ==
    /\ ~Settled(memo, text)
    /\ \E s \in Schemas :
           /\ Prepared(text, s) # "prepare"
           /\ memo' = MemoSet(memo, text, Prepared(text, s), NoAsk)
    /\ UNCHANGED <<asks, calls, schema>>

(* Another caller, or another tab, changes the schema: the table is created *)
(* for good, the target created or dropped.                                 *)
Change ==
    /\ Cardinality(schema.past) < MaxChanges
    /\ \E now \in Schemas \ Seen :
           /\ schema.now.table => now.table
           /\ schema' = [now |-> now, past |-> Seen]
    /\ UNCHANGED <<memo, asks, calls>>

-----------------------------------------------------------------------------
Client(c) ==
    \/ LeaveVerdict(c) \/ HearVerdict(c) \/ Lease(c)

Worker(c) == Unprepared(c) \/ Refused(c) \/ CountZero(c) \/ Ran(c)

Asking(k) == AskAcquire(k) \/ AskAnswers(k) \/ AskBarrier(k) \/ AskAgain(k)

AskFailing(k) == \E why \in {"passing", "death", "error"} : AskFails(k, why)

Next ==
    \/ \E c \in Calls :
           \/ \E text \in Texts :
                  \/ "run" \in Methods[c] /\ Run(c, text)
                  \/ "first" \in Methods[c] /\ First(c, text)
                  \/ "stream" \in Methods[c] /\ Stream(c, text)
           \/ Pull(c)
           \/ CloseUnread(c) \/ Abort(c)
           \/ Client(c) \/ Worker(c) \/ Deliver(c) \/ EndStream(c) \/ Fails(c)
    \/ \E k \in DOMAIN asks : Asking(k) \/ AskFailing(k)
    \/ \E text \in TxTexts : TxVerdict(text)
    \/ Change

Spec == Init /\ [][Next]_vars

(* The page's tasks run, a lease is granted in the end and a worker         *)
(* answers; nobody need read a stream, abort a call or change the schema.   *)
FairSpec ==
    /\ Spec
    /\ \A c \in Calls : WF_vars(Client(c) \/ Worker(c))
    /\ \A k \in 1 .. MaxAsks : WF_vars(k \in DOMAIN asks /\ Asking(k))

-----------------------------------------------------------------------------
(***************************************************************************)
(* Properties                                                              *)
(***************************************************************************)

(* What a caller hears when nothing was written: a refusal of its text, a   *)
(* verdict that failed, a generator closed before it ran, a BUSY.           *)
Unwritten == {"multiple", "prepare", "notARead", "closed", "passing", "death",
              "cancelled", "busy"}

(* One call changes the file at most once, however often it was sent, and   *)
(* its caller sees the rows of one attempt only: a write is never tried     *)
(* again, nor a read that delivered something.  A caller told of a BUSY, of *)
(* a refusal or of a verdict that failed may call again: nothing was        *)
(* written.  One told of an abort or of any other error cannot know.        *)
AtMostOnce ==
    \A c \in Started :
        /\ calls[c].wrote <= 1
        /\ Cardinality(calls[c].from) <= 1
        /\ calls[c].told \in Unwritten => calls[c].wrote = 0

(* The count a stream's caller is told is that of the attempt that ran: a   *)
(* read's 0 that came before the statement was refused, or found busy, and  *)
(* sent again is not it.                                                    *)
CountTruthful ==
    \A c \in Started :
        /\ calls[c].counted \in {0, calls[c].attempt}
        /\ calls[c].method = "stream" /\ calls[c].told = "ok" => calls[c].counted # 0

(* A caller whose own signal has not fired is never rejected for another's: *)
(* a request is cancelled when the last of its callers leaves, and then     *)
(* only, and a request found in the memo can be joined.                     *)
NoForeignAbort ==
    /\ \A c \in Started : calls[c].told \in {"aborted", "cancelled"} => calls[c].aborted
    /\ \A k \in DOMAIN asks :
           ~asks[k].settled => (asks[k].cancelled <=> asks[k].waiters = {})
    /\ \A i \in DOMAIN memo :
           memo[i].verdict = "asking" => ~asks[memo[i].ask].cancelled

(* A table that existed when the verdict was asked for is not reported      *)
(* missing: a failed prepare is the statement's only past the barrier of a  *)
(* free worker (askVerdict), never of a connection that may lag.            *)
NoStaleFailure ==
    \A k \in DOMAIN asks : asks[k].answer = "prepare" => ~asks[k].knew

(* What a caller is told of a request it shares with others is about its    *)
(* own statement: neither another caller's abort nor a connection that has  *)
(* not caught up.                                                           *)
SharedAskTruthful == NoForeignAbort /\ NoStaleFailure

(* A text known to write stays with the writer while the memo knows it: no  *)
(* read verdict still in flight, from a worker or a transaction, replaces   *)
(* what a refusal taught.                                                   *)
WriteSticks ==
    [][\A i \in DOMAIN memo :
           memo[i].verdict = "write" =>
               \A e \in Held(memo', memo[i].text) : e.verdict = "write"]_vars

(* A call settles, or a stream has its rows to hand out, though a worker    *)
(* may refuse it, fail or die under its verdict, or be found busy.          *)
CallEnds ==
    \A c \in Calls :
        (calls[c].pc \notin {"idle", "made"})
            ~> (calls[c].pc \in {"over", "delivering"})

=============================================================================
