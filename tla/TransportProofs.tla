--------------------------- MODULE TransportProofs ---------------------------
(***************************************************************************)
(* Proofs about Transport: the worker is out of its query whenever the page  *)
(* calls it free, SQLite has one user at a time, and, where a statement      *)
(* waits for the whole worker, consumers get their own rows, all and in      *)
(* order.  For any queries, verdicts, sizes, window, builds and faults.      *)
(***************************************************************************)
EXTENDS Transport, WellFoundedInduction, TLAPS

-----------------------------------------------------------------------------
(* The invariant: the page and the worker agree on the query in flight.     *)

Stream(m)   == m.type \in {"chunk", "done", "error"}
Terminal(m) == m.type \in {"done", "error"}

QueryPosted(s) == \E i \in DOMAIN s.posted : s.posted[i].type = "query"

NoStream(v)   == \A i \in DOMAIN v.replied : ~Stream(v.replied[i])
NoTerminal(v) == \A i \in DOMAIN v.replied : ~Terminal(v.replied[i])

(* A page that serves nobody expects no answer, and one that never served    *)
(* anybody has nothing.                                                     *)
Served(s) ==
    /\ s.servingQuery = Nobody => s.deferredChunk = "none"
    /\ s.currentCallId \notin Queries =>
          /\ s.deferredChunk = "none"
          /\ s.inbox = <<>>
          /\ \A q \in Queries : s.gen[q] \in {"new", "ended"}

(* One query is posted at most, and it is the page's current call.          *)
PostedInv(s, v) ==
    \A i \in DOMAIN s.posted : s.posted[i].type = "query" =>
        /\ s.posted[i].call = s.currentCallId
        /\ s.deferredChunk = "armed"
        /\ v.phase = "idle"
        /\ NoStream(v)
        /\ \A j \in DOMAIN s.posted : s.posted[j].type = "query" => i = j

(* The answers on their way are to the current call, the last one at the    *)
(* end, and there are none once the page has stopped waiting.               *)
RepliedInv(s, v) ==
    /\ \A i \in DOMAIN v.replied : Stream(v.replied[i]) =>
          /\ v.replied[i].call = s.currentCallId
          /\ s.deferredChunk = "armed"
    /\ \A i, j \in DOMAIN v.replied :
          i < j /\ Terminal(v.replied[i]) => ~Stream(v.replied[j])
    /\ v.phase # "idle" => NoTerminal(v) /\ s.deferredChunk = "armed"
    /\ s.deferredChunk = "armed" /\ ~QueryPosted(s) => v.call = s.currentCallId

(* close() is asked once.                                                   *)
CloseInv(s, v) ==
    /\ \A i \in DOMAIN s.posted : s.posted[i].type = "close" =>
          /\ s.close # "none"
          /\ v.closer = "none"
          /\ \A j \in DOMAIN s.posted : s.posted[j].type = "close" => i = j
    /\ s.close = "none" => v.closer = "none"
    /\ v.closer # "none" => v.closing

(* The page s and the worker v agree on the query in flight, while there is *)
(* a worker.                                                                *)
Agree(s, v) ==
    /\ s.dead <=> v.phase = "gone"
    /\ Served(s)
    /\ \A q \in Queries : s.outcome[q] # "busy"
    /\ v.phase # "gone" => PostedInv(s, v) /\ RepliedInv(s, v) /\ CloseInv(s, v)

(* The mutex: the query is in the line once, where it needs SQLite; the     *)
(* closer once, and ahead of the query.                                     *)
MutexInv(s) ==
    /\ s.phase \in {"turn", "running", "taking", "back"} => s.call \in Queries
    /\ s.holder = Nobody => s.queue = <<>>
    /\ s.phase = "running" => s.holder = s.call
    /\ s.phase \in {"turn", "back"} =>
          s.holder = s.call \/ \E i \in DOMAIN s.queue : s.queue[i] = s.call
    /\ s.holder \in Queries =>
          /\ s.holder = s.call
          /\ s.phase \in {"turn", "running", "back"}
          /\ \A i \in DOMAIN s.queue : s.queue[i] \notin Queries \cup {"closer"}
    /\ \A i \in DOMAIN s.queue : s.queue[i] \in Queries =>
          /\ s.queue[i] = s.call
          /\ s.phase \in {"turn", "back"}
          /\ \A j \in DOMAIN s.queue : i < j => s.queue[j] \notin Queries \cup {"closer"}
    /\ s.holder = "closer" =>
          /\ s.closer = "mutex"
          /\ s.phase \in {"idle", "turn"}
          /\ \A i \in DOMAIN s.queue : s.queue[i] # "closer"
    /\ \A i \in DOMAIN s.queue : s.queue[i] = "closer" =>
          /\ s.closer = "mutex"
          /\ s.phase \in {"idle", "turn"}
          /\ \A j \in DOMAIN s.queue : s.queue[j] = "closer" => i = j
    /\ s.closer = "query" => s.phase # "idle"

IInv == TypeOK /\ Agree(p, w) /\ (w.phase # "gone" => MutexInv(w))

-----------------------------------------------------------------------------
(* The invariant of a worker whose statements wait for the whole of it.     *)

Engaged == {"waiting", "rows", "count", "draining"}

(* What a suspended generator finds when it goes on.                        *)
Suspended(s, q) ==
    /\ s.gen[q] = "waiting" =>
          /\ s.waiters = <<q>> /\ s.inbox = <<>>
          /\ s.deferredChunk = "armed" /\ ~s.stopped /\ ~s.failure
    /\ s.gen[q] \in {"rows", "count", "draining"} => s.waiters = <<>>
    /\ s.gen[q] \in {"rows", "count"} => ~s.stopped
    /\ s.gen[q] = "draining" => s.deferredChunk = "armed"
    /\ s.gen[q] = "count" => s.deferredChunk = "none" /\ s.inbox = <<>>
    /\ s.gen[q] = "rows" /\ s.deferredChunk = "none" => s.inbox # <<>>
    /\ s.gen[q] = "new" => s.got[q] = <<>>
    /\ s.gen[q] # "ended" => s.outcome[q] # "complete"
    /\ q \in s.returning \/ s.slot = q => s.gen[q] \in {"draining", "ended"}

(* One generator at a time has the page.                                    *)
PageInv(s) ==
    /\ \A q \in Queries : s.gen[q] \in Engaged <=> s.servingQuery = q
    /\ s.servingQuery # Nobody => s.currentCallId = s.servingQuery
    /\ s.servingQuery = Nobody => s.waiters = <<>>
    /\ s.dead /\ s.servingQuery # Nobody => s.failure
    /\ \A q \in Queries : Suspended(s, q)

Full(q, i) == [call |-> q, n |-> IF i <= size[q] THEN i ELSE 0]

Taken(s, q) == Len(s.got[q]) + Len(s.inbox)

(* What was handed on is the query's own, and in order.                     *)
GotInv(s, q) ==
    /\ Len(s.got[q]) <= size[q] + 1
    /\ \A i \in DOMAIN s.got[q] : s.got[q][i] = Full(q, i)

(* So is what is queued behind it, up to the count once that has come.      *)
InboxInv(s, q) ==
    /\ \A i \in DOMAIN s.inbox : s.inbox[i] = Full(q, Len(s.got[q]) + i)
    /\ IF s.deferredChunk = "none" THEN Taken(s, q) = size[q] + 1
                                   ELSE Taken(s, q) <= size[q]

RowsOf(s, q) ==
    /\ GotInv(s, q)
    /\ s.gen[q] \in {"waiting", "rows"} =>
          /\ Len(s.got[q]) <= size[q]
          /\ ~s.failure => InboxInv(s, q)
    /\ s.gen[q] = "count" \/ s.outcome[q] = "complete" => Len(s.got[q]) = size[q] + 1

RowsInv(s) == \A q \in Queries : RowsOf(s, q)

Reading(s, q) == s.gen[q] \in {"waiting", "rows"} /\ s.deferredChunk = "armed"

(* No stop is meant for, or reaches, the query of a reader that stays: one   *)
(* posted comes before its query, and one the worker heeds is close()'s.    *)
Unstopped(s, v) ==
    /\ \A i, j \in DOMAIN s.posted :
          s.posted[i].type = "query" /\ i < j => s.posted[j].type # "stop"
    /\ ~QueryPosted(s) =>
          /\ \A i \in DOMAIN s.posted : s.posted[i].type # "stop"
          /\ v.stopped \/ (v.phase = "back" /\ v.taken = "stopped") => v.closing

StopInv(s, v) == \A q \in Queries : Reading(s, q) => Unstopped(s, v)

(* How many chunks the worker has let out.                                  *)
Out(v) == IF v.phase \in {"taking", "back"} THEN v.sent - 1 ELSE v.sent

Chunk(q, n) == [type |-> "chunk", call |-> q, n |-> n]

(* The chunks on their way are those after the n-th, up to the k-th, in      *)
(* order.                                                                   *)
Flow(v, q, n, k) ==
    /\ \A i \in DOMAIN v.replied : v.replied[i].type = "chunk" =>
          /\ v.replied[i].n \in n + 1 .. k
          /\ \A j \in DOMAIN v.replied :
                i < j /\ v.replied[j].type = "chunk" => v.replied[i].n < v.replied[j].n
    /\ \A m \in n + 1 .. k :
          \E i \in DOMAIN v.replied : v.replied[i] = Chunk(q, m)

(* They start where the page is, after n chunks, and end where the worker   *)
(* is, and at the end of the rows once it is done.                          *)
Flowing(v, q, n) ==
    /\ v.phase = "turn" => v.sent = 0
    /\ v.phase \in {"taking", "back"} => v.sent > 0
    /\ v.phase # "idle" => v.sent <= size[q]
    /\ \E k \in n .. size[q] :
          /\ Flow(v, q, n, k)
          /\ v.phase # "idle" => k = Out(v)
          /\ \A i \in DOMAIN v.replied : v.replied[i].type = "done" => k = size[q]

StreamInv(s, v) ==
    \A q \in Queries : Reading(s, q) /\ ~s.failure =>
        IF QueryPosted(s) THEN Taken(s, q) = 0
                          ELSE Flowing(v, q, Taken(s, q))

(* What a page and a worker that go on together are like.                   *)
Reads(s, v) ==
    /\ PageInv(s)
    /\ RowsInv(s)
    /\ v.phase # "gone" => StopInv(s, v) /\ StreamInv(s, v)

ReadInv == Reads(p, w)

-----------------------------------------------------------------------------
(* The page's operators.                                                    *)

(* What no piece of a page task after its first line touches.               *)
Kept(s, t) ==
    /\ t.stopped = s.stopped
    /\ t.currentCallId = s.currentCallId
    /\ t.failure = s.failure
    /\ t.dead = s.dead
    /\ t.returning = s.returning
    /\ t.verdict = s.verdict
    /\ t.slot = s.slot
    /\ t.close = s.close

Stopping(s) == [type |-> "stop", call |-> s.currentCallId]

(* Posting appends to what the worker has not read.                         *)
LEMMA PostIs ==
    ASSUME NEW s \in Pages, NEW m \in WorkerMessages
    PROVE  /\ Post(s, m) \in Pages
           /\ Kept(s, Post(s, m))
           /\ Post(s, m).posted = Append(s.posted, m)
           /\ Post(s, m).deferredChunk = s.deferredChunk
           /\ Post(s, m).inbox = s.inbox
           /\ Post(s, m).servingQuery = s.servingQuery
           /\ Post(s, m).waiters = s.waiters
           /\ Post(s, m).gen = s.gen
           /\ Post(s, m).got = s.got
           /\ Post(s, m).outcome = s.outcome
  <1>1. Append(s.posted, m) \in Seq(WorkerMessages)
    BY DEF Pages
  <1>2. Post(s, m) \in Pages
    BY <1>1 DEF Post, Pages
  <1> QED BY <1>2 DEF Post, Pages, Kept

(* The end of the finally frees the page.                                   *)
LEMMA TeardownIs ==
    ASSUME NEW s \in Pages, NEW q \in Queries
    PROVE  /\ Teardown(s, q) \in Pages
           /\ Kept(s, Teardown(s, q))
           /\ Teardown(s, q).posted = s.posted
           /\ Teardown(s, q).deferredChunk = "none"
           /\ Teardown(s, q).inbox = <<>>
           /\ Teardown(s, q).servingQuery = Nobody
           /\ Teardown(s, q).waiters = s.waiters
           /\ Teardown(s, q).gen = [s.gen EXCEPT ![q] = "ended"]
           /\ Teardown(s, q).got = s.got
           /\ Teardown(s, q).outcome = s.outcome
  <1>1. <<>> \in Seq(Values) /\ Nobody \in Callers /\ "ended" \in GenStates
    BY DEF Callers, GenStates
  <1>2. Teardown(s, q) \in Pages
    BY <1>1 DEF Teardown, Pages
  <1> QED BY <1>2 DEF Teardown, Pages, Kept

(* The finally: not the page's, done at once, or waiting for an answer.     *)
Finished(s, q, why, t) ==
    /\ t \in Pages
    /\ Kept(s, t)
    /\ t.waiters = s.waiters
    /\ t.got = s.got
    /\ t.outcome = [s.outcome EXCEPT ![q] = why]
    /\ \/ /\ s.servingQuery # q
          /\ t.posted = s.posted /\ t.deferredChunk = s.deferredChunk
          /\ t.inbox = s.inbox /\ t.servingQuery = s.servingQuery
          /\ t.gen = [s.gen EXCEPT ![q] = "ended"]
       \/ /\ s.servingQuery = q
          /\ s.deferredChunk # "armed" \/ s.dead
          /\ t.posted = s.posted \/ t.posted = Append(s.posted, Stopping(s))
          /\ t.deferredChunk = "none"
          /\ t.inbox = <<>> /\ t.servingQuery = Nobody
          /\ t.gen = [s.gen EXCEPT ![q] = "ended"]
       \/ /\ s.servingQuery = q
          /\ s.deferredChunk = "armed" /\ ~s.dead
          /\ t.posted = Append(s.posted, Stopping(s))
          /\ t.deferredChunk = "armed"
          /\ t.inbox = s.inbox /\ t.servingQuery = q
          /\ t.gen = [s.gen EXCEPT ![q] = "draining"]

LEMMA FinallyIs ==
    ASSUME NEW s \in Pages, NEW q \in Queries, NEW why \in Outcomes,
           s.deferredChunk # "none" => s.currentCallId \in Queries
    PROVE  Finished(s, q, why, Finally(s, q, why))
  <1> DEFINE o == [s EXCEPT !.outcome[q] = why]
             u == Post(o, [type |-> "stop", call |-> s.currentCallId])
  <1>1. /\ o \in Pages /\ Kept(s, o) /\ o.posted = s.posted
        /\ o.deferredChunk = s.deferredChunk /\ o.inbox = s.inbox
        /\ o.servingQuery = s.servingQuery /\ o.waiters = s.waiters
        /\ o.gen = s.gen /\ o.got = s.got
        /\ o.outcome = [s.outcome EXCEPT ![q] = why]
    BY DEF Pages, Kept
  <1>2. Finally(s, q, why) =
            IF s.servingQuery # q THEN [o EXCEPT !.gen[q] = "ended"]
            ELSE IF s.deferredChunk = "none" \/ s.dead THEN Teardown(o, q)
            ELSE IF s.deferredChunk = "failed" THEN Teardown(u, q)
                 ELSE [u EXCEPT !.gen[q] = "draining"]
    BY DEF Finally
  <1>3. CASE s.servingQuery # q
    <2>1. Finally(s, q, why) = [o EXCEPT !.gen[q] = "ended"]
      BY <1>2, <1>3
    <2> DEFINE t == [o EXCEPT !.gen[q] = "ended"]
    <2> HIDE DEF o
    <2>2. t \in Pages
      BY <1>1 DEF Pages, GenStates
    <2>3. /\ Kept(o, t) /\ t.waiters = o.waiters /\ t.got = o.got
          /\ t.outcome = o.outcome /\ t.posted = o.posted
          /\ t.deferredChunk = o.deferredChunk /\ t.inbox = o.inbox
          /\ t.servingQuery = o.servingQuery /\ t.gen = [o.gen EXCEPT ![q] = "ended"]
      BY <1>1 DEF Pages, Kept
    <2> HIDE DEF t
    <2> QED BY <1>1, <1>3, <2>1, <2>2, <2>3 DEF Finished, Kept, t
  <1>4. CASE s.servingQuery = q /\ (s.deferredChunk = "none" \/ s.dead)
    <2>1. Finally(s, q, why) = Teardown(o, q)
      BY <1>2, <1>4
    <2> DEFINE t == Teardown(o, q)
    <2> HIDE DEF o
    <2>2. /\ t \in Pages /\ Kept(o, t) /\ t.waiters = o.waiters /\ t.got = o.got
          /\ t.outcome = o.outcome /\ t.posted = o.posted
          /\ t.deferredChunk = "none" /\ t.inbox = <<>>
          /\ t.servingQuery = Nobody /\ t.gen = [o.gen EXCEPT ![q] = "ended"]
      BY <1>1, TeardownIs
    <2>3. s.deferredChunk # "armed" \/ s.dead
      BY <1>4
    <2> HIDE DEF t
    <2> QED BY <1>1, <1>4, <2>1, <2>2, <2>3 DEF Finished, Kept, t
  <1>5. ASSUME s.servingQuery = q, s.deferredChunk # "none", ~s.dead
        PROVE  /\ u \in Pages /\ Kept(s, u) /\ u.posted = Append(s.posted, Stopping(s))
               /\ u.deferredChunk = s.deferredChunk /\ u.inbox = s.inbox
               /\ u.servingQuery = s.servingQuery /\ u.waiters = s.waiters
               /\ u.gen = s.gen /\ u.got = s.got
               /\ u.outcome = [s.outcome EXCEPT ![q] = why]
    <2>1. [type |-> "stop", call |-> s.currentCallId] \in WorkerMessages
      BY <1>5 DEF WorkerMessages
    <2> HIDE DEF o
    <2> QED BY <1>1, <2>1, PostIs DEF Kept, Stopping
  <1>6. CASE s.servingQuery = q /\ s.deferredChunk = "failed" /\ ~s.dead
    <2>1. Finally(s, q, why) = Teardown(u, q)
      BY <1>2, <1>6
    <2> DEFINE t == Teardown(u, q)
    <2>0. s.deferredChunk # "none" /\ ~s.dead
      BY <1>6
    <2> HIDE DEF u
    <2>2. /\ t \in Pages /\ Kept(u, t) /\ t.waiters = u.waiters /\ t.got = u.got
          /\ t.outcome = u.outcome /\ t.posted = u.posted
          /\ t.deferredChunk = "none" /\ t.inbox = <<>>
          /\ t.servingQuery = Nobody /\ t.gen = [u.gen EXCEPT ![q] = "ended"]
      BY <1>5, <1>6, <2>0, TeardownIs, ZenonT(60)
    <2> HIDE DEF t
    <2> QED BY <1>5, <1>6, <2>0, <2>1, <2>2 DEF Finished, Kept, t
  <1>7. CASE s.servingQuery = q /\ s.deferredChunk = "armed" /\ ~s.dead
    <2>1. Finally(s, q, why) = [u EXCEPT !.gen[q] = "draining"]
      BY <1>2, <1>7
    <2> DEFINE t == [u EXCEPT !.gen[q] = "draining"]
    <2>0. s.deferredChunk # "none"
      BY <1>7
    <2> HIDE DEF u
    <2>2. t \in Pages
      BY <1>5, <1>7, <2>0 DEF Pages, GenStates
    <2>3. /\ Kept(u, t) /\ t.waiters = u.waiters /\ t.got = u.got
          /\ t.outcome = u.outcome /\ t.posted = u.posted
          /\ t.deferredChunk = u.deferredChunk /\ t.inbox = u.inbox
          /\ t.servingQuery = u.servingQuery /\ t.gen = [u.gen EXCEPT ![q] = "draining"]
      BY <1>5, <1>7, <2>0 DEF Pages, Kept
    <2> HIDE DEF t
    <2> QED BY <1>5, <1>7, <2>0, <2>1, <2>2, <2>3 DEF Finished, Kept, t
  <1>8. s.deferredChunk \in {"none", "armed", "failed"}
    BY DEF Pages
  <1> QED BY <1>3, <1>4, <1>6, <1>7, <1>8

(* A chunk is handed on, unless a return() waits behind the next().         *)
Popped(s) == [s EXCEPT !.inbox = Tail(@)]

Yielded(s, q, t) ==
    /\ Popped(s) \in Pages
    /\ q \in s.returning => t = Finally(Popped(s), q, "left")
    /\ q \notin s.returning =>
         /\ t \in Pages
         /\ Kept(s, t)
         /\ t.posted = s.posted /\ t.deferredChunk = s.deferredChunk
         /\ t.inbox = Tail(s.inbox) /\ t.servingQuery = s.servingQuery
         /\ t.waiters = s.waiters /\ t.outcome = s.outcome
         /\ t.got = [s.got EXCEPT ![q] = Append(@, Head(s.inbox))]
         /\ t.gen = [s.gen EXCEPT ![q] =
                        IF Head(s.inbox).n = 0 THEN "count" ELSE "rows"]

LEMMA YieldIs ==
    ASSUME NEW s \in Pages, NEW q \in Queries, s.inbox # <<>>
    PROVE  Yielded(s, q, Yield(s, q))
  <1> DEFINE u == Popped(s)
             v == Head(s.inbox)
  <1>1. v \in Values /\ Tail(s.inbox) \in Seq(Values)
    BY DEF Pages
  <1>2. u \in Pages /\ Kept(s, u) /\ u.posted = s.posted
        /\ u.deferredChunk = s.deferredChunk /\ u.inbox = Tail(s.inbox)
        /\ u.servingQuery = s.servingQuery /\ u.waiters = s.waiters
        /\ u.gen = s.gen /\ u.got = s.got /\ u.outcome = s.outcome
    BY <1>1 DEF Pages, Kept, Popped
  <1>3. Yield(s, q) = IF q \in s.returning THEN Finally(u, q, "left")
                      ELSE [u EXCEPT !.got[q] = Append(@, v),
                                     !.gen[q] = IF v.n = 0 THEN "count" ELSE "rows"]
    BY DEF Yield, Popped
  <1>4. u.got[q] \in Seq(Values)
    BY <1>2 DEF Pages
  <1> HIDE DEF u, v
  <1>5. CASE q \in s.returning
    BY <1>2, <1>3, <1>5 DEF u, Yielded
  <1>6. CASE q \notin s.returning
    <2> DEFINE g == IF v.n = 0 THEN "count" ELSE "rows"
               t == [u EXCEPT !.got[q] = Append(@, v), !.gen[q] = g]
    <2>1. Append(u.got[q], v) \in Seq(Values) /\ g \in GenStates
      BY <1>1, <1>4 DEF GenStates
    <2>2. Yield(s, q) = t
      BY <1>3, <1>6
    <2> HIDE DEF g
    <2>3. t \in Pages
      BY <1>2, <2>1 DEF Pages
    <2>4. /\ Kept(u, t) /\ t.posted = u.posted /\ t.deferredChunk = u.deferredChunk
          /\ t.inbox = u.inbox /\ t.servingQuery = u.servingQuery
          /\ t.waiters = u.waiters /\ t.outcome = u.outcome
          /\ t.got = [u.got EXCEPT ![q] = Append(@, v)]
          /\ t.gen = [u.gen EXCEPT ![q] = g]
      BY <1>2 DEF Pages, Kept
    <2> HIDE DEF t
    <2> QED BY <1>2, <1>6, <2>2, <2>3, <2>4 DEF Kept, v, u, g, Yielded
  <1> QED BY <1>5, <1>6

(* One turn of the loop: it ends in the finally, hands a value on, or waits. *)
Looped(s, q, t) ==
    \/ \E why \in {"left", "failed", "complete"} :
          /\ t = Finally(s, q, why)
          /\ why = "complete" => s.inbox = <<>> /\ s.deferredChunk = "none"
          /\ why # "complete" => \/ s.stopped \/ s.failure
                                 \/ s.inbox = <<>> /\ s.deferredChunk = "failed"
    \/ /\ s.inbox # <<>> /\ ~s.stopped /\ ~s.failure
       /\ t = Yield(s, q)
    \/ /\ s.inbox = <<>> /\ s.deferredChunk = "armed" /\ ~s.stopped /\ ~s.failure
       /\ t \in Pages
       /\ Kept(s, t)
       /\ t.posted = s.posted /\ t.deferredChunk = s.deferredChunk
       /\ t.inbox = s.inbox /\ t.servingQuery = s.servingQuery
       /\ t.outcome = s.outcome /\ t.got = s.got
       /\ t.waiters = Append(s.waiters, q)
       /\ t.gen = [s.gen EXCEPT ![q] = "waiting"]

LEMMA LoopIs ==
    ASSUME NEW s \in Pages, NEW q \in Queries
    PROVE  Looped(s, q, Loop(s, q))
  <1> DEFINE t == [s EXCEPT !.gen[q] = "waiting", !.waiters = Append(@, q)]
  <1>1. s.deferredChunk \in {"none", "armed", "failed"} /\ s.waiters \in Seq(Queries)
    BY DEF Pages
  <1>2. Append(s.waiters, q) \in Seq(Queries) /\ "waiting" \in GenStates
    BY <1>1 DEF GenStates
  <1>3. t \in Pages
    BY <1>2 DEF Pages
  <1>4. /\ Kept(s, t)
        /\ t.posted = s.posted /\ t.deferredChunk = s.deferredChunk
        /\ t.inbox = s.inbox /\ t.servingQuery = s.servingQuery
        /\ t.outcome = s.outcome /\ t.got = s.got
        /\ t.waiters = Append(s.waiters, q)
        /\ t.gen = [s.gen EXCEPT ![q] = "waiting"]
    BY DEF Pages, Kept
  <1>5. Loop(s, q) =
          IF s.inbox # <<>>
          THEN IF s.stopped THEN Finally(s, q, "left")
               ELSE IF s.failure THEN Finally(s, q, "failed")
               ELSE Yield(s, q)
          ELSE IF s.deferredChunk = "none" THEN Finally(s, q, "complete")
               ELSE IF s.deferredChunk = "failed" THEN Finally(s, q, "failed")
               ELSE IF s.stopped THEN Finally(s, q, "left")
               ELSE IF s.failure THEN Finally(s, q, "failed")
               ELSE t
    BY DEF Loop
  <1> HIDE DEF t
  <1> QED BY <1>1, <1>3, <1>4, <1>5 DEF Looped

-----------------------------------------------------------------------------
(* What a page task may do to the query in flight.                          *)

(* The messages posted on top of those of s, none of them a query.          *)
Extends(a, b) ==
    /\ Len(a) <= Len(b)
    /\ \A i \in 1 .. Len(a) : b[i] = a[i]
    /\ \A i \in Len(a) + 1 .. Len(b) : b[i].type \in {"stop", "credit"}

(* A page task goes from s to t: it ends no query the worker still runs,    *)
(* claims none and meets no reuse guard.                                    *)
Moves(s, t) ==
    /\ t \in Pages
    /\ t.currentCallId = s.currentCallId
    /\ t.dead = s.dead
    /\ t.close = s.close
    /\ Extends(s.posted, t.posted)
    /\ t.deferredChunk \in {s.deferredChunk, "none"}
    /\ s.deferredChunk = "armed" /\ ~s.dead => t.deferredChunk = "armed"
    /\ Served(t)
    /\ \A q \in Queries : t.outcome[q] = "busy" => s.outcome[q] = "busy"

LEMMA ExtendsSelf ==
    ASSUME NEW a \in Seq(WorkerMessages) PROVE Extends(a, a)
  BY DEF Extends

LEMMA ExtendsAppend ==
    ASSUME NEW a \in Seq(WorkerMessages), NEW m \in WorkerMessages,
           m.type \in {"stop", "credit"}
    PROVE  Extends(a, Append(a, m))
  BY DEF Extends

LEMMA ExtendsTwice ==
    ASSUME NEW a \in Seq(WorkerMessages), NEW b \in Seq(WorkerMessages),
           NEW c \in Seq(WorkerMessages), Extends(a, b), Extends(b, c)
    PROVE  Extends(a, c)
  <1>1. Len(a) \in Nat /\ Len(b) \in Nat /\ Len(c) \in Nat
    OBVIOUS
  <1>2. ASSUME NEW i \in Len(a) + 1 .. Len(c) PROVE c[i].type \in {"stop", "credit"}
    <2>1. CASE i <= Len(b)
      BY <1>1, <2>1 DEF Extends
    <2>2. CASE i > Len(b)
      BY <1>1, <2>2 DEF Extends
    <2> QED BY <1>1, <2>1, <2>2
  <1> QED BY <1>1, <1>2 DEF Extends

LEMMA MovesTwice ==
    ASSUME NEW s \in Pages, NEW t \in Pages, NEW u \in Pages,
           Moves(s, t), Moves(t, u)
    PROVE  Moves(s, u)
  <1>1. /\ s.posted \in Seq(WorkerMessages) /\ t.posted \in Seq(WorkerMessages)
        /\ u.posted \in Seq(WorkerMessages)
    BY DEF Pages
  <1>2. Extends(s.posted, u.posted)
    BY <1>1, ExtendsTwice DEF Moves
  <1> QED BY <1>2 DEF Moves

LEMMA FinallyMoves ==
    ASSUME NEW s \in Pages, NEW q \in Queries, NEW why \in Outcomes \ {"busy"},
           Served(s)
    PROVE  Moves(s, Finally(s, q, why))
  <1> DEFINE t == Finally(s, q, why)
  <1>1. /\ t \in Pages /\ Kept(s, t)
        /\ t.outcome = [s.outcome EXCEPT ![q] = why]
        /\ \/ /\ t.posted = s.posted /\ t.deferredChunk = s.deferredChunk
              /\ t.servingQuery = s.servingQuery
              /\ t.inbox = s.inbox /\ t.gen = [s.gen EXCEPT ![q] = "ended"]
           \/ /\ s.deferredChunk # "armed" \/ s.dead
              /\ t.posted = s.posted \/ t.posted = Append(s.posted, Stopping(s))
              /\ t.deferredChunk = "none"
              /\ s.servingQuery = q
              /\ t.inbox = <<>> /\ t.gen = [s.gen EXCEPT ![q] = "ended"]
           \/ /\ s.deferredChunk = "armed"
              /\ t.posted = Append(s.posted, Stopping(s))
              /\ t.deferredChunk = "armed" /\ t.servingQuery = q
    <2>1. s.deferredChunk # "none" => s.currentCallId \in Queries
      BY DEF Served
    <2>2. Finished(s, q, why, t)
      BY <2>1, FinallyIs
    <2> HIDE DEF t
    <2> QED BY <2>2 DEF Finished
  <1>2. s.posted \in Seq(WorkerMessages) /\ s.outcome \in [Queries -> Outcomes]
    BY DEF Pages
  <1>3. Extends(s.posted, t.posted)
    <2>1. CASE t.posted = s.posted
      BY <1>2, <2>1, ExtendsSelf
    <2>2. CASE t.posted = Append(s.posted, Stopping(s))
      <3>1. t.posted \in Seq(WorkerMessages)
        BY <1>1 DEF Pages
      <3> HIDE DEF t
      <3>2. t.posted[Len(t.posted)] = Stopping(s) /\ Len(t.posted) = Len(s.posted) + 1
        BY <1>2, <2>2
      <3> QED BY <1>2, <2>2, <3>2 DEF Extends, Stopping
    <2> QED BY <1>1, <2>1, <2>2
  <1>4. \A r \in Queries : t.outcome[r] = "busy" => s.outcome[r] = "busy"
    BY <1>1, <1>2
  <1>5. t.currentCallId \notin Queries =>
            /\ t.deferredChunk = "none"
            /\ t.inbox = <<>>
            /\ \A r \in Queries : t.gen[r] \in {"new", "ended"}
    <2>1. s.gen \in [Queries -> GenStates] /\ t.currentCallId = s.currentCallId
      BY <1>1 DEF Pages, Kept
    <2> HIDE DEF t
    <2> QED BY <1>1, <2>1 DEF Served
  <1>6. q # Nobody
    BY NobodyAssumption
  <1>7. t.servingQuery = Nobody => t.deferredChunk = "none"
    BY <1>1, <1>6 DEF Served
  <1> HIDE DEF t
  <1>8. t.deferredChunk \in {s.deferredChunk, "none"}
    BY <1>1
  <1>9. s.deferredChunk = "armed" /\ ~s.dead => t.deferredChunk = "armed"
    BY <1>1
  <1> QED BY <1>1, <1>3, <1>4, <1>5, <1>7, <1>8, <1>9 DEF Moves, Kept, Served, t

LEMMA LoopMoves ==
    ASSUME NEW s \in Pages, NEW q \in Queries, Served(s)
    PROVE  Moves(s, Loop(s, q))
  <1> DEFINE t == Loop(s, q)
  <1>1. s.deferredChunk # "none" => s.currentCallId \in Queries
    BY DEF Served
  <1>2. {"left", "failed", "complete"} \subseteq Outcomes \ {"busy"}
    BY DEF Outcomes
  <1>3. \/ \E why \in {"left", "failed", "complete"} : t = Finally(s, q, why)
        \/ s.inbox # <<>> /\ t = Yield(s, q)
        \/ /\ t \in Pages /\ Kept(s, t)
           /\ t.posted = s.posted /\ t.deferredChunk = s.deferredChunk
           /\ t.servingQuery = s.servingQuery /\ t.outcome = s.outcome
           /\ s.deferredChunk = "armed"
    <2>1. Looped(s, q, t)
      BY LoopIs
    <2> HIDE DEF t
    <2> QED BY <2>1 DEF Looped
  <1>4. s.posted \in Seq(WorkerMessages)
    BY DEF Pages
  <1> HIDE DEF t
  <1>5. CASE \E why \in {"left", "failed", "complete"} : t = Finally(s, q, why)
    BY <1>2, <1>5, FinallyMoves DEF t
  <1>6. ASSUME t \in Pages, Kept(s, t), t.posted = s.posted,
               t.deferredChunk = s.deferredChunk,
               t.servingQuery = s.servingQuery, t.outcome = s.outcome,
               s.currentCallId \in Queries
        PROVE  Moves(s, t)
    BY <1>4, <1>6, ExtendsSelf DEF Moves, Kept, Served
  <1>7. CASE s.inbox # <<>> /\ t = Yield(s, q)
    <2> DEFINE u == Popped(s)
    <2>0. Yielded(s, q, t)
      BY <1>7, YieldIs
    <2>1. CASE q \in s.returning
      <3>1. u \in Pages /\ t = Finally(u, q, "left")
        BY <2>0, <2>1 DEF Yielded
      <3>2. /\ u.posted = s.posted /\ u.deferredChunk = s.deferredChunk
            /\ u.servingQuery = s.servingQuery /\ u.outcome = s.outcome
            /\ u.currentCallId = s.currentCallId /\ u.dead = s.dead /\ u.close = s.close
        BY DEF Pages, Popped
      <3>5. s.currentCallId \in Queries
        BY <1>7 DEF Served
      <3> HIDE DEF u
      <3>3. Served(u)
        BY <3>2, <3>5 DEF Served
      <3>4. Moves(u, t)
        BY <1>2, <3>1, <3>3, FinallyMoves
      <3> QED BY <3>2, <3>4 DEF Moves, t
    <2>2. CASE q \notin s.returning
      <3>1. /\ t \in Pages /\ Kept(s, t)
            /\ t.posted = s.posted /\ t.deferredChunk = s.deferredChunk
            /\ t.servingQuery = s.servingQuery /\ t.outcome = s.outcome
        BY <2>0, <2>2 DEF Yielded
      <3>2. s.currentCallId \in Queries
        BY <1>7 DEF Served
      <3> QED BY <1>6, <3>1, <3>2 DEF t
    <2> QED BY <2>1, <2>2
  <1> QED BY <1>1, <1>3, <1>5, <1>6, <1>7 DEF t

LEMMA MovesSelf ==
    ASSUME NEW s \in Pages, Served(s) PROVE Moves(s, s)
  <1>1. s.posted \in Seq(WorkerMessages)
    BY DEF Pages
  <1> QED BY <1>1, ExtendsSelf DEF Moves

-----------------------------------------------------------------------------
(* Every generator in the race goes round its loop once.                    *)

LEMMA LeastExists ==
    ASSUME NEW S \in SUBSET Nat, S # {}
    PROVE  \E k \in S : \A j \in S : k <= j
  <1>1. PICK k \in S : \A j \in S : ~(<<j, k>> \in OpToRel(<, Nat))
    BY WFMin, NatLessThanWellFounded
  <1>2. ASSUME NEW j \in S PROVE k <= j
    <2> SUFFICES ASSUME j < k PROVE FALSE
      OBVIOUS
    <2>1. <<j, k>> \in OpToRel(<, Nat)
      BY DEF OpToRel
    <2> QED BY <1>1, <2>1
  <1> QED BY <1>2

(* The race of s, lost.                                                     *)
Raced(s) == [s EXCEPT !.waiters = <<>>]

WokenUpto(s, k, f) ==
    f = [i \in 0 .. k |-> IF i = 0 THEN Raced(s) ELSE Loop(f[i - 1], s.waiters[i])]

LEMMA WokenExists ==
    ASSUME NEW s \in Pages, NEW k \in 0 .. Len(s.waiters)
    PROVE  \E f : WokenUpto(s, k, f)
  <1> DEFINE Bad == {n \in 0 .. Len(s.waiters) : ~ \E f : WokenUpto(s, n, f)}
  <1>0. Len(s.waiters) \in Nat
    BY DEF Pages
  <1> SUFFICES ASSUME Bad # {} PROVE FALSE
    OBVIOUS
  <1>1. PICK n \in Bad : \A j \in Bad : n <= j
    <2>1. Bad \in SUBSET Nat
      BY <1>0
    <2> HIDE DEF Bad
    <2> QED BY <2>1, LeastExists
  <1>2. n # 0
    <2> DEFINE f == [i \in 0 .. 0 |-> Raced(s)]
    <2>1. WokenUpto(s, 0, f)
      BY DEF WokenUpto
    <2> HIDE DEF f
    <2> QED BY <1>1, <2>1
  <1>3. n \in 1 .. Len(s.waiters) /\ n - 1 \in 0 .. Len(s.waiters)
    <2>1. n \in 0 .. Len(s.waiters)
      OBVIOUS
    <2> HIDE DEF Bad
    <2> QED BY <1>0, <1>2, <2>1
  <1>4. PICK g : WokenUpto(s, n - 1, g)
    <2>1. n - 1 \notin Bad
      <3> HIDE DEF Bad
      <3> QED BY <1>1, <1>3
    <2> QED BY <1>3, <2>1
  <1> DEFINE f == [i \in 0 .. n |-> IF i = n THEN Loop(g[n - 1], s.waiters[n]) ELSE g[i]]
  <1>5. ASSUME NEW i \in 0 .. n
        PROVE  f[i] = IF i = 0 THEN Raced(s) ELSE Loop(f[i - 1], s.waiters[i])
    <2>1. CASE i = n
      <3>1. n - 1 \in 0 .. n /\ n - 1 # n /\ n # 0
        BY <1>0, <1>3
      <3> QED BY <2>1, <3>1
    <2>2. CASE i # n
      <3>1. i \in 0 .. n - 1 /\ (i # 0 => i - 1 \in 0 .. n /\ i - 1 # n)
        BY <1>0, <1>3, <2>2
      <3>2. g[i] = IF i = 0 THEN Raced(s) ELSE Loop(g[i - 1], s.waiters[i])
        BY <1>4, <3>1 DEF WokenUpto
      <3>3. f[i] = g[i] /\ (i # 0 => f[i - 1] = g[i - 1])
        BY <2>2, <3>1
      <3> QED BY <3>2, <3>3
    <2> QED BY <2>1, <2>2
  <1>6. WokenUpto(s, n, f)
    <2> DEFINE h == [i \in 0 .. n |-> IF i = 0 THEN Raced(s) ELSE Loop(f[i - 1], s.waiters[i])]
    <2>1. f = h
      <3> HIDE DEF f
      <3>1. \A i \in 0 .. n : h[i] = f[i]
        BY <1>5
      <3>2. DOMAIN f = 0 .. n /\ f = [i \in 0 .. n |-> f[i]]
        BY DEF f
      <3> QED BY <3>1, <3>2
    <2> HIDE DEF f
    <2> QED BY <2>1 DEF WokenUpto
  <1> HIDE DEF f
  <1> QED BY <1>1, <1>6

Woken(s, f) ==
    /\ f[0] = Raced(s)
    /\ \A i \in 1 .. Len(s.waiters) : f[i] = Loop(f[i - 1], s.waiters[i])
    /\ Wake(s) = f[Len(s.waiters)]

LEMMA WokenIs ==
    ASSUME NEW s \in Pages
    PROVE  \E f : Woken(s, f)
  <1> DEFINE n == Len(s.waiters)
             c == CHOOSE f : WokenUpto(s, n, f)
  <1>1. n \in Nat
    BY DEF Pages
  <1>2. WokenUpto(s, n, c)
    <2>1. \E f : WokenUpto(s, n, f)
      BY <1>1, WokenExists
    <2> QED BY <2>1
  <1>3. Wake(s) = c[n]
    BY DEF Wake, WokenUpto, Raced
  <1> HIDE DEF c
  <1>4. c[0] = Raced(s)
    BY <1>1, <1>2 DEF WokenUpto
  <1>5. \A i \in 1 .. n : c[i] = Loop(c[i - 1], s.waiters[i])
    BY <1>1, <1>2 DEF WokenUpto
  <1> QED BY <1>3, <1>4, <1>5 DEF Woken

(* A page nobody races on changes nothing; one waiter goes round alone.     *)
LEMMA WakeOne ==
    ASSUME NEW s \in Pages
    PROVE  /\ s.waiters = <<>> => Wake(s) = s
           /\ \A q \in Queries : s.waiters = <<q>> => Wake(s) = Loop(Raced(s), q)
  <1>0. PICK f : Woken(s, f)
    BY WokenIs
  <1>1. /\ f[0] = Raced(s)
        /\ \A i \in 1 .. Len(s.waiters) : f[i] = Loop(f[i - 1], s.waiters[i])
        /\ Wake(s) = f[Len(s.waiters)]
    BY <1>0 DEF Woken
  <1>2. CASE s.waiters = <<>>
    <2>1. Raced(s) = s
      BY <1>2 DEF Raced, Pages
    <2> QED BY <1>1, <1>2, <2>1
  <1>3. ASSUME NEW q \in Queries, s.waiters = <<q>>
        PROVE  Wake(s) = Loop(Raced(s), q)
    <2>1. Len(s.waiters) = 1 /\ s.waiters[1] = q
      BY <1>3
    <2>2. f[1] = Loop(f[0], s.waiters[1])
      BY <1>1, <2>1
    <2> QED BY <1>1, <2>1, <2>2
  <1> QED BY <1>2, <1>3

LEMMA RacedMoves ==
    ASSUME NEW s \in Pages, Served(s)
    PROVE  /\ Raced(s) \in Pages
           /\ Moves(s, Raced(s))
  <1>1. <<>> \in Seq(Queries) /\ s.posted \in Seq(WorkerMessages)
    BY DEF Pages
  <1>2. Raced(s) \in Pages
    BY <1>1 DEF Raced, Pages
  <1>3. /\ Raced(s).posted = s.posted /\ Raced(s).deferredChunk = s.deferredChunk
        /\ Raced(s).servingQuery = s.servingQuery /\ Raced(s).outcome = s.outcome
        /\ Raced(s).currentCallId = s.currentCallId /\ Raced(s).dead = s.dead
        /\ Raced(s).close = s.close
        /\ Raced(s).inbox = s.inbox /\ Raced(s).gen = s.gen
    BY DEF Raced, Pages
  <1> QED BY <1>1, <1>2, <1>3, ExtendsSelf DEF Moves, Served

LEMMA WakeMoves ==
    ASSUME NEW s \in Pages, Served(s)
    PROVE  Moves(s, Wake(s))
  <1> DEFINE n == Len(s.waiters)
  <1>1. n \in Nat /\ \A i \in 1 .. n : s.waiters[i] \in Queries
    BY DEF Pages
  <1>0. PICK f : Woken(s, f)
    BY WokenIs
  <1>2. /\ f[0] = Raced(s)
        /\ \A i \in 1 .. n : f[i] = Loop(f[i - 1], s.waiters[i])
        /\ Wake(s) = f[n]
    BY <1>0 DEF Woken
  <1> DEFINE Bad == {i \in 0 .. n : ~Moves(s, f[i])}
  <1>3. Bad = {}
    <2> SUFFICES ASSUME Bad # {} PROVE FALSE
      OBVIOUS
    <2>1. PICK k \in Bad : \A j \in Bad : k <= j
      <3>1. Bad \in SUBSET Nat
        BY <1>1
      <3> HIDE DEF Bad
      <3> QED BY <3>1, LeastExists
    <2>2. k # 0
      BY <1>2, <2>1, RacedMoves
    <2>3. k \in 1 .. n /\ k - 1 \in 0 .. n
      <3>1. k \in 0 .. n
        OBVIOUS
      <3> HIDE DEF Bad
      <3> QED BY <1>1, <2>2, <3>1
    <2>4. Moves(s, f[k - 1])
      <3>1. k - 1 \notin Bad
        <4> HIDE DEF Bad
        <4> QED BY <2>1, <2>3
      <3> QED BY <2>3, <3>1
    <2>5. f[k - 1] \in Pages /\ Served(f[k - 1])
      BY <2>4 DEF Moves
    <2>6. f[k] = Loop(f[k - 1], s.waiters[k]) /\ s.waiters[k] \in Queries
      BY <1>1, <1>2, <2>3
    <2>7. Moves(f[k - 1], f[k])
      BY <2>5, <2>6, LoopMoves
    <2>8. f[k] \in Pages
      BY <2>7 DEF Moves
    <2>9. Moves(s, f[k])
      BY <2>4, <2>5, <2>7, <2>8, MovesTwice
    <2> QED BY <2>1, <2>9
  <1> QED BY <1>1, <1>2, <1>3

-----------------------------------------------------------------------------
(* The page and the worker keep agreeing.                                   *)

(* No query is among the messages a page task posts on top.                 *)
LEMMA ExtendsNoQuery ==
    ASSUME NEW a \in Seq(WorkerMessages), NEW b \in Seq(WorkerMessages), Extends(a, b)
    PROVE  /\ DOMAIN a \subseteq DOMAIN b
           /\ \A i \in DOMAIN a : b[i] = a[i]
           /\ \A i \in DOMAIN b : b[i].type \in {"query", "close"} => i \in DOMAIN a
  BY DEF Extends

LEMMA AgreeMoves ==
    ASSUME NEW s \in Pages, NEW t \in Pages, NEW v \in WorkerStates,
           Agree(s, v), Moves(s, t)
    PROVE  Agree(t, v)
  <1>1. /\ t.dead = s.dead /\ Served(t)
        /\ t.currentCallId = s.currentCallId /\ t.close = s.close
        /\ t.deferredChunk \in {s.deferredChunk, "none"}
        /\ s.deferredChunk = "armed" /\ ~s.dead => t.deferredChunk = "armed"
    BY DEF Moves
  <1>2. /\ DOMAIN s.posted \subseteq DOMAIN t.posted
        /\ \A i \in DOMAIN s.posted : t.posted[i] = s.posted[i]
        /\ \A i \in DOMAIN t.posted :
              t.posted[i].type \in {"query", "close"} => i \in DOMAIN s.posted
    <2>1. s.posted \in Seq(WorkerMessages) /\ t.posted \in Seq(WorkerMessages)
      BY DEF Pages
    <2>2. Extends(s.posted, t.posted)
      BY DEF Moves
    <2> QED BY <2>1, <2>2, ExtendsNoQuery
  <1>3. \A q \in Queries : t.outcome[q] # "busy"
    BY DEF Moves, Agree
  <1>4. ASSUME v.phase # "gone"
        PROVE  PostedInv(t, v) /\ RepliedInv(t, v) /\ CloseInv(t, v)
    <2>1. PostedInv(s, v) /\ RepliedInv(s, v) /\ CloseInv(s, v) /\ ~s.dead
      BY <1>4 DEF Agree
    <2>2. PostedInv(t, v)
      BY <1>1, <1>2, <2>1 DEF PostedInv
    <2>3. QueryPosted(s) => QueryPosted(t)
      BY <1>2 DEF QueryPosted
    <2>4. t.deferredChunk = "armed" => s.deferredChunk = "armed"
      BY <1>1
    <2>5. s.deferredChunk = "armed" => t.deferredChunk = "armed"
      BY <1>1, <2>1
    <2>6. RepliedInv(t, v)
      BY <1>1, <2>1, <2>3, <2>4, <2>5 DEF RepliedInv
    <2>7. CloseInv(t, v)
      BY <1>1, <1>2, <2>1 DEF CloseInv
    <2> QED BY <2>2, <2>6, <2>7
  <1> QED BY <1>1, <1>3, <1>4 DEF Agree

(* A page and a worker that are both gone.                                  *)
LEMMA AgreeGone ==
    ASSUME NEW s \in Pages, NEW v \in WorkerStates, s.dead, v.phase = "gone", Served(s),
           \A q \in Queries : s.outcome[q] # "busy"
    PROVE  Agree(s, v)
  BY DEF Agree

(* The first message of a channel is gone, delivered or lost.               *)
Heard(v) == [v EXCEPT !.replied = Tail(@)]

LEMMA TailIs ==
    ASSUME NEW S, NEW a \in Seq(S), a # <<>>
    PROVE  /\ Tail(a) \in Seq(S) /\ Head(a) \in S /\ Head(a) = a[1] /\ 1 \in DOMAIN a
           /\ \A i \in DOMAIN Tail(a) : i + 1 \in DOMAIN a /\ Tail(a)[i] = a[i + 1]
           /\ \A i \in DOMAIN a : i # 1 => i - 1 \in DOMAIN Tail(a) /\ Tail(a)[i - 1] = a[i]
           /\ DOMAIN a \subseteq Nat /\ DOMAIN Tail(a) \subseteq Nat
  OBVIOUS

LEMMA HeardIs ==
    ASSUME NEW v \in WorkerStates, v.replied # <<>>
    PROVE  /\ Heard(v) \in WorkerStates
           /\ Heard(v).replied = Tail(v.replied)
           /\ Heard(v).build = v.build /\ Heard(v).phase = v.phase
           /\ Heard(v).call = v.call /\ Heard(v).credits = v.credits
           /\ Heard(v).stopped = v.stopped /\ Heard(v).taken = v.taken
           /\ Heard(v).sent = v.sent /\ Heard(v).closing = v.closing
           /\ Heard(v).closer = v.closer /\ Heard(v).holder = v.holder
           /\ Heard(v).queue = v.queue
  <1>1. Tail(v.replied) \in Seq(PageMessages)
    BY DEF WorkerStates
  <1>2. Heard(v) \in WorkerStates
    BY <1>1 DEF Heard, WorkerStates
  <1> QED BY <1>2 DEF Heard, WorkerStates

LEMMA AgreeHeard ==
    ASSUME NEW s \in Pages, NEW v \in WorkerStates, v.replied # <<>>, Agree(s, v)
    PROVE  Agree(s, Heard(v))
  <1> DEFINE u == Heard(v)
  <1>1. /\ u.replied = Tail(v.replied) /\ u.phase = v.phase /\ u.call = v.call
        /\ u.closer = v.closer /\ u.closing = v.closing
    BY HeardIs
  <1>2. v.replied \in Seq(PageMessages)
    BY DEF WorkerStates
  <1>3. /\ \A i \in DOMAIN u.replied : i + 1 \in DOMAIN v.replied /\ u.replied[i] = v.replied[i + 1]
        /\ DOMAIN u.replied \subseteq Nat
    BY <1>1, <1>2, TailIs
  <1> HIDE DEF u
  <1>4. NoStream(v) => NoStream(u)
    BY <1>3 DEF NoStream
  <1>5. NoTerminal(v) => NoTerminal(u)
    BY <1>3 DEF NoTerminal
  <1>6. ASSUME v.phase # "gone"
        PROVE  PostedInv(s, u) /\ RepliedInv(s, u) /\ CloseInv(s, u)
    <2>1. PostedInv(s, v) /\ RepliedInv(s, v) /\ CloseInv(s, v)
      BY <1>6 DEF Agree
    <2>2. PostedInv(s, u)
      BY <1>1, <1>4, <2>1 DEF PostedInv
    <2>3. \A i, j \in DOMAIN u.replied :
              i < j /\ Terminal(u.replied[i]) => ~Stream(u.replied[j])
      <3> SUFFICES ASSUME NEW i \in DOMAIN u.replied, NEW j \in DOMAIN u.replied,
                          i < j, Terminal(u.replied[i])
                   PROVE  ~Stream(u.replied[j])
        OBVIOUS
      <3>1. /\ i + 1 \in DOMAIN v.replied /\ j + 1 \in DOMAIN v.replied /\ i + 1 < j + 1
            /\ u.replied[i] = v.replied[i + 1] /\ u.replied[j] = v.replied[j + 1]
        BY <1>3
      <3> QED BY <2>1, <3>1 DEF RepliedInv
    <2>4. \A i \in DOMAIN u.replied : Stream(u.replied[i]) =>
              u.replied[i].call = s.currentCallId /\ s.deferredChunk = "armed"
      BY <1>3, <2>1 DEF RepliedInv
    <2>5. RepliedInv(s, u)
      BY <1>1, <1>5, <2>1, <2>3, <2>4 DEF RepliedInv
    <2>6. CloseInv(s, u)
      BY <1>1, <2>1 DEF CloseInv
    <2> QED BY <2>2, <2>5, <2>6
  <1> QED BY <1>1, <1>6 DEF Agree, u

-----------------------------------------------------------------------------
(* What reaches the page.                                                   *)

NoneBusy(s) == \A q \in Queries : s.outcome[q] # "busy"

(* The drain ends only when the page has its answer.                        *)
LEMMA EndDrainMoves ==
    ASSUME NEW s \in Pages, Served(s)
    PROVE  Moves(s, EndDrain(s))
  <1> DEFINE D == {q \in Queries : s.gen[q] = "draining"}
             r == CHOOSE q \in D : TRUE
  <1>1. CASE D = {} \/ s.deferredChunk = "armed"
    <2>1. EndDrain(s) = s
      BY <1>1 DEF EndDrain
    <2> QED BY <2>1, MovesSelf
  <1>2. CASE D # {} /\ s.deferredChunk # "armed"
    <2>1. r \in Queries
      BY <1>2
    <2>2. EndDrain(s) = Teardown(s, r)
      BY <1>2 DEF EndDrain
    <2> HIDE DEF r
    <2> DEFINE t == Teardown(s, r)
    <2>3. /\ t \in Pages /\ Kept(s, t) /\ t.posted = s.posted /\ t.deferredChunk = "none"
          /\ t.servingQuery = Nobody /\ t.outcome = s.outcome
      BY <2>1, TeardownIs
    <2>4. s.posted \in Seq(WorkerMessages)
      BY DEF Pages
    <2> HIDE DEF t
    <2>5. Moves(s, t)
      BY <1>2, <2>3, <2>4, ExtendsSelf DEF Moves, Kept, Served
    <2> QED BY <2>2, <2>5 DEF t
  <1> QED BY <1>1, <1>2

(* What die() sets before it wakes anybody.                                 *)
Dying(s) ==
    [s EXCEPT !.dead = TRUE, !.failure = TRUE,
              !.verdict = [v \in Verdicts |-> IF @[v] = "new" THEN "new" ELSE "settled"],
              !.close = IF @ = "asked" THEN "closed" ELSE @]

LEMMA DyingIs ==
    ASSUME NEW s \in Pages
    PROVE  /\ Dying(s) \in Pages
           /\ Dying(s).dead /\ Dying(s).failure
           /\ Dying(s).posted = s.posted /\ Dying(s).deferredChunk = s.deferredChunk
           /\ Dying(s).inbox = s.inbox /\ Dying(s).servingQuery = s.servingQuery
           /\ Dying(s).currentCallId = s.currentCallId /\ Dying(s).stopped = s.stopped
           /\ Dying(s).waiters = s.waiters /\ Dying(s).outcome = s.outcome
           /\ Dying(s).got = s.got /\ Dying(s).gen = s.gen
           /\ Dying(s).returning = s.returning /\ Dying(s).slot = s.slot
  <1> DEFINE f == [v \in Verdicts |-> IF s.verdict[v] = "new" THEN "new" ELSE "settled"]
             c == IF s.close = "asked" THEN "closed" ELSE s.close
  <1>1. f \in [Verdicts -> {"new", "asked", "lost", "settled"}] /\ c \in {"none", "asked", "closed"}
    BY DEF Pages
  <1>2. Dying(s) = [s EXCEPT !.dead = TRUE, !.failure = TRUE, !.verdict = f, !.close = c]
    BY DEF Dying, Pages
  <1> HIDE DEF f, c
  <1>3. Dying(s) \in Pages
    BY <1>1, <1>2 DEF Pages
  <1> QED BY <1>2, <1>3 DEF Pages

LEMMA DieIs ==
    ASSUME NEW s \in Pages, Served(s), NoneBusy(s)
    PROVE  /\ Die(s) \in Pages /\ Die(s).dead /\ Served(Die(s)) /\ NoneBusy(Die(s))
           /\ Die(s) = IF s.dead THEN s ELSE Wake(Dying(s))
  <1>1. Die(s) = IF s.dead THEN s ELSE Wake(Dying(s))
    BY DEF Die, Dying
  <1>2. Dying(s) \in Pages /\ Served(Dying(s)) /\ NoneBusy(Dying(s)) /\ Dying(s).dead
    BY DyingIs DEF Served, NoneBusy
  <1>3. Moves(Dying(s), Wake(Dying(s)))
    BY <1>2, WakeMoves
  <1>4. CASE s.dead
    BY <1>1, <1>4
  <1>5. CASE ~s.dead
    BY <1>1, <1>2, <1>3, <1>5 DEF Moves, NoneBusy
  <1> QED BY <1>1, <1>4, <1>5

(* A chunk, on a page that waits for it.                                    *)
Queued(s, e) == [s EXCEPT !.inbox = Append(@, e), !.deferredChunk = "armed"]

LEMMA QueuedIs ==
    ASSUME NEW s \in Pages, NEW e \in Values
    PROVE  /\ Queued(s, e) \in Pages
           /\ Kept(s, Queued(s, e))
           /\ Queued(s, e).posted = s.posted /\ Queued(s, e).deferredChunk = "armed"
           /\ Queued(s, e).inbox = Append(s.inbox, e)
           /\ Queued(s, e).servingQuery = s.servingQuery
           /\ Queued(s, e).waiters = s.waiters /\ Queued(s, e).outcome = s.outcome
           /\ Queued(s, e).got = s.got /\ Queued(s, e).gen = s.gen
  <1>1. Append(s.inbox, e) \in Seq(Values)
    BY DEF Pages
  <1>2. Queued(s, e) \in Pages
    BY <1>1 DEF Queued, Pages
  <1> QED BY <1>2 DEF Queued, Pages, Kept

(* The end of a query: its count behind its rows.                           *)
Counted(s, e) == [s EXCEPT !.inbox = Append(@, e), !.deferredChunk = "none"]

LEMMA CountedIs ==
    ASSUME NEW s \in Pages, NEW e \in Values
    PROVE  /\ Counted(s, e) \in Pages
           /\ Kept(s, Counted(s, e))
           /\ Counted(s, e).posted = s.posted /\ Counted(s, e).deferredChunk = "none"
           /\ Counted(s, e).inbox = Append(s.inbox, e)
           /\ Counted(s, e).servingQuery = s.servingQuery
           /\ Counted(s, e).waiters = s.waiters /\ Counted(s, e).outcome = s.outcome
           /\ Counted(s, e).got = s.got /\ Counted(s, e).gen = s.gen
  <1>1. Append(s.inbox, e) \in Seq(Values)
    BY DEF Pages
  <1>2. Counted(s, e) \in Pages
    BY <1>1 DEF Counted, Pages
  <1> QED BY <1>2 DEF Counted, Pages, Kept

(* An error: the wait rejects.                                              *)
Rejected(s) == [s EXCEPT !.deferredChunk = "failed"]

LEMMA RejectedIs ==
    ASSUME NEW s \in Pages
    PROVE  /\ Rejected(s) \in Pages
           /\ Kept(s, Rejected(s))
           /\ Rejected(s).posted = s.posted /\ Rejected(s).deferredChunk = "failed"
           /\ Rejected(s).inbox = s.inbox
           /\ Rejected(s).servingQuery = s.servingQuery
           /\ Rejected(s).waiters = s.waiters /\ Rejected(s).outcome = s.outcome
           /\ Rejected(s).got = s.got /\ Rejected(s).gen = s.gen
  <1>1. Rejected(s) \in Pages
    BY DEF Rejected, Pages
  <1> QED BY <1>1 DEF Rejected, Pages, Kept

(* The broken transport, and a message lost.                                *)
Broken(s) == [s EXCEPT !.failure = TRUE]

LEMMA BrokenIs ==
    ASSUME NEW s \in Pages
    PROVE  /\ Broken(s) \in Pages
           /\ Broken(s).posted = s.posted /\ Broken(s).deferredChunk = s.deferredChunk
           /\ Broken(s).inbox = s.inbox /\ Broken(s).servingQuery = s.servingQuery
           /\ Broken(s).waiters = s.waiters /\ Broken(s).outcome = s.outcome
           /\ Broken(s).got = s.got /\ Broken(s).gen = s.gen
           /\ Broken(s).currentCallId = s.currentCallId /\ Broken(s).dead = s.dead
           /\ Broken(s).close = s.close /\ Broken(s).stopped = s.stopped
           /\ Broken(s).returning = s.returning /\ Broken(s).slot = s.slot
           /\ Broken(s).failure
  <1>1. Broken(s) \in Pages
    BY DEF Broken, Pages
  <1> QED BY <1>1 DEF Broken, Pages

(* The shapes of messages, and which of them are the stream's.              *)
LEMMA PageMessageIs ==
    ASSUME NEW m \in PageMessages
    PROVE  /\ m.type \in {"chunk", "done", "error", "verdict", "verdict-error", "closed"}
           /\ m.type \in {"chunk", "done", "error"} =>
                 /\ m.call \in Queries
                 /\ m.n \in Nat
                 /\ m = [type |-> m.type, call |-> m.call, n |-> m.n]
           /\ m.type \in {"verdict", "verdict-error"} => m.call \in Verdicts
  BY DEF PageMessages

(* What a message of the stream does to the page.                           *)
LEMMA OnMessageIs ==
    ASSUME NEW s \in Pages, NEW m \in PageMessages
    PROVE  /\ m.type \in {"verdict", "verdict-error"} =>
                 OnMessage(s, m) = [s EXCEPT !.verdict[m.call] = "settled"]
           /\ m.type = "closed" => OnMessage(s, m) = [s EXCEPT !.close = "closed"]
           /\ Stream(m) =>
                 /\ s.deferredChunk = "none" \/ m.call # s.currentCallId => OnMessage(s, m) = s
                 /\ s.deferredChunk # "none" /\ m.call = s.currentCallId =>
                       /\ m.type = "chunk" => OnMessage(s, m) =
                             Wake(Queued(s, [call |-> m.call, n |-> m.n]))
                       /\ m.type = "done" => OnMessage(s, m) =
                             EndDrain(Wake(Counted(s, [call |-> m.call, n |-> 0])))
                       /\ m.type = "error" => OnMessage(s, m) =
                             EndDrain(Wake(Rejected(s)))
  <1> DEFINE told  == [s EXCEPT !.verdict[m.call] = "settled"]
             shut  == [s EXCEPT !.close = "closed"]
             chunk == Wake(Queued(s, [call |-> m.call, n |-> m.n]))
             done  == EndDrain(Wake(Counted(s, [call |-> m.call, n |-> 0])))
             fail  == EndDrain(Wake(Rejected(s)))
  <1>1. OnMessage(s, m) =
          IF m.type \in {"verdict", "verdict-error"} THEN told
          ELSE IF m.type = "closed" THEN shut
          ELSE IF s.deferredChunk = "none" \/ m.call # s.currentCallId THEN s
          ELSE CASE m.type = "chunk" -> chunk
                 [] m.type = "done" -> done
                 [] m.type = "error" -> fail
    BY DEF OnMessage, Arrive, Queued, Counted, Rejected
  <1> HIDE DEF told, shut, chunk, done, fail
  <1>2. m.type \in {"verdict", "verdict-error"} => OnMessage(s, m) = told
    BY <1>1
  <1>3. m.type = "closed" => OnMessage(s, m) = shut
    BY <1>1
  <1>4. Stream(m) /\ (s.deferredChunk = "none" \/ m.call # s.currentCallId)
            => OnMessage(s, m) = s
    BY <1>1 DEF Stream
  <1>5. s.deferredChunk # "none" /\ m.call = s.currentCallId =>
            /\ m.type = "chunk" => OnMessage(s, m) = chunk
            /\ m.type = "done" => OnMessage(s, m) = done
            /\ m.type = "error" => OnMessage(s, m) = fail
    BY <1>1
  <1> QED BY <1>2, <1>3, <1>4, <1>5 DEF told, shut, chunk, done, fail

LEMMA DeliverAgrees ==
    ASSUME NEW s \in Pages, NEW v \in WorkerStates, v.replied # <<>>, Agree(s, v)
    PROVE  /\ OnMessage(s, Head(v.replied)) \in Pages
           /\ Agree(OnMessage(s, Head(v.replied)), Heard(v))
  <1> DEFINE m == Head(v.replied)
             u == Heard(v)
             t == OnMessage(s, m)
  <1>1. /\ u \in WorkerStates /\ Agree(s, u) /\ u.phase = v.phase
        /\ u.replied = Tail(v.replied) /\ u.closer = v.closer /\ u.call = v.call
        /\ u.closing = v.closing
    BY HeardIs, AgreeHeard
  <1>2. /\ m \in PageMessages /\ m = v.replied[1] /\ 1 \in DOMAIN v.replied
        /\ \A i \in DOMAIN u.replied : /\ i + 1 \in DOMAIN v.replied
                                       /\ u.replied[i] = v.replied[i + 1]
                                       /\ i \in Nat /\ i > 0
    <2>1. v.replied \in Seq(PageMessages)
      BY DEF WorkerStates
    <2> QED BY <1>1, <2>1
  <1>3. Served(s) /\ NoneBusy(s)
    BY DEF Agree, NoneBusy
  <1> HIDE DEF m, u
  <1>4. ASSUME m.type \in {"verdict", "verdict-error"}
        PROVE  t \in Pages /\ Agree(t, u)
    <2>1. t = [s EXCEPT !.verdict[m.call] = "settled"] /\ m.call \in Verdicts
      BY <1>2, <1>4, OnMessageIs, PageMessageIs
    <2>2. s.posted \in Seq(WorkerMessages)
      BY DEF Pages
    <2> HIDE DEF t
    <2>3. t \in Pages
      BY <2>1 DEF Pages
    <2>4. /\ t.posted = s.posted /\ t.deferredChunk = s.deferredChunk
          /\ t.servingQuery = s.servingQuery /\ t.outcome = s.outcome
          /\ t.currentCallId = s.currentCallId /\ t.dead = s.dead /\ t.close = s.close
          /\ t.inbox = s.inbox /\ t.gen = s.gen
      BY <2>1 DEF Pages
    <2>5. Moves(s, t)
      BY <1>3, <2>2, <2>3, <2>4, ExtendsSelf DEF Moves, Served
    <2> QED BY <1>1, <2>3, <2>5, AgreeMoves
  <1>5. ASSUME m.type = "closed"
        PROVE  t \in Pages /\ Agree(t, u)
    <2>1. t = [s EXCEPT !.close = "closed"]
      BY <1>2, <1>5, OnMessageIs
    <2> HIDE DEF t
    <2>2. t \in Pages
      BY <2>1 DEF Pages
    <2>3. /\ t.posted = s.posted /\ t.deferredChunk = s.deferredChunk
          /\ t.servingQuery = s.servingQuery /\ t.outcome = s.outcome
          /\ t.currentCallId = s.currentCallId /\ t.dead = s.dead /\ t.close = "closed"
          /\ t.inbox = s.inbox /\ t.gen = s.gen
      BY <2>1 DEF Pages
    <2> QED BY <1>1, <2>2, <2>3
            DEF Agree, Served, PostedInv, RepliedInv, CloseInv, QueryPosted
  <1>6. ASSUME Stream(m), s.deferredChunk = "none" \/ m.call # s.currentCallId
        PROVE  t \in Pages /\ Agree(t, u)
    <2>1. t = s
      BY <1>2, <1>6, OnMessageIs
    <2> QED BY <1>1, <2>1
  <1>7. ASSUME Stream(m), s.deferredChunk # "none", m.call = s.currentCallId
        PROVE  t \in Pages /\ Agree(t, u)
    <2>1. m.call \in Queries /\ m.n \in Nat /\ s.servingQuery # Nobody
          /\ s.deferredChunk \in {"none", "armed", "failed"}
      BY <1>2, <1>3, <1>7, PageMessageIs DEF Stream, Served, Pages
    <2>2. v.phase # "gone" => s.deferredChunk = "armed"
      BY <1>2, <1>7 DEF Agree, RepliedInv
    <2>3. s.dead <=> v.phase = "gone"
      BY DEF Agree
    <2>4. s.posted \in Seq(WorkerMessages)
      BY DEF Pages
    <2>5. ASSUME m.type = "chunk" PROVE t \in Pages /\ Agree(t, u)
      <3> DEFINE e == [call |-> m.call, n |-> m.n]
                 x == Queued(s, e)
      <3>1. t = Wake(x)
        BY <1>2, <1>7, <2>5, OnMessageIs
      <3>2. e \in Values
        BY <2>1 DEF Values
      <3> HIDE DEF e, t
      <3>3. /\ x \in Pages /\ Kept(s, x) /\ x.posted = s.posted /\ x.deferredChunk = "armed"
            /\ x.servingQuery = s.servingQuery /\ x.outcome = s.outcome
        BY <3>2, QueuedIs
      <3> HIDE DEF x
      <3>4. Served(x)
        BY <1>3, <1>7, <2>1, <3>3 DEF Served, Kept
      <3>5. Moves(x, t) /\ t \in Pages
        BY <3>1, <3>3, <3>4, WakeMoves DEF Moves
      <3>6. Agree(x, u)
        <4>1. CASE v.phase = "gone"
          BY <1>1, <1>3, <2>3, <3>3, <3>4, <4>1, AgreeGone DEF Kept, NoneBusy
        <4>2. CASE v.phase # "gone"
          <5>1. Moves(s, x)
            BY <2>2, <2>4, <3>3, <3>4, <4>2, ExtendsSelf DEF Moves, Kept
          <5> QED BY <1>1, <3>3, <5>1, AgreeMoves
        <4> QED BY <4>1, <4>2
      <3> QED BY <1>1, <3>3, <3>5, <3>6, AgreeMoves
    <2>6. ASSUME NEW x \in Pages, Kept(s, x), x.posted = s.posted,
                 x.deferredChunk \in {"none", "failed"},
                 x.servingQuery = s.servingQuery, x.outcome = s.outcome,
                 Terminal(m), t = EndDrain(Wake(x))
          PROVE  t \in Pages /\ Agree(t, u)
      <3>1. Served(x)
        BY <1>3, <1>7, <2>1, <2>6 DEF Served, Kept
      <3>2. Moves(x, Wake(x)) /\ Wake(x) \in Pages /\ Served(Wake(x))
        BY <3>1, WakeMoves DEF Moves
      <3>3. Moves(Wake(x), t) /\ t \in Pages
        BY <2>6, <3>2, EndDrainMoves DEF Moves
      <3>4. Agree(x, u)
        <4>1. CASE v.phase = "gone"
          BY <1>1, <1>3, <2>3, <2>6, <3>1, <4>1, AgreeGone DEF Kept, NoneBusy
        <4>2. CASE v.phase # "gone"
          <5>1. /\ PostedInv(s, v) /\ RepliedInv(s, v) /\ CloseInv(s, u)
                /\ RepliedInv(s, u) /\ s.deferredChunk = "armed"
            BY <1>1, <2>2, <4>2 DEF Agree
          <5>2. NoStream(u)
            <6>1. ASSUME NEW i \in DOMAIN u.replied PROVE ~Stream(u.replied[i])
              <7>1. 1 < i + 1 /\ i + 1 \in DOMAIN v.replied /\ u.replied[i] = v.replied[i + 1]
                BY <1>2
              <7>2. Terminal(v.replied[1])
                BY <1>2, <2>6
              <7> QED BY <1>2, <5>1, <7>1, <7>2 DEF RepliedInv
            <6> QED BY <6>1 DEF NoStream
          <5>3. v.phase = "idle"
            BY <1>2, <2>6, <5>1 DEF RepliedInv, NoTerminal
          <5>4. \A i \in DOMAIN x.posted : x.posted[i].type # "query"
            BY <1>2, <1>7, <2>6, <5>1 DEF PostedInv, NoStream
          <5>5. PostedInv(x, u)
            BY <5>4 DEF PostedInv
          <5>6. RepliedInv(x, u)
            BY <1>1, <2>6, <5>2, <5>3 DEF RepliedInv, NoStream, NoTerminal, Stream, Terminal
          <5>7. CloseInv(x, u)
            BY <2>6, <5>1 DEF CloseInv, Kept
          <5> QED BY <1>1, <1>3, <2>3, <2>6, <3>1, <5>5, <5>6, <5>7 DEF Agree, Kept, NoneBusy
        <4> QED BY <4>1, <4>2
      <3>5. Agree(Wake(x), u)
        BY <1>1, <3>2, <3>4, AgreeMoves
      <3> QED BY <1>1, <3>2, <3>3, <3>5, AgreeMoves
    <2>7. CASE m.type = "done"
      <3> DEFINE e == [call |-> m.call, n |-> 0]
      <3>1. t = EndDrain(Wake(Counted(s, e)))
        BY <1>2, <1>7, <2>7, OnMessageIs
      <3>2. e \in Values
        BY <2>1 DEF Values
      <3> HIDE DEF e, t
      <3>3. Terminal(m)
        BY <2>7 DEF Terminal
      <3> QED BY <2>6, <3>1, <3>2, <3>3, CountedIs
    <2>8. CASE m.type = "error"
      <3>1. t = EndDrain(Wake(Rejected(s)))
        BY <1>2, <1>7, <2>8, OnMessageIs
      <3> HIDE DEF t
      <3>3. Terminal(m)
        BY <2>8 DEF Terminal
      <3> QED BY <2>6, <3>1, <3>3, RejectedIs
    <2> QED BY <1>7, <2>5, <2>7, <2>8 DEF Stream
  <1>8. m.type \in {"verdict", "verdict-error"} \/ m.type = "closed" \/ Stream(m)
    BY <1>2, PageMessageIs DEF Stream
  <1>9. t \in Pages /\ Agree(t, u)
    BY <1>4, <1>5, <1>6, <1>7, <1>8
  <1> QED BY <1>9 DEF t, u, m

-----------------------------------------------------------------------------
(* What the callers do.                                                     *)

(* interrupt(), for the transport being served.                             *)
Interrupted(s) == [s EXCEPT !.stopped = TRUE, !.slot = s.currentCallId]

LEMMA InterruptedIs ==
    ASSUME NEW s \in Pages
    PROVE  /\ Interrupted(s) \in Pages
           /\ Interrupted(s).posted = s.posted /\ Interrupted(s).deferredChunk = s.deferredChunk
           /\ Interrupted(s).inbox = s.inbox /\ Interrupted(s).servingQuery = s.servingQuery
           /\ Interrupted(s).waiters = s.waiters /\ Interrupted(s).outcome = s.outcome
           /\ Interrupted(s).got = s.got /\ Interrupted(s).gen = s.gen
           /\ Interrupted(s).currentCallId = s.currentCallId /\ Interrupted(s).dead = s.dead
           /\ Interrupted(s).close = s.close /\ Interrupted(s).failure = s.failure
           /\ Interrupted(s).returning = s.returning
           /\ Interrupted(s).slot = s.currentCallId /\ Interrupted(s).stopped
  <1>1. s.currentCallId \in Callers
    BY DEF Pages
  <1>2. Interrupted(s) \in Pages
    BY <1>1 DEF Interrupted, Pages
  <1> QED BY <1>2 DEF Interrupted, Pages

LEMMA InterruptMoves ==
    ASSUME NEW s \in Pages, NEW q \in Queries, Served(s)
    PROVE  Moves(s, Interrupt(s, q))
  <1> DEFINE u == Interrupted(s)
  <1>1. s.posted \in Seq(WorkerMessages)
    BY DEF Pages
  <1>2. /\ u \in Pages /\ u.posted = s.posted /\ u.deferredChunk = s.deferredChunk
        /\ u.servingQuery = s.servingQuery /\ u.outcome = s.outcome
        /\ u.currentCallId = s.currentCallId /\ u.dead = s.dead /\ u.close = s.close
        /\ u.inbox = s.inbox /\ u.gen = s.gen
    BY InterruptedIs
  <1>3. Interrupt(s, q) = IF s.servingQuery # q THEN s ELSE Wake(u)
    BY DEF Interrupt, Interrupted
  <1> HIDE DEF u
  <1>4. Moves(s, u) /\ Served(u)
    BY <1>1, <1>2, ExtendsSelf DEF Moves, Served
  <1>5. Moves(u, Wake(u)) /\ Wake(u) \in Pages
    BY <1>2, <1>4, WakeMoves DEF Moves
  <1>6. Moves(s, Wake(u))
    BY <1>2, <1>4, <1>5, MovesTwice
  <1> QED BY <1>3, <1>6, MovesSelf

(* return(), before the generator's own part in it.                         *)
Leaving(s, q) == [s EXCEPT !.returning = @ \cup {q}]

LEMMA LeavingIs ==
    ASSUME NEW s \in Pages, NEW q \in Queries
    PROVE  /\ Leaving(s, q) \in Pages
           /\ Leaving(s, q).posted = s.posted /\ Leaving(s, q).deferredChunk = s.deferredChunk
           /\ Leaving(s, q).inbox = s.inbox /\ Leaving(s, q).servingQuery = s.servingQuery
           /\ Leaving(s, q).waiters = s.waiters /\ Leaving(s, q).outcome = s.outcome
           /\ Leaving(s, q).got = s.got /\ Leaving(s, q).gen = s.gen
           /\ Leaving(s, q).currentCallId = s.currentCallId /\ Leaving(s, q).dead = s.dead
           /\ Leaving(s, q).close = s.close /\ Leaving(s, q).failure = s.failure
           /\ Leaving(s, q).stopped = s.stopped /\ Leaving(s, q).slot = s.slot
           /\ Leaving(s, q).returning = s.returning \cup {q}
  <1>1. s.returning \cup {q} \in SUBSET Queries
    BY DEF Pages
  <1>2. Leaving(s, q) \in Pages
    BY <1>1 DEF Leaving, Pages
  <1> QED BY <1>2 DEF Leaving, Pages

(* A generator that was never pulled ends where it is.                      *)
Unpulled(s, q) == [s EXCEPT !.gen[q] = "ended", !.outcome[q] = "left"]

LEMMA UnpulledIs ==
    ASSUME NEW s \in Pages, NEW q \in Queries
    PROVE  /\ Unpulled(s, q) \in Pages
           /\ Kept(s, Unpulled(s, q))
           /\ Unpulled(s, q).posted = s.posted
           /\ Unpulled(s, q).deferredChunk = s.deferredChunk
           /\ Unpulled(s, q).inbox = s.inbox
           /\ Unpulled(s, q).servingQuery = s.servingQuery
           /\ Unpulled(s, q).waiters = s.waiters /\ Unpulled(s, q).got = s.got
           /\ Unpulled(s, q).outcome = [s.outcome EXCEPT ![q] = "left"]
           /\ Unpulled(s, q).gen = [s.gen EXCEPT ![q] = "ended"]
  <1>1. "ended" \in GenStates /\ "left" \in Outcomes
    BY DEF GenStates, Outcomes
  <1>2. Unpulled(s, q) \in Pages
    BY <1>1 DEF Unpulled, Pages
  <1> QED BY <1>2 DEF Unpulled, Pages, Kept

LEMMA ReturnIs ==
    ASSUME NEW s \in Pages, NEW q \in Queries
    PROVE  Return(s, q) = IF s.gen[q] = "new" THEN Unpulled(Leaving(s, q), q)
                          ELSE IF s.gen[q] \in {"rows", "count"}
                          THEN Finally(Leaving(s, q), q, "left")
                          ELSE Leaving(s, q)
  <1>1. CASE s.gen[q] = "new"
    BY <1>1 DEF Return, Leaving, Unpulled
  <1>2. CASE s.gen[q] \in {"rows", "count"}
    BY <1>2 DEF Return, Leaving
  <1>3. CASE s.gen[q] \notin {"new", "rows", "count"}
    BY <1>3 DEF Return, Leaving
  <1> QED BY <1>1, <1>2, <1>3

LEMMA ReturnMoves ==
    ASSUME NEW s \in Pages, NEW q \in Queries, Served(s)
    PROVE  Moves(s, Return(s, q))
  <1> DEFINE u == Leaving(s, q)
  <1>1. s.posted \in Seq(WorkerMessages) /\ s.outcome \in [Queries -> Outcomes]
    BY DEF Pages
  <1>2. /\ u \in Pages /\ u.posted = s.posted /\ u.deferredChunk = s.deferredChunk
        /\ u.servingQuery = s.servingQuery /\ u.outcome = s.outcome
        /\ u.currentCallId = s.currentCallId /\ u.dead = s.dead /\ u.close = s.close
        /\ u.inbox = s.inbox /\ u.gen = s.gen
    BY LeavingIs
  <1> HIDE DEF u
  <1>3. Moves(s, u) /\ Served(u)
    BY <1>1, <1>2, ExtendsSelf DEF Moves, Served
  <1>4. Moves(u, Finally(u, q, "left")) /\ Finally(u, q, "left") \in Pages
    BY SMTT(30), <1>2, <1>3, FinallyMoves DEF Moves, Outcomes
  <1>5. Moves(s, Finally(u, q, "left"))
    BY <1>2, <1>3, <1>4, MovesTwice
  <1> DEFINE t == Unpulled(u, q)
  <1>6. /\ t \in Pages /\ Kept(u, t) /\ t.posted = u.posted
        /\ t.deferredChunk = u.deferredChunk /\ t.servingQuery = u.servingQuery
        /\ t.outcome = [u.outcome EXCEPT ![q] = "left"]
        /\ t.inbox = u.inbox /\ t.gen = [u.gen EXCEPT ![q] = "ended"]
    BY <1>2, UnpulledIs
  <1>8. u.gen \in [Queries -> GenStates]
    BY <1>2 DEF Pages
  <1> HIDE DEF t
  <1>7. Moves(s, t)
    BY <1>1, <1>2, <1>3, <1>6, <1>8, ExtendsSelf DEF Moves, Served, Kept
  <1> QED BY <1>3, <1>5, <1>7, ReturnIs DEF u, t

(* The page once it has claimed its worker and posted the query.            *)
Claimed(s, q) ==
    Post([s EXCEPT !.inbox = <<>>, !.stopped = FALSE,
                   !.servingQuery = q, !.failure = s.dead,
                   !.deferredChunk = "armed", !.currentCallId = q],
         [type |-> "query", call |-> q])

LEMMA ClaimedIs ==
    ASSUME NEW s \in Pages, NEW q \in Queries
    PROVE  LET t == Claimed(s, q) IN
           /\ t \in Pages
           /\ t.posted = Append(s.posted, [type |-> "query", call |-> q])
           /\ t.deferredChunk = "armed" /\ t.inbox = <<>> /\ ~t.stopped
           /\ t.servingQuery = q /\ t.currentCallId = q /\ t.failure = s.dead
           /\ t.dead = s.dead /\ t.waiters = s.waiters /\ t.gen = s.gen
           /\ t.got = s.got /\ t.outcome = s.outcome /\ t.returning = s.returning
           /\ t.slot = s.slot /\ t.close = s.close
  <1> DEFINE u == [s EXCEPT !.inbox = <<>>, !.stopped = FALSE,
                            !.servingQuery = q, !.failure = s.dead,
                            !.deferredChunk = "armed", !.currentCallId = q]
             m == [type |-> "query", call |-> q]
  <1>1. <<>> \in Seq(Values) /\ q \in Callers /\ s.dead \in BOOLEAN
    BY DEF Callers, Pages
  <1>2. u \in Pages
    BY <1>1 DEF Pages
  <1>3. /\ u.posted = s.posted
        /\ u.deferredChunk = "armed" /\ u.inbox = <<>> /\ ~u.stopped
        /\ u.servingQuery = q /\ u.currentCallId = q /\ u.failure = s.dead
        /\ u.dead = s.dead /\ u.waiters = s.waiters /\ u.gen = s.gen
        /\ u.got = s.got /\ u.outcome = s.outcome /\ u.returning = s.returning
        /\ u.slot = s.slot /\ u.close = s.close
    BY DEF Pages
  <1>4. m \in WorkerMessages
    BY DEF WorkerMessages
  <1> DEFINE t == Post(u, m)
  <1>5. Claimed(s, q) = t
    BY DEF Claimed
  <1> HIDE DEF u, m
  <1>6. /\ t \in Pages /\ Kept(u, t) /\ t.posted = Append(u.posted, m)
        /\ t.deferredChunk = u.deferredChunk /\ t.inbox = u.inbox
        /\ t.servingQuery = u.servingQuery /\ t.waiters = u.waiters
        /\ t.gen = u.gen /\ t.got = u.got /\ t.outcome = u.outcome
    BY <1>2, <1>4, PostIs
  <1> HIDE DEF t
  <1> QED BY <1>3, <1>5, <1>6 DEF Kept, m

(* A worker free for the page is idle, and nothing of a query is on its way.*)
LEMMA FreeIsIdle ==
    ASSUME NEW s \in Pages, NEW v \in WorkerStates, Agree(s, v),
           s.deferredChunk # "armed", v.phase # "gone"
    PROVE  v.phase = "idle" /\ NoStream(v) /\ ~QueryPosted(s)
  BY DEF Agree, PostedInv, RepliedInv, QueryPosted, NoStream

LEMMA ClaimedAgrees ==
    ASSUME NEW s \in Pages, NEW v \in WorkerStates, Agree(s, v), NEW q \in Queries,
           s.deferredChunk = "none"
    PROVE  Agree(Claimed(s, q), v)
  <1> DEFINE t == Claimed(s, q)
             m == [type |-> "query", call |-> q]
  <1>1. /\ t \in Pages
        /\ t.posted = Append(s.posted, m)
        /\ t.deferredChunk = "armed"
        /\ t.servingQuery = q /\ t.currentCallId = q
        /\ t.dead = s.dead /\ t.outcome = s.outcome /\ t.close = s.close
    BY ClaimedIs
  <1>2. s.posted \in Seq(WorkerMessages) /\ m.type = "query" /\ m.call = q /\ q # Nobody
    BY NobodyAssumption DEF Pages
  <1> HIDE DEF t, m
  <1>3. /\ \A i \in DOMAIN t.posted : \/ i \in DOMAIN s.posted /\ t.posted[i] = s.posted[i]
                                      \/ i = Len(s.posted) + 1 /\ t.posted[i] = m
        /\ Len(s.posted) + 1 \in DOMAIN t.posted
        /\ t.posted[Len(s.posted) + 1] = m
    BY <1>1, <1>2
  <1>4. ASSUME v.phase # "gone"
        PROVE  PostedInv(t, v) /\ RepliedInv(t, v) /\ CloseInv(t, v)
    <2>1. v.phase = "idle" /\ NoStream(v) /\ ~QueryPosted(s)
      BY <1>4, FreeIsIdle
    <2>2. PostedInv(t, v)
      BY <1>1, <1>2, <1>3, <2>1 DEF PostedInv, QueryPosted
    <2>3. QueryPosted(t)
      BY <1>2, <1>3 DEF QueryPosted
    <2>4. RepliedInv(t, v)
      BY <1>1, <2>1, <2>3 DEF RepliedInv, NoStream, NoTerminal, Stream, Terminal
    <2>5. CloseInv(s, v)
      BY <1>4 DEF Agree
    <2>6. CloseInv(t, v)
      BY <1>1, <1>2, <1>3, <2>5 DEF CloseInv
    <2> QED BY <2>2, <2>4, <2>6
  <1>5. Served(t)
    BY <1>1, <1>2 DEF Served
  <1> QED BY <1>1, <1>4, <1>5 DEF Agree, t

LEMMA ClaimAgrees ==
    ASSUME NEW s \in Pages, NEW v \in WorkerStates, Agree(s, v), NEW q \in Queries,
           s.deferredChunk = "none"
    PROVE  Claim(s, q) \in Pages /\ Agree(Claim(s, q), v)
  <1> DEFINE t == Claimed(s, q)
  <1>1. Claim(s, q) = Loop(t, q)
    BY DEF Claim, Claimed
  <1>2. t \in Pages /\ Agree(t, v)
    BY ClaimedIs, ClaimedAgrees
  <1> HIDE DEF t
  <1>3. Moves(t, Loop(t, q)) /\ Loop(t, q) \in Pages
    BY <1>2, LoopMoves DEF Agree, Moves
  <1> QED BY <1>1, <1>2, <1>3, AgreeMoves

(* A later next().                                                          *)
LEMMA ResumeMoves ==
    ASSUME NEW s \in Pages, NEW q \in Queries, Served(s),
           s.gen[q] # "count" => s.currentCallId \in Queries
    PROVE  Moves(s, Resume(s, q))
  <1> DEFINE m == [type |-> "credit", call |-> s.currentCallId]
             u == IF s.gen[q] = "count" THEN s ELSE Post(s, m)
  <1>1. Resume(s, q) = Loop(u, q)
    BY DEF Resume
  <1>2. u \in Pages /\ Moves(s, u)
    <2>1. CASE s.gen[q] = "count"
      BY <2>1, MovesSelf
    <2>2. CASE s.gen[q] # "count"
      <3> DEFINE t == Post(s, m)
      <3>1. m \in WorkerMessages /\ m.type = "credit"
        BY <2>2 DEF WorkerMessages
      <3>2. s.posted \in Seq(WorkerMessages)
        BY DEF Pages
      <3> HIDE DEF m
      <3>3. /\ t \in Pages /\ Kept(s, t) /\ t.posted = Append(s.posted, m)
            /\ t.deferredChunk = s.deferredChunk /\ t.servingQuery = s.servingQuery
            /\ t.outcome = s.outcome
        BY <3>1, PostIs
      <3> HIDE DEF t
      <3>4. Moves(s, t)
        BY <3>1, <3>2, <3>3, ExtendsAppend DEF Moves, Kept, Served
      <3> QED BY <2>2, <3>3, <3>4 DEF t
    <2> QED BY <2>1, <2>2
  <1> HIDE DEF u
  <1>3. Moves(u, Loop(u, q)) /\ Loop(u, q) \in Pages
    BY <1>2, LoopMoves DEF Moves
  <1> QED BY <1>1, <1>2, <1>3, MovesTwice
-----------------------------------------------------------------------------
(* The worker's operators.                                                  *)

(* What the mutex leaves alone.                                             *)
Aside(v, u) ==
    /\ u.build = v.build /\ u.phase = v.phase /\ u.call = v.call
    /\ u.credits = v.credits /\ u.stopped = v.stopped /\ u.taken = v.taken
    /\ u.sent = v.sent /\ u.closing = v.closing /\ u.closer = v.closer
    /\ u.replied = v.replied

(* x takes the mutex, or the last place in the line for it.                 *)
InLine(v, x, u) ==
    /\ u \in WorkerStates
    /\ Aside(v, u)
    /\ v.holder = Nobody => u.holder = x /\ u.queue = v.queue
    /\ v.holder # Nobody => u.holder = v.holder /\ u.queue = Append(v.queue, x)

LEMMA HoldIs ==
    ASSUME NEW v \in WorkerStates, NEW x \in Holders
    PROVE  InLine(v, x, HoldSqlite(v, x))
  <1>1. Append(v.queue, x) \in Seq(Holders) /\ x \in Holders \cup {Nobody}
    BY DEF WorkerStates
  <1>2. HoldSqlite(v, x) \in WorkerStates
    BY <1>1 DEF HoldSqlite, WorkerStates
  <1> QED BY <1>2 DEF HoldSqlite, InLine, Aside, WorkerStates

(* The mutex goes to the first in the line.                                 *)
OutOfLine(v, u) ==
    /\ u \in WorkerStates
    /\ Aside(v, u)
    /\ v.queue = <<>> => u.holder = Nobody /\ u.queue = <<>>
    /\ v.queue # <<>> => u.holder = Head(v.queue) /\ u.queue = Tail(v.queue)

LEMMA ReleaseIs ==
    ASSUME NEW v \in WorkerStates
    PROVE  OutOfLine(v, ReleaseSqlite(v))
  <1>1. v.queue \in Seq(Holders)
    BY DEF WorkerStates
  <1>2. CASE v.queue = <<>>
    <2>1. ReleaseSqlite(v) \in WorkerStates
      BY <1>2 DEF ReleaseSqlite, WorkerStates
    <2> QED BY <1>2, <2>1 DEF ReleaseSqlite, OutOfLine, Aside, WorkerStates
  <1>3. CASE v.queue # <<>>
    <2>1. Head(v.queue) \in Holders \cup {Nobody} /\ Tail(v.queue) \in Seq(Holders)
      BY <1>1, <1>3
    <2>2. ReleaseSqlite(v) \in WorkerStates
      BY <1>3, <2>1 DEF ReleaseSqlite, WorkerStates
    <2> QED BY <1>3, <2>2 DEF ReleaseSqlite, OutOfLine, Aside, WorkerStates
  <1> QED BY <1>2, <1>3

LEMMA ReplyIs ==
    ASSUME NEW v \in WorkerStates, NEW m \in PageMessages
    PROVE  /\ Reply(v, m) \in WorkerStates
           /\ Reply(v, m).build = v.build /\ Reply(v, m).phase = v.phase
           /\ Reply(v, m).call = v.call /\ Reply(v, m).credits = v.credits
           /\ Reply(v, m).stopped = v.stopped /\ Reply(v, m).taken = v.taken
           /\ Reply(v, m).sent = v.sent /\ Reply(v, m).closing = v.closing
           /\ Reply(v, m).closer = v.closer /\ Reply(v, m).holder = v.holder
           /\ Reply(v, m).queue = v.queue
           /\ Reply(v, m).replied = Append(v.replied, m)
  <1>1. Append(v.replied, m) \in Seq(PageMessages)
    BY DEF WorkerStates
  <1>2. Reply(v, m) \in WorkerStates
    BY <1>1 DEF Reply, WorkerStates
  <1> QED BY <1>2 DEF Reply, WorkerStates

(* Nobody and the closer are neither queries nor verdicts.                  *)
LEMMA HoldersAre ==
    /\ Nobody \notin Queries /\ Nobody \notin Verdicts /\ Nobody # "closer"
    /\ "closer" \notin Queries /\ "closer" \notin Verdicts
    /\ Queries \cap Verdicts = {}
  BY NobodyAssumption, TransportAssumption DEF Nobody

-----------------------------------------------------------------------------
(* The mutex has one line.                                                  *)

(* Somebody who is neither a query nor the closer joins the line.           *)
LEMMA MutexVerdict ==
    ASSUME NEW v \in WorkerStates, NEW u \in WorkerStates, NEW x \in Verdicts,
           MutexInv(v), InLine(v, x, u)
    PROVE  MutexInv(u)
  <1>1. v.queue \in Seq(Holders)
    BY DEF WorkerStates
  <1>2. CASE v.holder = Nobody
    BY <1>1, <1>2, HoldersAre DEF InLine, Aside, MutexInv
  <1>3. CASE v.holder # Nobody
    <2>1. /\ u.holder = v.holder /\ u.queue = Append(v.queue, x) /\ Aside(v, u)
          /\ DOMAIN v.queue = 1 .. Len(v.queue) /\ Len(v.queue) \in Nat
          /\ DOMAIN u.queue = 1 .. Len(v.queue) + 1
          /\ \A i \in 1 .. Len(v.queue) : u.queue[i] = v.queue[i]
          /\ u.queue[Len(v.queue) + 1] = x
      BY <1>1, <1>3 DEF InLine
    <2> QED BY <1>3, <2>1, HoldersAre DEF Aside, MutexInv
  <1> QED BY <1>2, <1>3

(* A query joins a line with no other query in it.                          *)
LEMMA MutexQuery ==
    ASSUME NEW v \in WorkerStates, NEW u \in WorkerStates,
           v.call \in Queries, v.phase \in {"turn", "back"}, InLine(v, v.call, u),
           v.holder = Nobody => v.queue = <<>>,
           v.holder \notin Queries,
           \A i \in DOMAIN v.queue : v.queue[i] \notin Queries,
           v.holder = "closer" =>
              /\ v.closer = "mutex" /\ v.phase = "turn"
              /\ \A i \in DOMAIN v.queue : v.queue[i] # "closer",
           \A i \in DOMAIN v.queue : v.queue[i] = "closer" =>
              /\ v.closer = "mutex" /\ v.phase = "turn"
              /\ \A j \in DOMAIN v.queue : v.queue[j] = "closer" => i = j
    PROVE  MutexInv(u)
  <1>1. v.queue \in Seq(Holders)
    BY DEF WorkerStates
  <1>2. CASE v.holder = Nobody
    BY <1>1, <1>2, HoldersAre DEF InLine, Aside, MutexInv
  <1>3. CASE v.holder # Nobody
    <2>1. /\ u.holder = v.holder /\ u.queue = Append(v.queue, v.call) /\ Aside(v, u)
          /\ DOMAIN v.queue = 1 .. Len(v.queue) /\ Len(v.queue) \in Nat
          /\ DOMAIN u.queue = 1 .. Len(v.queue) + 1
          /\ \A i \in 1 .. Len(v.queue) : u.queue[i] = v.queue[i]
          /\ u.queue[Len(v.queue) + 1] = v.call
      BY <1>1, <1>3 DEF InLine
    <2> QED BY <1>3, <2>1, HoldersAre DEF Aside, MutexInv
  <1> QED BY <1>2, <1>3

(* The closer joins a line with no query in it.                             *)
LEMMA MutexCloser ==
    ASSUME NEW v \in WorkerStates, NEW u \in WorkerStates,
           v.closer = "mutex", v.phase = "idle", InLine(v, "closer", u),
           v.holder = Nobody => v.queue = <<>>,
           v.holder \notin Queries \cup {"closer"},
           \A i \in DOMAIN v.queue : v.queue[i] \notin Queries \cup {"closer"}
    PROVE  MutexInv(u)
  <1>1. v.queue \in Seq(Holders)
    BY DEF WorkerStates
  <1>2. CASE v.holder = Nobody
    BY <1>1, <1>2, HoldersAre DEF InLine, Aside, MutexInv
  <1>3. CASE v.holder # Nobody
    <2>1. /\ u.holder = v.holder /\ u.queue = Append(v.queue, "closer") /\ Aside(v, u)
          /\ DOMAIN v.queue = 1 .. Len(v.queue) /\ Len(v.queue) \in Nat
          /\ DOMAIN u.queue = 1 .. Len(v.queue) + 1
          /\ \A i \in 1 .. Len(v.queue) : u.queue[i] = v.queue[i]
          /\ u.queue[Len(v.queue) + 1] = "closer"
      BY <1>1, <1>3 DEF InLine
    <2> QED BY <1>3, <2>1, HoldersAre DEF Aside, MutexInv
  <1> QED BY <1>2, <1>3

(* The rest of a line no query and no closer is in.                         *)
Clear(v) ==
    /\ v.holder = Nobody => v.queue = <<>>
    /\ v.holder \notin Queries \cup {"closer"}
    /\ \A i \in DOMAIN v.queue : v.queue[i] \notin Queries \cup {"closer"}

(* The query in SQLite lets go of it.                                       *)
LEMMA ReleaseClears ==
    ASSUME NEW v \in WorkerStates, NEW u \in WorkerStates, OutOfLine(v, u),
           \A i \in DOMAIN v.queue : v.queue[i] \notin Queries \cup {"closer"}
    PROVE  Clear(u)
  <1>1. v.queue \in Seq(Holders)
    BY DEF WorkerStates
  <1>2. CASE v.queue = <<>>
    BY <1>2, HoldersAre DEF OutOfLine, Clear
  <1>3. CASE v.queue # <<>>
    <2>1. /\ Head(v.queue) \in Holders /\ Head(v.queue) = v.queue[1] /\ 1 \in DOMAIN v.queue
          /\ \A i \in DOMAIN Tail(v.queue) : /\ i + 1 \in DOMAIN v.queue
                                             /\ Tail(v.queue)[i] = v.queue[i + 1]
      BY <1>1, <1>3, TailIs
    <2>2. v.queue[1] # Nobody
      BY <2>1, HoldersAre DEF Holders
    <2> QED BY <1>3, <2>1, <2>2 DEF OutOfLine, Clear
  <1> QED BY <1>2, <1>3

(* A clear line, and a query that is nowhere in it.                         *)
LEMMA MutexClear ==
    ASSUME NEW v \in WorkerStates, Clear(v), v.phase \in {"idle", "taking"},
           v.phase = "taking" => v.call \in Queries,
           v.closer = "query" => v.phase # "idle"
    PROVE  MutexInv(v)
  BY DEF Clear, MutexInv

(* Somebody who is not the query lets go of the mutex.                      *)
LEMMA MutexRelease ==
    ASSUME NEW v \in WorkerStates, NEW u \in WorkerStates, OutOfLine(v, u),
           v.holder \in Verdicts \cup {"closer"},
           v.phase \in {"turn", "running", "taking", "back"} => v.call \in Queries,
           v.phase # "running",
           v.phase \in {"turn", "back"} => \E i \in DOMAIN v.queue : v.queue[i] = v.call,
           \A i \in DOMAIN v.queue : v.queue[i] \in Queries =>
              /\ v.queue[i] = v.call
              /\ v.phase \in {"turn", "back"}
              /\ \A j \in DOMAIN v.queue : i < j => v.queue[j] \notin Queries \cup {"closer"},
           \A i \in DOMAIN v.queue : v.queue[i] = "closer" =>
              /\ v.closer = "mutex"
              /\ v.phase \in {"idle", "turn"}
              /\ \A j \in DOMAIN v.queue : v.queue[j] = "closer" => i = j,
           v.closer = "query" => v.phase # "idle"
    PROVE  MutexInv(u)
  <1>1. v.queue \in Seq(Holders)
    BY DEF WorkerStates
  <1>2. CASE v.queue = <<>>
    BY <1>2, HoldersAre DEF OutOfLine, Aside, MutexInv
  <1>3. CASE v.queue # <<>>
    <2>1. /\ u.holder = v.queue[1] /\ u.holder # Nobody /\ 1 \in DOMAIN v.queue
          /\ Aside(v, u)
          /\ \A i \in DOMAIN u.queue : /\ i + 1 \in DOMAIN v.queue
                                       /\ u.queue[i] = v.queue[i + 1]
                                       /\ i \in Nat /\ i > 0
          /\ \A i \in DOMAIN v.queue : i # 1 => /\ i - 1 \in DOMAIN u.queue
                                                /\ u.queue[i - 1] = v.queue[i]
          /\ DOMAIN v.queue \subseteq Nat
      <3>1. Head(v.queue) # Nobody
        BY <1>1, <1>3, HoldersAre DEF Holders
      <3>2. DOMAIN Tail(v.queue) = 1 .. Len(v.queue) - 1 /\ Len(v.queue) \in Nat
        BY <1>1, <1>3
      <3>3. /\ Head(v.queue) = v.queue[1] /\ 1 \in DOMAIN v.queue
            /\ \A i \in DOMAIN Tail(v.queue) : /\ i + 1 \in DOMAIN v.queue
                                               /\ Tail(v.queue)[i] = v.queue[i + 1]
            /\ \A i \in DOMAIN v.queue : i # 1 => /\ i - 1 \in DOMAIN Tail(v.queue)
                                                  /\ Tail(v.queue)[i - 1] = v.queue[i]
            /\ DOMAIN v.queue \subseteq Nat
        BY <1>1, <1>3, TailIs
      <3>4. u.holder = Head(v.queue) /\ u.queue = Tail(v.queue) /\ Aside(v, u)
        BY <1>3 DEF OutOfLine
      <3>5. \A i \in DOMAIN u.queue : i \in Nat /\ i > 0
        BY <3>2, <3>4
      <3> QED BY <3>1, <3>3, <3>4, <3>5
    <2>2. /\ u.phase = v.phase /\ u.call = v.call /\ u.closer = v.closer
      BY <2>1 DEF Aside
    <2>3. u.phase \in {"turn", "back"} =>
              u.holder = u.call \/ \E i \in DOMAIN u.queue : u.queue[i] = u.call
      BY <2>1, <2>2
    <2>4. u.holder \in Queries =>
              /\ u.holder = u.call
              /\ u.phase \in {"turn", "running", "back"}
              /\ \A i \in DOMAIN u.queue : u.queue[i] \notin Queries \cup {"closer"}
      <3> SUFFICES ASSUME u.holder \in Queries
                   PROVE  /\ u.holder = u.call
                          /\ u.phase \in {"turn", "running", "back"}
                          /\ \A i \in DOMAIN u.queue : u.queue[i] \notin Queries \cup {"closer"}
        OBVIOUS
      <3>1. /\ v.queue[1] = v.call /\ v.phase \in {"turn", "back"}
            /\ \A j \in DOMAIN v.queue : 1 < j => v.queue[j] \notin Queries \cup {"closer"}
        BY <2>1
      <3>2. \A i \in DOMAIN u.queue : i + 1 \in DOMAIN v.queue /\ 1 < i + 1
        BY <2>1
      <3> QED BY <2>1, <2>2, <3>1, <3>2
    <2>5. \A i \in DOMAIN u.queue : u.queue[i] \in Queries =>
              /\ u.queue[i] = u.call
              /\ u.phase \in {"turn", "back"}
              /\ \A j \in DOMAIN u.queue : i < j => u.queue[j] \notin Queries \cup {"closer"}
      BY <2>1, <2>2
    <2>6. u.holder = "closer" =>
              /\ u.closer = "mutex"
              /\ u.phase \in {"idle", "turn"}
              /\ \A i \in DOMAIN u.queue : u.queue[i] # "closer"
      <3> SUFFICES ASSUME u.holder = "closer"
                   PROVE  /\ u.closer = "mutex"
                          /\ u.phase \in {"idle", "turn"}
                          /\ \A i \in DOMAIN u.queue : u.queue[i] # "closer"
        OBVIOUS
      <3>1. /\ v.closer = "mutex" /\ v.phase \in {"idle", "turn"}
            /\ \A j \in DOMAIN v.queue : v.queue[j] = "closer" => 1 = j
        BY <2>1
      <3>2. \A i \in DOMAIN u.queue : i + 1 \in DOMAIN v.queue /\ 1 # i + 1
        BY <2>1
      <3> QED BY <2>1, <2>2, <3>1, <3>2
    <2>7. \A i \in DOMAIN u.queue : u.queue[i] = "closer" =>
              /\ u.closer = "mutex"
              /\ u.phase \in {"idle", "turn"}
              /\ \A j \in DOMAIN u.queue : u.queue[j] = "closer" => i = j
      <3> SUFFICES ASSUME NEW i \in DOMAIN u.queue, u.queue[i] = "closer"
                   PROVE  /\ u.closer = "mutex"
                          /\ u.phase \in {"idle", "turn"}
                          /\ \A j \in DOMAIN u.queue : u.queue[j] = "closer" => i = j
        OBVIOUS
      <3>1. i + 1 \in DOMAIN v.queue /\ v.queue[i + 1] = "closer" /\ i \in Nat
        BY <2>1
      <3>2. \A j \in DOMAIN v.queue : v.queue[j] = "closer" => i + 1 = j
        BY <3>1
      <3>3. ASSUME NEW j \in DOMAIN u.queue, u.queue[j] = "closer" PROVE i = j
        <4>1. j + 1 \in DOMAIN v.queue /\ v.queue[j + 1] = "closer" /\ j \in Nat
          BY <2>1, <3>3
        <4> QED BY <3>1, <3>2, <4>1
      <3> QED BY <2>2, <3>1, <3>3
    <2> QED BY <2>1, <2>2, <2>3, <2>4, <2>5, <2>6, <2>7 DEF MutexInv
  <1> QED BY <1>2, <1>3

-----------------------------------------------------------------------------
(* What a step of the worker may do to the query in flight.                 *)

(* A step that answers nothing, or another request.                         *)
LEMMA AgreeQuiet ==
    ASSUME NEW s \in Pages, NEW v \in WorkerStates, NEW u \in WorkerStates, Agree(s, v),
           v.phase # "gone", u.phase # "gone", u.phase = "idle" <=> v.phase = "idle",
           u.call = v.call, u.closing = v.closing,
           u.closer = "none" <=> v.closer = "none",
           \/ u.replied = v.replied
           \/ \E m \in PageMessages : ~Stream(m) /\ u.replied = Append(v.replied, m)
    PROVE  Agree(s, u)
  <1>1. PostedInv(s, v) /\ RepliedInv(s, v) /\ CloseInv(s, v)
    BY DEF Agree
  <1>2. v.replied \in Seq(PageMessages)
    BY DEF WorkerStates
  <1>3. /\ DOMAIN v.replied \subseteq DOMAIN u.replied
        /\ \A i \in DOMAIN v.replied : u.replied[i] = v.replied[i]
        /\ \A i \in DOMAIN u.replied : Stream(u.replied[i]) => i \in DOMAIN v.replied
    <2>1. CASE u.replied = v.replied
      BY <2>1
    <2>2. ASSUME NEW m \in PageMessages, ~Stream(m), u.replied = Append(v.replied, m)
          PROVE  <1>3!1 /\ <1>3!2 /\ <1>3!3
      <3>1. DOMAIN v.replied = 1 .. Len(v.replied) /\ Len(v.replied) \in Nat
            /\ DOMAIN u.replied = 1 .. Len(v.replied) + 1
            /\ \A i \in 1 .. Len(v.replied) : u.replied[i] = v.replied[i]
            /\ u.replied[Len(v.replied) + 1] = m
        BY <1>2, <2>2
      <3> QED BY <2>2, <3>1
    <2> QED BY <2>1, <2>2
  <1>4. NoStream(v) => NoStream(u)
    BY <1>3 DEF NoStream
  <1>5. NoTerminal(v) => NoTerminal(u)
    BY <1>3 DEF NoTerminal, Terminal, Stream
  <1>6. PostedInv(s, u)
    BY <1>1, <1>4 DEF PostedInv
  <1>7. RepliedInv(s, u)
    BY <1>1, <1>3, <1>5 DEF RepliedInv, Terminal, Stream
  <1>8. CloseInv(s, u)
    BY <1>1 DEF CloseInv
  <1> QED BY <1>6, <1>7, <1>8 DEF Agree

(* The worker inside its query is inside the page's.                        *)
LEMMA AgreeCall ==
    ASSUME NEW s \in Pages, NEW v \in WorkerStates, Agree(s, v),
           v.phase \notin {"idle", "gone"}
    PROVE  /\ v.call = s.currentCallId /\ s.deferredChunk = "armed" /\ s.currentCallId \in Queries
           /\ ~QueryPosted(s) /\ NoTerminal(v)
  BY DEF Agree, PostedInv, RepliedInv, QueryPosted, Served

(* A chunk, or the last answer, of the query the worker is in.              *)
LEMMA AgreeReply ==
    ASSUME NEW s \in Pages, NEW v \in WorkerStates, NEW u \in WorkerStates, Agree(s, v),
           v.phase \notin {"idle", "gone"}, u.phase # "gone",
           NEW m \in PageMessages, Stream(m), m.call = v.call,
           u.phase = "idle" <=> Terminal(m),
           u.call = v.call, u.closing = v.closing,
           u.closer = "none" <=> v.closer = "none",
           u.replied = Append(v.replied, m)
    PROVE  Agree(s, u)
  <1>1. RepliedInv(s, v) /\ CloseInv(s, v)
    BY DEF Agree
  <1>2. /\ v.call = s.currentCallId /\ s.deferredChunk = "armed"
        /\ ~QueryPosted(s) /\ NoTerminal(v)
    BY AgreeCall
  <1>3. /\ DOMAIN v.replied = 1 .. Len(v.replied) /\ Len(v.replied) \in Nat
        /\ DOMAIN u.replied = 1 .. Len(v.replied) + 1
        /\ \A i \in 1 .. Len(v.replied) : u.replied[i] = v.replied[i]
        /\ u.replied[Len(v.replied) + 1] = m
    <2>1. v.replied \in Seq(PageMessages)
      BY DEF WorkerStates
    <2> QED BY <2>1
  <1>4. PostedInv(s, u)
    BY <1>2 DEF PostedInv, QueryPosted
  <1>5. ASSUME NEW i \in DOMAIN u.replied, NEW j \in DOMAIN u.replied,
               i < j, Terminal(u.replied[i])
        PROVE  FALSE
    BY <1>2, <1>3, <1>5 DEF NoTerminal
  <1>6. \A i \in DOMAIN u.replied : Stream(u.replied[i]) =>
            u.replied[i].call = s.currentCallId
    BY <1>1, <1>2, <1>3 DEF RepliedInv
  <1>7. u.phase # "idle" => NoTerminal(u)
    BY <1>2, <1>3 DEF NoTerminal
  <1>8. RepliedInv(s, u)
    BY <1>2, <1>5, <1>6, <1>7 DEF RepliedInv
  <1>9. CloseInv(s, u)
    BY <1>1 DEF CloseInv
  <1> QED BY <1>4, <1>8, <1>9 DEF Agree

-----------------------------------------------------------------------------
(* The worker reads its first message.                                      *)

Read(s) == [s EXCEPT !.posted = Tail(@)]

LEMMA ReadIs ==
    ASSUME NEW s \in Pages, s.posted # <<>>
    PROVE  /\ Read(s) \in Pages /\ Kept(s, Read(s))
           /\ Read(s).posted = Tail(s.posted)
           /\ Read(s).deferredChunk = s.deferredChunk /\ Read(s).inbox = s.inbox
           /\ Read(s).servingQuery = s.servingQuery /\ Read(s).waiters = s.waiters
           /\ Read(s).gen = s.gen /\ Read(s).got = s.got /\ Read(s).outcome = s.outcome
  <1>1. Tail(s.posted) \in Seq(WorkerMessages)
    BY DEF Pages
  <1>2. Read(s) \in Pages
    BY <1>1 DEF Read, Pages
  <1> QED BY <1>2 DEF Read, Pages, Kept

(* What is left of the messages, and what was the first.                    *)
LEMMA PostedTail ==
    ASSUME NEW s \in Pages, s.posted # <<>>
    PROVE  /\ Head(s.posted) = s.posted[1] /\ Head(s.posted) \in WorkerMessages
           /\ 1 \in DOMAIN s.posted
           /\ \A i \in DOMAIN Read(s).posted : /\ i \in Nat /\ i > 0
                                               /\ i + 1 \in DOMAIN s.posted
                                               /\ Read(s).posted[i] = s.posted[i + 1]
           /\ \A i \in DOMAIN s.posted : i # 1 => /\ i - 1 \in DOMAIN Read(s).posted
                                                  /\ Read(s).posted[i - 1] = s.posted[i]
  <1>1. s.posted \in Seq(WorkerMessages) /\ Read(s).posted = Tail(s.posted)
    BY ReadIs DEF Pages
  <1>2. DOMAIN Tail(s.posted) = 1 .. Len(s.posted) - 1 /\ Len(s.posted) \in Nat
    BY <1>1
  <1> QED BY <1>1, <1>2, TailIs

LEMMA WorkerMessageIs ==
    ASSUME NEW m \in WorkerMessages
    PROVE  /\ m.type \in {"query", "credit", "stop", "verdict", "close"}
           /\ m.type \in {"query", "credit", "stop"} => m.call \in Queries
           /\ m.type = "verdict" => m.call \in Verdicts
  BY DEF WorkerMessages

(* A message that is no query leaves the query in flight where it is.       *)
LEMMA ReadAgrees ==
    ASSUME NEW s \in Pages, NEW v \in WorkerStates, Agree(s, v), v.phase # "gone",
           s.posted # <<>>, Head(s.posted).type # "query"
    PROVE  Agree(Read(s), v)
  <1> DEFINE t == Read(s)
  <1>1. /\ t \in Pages /\ Kept(s, t) /\ t.deferredChunk = s.deferredChunk
        /\ t.inbox = s.inbox /\ t.gen = s.gen
        /\ t.servingQuery = s.servingQuery /\ t.outcome = s.outcome
    BY ReadIs
  <1>2. /\ Head(s.posted) = s.posted[1] /\ 1 \in DOMAIN s.posted
        /\ \A i \in DOMAIN t.posted : /\ i \in Nat /\ i > 0
                                      /\ i + 1 \in DOMAIN s.posted
                                      /\ t.posted[i] = s.posted[i + 1]
        /\ \A i \in DOMAIN s.posted : i # 1 => /\ i - 1 \in DOMAIN t.posted
                                               /\ t.posted[i - 1] = s.posted[i]
    BY PostedTail
  <1> HIDE DEF t
  <1>3. PostedInv(s, v) /\ RepliedInv(s, v) /\ CloseInv(s, v)
    BY DEF Agree
  <1>4. ASSUME NEW i \in DOMAIN t.posted, NEW j \in DOMAIN t.posted,
               \/ t.posted[i].type = "query" /\ t.posted[j].type = "query"
               \/ t.posted[i].type = "close" /\ t.posted[j].type = "close"
        PROVE  i = j
    <2>1. /\ i + 1 \in DOMAIN s.posted /\ t.posted[i] = s.posted[i + 1] /\ i \in Nat
          /\ j + 1 \in DOMAIN s.posted /\ t.posted[j] = s.posted[j + 1] /\ j \in Nat
      BY <1>2
    <2>2. i + 1 = j + 1
      BY <1>3, <1>4, <2>1 DEF PostedInv, CloseInv
    <2> QED BY <2>1, <2>2
  <1>5. PostedInv(t, v)
    <2>1. ASSUME NEW i \in DOMAIN t.posted, t.posted[i].type = "query"
          PROVE  /\ t.posted[i].call = t.currentCallId
                 /\ t.deferredChunk = "armed"
                 /\ v.phase = "idle"
                 /\ NoStream(v)
      BY <1>1, <1>2, <1>3, <2>1 DEF PostedInv, Kept
    <2> QED BY <1>4, <2>1 DEF PostedInv
  <1>6. QueryPosted(s) => QueryPosted(t)
    BY <1>2 DEF QueryPosted
  <1>7. RepliedInv(t, v)
    BY <1>1, <1>3, <1>6 DEF RepliedInv, Kept
  <1>8. CloseInv(t, v)
    <2>1. ASSUME NEW i \in DOMAIN t.posted, t.posted[i].type = "close"
          PROVE  t.close # "none" /\ v.closer = "none"
      BY <1>1, <1>2, <1>3, <2>1 DEF CloseInv, Kept
    <2> QED BY <1>1, <1>3, <1>4, <2>1 DEF CloseInv, Kept
  <1>9. Served(t) /\ \A q \in Queries : t.outcome[q] # "busy"
    BY <1>1 DEF Agree, Served, Kept
  <1> QED BY <1>1, <1>5, <1>7, <1>8, <1>9 DEF Agree, Kept, t

(* The query itself: from here on the worker is in it.                      *)
LEMMA QueryAgrees ==
    ASSUME NEW s \in Pages, NEW v \in WorkerStates, NEW u \in WorkerStates,
           Agree(s, v), v.phase # "gone",
           s.posted # <<>>, Head(s.posted).type = "query",
           u.phase = "turn", u.call = Head(s.posted).call, u.closing = v.closing,
           u.closer = v.closer, u.replied = v.replied
    PROVE  Agree(Read(s), u) /\ v.phase = "idle" /\ Head(s.posted).call \in Queries
  <1> DEFINE t == Read(s)
             m == Head(s.posted)
  <1>1. /\ t \in Pages /\ Kept(s, t) /\ t.deferredChunk = s.deferredChunk
        /\ t.inbox = s.inbox /\ t.gen = s.gen
        /\ t.servingQuery = s.servingQuery /\ t.outcome = s.outcome
    BY ReadIs
  <1>2. /\ m = s.posted[1] /\ 1 \in DOMAIN s.posted /\ m \in WorkerMessages
        /\ \A i \in DOMAIN t.posted : /\ i \in Nat /\ i > 0
                                      /\ i + 1 \in DOMAIN s.posted
                                      /\ t.posted[i] = s.posted[i + 1]
    BY PostedTail
  <1> HIDE DEF t, m
  <1>3. PostedInv(s, v) /\ RepliedInv(s, v) /\ CloseInv(s, v) /\ m.type = "query"
    BY DEF Agree, m
  <1>4. /\ m.call = s.currentCallId /\ s.deferredChunk = "armed" /\ v.phase = "idle"
        /\ NoStream(v)
        /\ \A j \in DOMAIN s.posted : s.posted[j].type = "query" => 1 = j
    BY <1>2, <1>3 DEF PostedInv
  <1>5. ~QueryPosted(t)
    BY <1>2, <1>4 DEF QueryPosted
  <1>6. PostedInv(t, u)
    BY <1>5 DEF PostedInv, QueryPosted
  <1>7. RepliedInv(t, u)
    BY <1>1, <1>4 DEF RepliedInv, NoStream, NoTerminal, Stream, Terminal, Kept, m
  <1>8. CloseInv(t, u)
    <2>1. ASSUME NEW i \in DOMAIN t.posted, t.posted[i].type = "close"
          PROVE  /\ t.close # "none" /\ u.closer = "none"
                 /\ \A j \in DOMAIN t.posted : t.posted[j].type = "close" => i = j
      <3>1. i + 1 \in DOMAIN s.posted /\ s.posted[i + 1].type = "close" /\ i \in Nat
        BY <1>2, <2>1
      <3>2. \A j \in DOMAIN s.posted : s.posted[j].type = "close" => i + 1 = j
        BY <1>3, <3>1 DEF CloseInv
      <3>3. ASSUME NEW j \in DOMAIN t.posted, t.posted[j].type = "close" PROVE i = j
        <4>1. j + 1 \in DOMAIN s.posted /\ s.posted[j + 1].type = "close" /\ j \in Nat
          BY <1>2, <3>3
        <4> QED BY <3>1, <3>2, <4>1
      <3> QED BY <1>1, <1>3, <3>1, <3>3 DEF CloseInv, Kept
    <2> QED BY <1>1, <1>3, <2>1 DEF CloseInv, Kept
  <1>9. Served(t) /\ \A q \in Queries : t.outcome[q] # "busy"
    BY <1>1 DEF Agree, Served, Kept
  <1>10. t.dead <=> u.phase = "gone"
    BY <1>1 DEF Agree, Kept
  <1>11. m.call \in Queries
    BY <1>2, <1>3, WorkerMessageIs
  <1> QED BY <1>4, <1>6, <1>7, <1>8, <1>9, <1>10, <1>11 DEF Agree, t, m

-----------------------------------------------------------------------------
(* The steps of the page.                                                   *)

(* A request the worker answers on its own is posted.                       *)
LEMMA AgreeAsked ==
    ASSUME NEW s \in Pages, NEW t \in Pages, NEW v \in WorkerStates, Agree(s, v),
           NEW m \in WorkerMessages, m.type \in {"verdict", "close"},
           t.posted = Append(s.posted, m),
           t.close \in {s.close, "asked"},
           m.type = "close" => s.close = "none" /\ t.close = "asked",
           t.dead = s.dead, t.deferredChunk = s.deferredChunk, t.inbox = s.inbox,
           t.gen = s.gen, t.servingQuery = s.servingQuery, t.outcome = s.outcome,
           t.currentCallId = s.currentCallId
    PROVE  Agree(t, v)
  <1>1. /\ DOMAIN s.posted = 1 .. Len(s.posted) /\ Len(s.posted) \in Nat
        /\ DOMAIN t.posted = 1 .. Len(s.posted) + 1
        /\ \A i \in 1 .. Len(s.posted) : t.posted[i] = s.posted[i]
        /\ t.posted[Len(s.posted) + 1] = m
    <2>1. s.posted \in Seq(WorkerMessages)
      BY DEF Pages
    <2> QED BY <2>1
  <1>2. Served(t) /\ \A q \in Queries : t.outcome[q] # "busy"
    BY DEF Agree, Served
  <1>3. ASSUME v.phase # "gone"
        PROVE  PostedInv(t, v) /\ RepliedInv(t, v) /\ CloseInv(t, v)
    <2>1. PostedInv(s, v) /\ RepliedInv(s, v) /\ CloseInv(s, v)
      BY <1>3 DEF Agree
    <2>2. \A i \in DOMAIN t.posted : t.posted[i].type = "query" =>
              i \in DOMAIN s.posted /\ t.posted[i] = s.posted[i]
      BY <1>1
    <2>3. PostedInv(t, v)
      BY <2>1, <2>2 DEF PostedInv
    <2>4. QueryPosted(s) => QueryPosted(t)
      BY <1>1 DEF QueryPosted
    <2>5. RepliedInv(t, v)
      BY <2>1, <2>4 DEF RepliedInv
    <2>6. CASE m.type = "verdict"
      <3>1. \A i \in DOMAIN t.posted : t.posted[i].type = "close" =>
                i \in DOMAIN s.posted /\ t.posted[i] = s.posted[i]
        BY <1>1, <2>6
      <3>2. t.close = "none" => s.close = "none"
        OBVIOUS
      <3>3. s.close # "none" => t.close # "none"
        OBVIOUS
      <3> QED BY <2>1, <2>3, <2>5, <3>1, <3>2, <3>3 DEF CloseInv
    <2>7. CASE m.type = "close"
      <3>1. /\ s.close = "none" /\ t.close = "asked" /\ v.closer = "none"
            /\ \A i \in DOMAIN s.posted : s.posted[i].type # "close"
        BY <2>1, <2>7 DEF CloseInv
      <3>2. \A i \in DOMAIN t.posted : t.posted[i].type = "close" => i = Len(s.posted) + 1
        BY <1>1, <3>1
      <3> QED BY <2>1, <2>3, <2>5, <3>1, <3>2 DEF CloseInv
    <2> QED BY <2>6, <2>7
  <1> QED BY <1>2, <1>3 DEF Agree

(* A step of the page alone is judged by what the two agree on.             *)
LEMMA PageStep ==
    ASSUME IInv, p' \in Pages, Agree(p', w), UNCHANGED <<w, size>>
    PROVE  IInv'
  <1>1. p' \in Pages /\ w' = w /\ size' = size
    OBVIOUS
  <1>2. TypeOK'
    BY <1>1 DEF IInv, TypeOK
  <1>3. Agree(p, w)'
    BY <1>1
  <1>4. (w.phase # "gone" => MutexInv(w))'
    BY <1>1 DEF IInv
  <1> QED BY <1>2, <1>3, <1>4 DEF IInv

LEMMA StartStep ==
    ASSUME IInv, NEW q \in Queries, Start(q) PROVE IInv'
  <1>1. p \in Pages /\ w \in WorkerStates /\ Agree(p, w)
    BY DEF IInv, TypeOK
  <1>2. p.deferredChunk = "none" /\ p' = Claim(p, q) /\ UNCHANGED <<w, size>>
    BY <1>1 DEF Start, MayStart, Agree, Served
  <1>3. p' \in Pages /\ Agree(p', w)
    BY <1>1, <1>2, ClaimAgrees
  <1> QED BY <1>2, <1>3, PageStep

LEMMA PullStep ==
    ASSUME IInv, NEW q \in Queries, Pull(q) PROVE IInv'
  <1>1. p \in Pages /\ w \in WorkerStates /\ Agree(p, w)
    BY DEF IInv, TypeOK
  <1>2. p.gen[q] \in {"rows", "count"} /\ p' = Resume(p, q) /\ UNCHANGED <<w, size>>
    BY DEF Pull
  <1>3. p.currentCallId \in Queries /\ Served(p)
    BY <1>1, <1>2 DEF Agree, Served
  <1>4. Moves(p, p') /\ p' \in Pages
    BY <1>1, <1>2, <1>3, ResumeMoves DEF Moves
  <1>5. Agree(p', w)
    BY <1>1, <1>4, AgreeMoves
  <1> QED BY <1>2, <1>4, <1>5, PageStep

LEMMA LeaveStep ==
    ASSUME IInv, NEW q \in Queries, Leave(q) PROVE IInv'
  <1> DEFINE t == Interrupt(p, q)
  <1>1. p \in Pages /\ w \in WorkerStates /\ Agree(p, w) /\ Served(p)
    BY DEF IInv, TypeOK, Agree
  <1>2. p' = Return(t, q) /\ UNCHANGED <<w, size>>
    BY DEF Leave
  <1>3. Moves(p, t) /\ t \in Pages /\ Served(t)
    BY <1>1, InterruptMoves DEF Moves
  <1> HIDE DEF t
  <1>4. Moves(t, p') /\ p' \in Pages
    BY <1>2, <1>3, ReturnMoves DEF Moves
  <1>5. Agree(t, w)
    BY <1>1, <1>3, AgreeMoves
  <1>6. Agree(p', w)
    BY <1>1, <1>3, <1>4, <1>5, AgreeMoves
  <1> QED BY <1>2, <1>4, <1>6, PageStep

LEMMA AskVerdictStep ==
    ASSUME IInv, NEW x \in Verdicts, AskVerdict(x) PROVE IInv'
  <1> DEFINE m == [type |-> "verdict", call |-> x]
             t == [p EXCEPT !.verdict[x] = "asked"]
  <1>1. p \in Pages /\ w \in WorkerStates /\ Agree(p, w) /\ Served(p)
    BY DEF IInv, TypeOK, Agree
  <1>2. /\ p' = IF p.dead THEN [p EXCEPT !.verdict[x] = "settled"] ELSE Post(t, m)
        /\ UNCHANGED <<w, size>>
    BY DEF AskVerdict
  <1>3. CASE p.dead
    <2>1. p' = [p EXCEPT !.verdict[x] = "settled"]
      BY <1>2, <1>3
    <2>2. p' \in Pages
      BY <1>1, <2>1 DEF Pages
    <2>3. /\ p'.dead = p.dead /\ p'.deferredChunk = p.deferredChunk /\ p'.inbox = p.inbox
          /\ p'.gen = p.gen /\ p'.servingQuery = p.servingQuery /\ p'.outcome = p.outcome
          /\ p'.currentCallId = p.currentCallId /\ p'.posted = p.posted /\ p'.close = p.close
      BY <1>1, <2>1 DEF Pages
    <2>4. Agree(p', w)
      BY <1>1, <2>3 DEF Agree, Served, PostedInv, RepliedInv, CloseInv, QueryPosted
    <2> QED BY <1>2, <2>2, <2>4, PageStep
  <1>4. CASE ~p.dead
    <2>1. t \in Pages /\ m \in WorkerMessages /\ m.type = "verdict"
      BY <1>1 DEF Pages, WorkerMessages
    <2>2. /\ t.dead = p.dead /\ t.deferredChunk = p.deferredChunk /\ t.inbox = p.inbox
          /\ t.gen = p.gen /\ t.servingQuery = p.servingQuery /\ t.outcome = p.outcome
          /\ t.currentCallId = p.currentCallId /\ t.posted = p.posted /\ t.close = p.close
      BY <1>1 DEF Pages
    <2> HIDE DEF t, m
    <2>3. /\ p' \in Pages /\ Kept(t, p') /\ p'.posted = Append(t.posted, m)
          /\ p'.deferredChunk = t.deferredChunk /\ p'.inbox = t.inbox /\ p'.gen = t.gen
          /\ p'.servingQuery = t.servingQuery /\ p'.outcome = t.outcome
      BY <1>2, <1>4, <2>1, PostIs
    <2>4. Agree(p', w)
      BY <1>1, <2>1, <2>2, <2>3, AgreeAsked DEF Kept
    <2> QED BY <1>2, <2>3, <2>4, PageStep
  <1> QED BY <1>3, <1>4

LEMMA CloseStep ==
    ASSUME IInv, Close PROVE IInv'
  <1> DEFINE m == [type |-> "close"]
             t == [p EXCEPT !.close = "asked"]
  <1>1. p \in Pages /\ w \in WorkerStates /\ Agree(p, w) /\ Served(p)
    BY DEF IInv, TypeOK, Agree
  <1>2. /\ p' = IF p.dead THEN [p EXCEPT !.close = "closed"] ELSE Post(t, m)
        /\ p.close = "none"
        /\ UNCHANGED <<w, size>>
    BY DEF Close
  <1>3. CASE p.dead
    <2>1. p' = [p EXCEPT !.close = "closed"]
      BY <1>2, <1>3
    <2>2. p' \in Pages
      BY <1>1, <2>1 DEF Pages
    <2>3. /\ p'.dead = p.dead /\ p'.deferredChunk = p.deferredChunk /\ p'.inbox = p.inbox
          /\ p'.gen = p.gen /\ p'.servingQuery = p.servingQuery /\ p'.outcome = p.outcome
          /\ p'.currentCallId = p.currentCallId
      BY <1>1, <2>1 DEF Pages
    <2>4. w.phase = "gone"
      BY <1>1, <1>3 DEF Agree
    <2>5. Agree(p', w)
      BY <1>1, <1>3, <2>3, <2>4 DEF Agree, Served
    <2> QED BY <1>2, <2>2, <2>5, PageStep
  <1>4. CASE ~p.dead
    <2>1. t \in Pages /\ m \in WorkerMessages /\ m.type = "close"
      BY <1>1 DEF Pages, WorkerMessages
    <2>2. /\ t.dead = p.dead /\ t.deferredChunk = p.deferredChunk /\ t.inbox = p.inbox
          /\ t.gen = p.gen /\ t.servingQuery = p.servingQuery /\ t.outcome = p.outcome
          /\ t.currentCallId = p.currentCallId /\ t.posted = p.posted /\ t.close = "asked"
      BY <1>1 DEF Pages
    <2> HIDE DEF t, m
    <2>3. /\ p' \in Pages /\ Kept(t, p') /\ p'.posted = Append(t.posted, m)
          /\ p'.deferredChunk = t.deferredChunk /\ p'.inbox = t.inbox /\ p'.gen = t.gen
          /\ p'.servingQuery = t.servingQuery /\ p'.outcome = t.outcome
      BY <1>2, <1>4, <2>1, PostIs
    <2>4. Agree(p', w)
      BY <1>1, <1>2, <2>1, <2>2, <2>3, AgreeAsked DEF Kept
    <2> QED BY <1>2, <2>3, <2>4, PageStep
  <1> QED BY <1>3, <1>4

(* A message leaves the worker's channel.                                   *)
LEMMA HeardMutex ==
    ASSUME NEW v \in WorkerStates, v.replied # <<>>, MutexInv(v)
    PROVE  MutexInv(Heard(v))
  <1> DEFINE u == Heard(v)
  <1>1. /\ u.phase = v.phase /\ u.call = v.call /\ u.holder = v.holder
        /\ u.queue = v.queue /\ u.closer = v.closer
    BY HeardIs
  <1> HIDE DEF u
  <1>2. MutexInv(u)
    BY <1>1 DEF MutexInv
  <1> QED BY <1>2 DEF u

LEMMA DeliverStep ==
    ASSUME IInv, Deliver PROVE IInv'
  <1>1. p \in Pages /\ w \in WorkerStates /\ Agree(p, w)
    BY DEF IInv, TypeOK
  <1>2. w.replied # <<>> /\ p' = OnMessage(p, Head(w.replied)) /\ w' = Heard(w) /\ size' = size
    BY DEF Deliver, Heard
  <1>3. p' \in Pages /\ Agree(p', w')
    BY <1>1, <1>2, DeliverAgrees
  <1>4. w' \in WorkerStates /\ w'.phase = w.phase
    BY <1>1, <1>2, HeardIs
  <1>5. w.phase # "gone" => MutexInv(w')
    BY <1>1, <1>2, HeardMutex DEF IInv
  <1>6. TypeOK'
    BY <1>2, <1>3, <1>4 DEF IInv, TypeOK
  <1> QED BY <1>3, <1>4, <1>5, <1>6 DEF IInv

(* The page after a broken message.                                         *)
LEMMA BrokenMoves ==
    ASSUME NEW s \in Pages, Served(s)
    PROVE  Moves(s, Wake(Broken(s)))
  <1> DEFINE t == Broken(s)
  <1>1. /\ t \in Pages /\ t.posted = s.posted /\ t.deferredChunk = s.deferredChunk
        /\ t.inbox = s.inbox /\ t.servingQuery = s.servingQuery /\ t.outcome = s.outcome
        /\ t.gen = s.gen /\ t.currentCallId = s.currentCallId /\ t.dead = s.dead
        /\ t.close = s.close
    BY BrokenIs
  <1>2. s.posted \in Seq(WorkerMessages)
    BY DEF Pages
  <1> HIDE DEF t
  <1>3. Moves(s, t) /\ Served(t)
    BY <1>1, <1>2, ExtendsSelf DEF Moves, Served
  <1>4. Moves(t, Wake(t)) /\ Wake(t) \in Pages
    BY <1>1, <1>3, WakeMoves DEF Moves
  <1> QED BY <1>1, <1>3, <1>4, MovesTwice DEF t

(* What the page's generators do not see.                                   *)
SameStreams(s, t) ==
    /\ t.deferredChunk = s.deferredChunk /\ t.inbox = s.inbox /\ t.stopped = s.stopped
    /\ t.servingQuery = s.servingQuery /\ t.currentCallId = s.currentCallId
    /\ t.waiters = s.waiters /\ t.gen = s.gen /\ t.got = s.got /\ t.outcome = s.outcome
    /\ t.returning = s.returning /\ t.slot = s.slot

(* The page's requests for verdicts are all that changes.                   *)
LEMMA VerdictsIs ==
    ASSUME NEW s \in Pages,
           NEW v \in [Verdicts -> {"new", "asked", "lost", "settled"}]
    PROVE  LET t == [s EXCEPT !.verdict = v] IN
           /\ t \in Pages
           /\ t.posted = s.posted /\ t.outcome = s.outcome
           /\ t.dead = s.dead /\ t.close = s.close /\ t.failure = s.failure
           /\ SameStreams(s, t)
  <1> DEFINE t == [s EXCEPT !.verdict = v]
  <1>1. t \in Pages
    BY DEF Pages
  <1>2. /\ t.posted = s.posted /\ t.outcome = s.outcome
        /\ t.dead = s.dead /\ t.close = s.close /\ t.failure = s.failure
    BY DEF Pages
  <1>3. SameStreams(s, t)
    BY DEF Pages, SameStreams
  <1> QED BY <1>1, <1>2, <1>3

(* The answer that was lost may have been a verdict's.                      *)
LEMMA MissedIs ==
    ASSUME NEW s \in Pages, NEW m \in PageMessages
    PROVE  /\ Missed(s, m) \in Pages
           /\ Missed(s, m).posted = s.posted /\ Missed(s, m).outcome = s.outcome
           /\ Missed(s, m).dead = s.dead /\ Missed(s, m).close = s.close
           /\ Missed(s, m).failure = s.failure
           /\ SameStreams(s, Missed(s, m))
  <1>1. CASE m.type \in {"verdict", "verdict-error"}
    <2> DEFINE a == IF s.verdict[m.call] = "asked" THEN "lost" ELSE s.verdict[m.call]
    <2>1. m.call \in Verdicts
      BY <1>1, PageMessageIs
    <2>2. a \in {"new", "asked", "lost", "settled"}
      BY <2>1 DEF Pages
    <2>3. Missed(s, m) = [s EXCEPT !.verdict[m.call] = a]
      BY <1>1, <2>1 DEF Missed, Pages
    <2> DEFINE v == [s.verdict EXCEPT ![m.call] = a]
    <2>4. v \in [Verdicts -> {"new", "asked", "lost", "settled"}]
      <3> HIDE DEF a
      <3> QED BY <2>1, <2>2 DEF Pages
    <2>5. Missed(s, m) = [s EXCEPT !.verdict = v]
      BY <2>3
    <2> HIDE DEF v
    <2> QED BY <2>4, <2>5, VerdictsIs
  <1>2. CASE m.type \notin {"verdict", "verdict-error"}
    BY <1>2 DEF Missed, SameStreams
  <1> QED BY <1>1, <1>2

LEMMA MissedMoves ==
    ASSUME NEW s \in Pages, Served(s), NEW m \in PageMessages
    PROVE  Moves(s, Missed(s, m)) /\ Served(Missed(s, m))
  <1> DEFINE t == Missed(s, m)
  <1>1. /\ t \in Pages /\ t.posted = s.posted /\ t.outcome = s.outcome
        /\ t.dead = s.dead /\ t.close = s.close /\ SameStreams(s, t)
    BY MissedIs
  <1>2. s.posted \in Seq(WorkerMessages)
    BY DEF Pages
  <1> HIDE DEF t
  <1>3. Served(t)
    BY <1>1 DEF Served, SameStreams
  <1>4. Moves(s, t)
    BY <1>1, <1>2, <1>3, ExtendsSelf DEF Moves, SameStreams
  <1> QED BY <1>3, <1>4 DEF t

LEMMA MessageErrorStep ==
    ASSUME IInv, MessageError PROVE IInv'
  <1> DEFINE m == Head(w.replied)
             t == Missed(p, m)
  <1>1. p \in Pages /\ w \in WorkerStates /\ Agree(p, w) /\ Served(p)
    BY DEF IInv, TypeOK, Agree
  <1>2. /\ w.replied # <<>> /\ w' = Heard(w) /\ size' = size
        /\ p' = IF p.servingQuery = Nobody THEN t ELSE Wake(Broken(t))
    BY DEF MessageError, Heard, Broken
  <1>3. w' \in WorkerStates /\ w'.phase = w.phase /\ Agree(p, w')
    BY <1>1, <1>2, HeardIs, AgreeHeard
  <1>4. Moves(p, p')
    <2>1. m \in PageMessages
      BY <1>1, <1>2, TailIs DEF WorkerStates
    <2> HIDE DEF m
    <2>2. t \in Pages /\ Moves(p, t) /\ Served(t)
      BY <1>1, <2>1, MissedIs, MissedMoves
    <2> HIDE DEF t
    <2>3. Moves(t, Wake(Broken(t))) /\ Wake(Broken(t)) \in Pages
      BY <2>2, BrokenMoves DEF Moves
    <2>4. Moves(p, Wake(Broken(t)))
      BY <1>1, <2>2, <2>3, MovesTwice
    <2> QED BY <1>2, <2>2, <2>4
  <1>5. p' \in Pages
    BY <1>4 DEF Moves
  <1>6. Agree(p', w')
    BY <1>1, <1>3, <1>4, <1>5, AgreeMoves
  <1>7. w.phase # "gone" => MutexInv(w')
    BY <1>1, <1>2, HeardMutex DEF IInv
  <1>8. TypeOK'
    BY <1>2, <1>3, <1>5 DEF IInv, TypeOK
  <1> QED BY <1>3, <1>6, <1>7, <1>8 DEF IInv

(* The worker terminated.                                                   *)
LEMMA GoneIs ==
    ASSUME NEW v \in WorkerStates
    PROVE  [v EXCEPT !.phase = "gone"] \in WorkerStates /\ [v EXCEPT !.phase = "gone"].phase = "gone"
  <1>1. "gone" \in WorkerPhases
    BY DEF WorkerPhases
  <1> QED BY <1>1 DEF WorkerStates

LEMMA DrainTimeoutStep ==
    ASSUME IInv, NEW q \in Queries, DrainTimeout(q) PROVE IInv'
  <1> DEFINE t == Die(p)
  <1>1. p \in Pages /\ w \in WorkerStates /\ Agree(p, w) /\ Served(p) /\ NoneBusy(p)
    BY DEF IInv, TypeOK, Agree, NoneBusy
  <1>2. p' = Teardown(t, q) /\ w' = [w EXCEPT !.phase = "gone"] /\ size' = size
    BY DEF DrainTimeout
  <1>3. t \in Pages /\ t.dead /\ Served(t) /\ NoneBusy(t)
    BY <1>1, DieIs
  <1> HIDE DEF t
  <1>4. /\ p' \in Pages /\ Kept(t, p') /\ p'.deferredChunk = "none" /\ p'.inbox = <<>>
        /\ p'.gen = [t.gen EXCEPT ![q] = "ended"] /\ p'.outcome = t.outcome
    BY <1>2, <1>3, TeardownIs
  <1>5. w' \in WorkerStates /\ w'.phase = "gone"
    BY <1>1, <1>2, GoneIs
  <1>6. t.gen \in [Queries -> GenStates]
    BY <1>3 DEF Pages
  <1>7. Served(p') /\ p'.dead /\ NoneBusy(p')
    BY <1>3, <1>4, <1>6 DEF Served, Kept, NoneBusy
  <1>8. Agree(p', w')
    BY <1>4, <1>5, <1>7, AgreeGone DEF NoneBusy
  <1>9. TypeOK'
    BY <1>2, <1>4, <1>5 DEF IInv, TypeOK
  <1> QED BY <1>5, <1>8, <1>9 DEF IInv

(* The page's worker is terminated, or found dead.                          *)
LEMMA DeathStep ==
    ASSUME IInv, Death \/ Terminate PROVE IInv'
  <1>1. p \in Pages /\ w \in WorkerStates /\ Agree(p, w) /\ Served(p) /\ NoneBusy(p)
    BY DEF IInv, TypeOK, Agree, NoneBusy
  <1>2. p' = Die(p) /\ w' = [w EXCEPT !.phase = "gone"] /\ size' = size
    BY DEF Death, Terminate
  <1>3. p' \in Pages /\ p'.dead /\ Served(p') /\ NoneBusy(p')
    BY <1>1, <1>2, DieIs
  <1>4. w' \in WorkerStates /\ w'.phase = "gone"
    BY <1>1, <1>2, GoneIs
  <1>5. Agree(p', w')
    BY <1>3, <1>4, AgreeGone DEF NoneBusy
  <1>6. TypeOK'
    BY <1>2, <1>3, <1>4 DEF IInv, TypeOK
  <1> QED BY <1>4, <1>5, <1>6 DEF IInv

-----------------------------------------------------------------------------
(* The steps of the worker.                                                 *)

(* A step of the worker alone.                                              *)
LEMMA WorkerStep ==
    ASSUME IInv, w' \in WorkerStates, Agree(p, w'), MutexInv(w'), UNCHANGED <<p, size>>
    PROVE  IInv'
  <1>1. p' = p /\ size' = size
    OBVIOUS
  <1>2. TypeOK'
    BY <1>1 DEF IInv, TypeOK
  <1>3. Agree(p, w)' /\ MutexInv(w)'
    BY <1>1
  <1> QED BY <1>2, <1>3 DEF IInv

(* The query posted takes its place in the line.                            *)
LEMMA OnQueryIs ==
    ASSUME NEW v \in WorkerStates, NEW m \in WorkerMessages, m.type = "query"
    PROVE  \E u \in WorkerStates :
              /\ u.build = v.build /\ u.phase = "turn" /\ u.call = m.call
              /\ u.credits = Window /\ ~u.stopped /\ u.taken = v.taken /\ u.sent = 0
              /\ u.closing = v.closing /\ u.closer = v.closer
              /\ u.holder = v.holder /\ u.queue = v.queue /\ u.replied = v.replied
              /\ m.call \in Queries
              /\ InLine(u, u.call, OnRequest(v, m))
  <1> DEFINE u == [v EXCEPT !.call = m.call, !.credits = Window, !.stopped = FALSE,
                            !.sent = 0, !.phase = "turn"]
  <1>1. m.call \in Queries /\ m.call \in Callers /\ m.call \in Holders /\ Window \in Nat
        /\ "turn" \in WorkerPhases
    BY WorkerMessageIs, TransportAssumption DEF Callers, Holders, WorkerPhases
  <1>2. u \in WorkerStates
    BY <1>1 DEF WorkerStates
  <1>3. /\ u.build = v.build /\ u.phase = "turn" /\ u.call = m.call
        /\ u.credits = Window /\ ~u.stopped /\ u.taken = v.taken /\ u.sent = 0
        /\ u.closing = v.closing /\ u.closer = v.closer
        /\ u.holder = v.holder /\ u.queue = v.queue /\ u.replied = v.replied
    BY DEF WorkerStates
  <1>4. OnRequest(v, m) = HoldSqlite(u, m.call)
    BY DEF OnRequest
  <1> HIDE DEF u
  <1>5. InLine(u, u.call, OnRequest(v, m))
    BY <1>1, <1>2, <1>3, <1>4, HoldIs
  <1> QED BY <1>1, <1>2, <1>3, <1>5

(* What close() asks of the worker.                                         *)
LEMMA OnCloseIs ==
    ASSUME NEW v \in WorkerStates, NEW m \in WorkerMessages, m.type = "close"
    PROVE  \E u \in WorkerStates :
              /\ u.build = v.build /\ u.phase = v.phase /\ u.call = v.call
              /\ u.credits = v.credits /\ u.stopped /\ u.taken = v.taken /\ u.sent = v.sent
              /\ u.closing
              /\ u.holder = v.holder /\ u.queue = v.queue /\ u.replied = v.replied
              /\ v.phase # "idle" => u.closer = "query" /\ OnRequest(v, m) = u
              /\ v.phase = "idle" =>
                    u.closer = "mutex" /\ InLine(u, "closer", OnRequest(v, m))
  <1> DEFINE c == [v EXCEPT !.closing = TRUE]
             t == [c EXCEPT !.stopped = TRUE]
             a == [t EXCEPT !.closer = "query"]
             b == [t EXCEPT !.closer = "mutex"]
  <1>1. /\ c \in WorkerStates /\ c.phase = v.phase
        /\ a \in WorkerStates /\ b \in WorkerStates
    BY DEF WorkerStates
  <1>2. /\ a.build = v.build /\ a.phase = v.phase /\ a.call = v.call
        /\ a.credits = v.credits /\ a.stopped /\ a.taken = v.taken /\ a.sent = v.sent
        /\ a.closing /\ a.closer = "query"
        /\ a.holder = v.holder /\ a.queue = v.queue /\ a.replied = v.replied
    BY DEF WorkerStates
  <1>3. /\ b.build = v.build /\ b.phase = v.phase /\ b.call = v.call
        /\ b.credits = v.credits /\ b.stopped /\ b.taken = v.taken /\ b.sent = v.sent
        /\ b.closing /\ b.closer = "mutex"
        /\ b.holder = v.holder /\ b.queue = v.queue /\ b.replied = v.replied
    BY DEF WorkerStates
  <1>4. OnRequest(v, m) = IF c.phase # "idle" THEN a ELSE HoldSqlite(b, "closer")
    BY DEF OnRequest, OnClose
  <1>5. "closer" \in Holders
    BY DEF Holders
  <1> HIDE DEF a, b, c, t
  <1>6. InLine(b, "closer", HoldSqlite(b, "closer"))
    BY <1>1, <1>5, HoldIs
  <1>7. CASE v.phase = "idle"
    BY <1>1, <1>3, <1>4, <1>6, <1>7
  <1>8. CASE v.phase # "idle"
    BY <1>1, <1>2, <1>4, <1>8
  <1> QED BY <1>7, <1>8

(* A credit, or a stop, is noted.                                           *)
LEMMA OnNoteIs ==
    ASSUME NEW v \in WorkerStates, NEW m \in WorkerMessages, m.type \in {"credit", "stop"}
    PROVE  LET u == OnRequest(v, m) IN
              /\ u \in WorkerStates
              /\ u.build = v.build /\ u.phase = v.phase /\ u.call = v.call
              /\ u.taken = v.taken /\ u.sent = v.sent
              /\ u.closing = v.closing /\ u.closer = v.closer
              /\ u.holder = v.holder /\ u.queue = v.queue /\ u.replied = v.replied
              /\ m.type = "credit" => u.stopped = v.stopped
              /\ m.type = "stop" => u.stopped
  <1> DEFINE u == OnRequest(v, m)
  <1>1. CASE m.type = "credit"
    <2> DEFINE c == IF m.call = v.call THEN v.credits + 1 ELSE v.credits
    <2>1. c \in Nat
      BY DEF WorkerStates
    <2>2. u = [v EXCEPT !.credits = c]
      BY <1>1 DEF OnRequest, WorkerStates
    <2> HIDE DEF c, u
    <2>3. u \in WorkerStates
      BY <2>1, <2>2 DEF WorkerStates
    <2> QED BY <1>1, <2>2, <2>3 DEF WorkerStates, u
  <1>2. CASE m.type = "stop"
    <2>1. u = [v EXCEPT !.stopped = TRUE]
      BY <1>2 DEF OnRequest
    <2> HIDE DEF u
    <2>2. u \in WorkerStates
      BY <2>1 DEF WorkerStates
    <2> QED BY <1>2, <2>1, <2>2 DEF WorkerStates, u
  <1> QED BY <1>1, <1>2

LEMMA RequestStep ==
    ASSUME IInv, Request PROVE IInv'
  <1> DEFINE m == Head(p.posted)
  <1>1. p \in Pages /\ w \in WorkerStates /\ Agree(p, w) /\ MutexInv(w)
    BY DEF IInv, TypeOK, Request
  <1>2. /\ w.phase # "gone" /\ p.posted # <<>>
        /\ w' = OnRequest(w, m) /\ p' = Read(p) /\ size' = size
    BY DEF Request, Read
  <1>3. p' \in Pages /\ m \in WorkerMessages
    BY <1>1, <1>2, ReadIs, PostedTail
  <1>4. SUFFICES w' \in WorkerStates /\ Agree(p', w') /\ MutexInv(w')
    <2>1. TypeOK'
      BY <1>2, <1>3, <1>4 DEF IInv, TypeOK
    <2> QED BY <1>4, <2>1 DEF IInv
  <1>5. ASSUME m.type # "query" PROVE Agree(p', w)
    BY <1>1, <1>2, <1>5, ReadAgrees
  <1> HIDE DEF m
  <1>6. CASE m.type = "query"
    <2>1. PICK u \in WorkerStates :
              /\ u.phase = "turn" /\ u.call = m.call
              /\ u.closing = w.closing /\ u.closer = w.closer
              /\ u.holder = w.holder /\ u.queue = w.queue /\ u.replied = w.replied
              /\ m.call \in Queries
              /\ InLine(u, u.call, w')
      BY <1>1, <1>2, <1>3, <1>6, OnQueryIs
    <2>2. /\ w' \in WorkerStates /\ w'.phase = "turn" /\ w'.call = m.call
          /\ w'.closing = w.closing /\ w'.closer = w.closer /\ w'.replied = w.replied
      BY <2>1 DEF InLine, Aside
    <2>3. Agree(p', w') /\ w.phase = "idle"
      BY <1>1, <1>2, <1>6, <2>2, QueryAgrees DEF m
    <2>4. /\ u.holder = Nobody => u.queue = <<>>
          /\ u.holder \notin Queries
          /\ \A i \in DOMAIN u.queue : u.queue[i] \notin Queries
          /\ u.holder = "closer" =>
                /\ u.closer = "mutex" /\ u.phase = "turn"
                /\ \A i \in DOMAIN u.queue : u.queue[i] # "closer"
          /\ \A i \in DOMAIN u.queue : u.queue[i] = "closer" =>
                /\ u.closer = "mutex" /\ u.phase = "turn"
                /\ \A j \in DOMAIN u.queue : u.queue[j] = "closer" => i = j
      BY <1>1, <2>1, <2>3 DEF MutexInv
    <2>5. MutexInv(w')
      BY <2>1, <2>2, <2>4, MutexQuery
    <2> QED BY <2>2, <2>3, <2>5
  <1>7. CASE m.type \in {"credit", "stop"}
    <2>1. /\ w' \in WorkerStates
          /\ w'.phase = w.phase /\ w'.call = w.call
          /\ w'.closing = w.closing /\ w'.closer = w.closer
          /\ w'.holder = w.holder /\ w'.queue = w.queue /\ w'.replied = w.replied
      BY <1>1, <1>2, <1>3, <1>7, OnNoteIs
    <2>2. Agree(p', w')
      BY <1>1, <1>2, <1>3, <1>5, <1>7, <2>1, AgreeQuiet
    <2>3. MutexInv(w')
      BY <1>1, <2>1 DEF MutexInv
    <2> QED BY <2>1, <2>2, <2>3
  <1>8. CASE m.type = "verdict"
    <2>1. m.call \in Verdicts /\ m.call \in Holders
      BY <1>3, <1>8, WorkerMessageIs DEF Holders
    <2>2. w' = HoldSqlite(w, m.call)
      BY <1>2, <1>8 DEF OnRequest
    <2>3. InLine(w, m.call, w')
      BY <1>1, <2>1, <2>2, HoldIs
    <2>4. MutexInv(w') /\ w' \in WorkerStates
      BY <1>1, <2>1, <2>3, MutexVerdict DEF InLine
    <2>5. Agree(p', w')
      BY <1>1, <1>2, <1>3, <1>5, <1>8, <2>3, <2>4, AgreeQuiet DEF InLine, Aside
    <2> QED BY <2>4, <2>5
  <1>9. CASE m.type = "close"
    <2>1. PICK u \in WorkerStates :
              /\ u.phase = w.phase /\ u.call = w.call /\ u.closing
              /\ u.holder = w.holder /\ u.queue = w.queue /\ u.replied = w.replied
              /\ w.phase # "idle" => u.closer = "query" /\ w' = u
              /\ w.phase = "idle" => u.closer = "mutex" /\ InLine(u, "closer", w')
      BY <1>1, <1>2, <1>3, <1>9, OnCloseIs
    <2>2. w.closer = "none" /\ \A i \in DOMAIN p'.posted : p'.posted[i].type # "close"
      <3>1. /\ m = p.posted[1] /\ 1 \in DOMAIN p.posted
            /\ \A i \in DOMAIN p'.posted : /\ i \in Nat /\ i > 0
                                           /\ i + 1 \in DOMAIN p.posted
                                           /\ p'.posted[i] = p.posted[i + 1]
        BY <1>1, <1>2, PostedTail DEF m
      <3>2. CloseInv(p, w)
        BY <1>1, <1>2 DEF Agree
      <3>3. w.closer = "none" /\ \A j \in DOMAIN p.posted : p.posted[j].type = "close" => 1 = j
        BY <1>9, <3>1, <3>2 DEF CloseInv
      <3> QED BY <3>1, <3>3
    <2>3. p.close # "none" /\ p'.close # "none"
      <3>1. CloseInv(p, w) /\ m = p.posted[1] /\ 1 \in DOMAIN p.posted /\ p'.close = p.close
        BY <1>1, <1>2, PostedTail, ReadIs DEF Agree, m, Kept
      <3> QED BY <1>9, <3>1 DEF CloseInv
    <2>4. /\ w' \in WorkerStates
          /\ w'.phase = w.phase /\ w'.call = w.call /\ w'.closing /\ w'.replied = w.replied
          /\ w'.closer # "none"
      BY <2>1 DEF InLine, Aside
    <2>5. Agree(p', w')
      <3>1. Agree(p', w)
        BY <1>5, <1>9
      <3>2. PostedInv(p', w')
        BY <1>2, <2>4, <3>1 DEF Agree, PostedInv, NoStream
      <3>3. RepliedInv(p', w')
        BY <1>2, <2>4, <3>1 DEF Agree, RepliedInv, NoTerminal
      <3>4. CloseInv(p', w')
        BY <2>2, <2>3, <2>4 DEF CloseInv
      <3> QED BY <2>4, <3>1, <3>2, <3>3, <3>4 DEF Agree
    <2>6. CASE w.phase # "idle"
      <3>1. w.holder # "closer" /\ \A i \in DOMAIN w.queue : w.queue[i] # "closer"
        BY <1>1, <2>2 DEF MutexInv
      <3>2. MutexInv(w')
        BY <1>1, <2>1, <2>6, <3>1 DEF MutexInv
      <3> QED BY <2>4, <2>5, <3>2
    <2>7. CASE w.phase = "idle"
      <3>1. /\ u.holder = Nobody => u.queue = <<>>
            /\ u.holder \notin Queries \cup {"closer"}
            /\ \A i \in DOMAIN u.queue : u.queue[i] \notin Queries \cup {"closer"}
        BY <1>1, <2>1, <2>2, <2>7 DEF MutexInv
      <3>2. MutexInv(w')
        BY <2>1, <2>4, <2>7, <3>1, MutexCloser
      <3> QED BY <2>4, <2>5, <3>2
    <2> QED BY <2>6, <2>7
  <1> QED BY <1>3, <1>6, <1>7, <1>8, <1>9, WorkerMessageIs

LEMMA BeginQueryStep ==
    ASSUME IInv, BeginQuery PROVE IInv'
  <1>1. p \in Pages /\ w \in WorkerStates /\ Agree(p, w) /\ MutexInv(w)
    BY DEF IInv, TypeOK, BeginQuery
  <1>2. /\ w.phase = "turn" /\ w.holder = w.call
        /\ w' = [w EXCEPT !.phase = "running"] /\ UNCHANGED <<p, size>>
    BY DEF BeginQuery
  <1>3. "running" \in WorkerPhases
    BY DEF WorkerPhases
  <1>4. w' \in WorkerStates
    BY <1>1, <1>2, <1>3 DEF WorkerStates
  <1>5. /\ w'.phase = "running" /\ w'.call = w.call /\ w'.holder = w.holder
        /\ w'.queue = w.queue /\ w'.closing = w.closing /\ w'.closer = w.closer
        /\ w'.replied = w.replied
    BY <1>1, <1>2 DEF WorkerStates
  <1>6. Agree(p, w')
    BY <1>1, <1>2, <1>4, <1>5, AgreeQuiet
  <1>7. w.call \in Queries /\ w.holder # "closer"
        /\ \A i \in DOMAIN w.queue : w.queue[i] \notin Queries \cup {"closer"}
    BY <1>1, <1>2, HoldersAre DEF MutexInv
  <1>8. MutexInv(w')
    BY <1>1, <1>2, <1>5, <1>7, HoldersAre DEF MutexInv
  <1> QED BY <1>2, <1>4, <1>6, <1>8, WorkerStep

(* A query in SQLite has the line behind it to itself.                      *)
LEMMA HoldingClear ==
    ASSUME NEW v \in WorkerStates, MutexInv(v), v.holder = v.call,
           v.phase \in {"running", "back"}
    PROVE  /\ v.call \in Queries
           /\ \A i \in DOMAIN v.queue : v.queue[i] \notin Queries \cup {"closer"}
  BY HoldersAre DEF MutexInv

(* The rows fill a chunk.                                                   *)
Parked(v) == [v EXCEPT !.sent = @ + 1, !.phase = "taking"]

LEMMA ParkedIs ==
    ASSUME NEW v \in WorkerStates
    PROVE  /\ Parked(v) \in WorkerStates
           /\ Parked(v).build = v.build /\ Parked(v).phase = "taking"
           /\ Parked(v).call = v.call /\ Parked(v).credits = v.credits
           /\ Parked(v).stopped = v.stopped /\ Parked(v).taken = v.taken
           /\ Parked(v).sent = v.sent + 1 /\ Parked(v).closing = v.closing
           /\ Parked(v).closer = v.closer /\ Parked(v).holder = v.holder
           /\ Parked(v).queue = v.queue /\ Parked(v).replied = v.replied
  <1>1. v.sent + 1 \in Nat /\ "taking" \in WorkerPhases
    BY DEF WorkerStates, WorkerPhases
  <1>2. Parked(v) \in WorkerStates
    BY <1>1 DEF Parked, WorkerStates
  <1> QED BY <1>2 DEF Parked, WorkerStates

LEMMA StepChunkStep ==
    ASSUME IInv, StepChunk PROVE IInv'
  <1> DEFINE u == Parked(w)
  <1>1. p \in Pages /\ w \in WorkerStates /\ Agree(p, w) /\ MutexInv(w)
    BY DEF IInv, TypeOK, StepChunk
  <1>2. w.phase = "running" /\ w' = ReleaseSqlite(u) /\ UNCHANGED <<p, size>>
    BY DEF StepChunk, Parked
  <1>3. /\ u \in WorkerStates /\ u.phase = "taking" /\ u.call = w.call
        /\ u.closing = w.closing /\ u.closer = w.closer /\ u.holder = w.holder
        /\ u.queue = w.queue /\ u.replied = w.replied
    BY <1>1, ParkedIs
  <1> HIDE DEF u
  <1>4. OutOfLine(u, w') /\ w' \in WorkerStates /\ Aside(u, w')
    BY <1>2, <1>3, ReleaseIs DEF OutOfLine
  <1>5. w.call \in Queries /\ \A i \in DOMAIN u.queue : u.queue[i] \notin Queries \cup {"closer"}
    BY <1>1, <1>2, <1>3, HoldingClear DEF MutexInv
  <1>6. Clear(w')
    BY <1>3, <1>4, <1>5, ReleaseClears
  <1>7. MutexInv(w')
    BY <1>3, <1>4, <1>5, <1>6, MutexClear DEF Aside
  <1>8. Agree(p, w')
    BY <1>1, <1>2, <1>3, <1>4, AgreeQuiet DEF Aside
  <1> QED BY <1>2, <1>4, <1>7, <1>8, WorkerStep

(* The worker has its credit, or is stopped, and goes back for the mutex.   *)
Taking(v) ==
    IF v.stopped
    THEN [v EXCEPT !.phase = "back", !.taken = "stopped"]
    ELSE [v EXCEPT !.phase = "back", !.taken = "go", !.credits = @ - 1]

LEMMA TakingIs ==
    ASSUME NEW v \in WorkerStates, v.credits > 0 \/ v.stopped
    PROVE  /\ Taking(v) \in WorkerStates
           /\ Taking(v).build = v.build /\ Taking(v).phase = "back"
           /\ Taking(v).call = v.call
           /\ Taking(v).stopped = v.stopped
           /\ Taking(v).taken = IF v.stopped THEN "stopped" ELSE "go"
           /\ Taking(v).sent = v.sent /\ Taking(v).closing = v.closing
           /\ Taking(v).closer = v.closer /\ Taking(v).holder = v.holder
           /\ Taking(v).queue = v.queue /\ Taking(v).replied = v.replied
  <1>1. "back" \in WorkerPhases
    BY DEF WorkerPhases
  <1>2. CASE v.stopped
    <2>1. Taking(v) \in WorkerStates
      BY <1>1, <1>2 DEF Taking, WorkerStates
    <2> QED BY <1>2, <2>1 DEF Taking, WorkerStates
  <1>3. CASE ~v.stopped
    <2>1. v.credits - 1 \in Nat
      BY <1>3 DEF WorkerStates
    <2>2. Taking(v) \in WorkerStates
      BY <1>1, <1>3, <2>1 DEF Taking, WorkerStates
    <2> QED BY <1>3, <2>2 DEF Taking, WorkerStates
  <1> QED BY <1>2, <1>3

LEMMA TakeStep ==
    ASSUME IInv, Take PROVE IInv'
  <1> DEFINE u == Taking(w)
  <1>1. p \in Pages /\ w \in WorkerStates /\ Agree(p, w) /\ MutexInv(w)
    BY DEF IInv, TypeOK, Take
  <1>2. /\ w.phase = "taking" /\ (w.credits > 0 \/ w.stopped)
        /\ w' = HoldSqlite(u, w.call) /\ UNCHANGED <<p, size>>
    BY DEF Take, Taking
  <1>3. /\ u \in WorkerStates /\ u.phase = "back" /\ u.call = w.call
        /\ u.closing = w.closing /\ u.closer = w.closer /\ u.holder = w.holder
        /\ u.queue = w.queue /\ u.replied = w.replied
    BY <1>1, <1>2, TakingIs
  <1> HIDE DEF u
  <1>4. w.call \in Queries /\ w.call \in Holders
    BY <1>1, <1>2 DEF MutexInv, Holders
  <1>5. InLine(u, u.call, w') /\ w' \in WorkerStates /\ Aside(u, w')
    BY <1>2, <1>3, <1>4, HoldIs DEF InLine
  <1>6. /\ w.holder = Nobody => w.queue = <<>>
        /\ w.holder \notin Queries \cup {"closer"}
        /\ \A i \in DOMAIN w.queue : w.queue[i] \notin Queries \cup {"closer"}
    BY <1>1, <1>2 DEF MutexInv
  <1>7. MutexInv(w')
    BY <1>3, <1>4, <1>5, <1>6, MutexQuery
  <1>8. Agree(p, w')
    BY <1>1, <1>2, <1>3, <1>5, AgreeQuiet DEF Aside
  <1> QED BY <1>2, <1>5, <1>7, <1>8, WorkerStep

(* The end of a query: out of SQLite, and the close that waited goes next.  *)
LEMMA EndQueryIs ==
    ASSUME NEW v \in WorkerStates, MutexInv(v), v.holder = v.call,
           v.phase \in {"running", "back"}
    PROVE  LET u == EndQuery(v) IN
              /\ u \in WorkerStates /\ MutexInv(u)
              /\ u.build = v.build /\ u.phase = "idle" /\ u.call = v.call
              /\ u.credits = v.credits /\ u.stopped = v.stopped /\ u.taken = v.taken
              /\ u.sent = v.sent /\ u.closing = v.closing
              /\ u.closer = "none" <=> v.closer = "none"
              /\ u.replied = v.replied
  <1> DEFINE o == [v EXCEPT !.phase = "idle"]
             t == ReleaseSqlite(o)
             a == [t EXCEPT !.closer = "mutex"]
             u == EndQuery(v)
  <1>1. u = IF t.closer # "query" THEN t ELSE HoldSqlite(a, "closer")
    BY DEF EndQuery
  <1>2. "idle" \in WorkerPhases /\ "closer" \in Holders
    BY DEF WorkerPhases, Holders
  <1>3. o \in WorkerStates
    BY <1>2 DEF WorkerStates
  <1>4. /\ o.build = v.build /\ o.phase = "idle" /\ o.call = v.call
        /\ o.credits = v.credits /\ o.stopped = v.stopped /\ o.taken = v.taken
        /\ o.sent = v.sent /\ o.closing = v.closing /\ o.closer = v.closer
        /\ o.holder = v.holder /\ o.queue = v.queue /\ o.replied = v.replied
    BY DEF WorkerStates
  <1> HIDE DEF o
  <1>5. OutOfLine(o, t) /\ t \in WorkerStates /\ Aside(o, t)
    BY <1>3, ReleaseIs DEF OutOfLine
  <1>6. \A i \in DOMAIN o.queue : o.queue[i] \notin Queries \cup {"closer"}
    BY <1>4, HoldingClear
  <1> HIDE DEF t
  <1>7. Clear(t)
    BY <1>3, <1>5, <1>6, ReleaseClears
  <1>8. a \in WorkerStates
    BY <1>5 DEF WorkerStates
  <1>9. /\ Aside([t EXCEPT !.closer = "mutex"], a) /\ a.closer = "mutex"
        /\ a.build = t.build /\ a.phase = t.phase /\ a.call = t.call
        /\ a.credits = t.credits /\ a.stopped = t.stopped /\ a.taken = t.taken
        /\ a.sent = t.sent /\ a.closing = t.closing
        /\ a.holder = t.holder /\ a.queue = t.queue /\ a.replied = t.replied
    BY <1>5 DEF WorkerStates, Aside
  <1> HIDE DEF a, u
  <1>10. CASE t.closer # "query"
    <2>1. u = t
      BY <1>1, <1>10
    <2>2. MutexInv(t)
      BY <1>4, <1>5, <1>7, <1>10, MutexClear DEF Aside
    <2> QED BY <1>4, <1>5, <2>1, <2>2 DEF Aside, u
  <1>11. CASE t.closer = "query"
    <2>1. u = HoldSqlite(a, "closer")
      BY <1>1, <1>11
    <2>2. InLine(a, "closer", u) /\ u \in WorkerStates /\ Aside(a, u)
      BY <1>2, <1>8, <2>1, HoldIs DEF InLine
    <2>3. /\ a.holder = Nobody => a.queue = <<>>
          /\ a.holder \notin Queries \cup {"closer"}
          /\ \A i \in DOMAIN a.queue : a.queue[i] \notin Queries \cup {"closer"}
      BY <1>7, <1>9 DEF Clear
    <2>4. a.phase = "idle"
      BY <1>4, <1>5, <1>9 DEF Aside
    <2>5. MutexInv(u)
      BY <1>8, <1>9, <2>2, <2>3, <2>4, MutexCloser
    <2>6. /\ u.build = v.build /\ u.phase = "idle" /\ u.call = v.call
          /\ u.credits = v.credits /\ u.stopped = v.stopped /\ u.taken = v.taken
          /\ u.sent = v.sent /\ u.closing = v.closing
          /\ u.closer = "mutex" /\ v.closer = "query"
          /\ u.replied = v.replied
      BY <1>4, <1>5, <1>9, <1>11, <2>2 DEF Aside
    <2> QED BY <2>2, <2>5, <2>6 DEF u
  <1> QED BY <1>10, <1>11

(* The last answer and the end of the query, in one worker task.            *)
LEMMA AnsweredIs ==
    ASSUME NEW v \in WorkerStates, MutexInv(v), v.holder = v.call,
           v.phase \in {"running", "back"},
           NEW m \in PageMessages
    PROVE  LET u == EndQuery(Reply(v, m)) IN
              /\ u \in WorkerStates /\ MutexInv(u)
              /\ u.build = v.build /\ u.phase = "idle" /\ u.call = v.call
              /\ u.credits = v.credits /\ u.stopped = v.stopped /\ u.taken = v.taken
              /\ u.sent = v.sent /\ u.closing = v.closing
              /\ u.closer = "none" <=> v.closer = "none"
              /\ u.replied = Append(v.replied, m)
  <1> DEFINE r == Reply(v, m)
  <1>1. /\ r \in WorkerStates
        /\ r.build = v.build /\ r.phase = v.phase /\ r.call = v.call
        /\ r.credits = v.credits /\ r.stopped = v.stopped /\ r.taken = v.taken
        /\ r.sent = v.sent /\ r.closing = v.closing /\ r.closer = v.closer
        /\ r.holder = v.holder /\ r.queue = v.queue
        /\ r.replied = Append(v.replied, m)
    BY ReplyIs
  <1> HIDE DEF r
  <1>2. MutexInv(r)
    BY <1>1 DEF MutexInv
  <1> DEFINE u == EndQuery(r)
  <1>3. /\ u \in WorkerStates /\ MutexInv(u)
        /\ u.build = r.build /\ u.phase = "idle" /\ u.call = r.call
        /\ u.credits = r.credits /\ u.stopped = r.stopped /\ u.taken = r.taken
        /\ u.sent = r.sent /\ u.closing = r.closing
        /\ u.closer = "none" <=> r.closer = "none"
        /\ u.replied = r.replied
    BY <1>1, <1>2, EndQueryIs
  <1> HIDE DEF u
  <1> QED BY <1>1, <1>3 DEF u, r

(* A query answered for the last time.                                      *)
LEMMA AnswerStep ==
    ASSUME IInv, w.phase \in {"running", "back"}, w.holder = w.call,
           NEW m \in PageMessages, Terminal(m), m.call = w.call,
           w' = EndQuery(Reply(w, m)), UNCHANGED <<p, size>>
    PROVE  IInv'
  <1>1. p \in Pages /\ w \in WorkerStates /\ Agree(p, w) /\ MutexInv(w)
    BY DEF IInv, TypeOK
  <1>2. /\ w' \in WorkerStates /\ MutexInv(w')
        /\ w'.phase = "idle" /\ w'.call = w.call /\ w'.closing = w.closing
        /\ w'.closer = "none" <=> w.closer = "none"
        /\ w'.replied = Append(w.replied, m)
    BY <1>1, AnsweredIs
  <1>3. Stream(m)
    BY DEF Stream, Terminal
  <1>4. Agree(p, w')
    BY <1>1, <1>2, <1>3, AgreeReply
  <1> QED BY <1>2, <1>4, WorkerStep

(* What Answer says.                                                        *)
FinalWord(v) == [type |-> IF v.closing THEN "error" ELSE "done", call |-> v.call, n |-> 0]

LEMMA LastIs ==
    ASSUME NEW v \in WorkerStates, v.call \in Queries
    PROVE  /\ FinalWord(v) \in PageMessages /\ Terminal(FinalWord(v)) /\ FinalWord(v).call = v.call
           /\ Answer(v) = EndQuery(Reply(v, FinalWord(v)))
  BY DEF FinalWord, PageMessages, Terminal, Answer

LEMMA ChunkIs ==
    ASSUME NEW q \in Queries, NEW n \in Nat
    PROVE  /\ Chunk(q, n) \in PageMessages /\ Stream(Chunk(q, n)) /\ ~Terminal(Chunk(q, n))
           /\ Chunk(q, n).type = "chunk" /\ Chunk(q, n).call = q /\ Chunk(q, n).n = n
  BY DEF Chunk, PageMessages, Stream, Terminal

(* The chunk goes out, and the worker back into SQLite.                     *)
Sending(v) == [v EXCEPT !.phase = "running"]

LEMMA SendingIs ==
    ASSUME NEW v \in WorkerStates
    PROVE  /\ Sending(v) \in WorkerStates
           /\ Sending(v).build = v.build /\ Sending(v).phase = "running"
           /\ Sending(v).call = v.call /\ Sending(v).credits = v.credits
           /\ Sending(v).stopped = v.stopped /\ Sending(v).taken = v.taken
           /\ Sending(v).sent = v.sent /\ Sending(v).closing = v.closing
           /\ Sending(v).closer = v.closer /\ Sending(v).holder = v.holder
           /\ Sending(v).queue = v.queue /\ Sending(v).replied = v.replied
  <1>1. "running" \in WorkerPhases
    BY DEF WorkerPhases
  <1>2. Sending(v) \in WorkerStates
    BY <1>1 DEF Sending, WorkerStates
  <1> QED BY <1>2 DEF Sending, WorkerStates

LEMMA SentIs ==
    ASSUME NEW v \in WorkerStates, v.call \in Queries
    PROVE  LET u == Reply(Sending(v), Chunk(v.call, v.sent)) IN
              /\ u \in WorkerStates
              /\ u.build = v.build /\ u.phase = "running" /\ u.call = v.call
              /\ u.stopped = v.stopped /\ u.taken = v.taken
              /\ u.sent = v.sent /\ u.closing = v.closing /\ u.closer = v.closer
              /\ u.holder = v.holder /\ u.queue = v.queue
              /\ u.replied = Append(v.replied, Chunk(v.call, v.sent))
  <1> DEFINE o == Sending(v)
             m == Chunk(v.call, v.sent)
  <1>1. m \in PageMessages
    <2>1. v.sent \in Nat
      BY DEF WorkerStates
    <2> QED BY <2>1, ChunkIs
  <1>2. /\ o \in WorkerStates
        /\ o.build = v.build /\ o.phase = "running" /\ o.call = v.call
        /\ o.stopped = v.stopped /\ o.taken = v.taken
        /\ o.sent = v.sent /\ o.closing = v.closing /\ o.closer = v.closer
        /\ o.holder = v.holder /\ o.queue = v.queue /\ o.replied = v.replied
    BY SendingIs
  <1> HIDE DEF o, m
  <1> DEFINE u == Reply(o, m)
  <1>3. /\ u \in WorkerStates
        /\ u.build = o.build /\ u.phase = o.phase /\ u.call = o.call
        /\ u.stopped = o.stopped /\ u.taken = o.taken
        /\ u.sent = o.sent /\ u.closing = o.closing /\ u.closer = o.closer
        /\ u.holder = o.holder /\ u.queue = o.queue
        /\ u.replied = Append(o.replied, m)
    BY <1>1, <1>2, ReplyIs
  <1> HIDE DEF u
  <1> QED BY <1>2, <1>3 DEF u, o, m

LEMMA SendChunkStep ==
    ASSUME IInv, SendChunk PROVE IInv'
  <1>1. p \in Pages /\ w \in WorkerStates /\ Agree(p, w) /\ MutexInv(w)
    BY DEF IInv, TypeOK, SendChunk
  <1>2. /\ w.phase = "back" /\ w.holder = w.call /\ UNCHANGED <<p, size>>
        /\ w' = IF w.taken = "stopped" THEN Answer(w)
                ELSE Reply(Sending(w), Chunk(w.call, w.sent))
    BY DEF SendChunk, Sending, Chunk
  <1>3. w.call \in Queries /\ w.sent \in Nat
        /\ \A i \in DOMAIN w.queue : w.queue[i] \notin Queries \cup {"closer"}
    BY <1>1, <1>2, HoldingClear DEF WorkerStates
  <1>4. CASE w.taken = "stopped"
    BY <1>1, <1>2, <1>3, <1>4, LastIs, AnswerStep
  <1>5. CASE w.taken # "stopped"
    <2> DEFINE m == Chunk(w.call, w.sent)
    <2>1. m \in PageMessages /\ Stream(m) /\ ~Terminal(m) /\ m.call = w.call
      BY <1>3, ChunkIs
    <2>2. /\ w' \in WorkerStates /\ w'.phase = "running" /\ w'.call = w.call
          /\ w'.closing = w.closing /\ w'.closer = w.closer
          /\ w'.holder = w.holder /\ w'.queue = w.queue
          /\ w'.replied = Append(w.replied, m)
      BY <1>1, <1>2, <1>3, <1>5, SentIs
    <2> HIDE DEF m
    <2>3. Agree(p, w')
      BY <1>1, <1>2, <2>1, <2>2, AgreeReply
    <2>4. MutexInv(w')
      BY <1>1, <1>2, <1>3, <2>2, HoldersAre DEF MutexInv
    <2> QED BY <1>2, <2>2, <2>3, <2>4, WorkerStep
  <1> QED BY <1>4, <1>5

LEMMA StepEndStep ==
    ASSUME IInv, StepEnd PROVE IInv'
  <1>1. w \in WorkerStates /\ MutexInv(w)
    BY DEF IInv, TypeOK, StepEnd
  <1>2. w.phase = "running" /\ w' = Answer(w) /\ UNCHANGED <<p, size>>
    BY DEF StepEnd
  <1>3. w.holder = w.call /\ w.call \in Queries
    BY <1>1, <1>2 DEF MutexInv
  <1> QED BY <1>1, <1>2, <1>3, LastIs, AnswerStep

LEMMA StepErrorStep ==
    ASSUME IInv, StepError PROVE IInv'
  <1> DEFINE m == [type |-> "error", call |-> w.call, n |-> 0]
  <1>1. w \in WorkerStates /\ MutexInv(w)
    BY DEF IInv, TypeOK, StepError
  <1>2. w.phase = "running" /\ w' = EndQuery(Reply(w, m)) /\ UNCHANGED <<p, size>>
    BY DEF StepError
  <1>3. w.holder = w.call /\ w.call \in Queries
    BY <1>1, <1>2 DEF MutexInv
  <1>4. m \in PageMessages /\ Terminal(m) /\ m.call = w.call
    BY <1>3 DEF PageMessages, Terminal
  <1> HIDE DEF m
  <1> QED BY <1>2, <1>3, <1>4, AnswerStep

(* What the mutex's holder leaves to the rest of the line.                  *)
LEMMA NotTheQuery ==
    ASSUME NEW v \in WorkerStates, MutexInv(v), v.holder \in Verdicts \cup {"closer"}
    PROVE  /\ v.phase \in {"turn", "running", "taking", "back"} => v.call \in Queries
           /\ v.phase # "running"
           /\ v.phase \in {"turn", "back"} => \E i \in DOMAIN v.queue : v.queue[i] = v.call
           /\ \A i \in DOMAIN v.queue : v.queue[i] \in Queries =>
                 /\ v.queue[i] = v.call
                 /\ v.phase \in {"turn", "back"}
                 /\ \A j \in DOMAIN v.queue : i < j => v.queue[j] \notin Queries \cup {"closer"}
           /\ \A i \in DOMAIN v.queue : v.queue[i] = "closer" =>
                 /\ v.closer = "mutex"
                 /\ v.phase \in {"idle", "turn"}
                 /\ \A j \in DOMAIN v.queue : v.queue[j] = "closer" => i = j
           /\ v.closer = "query" => v.phase # "idle"
  <1>1. v.phase \in {"turn", "running", "back"} => v.call \in Queries /\ v.holder # v.call
    BY HoldersAre DEF MutexInv
  <1> QED BY <1>1 DEF MutexInv

LEMMA RunVerdictStep ==
    ASSUME IInv, RunVerdict PROVE IInv'
  <1> DEFINE m == [type |-> IF w.closing THEN "verdict-error" ELSE "verdict",
                   call |-> w.holder]
             r == Reply(w, m)
  <1>1. p \in Pages /\ w \in WorkerStates /\ Agree(p, w) /\ MutexInv(w) /\ w.phase # "gone"
    BY DEF IInv, TypeOK, RunVerdict
  <1>2. w.holder \in Verdicts /\ w' = ReleaseSqlite(r) /\ UNCHANGED <<p, size>>
    BY DEF RunVerdict
  <1>3. m \in PageMessages /\ ~Stream(m)
    BY <1>2 DEF PageMessages, Stream
  <1> HIDE DEF m
  <1>4. /\ r \in WorkerStates /\ r.phase = w.phase /\ r.call = w.call
        /\ r.closing = w.closing /\ r.closer = w.closer
        /\ r.holder = w.holder /\ r.queue = w.queue
        /\ r.replied = Append(w.replied, m)
    BY <1>1, <1>3, ReplyIs
  <1> HIDE DEF r
  <1>5. OutOfLine(r, w') /\ w' \in WorkerStates /\ Aside(r, w')
    BY <1>2, <1>4, ReleaseIs DEF OutOfLine
  <1>6. MutexInv(r)
    BY <1>1, <1>4 DEF MutexInv
  <1>7. MutexInv(w')
    BY <1>2, <1>4, <1>5, <1>6, NotTheQuery, MutexRelease
  <1>8. Agree(p, w')
    BY <1>1, <1>3, <1>4, <1>5, AgreeQuiet DEF Aside
  <1> QED BY <1>2, <1>5, <1>7, <1>8, WorkerStep

LEMMA CloseDatabaseStep ==
    ASSUME IInv, CloseDatabase PROVE IInv'
  <1> DEFINE m == [type |-> "closed"]
             c == [w EXCEPT !.closer = "closed"]
             r == ReleaseSqlite(c)
  <1>1. p \in Pages /\ w \in WorkerStates /\ Agree(p, w) /\ MutexInv(w) /\ w.phase # "gone"
    BY DEF IInv, TypeOK, CloseDatabase
  <1>2. w.holder = "closer" /\ w' = Reply(r, m) /\ UNCHANGED <<p, size>>
    BY DEF CloseDatabase
  <1>3. m \in PageMessages /\ ~Stream(m)
    BY DEF PageMessages, Stream
  <1>4. c \in WorkerStates
    BY <1>1 DEF WorkerStates
  <1>5. /\ c.phase = w.phase /\ c.call = w.call /\ c.closing = w.closing
        /\ c.closer = "closed" /\ c.holder = w.holder /\ c.queue = w.queue
        /\ c.replied = w.replied
    BY <1>1 DEF WorkerStates
  <1> HIDE DEF m, c
  <1>6. OutOfLine(c, r) /\ r \in WorkerStates /\ Aside(c, r)
    BY <1>4, ReleaseIs DEF OutOfLine
  <1> HIDE DEF r
  <1>7. /\ w' \in WorkerStates /\ w'.phase = r.phase /\ w'.call = r.call
        /\ w'.closing = r.closing /\ w'.closer = r.closer
        /\ w'.holder = r.holder /\ w'.queue = r.queue
        /\ w'.replied = Append(r.replied, m)
    BY <1>2, <1>3, <1>6, ReplyIs
  <1>8. /\ w.closer = "mutex" /\ \A i \in DOMAIN w.queue : w.queue[i] # "closer"
    BY <1>1, <1>2 DEF MutexInv
  <1>9. MutexInv(r)
    BY <1>1, <1>2, <1>4, <1>5, <1>6, <1>8, NotTheQuery, MutexRelease
  <1>10. MutexInv(w')
    BY <1>7, <1>9 DEF MutexInv
  <1>11. Agree(p, w')
    BY <1>1, <1>3, <1>5, <1>6, <1>7, <1>8, AgreeQuiet DEF Aside
  <1> QED BY <1>2, <1>7, <1>10, <1>11, WorkerStep

-----------------------------------------------------------------------------
LEMMA InitIInv ==
    ASSUME Init PROVE IInv
  <1>1. /\ Nobody \in Callers /\ <<>> \in Seq(Values) /\ <<>> \in Seq(Queries)
        /\ <<>> \in Seq(WorkerMessages) /\ <<>> \in Seq(PageMessages) /\ <<>> \in Seq(Holders)
        /\ "new" \in GenStates /\ "none" \in Outcomes /\ "idle" \in WorkerPhases
    BY DEF Callers, GenStates, Outcomes, WorkerPhases
  <1>2. p \in Pages
    BY <1>1 DEF Init, Pages
  <1>3. w \in WorkerStates
    BY <1>1 DEF Init, WorkerStates
  <1>4. size \in [Queries -> Sizes]
    BY DEF Init
  <1>5. Agree(p, w)
    BY HoldersAre DEF Init, Agree, Served, PostedInv, RepliedInv, CloseInv, NoTerminal, QueryPosted
  <1>6. MutexInv(w)
    BY HoldersAre DEF Init, MutexInv
  <1> QED BY <1>2, <1>3, <1>4, <1>5, <1>6 DEF IInv, TypeOK

LEMMA StepIInv ==
    ASSUME IInv, [Next]_vars PROVE IInv'
  <1>1. CASE UNCHANGED vars
    <2>1. p' = p /\ w' = w /\ size' = size
      BY <1>1 DEF vars
    <2>2. TypeOK' /\ Agree(p, w)' /\ (w.phase # "gone" => MutexInv(w))'
      BY <2>1 DEF IInv, TypeOK
    <2> QED BY <2>2 DEF IInv
  <1>2. ASSUME NEW q \in Queries, Start(q) PROVE IInv'
    BY <1>2, StartStep
  <1>3. ASSUME NEW q \in Queries, Pull(q) PROVE IInv'
    BY <1>3, PullStep
  <1>4. ASSUME NEW q \in Queries, Leave(q) PROVE IInv'
    BY <1>4, LeaveStep
  <1>5. ASSUME NEW q \in Queries, DrainTimeout(q) PROVE IInv'
    BY <1>5, DrainTimeoutStep
  <1>6. ASSUME NEW v \in Verdicts, AskVerdict(v) PROVE IInv'
    BY <1>6, AskVerdictStep
  <1> QED BY <1>1, <1>2, <1>3, <1>4, <1>5, <1>6, CloseStep, DeliverStep, MessageErrorStep,
             DeathStep, RequestStep, BeginQueryStep, StepChunkStep, TakeStep, SendChunkStep,
             StepEndStep, StepErrorStep, RunVerdictStep, CloseDatabaseStep
          DEF Next, Worker

LEMMA InvariantIInv == Spec => []IInv
  <1>1. Init => IInv
    BY InitIInv
  <1>2. IInv /\ [Next]_vars => IInv'
    BY StepIInv
  <1> QED BY <1>1, <1>2, PTL DEF Spec

(* The page, the worker and what they have posted keep their types.         *)
THEOREM TransportTypes == Spec => []TypeOK
  <1>1. IInv => TypeOK
    BY DEF IInv
  <1> QED BY <1>1, InvariantIInv, PTL

(* When the page calls a living worker free, the worker is out of its query *)
(* and none is on its way to it, and no query meets the reuse guard:        *)
(* whichever of quiesce() and free() a statement waits for, and whatever of *)
(* the transport breaks.                                                    *)
THEOREM FreeWorkerIsIdle == Spec => []FreeMeansIdle
  <1>1. IInv => FreeMeansIdle
    BY FreeIsIdle DEF IInv, TypeOK, FreeMeansIdle, Agree, QueryPosted
  <1> QED BY <1>1, InvariantIInv, PTL

(* SQLite is entered by the holder of the mutex alone, and the database is  *)
(* closed under no open statement, one parked on a credit included.         *)
THEOREM SqliteHasOneUser == Spec => []SqliteExclusive
  <1>1. IInv => SqliteExclusive
    BY HoldersAre DEF IInv, TypeOK, SqliteExclusive, MutexInv
  <1> QED BY <1>1, InvariantIInv, PTL

-----------------------------------------------------------------------------
(* Rows: the page.                                                          *)

(* The generators other than q, none of which has the page.                 *)
Rest(s, q) ==
    \A r \in Queries \ {q} :
        /\ s.gen[r] \in {"new", "ended"}
        /\ s.gen[r] = "new" =>
              /\ s.got[r] = <<>> /\ s.outcome[r] # "complete"
              /\ r \notin s.returning /\ s.slot # r
        /\ GotInv(s, r)
        /\ s.outcome[r] = "complete" => Len(s.got[r]) = size[r] + 1

LEMMA RestOf ==
    ASSUME NEW s \in Pages, NEW q \in Queries, PageInv(s), RowsInv(s),
           s.servingQuery \in {q, Nobody}
    PROVE  Rest(s, q)
  <1> SUFFICES ASSUME NEW r \in Queries \ {q}
               PROVE  /\ s.gen[r] \in {"new", "ended"}
                      /\ s.gen[r] = "new" =>
                            /\ s.got[r] = <<>> /\ s.outcome[r] # "complete"
                            /\ r \notin s.returning /\ s.slot # r
                      /\ GotInv(s, r)
                      /\ s.outcome[r] = "complete" => Len(s.got[r]) = size[r] + 1
    BY DEF Rest
  <1>1. s.servingQuery # r
    BY HoldersAre
  <1>2. s.gen[r] \notin Engaged /\ Suspended(s, r) /\ RowsOf(s, r)
    BY <1>1 DEF PageInv, RowsInv
  <1>3. s.gen[r] \in GenStates
    BY DEF Pages
  <1>4. s.gen[r] \in {"new", "ended"}
    BY <1>2, <1>3 DEF Engaged, GenStates
  <1> QED BY <1>2, <1>4 DEF Suspended, RowsOf

LEMMA RestKept ==
    ASSUME NEW s, NEW t, NEW q \in Queries, Rest(s, q),
           \A r \in Queries \ {q} :
               /\ t.gen[r] = s.gen[r] /\ t.got[r] = s.got[r] /\ t.outcome[r] = s.outcome[r]
               /\ r \in t.returning => r \in s.returning
               /\ t.slot = r => s.slot = r
    PROVE  Rest(t, q)
  BY DEF Rest, GotInv

(* The page is as its one generator leaves it.                              *)
LEMMA RestReads ==
    ASSUME NEW s \in Pages, NEW q \in Queries, Rest(s, q),
           s.gen[q] \in Engaged => s.servingQuery = q /\ s.currentCallId = q,
           s.gen[q] \notin Engaged => s.servingQuery = Nobody /\ s.waiters = <<>>,
           s.dead /\ s.servingQuery = q => s.failure,
           Suspended(s, q), RowsOf(s, q)
    PROVE  PageInv(s) /\ RowsInv(s)
  <1>0. q # Nobody /\ s.servingQuery \in {q, Nobody}
    BY HoldersAre
  <1>1. ASSUME NEW r \in Queries, r # q
        PROVE  s.gen[r] \notin Engaged /\ s.servingQuery # r /\ Suspended(s, r) /\ RowsOf(s, r)
    <2>1. /\ s.gen[r] \in {"new", "ended"}
          /\ s.gen[r] = "new" =>
                /\ s.got[r] = <<>> /\ s.outcome[r] # "complete"
                /\ r \notin s.returning /\ s.slot # r
          /\ GotInv(s, r)
          /\ s.outcome[r] = "complete" => Len(s.got[r]) = size[r] + 1
      BY <1>1 DEF Rest
    <2>2. r # Nobody
      BY HoldersAre
    <2> QED BY <1>0, <1>1, <2>1, <2>2 DEF Engaged, Suspended, RowsOf
  <1>2. \A r \in Queries : s.gen[r] \in Engaged <=> s.servingQuery = r
    BY <1>0, <1>1
  <1>3. \A r \in Queries : Suspended(s, r) /\ RowsOf(s, r)
    BY <1>1
  <1> QED BY <1>0, <1>2, <1>3 DEF PageInv, RowsInv

NoReader(s) == \A q \in Queries : ~Reading(s, q)

(* The generator that goes round its loop.                                  *)
Turn(s, q) ==
    /\ s \in Pages
    /\ Rest(s, q)
    /\ s.servingQuery = q /\ s.currentCallId = q /\ s.waiters = <<>>
    /\ GotInv(s, q)
    /\ s.dead => s.failure
    /\ q \in s.returning \/ s.slot = q => s.stopped
    /\ s.inbox = <<>> /\ s.deferredChunk = "none" => Len(s.got[q]) = size[q] + 1
    /\ ~s.failure => InboxInv(s, q)
    /\ s.outcome[q] # "complete"

LEMMA SizeIs ==
    ASSUME TypeOK, NEW q \in Queries PROVE size[q] \in Nat
  BY TransportAssumption DEF TypeOK

(* The finally of the generator being served.                               *)
LEMMA FinallyReads ==
    ASSUME NEW s \in Pages, NEW q \in Queries, Rest(s, q),
           s.servingQuery = q, s.currentCallId = q, s.waiters = <<>>, GotInv(s, q),
           s.dead => s.failure,
           NEW why \in {"left", "failed", "complete"},
           why = "complete" => Len(s.got[q]) = size[q] + 1 /\ s.deferredChunk = "none"
    PROVE  LET t == Finally(s, q, why) IN
           /\ PageInv(t) /\ RowsInv(t) /\ NoReader(t)
           /\ t \in Pages /\ t.gen[q] \in {"draining", "ended"}
  <1> DEFINE t == Finally(s, q, why)
  <1>1. Finished(s, q, why, t)
    <2>1. why \in Outcomes
      BY DEF Outcomes
    <2> QED BY <2>1, FinallyIs
  <1> HIDE DEF t
  <1>2. /\ t \in Pages /\ Kept(s, t) /\ t.waiters = <<>> /\ t.got = s.got
        /\ t.outcome = [s.outcome EXCEPT ![q] = why]
    BY <1>1 DEF Finished
  <1>3. \/ /\ t.deferredChunk = "none" /\ t.servingQuery = Nobody
           /\ t.gen = [s.gen EXCEPT ![q] = "ended"]
        \/ /\ s.deferredChunk = "armed" /\ t.deferredChunk = "armed" /\ t.servingQuery = q
           /\ t.gen = [s.gen EXCEPT ![q] = "draining"]
    BY <1>1 DEF Finished
  <1>4. s.gen \in [Queries -> GenStates] /\ s.outcome \in [Queries -> Outcomes]
    BY DEF Pages
  <1>5. t.outcome[q] = why /\ \A r \in Queries \ {q} : t.outcome[r] = s.outcome[r]
    BY <1>2, <1>4
  <1>6. /\ t.gen[q] \in {"draining", "ended"}
        /\ \A r \in Queries \ {q} : t.gen[r] = s.gen[r]
    BY <1>3, <1>4
  <1>7. Rest(t, q)
    <2>1. \A r \in Queries \ {q} :
               /\ t.gen[r] = s.gen[r] /\ t.got[r] = s.got[r] /\ t.outcome[r] = s.outcome[r]
               /\ r \in t.returning => r \in s.returning
               /\ t.slot = r => s.slot = r
      BY <1>2, <1>5, <1>6 DEF Kept
    <2> QED BY <2>1, RestKept
  <1>8. GotInv(t, q)
    BY <1>2 DEF GotInv
  <1>9. Suspended(t, q)
    BY <1>2, <1>3, <1>4, <1>5, <1>6 DEF Suspended
  <1>10. RowsOf(t, q)
    BY <1>2, <1>5, <1>6, <1>8 DEF RowsOf
  <1>11. /\ t.gen[q] \in Engaged => t.servingQuery = q /\ t.currentCallId = q
         /\ t.gen[q] \notin Engaged => t.servingQuery = Nobody
    BY <1>2, <1>3, <1>4 DEF Engaged, Kept
  <1>12. PageInv(t) /\ RowsInv(t)
    BY <1>2, <1>7, <1>9, <1>10, <1>11, RestReads DEF Kept
  <1>13. NoReader(t)
    BY <1>6, <1>7 DEF NoReader, Reading, Rest
  <1> QED BY <1>2, <1>6, <1>12, <1>13 DEF t

(* Going round keeps what was taken.                                        *)
Went(s, q, t) ==
    /\ t \in Pages /\ PageInv(t) /\ RowsInv(t)
    /\ Kept(s, t)
    /\ s.stopped => t.gen[q] \in {"draining", "ended"}
    /\ \A r \in Queries : Reading(t, r) =>
          /\ r = q /\ s.deferredChunk = "armed"
          /\ t.posted = s.posted /\ Taken(t, q) = Taken(s, q)

LEMMA LoopReads ==
    ASSUME TypeOK, NEW s, NEW q \in Queries, Turn(s, q)
    PROVE  Went(s, q, Loop(s, q))
  <1> DEFINE t == Loop(s, q)
  <1>1. /\ s \in Pages /\ Rest(s, q)
        /\ s.servingQuery = q /\ s.currentCallId = q /\ s.waiters = <<>>
        /\ GotInv(s, q)
        /\ s.dead => s.failure
        /\ q \in s.returning \/ s.slot = q => s.stopped
        /\ s.inbox = <<>> /\ s.deferredChunk = "none" => Len(s.got[q]) = size[q] + 1
        /\ ~s.failure => InboxInv(s, q)
        /\ s.outcome[q] # "complete"
    BY DEF Turn
  <1>2. Looped(s, q, t)
    BY <1>1, LoopIs
  <1>3. /\ s.gen \in [Queries -> GenStates] /\ s.outcome \in [Queries -> Outcomes]
        /\ s.got \in [Queries -> Seq(Values)] /\ s.inbox \in Seq(Values)
        /\ s.got[q] \in Seq(Values) /\ Len(s.got[q]) \in Nat /\ Len(s.inbox) \in Nat
        /\ s.deferredChunk \in {"none", "armed", "failed"}
    BY <1>1 DEF Pages
  <1> HIDE DEF t
  <1>4. CASE \E why \in {"left", "failed", "complete"} :
                /\ t = Finally(s, q, why)
                /\ why = "complete" => s.inbox = <<>> /\ s.deferredChunk = "none"
    <2>1. PICK why \in {"left", "failed", "complete"} :
                /\ t = Finally(s, q, why)
                /\ why = "complete" => s.inbox = <<>> /\ s.deferredChunk = "none"
      BY <1>4
    <2>2. /\ PageInv(t) /\ RowsInv(t) /\ NoReader(t) /\ t \in Pages
          /\ t.gen[q] \in {"draining", "ended"}
      BY <1>1, <2>1, FinallyReads
    <2>3. Kept(s, t)
      <3>1. why \in Outcomes
        BY DEF Outcomes
      <3>2. Finished(s, q, why, t)
        BY <1>1, <2>1, <3>1, FinallyIs
      <3> QED BY <3>2 DEF Finished
    <2> QED BY <2>2, <2>3 DEF Went, NoReader, t
  <1>5. CASE s.inbox # <<>> /\ ~s.stopped /\ ~s.failure /\ t = Yield(s, q)
    <2> DEFINE v == Head(s.inbox)
               k == Len(s.got[q])
               n == Len(s.inbox)
    <2>1. Yielded(s, q, t) /\ q \notin s.returning /\ s.slot # q
      BY <1>1, <1>5, YieldIs
    <2>2. /\ t \in Pages /\ Kept(s, t)
          /\ t.posted = s.posted /\ t.deferredChunk = s.deferredChunk
          /\ t.inbox = Tail(s.inbox) /\ t.servingQuery = q
          /\ t.waiters = <<>> /\ t.outcome = s.outcome
          /\ t.got = [s.got EXCEPT ![q] = Append(@, v)]
          /\ t.gen = [s.gen EXCEPT ![q] = IF v.n = 0 THEN "count" ELSE "rows"]
      BY <1>1, <2>1 DEF Yielded
    <2>3. /\ size[q] \in Nat
          /\ v = Full(q, k + 1)
          /\ \A i \in DOMAIN s.inbox : s.inbox[i] = Full(q, k + i)
          /\ s.deferredChunk = "none" => k + Len(s.inbox) = size[q] + 1
          /\ s.deferredChunk # "none" => k + Len(s.inbox) <= size[q]
      <3>1. InboxInv(s, q) /\ v = s.inbox[1] /\ 1 \in DOMAIN s.inbox
        BY <1>1, <1>3, <1>5
      <3>2. Taken(s, q) = k + Len(s.inbox)
        BY DEF Taken
      <3>3. size[q] \in Nat
        BY SizeIs
      <3> QED BY <3>1, <3>2, <3>3 DEF InboxInv
    <2>4. /\ t.got[q] = Append(s.got[q], v) /\ Len(t.got[q]) = k + 1
          /\ \A r \in Queries \ {q} : t.got[r] = s.got[r] /\ t.gen[r] = s.gen[r]
          /\ t.gen[q] = IF v.n = 0 THEN "count" ELSE "rows"
      BY <1>3, <2>2
    <2>5. /\ Len(t.inbox) = Len(s.inbox) - 1 /\ Len(s.inbox) > 0
          /\ Len(s.inbox) \in Nat /\ k \in Nat
      BY <1>3, <1>5, <2>2
    <2>6. v.n = 0 <=> k = size[q]
      <3>1. v.n = IF k + 1 <= size[q] THEN k + 1 ELSE 0
        BY <2>3 DEF Full
      <3>2. k <= size[q]
        <4> HIDE DEF k, v
        <4> QED BY <2>3, <2>5
      <3> HIDE DEF k, v
      <3> QED BY <2>3, <2>5, <3>1, <3>2
    <2>7. \A i \in DOMAIN t.got[q] : t.got[q][i] = Full(q, i)
      <3> SUFFICES ASSUME NEW i \in DOMAIN t.got[q] PROVE t.got[q][i] = Full(q, i)
        OBVIOUS
      <3>1. CASE i = k + 1
        BY <1>3, <2>3, <2>4, <3>1
      <3>2. CASE i # k + 1
        <4>1. i \in DOMAIN s.got[q] /\ t.got[q][i] = s.got[q][i]
          BY <1>3, <2>4, <3>2
        <4> QED BY <1>1, <4>1 DEF GotInv
      <3> QED BY <3>1, <3>2
    <2>8. k <= size[q]
      <3> HIDE DEF k, v
      <3> QED BY <2>3, <2>5
    <2>9. GotInv(t, q)
      <3> HIDE DEF k, v
      <3> QED BY <2>3, <2>4, <2>5, <2>7, <2>8 DEF GotInv
    <2>10. Taken(t, q) = Taken(s, q)
      <3>1. k \in Nat /\ n \in Nat /\ Len(t.got[q]) = k + 1 /\ Len(t.inbox) = n - 1
        BY <2>4, <2>5
      <3>2. Taken(s, q) = k + n /\ Taken(t, q) = Len(t.got[q]) + Len(t.inbox)
        BY DEF Taken
      <3> HIDE DEF k, n
      <3> QED BY <3>1, <3>2
    <2>11. \A i \in DOMAIN t.inbox : t.inbox[i] = Full(q, Len(t.got[q]) + i)
      <3> SUFFICES ASSUME NEW i \in DOMAIN t.inbox
                   PROVE  t.inbox[i] = Full(q, Len(t.got[q]) + i)
        OBVIOUS
      <3>1. i + 1 \in DOMAIN s.inbox /\ t.inbox[i] = s.inbox[i + 1] /\ i \in Nat
        BY <1>3, <1>5, <2>2
      <3> HIDE DEF k, v
      <3>2. t.inbox[i] = Full(q, k + (i + 1))
        BY <2>3, <3>1
      <3>3. k + (i + 1) = Len(t.got[q]) + i
        BY <2>4, <2>5, <3>1
      <3> QED BY <3>2, <3>3
    <2>21. /\ size[q] \in Nat /\ k \in Nat /\ n \in Nat /\ n > 0 /\ Len(t.inbox) = n - 1
           /\ s.deferredChunk = "none" => k + n = size[q] + 1
           /\ s.deferredChunk # "none" => k + n <= size[q]
      BY <2>3, <2>5
    <2>22. Taken(t, q) = k + n
      BY <2>10 DEF Taken
    <2> HIDE DEF k, v, n
    <2>12. InboxInv(t, q)
      <3> QED BY <2>2, <2>11, <2>21, <2>22 DEF InboxInv
    <2>13. RowsOf(t, q)
      <3>1. t.gen[q] # "count" => k + 1 <= size[q]
        BY <2>3, <2>4, <2>5, <2>6, <2>8
      <3>2. t.gen[q] = "count" => k = size[q]
        BY <2>4, <2>6
      <3>3. t.outcome[q] # "complete"
        BY <1>1, <2>2
      <3> QED BY <2>4, <2>9, <2>12, <3>1, <3>2, <3>3 DEF RowsOf
    <2>14. t.gen[q] = "count" => t.deferredChunk = "none" /\ t.inbox = <<>>
      <3> SUFFICES ASSUME t.gen[q] = "count"
                   PROVE  t.deferredChunk = "none" /\ t.inbox = <<>>
        OBVIOUS
      <3>1. k = size[q]
        BY <2>4, <2>6
      <3>2. s.deferredChunk = "none" /\ n = 1
        BY <2>21, <3>1
      <3>4. t.inbox \in Seq(Values)
        BY <2>2 DEF Pages
      <3>3. t.inbox \in Seq(Values) /\ Len(t.inbox) = 0
        BY <2>21, <3>2, <3>4
      <3>5. t.inbox = <<>>
        BY <3>3
      <3>6. t.deferredChunk = "none"
        BY <2>2, <3>2
      <3> QED BY <3>5, <3>6
    <2>15. t.gen[q] = "rows" /\ t.deferredChunk = "none" => t.inbox # <<>>
      <3> SUFFICES ASSUME t.gen[q] = "rows", t.deferredChunk = "none"
                   PROVE  t.inbox # <<>>
        OBVIOUS
      <3>1. k # size[q]
        BY <2>4, <2>6
      <3>2. n > 1
        BY <2>2, <2>8, <2>21, <3>1
      <3>3. Len(t.inbox) # 0
        BY <2>21, <3>2
      <3> QED BY <3>3
    <2>16. Suspended(t, q)
      <3>1. t.gen[q] \in {"rows", "count"} /\ ~t.stopped /\ t.outcome[q] # "complete"
            /\ q \notin t.returning /\ t.slot # q /\ t.waiters = <<>>
        BY <1>1, <1>5, <2>1, <2>2, <2>4 DEF Kept
      <3> QED BY <2>14, <2>15, <3>1 DEF Suspended
    <2>17. Rest(t, q)
      <3>1. \A r \in Queries \ {q} :
               /\ t.gen[r] = s.gen[r] /\ t.got[r] = s.got[r] /\ t.outcome[r] = s.outcome[r]
               /\ r \in t.returning => r \in s.returning
               /\ t.slot = r => s.slot = r
        BY <2>2, <2>4 DEF Kept
      <3> QED BY <1>1, <3>1, RestKept
    <2>18. t.gen[q] \in Engaged
      BY <2>4 DEF Engaged
    <2>19. PageInv(t) /\ RowsInv(t)
      BY <1>1, <2>2, <2>13, <2>16, <2>17, <2>18, RestReads DEF Kept
    <2>20. \A r \in Queries : Reading(t, r) => r = q /\ s.deferredChunk = "armed"
      BY <2>2, <2>17 DEF Reading, Rest
    <2> QED BY <1>5, <2>2, <2>10, <2>19, <2>20 DEF Went, t
  <1>6. CASE /\ s.inbox = <<>> /\ s.deferredChunk = "armed" /\ ~s.stopped /\ ~s.failure
             /\ t \in Pages
             /\ Kept(s, t)
             /\ t.posted = s.posted /\ t.deferredChunk = s.deferredChunk
             /\ t.inbox = s.inbox /\ t.servingQuery = s.servingQuery
             /\ t.outcome = s.outcome /\ t.got = s.got
             /\ t.waiters = Append(s.waiters, q)
             /\ t.gen = [s.gen EXCEPT ![q] = "waiting"]
    <2>1. t.gen[q] = "waiting" /\ \A r \in Queries \ {q} : t.gen[r] = s.gen[r]
      BY <1>3, <1>6
    <2>2. t.waiters = <<q>>
      BY <1>1, <1>6
    <2>3. Suspended(t, q)
      BY <1>1, <1>6, <2>1, <2>2 DEF Suspended, Kept
    <2>4. InboxInv(t, q) /\ GotInv(t, q)
      BY <1>1, <1>6 DEF InboxInv, GotInv, Taken
    <2>5. Len(t.got[q]) <= size[q]
      BY <1>3, <1>6, <2>4 DEF InboxInv, Taken
    <2>6. RowsOf(t, q)
      BY <1>1, <1>6, <2>1, <2>4, <2>5 DEF RowsOf
    <2>7. Rest(t, q)
      BY ZenonT(60), <1>1, <1>6, <2>1, RestKept DEF Kept
    <2>8. t.gen[q] \in Engaged
      BY <2>1 DEF Engaged
    <2>9. PageInv(t) /\ RowsInv(t)
      BY <1>1, <1>6, <2>3, <2>6, <2>7, <2>8, RestReads DEF Kept
    <2>10. \A r \in Queries : Reading(t, r) => r = q
      BY <2>7 DEF Reading, Rest
    <2>11. Taken(t, q) = Taken(s, q)
      BY <1>6 DEF Taken
    <2> QED BY <1>6, <2>9, <2>10, <2>11 DEF Went, t
  <1> QED BY <1>2, <1>4, <1>5, <1>6 DEF Looped

-----------------------------------------------------------------------------
(* Rows: what befalls the page.                                             *)

(* The page whose race is lost, and the generator that lost it.             *)
LEMMA RacedIs ==
    ASSUME NEW s \in Pages
    PROVE  /\ Raced(s) \in Pages /\ Kept(s, Raced(s)) /\ Raced(s).waiters = <<>>
           /\ Raced(s).posted = s.posted /\ Raced(s).deferredChunk = s.deferredChunk
           /\ Raced(s).inbox = s.inbox /\ Raced(s).servingQuery = s.servingQuery
           /\ Raced(s).gen = s.gen /\ Raced(s).got = s.got /\ Raced(s).outcome = s.outcome
  <1>1. <<>> \in Seq(Queries)
    OBVIOUS
  <1>2. Raced(s) \in Pages
    BY <1>1 DEF Raced, Pages
  <1> QED BY <1>2 DEF Raced, Pages, Kept

(* A page that serves q has no other generator suspended.                   *)
LEMMA ServingIs ==
    ASSUME NEW s \in Pages, PageInv(s), RowsInv(s), NEW q \in Queries,
           s.gen[q] \in Engaged
    PROVE  /\ s.servingQuery = q /\ s.currentCallId = q /\ Rest(s, q)
           /\ s.dead => s.failure
           /\ Suspended(s, q) /\ RowsOf(s, q) /\ GotInv(s, q)
           /\ s.outcome[q] # "complete"
  <1>1. s.servingQuery = q /\ q # Nobody
    BY HoldersAre DEF PageInv
  <1>2. Rest(s, q)
    BY <1>1, RestOf
  <1>3. Suspended(s, q) /\ RowsOf(s, q) /\ s.currentCallId = q /\ (s.dead => s.failure)
    BY <1>1 DEF PageInv, RowsInv
  <1>4. s.gen[q] # "ended"
    BY DEF Engaged
  <1> QED BY <1>1, <1>2, <1>3, <1>4 DEF Suspended, RowsOf

(* Nobody waits, unless the generator that is served does.                  *)
LEMMA WaitersAre ==
    ASSUME NEW s \in Pages, PageInv(s)
    PROVE  \/ /\ s.waiters = <<>>
              /\ \A q \in Queries : s.gen[q] # "waiting"
           \/ \E q \in Queries : s.gen[q] = "waiting" /\ s.waiters = <<q>>
  <1>1. CASE \E q \in Queries : s.gen[q] = "waiting"
    BY <1>1 DEF PageInv, Suspended
  <1>2. CASE \A q \in Queries : s.gen[q] # "waiting"
    <2>1. CASE s.servingQuery = Nobody
      BY <1>2, <2>1 DEF PageInv
    <2>2. CASE s.servingQuery # Nobody
      <3>1. s.servingQuery \in Queries
        BY <2>2 DEF Pages, Callers
      <3>2. s.gen[s.servingQuery] \in Engaged /\ Suspended(s, s.servingQuery)
        BY <3>1 DEF PageInv
      <3> QED BY <1>2, <3>1, <3>2 DEF Engaged, Suspended
    <2> QED BY <2>1, <2>2
  <1> QED BY <1>1, <1>2

(* A step of the page that delivers nothing and stops nobody who reads on.  *)
Steady(s, t) ==
    \A r \in Queries : Reading(t, r) =>
        /\ Reading(s, r)
        /\ Taken(t, r) = Taken(s, r)
        /\ s.failure => t.failure
        /\ \/ t.posted = s.posted
           \/ \E m \in WorkerMessages :
                 m.type \notin {"query", "stop"} /\ t.posted = Append(s.posted, m)

LEMMA SameReads ==
    ASSUME NEW s \in Pages, NEW t \in Pages, PageInv(s), RowsInv(s), SameStreams(s, t),
           t.failure = s.failure, t.dead = s.dead
    PROVE  PageInv(t) /\ RowsInv(t)
  <1>1. ASSUME NEW q \in Queries PROVE Suspended(t, q)
    <2>1. Suspended(s, q)
      BY DEF PageInv
    <2> QED BY <2>1 DEF SameStreams, Suspended
  <1>2. ASSUME NEW q \in Queries PROVE RowsOf(t, q)
    <2>1. RowsOf(s, q)
      BY DEF RowsInv
    <2>2. GotInv(s, q) <=> GotInv(t, q)
      BY DEF SameStreams, GotInv
    <2>3. InboxInv(s, q) <=> InboxInv(t, q)
      BY DEF SameStreams, InboxInv, Taken
    <2> QED BY <2>1, <2>2, <2>3 DEF SameStreams, RowsOf
  <1>3. PageInv(t)
    BY <1>1 DEF SameStreams, PageInv
  <1> QED BY <1>2, <1>3 DEF RowsInv

(* The transport breaks: whoever waits fails, and whoever comes will.       *)
LEMMA FailReads ==
    ASSUME TypeOK, NEW s \in Pages, NEW x \in Pages, PageInv(s), RowsInv(s),
           SameStreams(s, x), x.failure, x.posted = s.posted
    PROVE  /\ PageInv(Wake(x)) /\ RowsInv(Wake(x)) /\ Steady(s, Wake(x))
           /\ s.waiters = <<>> => Wake(x) = x
           /\ Wake(x).failure
  <1> DEFINE t == Wake(x)
  <1>1. CASE s.waiters = <<>>
    <2>1. t = x
      BY <1>1, WakeOne DEF SameStreams
    <2>2. \A q \in Queries : s.gen[q] # "waiting"
      BY <1>1, WaitersAre
    <2>3. PageInv(x) /\ RowsInv(x)
      BY <2>2 DEF SameStreams, PageInv, RowsInv, Suspended, RowsOf, GotInv
    <2>4. Steady(s, x)
      BY DEF SameStreams, Steady, Reading, Taken
    <2> QED BY <2>1, <2>3, <2>4
  <1>2. CASE s.waiters # <<>>
    <2>1. PICK q \in Queries : s.gen[q] = "waiting" /\ s.waiters = <<q>>
      BY <1>2, WaitersAre
    <2> DEFINE r == Raced(x)
    <2>2. t = Loop(r, q)
      BY <2>1, WakeOne DEF SameStreams
    <2>3. /\ r \in Pages /\ Kept(x, r) /\ r.waiters = <<>>
          /\ r.posted = x.posted /\ r.deferredChunk = x.deferredChunk
          /\ r.inbox = x.inbox /\ r.servingQuery = x.servingQuery
          /\ r.gen = x.gen /\ r.got = x.got /\ r.outcome = x.outcome
      BY RacedIs
    <2> HIDE DEF r, t
    <2>4. s.gen[q] \in Engaged
      BY <2>1 DEF Engaged
    <2>5. /\ s.servingQuery = q /\ s.currentCallId = q /\ Rest(s, q)
          /\ Suspended(s, q) /\ GotInv(s, q)
          /\ s.outcome[q] # "complete"
      BY <2>4, ServingIs
    <2>6. /\ r.got = s.got /\ r.gen = s.gen /\ r.outcome = s.outcome
          /\ r.returning = s.returning /\ r.slot = s.slot /\ r.failure
          /\ r.servingQuery = s.servingQuery /\ r.currentCallId = s.currentCallId
          /\ r.inbox = s.inbox /\ r.deferredChunk = s.deferredChunk /\ r.posted = s.posted
      BY <2>3 DEF SameStreams, Kept
    <2>7. Rest(r, q)
      BY <2>5, <2>6, RestKept
    <2>8. /\ s.deferredChunk = "armed" /\ q \notin s.returning /\ s.slot # q
      BY <2>1, <2>5 DEF Suspended
    <2>9. Turn(r, q)
      BY <2>3, <2>5, <2>6, <2>7, <2>8 DEF Turn, GotInv
    <2>10. Went(r, q, t)
      BY <2>2, <2>9, LoopReads
    <2>11. Steady(s, t)
      BY <2>1, <2>6, <2>8, <2>10 DEF Went, Kept, Steady, Reading, Taken
    <2> QED BY <1>2, <2>6, <2>10, <2>11 DEF Went, Kept, t
  <1> QED BY <1>1, <1>2

(* The finally's end, of a generator that was draining.                     *)
LEMMA TeardownReads ==
    ASSUME NEW s \in Pages, NEW q \in Queries, Rest(s, q), s.waiters = <<>>,
           GotInv(s, q), s.outcome[q] # "complete"
    PROVE  PageInv(Teardown(s, q)) /\ RowsInv(Teardown(s, q)) /\ NoReader(Teardown(s, q))
  <1> DEFINE t == Teardown(s, q)
  <1>1. /\ t \in Pages /\ Kept(s, t) /\ t.deferredChunk = "none" /\ t.inbox = <<>>
        /\ t.servingQuery = Nobody /\ t.waiters = <<>>
        /\ t.gen = [s.gen EXCEPT ![q] = "ended"] /\ t.got = s.got /\ t.outcome = s.outcome
    BY TeardownIs
  <1>2. s.gen \in [Queries -> GenStates]
    BY DEF Pages
  <1> HIDE DEF t
  <1>3. t.gen[q] = "ended" /\ \A r \in Queries \ {q} : t.gen[r] = s.gen[r]
    BY <1>1, <1>2
  <1>4. Rest(t, q)
    <2>1. \A r \in Queries \ {q} :
               /\ t.gen[r] = s.gen[r] /\ t.got[r] = s.got[r] /\ t.outcome[r] = s.outcome[r]
               /\ r \in t.returning => r \in s.returning
               /\ t.slot = r => s.slot = r
      BY <1>1, <1>3 DEF Kept
    <2> QED BY <2>1, RestKept
  <1>5. Suspended(t, q) /\ RowsOf(t, q)
    BY <1>1, <1>3 DEF Suspended, RowsOf, GotInv
  <1>6. t.gen[q] \notin Engaged
    BY <1>3 DEF Engaged
  <1>7. t.servingQuery # q
    BY <1>1, HoldersAre
  <1>8. PageInv(t) /\ RowsInv(t)
    BY <1>1, <1>4, <1>5, <1>6, <1>7, RestReads
  <1> QED BY <1>1, <1>8 DEF NoReader, Reading, t

(* The last answer: the wait ends, with the count or with an error.         *)
LEMMA EndReads ==
    ASSUME TypeOK, NEW s \in Pages, NEW x \in Pages, PageInv(s), RowsInv(s), Served(s),
           s.deferredChunk # "none", Kept(s, x), x.posted = s.posted,
           x.deferredChunk \in {"none", "failed"},
           x.deferredChunk = "none" => x.inbox # <<>>,
           x.servingQuery = s.servingQuery, x.waiters = s.waiters, x.gen = s.gen,
           x.got = s.got, x.outcome = s.outcome,
           \A q \in Queries :
               s.gen[q] \in {"waiting", "rows"} /\ ~s.failure => InboxInv(x, q)
    PROVE  LET t == EndDrain(Wake(x)) IN PageInv(t) /\ RowsInv(t) /\ NoReader(t)
  <1> DEFINE y == Wake(x)
             t == EndDrain(y)
             D(z) == {r \in Queries : z.gen[r] = "draining"}
  <1>1. PICK q \in Queries : s.servingQuery = q /\ s.gen[q] \in Engaged
    BY DEF Served, Pages, Callers, PageInv
  <1>2. /\ s.currentCallId = q /\ Rest(s, q) /\ (s.dead => s.failure)
        /\ Suspended(s, q) /\ RowsOf(s, q) /\ GotInv(s, q) /\ s.outcome[q] # "complete"
    BY <1>1, ServingIs
  <1>3. Rest(x, q)
    BY <1>2, RestKept DEF Kept
  <1>4. GotInv(x, q) /\ x.outcome[q] # "complete" /\ x.gen[q] = s.gen[q]
    BY <1>2 DEF GotInv
  <1>5. \A z : t = IF D(y) = {} \/ y.deferredChunk = "armed" THEN y
                   ELSE Teardown(y, CHOOSE r \in D(y) : TRUE)
    BY DEF EndDrain
  <1>6. \A z \in Pages : PageInv(z) /\ z.deferredChunk # "armed" => D(z) = {} /\ NoReader(z)
    BY DEF PageInv, Suspended, NoReader, Reading
  <1>7. CASE s.gen[q] = "waiting"
    <2> DEFINE r == Raced(x)
    <2>1. s.waiters = <<q>> /\ q \notin s.returning /\ s.slot # q /\ ~s.failure
      BY <1>2, <1>7 DEF Suspended
    <2>2. y = Loop(r, q)
      BY <2>1, WakeOne
    <2>3. /\ r \in Pages /\ Kept(x, r) /\ r.waiters = <<>>
          /\ r.posted = x.posted /\ r.deferredChunk = x.deferredChunk
          /\ r.inbox = x.inbox /\ r.servingQuery = x.servingQuery
          /\ r.gen = x.gen /\ r.got = x.got /\ r.outcome = x.outcome
      BY RacedIs
    <2> HIDE DEF r, y
    <2>4. Rest(r, q)
      BY <1>3, <2>3, RestKept DEF Kept
    <2>5. InboxInv(x, q)
      BY <1>7, <2>1
    <2>6. InboxInv(r, q) /\ GotInv(r, q)
      BY <1>4, <2>3, <2>5 DEF InboxInv, GotInv, Taken
    <2>7. Turn(r, q)
      BY <1>1, <1>2, <1>4, <2>1, <2>3, <2>4, <2>6 DEF Turn, Kept
    <2>8. Went(r, q, y)
      BY <2>2, <2>7, LoopReads
    <2>9. y \in Pages /\ PageInv(y) /\ RowsInv(y)
      BY <2>8 DEF Went
    <2>10. y.deferredChunk # "armed"
      <3>1. Served(r)
        BY <1>1, <1>2, <2>3, HoldersAre DEF Served, Kept
      <3>2. Moves(r, y)
        BY <2>2, <2>3, <3>1, LoopMoves
      <3> QED BY <2>3, <3>2 DEF Moves
    <2>11. D(y) = {} /\ NoReader(y)
      BY <1>6, <2>9, <2>10
    <2>12. t = y
      BY <2>11 DEF EndDrain
    <2> QED BY <2>9, <2>11, <2>12 DEF y
  <1>8. ASSUME s.gen[q] # "waiting" PROVE y = x /\ x.waiters = <<>>
    <2>1. s.waiters = <<>>
      BY <1>1, <1>2, <1>8 DEF Suspended, Engaged
    <2> QED BY <2>1, WakeOne
  <1>9. CASE s.gen[q] = "draining"
    <2>1. D(x) = {q}
      BY <1>3, <1>4, <1>9 DEF Rest
    <2>2. y = x
      BY <1>8, <1>9
    <2>3. t = Teardown(x, q)
      BY <2>1, <2>2 DEF EndDrain
    <2> QED BY <1>3, <1>4, <1>8, <1>9, <2>3, TeardownReads
  <1>10. CASE s.gen[q] = "rows"
    <2>1. y = x /\ x.waiters = <<>>
      BY <1>8, <1>10
    <2>2. Suspended(x, q)
      BY <1>2, <1>4, <1>10, <2>1 DEF Suspended, Kept
    <2>3. RowsOf(x, q)
      BY <1>2, <1>4, <1>10 DEF RowsOf, Kept
    <2>4. x.gen[q] \in Engaged
      BY <1>1, <1>4
    <2>5. PageInv(x) /\ RowsInv(x)
      BY <1>1, <1>2, <1>3, <2>2, <2>3, <2>4, RestReads DEF Kept
    <2>6. D(x) = {} /\ NoReader(x)
      BY <1>6, <2>5
    <2>7. t = x
      BY <2>1, <2>6 DEF EndDrain
    <2> QED BY <2>5, <2>6, <2>7
  <1>11. s.gen[q] # "count"
    BY <1>2 DEF Suspended
  <1> QED BY <1>1, <1>7, <1>9, <1>10, <1>11 DEF Engaged

(* A chunk: behind the rows there are, or into the hands of who waits.      *)
Fed(s, t) ==
    \A r \in Queries : Reading(t, r) =>
        /\ s.gen[r] \in {"waiting", "rows"}
        /\ Taken(t, r) = Taken(s, r) + 1
        /\ t.posted = s.posted
        /\ s.failure => t.failure

LEMMA ChunkReads ==
    ASSUME TypeOK, NEW s \in Pages, PageInv(s), RowsInv(s), Served(s), NEW e \in Values,
           s.deferredChunk # "none",
           \A q \in Queries : s.gen[q] \in {"waiting", "rows"} /\ ~s.failure =>
               /\ s.deferredChunk = "armed"
               /\ e = [call |-> q, n |-> Taken(s, q) + 1]
               /\ Taken(s, q) + 1 <= size[q]
    PROVE  LET t == Wake(Queued(s, e)) IN
           t \in Pages /\ PageInv(t) /\ RowsInv(t) /\ Fed(s, t)
  <1> DEFINE x == Queued(s, e)
             y == Wake(x)
  <1>1. PICK q \in Queries : s.servingQuery = q /\ s.gen[q] \in Engaged
    BY DEF Served, Pages, Callers, PageInv
  <1>2. /\ s.currentCallId = q /\ Rest(s, q) /\ (s.dead => s.failure)
        /\ Suspended(s, q) /\ RowsOf(s, q) /\ GotInv(s, q) /\ s.outcome[q] # "complete"
    BY <1>1, ServingIs
  <1>3. /\ x \in Pages /\ Kept(s, x)
        /\ x.posted = s.posted /\ x.deferredChunk = "armed"
        /\ x.inbox = Append(s.inbox, e)
        /\ x.servingQuery = s.servingQuery
        /\ x.waiters = s.waiters /\ x.outcome = s.outcome
        /\ x.got = s.got /\ x.gen = s.gen
    BY QueuedIs
  <1>4. s.inbox \in Seq(Values) /\ s.got[q] \in Seq(Values) /\ size[q] \in Nat
    BY SizeIs DEF Pages
  <1> HIDE DEF x
  <1>5. Rest(x, q)
    <2>1. \A r \in Queries \ {q} :
               /\ x.gen[r] = s.gen[r] /\ x.got[r] = s.got[r] /\ x.outcome[r] = s.outcome[r]
               /\ r \in x.returning => r \in s.returning
               /\ x.slot = r => s.slot = r
      BY <1>3 DEF Kept
    <2> QED BY <1>2, <2>1, RestKept
  <1>6. GotInv(x, q) /\ x.outcome[q] # "complete" /\ x.gen[q] = s.gen[q] /\ x.inbox # <<>>
    BY <1>2, <1>3, <1>4 DEF GotInv
  <1>7. \A r \in Queries : Taken(x, r) = Taken(s, r) + 1
    <2> SUFFICES ASSUME NEW r \in Queries PROVE Taken(x, r) = Taken(s, r) + 1
      OBVIOUS
    <2> DEFINE a == Len(s.got[r])
               n == Len(s.inbox)
    <2>1. Len(x.inbox) = n + 1 /\ n \in Nat
      BY <1>3, <1>4
    <2>2. a \in Nat /\ Len(x.got[r]) = a
      BY <1>3 DEF Pages
    <2>3. Taken(s, r) = a + n /\ Taken(x, r) = Len(x.got[r]) + Len(x.inbox)
      BY DEF Taken
    <2> HIDE DEF a, n
    <2> QED BY <2>1, <2>2, <2>3
  <1>8. ASSUME s.gen[q] \in {"waiting", "rows"}, ~s.failure PROVE InboxInv(x, q)
    <2> DEFINE a == Len(s.got[q])
               n == Len(s.inbox)
    <2>1. InboxInv(s, q) /\ e = [call |-> q, n |-> Taken(s, q) + 1] /\ Taken(s, q) + 1 <= size[q]
      BY <1>2, <1>8 DEF RowsOf
    <2>2. Taken(s, q) = a + n /\ a \in Nat /\ n \in Nat /\ Len(x.got[q]) = a
      BY <1>3, <1>4 DEF Taken
    <2>3. e = Full(q, a + (n + 1))
      <3>1. Taken(s, q) + 1 = a + (n + 1)
        <4> HIDE DEF a, n
        <4> QED BY <2>2
      <3> QED BY <2>1, <3>1 DEF Full
    <2>4. \A i \in DOMAIN x.inbox : x.inbox[i] = Full(q, Len(x.got[q]) + i)
      <3> SUFFICES ASSUME NEW i \in DOMAIN x.inbox
                   PROVE  x.inbox[i] = Full(q, Len(x.got[q]) + i)
        OBVIOUS
      <3>1. CASE i = n + 1
        <4>1. x.inbox[i] = e
          BY <1>3, <1>4, <3>1
        <4> QED BY <2>2, <2>3, <3>1, <4>1
      <3>2. CASE i # n + 1
        <4>1. i \in DOMAIN s.inbox /\ x.inbox[i] = s.inbox[i]
          BY <1>3, <1>4, <3>2
        <4>2. s.inbox[i] = Full(q, a + i)
          BY <2>1, <4>1 DEF InboxInv
        <4> QED BY <2>2, <4>1, <4>2
      <3> QED BY <3>1, <3>2
    <2>5. Taken(x, q) <= size[q]
      BY <1>7, <2>1
    <2> QED BY <1>3, <2>4, <2>5 DEF InboxInv
  <1>9. \A r \in Queries : Reading(x, r) => r = q /\ s.gen[r] \in {"waiting", "rows"}
    BY <1>3, <1>5 DEF Reading, Rest
  <1>10. CASE s.gen[q] = "waiting"
    <2> DEFINE r == Raced(x)
    <2>1. s.waiters = <<q>> /\ q \notin s.returning /\ s.slot # q /\ ~s.failure
      BY <1>2, <1>10 DEF Suspended
    <2>2. y = Loop(r, q)
      BY <1>3, <2>1, WakeOne
    <2>3. /\ r \in Pages /\ Kept(x, r) /\ r.waiters = <<>>
          /\ r.posted = x.posted /\ r.deferredChunk = x.deferredChunk
          /\ r.inbox = x.inbox /\ r.servingQuery = x.servingQuery
          /\ r.gen = x.gen /\ r.got = x.got /\ r.outcome = x.outcome
      BY <1>3, RacedIs
    <2> HIDE DEF r, y
    <2>4. Rest(r, q)
      <3>1. \A z \in Queries \ {q} :
               /\ r.gen[z] = x.gen[z] /\ r.got[z] = x.got[z] /\ r.outcome[z] = x.outcome[z]
               /\ z \in r.returning => z \in x.returning
               /\ r.slot = z => x.slot = z
        BY <2>3 DEF Kept
      <3> QED BY <1>5, <3>1, RestKept
    <2>5. InboxInv(x, q)
      BY <1>8, <1>10, <2>1
    <2>6. InboxInv(r, q) /\ GotInv(r, q)
      BY <1>6, <2>3, <2>5 DEF InboxInv, GotInv, Taken
    <2>7. Turn(r, q)
      BY <1>1, <1>2, <1>3, <1>6, <2>1, <2>3, <2>4, <2>6 DEF Turn, Kept
    <2>8. Went(r, q, y)
      BY <2>2, <2>7, LoopReads
    <2>9. Taken(r, q) = Taken(s, q) + 1
      BY <1>7, <2>3 DEF Taken
    <2>10. Fed(s, y)
      BY <1>3, <1>10, <2>3, <2>8, <2>9 DEF Fed, Went, Kept
    <2> QED BY <2>8, <2>10 DEF Went, y, x
  <1>11. CASE s.gen[q] # "waiting"
    <2>1. s.waiters = <<>> /\ s.gen[q] # "count"
      BY <1>1, <1>2, <1>11 DEF Suspended, Engaged
    <2>2. y = x
      BY <1>3, <2>1, WakeOne
    <2>3. Suspended(x, q)
      BY <1>2, <1>3, <1>6, <1>11, <2>1 DEF Suspended, Kept
    <2>4. RowsOf(x, q)
      BY <1>2, <1>3, <1>6, <1>8, <1>11, <2>1 DEF RowsOf, Kept
    <2>5. x.gen[q] \in Engaged
      BY <1>1, <1>6
    <2>6. PageInv(x) /\ RowsInv(x)
      BY <1>1, <1>2, <1>3, <1>5, <2>3, <2>4, <2>5, RestReads DEF Kept
    <2>7. Fed(s, x)
      BY <1>3, <1>7, <1>9 DEF Fed, Kept
    <2> QED BY <1>3, <2>2, <2>6, <2>7 DEF x
  <1> QED BY <1>10, <1>11

-----------------------------------------------------------------------------
(* Rows: what the callers do.                                               *)

(* A claim, on a worker nobody has.                                         *)
LEMMA ClaimReads ==
    ASSUME TypeOK, NEW s \in Pages, PageInv(s), RowsInv(s), NEW q \in Queries,
           s.servingQuery = Nobody, s.deferredChunk = "none", s.gen[q] = "new"
    PROVE  /\ PageInv(Claim(s, q)) /\ RowsInv(Claim(s, q))
           /\ \A r \in Queries : Reading(Claim(s, q), r) =>
                 /\ Claim(s, q).posted = Append(s.posted, [type |-> "query", call |-> q])
                 /\ Taken(Claim(s, q), r) = 0
  <1> DEFINE x == Claimed(s, q)
             t == Claim(s, q)
  <1>1. t = Loop(x, q)
    BY DEF Claim, Claimed
  <1>2. /\ x \in Pages
        /\ x.posted = Append(s.posted, [type |-> "query", call |-> q])
        /\ x.deferredChunk = "armed" /\ x.inbox = <<>> /\ ~x.stopped
        /\ x.servingQuery = q /\ x.currentCallId = q /\ x.failure = s.dead
        /\ x.dead = s.dead /\ x.waiters = s.waiters /\ x.gen = s.gen
        /\ x.got = s.got /\ x.outcome = s.outcome /\ x.returning = s.returning
        /\ x.slot = s.slot
    BY ClaimedIs
  <1>3. Rest(s, q) /\ Suspended(s, q) /\ RowsOf(s, q) /\ s.waiters = <<>>
    BY RestOf DEF PageInv, RowsInv
  <1> HIDE DEF x, t
  <1>4. Rest(x, q)
    BY <1>2, <1>3, RestKept
  <1>5. /\ s.got[q] = <<>> /\ s.outcome[q] # "complete"
        /\ q \notin s.returning /\ s.slot # q /\ size[q] \in Nat
    BY <1>3, SizeIs DEF Suspended
  <1>6. Taken(x, q) = 0
    BY <1>2, <1>5 DEF Taken
  <1>7. InboxInv(x, q) /\ GotInv(x, q)
    BY <1>2, <1>5, <1>6 DEF InboxInv, GotInv
  <1>8. Turn(x, q)
    BY <1>2, <1>3, <1>4, <1>5, <1>7 DEF Turn
  <1>9. Went(x, q, t)
    BY <1>1, <1>8, LoopReads
  <1> QED BY <1>2, <1>6, <1>9 DEF Went, t

(* A later next().                                                          *)
LEMMA ResumeReads ==
    ASSUME TypeOK, NEW s \in Pages, PageInv(s), RowsInv(s), NEW q \in Queries,
           s.gen[q] \in {"rows", "count"}
    PROVE  /\ PageInv(Resume(s, q)) /\ RowsInv(Resume(s, q)) /\ Steady(s, Resume(s, q))
  <1> DEFINE m == [type |-> "credit", call |-> s.currentCallId]
             x == IF s.gen[q] = "count" THEN s ELSE Post(s, m)
             t == Resume(s, q)
  <1>1. t = Loop(x, q)
    BY DEF Resume
  <1>2. s.gen[q] \in Engaged
    BY DEF Engaged
  <1>3. /\ s.servingQuery = q /\ s.currentCallId = q /\ Rest(s, q)
        /\ s.dead => s.failure
        /\ Suspended(s, q) /\ RowsOf(s, q) /\ GotInv(s, q)
        /\ s.outcome[q] # "complete"
    BY <1>2, ServingIs
  <1>4. m \in WorkerMessages /\ m.type = "credit"
    BY <1>3 DEF WorkerMessages
  <1> HIDE DEF m, t
  <1>5. /\ x \in Pages /\ Kept(s, x)
        /\ x.posted = s.posted \/ x.posted = Append(s.posted, m)
        /\ x.deferredChunk = s.deferredChunk /\ x.inbox = s.inbox
        /\ x.servingQuery = s.servingQuery /\ x.waiters = s.waiters
        /\ x.gen = s.gen /\ x.got = s.got /\ x.outcome = s.outcome
    BY <1>4, PostIs DEF Kept
  <1> HIDE DEF x
  <1>6. Rest(x, q)
    <2>1. \A r \in Queries \ {q} :
               /\ x.gen[r] = s.gen[r] /\ x.got[r] = s.got[r] /\ x.outcome[r] = s.outcome[r]
               /\ r \in x.returning => r \in s.returning
               /\ x.slot = r => s.slot = r
      BY <1>5 DEF Kept
    <2> QED BY <1>3, <2>1, RestKept
  <1>7. /\ q \notin s.returning /\ s.slot # q /\ s.waiters = <<>>
        /\ s.inbox = <<>> /\ s.deferredChunk = "none" => Len(s.got[q]) = size[q] + 1
    BY <1>3 DEF Suspended, RowsOf
  <1>8. ~s.failure => InboxInv(s, q)
    <2>1. CASE s.gen[q] = "rows"
      BY <1>3, <2>1 DEF RowsOf
    <2>2. CASE s.gen[q] = "count"
      <3>1. s.inbox = <<>> /\ s.deferredChunk = "none" /\ Len(s.got[q]) = size[q] + 1
        BY <1>3, <2>2 DEF Suspended, RowsOf
      <3>2. Taken(s, q) = size[q] + 1
        BY <3>1, SizeIs DEF Taken
      <3> QED BY <3>1, <3>2 DEF InboxInv
    <2> QED BY <2>1, <2>2
  <1>9. GotInv(x, q) /\ (~x.failure => InboxInv(x, q))
    BY <1>3, <1>5, <1>8, ZenonT(60) DEF GotInv, InboxInv, Taken, Kept
  <1>10. Turn(x, q)
    BY <1>3, <1>5, <1>6, <1>7, <1>9 DEF Turn, Kept
  <1>11. Went(x, q, t)
    BY <1>1, <1>10, LoopReads
  <1>12. Steady(s, t)
    <2> SUFFICES ASSUME NEW r \in Queries, Reading(t, r)
                 PROVE  /\ Reading(s, r)
                        /\ Taken(t, r) = Taken(s, r)
                        /\ s.failure => t.failure
                        /\ \/ t.posted = s.posted
                           \/ \E z \in WorkerMessages :
                                 z.type \notin {"query", "stop"} /\ t.posted = Append(s.posted, z)
      BY DEF Steady
    <2>1. r = q /\ s.deferredChunk = "armed" /\ t.posted = x.posted /\ Taken(t, q) = Taken(x, q)
          /\ t.failure = s.failure
      BY <1>5, <1>11 DEF Went, Kept
    <2>2. s.gen[q] = "rows"
      BY <1>3, <2>1 DEF Suspended
    <2>3. Taken(x, q) = Taken(s, q)
      BY <1>5 DEF Taken
    <2> QED BY <1>4, <1>5, <2>1, <2>2, <2>3 DEF Reading
  <1> QED BY <1>11, <1>12 DEF Went, t

(* A consumer that leaves takes nothing more, and stops its own query alone.*)
LEMMA LeaveReads ==
    ASSUME TypeOK, NEW s \in Pages, PageInv(s), RowsInv(s), NEW q \in Queries,
           s.gen[q] # "ended"
    PROVE  LET t == Return(Interrupt(s, q), q) IN
           PageInv(t) /\ RowsInv(t) /\ Steady(s, t)
  <1> DEFINE i == Interrupt(s, q)
             t == Return(i, q)
             x == Interrupted(s)
  <1>1. /\ x \in Pages /\ x.posted = s.posted /\ x.deferredChunk = s.deferredChunk
        /\ x.inbox = s.inbox /\ x.servingQuery = s.servingQuery
        /\ x.waiters = s.waiters /\ x.outcome = s.outcome
        /\ x.got = s.got /\ x.gen = s.gen
        /\ x.currentCallId = s.currentCallId /\ x.dead = s.dead
        /\ x.failure = s.failure /\ x.returning = s.returning
        /\ x.slot = s.currentCallId /\ x.stopped
    BY InterruptedIs
  <1>2. i = IF s.servingQuery # q THEN s ELSE Wake(x)
    BY DEF Interrupt, Interrupted
  <1>3. s.gen[q] \in GenStates
    BY DEF Pages
  <1> HIDE DEF x
  <1>4. CASE s.gen[q] = "new"
    <2> DEFINE l == Leaving(s, q)
    <2>1. s.servingQuery # q
      BY <1>4 DEF PageInv, Engaged
    <2>2. t = Unpulled(l, q)
      BY <1>2, <1>4, <2>1, ReturnIs
    <2>3. /\ l \in Pages /\ l.deferredChunk = s.deferredChunk
          /\ l.inbox = s.inbox /\ l.servingQuery = s.servingQuery
          /\ l.waiters = s.waiters /\ l.outcome = s.outcome
          /\ l.got = s.got /\ l.gen = s.gen
          /\ l.currentCallId = s.currentCallId /\ l.dead = s.dead
          /\ l.failure = s.failure /\ l.posted = s.posted
          /\ l.stopped = s.stopped /\ l.slot = s.slot
          /\ l.returning = s.returning \cup {q}
      BY LeavingIs
    <2> HIDE DEF l, t, i
    <2>4. /\ t \in Pages /\ Kept(l, t) /\ t.deferredChunk = l.deferredChunk
          /\ t.inbox = l.inbox /\ t.servingQuery = l.servingQuery /\ t.posted = l.posted
          /\ t.waiters = l.waiters /\ t.got = l.got
          /\ t.outcome = [l.outcome EXCEPT ![q] = "left"]
          /\ t.gen = [l.gen EXCEPT ![q] = "ended"]
      BY <2>2, <2>3, UnpulledIs
    <2>5. s.gen \in [Queries -> GenStates] /\ s.outcome \in [Queries -> Outcomes]
      BY DEF Pages
    <2>6. /\ t.gen[q] = "ended" /\ t.outcome[q] = "left"
          /\ \A r \in Queries : r # q => t.gen[r] = s.gen[r] /\ t.outcome[r] = s.outcome[r]
      BY <2>3, <2>4, <2>5
    <2>7. /\ t.deferredChunk = s.deferredChunk /\ t.posted = s.posted
          /\ t.inbox = s.inbox /\ t.servingQuery = s.servingQuery
          /\ t.waiters = s.waiters /\ t.got = s.got
          /\ t.currentCallId = s.currentCallId /\ t.dead = s.dead
          /\ t.failure = s.failure /\ t.stopped = s.stopped /\ t.slot = s.slot
          /\ t.returning = s.returning \cup {q}
      BY <2>3, <2>4 DEF Kept
    <2>8. ASSUME NEW r \in Queries PROVE Suspended(t, r) /\ RowsOf(t, r)
      <3>1. Suspended(s, r) /\ RowsOf(s, r)
        BY DEF PageInv, RowsInv
      <3>2. GotInv(t, r) /\ (InboxInv(s, r) <=> InboxInv(t, r))
        BY <2>7, <3>1 DEF RowsOf, GotInv, InboxInv, Taken
      <3>3. CASE r = q
        BY <2>6, <3>2, <3>3 DEF Suspended, RowsOf
      <3>4. CASE r # q
        BY <2>6, <2>7, <3>1, <3>2, <3>4 DEF Suspended, RowsOf
      <3> QED BY <3>3, <3>4
    <2>9. PageInv(t)
      BY <1>4, <2>6, <2>7, <2>8 DEF PageInv, Engaged
    <2>10. RowsInv(t)
      BY <2>8 DEF RowsInv
    <2>11. Steady(s, t)
      BY <2>6, <2>7 DEF Steady, Reading, Taken
    <2> QED BY <2>9, <2>10, <2>11 DEF t, i
  <1>5. ASSUME s.gen[q] # "new"
        PROVE  /\ s.gen[q] \in Engaged
               /\ s.servingQuery = q /\ s.currentCallId = q /\ Rest(s, q)
               /\ s.dead => s.failure
               /\ Suspended(s, q) /\ RowsOf(s, q) /\ GotInv(s, q)
               /\ s.outcome[q] # "complete"
               /\ i = Wake(x)
    <2>1. s.gen[q] \in Engaged
      BY <1>3, <1>5 DEF Engaged, GenStates
    <2> QED BY <1>2, <2>1, ServingIs
  <1>6. Rest(x, q) \/ s.gen[q] = "new"
    <2>1. CASE s.gen[q] # "new"
      <3>1. \A r \in Queries \ {q} :
               /\ x.gen[r] = s.gen[r] /\ x.got[r] = s.got[r] /\ x.outcome[r] = s.outcome[r]
               /\ r \in x.returning => r \in s.returning
               /\ x.slot = r => s.slot = r
        BY <1>1, <1>5, <2>1
      <3> QED BY <1>5, <2>1, <3>1, RestKept
    <2> QED BY <2>1
  <1>7. \A z \in Pages : LET l == Leaving(z, q) IN
            /\ l \in Pages /\ l.deferredChunk = z.deferredChunk
            /\ l.inbox = z.inbox /\ l.servingQuery = z.servingQuery
            /\ l.waiters = z.waiters /\ l.outcome = z.outcome
            /\ l.got = z.got /\ l.gen = z.gen
            /\ l.currentCallId = z.currentCallId /\ l.dead = z.dead
            /\ l.failure = z.failure /\ l.posted = z.posted
            /\ l.stopped = z.stopped /\ l.slot = z.slot
            /\ l.returning = z.returning \cup {q}
    BY LeavingIs
  <1>8. CASE s.gen[q] = "waiting"
    <2> DEFINE r == Raced(x)
               l == Leaving(i, q)
    <2>1. s.waiters = <<q>> /\ s.deferredChunk = "armed"
      BY <1>5, <1>8 DEF Suspended
    <2>2. i = Loop(r, q)
      BY <1>1, <1>5, <1>8, <2>1, WakeOne
    <2>3. /\ r \in Pages /\ Kept(x, r) /\ r.waiters = <<>>
          /\ r.posted = x.posted /\ r.deferredChunk = x.deferredChunk
          /\ r.inbox = x.inbox /\ r.servingQuery = x.servingQuery
          /\ r.gen = x.gen /\ r.got = x.got /\ r.outcome = x.outcome
      BY <1>1, RacedIs
    <2> HIDE DEF r, i
    <2>4. Rest(r, q)
      <3>1. \A z \in Queries \ {q} :
               /\ r.gen[z] = x.gen[z] /\ r.got[z] = x.got[z] /\ r.outcome[z] = x.outcome[z]
               /\ z \in r.returning => z \in x.returning
               /\ r.slot = z => x.slot = z
        BY <2>3 DEF Kept
      <3> QED BY <1>6, <1>8, <3>1, RestKept
    <2>5. GotInv(r, q) /\ (~r.failure => InboxInv(r, q))
      <3>1. RowsOf(s, q) /\ GotInv(s, q)
        BY <1>5, <1>8
      <3> QED BY ZenonT(60), <1>1, <1>8, <2>3, <3>1 DEF RowsOf, GotInv, InboxInv, Taken, Kept
    <2>6. Turn(r, q)
      BY <1>1, <1>5, <1>8, <2>1, <2>3, <2>4, <2>5 DEF Turn, Kept
    <2>7. Went(r, q, i)
      BY <2>2, <2>6, LoopReads
    <2>8. i \in Pages /\ PageInv(i) /\ RowsInv(i) /\ i.gen[q] \in {"draining", "ended"}
      BY <1>1, <2>3, <2>7 DEF Went, Kept
    <2>9. NoReader(i)
      BY <2>7, <2>8 DEF Went, NoReader, Reading
    <2>10. t = l
      BY <2>8, ReturnIs
    <2>11. /\ l \in Pages /\ l.deferredChunk = i.deferredChunk
           /\ l.inbox = i.inbox /\ l.servingQuery = i.servingQuery
           /\ l.waiters = i.waiters /\ l.outcome = i.outcome
           /\ l.got = i.got /\ l.gen = i.gen
           /\ l.currentCallId = i.currentCallId /\ l.dead = i.dead
           /\ l.failure = i.failure
           /\ l.stopped = i.stopped /\ l.slot = i.slot
           /\ l.returning = i.returning \cup {q}
      BY <1>7, <2>8
    <2> HIDE DEF l, t
    <2>12. ASSUME NEW z \in Queries PROVE Suspended(l, z) /\ RowsOf(l, z)
      <3>1. Suspended(i, z) /\ RowsOf(i, z)
        BY <2>8 DEF PageInv, RowsInv
      <3>2. GotInv(l, z) /\ (InboxInv(i, z) <=> InboxInv(l, z))
        BY <2>11, <3>1 DEF RowsOf, GotInv, InboxInv, Taken
      <3> QED BY <2>8, <2>11, <3>1, <3>2 DEF Suspended, RowsOf
    <2>13. PageInv(l)
      BY <2>8, <2>11, <2>12 DEF PageInv
    <2>14. RowsInv(l)
      BY <2>12 DEF RowsInv
    <2>15. Steady(s, l)
      BY <2>9, <2>11 DEF Steady, NoReader, Reading
    <2> QED BY <2>10, <2>13, <2>14, <2>15 DEF t, i
  <1>9. ASSUME s.gen[q] \in {"rows", "count", "draining"}
        PROVE  i = x /\ s.waiters = <<>>
    <2>1. s.waiters = <<>> /\ i = Wake(x)
      BY <1>5, <1>9 DEF Suspended
    <2> QED BY <1>1, <2>1, WakeOne
  <1> DEFINE l == Leaving(x, q)
  <1>10. /\ l \in Pages /\ l.deferredChunk = x.deferredChunk
         /\ l.inbox = x.inbox /\ l.servingQuery = x.servingQuery
         /\ l.waiters = x.waiters /\ l.outcome = x.outcome
         /\ l.got = x.got /\ l.gen = x.gen
         /\ l.currentCallId = x.currentCallId /\ l.dead = x.dead
         /\ l.failure = x.failure
         /\ l.stopped = x.stopped /\ l.slot = x.slot
         /\ l.returning = x.returning \cup {q}
    BY <1>1, <1>7
  <1> HIDE DEF l, i, t
  <1>11. ASSUME s.gen[q] # "new" PROVE Rest(l, q) /\ GotInv(l, q)
    <2>1. \A r \in Queries \ {q} :
             /\ l.gen[r] = x.gen[r] /\ l.got[r] = x.got[r] /\ l.outcome[r] = x.outcome[r]
             /\ r \in l.returning => r \in x.returning
             /\ l.slot = r => x.slot = r
      BY <1>10
    <2>2. GotInv(s, q)
      BY <1>5, <1>11
    <2> QED BY <1>1, <1>6, <1>10, <1>11, <2>1, <2>2, RestKept DEF GotInv
  <1>12. CASE s.gen[q] \in {"rows", "count"}
    <2>1. t = Finally(l, q, "left")
      BY <1>1, <1>9, <1>12, ReturnIs DEF l, t
    <2>2. /\ PageInv(t) /\ RowsInv(t) /\ NoReader(t)
      BY <1>1, <1>5, <1>9, <1>10, <1>11, <1>12, <2>1, FinallyReads
    <2>3. Steady(s, t)
      BY <2>2 DEF Steady, NoReader
    <2> QED BY <2>2, <2>3 DEF t, i
  <1>13. CASE s.gen[q] = "draining"
    <2>1. t = l
      BY <1>1, <1>9, <1>13, ReturnIs DEF l, t
    <2>2. Suspended(l, q) /\ RowsOf(l, q)
      BY <1>1, <1>5, <1>9, <1>10, <1>11, <1>13 DEF Suspended, RowsOf
    <2>3. l.gen[q] \in Engaged
      BY <1>1, <1>10, <1>13 DEF Engaged
    <2>4. PageInv(l) /\ RowsInv(l)
      BY <1>1, <1>5, <1>10, <1>11, <1>13, <2>2, <2>3, RestReads
    <2>5. NoReader(l)
      BY <1>1, <1>10, <1>11, <1>13 DEF NoReader, Reading, Rest
    <2>6. Steady(s, l)
      BY <2>5 DEF Steady, NoReader
    <2> QED BY <2>1, <2>4, <2>6 DEF t, i
  <1> QED BY <1>3, <1>4, <1>8, <1>12, <1>13 DEF GenStates

-----------------------------------------------------------------------------
(* Rows: the page and the worker.                                           *)

(* With nobody reading there is nothing to keep in step.                    *)
LEMMA NoReaderReads ==
    ASSUME NEW s, NEW v, PageInv(s), RowsInv(s), NoReader(s)
    PROVE  Reads(s, v)
  BY DEF NoReader, Reads, StopInv, StreamInv

(* A page that goes on by itself stays in step with its worker.             *)
LEMMA SteadyReads ==
    ASSUME NEW s \in Pages, NEW t \in Pages, NEW v \in WorkerStates,
           Reads(s, v), PageInv(t), RowsInv(t), Steady(s, t)
    PROVE  Reads(t, v)
  <1> SUFFICES ASSUME v.phase # "gone", NEW q \in Queries, Reading(t, q)
               PROVE  /\ Unstopped(t, v)
                      /\ ~t.failure => IF QueryPosted(t) THEN Taken(t, q) = 0
                                       ELSE Flowing(v, q, Taken(t, q))
    BY DEF Reads, StopInv, StreamInv
  <1>1. /\ Reading(s, q) /\ Taken(t, q) = Taken(s, q) /\ (s.failure => t.failure)
        /\ \/ t.posted = s.posted
           \/ \E m \in WorkerMessages :
                 m.type \notin {"query", "stop"} /\ t.posted = Append(s.posted, m)
    BY DEF Steady
  <1>2. /\ Unstopped(s, v)
        /\ ~s.failure => IF QueryPosted(s) THEN Taken(s, q) = 0
                         ELSE Flowing(v, q, Taken(s, q))
    BY <1>1 DEF Reads, StopInv, StreamInv
  <1>3. QueryPosted(t) <=> QueryPosted(s)
    <2>1. CASE t.posted = s.posted
      BY <2>1 DEF QueryPosted
    <2>2. CASE t.posted # s.posted
      <3>1. PICK m \in WorkerMessages :
                m.type \notin {"query", "stop"} /\ t.posted = Append(s.posted, m)
        BY <1>1, <2>2
      <3>2. s.posted \in Seq(WorkerMessages)
        BY DEF Pages
      <3>3. /\ DOMAIN t.posted = DOMAIN s.posted \cup {Len(s.posted) + 1}
            /\ \A i \in DOMAIN s.posted : t.posted[i] = s.posted[i]
            /\ t.posted[Len(s.posted) + 1] = m
        BY <3>1, <3>2
      <3> QED BY <3>1, <3>3 DEF QueryPosted
    <2> QED BY <2>1, <2>2
  <1>4. Unstopped(t, v)
    <2>1. CASE t.posted = s.posted
      BY <1>2, <1>3, <2>1 DEF Unstopped
    <2>2. CASE t.posted # s.posted
      <3>1. PICK m \in WorkerMessages :
                m.type \notin {"query", "stop"} /\ t.posted = Append(s.posted, m)
        BY <1>1, <2>2
      <3>2. s.posted \in Seq(WorkerMessages)
        BY DEF Pages
      <3>3. /\ DOMAIN t.posted = DOMAIN s.posted \cup {Len(s.posted) + 1}
            /\ \A i \in DOMAIN s.posted : t.posted[i] = s.posted[i] /\ i < Len(s.posted) + 1
            /\ t.posted[Len(s.posted) + 1] = m
        BY <3>1, <3>2
      <3>4. \A i, j \in DOMAIN t.posted :
               t.posted[i].type = "query" /\ i < j => t.posted[j].type # "stop"
        <4>1. ASSUME NEW i \in DOMAIN t.posted, NEW j \in DOMAIN t.posted,
                     t.posted[i].type = "query", i < j
              PROVE  t.posted[j].type # "stop"
          <5>1. i \in DOMAIN s.posted
            BY <3>1, <3>3, <4>1
          <5>2. CASE j \in DOMAIN s.posted
            BY <1>2, <3>3, <4>1, <5>1, <5>2 DEF Unstopped
          <5>3. CASE j = Len(s.posted) + 1
            BY <3>1, <3>3, <5>3
          <5> QED BY <3>3, <5>2, <5>3
        <4> QED BY <4>1
      <3> QED BY <1>2, <1>3, <3>1, <3>3, <3>4 DEF Unstopped
    <2> QED BY <2>1, <2>2
  <1> QED BY <1>1, <1>2, <1>3, <1>4

(* The page claims its worker for a query.                                  *)
LEMMA ClaimKeepsReads ==
    ASSUME TypeOK, NEW s \in Pages, NEW v \in WorkerStates, Agree(s, v), Reads(s, v),
           NEW q \in Queries, s.servingQuery = Nobody, s.gen[q] = "new"
    PROVE  Reads(Claim(s, q), v)
  <1> DEFINE t == Claim(s, q)
  <1>0. s.deferredChunk = "none"
    BY DEF Agree, Served
  <1>1. /\ PageInv(t) /\ RowsInv(t)
        /\ \A r \in Queries : Reading(t, r) =>
              /\ t.posted = Append(s.posted, [type |-> "query", call |-> q])
              /\ Taken(t, r) = 0
    BY <1>0, ClaimReads DEF Reads
  <1> HIDE DEF t
  <1>2. ASSUME v.phase # "gone", NEW r \in Queries, Reading(t, r)
        PROVE  Unstopped(t, v) /\ QueryPosted(t)
    <2>1. t.posted = Append(s.posted, [type |-> "query", call |-> q])
      BY <1>1, <1>2
    <2>2. s.posted \in Seq(WorkerMessages) /\ [type |-> "query", call |-> q] \in WorkerMessages
      BY DEF Pages, WorkerMessages
    <2>3. /\ DOMAIN t.posted = DOMAIN s.posted \cup {Len(s.posted) + 1}
          /\ \A i \in DOMAIN s.posted : t.posted[i] = s.posted[i] /\ i < Len(s.posted) + 1
          /\ t.posted[Len(s.posted) + 1].type = "query"
      BY <2>1, <2>2
    <2>4. ~QueryPosted(s)
      BY <1>0, <1>2, FreeIsIdle
    <2>5. QueryPosted(t)
      BY <2>3 DEF QueryPosted
    <2>6. \A i \in DOMAIN t.posted : t.posted[i].type = "query" => i = Len(s.posted) + 1
      BY <2>3, <2>4 DEF QueryPosted
    <2>7. \A j \in DOMAIN t.posted : ~(Len(s.posted) + 1 < j)
      BY <2>2, <2>3
    <2> QED BY <2>5, <2>6, <2>7 DEF Unstopped
  <1>3. Reads(t, v)
    BY <1>1, <1>2 DEF Reads, StopInv, StreamInv
  <1> QED BY <1>3 DEF t

(* What an invariant of the page and the worker says of the next state.     *)
LEMMA ReadStep ==
    ASSUME size' = size, Reads(p', w') PROVE ReadInv'
  <1>1. PageInv(p)'
    BY DEF Reads, PageInv, Suspended, Engaged
  <1>2. ASSUME NEW q \in Queries PROVE RowsOf(p, q)'
    <2>1. RowsOf(p', q)
      BY DEF Reads, RowsInv
    <2>2. GotInv(p', q) => GotInv(p, q)'
      BY DEF GotInv, Full
    <2>3. InboxInv(p', q) => InboxInv(p, q)'
      BY DEF InboxInv, Full, Taken
    <2> QED BY <2>1, <2>2, <2>3 DEF RowsOf
  <1>3. RowsInv(p)'
    BY <1>2 DEF RowsInv
  <1>4. w'.phase # "gone" => StopInv(p, w)'
    BY DEF Reads, StopInv, Unstopped, Reading, QueryPosted
  <1>5. ASSUME w'.phase # "gone" PROVE StreamInv(p, w)'
    <2>1. \A q \in Queries : \A n : Flowing(w', q, n) => Flowing(w, q, n)'
      BY DEF Flowing, Flow, Out, Chunk
    <2>2. StreamInv(p', w')
      BY <1>5 DEF Reads
    <2> QED BY <2>1, <2>2 DEF StreamInv, Reading, QueryPosted, Taken
  <1> QED BY <1>1, <1>3, <1>4, <1>5 DEF ReadInv, Reads

-----------------------------------------------------------------------------
(* Rows: what the page's callers do.                                        *)

(* What a step starts from.                                                 *)
LEMMA ReadParts ==
    ASSUME IInv, ReadInv
    PROVE  /\ TypeOK /\ p \in Pages /\ w \in WorkerStates /\ size \in [Queries -> Sizes]
           /\ Agree(p, w) /\ Served(p) /\ NoneBusy(p)
           /\ Reads(p, w) /\ PageInv(p) /\ RowsInv(p)
           /\ w.phase # "gone" => MutexInv(w) /\ StopInv(p, w) /\ StreamInv(p, w)
  BY DEF IInv, TypeOK, Agree, NoneBusy, ReadInv, Reads

LEMMA StartReads ==
    ASSUME IInv, ReadInv, Reuse = "idle", NEW q \in Queries, Start(q) PROVE ReadInv'
  <1>1. /\ p.gen[q] = "new" /\ p.servingQuery = Nobody
        /\ p' = Claim(p, q) /\ w' = w /\ size' = size
    BY DEF Start, MayStart
  <1>2. Reads(p', w')
    BY <1>1, ReadParts, ClaimKeepsReads
  <1> QED BY <1>1, <1>2, ReadStep

LEMMA PullReads ==
    ASSUME IInv, ReadInv, NEW q \in Queries, Pull(q) PROVE ReadInv'
  <1>1. p.gen[q] \in {"rows", "count"} /\ p' = Resume(p, q) /\ w' = w /\ size' = size
    BY DEF Pull
  <1>2. PageInv(p') /\ RowsInv(p') /\ Steady(p, p')
    BY <1>1, ReadParts, ResumeReads
  <1>3. p' \in Pages
    BY PullStep DEF IInv, TypeOK
  <1>4. Reads(p', w')
    BY <1>1, <1>2, <1>3, ReadParts, SteadyReads
  <1> QED BY <1>1, <1>4, ReadStep

LEMMA LeaveKeepsReads ==
    ASSUME IInv, ReadInv, NEW q \in Queries, Leave(q) PROVE ReadInv'
  <1>1. /\ p.gen[q] # "ended" /\ p' = Return(Interrupt(p, q), q)
        /\ w' = w /\ size' = size
    BY DEF Leave
  <1>2. PageInv(p') /\ RowsInv(p') /\ Steady(p, p')
    BY <1>1, ReadParts, LeaveReads
  <1>3. p' \in Pages
    BY LeaveStep DEF IInv, TypeOK
  <1>4. Reads(p', w')
    BY <1>1, <1>2, <1>3, ReadParts, SteadyReads
  <1> QED BY <1>1, <1>4, ReadStep

(* Asking for something else than rows.                                     *)
LEMMA AskedReads ==
    ASSUME IInv, ReadInv, p' \in Pages, w' = w, size' = size,
           SameStreams(p, p'), p'.failure = p.failure, p'.dead = p.dead,
           \/ p'.posted = p.posted
           \/ \E m \in WorkerMessages :
                 m.type \notin {"query", "stop"} /\ p'.posted = Append(p.posted, m)
    PROVE  ReadInv'
  <1>1. PageInv(p') /\ RowsInv(p')
    BY ReadParts, SameReads
  <1>2. Steady(p, p')
    BY DEF Steady, SameStreams, Reading, Taken
  <1>3. Reads(p', w')
    BY <1>1, <1>2, ReadParts, SteadyReads
  <1> QED BY <1>3, ReadStep

LEMMA AskVerdictReads ==
    ASSUME IInv, ReadInv, NEW x \in Verdicts, AskVerdict(x) PROVE ReadInv'
  <1> DEFINE m == [type |-> "verdict", call |-> x]
             t == [p EXCEPT !.verdict[x] = "asked"]
             d == [p EXCEPT !.verdict[x] = "settled"]
  <1>1. /\ p' = IF p.dead THEN d ELSE Post(t, m)
        /\ w' = w /\ size' = size
    BY DEF AskVerdict
  <1>2. p \in Pages
    BY ReadParts
  <1>3. t \in Pages /\ d \in Pages /\ m \in WorkerMessages /\ m.type = "verdict"
    BY <1>2 DEF Pages, WorkerMessages
  <1>4. /\ SameStreams(p, t) /\ t.failure = p.failure /\ t.dead = p.dead
        /\ t.posted = p.posted
        /\ SameStreams(p, d) /\ d.failure = p.failure /\ d.dead = p.dead
        /\ d.posted = p.posted
    BY <1>2 DEF Pages, SameStreams
  <1> HIDE DEF m, t, d
  <1>5. CASE p.dead
    BY <1>1, <1>3, <1>4, <1>5, AskedReads
  <1>6. CASE ~p.dead
    <2>1. /\ p' \in Pages /\ Kept(t, p') /\ p'.posted = Append(t.posted, m)
          /\ p'.deferredChunk = t.deferredChunk /\ p'.inbox = t.inbox
          /\ p'.servingQuery = t.servingQuery /\ p'.waiters = t.waiters
          /\ p'.gen = t.gen /\ p'.got = t.got /\ p'.outcome = t.outcome
      BY <1>1, <1>3, <1>6, PostIs
    <2>2. SameStreams(p, p') /\ p'.failure = p.failure /\ p'.dead = p.dead
      BY <1>4, <2>1 DEF SameStreams, Kept
    <2> QED BY <1>1, <1>3, <1>4, <2>1, <2>2, AskedReads
  <1> QED BY <1>5, <1>6

LEMMA CloseReads ==
    ASSUME IInv, ReadInv, Close PROVE ReadInv'
  <1> DEFINE m == [type |-> "close"]
             t == [p EXCEPT !.close = "asked"]
             d == [p EXCEPT !.close = "closed"]
  <1>1. /\ p' = IF p.dead THEN d ELSE Post(t, m)
        /\ w' = w /\ size' = size
    BY DEF Close
  <1>2. p \in Pages
    BY ReadParts
  <1>3. t \in Pages /\ d \in Pages /\ m \in WorkerMessages /\ m.type = "close"
    BY <1>2 DEF Pages, WorkerMessages
  <1>4. /\ SameStreams(p, t) /\ t.failure = p.failure /\ t.dead = p.dead
        /\ t.posted = p.posted
        /\ SameStreams(p, d) /\ d.failure = p.failure /\ d.dead = p.dead
        /\ d.posted = p.posted
    BY <1>2 DEF Pages, SameStreams
  <1> HIDE DEF m, t, d
  <1>5. CASE p.dead
    BY <1>1, <1>3, <1>4, <1>5, AskedReads
  <1>6. CASE ~p.dead
    <2>1. /\ p' \in Pages /\ Kept(t, p') /\ p'.posted = Append(t.posted, m)
          /\ p'.deferredChunk = t.deferredChunk /\ p'.inbox = t.inbox
          /\ p'.servingQuery = t.servingQuery /\ p'.waiters = t.waiters
          /\ p'.gen = t.gen /\ p'.got = t.got /\ p'.outcome = t.outcome
      BY <1>1, <1>3, <1>6, PostIs
    <2>2. SameStreams(p, p') /\ p'.failure = p.failure /\ p'.dead = p.dead
      BY <1>4, <2>1 DEF SameStreams, Kept
    <2> QED BY <1>1, <1>3, <1>4, <2>1, <2>2, AskedReads
  <1> QED BY <1>5, <1>6

-----------------------------------------------------------------------------
(* Rows: the transport breaks.                                              *)

(* The page dies with what it had.                                          *)
LEMMA DieReads ==
    ASSUME TypeOK, NEW s \in Pages, PageInv(s), RowsInv(s), ~s.dead
    PROVE  PageInv(Die(s)) /\ RowsInv(Die(s)) /\ (s.waiters = <<>> => Die(s) = Dying(s))
  <1> DEFINE x == Dying(s)
  <1>1. x \in Pages /\ x.failure /\ x.posted = s.posted /\ SameStreams(s, x)
    BY DyingIs DEF SameStreams
  <1>2. Die(s) = Wake(x)
    BY DEF Die, Dying
  <1> HIDE DEF x
  <1>3. PageInv(Wake(x)) /\ RowsInv(Wake(x)) /\ (s.waiters = <<>> => Wake(x) = x)
    BY <1>1, FailReads
  <1> QED BY <1>2, <1>3 DEF x

LEMMA DeathReads ==
    ASSUME IInv, ReadInv, Death \/ Terminate PROVE ReadInv'
  <1>1. ~p.dead /\ p' = Die(p) /\ w' = [w EXCEPT !.phase = "gone"] /\ size' = size
    BY DEF Death, Terminate
  <1>2. PageInv(p') /\ RowsInv(p')
    BY <1>1, ReadParts, DieReads
  <1>3. w'.phase = "gone"
    BY <1>1, ReadParts, GoneIs
  <1>4. Reads(p', w')
    BY <1>2, <1>3 DEF Reads
  <1> QED BY <1>1, <1>4, ReadStep

LEMMA DrainTimeoutReads ==
    ASSUME IInv, ReadInv, NEW q \in Queries, DrainTimeout(q) PROVE ReadInv'
  <1> DEFINE t == Die(p)
  <1>1. /\ p.gen[q] = "draining" /\ p' = Teardown(t, q)
        /\ w' = [w EXCEPT !.phase = "gone"] /\ size' = size
    BY DEF DrainTimeout
  <1>2. p \in Pages /\ PageInv(p) /\ RowsInv(p) /\ TypeOK /\ Served(p) /\ NoneBusy(p)
    BY ReadParts
  <1>3. p.gen[q] \in Engaged
    BY <1>1 DEF Engaged
  <1>4. Rest(p, q) /\ Suspended(p, q) /\ GotInv(p, q) /\ p.outcome[q] # "complete"
    BY <1>2, <1>3, ServingIs
  <1>5. p.waiters = <<>>
    BY <1>1, <1>4 DEF Suspended
  <1>6. /\ t \in Pages /\ t.waiters = <<>> /\ t.gen = p.gen /\ t.got = p.got
        /\ t.outcome = p.outcome /\ t.returning = p.returning /\ t.slot = p.slot
    <2>1. t \in Pages
      BY <1>2, DieIs
    <2>2. CASE p.dead
      BY <1>5, <2>1, <2>2 DEF Die
    <2>3. CASE ~p.dead
      <3>1. t = Dying(p)
        BY <1>2, <1>5, <2>3, DieReads
      <3> QED BY <1>2, <1>5, <2>1, <3>1, DyingIs
    <2> QED BY <2>2, <2>3
  <1> HIDE DEF t
  <1>7. Rest(t, q)
    <2>1. \A r \in Queries \ {q} :
               /\ t.gen[r] = p.gen[r] /\ t.got[r] = p.got[r] /\ t.outcome[r] = p.outcome[r]
               /\ r \in t.returning => r \in p.returning
               /\ t.slot = r => p.slot = r
      BY <1>6
    <2> QED BY <1>4, <2>1, RestKept
  <1>8. GotInv(t, q) /\ t.outcome[q] # "complete"
    BY <1>4, <1>6 DEF GotInv
  <1>9. PageInv(p') /\ RowsInv(p')
    BY <1>1, <1>6, <1>7, <1>8, TeardownReads
  <1>10. w'.phase = "gone"
    BY <1>1, ReadParts, GoneIs
  <1>11. Reads(p', w')
    BY <1>9, <1>10 DEF Reads
  <1> QED BY <1>1, <1>11, ReadStep

LEMMA MessageErrorReads ==
    ASSUME IInv, ReadInv, MessageError PROVE ReadInv'
  <1> DEFINE m == Head(w.replied)
             s == Missed(p, m)
  <1>1. /\ w.replied # <<>> /\ w' = Heard(w) /\ size' = size
        /\ p' = IF p.servingQuery = Nobody THEN s ELSE Wake(Broken(s))
    BY DEF MessageError, Heard, Broken
  <1>2. p \in Pages /\ PageInv(p) /\ RowsInv(p) /\ TypeOK /\ w \in WorkerStates /\ Reads(p, w)
    BY ReadParts
  <1>3. m \in PageMessages
    BY <1>1, <1>2, TailIs DEF WorkerStates
  <1> HIDE DEF m
  <1>4. /\ s \in Pages /\ s.posted = p.posted /\ s.dead = p.dead /\ s.failure = p.failure
        /\ SameStreams(p, s)
    BY <1>2, <1>3, MissedIs
  <1> HIDE DEF s
  <1>5. CASE p.servingQuery = Nobody
    <2>1. PageInv(s) /\ RowsInv(s) /\ s.servingQuery = Nobody
      BY <1>2, <1>4, <1>5, SameReads DEF SameStreams
    <2>2. NoReader(s)
      BY <2>1, HoldersAre DEF PageInv, NoReader, Reading, Engaged
    <2>3. Reads(p', w')
      BY <1>1, <1>5, <2>1, <2>2, NoReaderReads
    <2> QED BY <1>1, <2>3, ReadStep
  <1>6. CASE p.servingQuery # Nobody
    <2> DEFINE x == Broken(s)
    <2>1. x \in Pages /\ x.failure /\ x.posted = p.posted /\ SameStreams(p, x)
      BY <1>4, BrokenIs DEF SameStreams
    <2>2. p' = Wake(x)
      BY <1>1, <1>6
    <2> HIDE DEF x
    <2>3. PageInv(p') /\ RowsInv(p') /\ Steady(p, p') /\ p'.failure
      BY <1>2, <2>1, <2>2, FailReads
    <2>4. p' \in Pages
      BY MessageErrorStep DEF IInv, TypeOK
    <2>5. Reads(p', w)
      BY <1>2, <2>3, <2>4, SteadyReads
    <2>6. /\ w'.phase = w.phase /\ w'.stopped = w.stopped /\ w'.taken = w.taken
          /\ w'.closing = w.closing
      BY <1>1, <1>2, HeardIs
    <2>7. Reads(p', w')
      BY <2>3, <2>5, <2>6 DEF Reads, StopInv, StreamInv, Unstopped
    <2> QED BY <1>1, <2>7, ReadStep
  <1> QED BY <1>5, <1>6

-----------------------------------------------------------------------------
(* Rows: what reaches the page.                                             *)

(* What is left of the answers, and what was the first.                     *)
LEMMA RepliedTail ==
    ASSUME NEW v \in WorkerStates, v.replied # <<>>
    PROVE  /\ Head(v.replied) = v.replied[1] /\ Head(v.replied) \in PageMessages
           /\ 1 \in DOMAIN v.replied
           /\ \A i \in DOMAIN Heard(v).replied :
                 /\ i \in Nat /\ i > 0 /\ i + 1 \in DOMAIN v.replied
                 /\ Heard(v).replied[i] = v.replied[i + 1]
           /\ \A i \in DOMAIN v.replied : i # 1 =>
                 /\ i \in Nat /\ i > 1 /\ i - 1 \in DOMAIN Heard(v).replied
                 /\ Heard(v).replied[i - 1] = v.replied[i]
  <1>1. v.replied \in Seq(PageMessages)
    BY DEF WorkerStates
  <1>2. Heard(v).replied = Tail(v.replied)
    BY HeardIs
  <1> QED BY <1>1, <1>2

(* The first chunk on its way is the next.                                  *)
LEMMA FlowHead ==
    ASSUME NEW v \in WorkerStates, v.replied # <<>>, Head(v.replied).type = "chunk",
           NEW q \in Queries, NEW n \in Nat, NEW k \in Nat, Flow(v, q, n, k)
    PROVE  /\ Head(v.replied) = Chunk(q, n + 1) /\ n + 1 <= k
           /\ Flow(Heard(v), q, n + 1, k)
  <1> DEFINE r == v.replied
             t == Heard(v).replied
  <1>1. /\ Head(r) = r[1] /\ 1 \in DOMAIN r
        /\ \A i \in DOMAIN t : i \in Nat /\ i > 0 /\ i + 1 \in DOMAIN r /\ t[i] = r[i + 1]
        /\ \A i \in DOMAIN r : i # 1 =>
              i \in Nat /\ i > 1 /\ i - 1 \in DOMAIN t /\ t[i - 1] = r[i]
    BY RepliedTail
  <1>2. /\ \A i \in DOMAIN r : r[i].type = "chunk" =>
              /\ r[i].n \in n + 1 .. k
              /\ \A j \in DOMAIN r : i < j /\ r[j].type = "chunk" => r[i].n < r[j].n
        /\ \A m \in n + 1 .. k : \E i \in DOMAIN r : r[i] = Chunk(q, m)
    BY DEF Flow
  <1>3. \A m : Chunk(q, m).type = "chunk" /\ Chunk(q, m).n = m
    BY DEF Chunk
  <1> HIDE DEF r, t
  <1>4. r[1].type = "chunk"
    BY <1>1 DEF r
  <1>5. r[1].n \in n + 1 .. k
    BY <1>1, <1>2, <1>4
  <1>6. n + 1 \in n + 1 .. k /\ n + 1 <= k
    BY <1>5
  <1>7. PICK i \in DOMAIN r : r[i] = Chunk(q, n + 1)
    BY <1>2, <1>6
  <1>8. i = 1
    <2>1. ASSUME i # 1 PROVE FALSE
      <3>1. 1 < i /\ r[i].type = "chunk" /\ r[i].n = n + 1
        BY <1>1, <1>3, <1>7, <2>1
      <3>2. r[1].n < n + 1
        BY <1>1, <1>2, <1>4, <3>1
      <3> QED BY <1>5, <3>2
    <2> QED BY <2>1
  <1>9. r[1] = Chunk(q, n + 1) /\ r[1].n = n + 1
    BY <1>3, <1>7, <1>8
  <1>10. ASSUME NEW x \in DOMAIN t, t[x].type = "chunk"
         PROVE  /\ t[x].n \in n + 1 + 1 .. k
                /\ \A y \in DOMAIN t : x < y /\ t[y].type = "chunk" => t[x].n < t[y].n
    <2>1. x \in Nat /\ x > 0 /\ x + 1 \in DOMAIN r /\ t[x] = r[x + 1] /\ 1 < x + 1
      BY <1>1
    <2>2. t[x].n \in n + 1 .. k
      BY <1>2, <1>10, <2>1
    <2>3. n + 1 < t[x].n
      BY <1>1, <1>2, <1>4, <1>9, <1>10, <2>1
    <2>4. t[x].n \in n + 1 + 1 .. k
      BY <2>2, <2>3
    <2>5. ASSUME NEW y \in DOMAIN t, x < y, t[y].type = "chunk" PROVE t[x].n < t[y].n
      <3>1. y \in Nat /\ y + 1 \in DOMAIN r /\ t[y] = r[y + 1] /\ x + 1 < y + 1
        BY <1>1, <2>1, <2>5
      <3> QED BY <1>2, <1>10, <2>1, <2>5, <3>1
    <2> QED BY <2>4, <2>5
  <1>11. ASSUME NEW m \in n + 1 + 1 .. k PROVE \E x \in DOMAIN t : t[x] = Chunk(q, m)
    <2>1. m \in n + 1 .. k /\ m # n + 1
      OBVIOUS
    <2>2. PICK x \in DOMAIN r : r[x] = Chunk(q, m)
      BY <1>2, <2>1
    <2>3. x # 1
      BY <1>3, <1>9, <2>1, <2>2
    <2> QED BY <1>1, <2>2, <2>3
  <1>12. Flow(Heard(v), q, n + 1, k)
    BY <1>10, <1>11 DEF Flow, t
  <1> QED BY <1>1, <1>6, <1>9, <1>12 DEF r

(* Another message hides no chunk.                                          *)
LEMMA FlowPop ==
    ASSUME NEW v \in WorkerStates, v.replied # <<>>, Head(v.replied).type # "chunk",
           NEW q \in Queries, NEW n \in Nat, NEW k \in Nat, Flow(v, q, n, k)
    PROVE  Flow(Heard(v), q, n, k)
  <1> DEFINE r == v.replied
             t == Heard(v).replied
  <1>1. /\ Head(r) = r[1] /\ 1 \in DOMAIN r
        /\ \A i \in DOMAIN t : i \in Nat /\ i > 0 /\ i + 1 \in DOMAIN r /\ t[i] = r[i + 1]
        /\ \A i \in DOMAIN r : i # 1 =>
              i \in Nat /\ i > 1 /\ i - 1 \in DOMAIN t /\ t[i - 1] = r[i]
    BY RepliedTail
  <1>2. /\ \A i \in DOMAIN r : r[i].type = "chunk" =>
              /\ r[i].n \in n + 1 .. k
              /\ \A j \in DOMAIN r : i < j /\ r[j].type = "chunk" => r[i].n < r[j].n
        /\ \A m \in n + 1 .. k : \E i \in DOMAIN r : r[i] = Chunk(q, m)
    BY DEF Flow
  <1>3. \A m : Chunk(q, m).type = "chunk"
    BY DEF Chunk
  <1>4. Head(r).type # "chunk"
    OBVIOUS
  <1> HIDE DEF r, t
  <1>5. ASSUME NEW x \in DOMAIN t, t[x].type = "chunk"
        PROVE  /\ t[x].n \in n + 1 .. k
               /\ \A y \in DOMAIN t : x < y /\ t[y].type = "chunk" => t[x].n < t[y].n
    <2>1. x \in Nat /\ x + 1 \in DOMAIN r /\ t[x] = r[x + 1]
      BY <1>1
    <2>2. ASSUME NEW y \in DOMAIN t, x < y, t[y].type = "chunk" PROVE t[x].n < t[y].n
      <3>1. y \in Nat /\ y + 1 \in DOMAIN r /\ t[y] = r[y + 1] /\ x + 1 < y + 1
        BY <1>1, <2>1, <2>2
      <3> QED BY <1>2, <1>5, <2>1, <2>2, <3>1
    <2> QED BY <1>2, <1>5, <2>1, <2>2
  <1>6. ASSUME NEW m \in n + 1 .. k PROVE \E x \in DOMAIN t : t[x] = Chunk(q, m)
    <2>1. PICK x \in DOMAIN r : r[x] = Chunk(q, m)
      BY <1>2
    <2>2. x # 1
      BY <1>1, <1>3, <1>4, <2>1
    <2> QED BY <1>1, <2>1, <2>2
  <1> QED BY <1>5, <1>6 DEF Flow, t

(* The same of the whole stream.                                            *)
LEMMA FlowingHeard ==
    ASSUME TypeOK, NEW v \in WorkerStates, v.replied # <<>>,
           NEW q \in Queries, NEW n \in Nat, Flowing(v, q, n)
    PROVE  /\ Head(v.replied).type = "chunk" =>
                 /\ Head(v.replied) = Chunk(q, n + 1) /\ n + 1 <= size[q]
                 /\ Flowing(Heard(v), q, n + 1)
           /\ Head(v.replied).type # "chunk" => Flowing(Heard(v), q, n)
           /\ /\ Head(v.replied).type = "done"
              /\ \A i \in DOMAIN v.replied : i # 1 => ~Stream(v.replied[i])
              => n = size[q]
  <1> DEFINE u == Heard(v)
  <1>1. size[q] \in Nat
    BY SizeIs
  <1>2. PICK k \in n .. size[q] :
           /\ Flow(v, q, n, k)
           /\ v.phase # "idle" => k = Out(v)
           /\ \A i \in DOMAIN v.replied : v.replied[i].type = "done" => k = size[q]
    BY DEF Flowing
  <1>3. k \in Nat /\ n <= k /\ k <= size[q]
    BY <1>1
  <1>4. u.phase = v.phase /\ u.sent = v.sent /\ Out(u) = Out(v)
    BY HeardIs DEF Out
  <1>5. \A i \in DOMAIN u.replied : u.replied[i].type = "done" => k = size[q]
    BY <1>2, RepliedTail
  <1>6. ASSUME NEW m \in Nat, Flow(u, q, m, k), m <= k PROVE Flowing(u, q, m)
    <2>1. k \in m .. size[q]
      BY <1>3, <1>6
    <2> HIDE DEF u
    <2> QED BY <1>2, <1>4, <1>5, <1>6, <2>1 DEF Flowing
  <1>7. ASSUME Head(v.replied).type = "chunk"
        PROVE  /\ Head(v.replied) = Chunk(q, n + 1) /\ n + 1 <= size[q]
               /\ Flowing(u, q, n + 1)
    <2>1. Head(v.replied) = Chunk(q, n + 1) /\ n + 1 <= k /\ Flow(u, q, n + 1, k)
      BY <1>2, <1>3, <1>7, FlowHead
    <2> HIDE DEF u
    <2> QED BY <1>1, <1>3, <1>6, <2>1
  <1>8. ASSUME Head(v.replied).type # "chunk" PROVE Flowing(u, q, n)
    <2>1. Flow(u, q, n, k)
      BY <1>2, <1>3, <1>8, FlowPop
    <2> HIDE DEF u
    <2> QED BY <1>3, <1>6, <2>1
  <1>9. ASSUME Head(v.replied).type = "done",
               \A i \in DOMAIN v.replied : i # 1 => ~Stream(v.replied[i])
        PROVE  n = size[q]
    <2>1. k = size[q] /\ v.replied[1].type = "done"
      BY <1>2, <1>9, RepliedTail
    <2>2. ASSUME n < k PROVE FALSE
      <3>1. n + 1 \in n + 1 .. k
        BY <1>3, <2>2
      <3>2. PICK i \in DOMAIN v.replied : v.replied[i] = Chunk(q, n + 1)
        BY <1>2, <3>1 DEF Flow
      <3>3. v.replied[i].type = "chunk"
        BY <3>2 DEF Chunk
      <3> QED BY <1>9, <2>1, <3>3 DEF Stream
    <2> QED BY <1>3, <2>1, <2>2
  <1> QED BY <1>7, <1>8, <1>9 DEF u

LEMMA TakenIs ==
    ASSUME NEW s \in Pages, NEW q \in Queries
    PROVE  Taken(s, q) \in Nat /\ Len(s.got[q]) \in Nat /\ Len(s.inbox) \in Nat
  <1>1. s.got[q] \in Seq(Values) /\ s.inbox \in Seq(Values)
    BY DEF Pages
  <1>2. Len(s.got[q]) \in Nat /\ Len(s.inbox) \in Nat
    BY <1>1
  <1>3. \A a, b \in Nat : a + b \in Nat
    OBVIOUS
  <1> QED BY <1>2, <1>3 DEF Taken

(* An answer finds the reader it is for.                                    *)
LEMMA AnswerFinds ==
    ASSUME NEW s \in Pages, NEW v \in WorkerStates, Agree(s, v), Reads(s, v),
           v.replied # <<>>, Stream(Head(v.replied)),
           NEW q \in Queries, s.gen[q] \in {"waiting", "rows"}, ~s.failure
    PROVE  /\ v.phase # "gone" /\ s.deferredChunk = "armed"
           /\ Head(v.replied).call = q
           /\ ~QueryPosted(s) /\ Flowing(v, q, Taken(s, q)) /\ InboxInv(s, q)
           /\ Terminal(Head(v.replied)) =>
                 \A i \in DOMAIN v.replied : i # 1 => ~Stream(v.replied[i])
  <1>1. s.gen[q] \in Engaged
    BY DEF Engaged
  <1>2. s.servingQuery = q /\ s.currentCallId = q /\ (s.dead => s.failure) /\ RowsOf(s, q)
    BY <1>1, ServingIs DEF Reads
  <1>3. v.phase # "gone" /\ PostedInv(s, v) /\ RepliedInv(s, v)
    BY <1>2 DEF Agree
  <1>4. /\ Head(v.replied) = v.replied[1] /\ 1 \in DOMAIN v.replied
        /\ \A i \in DOMAIN v.replied : i # 1 => i \in Nat /\ 1 < i
    BY RepliedTail
  <1>5. /\ Head(v.replied).call = s.currentCallId /\ s.deferredChunk = "armed"
        /\ Terminal(Head(v.replied)) =>
              \A i \in DOMAIN v.replied : i # 1 => ~Stream(v.replied[i])
    BY <1>3, <1>4 DEF RepliedInv
  <1>6. ~NoStream(v)
    BY <1>4 DEF NoStream
  <1>7. ~QueryPosted(s)
    BY <1>3, <1>6 DEF PostedInv, QueryPosted
  <1>8. StreamInv(s, v) /\ Reading(s, q)
    BY <1>3, <1>5 DEF Reads, Reading
  <1>9. Flowing(v, q, Taken(s, q))
    BY <1>7, <1>8 DEF StreamInv
  <1> QED BY <1>2, <1>3, <1>5, <1>7, <1>9 DEF RowsOf

(* A chunk is handed on, or queued, and the next one follows it.            *)
LEMMA ChunkDelivers ==
    ASSUME TypeOK, NEW s \in Pages, NEW v \in WorkerStates, Agree(s, v), Reads(s, v),
           v.replied # <<>>, Head(v.replied).type = "chunk", s.deferredChunk # "none"
    PROVE  LET m == Head(v.replied)
           IN  Reads(Wake(Queued(s, [call |-> m.call, n |-> m.n])), Heard(v))
  <1> DEFINE m == Head(v.replied)
             e == [call |-> m.call, n |-> m.n]
             t == Wake(Queued(s, e))
             u == Heard(v)
  <1>1. m \in PageMessages /\ Stream(m)
    BY RepliedTail DEF Stream
  <1>2. e \in Values
    BY <1>1, PageMessageIs DEF Values
  <1>3. ASSUME NEW q \in Queries, s.gen[q] \in {"waiting", "rows"}, ~s.failure
        PROVE  /\ s.deferredChunk = "armed" /\ ~QueryPosted(s)
               /\ e = [call |-> q, n |-> Taken(s, q) + 1]
               /\ Taken(s, q) + 1 <= size[q]
               /\ Flowing(u, q, Taken(s, q) + 1)
    <2>1. /\ s.deferredChunk = "armed" /\ m.call = q /\ ~QueryPosted(s)
          /\ Flowing(v, q, Taken(s, q))
      BY <1>1, <1>3, AnswerFinds
    <2>2. Taken(s, q) \in Nat
      BY TakenIs
    <2>3. /\ m = Chunk(q, Taken(s, q) + 1) /\ Taken(s, q) + 1 <= size[q]
          /\ Flowing(u, q, Taken(s, q) + 1)
      BY <2>1, <2>2, FlowingHeard
    <2>4. m.n = Taken(s, q) + 1
      BY <2>3 DEF Chunk
    <2> QED BY <2>1, <2>3, <2>4
  <1>4. v.phase # "gone" => s.deferredChunk = "armed"
    BY <1>1, RepliedTail DEF Agree, RepliedInv
  <1>5. /\ u.phase = v.phase /\ u.stopped = v.stopped /\ u.taken = v.taken
        /\ u.closing = v.closing
    BY HeardIs
  <1>6. PageInv(s) /\ RowsInv(s) /\ Served(s)
    BY DEF Reads, Agree
  <1> HIDE DEF m, e, u
  <1>7. t \in Pages /\ PageInv(t) /\ RowsInv(t) /\ Fed(s, t)
    BY <1>2, <1>3, <1>6, ChunkReads
  <1> HIDE DEF t
  <1>8. ASSUME u.phase # "gone", NEW r \in Queries, Reading(t, r)
        PROVE  /\ Unstopped(t, u)
               /\ ~t.failure => ~QueryPosted(t) /\ Flowing(u, r, Taken(t, r))
    <2>1. /\ s.gen[r] \in {"waiting", "rows"} /\ Taken(t, r) = Taken(s, r) + 1
          /\ t.posted = s.posted /\ (s.failure => t.failure)
      BY <1>7, <1>8 DEF Fed
    <2>2. Reading(s, r)
      BY <1>4, <1>5, <1>8, <2>1 DEF Reading
    <2>3. Unstopped(s, v)
      BY <1>5, <1>8, <2>2 DEF Reads, StopInv
    <2>4. Unstopped(t, u)
      BY <1>5, <2>1, <2>3 DEF Unstopped, QueryPosted
    <2>5. ASSUME ~t.failure PROVE ~QueryPosted(t) /\ Flowing(u, r, Taken(t, r))
      BY <1>3, <2>1, <2>5 DEF QueryPosted
    <2> QED BY <2>4, <2>5
  <1>9. Reads(t, u)
    BY <1>7, <1>8 DEF Reads, StopInv, StreamInv
  <1> QED BY <1>9 DEF t, u, e, m

(* The count comes after the last chunk.                                    *)
LEMMA CountDelivers ==
    ASSUME TypeOK, NEW s \in Pages, NEW v \in WorkerStates, Agree(s, v), Reads(s, v),
           v.replied # <<>>, Head(v.replied).type = "done", s.deferredChunk # "none"
    PROVE  Reads(EndDrain(Wake(Counted(s, [call |-> Head(v.replied).call, n |-> 0]))),
                 Heard(v))
  <1> DEFINE m == Head(v.replied)
             e == [call |-> m.call, n |-> 0]
             x == Counted(s, e)
             t == EndDrain(Wake(x))
  <1>1. m \in PageMessages /\ Stream(m) /\ Terminal(m)
    BY RepliedTail DEF Stream, Terminal
  <1>2. e \in Values
    BY <1>1, PageMessageIs DEF Values
  <1>3. /\ x \in Pages /\ Kept(s, x) /\ x.posted = s.posted /\ x.deferredChunk = "none"
        /\ x.inbox = Append(s.inbox, e) /\ x.servingQuery = s.servingQuery
        /\ x.waiters = s.waiters /\ x.outcome = s.outcome
        /\ x.got = s.got /\ x.gen = s.gen
    BY <1>2, CountedIs
  <1>4. s.inbox \in Seq(Values) /\ x.inbox # <<>>
    BY <1>2, <1>3 DEF Pages
  <1>5. ASSUME NEW q \in Queries, s.gen[q] \in {"waiting", "rows"}, ~s.failure
        PROVE  InboxInv(x, q)
    <2>1. /\ s.deferredChunk = "armed" /\ m.call = q
          /\ Flowing(v, q, Taken(s, q)) /\ InboxInv(s, q)
          /\ \A i \in DOMAIN v.replied : i # 1 => ~Stream(v.replied[i])
      BY <1>1, <1>5, AnswerFinds
    <2>2. Taken(s, q) \in Nat /\ Len(s.got[q]) \in Nat /\ Len(s.inbox) \in Nat
      BY TakenIs
    <2>3. Taken(s, q) = size[q]
      BY <2>1, <2>2, FlowingHeard
    <2>4. e = Full(q, size[q] + 1)
      <3>1. size[q] \in Nat
        BY SizeIs
      <3> QED BY <2>1, <3>1 DEF Full
    <2> HIDE DEF e, x
    <2>5. /\ DOMAIN x.inbox = DOMAIN s.inbox \cup {Len(s.inbox) + 1}
          /\ Len(x.inbox) = Len(s.inbox) + 1
          /\ \A i \in DOMAIN s.inbox : x.inbox[i] = s.inbox[i]
          /\ x.inbox[Len(s.inbox) + 1] = e
      BY <1>2, <1>3, <1>4
    <2>6. Len(s.got[q]) + (Len(s.inbox) + 1) = size[q] + 1
      <3>1. \A a, b, c \in Nat : a + b = c => a + (b + 1) = c + 1
        OBVIOUS
      <3>2. size[q] \in Nat /\ Len(s.got[q]) + Len(s.inbox) = size[q]
        BY <2>3, SizeIs DEF Taken
      <3> QED BY ZenonT(60), <2>2, <3>1, <3>2
    <2>7. \A i \in DOMAIN x.inbox : x.inbox[i] = Full(q, Len(x.got[q]) + i)
      <3>1. \A i \in DOMAIN s.inbox : x.inbox[i] = Full(q, Len(x.got[q]) + i)
        BY <1>3, <2>1, <2>5 DEF InboxInv
      <3>2. x.inbox[Len(s.inbox) + 1] = Full(q, Len(x.got[q]) + (Len(s.inbox) + 1))
        BY <1>3, <2>4, <2>5, <2>6
      <3> QED BY <2>5, <3>1, <3>2
    <2>8. Taken(x, q) = size[q] + 1
      BY <1>3, <2>5, <2>6 DEF Taken
    <2> QED BY <1>3, <2>7, <2>8 DEF InboxInv
  <1>6. PageInv(s) /\ RowsInv(s) /\ Served(s)
    BY DEF Reads, Agree
  <1> HIDE DEF m, e, x
  <1>7. PageInv(t) /\ RowsInv(t) /\ NoReader(t)
    BY <1>3, <1>4, <1>5, <1>6, EndReads
  <1> HIDE DEF t
  <1>8. Reads(t, Heard(v))
    BY <1>7, NoReaderReads
  <1> QED BY <1>8 DEF t, x, e, m

(* The query is refused.                                                    *)
LEMMA ErrorDelivers ==
    ASSUME TypeOK, NEW s \in Pages, NEW v \in WorkerStates, Agree(s, v), Reads(s, v),
           v.replied # <<>>, Head(v.replied).type = "error", s.deferredChunk # "none"
    PROVE  Reads(EndDrain(Wake(Rejected(s))), Heard(v))
  <1> DEFINE x == Rejected(s)
             t == EndDrain(Wake(x))
  <1>1. Stream(Head(v.replied))
    BY DEF Stream
  <1>2. /\ x \in Pages /\ Kept(s, x) /\ x.posted = s.posted /\ x.deferredChunk = "failed"
        /\ x.inbox = s.inbox /\ x.servingQuery = s.servingQuery
        /\ x.waiters = s.waiters /\ x.outcome = s.outcome
        /\ x.got = s.got /\ x.gen = s.gen
    BY RejectedIs
  <1> HIDE DEF x
  <1>3. ASSUME NEW q \in Queries, s.gen[q] \in {"waiting", "rows"}, ~s.failure
        PROVE  InboxInv(x, q)
    <2>1. s.deferredChunk = "armed" /\ InboxInv(s, q)
      BY <1>1, <1>3, AnswerFinds
    <2> QED BY <1>2, <2>1 DEF InboxInv, Taken
  <1>4. PageInv(s) /\ RowsInv(s) /\ Served(s)
    BY DEF Reads, Agree
  <1>5. PageInv(t) /\ RowsInv(t) /\ NoReader(t)
    BY <1>2, <1>3, <1>4, EndReads
  <1> HIDE DEF t
  <1>6. Reads(t, Heard(v))
    BY <1>5, NoReaderReads
  <1> QED BY <1>6 DEF t, x

(* An answer to something else takes nothing from the stream.               *)
LEMMA OtherHeard ==
    ASSUME TypeOK, NEW s \in Pages, NEW v \in WorkerStates, Reads(s, v),
           v.replied # <<>>, ~Stream(Head(v.replied))
    PROVE  Reads(s, Heard(v))
  <1> DEFINE u == Heard(v)
  <1>1. /\ u.phase = v.phase /\ u.stopped = v.stopped /\ u.taken = v.taken
        /\ u.closing = v.closing
    BY HeardIs
  <1>2. \A q \in Queries : Flowing(v, q, Taken(s, q)) => Flowing(u, q, Taken(s, q))
    BY TakenIs, FlowingHeard DEF Stream
  <1> HIDE DEF u
  <1>3. Reads(s, u)
    BY <1>1, <1>2 DEF Reads, StopInv, StreamInv, Unstopped
  <1> QED BY <1>3 DEF u

LEMMA DeliverReads ==
    ASSUME IInv, ReadInv, Deliver PROVE ReadInv'
  <1> DEFINE m == Head(w.replied)
  <1>1. /\ w.replied # <<>> /\ p' = OnMessage(p, m) /\ w' = Heard(w) /\ size' = size
    BY DEF Deliver, Heard
  <1>2. /\ TypeOK /\ p \in Pages /\ w \in WorkerStates /\ Agree(p, w) /\ Reads(p, w)
        /\ PageInv(p) /\ RowsInv(p)
    BY ReadParts
  <1>3. m \in PageMessages /\ m = w.replied[1] /\ 1 \in DOMAIN w.replied
    BY <1>1, <1>2, RepliedTail
  <1>4. p' \in Pages
    BY DeliverStep DEF IInv, TypeOK
  <1>5. SUFFICES Reads(p', w')
    BY <1>1, <1>5, ReadStep
  <1>6. CASE ~Stream(m)
    <2>1. m.type \in {"verdict", "verdict-error", "closed"}
      BY <1>3, <1>6, PageMessageIs DEF Stream
    <2>2. \/ p' = [p EXCEPT !.verdict[m.call] = "settled"]
          \/ p' = [p EXCEPT !.close = "closed"]
      BY <1>1, <1>2, <1>3, <2>1, OnMessageIs
    <2>3. /\ SameStreams(p, p') /\ p'.failure = p.failure /\ p'.dead = p.dead
          /\ p'.posted = p.posted
      BY <1>2, <2>2 DEF Pages, SameStreams
    <2>4. PageInv(p') /\ RowsInv(p')
      BY <1>2, <1>4, <2>3, SameReads
    <2>5. Steady(p, p')
      BY <2>3 DEF Steady, SameStreams, Reading, Taken
    <2>6. Reads(p', w)
      BY <1>2, <1>4, <2>4, <2>5, SteadyReads
    <2> QED BY <1>1, <1>2, <1>4, <1>6, <2>6, OtherHeard
  <1>7. CASE Stream(m) /\ (p.deferredChunk = "none" \/ m.call # p.currentCallId)
    <2>1. p' = p
      BY <1>1, <1>2, <1>3, <1>7, OnMessageIs
    <2>2. w.phase = "gone"
      BY <1>2, <1>3, <1>7 DEF Agree, RepliedInv
    <2>3. w'.phase = "gone"
      BY <1>1, <1>2, <2>2, HeardIs
    <2> QED BY <1>2, <2>1, <2>3 DEF Reads
  <1>8. CASE Stream(m) /\ p.deferredChunk # "none" /\ m.call = p.currentCallId
    <2>1. CASE m.type = "chunk"
      <3>1. p' = Wake(Queued(p, [call |-> m.call, n |-> m.n]))
        BY <1>1, <1>2, <1>3, <1>8, <2>1, OnMessageIs
      <3> QED BY <1>1, <1>2, <1>8, <2>1, <3>1, ChunkDelivers
    <2>2. CASE m.type = "done"
      <3>1. p' = EndDrain(Wake(Counted(p, [call |-> m.call, n |-> 0])))
        BY <1>1, <1>2, <1>3, <1>8, <2>2, OnMessageIs
      <3> QED BY <1>1, <1>2, <1>8, <2>2, <3>1, CountDelivers
    <2>3. CASE m.type = "error"
      <3>1. p' = EndDrain(Wake(Rejected(p)))
        BY <1>1, <1>2, <1>3, <1>8, <2>3, OnMessageIs
      <3> QED BY <1>1, <1>2, <1>8, <2>3, <3>1, ErrorDelivers
    <2> QED BY <1>8, <2>1, <2>2, <2>3 DEF Stream
  <1> QED BY <1>6, <1>7, <1>8

-----------------------------------------------------------------------------
(* Rows: the worker.                                                        *)

(* Nothing but a chunk moves the flow.                                      *)
LEMMA FlowAppend ==
    ASSUME NEW v \in WorkerStates, NEW u \in WorkerStates, NEW m \in PageMessages,
           m.type # "chunk", u.replied = Append(v.replied, m),
           NEW q, NEW n, NEW k, Flow(v, q, n, k)
    PROVE  Flow(u, q, n, k)
  <1>1. v.replied \in Seq(PageMessages)
    BY DEF WorkerStates
  <1>2. /\ DOMAIN u.replied = DOMAIN v.replied \cup {Len(v.replied) + 1}
        /\ \A i \in DOMAIN v.replied : u.replied[i] = v.replied[i]
        /\ u.replied[Len(v.replied) + 1] = m
    BY <1>1
  <1>3. \A i \in DOMAIN u.replied : u.replied[i].type = "chunk" => i \in DOMAIN v.replied
    BY <1>2
  <1> QED BY <1>2, <1>3 DEF Flow

(* The worker goes on and lets no chunk out.                                *)
LEMMA FlowingQuiet ==
    ASSUME NEW v \in WorkerStates, NEW u \in WorkerStates, NEW q \in Queries, NEW n,
           Flowing(v, q, n),
           u.phase # "idle" => v.phase # "idle" /\ Out(u) = Out(v),
           u.phase = "turn" => u.sent = 0,
           u.phase \in {"taking", "back"} => u.sent > 0,
           u.phase # "idle" => u.sent <= size[q],
           \/ u.replied = v.replied
           \/ \E m \in PageMessages :
                 m.type \notin {"chunk", "done"} /\ u.replied = Append(v.replied, m)
    PROVE  Flowing(u, q, n)
  <1>1. PICK k \in n .. size[q] :
           /\ Flow(v, q, n, k)
           /\ v.phase # "idle" => k = Out(v)
           /\ \A i \in DOMAIN v.replied : v.replied[i].type = "done" => k = size[q]
    BY DEF Flowing
  <1>2. /\ Flow(u, q, n, k)
        /\ \A i \in DOMAIN u.replied : u.replied[i].type = "done" => k = size[q]
    <2>1. CASE u.replied = v.replied
      BY <1>1, <2>1 DEF Flow
    <2>2. CASE u.replied # v.replied
      <3>1. PICK m \in PageMessages :
               m.type \notin {"chunk", "done"} /\ u.replied = Append(v.replied, m)
        BY <2>2
      <3>2. v.replied \in Seq(PageMessages)
        BY DEF WorkerStates
      <3>3. /\ DOMAIN u.replied = DOMAIN v.replied \cup {Len(v.replied) + 1}
            /\ \A i \in DOMAIN v.replied : u.replied[i] = v.replied[i]
            /\ u.replied[Len(v.replied) + 1] = m
        BY <3>1, <3>2
      <3>4. Flow(u, q, n, k)
        BY <1>1, <3>1, FlowAppend
      <3> QED BY <1>1, <3>1, <3>3, <3>4
    <2> QED BY <2>1, <2>2
  <1> QED BY <1>1, <1>2 DEF Flowing

(* The last answer, after the last row.                                     *)
LEMMA FlowingDone ==
    ASSUME TypeOK, NEW v \in WorkerStates, NEW u \in WorkerStates, NEW q \in Queries, NEW n,
           Flowing(v, q, n), v.phase = "running", v.sent = size[q],
           u.phase = "idle", NEW m \in PageMessages, m.type # "chunk",
           u.replied = Append(v.replied, m)
    PROVE  Flowing(u, q, n)
  <1>1. PICK k \in n .. size[q] : Flow(v, q, n, k) /\ k = Out(v)
    BY DEF Flowing
  <1>2. k = size[q]
    BY <1>1 DEF Out
  <1>3. Flow(u, q, n, k)
    BY <1>1, FlowAppend
  <1> QED BY <1>1, <1>2, <1>3 DEF Flowing

(* A chunk let out is the next.                                             *)
LEMMA FlowingSent ==
    ASSUME TypeOK, NEW v \in WorkerStates, NEW u \in WorkerStates, NEW q \in Queries,
           NEW n \in Nat,
           Flowing(v, q, n), NoTerminal(v), v.phase = "back", u.phase = "running",
           u.sent = v.sent,
           u.replied = Append(v.replied, Chunk(q, v.sent))
    PROVE  Flowing(u, q, n)
  <1> DEFINE k == v.sent - 1
             m == Chunk(q, v.sent)
             r == v.replied
             t == u.replied
  <1>1. size[q] \in Nat /\ v.sent \in Nat /\ v.sent > 0 /\ v.sent <= size[q]
    BY SizeIs DEF WorkerStates, Flowing
  <1>2. k \in n .. size[q] /\ Flow(v, q, n, k)
    BY DEF Flowing, Out
  <1>3. k \in Nat /\ n <= k /\ v.sent = k + 1 /\ k + 1 \in n .. size[q]
    BY <1>1, <1>2
  <1>4. m.type = "chunk" /\ m.n = v.sent /\ m \in PageMessages
    BY <1>1, ChunkIs
  <1>5. r \in Seq(PageMessages)
    BY DEF WorkerStates
  <1>6. /\ DOMAIN t = DOMAIN r \cup {Len(r) + 1}
        /\ \A i \in DOMAIN r : t[i] = r[i] /\ i < Len(r) + 1 /\ i \in Nat
        /\ t[Len(r) + 1] = m /\ Len(r) + 1 \in Nat
    BY <1>4, <1>5
  <1>7. /\ \A i \in DOMAIN r : r[i].type = "chunk" =>
              /\ r[i].n \in n + 1 .. k
              /\ \A j \in DOMAIN r : i < j /\ r[j].type = "chunk" => r[i].n < r[j].n
        /\ \A x \in n + 1 .. k : \E i \in DOMAIN r : r[i] = Chunk(q, x)
    BY <1>2 DEF Flow
  <1> DEFINE l == Len(r) + 1
  <1> HIDE DEF k, m, r, t, l
  <1>8. /\ DOMAIN t = DOMAIN r \cup {l} /\ t[l] = m /\ l \in Nat
        /\ \A i \in DOMAIN r : t[i] = r[i] /\ i < l /\ i \in Nat
    BY <1>6 DEF l
  <1>9. ASSUME NEW i \in DOMAIN t, t[i].type = "chunk"
        PROVE  /\ t[i].n \in n + 1 .. k + 1
               /\ \A j \in DOMAIN t : i < j /\ t[j].type = "chunk" => t[i].n < t[j].n
    <2>1. CASE i \in DOMAIN r
      <3>1. r[i].type = "chunk" /\ t[i] = r[i]
        BY <1>8, <1>9, <2>1
      <3>2. r[i].n \in n + 1 .. k
        BY <1>7, <2>1, <3>1
      <3>3. r[i].n \in n + 1 .. k + 1 /\ r[i].n < v.sent
        BY <1>3, <3>2
      <3>4. ASSUME NEW j \in DOMAIN t, i < j, t[j].type = "chunk" PROVE t[i].n < t[j].n
        <4>1. CASE j \in DOMAIN r
          BY <1>7, <1>8, <2>1, <3>1, <3>4, <4>1
        <4>2. CASE j = l
          BY <1>4, <1>8, <3>1, <3>3, <4>2
        <4> QED BY <1>8, <4>1, <4>2
      <3> QED BY <3>1, <3>3, <3>4
    <2>2. CASE i = l
      <3>1. t[i].n = v.sent /\ v.sent \in n + 1 .. k + 1
        BY <1>3, <1>4, <1>8, <2>2
      <3>2. \A j \in DOMAIN t : ~(i < j)
        BY <1>8, <2>2
      <3> QED BY <3>1, <3>2
    <2> QED BY <1>8, <2>1, <2>2
  <1>10. ASSUME NEW x \in n + 1 .. k + 1 PROVE \E i \in DOMAIN t : t[i] = Chunk(q, x)
    <2>1. CASE x = k + 1
      BY <1>3, <1>8, <2>1 DEF m
    <2>2. CASE x # k + 1
      <3>1. x \in n + 1 .. k
        BY <1>3, <2>2
      <3> QED BY <1>7, <1>8, <3>1
    <2> QED BY <2>1, <2>2
  <1>11. Flow(u, q, n, k + 1)
    BY <1>9, <1>10 DEF Flow, t
  <1>12. \A i \in DOMAIN t : t[i].type # "done"
    BY <1>4, <1>8 DEF NoTerminal, Terminal, r
  <1>13. Out(u) = k + 1
    BY <1>3 DEF Out
  <1> QED BY <1>1, <1>3, <1>11, <1>12, <1>13 DEF Flowing, t

(* The worker's query is the reader's, and no slot stops it.                *)
LEMMA ReaderCalled ==
    ASSUME IInv, ReadInv, w.phase \notin {"idle", "gone"}, NEW q \in Queries, Reading(p, q)
    PROVE  w.call = q /\ p.slot # q
  <1>1. /\ p \in Pages /\ w \in WorkerStates /\ Agree(p, w) /\ PageInv(p) /\ RowsInv(p)
    BY ReadParts
  <1>2. p.gen[q] \in Engaged /\ p.gen[q] \notin {"draining", "ended"}
    BY DEF Reading, Engaged
  <1>3. p.currentCallId = q /\ Suspended(p, q)
    BY <1>1, <1>2, ServingIs
  <1>4. w.call = p.currentCallId
    BY <1>1, AgreeCall
  <1> QED BY <1>2, <1>3, <1>4 DEF Suspended

(* A step of the worker alone, judged by what it lets out.                  *)
LEMMA WorkerReads ==
    ASSUME IInv, ReadInv, w.phase # "gone", p' = p, size' = size,
           w'.closing = w.closing, w'.stopped = w.stopped,
           w'.phase = "back" /\ w'.taken = "stopped" =>
               w.stopped \/ (w.phase = "back" /\ w.taken = "stopped"),
           \A q \in Queries :
               Reading(p, q) /\ Unstopped(p, w) /\ Flowing(w, q, Taken(p, q))
                  /\ ~QueryPosted(p)
                  => Flowing(w', q, Taken(p, q))
    PROVE  ReadInv'
  <1>1. PageInv(p) /\ RowsInv(p) /\ StopInv(p, w) /\ StreamInv(p, w)
    BY ReadParts
  <1>2. StopInv(p, w')
    BY <1>1 DEF StopInv, Unstopped
  <1>3. StreamInv(p, w')
    BY <1>1 DEF StopInv, StreamInv
  <1>4. Reads(p', w')
    BY <1>1, <1>2, <1>3 DEF Reads
  <1> QED BY <1>4, ReadStep

LEMMA BeginQueryReads ==
    ASSUME IInv, ReadInv, BeginQuery PROVE ReadInv'
  <1>1. /\ w.phase = "turn" /\ w' = [w EXCEPT !.phase = "running"]
        /\ p' = p /\ size' = size
    BY DEF BeginQuery
  <1>2. w \in WorkerStates /\ w' \in WorkerStates
    BY ReadParts, BeginQueryStep DEF IInv, TypeOK
  <1>3. /\ w'.phase = "running" /\ w'.sent = w.sent /\ w'.stopped = w.stopped
        /\ w'.closing = w.closing /\ w'.taken = w.taken /\ w'.replied = w.replied
    BY <1>1, <1>2 DEF WorkerStates
  <1>4. Out(w') = Out(w)
    BY <1>1, <1>3 DEF Out
  <1>5. ASSUME NEW q \in Queries, Flowing(w, q, Taken(p, q))
        PROVE  Flowing(w', q, Taken(p, q))
    <2>1. w.sent <= size[q]
      BY <1>1, <1>5 DEF Flowing
    <2> QED BY <1>1, <1>2, <1>3, <1>4, <1>5, <2>1, FlowingQuiet
  <1> QED BY <1>1, <1>3, <1>5, WorkerReads

LEMMA StepChunkReads ==
    ASSUME IInv, ReadInv, StepChunk PROVE ReadInv'
  <1> DEFINE u == Parked(w)
  <1>1. /\ w.phase = "running" /\ w.sent < size[w.call] /\ w' = ReleaseSqlite(u)
        /\ p' = p /\ size' = size
    BY DEF StepChunk, Parked
  <1>2. w \in WorkerStates /\ w' \in WorkerStates /\ TypeOK
    BY ReadParts, StepChunkStep DEF IInv, TypeOK
  <1>3. /\ u \in WorkerStates /\ u.phase = "taking" /\ u.sent = w.sent + 1
        /\ u.stopped = w.stopped /\ u.closing = w.closing /\ u.replied = w.replied
    BY <1>2, ParkedIs
  <1> HIDE DEF u
  <1>4. Aside(u, w')
    BY <1>1, <1>3, ReleaseIs DEF OutOfLine
  <1>5. /\ w'.phase = "taking" /\ w'.sent = w.sent + 1 /\ w'.stopped = w.stopped
        /\ w'.closing = w.closing /\ w'.replied = w.replied
    BY <1>3, <1>4 DEF Aside
  <1>6. w.sent \in Nat
    BY <1>2 DEF WorkerStates
  <1>7. Out(w') = Out(w)
    BY <1>1, <1>5, <1>6 DEF Out
  <1>8. ASSUME NEW q \in Queries, Reading(p, q), Flowing(w, q, Taken(p, q))
        PROVE  Flowing(w', q, Taken(p, q))
    <2>1. w.call = q
      BY <1>1, <1>8, ReaderCalled
    <2>2. w.sent + 1 <= size[q] /\ w.sent + 1 > 0
      BY <1>1, <1>2, <1>6, <2>1, SizeIs
    <2> QED BY <1>1, <1>2, <1>5, <1>7, <1>8, <2>2, FlowingQuiet
  <1> QED BY <1>1, <1>5, <1>8, WorkerReads

LEMMA TakeReads ==
    ASSUME IInv, ReadInv, Take PROVE ReadInv'
  <1> DEFINE u == Taking(w)
  <1>1. /\ w.phase = "taking" /\ (w.credits > 0 \/ w.stopped)
        /\ w' = HoldSqlite(u, w.call) /\ p' = p /\ size' = size
    BY DEF Take, Taking
  <1>2. w \in WorkerStates /\ w' \in WorkerStates /\ MutexInv(w)
    BY <1>1, ReadParts, TakeStep DEF IInv, TypeOK
  <1>3. /\ u \in WorkerStates /\ u.phase = "back" /\ u.sent = w.sent
        /\ u.stopped = w.stopped /\ u.taken = (IF w.stopped THEN "stopped" ELSE "go")
        /\ u.closing = w.closing /\ u.replied = w.replied
    BY <1>1, <1>2, TakingIs
  <1> HIDE DEF u
  <1>4. w.call \in Holders
    BY <1>1, <1>2 DEF MutexInv, Holders
  <1>5. Aside(u, w')
    BY <1>1, <1>3, <1>4, HoldIs DEF InLine
  <1>6. /\ w'.phase = "back" /\ w'.sent = w.sent /\ w'.stopped = w.stopped
        /\ w'.taken = "stopped" => w.stopped
        /\ w'.closing = w.closing /\ w'.replied = w.replied
    BY <1>3, <1>5 DEF Aside
  <1>7. Out(w') = Out(w)
    BY <1>1, <1>6 DEF Out
  <1>8. ASSUME NEW q \in Queries, Flowing(w, q, Taken(p, q))
        PROVE  Flowing(w', q, Taken(p, q))
    <2>1. w.sent <= size[q] /\ w.sent > 0
      BY <1>1, <1>8 DEF Flowing
    <2> QED BY <1>1, <1>2, <1>6, <1>7, <1>8, <2>1, FlowingQuiet
  <1> QED BY <1>1, <1>6, <1>8, WorkerReads

(* The last answer: the rows are over, or the reader is told otherwise.     *)
LEMMA AnswerReads ==
    ASSUME IInv, ReadInv, w.phase \in {"running", "back"}, w.holder = w.call,
           NEW m \in PageMessages, m.type \in {"done", "error"},
           w' = EndQuery(Reply(w, m)), p' = p, size' = size,
           \A q \in Queries : Reading(p, q) /\ Unstopped(p, w) /\ ~QueryPosted(p) =>
               m.type = "error" \/ (w.phase = "running" /\ w.sent = size[q])
    PROVE  ReadInv'
  <1>1. w \in WorkerStates /\ MutexInv(w) /\ TypeOK
    BY ReadParts
  <1>2. /\ w' \in WorkerStates /\ w'.phase = "idle" /\ w'.stopped = w.stopped
        /\ w'.closing = w.closing /\ w'.replied = Append(w.replied, m)
    BY <1>1, AnsweredIs
  <1>3. ASSUME NEW q \in Queries, Reading(p, q), Unstopped(p, w), ~QueryPosted(p),
               Flowing(w, q, Taken(p, q))
        PROVE  Flowing(w', q, Taken(p, q))
    <2>1. CASE m.type = "error"
      BY <1>1, <1>2, <1>3, <2>1, FlowingQuiet
    <2>2. CASE w.phase = "running" /\ w.sent = size[q]
      BY <1>1, <1>2, <1>3, <2>2, FlowingDone
    <2> QED BY <1>3, <2>1, <2>2
  <1> QED BY <1>2, <1>3, WorkerReads

LEMMA SendChunkReads ==
    ASSUME IInv, ReadInv, SendChunk PROVE ReadInv'
  <1>1. /\ w.phase = "back" /\ w.holder = w.call /\ p' = p /\ size' = size
        /\ w' = IF w.taken = "stopped" THEN Answer(w)
                ELSE Reply(Sending(w), Chunk(w.call, w.sent))
    BY DEF SendChunk, Sending, Chunk
  <1>2. w \in WorkerStates /\ MutexInv(w) /\ Agree(p, w) /\ TypeOK /\ p \in Pages
    BY <1>1, ReadParts
  <1>3. w.call \in Queries
    BY <1>1, <1>2, HoldingClear
  <1>4. CASE w.taken = "stopped"
    <2>1. FinalWord(w) \in PageMessages /\ Terminal(FinalWord(w)) /\ w' = EndQuery(Reply(w, FinalWord(w)))
      BY <1>1, <1>2, <1>3, <1>4, LastIs
    <2>2. \A q \in Queries : Reading(p, q) /\ Unstopped(p, w) /\ ~QueryPosted(p) =>
              FinalWord(w).type = "error"
      BY <1>1, <1>4 DEF Unstopped, FinalWord
    <2>3. FinalWord(w).type \in {"done", "error"}
      BY <2>1 DEF Terminal
    <2> QED BY <1>1, <2>1, <2>2, <2>3, AnswerReads
  <1>5. CASE w.taken # "stopped"
    <2>1. /\ w' \in WorkerStates /\ w'.phase = "running" /\ w'.sent = w.sent
          /\ w'.stopped = w.stopped /\ w'.closing = w.closing
          /\ w'.replied = Append(w.replied, Chunk(w.call, w.sent))
      BY <1>1, <1>2, <1>3, <1>5, SentIs
    <2>2. NoTerminal(w)
      BY <1>1, <1>2, AgreeCall
    <2>3. ASSUME NEW q \in Queries, Reading(p, q), Flowing(w, q, Taken(p, q))
          PROVE  Flowing(w', q, Taken(p, q))
      <3>1. w.call = q
        BY <1>1, <2>3, ReaderCalled
      <3>2. Taken(p, q) \in Nat
        BY <1>2, TakenIs
      <3> QED BY <1>1, <1>2, <2>1, <2>2, <2>3, <3>1, <3>2, FlowingSent
    <2> QED BY <1>1, <2>1, <2>3, WorkerReads
  <1> QED BY <1>4, <1>5

LEMMA StepEndReads ==
    ASSUME IInv, ReadInv, StepEnd PROVE ReadInv'
  <1>1. /\ w.phase = "running" /\ w' = Answer(w) /\ p' = p /\ size' = size
        /\ w.stopped \/ w.sent = size[w.call] \/ p.slot = w.call
    BY DEF StepEnd
  <1>2. w \in WorkerStates /\ MutexInv(w)
    BY <1>1, ReadParts
  <1>3. w.holder = w.call /\ w.call \in Queries
    BY <1>1, <1>2 DEF MutexInv
  <1>4. FinalWord(w) \in PageMessages /\ Terminal(FinalWord(w)) /\ w' = EndQuery(Reply(w, FinalWord(w)))
    BY <1>1, <1>2, <1>3, LastIs
  <1>5. ASSUME NEW q \in Queries, Reading(p, q), Unstopped(p, w), ~QueryPosted(p)
        PROVE  FinalWord(w).type = "error" \/ (w.phase = "running" /\ w.sent = size[q])
    <2>1. w.call = q /\ p.slot # q
      BY <1>1, <1>5, ReaderCalled
    <2>2. w.stopped => w.closing
      BY <1>5 DEF Unstopped
    <2> QED BY <1>1, <2>1, <2>2 DEF FinalWord
  <1>6. FinalWord(w).type \in {"done", "error"}
    BY <1>4 DEF Terminal
  <1> QED BY <1>1, <1>3, <1>4, <1>5, <1>6, AnswerReads

LEMMA StepErrorReads ==
    ASSUME IInv, ReadInv, StepError PROVE ReadInv'
  <1> DEFINE m == [type |-> "error", call |-> w.call, n |-> 0]
  <1>1. w.phase = "running" /\ w' = EndQuery(Reply(w, m)) /\ p' = p /\ size' = size
    BY DEF StepError
  <1>2. w \in WorkerStates /\ MutexInv(w)
    BY <1>1, ReadParts
  <1>3. w.holder = w.call /\ w.call \in Queries
    BY <1>1, <1>2 DEF MutexInv
  <1>4. m \in PageMessages /\ m.type = "error"
    BY <1>3 DEF PageMessages
  <1> HIDE DEF m
  <1> QED BY <1>1, <1>3, <1>4, AnswerReads

(* An answer to something else, in whatever phase.                          *)
LEMMA AsideReads ==
    ASSUME IInv, ReadInv, w.phase # "gone", p' = p, size' = size, w' \in WorkerStates,
           w'.phase = w.phase, w'.sent = w.sent, w'.stopped = w.stopped,
           w'.taken = w.taken, w'.closing = w.closing,
           NEW m \in PageMessages, ~Stream(m), w'.replied = Append(w.replied, m)
    PROVE  ReadInv'
  <1>1. w \in WorkerStates
    BY ReadParts
  <1>2. Out(w') = Out(w)
    BY DEF Out
  <1>3. m.type \notin {"chunk", "done"}
    BY DEF Stream
  <1>4. ASSUME NEW q \in Queries, Flowing(w, q, Taken(p, q))
        PROVE  Flowing(w', q, Taken(p, q))
    <2>1. /\ w.phase = "turn" => w.sent = 0
          /\ w.phase \in {"taking", "back"} => w.sent > 0
          /\ w.phase # "idle" => w.sent <= size[q]
      BY <1>4 DEF Flowing
    <2> QED BY <1>1, <1>2, <1>3, <1>4, <2>1, FlowingQuiet
  <1> QED BY <1>4, WorkerReads

LEMMA RunVerdictReads ==
    ASSUME IInv, ReadInv, RunVerdict PROVE ReadInv'
  <1> DEFINE m == [type |-> IF w.closing THEN "verdict-error" ELSE "verdict",
                   call |-> w.holder]
             r == Reply(w, m)
  <1>1. /\ w.phase # "gone" /\ w.holder \in Verdicts /\ w' = ReleaseSqlite(r)
        /\ p' = p /\ size' = size
    BY DEF RunVerdict
  <1>2. m \in PageMessages /\ ~Stream(m) /\ w \in WorkerStates
    BY <1>1, ReadParts DEF PageMessages, Stream
  <1> HIDE DEF m
  <1>3. /\ r \in WorkerStates /\ r.phase = w.phase /\ r.sent = w.sent
        /\ r.stopped = w.stopped /\ r.taken = w.taken /\ r.closing = w.closing
        /\ r.replied = Append(w.replied, m)
    BY <1>2, ReplyIs
  <1> HIDE DEF r
  <1>4. Aside(r, w') /\ w' \in WorkerStates
    BY <1>1, <1>3, ReleaseIs DEF OutOfLine
  <1>5. /\ w'.phase = w.phase /\ w'.sent = w.sent
        /\ w'.stopped = w.stopped /\ w'.taken = w.taken /\ w'.closing = w.closing
        /\ w'.replied = Append(w.replied, m)
    BY <1>3, <1>4 DEF Aside
  <1> QED BY <1>1, <1>2, <1>4, <1>5, AsideReads

LEMMA CloseDatabaseReads ==
    ASSUME IInv, ReadInv, CloseDatabase PROVE ReadInv'
  <1> DEFINE m == [type |-> "closed"]
             c == [w EXCEPT !.closer = "closed"]
             r == ReleaseSqlite(c)
  <1>1. w.phase # "gone" /\ w' = Reply(r, m) /\ p' = p /\ size' = size
    BY DEF CloseDatabase
  <1>2. m \in PageMessages /\ ~Stream(m) /\ w \in WorkerStates
    BY ReadParts DEF PageMessages, Stream
  <1>3. c \in WorkerStates
    BY <1>2 DEF WorkerStates
  <1>4. /\ c.phase = w.phase /\ c.sent = w.sent /\ c.stopped = w.stopped
        /\ c.taken = w.taken /\ c.closing = w.closing /\ c.replied = w.replied
    BY <1>2 DEF WorkerStates
  <1> HIDE DEF m, c
  <1>5. r \in WorkerStates /\ Aside(c, r)
    BY <1>3, ReleaseIs DEF OutOfLine
  <1> HIDE DEF r
  <1>6. /\ w' \in WorkerStates /\ w'.phase = r.phase /\ w'.sent = r.sent
        /\ w'.stopped = r.stopped /\ w'.taken = r.taken /\ w'.closing = r.closing
        /\ w'.replied = Append(r.replied, m)
    BY <1>1, <1>2, <1>5, ReplyIs
  <1>7. /\ w'.phase = w.phase /\ w'.sent = w.sent
        /\ w'.stopped = w.stopped /\ w'.taken = w.taken /\ w'.closing = w.closing
        /\ w'.replied = Append(w.replied, m)
    BY <1>4, <1>5, <1>6 DEF Aside
  <1> QED BY <1>1, <1>2, <1>6, <1>7, AsideReads

(* The worker reads one message: the page's streams do not see it.          *)
LEMMA ReadKeeps ==
    ASSUME IInv, ReadInv, p.posted # <<>>
    PROVE  LET t == Read(p) IN
           /\ PageInv(t) /\ RowsInv(t)
           /\ t.failure = p.failure
           /\ \A q \in Queries : Taken(t, q) = Taken(p, q) /\ (Reading(t, q) <=> Reading(p, q))
  <1> DEFINE t == Read(p)
  <1>1. p \in Pages /\ PageInv(p) /\ RowsInv(p)
    BY ReadParts
  <1>2. /\ t \in Pages /\ Kept(p, t) /\ t.deferredChunk = p.deferredChunk
        /\ t.inbox = p.inbox /\ t.servingQuery = p.servingQuery /\ t.waiters = p.waiters
        /\ t.gen = p.gen /\ t.got = p.got /\ t.outcome = p.outcome
    BY <1>1, ReadIs
  <1> HIDE DEF t
  <1>3. SameStreams(p, t) /\ t.failure = p.failure /\ t.dead = p.dead
    BY <1>2 DEF SameStreams, Kept
  <1>4. PageInv(t) /\ RowsInv(t)
    BY <1>1, <1>2, <1>3, SameReads
  <1> QED BY <1>2, <1>3, <1>4 DEF t, Taken, Reading

(* Another message than a query: the reader's query is where it was, and no *)
(* stop catches up with it.                                                 *)
LEMMA NotedReads ==
    ASSUME IInv, ReadInv, w.phase # "gone", p.posted # <<>>, Head(p.posted).type # "query",
           p' = Read(p), size' = size, w' \in WorkerStates,
           w'.phase = w.phase, w'.sent = w.sent, w'.taken = w.taken,
           w'.replied = w.replied, w.closing => w'.closing,
           w'.stopped = w.stopped \/ w'.closing \/ Head(p.posted).type = "stop"
    PROVE  ReadInv'
  <1>1. /\ PageInv(p') /\ RowsInv(p') /\ p'.failure = p.failure
        /\ \A q \in Queries : Taken(p', q) = Taken(p, q) /\ (Reading(p', q) <=> Reading(p, q))
    BY ReadKeeps
  <1>2. p \in Pages /\ w \in WorkerStates /\ StopInv(p, w) /\ StreamInv(p, w)
    BY ReadParts
  <1>3. /\ Head(p.posted) = p.posted[1] /\ 1 \in DOMAIN p.posted
        /\ \A i \in DOMAIN p'.posted : /\ i \in Nat /\ i > 0
                                       /\ i + 1 \in DOMAIN p.posted
                                       /\ p'.posted[i] = p.posted[i + 1]
        /\ \A i \in DOMAIN p.posted : i # 1 => /\ i - 1 \in DOMAIN p'.posted
                                               /\ p'.posted[i - 1] = p.posted[i]
    BY <1>2, PostedTail
  <1>4. QueryPosted(p') <=> QueryPosted(p)
    BY <1>3 DEF QueryPosted
  <1>5. ASSUME NEW q \in Queries, Reading(p, q) PROVE Unstopped(p', w')
    <2>1. Unstopped(p, w)
      BY <1>2, <1>5 DEF StopInv
    <2>2. ASSUME NEW i \in DOMAIN p'.posted, NEW j \in DOMAIN p'.posted,
                 p'.posted[i].type = "query", i < j
          PROVE  p'.posted[j].type # "stop"
      <3>1. /\ i + 1 \in DOMAIN p.posted /\ p'.posted[i] = p.posted[i + 1]
            /\ j + 1 \in DOMAIN p.posted /\ p'.posted[j] = p.posted[j + 1]
            /\ i + 1 < j + 1
        BY <1>3, <2>2
      <3> QED BY <2>1, <2>2, <3>1 DEF Unstopped
    <2>3. ASSUME ~QueryPosted(p')
          PROVE  /\ \A i \in DOMAIN p'.posted : p'.posted[i].type # "stop"
                 /\ w'.stopped \/ (w'.phase = "back" /\ w'.taken = "stopped") => w'.closing
      <3>1. /\ \A i \in DOMAIN p.posted : p.posted[i].type # "stop"
            /\ w.stopped \/ (w.phase = "back" /\ w.taken = "stopped") => w.closing
        BY <1>4, <2>1, <2>3 DEF Unstopped
      <3> QED BY <1>3, <3>1
    <2> QED BY <2>2, <2>3 DEF Unstopped
  <1>6. Out(w') = Out(w)
    BY DEF Out
  <1>7. ASSUME NEW q \in Queries, Flowing(w, q, Taken(p, q))
        PROVE  Flowing(w', q, Taken(p, q))
    <2>1. /\ w.phase = "turn" => w.sent = 0
          /\ w.phase \in {"taking", "back"} => w.sent > 0
          /\ w.phase # "idle" => w.sent <= size[q]
      BY <1>7 DEF Flowing
    <2> QED BY <1>2, <1>6, <1>7, <2>1, FlowingQuiet
  <1>8. StopInv(p', w')
    BY <1>1, <1>5 DEF StopInv
  <1>9. StreamInv(p', w')
    BY <1>1, <1>2, <1>4, <1>7 DEF StreamInv
  <1>10. Reads(p', w')
    BY <1>1, <1>8, <1>9 DEF Reads
  <1> QED BY <1>10, ReadStep

(* The query itself: it starts with nothing on its way and no stop behind.  *)
LEMMA QueryReads ==
    ASSUME IInv, ReadInv, w.phase # "gone", p.posted # <<>>, Head(p.posted).type = "query",
           p' = Read(p), size' = size, w'.phase = "turn", w'.sent = 0, ~w'.stopped,
           w'.replied = w.replied
    PROVE  ReadInv'
  <1>1. /\ PageInv(p') /\ RowsInv(p') /\ p'.failure = p.failure
        /\ \A q \in Queries : Taken(p', q) = Taken(p, q) /\ (Reading(p', q) <=> Reading(p, q))
    BY ReadKeeps
  <1>2. /\ p \in Pages /\ w \in WorkerStates /\ StopInv(p, w) /\ StreamInv(p, w)
        /\ TypeOK /\ Agree(p, w)
    BY ReadParts
  <1>3. /\ Head(p.posted) = p.posted[1] /\ 1 \in DOMAIN p.posted
        /\ \A i \in DOMAIN p'.posted : /\ i \in Nat /\ i > 0
                                       /\ i + 1 \in DOMAIN p.posted
                                       /\ p'.posted[i] = p.posted[i + 1]
    BY <1>2, PostedTail
  <1>4. /\ QueryPosted(p) /\ NoStream(w)
        /\ \A j \in DOMAIN p.posted : p.posted[j].type = "query" => 1 = j
    BY <1>2, <1>3 DEF Agree, PostedInv, QueryPosted
  <1>5. \A i \in DOMAIN p'.posted : p'.posted[i].type # "query"
    BY <1>3, <1>4
  <1>6. ASSUME NEW q \in Queries, Reading(p, q) PROVE Unstopped(p', w')
    <2>1. Unstopped(p, w)
      BY <1>2, <1>6 DEF StopInv
    <2>2. \A i \in DOMAIN p'.posted : p'.posted[i].type # "stop"
      <3>1. \A i \in DOMAIN p'.posted : 1 < i + 1
        BY <1>3
      <3> QED BY <1>3, <2>1, <3>1 DEF Unstopped
    <2> QED BY <1>5, <2>2 DEF Unstopped
  <1>7. ASSUME NEW q \in Queries, Reading(p, q), ~p.failure
        PROVE  Flowing(w', q, Taken(p, q))
    <2>1. Taken(p, q) = 0
      BY <1>2, <1>4, <1>7 DEF StreamInv
    <2>2. size[q] \in Nat
      BY <1>2, SizeIs
    <2>3. Flow(w', q, 0, 0)
      BY <1>4 DEF Flow, NoStream, Stream
    <2>4. 0 \in 0 .. size[q] /\ 0 <= size[q] /\ Out(w') = 0
      BY <2>2 DEF Out
    <2> QED BY <1>4, <2>1, <2>3, <2>4 DEF Flowing, NoStream, Stream
  <1>8. StopInv(p', w')
    BY <1>1, <1>6 DEF StopInv
  <1>9. StreamInv(p', w')
    BY <1>1, <1>5, <1>7 DEF StreamInv, QueryPosted
  <1>10. Reads(p', w')
    BY <1>1, <1>8, <1>9 DEF Reads
  <1> QED BY <1>10, ReadStep

LEMMA RequestReads ==
    ASSUME IInv, ReadInv, Request PROVE ReadInv'
  <1> DEFINE m == Head(p.posted)
  <1>1. /\ w.phase # "gone" /\ p.posted # <<>>
        /\ w' = OnRequest(w, m) /\ p' = Read(p) /\ size' = size
    BY DEF Request, Read
  <1>2. /\ p \in Pages /\ w \in WorkerStates /\ w' \in WorkerStates
    BY ReadParts, RequestStep DEF IInv, TypeOK
  <1>3. m \in WorkerMessages
    BY <1>1, <1>2, PostedTail
  <1> HIDE DEF m
  <1>4. CASE m.type = "query"
    <2>1. PICK u \in WorkerStates :
              /\ u.phase = "turn" /\ ~u.stopped /\ u.sent = 0 /\ u.replied = w.replied
              /\ InLine(u, u.call, w')
      BY <1>1, <1>2, <1>3, <1>4, OnQueryIs
    <2>2. w'.phase = "turn" /\ ~w'.stopped /\ w'.sent = 0 /\ w'.replied = w.replied
      BY <2>1 DEF InLine, Aside
    <2> QED BY <1>1, <1>4, <2>2, QueryReads DEF m
  <1>5. CASE m.type \in {"credit", "stop"}
    <2>1. /\ w'.phase = w.phase /\ w'.sent = w.sent /\ w'.taken = w.taken
          /\ w'.replied = w.replied /\ w'.closing = w.closing
          /\ m.type = "credit" => w'.stopped = w.stopped
      BY <1>1, <1>2, <1>3, <1>5, OnNoteIs
    <2> QED BY <1>1, <1>2, <1>5, <2>1, NotedReads DEF m
  <1>6. CASE m.type = "verdict"
    <2>1. m.call \in Holders
      BY <1>3, <1>6, WorkerMessageIs DEF Holders
    <2>2. w' = HoldSqlite(w, m.call)
      BY <1>1, <1>6 DEF OnRequest
    <2>3. Aside(w, w')
      BY <1>2, <2>1, <2>2, HoldIs DEF InLine
    <2> QED BY <1>1, <1>2, <1>6, <2>3, NotedReads DEF m, Aside
  <1>7. CASE m.type = "close"
    <2>1. PICK u \in WorkerStates :
              /\ u.phase = w.phase /\ u.taken = w.taken /\ u.sent = w.sent
              /\ u.closing /\ u.replied = w.replied
              /\ w.phase # "idle" => w' = u
              /\ w.phase = "idle" => InLine(u, "closer", w')
      BY <1>1, <1>2, <1>3, <1>7, OnCloseIs
    <2>2. /\ w'.phase = w.phase /\ w'.taken = w.taken /\ w'.sent = w.sent
          /\ w'.closing /\ w'.replied = w.replied
      BY <2>1 DEF InLine, Aside
    <2> QED BY <1>1, <1>2, <1>7, <2>2, NotedReads DEF m
  <1> QED BY <1>3, <1>4, <1>5, <1>6, <1>7, WorkerMessageIs

-----------------------------------------------------------------------------
(* Rows: the theorems.                                                      *)

LEMMA InitReadInv ==
    ASSUME Init PROVE ReadInv
  <1>1. /\ p.deferredChunk = "none" /\ p.inbox = <<>> /\ p.servingQuery = Nobody
        /\ ~p.dead /\ p.waiters = <<>> /\ p.slot = Nobody /\ p.returning = {}
        /\ \A q \in Queries : p.gen[q] = "new" /\ p.got[q] = <<>> /\ p.outcome[q] = "none"
    BY DEF Init
  <1>2. ASSUME NEW q \in Queries PROVE Suspended(p, q) /\ RowsOf(p, q)
    <2>1. size[q] \in Nat
      BY TransportAssumption DEF Init
    <2>2. q # Nobody
      BY HoldersAre
    <2> QED BY <1>1, <2>1, <2>2 DEF Suspended, RowsOf, GotInv
  <1>3. PageInv(p)
    BY <1>1, <1>2, HoldersAre DEF PageInv, Engaged
  <1>4. RowsInv(p)
    BY <1>2 DEF RowsInv
  <1>5. NoReader(p)
    BY <1>1 DEF NoReader, Reading
  <1> QED BY <1>3, <1>4, <1>5, NoReaderReads DEF ReadInv

LEMMA StepReadInv ==
    ASSUME Reuse = "idle", IInv, ReadInv, [Next]_vars PROVE ReadInv'
  <1>1. CASE UNCHANGED vars
    <2>1. p' = p /\ w' = w /\ size' = size
      BY <1>1 DEF vars
    <2>2. Reads(p', w')
      BY <2>1 DEF ReadInv
    <2> QED BY <2>1, <2>2, ReadStep
  <1>2. ASSUME NEW q \in Queries, Start(q) PROVE ReadInv'
    BY <1>2, StartReads
  <1>3. ASSUME NEW q \in Queries, Pull(q) PROVE ReadInv'
    BY <1>3, PullReads
  <1>4. ASSUME NEW q \in Queries, Leave(q) PROVE ReadInv'
    BY <1>4, LeaveKeepsReads
  <1>5. ASSUME NEW q \in Queries, DrainTimeout(q) PROVE ReadInv'
    BY <1>5, DrainTimeoutReads
  <1>6. ASSUME NEW v \in Verdicts, AskVerdict(v) PROVE ReadInv'
    BY <1>6, AskVerdictReads
  <1> QED BY <1>1, <1>2, <1>3, <1>4, <1>5, <1>6, CloseReads, DeliverReads, MessageErrorReads,
             DeathReads, RequestReads, BeginQueryReads, StepChunkReads, TakeReads,
             SendChunkReads, StepEndReads, StepErrorReads, RunVerdictReads,
             CloseDatabaseReads
          DEF Next, Worker

LEMMA InvariantReadInv ==
    ASSUME Reuse = "idle" PROVE Spec => [](IInv /\ ReadInv)
  <1>1. Init => IInv /\ ReadInv
    BY InitIInv, InitReadInv
  <1>2. IInv /\ ReadInv /\ [Next]_vars => (IInv /\ ReadInv)'
    BY StepIInv, StepReadInv
  <1> QED BY <1>1, <1>2, PTL DEF Spec

(* Where a statement waits for the whole of its worker, a consumer receives *)
(* the rows of its own query, each once and in order, and the count only    *)
(* after all of them: whatever consumers leave, and whatever breaks.        *)
THEOREM RowsAreOwnAndInOrder ==
    ASSUME Reuse = "idle" PROVE Spec => []OwnRowsInOrder
  <1>1. ReadInv => OwnRowsInOrder
    BY DEF ReadInv, Reads, RowsInv, RowsOf, GotInv, Full, OwnRowsInOrder
  <1> QED BY <1>1, InvariantReadInv, PTL

(* There too, a stream that ends without an error and without being left    *)
(* has given all its rows: no late stop, no close and no other statement    *)
(* cuts it short in silence.                                                *)
THEOREM NoStreamIsCutShort ==
    ASSUME Reuse = "idle" PROVE Spec => []NoShortRead
  <1>1. IInv /\ ReadInv => NoShortRead
    <2> SUFFICES ASSUME IInv, ReadInv, NEW q \in Queries, p.outcome[q] = "complete",
                        NEW n \in 1 .. size[q]
                 PROVE  Contains(p.got[q], [call |-> q, n |-> n])
      BY DEF NoShortRead
    <2>1. p \in Pages /\ TypeOK /\ RowsInv(p)
      BY ReadParts
    <2>2. /\ Len(p.got[q]) = size[q] + 1
          /\ \A i \in DOMAIN p.got[q] : p.got[q][i] = Full(q, i)
      BY <2>1 DEF RowsInv, RowsOf, GotInv
    <2>3. p.got[q] \in Seq(Values) /\ size[q] \in Nat
      BY <2>1, SizeIs DEF Pages
    <2>4. n \in DOMAIN p.got[q] /\ n <= size[q] /\ n \in 1 .. Len(p.got[q])
      BY <2>2, <2>3
    <2>5. p.got[q][n] = [call |-> q, n |-> n]
      BY <2>2, <2>4 DEF Full
    <2> QED BY <2>4, <2>5 DEF Contains
  <1> QED BY <1>1, InvariantReadInv, PTL
=============================================================================
