--------------------------- MODULE OutputsProofs ---------------------------
(* What Outputs promises, for every number of tabs and outputs, every load, *)
(* batch size and queue size, and every choice of faults.                   *)
EXTENDS Outputs, WellFoundedInduction, TLAPS

-----------------------------------------------------------------------------
(* The sum of the queued batches. It is a recursive function: the lemmas    *)
(* say that it exists, that it is the only one, and what a batch more or a  *)
(* batch less makes of it.                                                  *)

(* A set of naturals that is not empty has a least element.                 *)
LEMMA LeastOne ==
    ASSUME NEW S, S \subseteq Nat, S # {}
    PROVE  \E k \in S : \A j \in S : k <= j
  <1>1. PICK k \in S : \A j \in S : ~(<<j, k>> \in OpToRel(<, Nat))
    BY WFMin, NatLessThanWellFounded
  <1>2. \A j \in S : ~(j < k)
    BY <1>1 DEF OpToRel
  <1> QED
    BY <1>2

SumsOf(q) ==
    {s \in [0..Len(q) -> Nat] :
        s[0] = 0 /\ \A n \in 1..Len(q) : s[n] = s[n - 1] + q[n]}

(* Every queue has its prefix sums: the shortest prefix without them would  *)
(* extend one that has them.                                                *)
LEMMA SumsExist ==
    ASSUME NEW q \in Seq(Nat)
    PROVE  SumsOf(q) # {}
  <1> DEFINE Upto(k) ==
        {s \in [0..k -> Nat] : s[0] = 0 /\ \A n \in 1..k : s[n] = s[n - 1] + q[n]}
  <1> DEFINE Bad == {k \in 0..Len(q) : Upto(k) = {}}
  <1> SUFFICES ASSUME Bad # {} PROVE FALSE
    <2>1. Len(q) \in 0..Len(q) /\ SumsOf(q) = Upto(Len(q))
      BY DEF SumsOf
    <2> QED
      BY <2>1
  <1>1. PICK k \in Bad : \A j \in Bad : k <= j
    <2>1. Bad \subseteq Nat
      OBVIOUS
    <2> HIDE DEF Bad
    <2> QED
      BY <2>1, LeastOne
  <1>2. k # 0
    <2>1. [n \in 0..0 |-> 0] \in Upto(0)
      OBVIOUS
    <2> QED
      BY <2>1
  <1>3. k - 1 \in 0..Len(q) /\ k - 1 \notin Bad
    <2>1. k \in 0..Len(q) /\ Len(q) \in Nat
      OBVIOUS
    <2> HIDE DEF Bad
    <2> QED
      BY <1>1, <1>2, <2>1
  <1>4. PICK s \in Upto(k - 1) : TRUE
    BY <1>3
  <1> DEFINE t == [n \in 0..k |-> IF n = k THEN s[k - 1] + q[k] ELSE s[n]]
  <1>5. k \in 1..Len(q) /\ q[k] \in Nat
    BY <1>2
  <1>6. t \in [0..k -> Nat]
    <2>1. \A n \in 0..k : n # k => n \in 0..(k - 1)
      BY <1>5
    <2>2. k - 1 \in 0..(k - 1) /\ s \in [0..(k - 1) -> Nat]
      BY <1>4, <1>5
    <2>3. s[k - 1] + q[k] \in Nat
      BY <1>5, <2>2
    <2> QED
      BY <2>1, <2>2, <2>3
  <1>7. t[0] = 0
    BY <1>4, <1>5
  <1>8. ASSUME NEW n \in 1..k PROVE t[n] = t[n - 1] + q[n]
    <2>1. n - 1 \in 0..k /\ n - 1 # k
      BY <1>5
    <2>2. CASE n = k
      BY <1>5, <2>1, <2>2
    <2>3. CASE n # k
      <3>1. n \in 1..k - 1
        BY <1>5, <2>3
      <3>2. s[n] = s[n - 1] + q[n]
        BY <1>4, <3>1
      <3> QED
        BY <2>1, <2>3, <3>2
    <2> QED
      BY <2>2, <2>3
  <1>9. t \in Upto(k)
    BY <1>6, <1>7, <1>8
  <1> QED
    BY <1>9

(* They are unique, and their last is what Queued returns.                  *)
LEMMA QueuedIsSum ==
    ASSUME NEW w, w.queue \in Seq(Nat), NEW s \in SumsOf(w.queue)
    PROVE  Queued(w) = s[Len(w.queue)]
  <1> DEFINE q == w.queue
  <1> DEFINE Law(f) == f = [n \in 0..Len(q) |-> IF n = 0 THEN 0 ELSE f[n - 1] + q[n]]
  <1> DEFINE c == CHOOSE f : Law(f)
  <1>1. Law(s)
    <2>1. /\ Len(q) \in Nat /\ s \in [0..Len(q) -> Nat] /\ s[0] = 0
          /\ \A n \in 1..Len(q) : s[n] = s[n - 1] + q[n]
      BY DEF SumsOf
    <2>2. \A n \in 0..Len(q) : s[n] = IF n = 0 THEN 0 ELSE s[n - 1] + q[n]
      BY <2>1
    <2> QED
      BY <2>1, <2>2
  <1>2. Law(c)
    BY <1>1
  <1>3. Queued(w) = c[Len(q)]
    BY DEF Queued
  <1> DEFINE Bad == {n \in 0..Len(q) : c[n] # s[n]}
  <1>4. Bad = {}
    <2> HIDE DEF c
    <2> SUFFICES ASSUME Bad # {} PROVE FALSE
      OBVIOUS
    <2>1. PICK n \in Bad : \A j \in Bad : n <= j
      <3>1. Bad \subseteq Nat
        OBVIOUS
      <3> HIDE DEF Bad
      <3> QED
        BY <3>1, LeastOne
    <2>2. c[n] = IF n = 0 THEN 0 ELSE c[n - 1] + q[n]
      BY <1>2
    <2>3. s[n] = IF n = 0 THEN 0 ELSE s[n - 1] + q[n]
      BY <1>1
    <2>4. n # 0 => n - 1 \in 0..Len(q) /\ n - 1 \notin Bad
      BY <2>1
    <2> QED
      BY <2>2, <2>3, <2>4
  <1>5. Len(q) \in 0..Len(q)
    OBVIOUS
  <1> HIDE DEF c
  <1> QED
    BY <1>3, <1>4, <1>5

(* Nothing queued counts nothing.                                           *)
LEMMA QueuedEmpty ==
    ASSUME NEW w, w.queue = <<>>
    PROVE  Queued(w) = 0
  <1>1. w.queue \in Seq(Nat) /\ Len(w.queue) = 0
    OBVIOUS
  <1>2. PICK s \in SumsOf(w.queue) : TRUE
    BY <1>1, SumsExist
  <1> QED
    BY <1>1, <1>2, QueuedIsSum DEF SumsOf

(* A batch at the end of the chain adds its rows.                           *)
LEMMA QueuedAppend ==
    ASSUME NEW w, NEW v, NEW rows \in Nat,
           w.queue \in Seq(Nat), v.queue = Append(w.queue, rows)
    PROVE  Queued(w) \in Nat /\ Queued(v) = Queued(w) + rows
  <1> DEFINE n == Len(w.queue)
  <1>1. PICK s \in SumsOf(w.queue) : TRUE
    BY SumsExist
  <1>2. v.queue \in Seq(Nat) /\ Len(v.queue) = n + 1 /\ v.queue[n + 1] = rows
    OBVIOUS
  <1>3. \A i \in 1..n : v.queue[i] = w.queue[i]
    OBVIOUS
  <1>4. n \in Nat /\ s \in [0..n -> Nat] /\ s[0] = 0
    BY <1>1 DEF SumsOf
  <1> DEFINE t == [i \in 0..n + 1 |-> IF i = n + 1 THEN s[n] + rows ELSE s[i]]
  <1>5. t \in [0..n + 1 -> Nat] /\ t[0] = 0
    <2>1. \A i \in 0..n + 1 : i # n + 1 => i \in 0..n
      BY <1>4
    <2>2. n \in 0..n /\ 0 \in 0..n + 1 /\ 0 # n + 1
      BY <1>4
    <2> QED
      BY SMTT(30), <1>4, <2>1, <2>2
  <1>6. ASSUME NEW i \in 1..n + 1 PROVE t[i] = t[i - 1] + v.queue[i]
    <2>1. CASE i = n + 1
      BY <1>2, <1>4, <2>1
    <2>2. CASE i # n + 1
      <3>1. i \in 1..n /\ i - 1 \in 0..n
        BY <1>4, <2>2
      <3>2. s[i] = s[i - 1] + w.queue[i]
        BY <1>1, <3>1 DEF SumsOf
      <3> QED
        BY <1>3, <1>4, <3>1, <3>2
    <2> QED
      BY <2>1, <2>2
  <1>7. t \in SumsOf(v.queue)
    <2> HIDE DEF t
    <2> QED
      BY <1>2, <1>5, <1>6 DEF SumsOf
  <1>8. Queued(w) = s[n] /\ Queued(v) = t[n + 1]
    <2> HIDE DEF t
    <2> QED
      BY <1>2, <1>7, QueuedIsSum
  <1>9. n \in 0..n + 1 /\ n + 1 \in 0..n + 1 /\ n \in 0..n
    BY <1>4
  <1>10. s[n] \in Nat /\ t[n + 1] = s[n] + rows
    BY <1>4, <1>9
  <1> HIDE DEF t
  <1> QED
    BY <1>8, <1>10

(* The first batch of the chain, done, takes its rows away.                 *)
LEMMA QueuedTail ==
    ASSUME NEW w, NEW v,
           w.queue \in Seq(Nat), w.queue # <<>>, v.queue = Tail(w.queue)
    PROVE  /\ Head(w.queue) \in Nat /\ Queued(v) \in Nat
           /\ Queued(w) = Head(w.queue) + Queued(v)
  <1> DEFINE n == Len(v.queue)
  <1>1. /\ v.queue \in Seq(Nat) /\ n \in Nat /\ Len(w.queue) = n + 1
        /\ Head(w.queue) = w.queue[1] /\ w.queue[1] \in Nat
    OBVIOUS
  <1>2. \A i \in 1..n : v.queue[i] = w.queue[i + 1]
    OBVIOUS
  <1>3. PICK s \in SumsOf(v.queue) : TRUE
    BY <1>1, SumsExist
  <1>4. s \in [0..n -> Nat] /\ s[0] = 0
    BY <1>3 DEF SumsOf
  <1> DEFINE h == w.queue[1]
             t == [i \in 0..n + 1 |-> IF i = 0 THEN 0 ELSE h + s[i - 1]]
  <1>5. t \in [0..n + 1 -> Nat] /\ t[0] = 0
    BY <1>1, <1>4
  <1>6. ASSUME NEW i \in 1..n + 1 PROVE t[i] = t[i - 1] + w.queue[i]
    <2>1. CASE i = 1
      BY <1>1, <1>4, <2>1
    <2>2. CASE i # 1
      <3>1. i - 1 \in 1..n /\ i - 2 \in 0..n /\ i - 1 \in 0..n + 1
        BY <1>1, <2>2
      <3>2. s[i - 1] = s[(i - 1) - 1] + v.queue[i - 1]
        BY <1>3, <3>1 DEF SumsOf
      <3>3. v.queue[i - 1] = w.queue[i] /\ w.queue[i] \in Nat
        BY <1>1, <1>2, <3>1
      <3>4. t[i] = h + s[i - 1] /\ t[i - 1] = h + s[i - 2]
        BY <1>1, <3>1, <2>2
      <3>5. s[i - 1] \in Nat /\ s[i - 2] \in Nat /\ h \in Nat
        BY SMTT(30), <1>1, <1>4, <3>1
      <3> HIDE DEF t, h
      <3> QED
        BY SMTT(30), <3>1, <3>2, <3>3, <3>4, <3>5
    <2> QED
      BY <2>1, <2>2
  <1>7. t \in SumsOf(w.queue)
    <2> HIDE DEF t
    <2> QED
      BY <1>1, <1>5, <1>6 DEF SumsOf
  <1>8. Queued(v) = s[n] /\ Queued(w) = t[n + 1]
    <2> HIDE DEF t
    <2> QED
      BY <1>1, <1>3, <1>7, QueuedIsSum
  <1>9. n + 1 \in 0..n + 1 /\ n \in 0..n /\ n + 1 # 0 /\ (n + 1) - 1 = n
    BY <1>1
  <1>10. s[n] \in Nat /\ t[n + 1] = h + s[n]
    BY <1>1, <1>4, <1>9
  <1> HIDE DEF t
  <1> QED
    BY <1>1, <1>8, <1>10

-----------------------------------------------------------------------------
(* The inductive invariant.                                                 *)

(* A writer's counters add up, its queue is within its bound, and rows are  *)
(* given up only after a failure or an abort.                               *)
WriterAdds(w) ==
    /\ w.given = w.written + w.notWritten + w.rows + Queued(w)
    /\ w.queuedRows = Queued(w)
    /\ w.queuedRows < QueueSize + BatchRows
    /\ w.rows < BatchRows
    /\ w.queuedRows >= QueueSize => w.rows = 0
    /\ w.running => w.queue # <<>>
    /\ w.notWritten # 0 => w.failure \/ w.aborted

(* What the progress of its output says of a writer.                        *)
WriterStage(r) ==
    /\ r.at \in {"none", "open"} /\ r.w.queuedRows >= QueueSize =>
          r.w.room \/ r.w.aborted
    /\ r.at \in {"drain", "swap", "swapped", "ok"} => r.w.rows = 0
    /\ r.at \in {"swap", "swapped", "ok"} =>
          r.w.queue = <<>> /\ ~r.w.failure /\ ~r.w.aborted
    /\ r.created = "no" => r.w.written = 0

(* A staging table holds what was written, unless an abort refused a write  *)
(* that had landed.                                                         *)
TableAgrees(o) ==
    /\ Exists(o) => /\ out[o].created = "yes"
                    /\ out[o].w.aborted \/ staging[o] = out[o].w.written
    /\ out[o].at = "none" => out[o].created = "no"

(* A table is created under its lock, which its tab holds until close() has *)
(* settled.                                                                 *)
LockCovers(o) ==
    /\ out[o].lock = "held" => Alive(o)
    /\ Alive(o) /\ out[o].created = "yes" /\ out[o].at \notin {"ok", "rejected"}
          => out[o].lock = "held"
    /\ out[o].lateDrop => out[o].at \in {"release", "rejected"}

(* A sweep is about to drop only tables whose tab is dead or whose close()  *)
(* has settled, and knows all that were orphans when it began.              *)
SweepKnows(t) ==
    LET r == tab[t]
    IN /\ r.swept \in {"no", "ask"} => r.due = {}
       /\ \A o \in r.due : ~Alive(o)
       /\ r.alive /\ r.swept \in {"second", "drop"} =>
             /\ \A o \in r.tables : out[o].created = "yes"
             /\ \A o \in r.due : Exists(o) => o \in r.tables
       /\ r.alive /\ r.swept = "drop" =>
             \A o \in r.tables : ~Alive(o) \/ out[o].at \in {"ok", "rejected"}
       /\ r.alive /\ r.swept = "yes" => \A o \in r.due : ~Exists(o)

(* What readers see is the table of an output that was swapped in whole.    *)
TargetSwapped ==
    target.of # Old =>
        /\ out[target.of].at \in {"swapped", "ok"}
        /\ target.rows = out[target.of].w.written

WritersAdd == \A o \in Outputs : WriterAdds(out[o].w)
WritersStaged == \A o \in Outputs : WriterStage(out[o])
TablesAgree == \A o \in Outputs : TableAgrees(o)
LocksCover == \A o \in Outputs : LockCovers(o)
SweepsKnow == \A t \in Tabs : SweepKnows(t)

IInv ==
    /\ TypeOK
    /\ WritersAdd /\ WritersStaged
    /\ TablesAgree
    /\ LocksCover
    /\ SweepsKnow
    /\ LiveIsSpared
    /\ TargetSwapped

-----------------------------------------------------------------------------
(* What each operation makes of a writer.                                   *)

(* Only the queue counts for what is queued.                                *)
LEMMA QueuedSame ==
    ASSUME NEW w, NEW v, v.queue = w.queue
    PROVE  Queued(v) = Queued(w)
  BY DEF Queued

(* What is queued of a writer is a number.                                  *)
LEMMA QueuedNat ==
    ASSUME NEW w \in Writers
    PROVE  Queued(w) \in Nat
  <1>1. w.queue \in Seq(Nat)
    BY DEF Writers
  <1>2. CASE w.queue = <<>>
    BY <1>2, QueuedEmpty
  <1>3. CASE w.queue # <<>>
    <2> DEFINE v == [w EXCEPT !.queue = Tail(@)]
    <2>1. v.queue = Tail(w.queue)
      BY DEF Writers
    <2> HIDE DEF v
    <2>2. /\ Head(w.queue) \in Nat /\ Queued(v) \in Nat
          /\ Queued(w) = Head(w.queue) + Queued(v)
      BY <1>1, <1>3, <2>1, QueuedTail
    <2> QED
      BY <2>2
  <1> QED
    BY <1>2, <1>3

(* flush(), called while the queue has room, leaves nothing buffered.       *)
LEMMA FlushAdds ==
    ASSUME NEW w \in Writers,
           w.given = w.written + w.notWritten + w.rows + Queued(w),
           w.queuedRows = Queued(w), w.queuedRows < QueueSize,
           w.rows <= BatchRows,
           w.notWritten # 0 => w.failure \/ w.aborted
    PROVE  /\ Flush(w) \in Writers /\ WriterAdds(Flush(w))
           /\ Flush(w).rows = 0 /\ Flush(w).queuedRows = w.queuedRows + w.rows
           /\ Flush(w) = [w EXCEPT !.queue = Flush(w).queue,
                                   !.queuedRows = Flush(w).queuedRows, !.rows = 0]
  <1>0. /\ w.queue \in Seq(Nat) /\ w.rows \in Nat /\ w.queuedRows \in Nat
        /\ w.given \in Nat /\ w.written \in Nat /\ w.notWritten \in Nat
    BY DEF Writers
  <1>a. Append(w.queue, w.rows) \in Seq(Nat) /\ w.queuedRows + w.rows \in Nat
    BY <1>0
  <1>b. Flush(w) \in Writers
    BY <1>a DEF Flush, Writers
  <1>1. /\ Flush(w).queue = Append(w.queue, w.rows)
        /\ Flush(w).queuedRows = w.queuedRows + w.rows
        /\ Flush(w).rows = 0
        /\ Flush(w).given = w.given
        /\ Flush(w).written = w.written
        /\ Flush(w).notWritten = w.notWritten
        /\ Flush(w).failure = w.failure /\ Flush(w).aborted = w.aborted
        /\ Flush(w).running = w.running
    BY DEF Flush, Writers
  <1>2. Queued(w) \in Nat /\ Queued(Flush(w)) = Queued(w) + w.rows
    <2>1. w.queue \in Seq(Nat) /\ w.rows \in Nat
      BY DEF Writers
    <2> QED
      BY <1>1, <2>1, QueuedAppend
  <1>3. Flush(w).queue # <<>>
    <2>1. Len(Append(w.queue, w.rows)) = Len(w.queue) + 1 /\ Len(w.queue) \in Nat
      BY <1>0
    <2>2. Len(Flush(w).queue) # 0
      BY <1>1, <2>1
    <2> QED
      BY <2>2
  <1>4. WriterAdds(Flush(w))
    <2>1. /\ Flush(w).given = Flush(w).written + Flush(w).notWritten
                                + Flush(w).rows + Queued(Flush(w))
          /\ Flush(w).queuedRows = Queued(Flush(w))
          /\ Flush(w).queuedRows < QueueSize + BatchRows
          /\ Flush(w).rows < BatchRows
      BY SMTT(30), <1>0, <1>1, <1>2, OutputsAssumption
    <2>2. /\ Flush(w).queuedRows >= QueueSize => Flush(w).rows = 0
          /\ Flush(w).running => Flush(w).queue # <<>>
          /\ Flush(w).notWritten # 0 => Flush(w).failure \/ Flush(w).aborted
      BY <1>1, <1>3
    <2> QED
      BY <2>1, <2>2 DEF WriterAdds
  <1>5. Flush(w) = [w EXCEPT !.queue = Flush(w).queue,
                            !.queuedRows = Flush(w).queuedRows, !.rows = 0]
    BY DEF Flush, Writers
  <1> QED
    BY <1>b, <1>1, <1>4, <1>5

(* enqueue() of a row that was not parked parks the caller when the queue   *)
(* is full.                                                                 *)
LEMMA EnqueuedAdds ==
    ASSUME NEW w \in Writers, WriterAdds(w), w.queuedRows < QueueSize
    PROVE  /\ Enqueued(w) \in Writers /\ WriterAdds(Enqueued(w))
           /\ Enqueued(w).written = w.written
           /\ Enqueued(w).aborted = w.aborted
           /\ Enqueued(w).queuedRows >= QueueSize => Enqueued(w).room
  <1> DEFINE held == [w EXCEPT !.rows = @ + 1, !.given = @ + 1]
             next == IF held.rows >= BatchRows THEN Flush(held) ELSE held
  <1>0. /\ w.rows \in Nat /\ w.queuedRows \in Nat /\ w.given \in Nat
        /\ w.written \in Nat /\ w.notWritten \in Nat
    BY DEF Writers
  <1>a. held \in Writers
    <2>1. w.rows + 1 \in Nat /\ w.given + 1 \in Nat
      BY <1>0
    <2> QED
      BY <2>1 DEF Writers
  <1>1. /\ held.queue = w.queue
        /\ held.rows = w.rows + 1 /\ held.given = w.given + 1
        /\ held.written = w.written /\ held.notWritten = w.notWritten
        /\ held.queuedRows = w.queuedRows /\ held.running = w.running
        /\ held.failure = w.failure /\ held.aborted = w.aborted
    BY DEF Writers
  <1>2. Queued(held) = Queued(w) /\ Queued(w) \in Nat
    BY <1>1, QueuedSame, QueuedNat
  <1>3. next \in Writers /\ WriterAdds(next) /\ next.written = w.written
        /\ next.aborted = w.aborted
    <2> HIDE DEF held
    <2>1. /\ held.given = held.written + held.notWritten + held.rows + Queued(held)
          /\ held.queuedRows = Queued(held) /\ held.queuedRows < QueueSize
          /\ held.rows <= BatchRows
          /\ held.notWritten # 0 => held.failure \/ held.aborted
      <3>1. /\ held.given = held.written + held.notWritten + held.rows + Queued(held)
            /\ held.queuedRows = Queued(held) /\ held.queuedRows < QueueSize
            /\ held.rows <= BatchRows
        <4>1. /\ w.given = w.written + w.notWritten + w.rows + Queued(w)
              /\ w.queuedRows = Queued(w) /\ w.rows < BatchRows
          BY DEF WriterAdds
        <4> QED
          BY <1>0, <1>1, <1>2, <4>1, OutputsAssumption
      <3>2. held.notWritten # 0 => held.failure \/ held.aborted
        BY <1>1 DEF WriterAdds
      <3> QED
        BY <3>1, <3>2
    <2>2. CASE held.rows >= BatchRows
      <3>1. Flush(held) \in Writers /\ WriterAdds(Flush(held))
        BY <1>a, <2>1, FlushAdds
      <3>2. Flush(held).written = held.written /\ Flush(held).aborted = held.aborted
        BY <1>a DEF Flush, Writers
      <3> QED
        BY <1>1, <2>2, <3>1, <3>2
    <2>3. CASE ~(held.rows >= BatchRows)
      <3>1. held.rows < BatchRows
        BY <1>0, <1>1, <2>3, OutputsAssumption
      <3>2. held.queuedRows < QueueSize + BatchRows /\ ~(held.queuedRows >= QueueSize)
        BY <1>0, <1>1, <2>1, OutputsAssumption
      <3>3. held.running => held.queue # <<>>
        BY <1>1 DEF WriterAdds
      <3>4. WriterAdds(held)
        BY <2>1, <3>1, <3>2, <3>3 DEF WriterAdds
      <3> QED
        BY <1>a, <1>1, <2>3, <3>4
    <2> QED
      BY <2>2, <2>3
  <1>4. Enqueued(w) = [next EXCEPT !.room = next.queuedRows >= QueueSize]
    BY DEF Enqueued
  <1> HIDE DEF next
  <1>b. Enqueued(w) \in Writers
    <2>1. (next.queuedRows >= QueueSize) \in BOOLEAN
      OBVIOUS
    <2> QED
      BY <1>3, <1>4, <2>1 DEF Writers
  <1>5. /\ Enqueued(w).queue = next.queue
        /\ Enqueued(w).rows = next.rows /\ Enqueued(w).given = next.given
        /\ Enqueued(w).written = next.written
        /\ Enqueued(w).notWritten = next.notWritten
        /\ Enqueued(w).queuedRows = next.queuedRows
        /\ Enqueued(w).running = next.running
        /\ Enqueued(w).failure = next.failure
        /\ Enqueued(w).aborted = next.aborted
        /\ Enqueued(w).room = (next.queuedRows >= QueueSize)
    BY <1>3, <1>4 DEF Writers
  <1>6. Queued(Enqueued(w)) = Queued(next)
    BY <1>5, QueuedSame
  <1>7. WriterAdds(Enqueued(w))
    BY <1>3, <1>5, <1>6 DEF WriterAdds
  <1> QED
    BY <1>b, <1>3, <1>5, <1>7

(* The end of a batch whose rows were added to what was written or to what  *)
(* was not.                                                                 *)
LEMMA SettledAdds ==
    ASSUME NEW w \in Writers, WriterAdds(w), w.queue # <<>>,
           NEW v \in Writers, v.queue = w.queue,
           v.queuedRows = w.queuedRows, v.rows = w.rows, v.given = w.given,
           v.written + v.notWritten = w.written + w.notWritten + Head(w.queue),
           v.notWritten # 0 => v.failure \/ v.aborted
    PROVE  /\ Settled(v) \in Writers /\ WriterAdds(Settled(v))
           /\ Settled(v).rows = v.rows /\ Settled(v).written = v.written
           /\ Settled(v).aborted = v.aborted
           /\ Settled(v).queuedRows <= v.queuedRows
           /\ Settled(v).queuedRows >= QueueSize => Settled(v).room = v.room
  <1> DEFINE next == [v EXCEPT !.queue = Tail(@),
                               !.queuedRows = @ - Head(v.queue),
                               !.running = FALSE, !.stuck = FALSE]
  <1>1. w.queue \in Seq(Nat) /\ Tail(w.queue) \in Seq(Nat)
    BY DEF Writers
  <1>2. /\ next.queue = Tail(w.queue)
        /\ next.queuedRows = w.queuedRows - Head(w.queue)
        /\ next.running = FALSE /\ next.room = v.room
        /\ next.rows = v.rows /\ next.given = v.given
        /\ next.written = v.written /\ next.notWritten = v.notWritten
        /\ next.failure = v.failure /\ next.aborted = v.aborted
    BY DEF Writers
  <1>3. /\ Head(w.queue) \in Nat /\ Queued(next) \in Nat
        /\ Queued(w) = Head(w.queue) + Queued(next)
    <2> HIDE DEF next
    <2> QED
      BY <1>1, <1>2, QueuedTail
  <1>a. /\ w.rows \in Nat /\ w.queuedRows \in Nat /\ w.given \in Nat
        /\ w.written \in Nat /\ w.notWritten \in Nat
        /\ v.written \in Nat /\ v.notWritten \in Nat
    BY DEF Writers
  <1>4. next.queuedRows = Queued(next) /\ next.queuedRows \in Nat
    <2> HIDE DEF next
    <2>1. w.queuedRows = Queued(w)
      BY DEF WriterAdds
    <2> QED
      BY <1>2, <1>3, <1>a, <2>1
  <1>5. next \in Writers
    BY <1>1, <1>2, <1>4 DEF Writers
  <1>6. WriterAdds(next)
    <2> HIDE DEF next
    <2> QED
      <3>1. /\ next.given = next.written + next.notWritten + next.rows + Queued(next)
            /\ next.queuedRows < QueueSize + BatchRows
            /\ next.rows < BatchRows
            /\ next.queuedRows >= QueueSize => next.rows = 0
        <4>1. /\ w.given = w.written + w.notWritten + w.rows + Queued(w)
              /\ w.queuedRows < QueueSize + BatchRows
              /\ w.rows < BatchRows
              /\ w.queuedRows >= QueueSize => w.rows = 0
          BY DEF WriterAdds
        <4>2. next.queuedRows <= w.queuedRows
          BY <1>2, <1>3, <1>a
        <4>3. /\ next.given = w.given /\ next.rows = w.rows
              /\ next.written = v.written /\ next.notWritten = v.notWritten
          BY <1>2
        <4>4. next.given = next.written + next.notWritten + next.rows + Queued(next)
          <5>1. /\ w.given = (w.written + w.notWritten) + w.rows + Queued(w)
                /\ v.written + v.notWritten = (w.written + w.notWritten) + Head(w.queue)
            BY <4>1
          <5>2. w.written + w.notWritten \in Nat /\ v.written + v.notWritten \in Nat
            BY <1>a
          <5> DEFINE a == w.written + w.notWritten
                     b == v.written + v.notWritten
                     c == w.rows
                     d == Queued(w)
                     e == Head(w.queue)
                     f == Queued(next)
          <5>3. a \in Nat /\ b \in Nat /\ c \in Nat /\ e \in Nat /\ f \in Nat
            BY <1>3, <1>a, <5>2
          <5>4. w.given = a + c + d /\ b = a + e /\ d = e + f
            BY <1>3, <5>1
          <5> HIDE DEF a, b, c, d, e, f
          <5>5. w.given = b + c + f
            BY <5>3, <5>4
          <5> QED
            BY <4>3, <5>5 DEF b, c, f
        <4>5. /\ next.queuedRows < QueueSize + BatchRows
              /\ next.queuedRows >= QueueSize => next.rows = 0
          BY <1>4, <1>a, <4>1, <4>2, <4>3, OutputsAssumption
        <4> QED
          BY <4>1, <4>3, <4>4, <4>5
      <3>2. next.notWritten # 0 => next.failure \/ next.aborted
        BY <1>2
      <3> QED
        BY <1>2, <1>4, <3>1, <3>2 DEF WriterAdds
  <1>7. Settled(v) = IF next.queuedRows < QueueSize
                     THEN [next EXCEPT !.room = FALSE] ELSE next
    BY DEF Settled, ReleaseRoom
  <1> HIDE DEF next
  <1>8. /\ Settled(v) \in Writers /\ Settled(v).queue = next.queue
        /\ Settled(v).rows = next.rows /\ Settled(v).given = next.given
        /\ Settled(v).written = next.written
        /\ Settled(v).notWritten = next.notWritten
        /\ Settled(v).queuedRows = next.queuedRows
        /\ Settled(v).running = next.running
        /\ Settled(v).failure = next.failure
        /\ Settled(v).aborted = next.aborted
        /\ Settled(v).queuedRows >= QueueSize => Settled(v).room = v.room
    <2>1. QueueSize \in Nat
      BY OutputsAssumption
    <2>2. CASE next.queuedRows < QueueSize
      <3>1. Settled(v) = [next EXCEPT !.room = FALSE]
        BY <1>7, <2>2
      <3>2. ~(next.queuedRows >= QueueSize)
        BY <1>4, <2>1, <2>2
      <3>3. Settled(v).queuedRows = next.queuedRows
        BY <1>5, <3>1 DEF Writers
      <3> QED
        BY <1>5, <3>1, <3>2, <3>3 DEF Writers
    <2>3. CASE ~(next.queuedRows < QueueSize)
      BY <1>2, <1>5, <1>7, <2>3 DEF Writers
    <2> QED
      BY <2>2, <2>3
  <1>9. Queued(Settled(v)) = Queued(next)
    BY <1>8, QueuedSame
  <1>10. WriterAdds(Settled(v))
    BY <1>6, <1>8, <1>9 DEF WriterAdds
  <1> QED
    BY SMTT(30), <1>2, <1>3, <1>8, <1>10 DEF Writers

(* What the end of a batch leaves as it was: the buffer, the abort, and a   *)
(* caller that stays parked on a queue still full.                          *)
Finishes(w, v) ==
    /\ v \in Writers /\ WriterAdds(v)
    /\ v.rows = w.rows /\ v.aborted = w.aborted
    /\ v.queuedRows >= QueueSize => w.queuedRows >= QueueSize /\ v.room = w.room

(* A batch that was written counts as written.                              *)
LEMMA LandedAdds ==
    ASSUME NEW w \in Writers, WriterAdds(w), w.queue # <<>>
    PROVE  /\ Finishes(w, Landed(w))
           /\ Landed(w).written = w.written + Head(w.queue)
  <1> DEFINE v == [w EXCEPT !.written = @ + Head(w.queue)]
  <1>1. Head(w.queue) \in Nat /\ w.written \in Nat /\ w.notWritten \in Nat
    <2>1. w.queue \in Seq(Nat)
      BY DEF Writers
    <2> QED
      BY <2>1 DEF Writers
  <1>2. /\ v.queue = w.queue /\ v.queuedRows = w.queuedRows /\ v.rows = w.rows
        /\ v.given = w.given /\ v.written = w.written + Head(w.queue)
        /\ v.notWritten = w.notWritten /\ v.failure = w.failure
        /\ v.aborted = w.aborted /\ v.room = w.room
    BY DEF Writers
  <1>3. v \in Writers
    <2>1. w.written + Head(w.queue) \in Nat
      BY <1>1
    <2> QED
      BY <2>1 DEF Writers
  <1>4. Landed(w) = Settled(v)
    BY DEF Landed
  <1> HIDE DEF v
  <1>5. v.written + v.notWritten = w.written + w.notWritten + Head(w.queue)
    BY <1>1, <1>2
  <1>6. v.notWritten # 0 => v.failure \/ v.aborted
    BY <1>2 DEF WriterAdds
  <1>7. /\ Settled(v) \in Writers /\ WriterAdds(Settled(v))
        /\ Settled(v).rows = v.rows /\ Settled(v).written = v.written
        /\ Settled(v).aborted = v.aborted
        /\ Settled(v).queuedRows <= v.queuedRows
        /\ Settled(v).queuedRows >= QueueSize => Settled(v).room = v.room
    BY <1>2, <1>3, <1>5, <1>6, SettledAdds
  <1>8. Settled(v).queuedRows >= QueueSize => w.queuedRows >= QueueSize
    <2>1. /\ Settled(v).queuedRows \in Nat /\ w.queuedRows \in Nat
          /\ QueueSize \in Nat
      BY <1>7, OutputsAssumption DEF Writers
    <2> QED
      BY <1>2, <1>7, <2>1
  <1> QED
    BY <1>2, <1>4, <1>7, <1>8 DEF Finishes

(* A batch that was not counts as not written, and there was a reason.      *)
LEMMA SkippedAdds ==
    ASSUME NEW w \in Writers, WriterAdds(w), w.queue # <<>>,
           w.failure \/ w.aborted
    PROVE  Finishes(w, Skipped(w)) /\ Skipped(w).written = w.written
  <1> DEFINE v == [w EXCEPT !.notWritten = @ + Head(w.queue)]
  <1>1. Head(w.queue) \in Nat /\ w.written \in Nat /\ w.notWritten \in Nat
    <2>1. w.queue \in Seq(Nat)
      BY DEF Writers
    <2> QED
      BY <2>1 DEF Writers
  <1>2. /\ v.queue = w.queue /\ v.queuedRows = w.queuedRows /\ v.rows = w.rows
        /\ v.given = w.given /\ v.written = w.written
        /\ v.notWritten = w.notWritten + Head(w.queue) /\ v.failure = w.failure
        /\ v.aborted = w.aborted /\ v.room = w.room
    BY DEF Writers
  <1>3. v \in Writers
    <2>1. w.notWritten + Head(w.queue) \in Nat
      BY <1>1
    <2> QED
      BY <2>1 DEF Writers
  <1>4. Skipped(w) = Settled(v)
    BY DEF Skipped
  <1> HIDE DEF v
  <1>5. v.written + v.notWritten = w.written + w.notWritten + Head(w.queue)
    BY <1>1, <1>2
  <1>6. v.notWritten # 0 => v.failure \/ v.aborted
    BY <1>2
  <1>7. /\ Settled(v) \in Writers /\ WriterAdds(Settled(v))
        /\ Settled(v).rows = v.rows /\ Settled(v).written = v.written
        /\ Settled(v).aborted = v.aborted
        /\ Settled(v).queuedRows <= v.queuedRows
        /\ Settled(v).queuedRows >= QueueSize => Settled(v).room = v.room
    BY <1>2, <1>3, <1>5, <1>6, SettledAdds
  <1>8. Settled(v).queuedRows >= QueueSize => w.queuedRows >= QueueSize
    <2>1. /\ Settled(v).queuedRows \in Nat /\ w.queuedRows \in Nat
          /\ QueueSize \in Nat
      BY <1>7, OutputsAssumption DEF Writers
    <2> QED
      BY <1>2, <1>7, <2>1
  <1> QED
    BY <1>2, <1>4, <1>7, <1>8 DEF Finishes

(* A rejected batch is skipped, once the reason is latched.                 *)
LEMMA RejectedAdds ==
    ASSUME NEW w \in Writers, WriterAdds(w), w.queue # <<>>
    PROVE  Finishes(w, Rejected(w)) /\ Rejected(w).written = w.written
  <1>1. CASE w.aborted
    <2>1. Rejected(w) = Skipped(w)
      BY <1>1 DEF Rejected
    <2> QED
      BY <1>1, <2>1, SkippedAdds
  <1>2. CASE ~w.aborted
    <2> DEFINE v == [w EXCEPT !.failure = TRUE]
    <2>1. Rejected(w) = Skipped(v)
      BY <1>2 DEF Rejected
    <2>2. /\ v \in Writers /\ v.failure /\ v.queue = w.queue
          /\ v.queuedRows = w.queuedRows /\ v.rows = w.rows
          /\ v.given = w.given /\ v.written = w.written
          /\ v.notWritten = w.notWritten /\ v.running = w.running
          /\ v.aborted = w.aborted /\ v.room = w.room
      BY DEF Writers
    <2> HIDE DEF v
    <2>3. WriterAdds(v)
      <3>1. Queued(v) = Queued(w)
        BY <2>2, QueuedSame
      <3> QED
        BY <2>2, <3>1 DEF WriterAdds
    <2>4. Finishes(v, Skipped(v)) /\ Skipped(v).written = v.written
      BY <2>2, <2>3, SkippedAdds
    <2> QED
      BY <2>1, <2>2, <2>4 DEF Finishes
  <1> QED
    BY <1>1, <1>2

-----------------------------------------------------------------------------
(* Types and writers, one step at a time.                                   *)

WritersOK == WritersAdd /\ WritersStaged

(* A step that changes one output has to show what it makes of that one.    *)
LEMMA OneOutput ==
    ASSUME NEW o \in Outputs, NEW r \in Calls,
           out \in [Outputs -> Calls], WritersOK,
           out' = [out EXCEPT ![o] = r],
           WriterAdds(r.w), WriterStage(r)
    PROVE  /\ out' \in [Outputs -> Calls] /\ WritersOK'
           /\ out'[o] = r /\ \A p \in Outputs : p # o => out'[p] = out[p]
  <1>1. out'[o] = r /\ \A p \in Outputs : p # o => out'[p] = out[p]
    OBVIOUS
  <1>2. out' \in [Outputs -> Calls]
    OBVIOUS
  <1>3. WritersAdd'
    <2> SUFFICES ASSUME NEW p \in Outputs PROVE WriterAdds(out'[p].w)
      BY DEF WritersAdd
    <2>1. CASE p = o
      BY <1>1, <2>1
    <2>2. CASE p # o
      BY <1>1, <2>2 DEF WritersAdd, WritersOK
    <2> QED
      BY <2>1, <2>2
  <1>4. WritersStaged'
    BY <1>1 DEF WritersStaged, WritersOK, WriterStage
  <1> QED
    BY <1>1, <1>2, <1>3, <1>4 DEF WritersOK

(* The start of everything.                                                 *)
LEMMA InitWriters ==
    ASSUME Init
    PROVE  TypeOK /\ WritersOK
  <1>1. NoWriter \in Writers /\ Queued(NoWriter) = 0
    <2>1. NoWriter.queue = <<>>
      BY DEF NoWriter
    <2>2. NoWriter \in Writers
      BY DEF NoWriter, Writers
    <2> QED
      BY <2>1, <2>2, QueuedEmpty
  <1>2. out \in [Outputs -> Calls]
    BY <1>1 DEF Init, Calls
  <1>3. TypeOK
    <2>1. tab \in [Tabs -> Clients]
      BY DEF Init, Clients
    <2>2. DOMAIN staging = {}
      BY DEF Init
    <2>3. target \in [of : Outputs \cup {Old}, rows : Nat]
      BY DEF Init
    <2> QED
      BY <1>2, <2>1, <2>2, <2>3 DEF TypeOK
  <1>4. WriterAdds(NoWriter)
    <2>1. /\ NoWriter.given = 0 /\ NoWriter.written = 0 /\ NoWriter.notWritten = 0
          /\ NoWriter.rows = 0 /\ NoWriter.queuedRows = 0
          /\ NoWriter.running = FALSE
      BY DEF NoWriter
    <2> QED
      BY <1>1, <2>1, OutputsAssumption DEF WriterAdds
  <1>5. ASSUME NEW o \in Outputs PROVE WriterAdds(out[o].w) /\ WriterStage(out[o])
    <2>1. out[o].w = NoWriter /\ out[o].at = "none"
      BY DEF Init
    <2>2. ~(NoWriter.queuedRows >= QueueSize)
      BY OutputsAssumption DEF NoWriter
    <2> QED
      BY <1>4, <2>1, <2>2 DEF WriterStage, NoWriter
  <1> QED
    BY <1>3, <1>5 DEF WritersOK, WritersAdd, WritersStaged

(* Where no output is touched, no writer is.                                *)
LEMMA NoOutput ==
    ASSUME out \in [Outputs -> Calls], WritersOK, out' = out
    PROVE  out' \in [Outputs -> Calls] /\ WritersOK'
  BY DEF WritersOK, WritersAdd, WritersStaged

(* A table that is created, filled or dropped leaves a set of tables.       *)
LEMMA TablesTyped ==
    ASSUME TypeOK,
           \/ UNCHANGED staging
           \/ \E o \in Outputs : Drop(o)
           \/ \E o \in Outputs, n \in Nat : Put(o, n)
    PROVE  DOMAIN staging' \subseteq Outputs /\ \A o \in DOMAIN staging' : staging'[o] \in Nat
  <1>1. CASE UNCHANGED staging
    BY <1>1 DEF TypeOK
  <1>2. ASSUME NEW o \in Outputs, Drop(o)
        PROVE  DOMAIN staging' \subseteq Outputs /\ \A p \in DOMAIN staging' : staging'[p] \in Nat
    BY <1>2 DEF TypeOK, Drop, Restrict
  <1>3. ASSUME NEW o \in Outputs, NEW n \in Nat, Put(o, n)
        PROVE  DOMAIN staging' \subseteq Outputs /\ \A p \in DOMAIN staging' : staging'[p] \in Nat
    BY <1>3 DEF TypeOK, Put
  <1> QED
    BY <1>1, <1>2, <1>3

(* The writer of an output, as a value of its type.                         *)
LEMMA WriterTyped ==
    ASSUME TypeOK, WritersOK, NEW o \in Outputs
    PROVE  /\ out[o] \in Calls /\ out[o].w \in Writers
           /\ WriterAdds(out[o].w) /\ WriterStage(out[o])
  BY DEF TypeOK, WritersOK, WritersAdd, WritersStaged, Calls

(* No step of a sweep touches an output.                                    *)
LEMMA SweepWriters ==
    ASSUME TypeOK, WritersOK, NEW t \in Tabs, Sweeps(t) \/ SweepFails(t)
    PROVE  TypeOK' /\ WritersOK'
  <1>1. out' = out /\ target' = target
    BY DEF Sweeps, SweepAsk, SweepFirst, SweepSecond, SweepDrop, SweepFails
  <1>2. tab' \in [Tabs -> Clients]
    <2>1. ASSUME NEW r \in Clients, Sweep(t, r) PROVE tab' \in [Tabs -> Clients]
      BY <2>1 DEF TypeOK, Sweep
    <2>2. tab[t] \in Clients
      BY DEF TypeOK
    <2>3. CASE SweepAsk(t)
      <3>1. /\ [tab[t] EXCEPT !.swept = "yes"] \in Clients
            /\ [tab[t] EXCEPT !.swept = "first",
                  !.due = {o \in Outputs : Exists(o) /\ ~Alive(o)}] \in Clients
        BY <2>2 DEF Clients
      <3> QED
        BY <2>1, <2>3, <3>1 DEF SweepAsk
    <2>4. \A what : Reading(tab[t], what) \in Clients
      BY <2>2 DEF Reading, Clients, HeldLocks
    <2>5. CASE SweepFirst(t)
      <3> DEFINE r == Reading(tab[t], SweepPlan[1])
      <3>1. \A x \in {"yes", "second"} : [r EXCEPT !.swept = x] \in Clients
        BY <2>4 DEF Clients
      <3> QED
        BY <2>1, <2>5, <3>1 DEF SweepFirst
    <2>6. CASE SweepSecond(t)
      <3> DEFINE r == Reading(tab[t], SweepPlan[2])
      <3>1. [r EXCEPT !.swept = "drop", !.tables = Stale(r.tables, r.held)] \in Clients
        BY <2>4 DEF Clients, Stale
      <3> QED
        BY <2>1, <2>6, <3>1 DEF SweepSecond
    <2>7. CASE SweepDrop(t)
      <3>1. [tab[t] EXCEPT !.swept = "yes"] \in Clients
        BY <2>2 DEF Clients
      <3>2. \A o : [tab[t] EXCEPT !.tables = @ \ {o}] \in Clients
        BY <2>2 DEF Clients
      <3> QED
        BY <2>1, <2>7, <3>1, <3>2 DEF SweepDrop
    <2>8. CASE SweepFails(t)
      <3>1. [tab[t] EXCEPT !.swept = "failed"] \in Clients
        BY <2>2 DEF Clients
      <3> QED
        BY <2>1, <2>8, <3>1 DEF SweepFails
    <2> QED
      BY <2>3, <2>5, <2>6, <2>7, <2>8 DEF Sweeps
  <1>3. UNCHANGED staging \/ \E o \in Outputs : Drop(o)
    BY DEF Sweeps, SweepAsk, SweepFirst, SweepSecond, SweepDrop, SweepFails,
           TypeOK, Clients
  <1>4. out' \in [Outputs -> Calls] /\ WritersOK'
    BY <1>1, NoOutput DEF TypeOK
  <1>5. DOMAIN staging' \subseteq Outputs /\ \A o \in DOMAIN staging' : staging'[o] \in Nat
    BY <1>3, TablesTyped
  <1> QED
    BY <1>1, <1>2, <1>4, <1>5 DEF TypeOK

(* A batch that ends does not disturb what the output's progress promises.  *)
LEMMA FinishStage ==
    ASSUME NEW c \in Calls, WriterAdds(c.w), WriterStage(c), c.w.queue # <<>>,
           NEW v, Finishes(c.w, v),
           v.written = c.w.written \/ c.created # "no"
    PROVE  /\ [c EXCEPT !.w = v] \in Calls /\ [c EXCEPT !.w = v].w = v
           /\ WriterAdds(v) /\ WriterStage([c EXCEPT !.w = v])
  <1> DEFINE r == [c EXCEPT !.w = v]
  <1>1. /\ r \in Calls /\ r.w = v /\ r.at = c.at /\ r.created = c.created
    BY DEF Calls, Finishes
  <1> HIDE DEF r
  <1>2. r.at \notin {"swap", "swapped", "ok"}
    BY <1>1 DEF WriterStage
  <1>3. r.at \in {"none", "open"} /\ r.w.queuedRows >= QueueSize =>
            r.w.room \/ r.w.aborted
    BY <1>1 DEF WriterStage, Finishes
  <1>4. r.at \in {"drain", "swap", "swapped", "ok"} => r.w.rows = 0
    BY <1>1 DEF WriterStage, Finishes
  <1>5. r.created = "no" => r.w.written = 0
    BY <1>1 DEF WriterStage
  <1>6. WriterStage(r)
    BY <1>2, <1>3, <1>4, <1>5 DEF WriterStage
  <1>7. WriterAdds(v)
    BY DEF Finishes
  <1> QED
    BY <1>1, <1>6, <1>7 DEF r

(* Setting a writer's flags leaves its counts as they were; only a batch    *)
(* that starts needs one that is queued.                                    *)
LEMMA FlagsAdd ==
    ASSUME NEW w \in Writers, WriterAdds(w), NEW v,
           v.rows = w.rows, v.queue = w.queue, v.queuedRows = w.queuedRows,
           v.given = w.given, v.written = w.written,
           v.notWritten = w.notWritten,
           v.running => w.running \/ w.queue # <<>>,
           w.failure \/ w.aborted => v.failure \/ v.aborted
    PROVE  WriterAdds(v)
  <1>1. Queued(v) = Queued(w)
    BY QueuedSame
  <1> QED
    BY <1>1 DEF WriterAdds

(* The steps of an output that change its progress and not its writer.      *)
LEMMA ProgressWriters ==
    ASSUME TypeOK, WritersOK, NEW o \in Outputs,
           \/ Output(o) \/ GrantLock(o) \/ Create(o) \/ Close(o) \/ Drained(o)
           \/ SwapFails(o) \/ Swap(o) \/ DropStaging(o) \/ LateDrop(o)
           \/ ReleaseLock(o)
    PROVE  out' \in [Outputs -> Calls] /\ WritersOK'
  <1> DEFINE c == out[o]
  <1>1. /\ c \in Calls /\ WriterAdds(c.w) /\ WriterStage(c)
        /\ out \in [Outputs -> Calls]
    BY WriterTyped DEF TypeOK
  <1>2. ASSUME NEW r \in Calls, out' = [out EXCEPT ![o] = r],
               r.w = c.w, WriterStage(r)
        PROVE  out' \in [Outputs -> Calls] /\ WritersOK'
    BY <1>1, <1>2, OneOutput
  <1>3. CASE Output(o)
    <2> DEFINE r == [c EXCEPT !.at = "open", !.lock = "asked"]
    <2>1. /\ r \in Calls /\ r.w = c.w /\ r.at = "open" /\ r.created = c.created
      BY <1>1 DEF Calls
    <2>2. out' = [out EXCEPT ![o] = r]
      BY <1>3 DEF Output
    <2>3. c.at = "none"
      BY <1>3 DEF Output
    <2>4. WriterStage(r)
      BY <1>1, <2>1, <2>3 DEF WriterStage
    <2> QED
      BY <1>2, <2>1, <2>2, <2>4
  <1>4. CASE GrantLock(o)
    <2> DEFINE r == [c EXCEPT !.lock = "held"]
    <2>1. /\ r \in Calls /\ r.w = c.w /\ r.at = c.at /\ r.created = c.created
      BY <1>1 DEF Calls
    <2>2. out' = [out EXCEPT ![o] = r]
      BY <1>4 DEF GrantLock
    <2> QED
      BY <1>1, <1>2, <2>1, <2>2 DEF WriterStage
  <1>5. CASE Create(o)
    <2>1. PICK x \in {"yes", "failed"} :
             out' = [out EXCEPT ![o] = [c EXCEPT !.created = x]]
      BY <1>5 DEF Create
    <2> DEFINE r == [c EXCEPT !.created = x]
    <2>2. /\ r \in Calls /\ r.w = c.w /\ r.at = c.at /\ r.created # "no"
      BY <1>1 DEF Calls
    <2> QED
      BY <1>1, <1>2, <2>1, <2>2 DEF WriterStage
  <1>6. CASE Close(o)
    <2> DEFINE r == [c EXCEPT !.at = "close"]
    <2>1. /\ r \in Calls /\ r.w = c.w /\ r.at = "close" /\ r.created = c.created
      BY <1>1 DEF Calls
    <2>2. out' = [out EXCEPT ![o] = r]
      BY <1>6 DEF Close
    <2> QED
      BY <1>1, <1>2, <2>1, <2>2 DEF WriterStage
  <1>7. CASE Drained(o)
    <2> DEFINE x == IF c.w.aborted \/ c.w.failure THEN "drop" ELSE "swap"
               r == [c EXCEPT !.at = x]
    <2>1. /\ r \in Calls /\ r.w = c.w /\ r.at = x /\ r.created = c.created
      BY <1>1 DEF Calls
    <2>2. out' = [out EXCEPT ![o] = r]
      BY <1>7 DEF Drained
    <2>3. WriterStage(r)
      BY <1>1, <1>7, <2>1 DEF WriterStage, Drained
    <2> QED
      BY <1>2, <2>1, <2>2, <2>3
  <1>8. CASE SwapFails(o) \/ DropStaging(o) \/ LateDrop(o)
    <2>1. PICK r \in {[c EXCEPT !.at = "drop"], [c EXCEPT !.at = "release"],
                      [c EXCEPT !.at = "release", !.lateDrop = TRUE],
                      [c EXCEPT !.lateDrop = FALSE]} :
             out' = [out EXCEPT ![o] = r]
      BY <1>8 DEF SwapFails, DropStaging, LateDrop
    <2>2. /\ r \in Calls /\ r.w = c.w /\ r.created = c.created
          /\ r.at \in {"drop", "release", c.at}
      BY <1>1, <2>1 DEF Calls
    <2> QED
      BY <1>1, <1>2, <2>1, <2>2 DEF WriterStage
  <1>9. CASE Swap(o)
    <2> DEFINE r == [c EXCEPT !.at = "swapped"]
    <2>1. /\ r \in Calls /\ r.w = c.w /\ r.at = "swapped" /\ r.created = c.created
      BY <1>1 DEF Calls
    <2>2. out' = [out EXCEPT ![o] = r]
      BY <1>9 DEF Swap
    <2>3. c.at = "swap"
      BY <1>9 DEF Swap
    <2> QED
      BY <1>1, <1>2, <2>1, <2>2, <2>3 DEF WriterStage
  <1>10. CASE ReleaseLock(o)
    <2> DEFINE x == IF c.at = "swapped" THEN "ok" ELSE "rejected"
               r == [c EXCEPT !.lock = "released", !.at = x]
    <2>1. /\ r \in Calls /\ r.w = c.w /\ r.at = x /\ r.created = c.created
      BY <1>1 DEF Calls
    <2>2. out' = [out EXCEPT ![o] = r]
      BY <1>10 DEF ReleaseLock
    <2>3. WriterStage(r)
      BY <1>1, <2>1 DEF WriterStage
    <2> QED
      BY <1>2, <2>1, <2>2, <2>3
  <1> QED
    BY <1>3, <1>4, <1>5, <1>6, <1>7, <1>8, <1>9, <1>10

(* The steps of an output that change its writer.                           *)
LEMMA WriterSteps ==
    ASSUME TypeOK, WritersOK, NEW o \in Outputs,
           \/ Enqueue(o) \/ StartBatch(o) \/ Insert(o) \/ InsertSticks(o)
           \/ Abort(o) \/ CloseWriter(o)
    PROVE  out' \in [Outputs -> Calls] /\ WritersOK'
  <1> DEFINE c == out[o]
             w == c.w
  <1>1. /\ c \in Calls /\ w \in Writers /\ WriterAdds(w) /\ WriterStage(c)
        /\ out \in [Outputs -> Calls]
    BY WriterTyped DEF TypeOK
  <1>2. ASSUME NEW v \in Writers, out' = [out EXCEPT ![o] = [c EXCEPT !.w = v]],
               WriterAdds(v), WriterStage([c EXCEPT !.w = v])
        PROVE  out' \in [Outputs -> Calls] /\ WritersOK'
    <2>1. [c EXCEPT !.w = v] \in Calls /\ [c EXCEPT !.w = v].w = v
      BY <1>1 DEF Calls
    <2> QED
      BY <1>1, <1>2, <2>1, OneOutput
  <1>3. ASSUME NEW v, Set(o, v), Finishes(w, v), w.queue # <<>>,
               v.written = w.written \/ c.created # "no"
        PROVE  out' \in [Outputs -> Calls] /\ WritersOK'
    <2>1. /\ v \in Writers /\ WriterAdds(v) /\ WriterStage([c EXCEPT !.w = v])
      BY <1>1, <1>3, FinishStage DEF Finishes
    <2> QED
      BY <1>2, <1>3, <2>1 DEF Set
  <1>4. CASE Enqueue(o)
    <2>1. w.queuedRows < QueueSize
      <3>1. ~(w.queuedRows >= QueueSize)
        BY <1>1, <1>4 DEF WriterStage, Enqueue
      <3>2. w.queuedRows \in Nat /\ QueueSize \in Nat
        BY <1>1, OutputsAssumption DEF Writers
      <3> QED
        BY <3>1, <3>2
    <2> DEFINE v == Enqueued(w)
               r == [c EXCEPT !.w = v]
    <2>2. /\ v \in Writers /\ WriterAdds(v) /\ v.written = w.written
          /\ v.queuedRows >= QueueSize => v.room
      BY <1>1, <2>1, EnqueuedAdds
    <2>3. r.w = v /\ r.at = "open" /\ r.created = c.created
      BY <1>1, <1>4 DEF Enqueue, Calls
    <2>4. WriterStage(r)
      BY <1>1, <2>2, <2>3 DEF WriterStage
    <2> QED
      BY <1>2, <1>4, <2>2, <2>4 DEF Enqueue, Set
  <1>5. CASE StartBatch(o)
    <2>1. w.queue # <<>>
      BY <1>5 DEF StartBatch
    <2>2. CASE w.failure \/ w.aborted
      <3>1. Finishes(w, Skipped(w)) /\ Skipped(w).written = w.written
        BY <1>1, <2>1, <2>2, SkippedAdds
      <3>2. Set(o, Skipped(w))
        BY <1>5, <2>2 DEF StartBatch
      <3> QED
        BY <1>3, <2>1, <3>1, <3>2
    <2>3. CASE ~(w.failure \/ w.aborted)
      <3> DEFINE v == [w EXCEPT !.running = TRUE]
      <3>1. /\ v \in Writers /\ v.rows = w.rows /\ v.queue = w.queue
            /\ v.queuedRows = w.queuedRows /\ v.given = w.given
            /\ v.written = w.written /\ v.notWritten = w.notWritten
            /\ v.failure = w.failure /\ v.aborted = w.aborted /\ v.room = w.room
        BY <1>1 DEF Writers
      <3>2. Set(o, v)
        BY <1>5, <2>3 DEF StartBatch
      <3> HIDE DEF v
      <3>3. WriterAdds(v)
        BY <1>1, <2>1, <3>1, FlagsAdd
      <3>4. /\ [c EXCEPT !.w = v].w = v /\ [c EXCEPT !.w = v].at = c.at
            /\ [c EXCEPT !.w = v].created = c.created
        BY <1>1 DEF Calls
      <3>5. WriterStage([c EXCEPT !.w = v])
        BY <1>1, <3>1, <3>4 DEF WriterStage
      <3> QED
        BY <1>2, <3>1, <3>2, <3>3, <3>5 DEF Set
    <2> QED
      BY <2>2, <2>3
  <1>6. CASE Insert(o)
    <2>1. w.queue # <<>> /\ c.created # "no"
      BY <1>1, <1>6 DEF Insert, WriterAdds
    <2>2. Finishes(w, Landed(w)) /\ Finishes(w, Rejected(w))
      BY <1>1, <2>1, LandedAdds, RejectedAdds
    <2>3. Set(o, Landed(w)) \/ Set(o, Rejected(w))
      BY <1>6 DEF Insert
    <2> QED
      BY <1>3, <2>1, <2>2, <2>3
  <1>7. CASE InsertSticks(o)
    <2> DEFINE v == [w EXCEPT !.stuck = TRUE]
    <2>1. /\ v \in Writers /\ v.rows = w.rows /\ v.queue = w.queue
          /\ v.queuedRows = w.queuedRows /\ v.given = w.given
          /\ v.written = w.written /\ v.notWritten = w.notWritten
          /\ v.running = w.running
          /\ v.failure = w.failure /\ v.aborted = w.aborted /\ v.room = w.room
      BY <1>1 DEF Writers
    <2>2. Set(o, v)
      BY <1>7 DEF InsertSticks
    <2> HIDE DEF v
    <2>3. WriterAdds(v)
      BY <1>1, <2>1, FlagsAdd
    <2>4. /\ [c EXCEPT !.w = v].w = v /\ [c EXCEPT !.w = v].at = c.at
          /\ [c EXCEPT !.w = v].created = c.created
      BY <1>1 DEF Calls
    <2>5. WriterStage([c EXCEPT !.w = v])
      BY <1>1, <2>1, <2>4 DEF WriterStage
    <2> QED
      BY <1>2, <2>1, <2>2, <2>3, <2>5 DEF Set
  <1>8. CASE Abort(o)
    <2> DEFINE v == Aborted(w)
    <2>1. /\ v \in Writers /\ v.rows = w.rows /\ v.queue = w.queue
          /\ v.queuedRows = w.queuedRows /\ v.given = w.given
          /\ v.written = w.written /\ v.notWritten = w.notWritten
          /\ v.running = w.running /\ v.aborted
      BY <1>1 DEF Writers, Aborted, ReleaseRoom
    <2>2. Set(o, v) /\ c.at \in {"open", "close", "drain"}
      BY <1>8 DEF Abort
    <2> HIDE DEF v
    <2>3. WriterAdds(v)
      BY <1>1, <2>1, FlagsAdd
    <2>4. /\ [c EXCEPT !.w = v].w = v /\ [c EXCEPT !.w = v].at = c.at
          /\ [c EXCEPT !.w = v].created = c.created
      BY <1>1 DEF Calls
    <2>5. WriterStage([c EXCEPT !.w = v])
      BY <1>1, <2>1, <2>2, <2>4 DEF WriterStage
    <2> QED
      BY <1>2, <2>1, <2>2, <2>3, <2>5 DEF Set
  <1>9. CASE CloseWriter(o)
    <2>1. c.created # "no"
      BY <1>9 DEF CloseWriter
    <2>2. CASE c.created = "failed"
      <3> DEFINE r == [c EXCEPT !.at = "drop"]
      <3>1. /\ r \in Calls /\ r.w = w /\ r.at = "drop" /\ r.created = c.created
        BY <1>1 DEF Calls
      <3>2. out' = [out EXCEPT ![o] = r]
        BY <1>9, <2>2 DEF CloseWriter
      <3>3. WriterStage(r)
        BY <1>1, <3>1 DEF WriterStage
      <3> QED
        BY <1>1, <3>1, <3>2, <3>3, OneOutput
    <2>3. CASE c.created # "failed"
      <3> DEFINE v == IF w.rows > 0 THEN Flush(w) ELSE w
                 r == [c EXCEPT !.at = "drain", !.w = v]
      <3>1. w.rows \in Nat /\ w.queuedRows \in Nat
        BY <1>1 DEF Writers
      <3>2. v \in Writers /\ WriterAdds(v) /\ v.rows = 0
        <4>1. CASE w.rows > 0
          <5>1. /\ w.given = w.written + w.notWritten + w.rows + Queued(w)
                /\ w.queuedRows = Queued(w) /\ w.rows < BatchRows
                /\ w.queuedRows >= QueueSize => w.rows = 0
                /\ w.notWritten # 0 => w.failure \/ w.aborted
            BY <1>1 DEF WriterAdds
          <5>2. w.queuedRows < QueueSize /\ w.rows <= BatchRows
            BY <3>1, <4>1, <5>1, OutputsAssumption
          <5> QED
            BY <1>1, <4>1, <5>1, <5>2, FlushAdds
        <4>2. CASE ~(w.rows > 0)
          BY <1>1, <3>1, <4>2
        <4> QED
          BY <4>1, <4>2
      <3>3. out' = [out EXCEPT ![o] = r]
        BY <1>9, <2>3 DEF CloseWriter
      <3> HIDE DEF v
      <3>4. /\ r \in Calls /\ r.w = v /\ r.at = "drain" /\ r.created = c.created
        BY <1>1, <3>2 DEF Calls
      <3>5. WriterStage(r)
        BY <2>1, <3>2, <3>4 DEF WriterStage
      <3> QED
        BY <1>1, <3>2, <3>3, <3>4, <3>5, OneOutput
    <2> QED
      BY <2>2, <2>3
  <1> QED
    BY <1>4, <1>5, <1>6, <1>7, <1>8, <1>9

(* A tab that dies takes locks with it and nothing else.                    *)
LEMMA DeathWriters ==
    ASSUME TypeOK, WritersOK, NEW t \in Tabs, TabDies(t)
    PROVE  TypeOK' /\ WritersOK'
  <1>1. \A o \in Outputs : out[o] \in Calls
    BY DEF TypeOK
  <1>2. out' \in [Outputs -> Calls]
    BY <1>1 DEF TabDies, Calls
  <1>3. ASSUME NEW o \in Outputs
        PROVE  /\ out'[o].w = out[o].w /\ out'[o].at = out[o].at
               /\ out'[o].created = out[o].created
    BY <1>1 DEF TabDies, Calls
  <1>4. WritersAdd'
    BY <1>3 DEF WritersOK, WritersAdd
  <1>5. WritersStaged'
    BY <1>3 DEF WritersOK, WritersStaged, WriterStage
  <1>6. tab' \in [Tabs -> Clients]
    <2>1. [tab[t] EXCEPT !.alive = FALSE] \in Clients
      BY DEF TypeOK, Clients
    <2> QED
      BY <2>1 DEF TypeOK, TabDies
  <1> QED
    BY <1>2, <1>4, <1>5, <1>6 DEF TypeOK, WritersOK, TabDies

(* What a step of an output does to the tabs, the tables and the target.    *)
LEMMA OutputTypesElse ==
    ASSUME TypeOK, WritersOK, NEW o \in Outputs,
           \/ Output(o) \/ Enqueue(o) \/ Close(o) \/ Abort(o)
           \/ Runs(o) \/ InsertSticks(o) \/ LateDrop(o)
    PROVE  /\ tab' \in [Tabs -> Clients]
           /\ DOMAIN staging' \subseteq Outputs
           /\ \A p \in DOMAIN staging' : staging'[p] \in Nat
           /\ target' \in [of : Outputs \cup {Old}, rows : Nat]
  <1>1. tab' \in [Tabs -> Clients]
    <2>1. CASE Output(o)
      <3>1. TabOf[o] \in Tabs /\ tab[TabOf[o]] \in Clients
        BY OutputsAssumption DEF TypeOK
      <3>2. PICK x \in {"ask", tab[TabOf[o]].swept} :
               tab' = [tab EXCEPT ![TabOf[o]] = [tab[TabOf[o]] EXCEPT !.swept = x]]
        BY <2>1 DEF Output
      <3>3. [tab[TabOf[o]] EXCEPT !.swept = x] \in Clients
        BY <3>1 DEF Clients
      <3> QED
        BY <3>1, <3>2, <3>3 DEF TypeOK
    <2>2. CASE UNCHANGED tab
      BY <2>2 DEF TypeOK
    <2> QED
      BY <2>1, <2>2 DEF Enqueue, Close, Abort, Runs, InsertSticks, LateDrop,
         GrantLock, Create, StartBatch, Insert, CloseWriter, Drained, Swap,
         SwapFails, DropStaging, ReleaseLock
  <1>2. \/ UNCHANGED staging
        \/ \E p \in Outputs : Drop(p)
        \/ \E p \in Outputs, n \in Nat : Put(p, n)
    <2>1. CASE Create(o)
      BY <2>1 DEF Create
    <2>2. CASE Insert(o)
      <3>1. out[o].w.queue # <<>> /\ out[o].w.queue \in Seq(Nat)
        BY <2>2, WriterTyped DEF Insert, WriterAdds, Writers
      <3>2. Head(out[o].w.queue) \in Nat
        BY <3>1
      <3>3. Exists(o) => staging[o] + Head(out[o].w.queue) \in Nat
        BY <3>2 DEF Exists, TypeOK
      <3>4. \/ UNCHANGED staging
            \/ Exists(o) /\ Put(o, staging[o] + Head(out[o].w.queue))
        BY <2>2 DEF Insert
      <3> QED
        BY <3>3, <3>4
    <2>3. CASE Swap(o) \/ DropStaging(o) \/ LateDrop(o)
      BY <2>3 DEF Swap, DropStaging, LateDrop
    <2>4. CASE UNCHANGED staging
      BY <2>4
    <2> QED
      BY <2>1, <2>2, <2>3, <2>4 DEF Output, Enqueue, Close, Abort, Runs,
         InsertSticks, GrantLock, StartBatch, CloseWriter, Drained, SwapFails,
         ReleaseLock
  <1>3. target' \in [of : Outputs \cup {Old}, rows : Nat]
    <2>1. CASE Swap(o)
      <3>1. staging[o] \in Nat
        BY <2>1 DEF Swap, Exists, TypeOK
      <3> QED
        BY <2>1, <3>1 DEF Swap
    <2>2. CASE UNCHANGED target
      BY <2>2 DEF TypeOK
    <2> QED
      BY <2>1, <2>2 DEF Output, Enqueue, Close, Abort, Runs, InsertSticks,
         LateDrop, GrantLock, Create, StartBatch, Insert, CloseWriter, Drained,
         SwapFails, DropStaging, ReleaseLock
  <1> QED
    BY <1>1, <1>2, <1>3, TablesTyped

(* Every step keeps the types, and every writer as it should be.            *)
LEMMA StepWriters ==
    ASSUME TypeOK, WritersOK, [Next]_vars
    PROVE  TypeOK' /\ WritersOK'
  <1>1. CASE \E t \in Tabs : Sweeps(t) \/ SweepFails(t)
    BY <1>1, SweepWriters
  <1>2. CASE \E t \in Tabs : TabDies(t)
    BY <1>2, DeathWriters
  <1>3. ASSUME NEW o \in Outputs,
               \/ Output(o) \/ Enqueue(o) \/ Close(o) \/ Abort(o)
               \/ Runs(o) \/ InsertSticks(o) \/ LateDrop(o)
        PROVE  TypeOK' /\ WritersOK'
    <2>1. out' \in [Outputs -> Calls] /\ WritersOK'
      BY <1>3, ProgressWriters, WriterSteps DEF Runs
    <2> QED
      BY <1>3, <2>1, OutputTypesElse DEF TypeOK
  <1>4. CASE UNCHANGED vars
    BY <1>4, NoOutput DEF TypeOK, vars
  <1> QED
    BY <1>1, <1>2, <1>3, <1>4 DEF Next

(* For any number of tabs and outputs: the state keeps its type.            *)
THEOREM OutputTypes == Spec => []TypeOK
  <1>1. Init => TypeOK /\ WritersOK
    BY InitWriters
  <1>2. (TypeOK /\ WritersOK) /\ [Next]_vars => (TypeOK /\ WritersOK)'
    BY StepWriters
  <1> QED
    BY <1>1, <1>2, PTL DEF Spec

(* The writers' invariant says what the error of a failed load reports.     *)
LEMMA AddsAccount ==
    ASSUME WritersAdd
    PROVE  RowsAccounted
  BY DEF WritersAdd, WriterAdds, RowsAccounted

(* For any loads and any queue: every row the caller was not refused is     *)
(* written, reported as not written or still in the writer, and the queue   *)
(* of batches stays within its bound.                                       *)
THEOREM RowsAddUp == Spec => []RowsAccounted
  <1>1. Init => TypeOK /\ WritersOK
    BY InitWriters
  <1>2. (TypeOK /\ WritersOK) /\ [Next]_vars => (TypeOK /\ WritersOK)'
    BY StepWriters
  <1>3. WritersOK => RowsAccounted
    BY AddsAccount DEF WritersOK
  <1> QED
    BY <1>1, <1>2, <1>3, PTL DEF Spec

-----------------------------------------------------------------------------
(* The tables, the locks and the sweeps, one step at a time.                *)

OutputStep(o) ==
    \/ Output(o) \/ Enqueue(o) \/ Close(o) \/ Abort(o)
    \/ Runs(o) \/ InsertSticks(o) \/ LateDrop(o)

(* A step of one output leaves the others and their tables alone, and of    *)
(* the tabs it changes at most whether a sweep is asked for.                *)
LEMMA OthersKept ==
    ASSUME TypeOK, NEW o \in Outputs, OutputStep(o)
    PROVE  /\ Alive(o)
           /\ \A p \in Outputs : p # o =>
                 /\ out'[p] = out[p]
                 /\ p \in DOMAIN staging' <=> p \in DOMAIN staging
                 /\ staging'[p] = staging[p] \/ p \notin DOMAIN staging
           /\ \A t \in Tabs :
                 \/ tab'[t] = tab[t]
                 \/ /\ tab[t].swept = "no"
                    /\ tab'[t] = [tab[t] EXCEPT !.swept = "ask"]
  <1>1. Alive(o)
    BY DEF OutputStep, Output, Enqueue, Close, Abort, Runs, InsertSticks,
       LateDrop, GrantLock, Create, StartBatch, Insert, CloseWriter, Drained,
       Swap, SwapFails, DropStaging, ReleaseLock
  <1>2. ASSUME NEW p \in Outputs, p # o PROVE out'[p] = out[p]
    BY <1>2 DEF TypeOK, OutputStep, Output, Enqueue, Close, Abort, Runs, InsertSticks,
       LateDrop, GrantLock, Create, StartBatch, Insert, CloseWriter, Drained,
       Swap, SwapFails, DropStaging, ReleaseLock, Set
  <1>3. UNCHANGED staging \/ Drop(o) \/ \E n : Put(o, n)
    BY DEF OutputStep, Output, Enqueue, Close, Abort, Runs, InsertSticks,
       LateDrop, GrantLock, Create, StartBatch, Insert, CloseWriter, Drained,
       Swap, SwapFails, DropStaging, ReleaseLock
  <1>4. ASSUME NEW p \in Outputs, p # o
        PROVE  /\ p \in DOMAIN staging' <=> p \in DOMAIN staging
               /\ staging'[p] = staging[p] \/ p \notin DOMAIN staging
    BY <1>3, <1>4 DEF Drop, Put, Restrict
  <1>5. ASSUME NEW t \in Tabs
        PROVE  \/ tab'[t] = tab[t]
               \/ /\ tab[t].swept = "no"
                  /\ tab'[t] = [tab[t] EXCEPT !.swept = "ask"]
    <2>1. CASE Output(o)
      <3>1. TabOf[o] \in Tabs /\ tab[TabOf[o]] \in Clients
        BY OutputsAssumption DEF TypeOK
      <3>2. tab' = [tab EXCEPT ![TabOf[o]] = [tab[TabOf[o]] EXCEPT !.swept =
                       IF tab[TabOf[o]].swept = "no" THEN "ask" ELSE tab[TabOf[o]].swept]]
        BY <2>1 DEF Output
      <3>3. tab[TabOf[o]].swept # "no" =>
               [tab[TabOf[o]] EXCEPT !.swept = tab[TabOf[o]].swept] = tab[TabOf[o]]
        BY <3>1 DEF Clients
      <3> QED
        BY <3>1, <3>2, <3>3 DEF TypeOK
    <2>2. CASE UNCHANGED tab
      BY <2>2
    <2> QED
      BY <2>1, <2>2 DEF OutputStep, Enqueue, Close, Abort, Runs, InsertSticks,
         LateDrop, GrantLock, Create, StartBatch, Insert, CloseWriter, Drained,
         Swap, SwapFails, DropStaging, ReleaseLock
  <1> QED
    BY <1>1, <1>2, <1>4, <1>5

(* Which tabs live is no business of an output.                             *)
LEMMA OutputsKillNobody ==
    ASSUME TypeOK, NEW o \in Outputs, OutputStep(o), NEW p \in Outputs
    PROVE  Alive(p)' <=> Alive(p)
  <1>1. TabOf[p] \in Tabs /\ tab[TabOf[p]] \in Clients
    BY OutputsAssumption DEF TypeOK
  <1>2. \/ tab'[TabOf[p]] = tab[TabOf[p]]
        \/ tab'[TabOf[p]] = [tab[TabOf[p]] EXCEPT !.swept = "ask"]
    BY <1>1, OthersKept
  <1>3. tab'[TabOf[p]].alive = tab[TabOf[p]].alive
    BY <1>1, <1>2 DEF Clients
  <1> QED
    BY <1>3 DEF Alive

(* What a step of a writer does to the rest of its output: nothing but the  *)
(* last flush, and the counts that matter to its table.                     *)
LEMMA WriterEffect ==
    ASSUME TypeOK, WritersOK, NEW o \in Outputs,
           \/ Enqueue(o) \/ StartBatch(o) \/ Insert(o) \/ InsertSticks(o)
           \/ Abort(o) \/ CloseWriter(o)
    PROVE  /\ out'[o].lock = out[o].lock /\ out'[o].created = out[o].created
           /\ out'[o].lateDrop = out[o].lateDrop
           /\ \/ out'[o].at = out[o].at /\ out[o].at \notin {"swapped", "ok"}
              \/ out[o].at = "close" /\ out'[o].at = "drain"
              \/ /\ out[o].at = "close" /\ out[o].created = "failed"
                 /\ out'[o].at = "drop"
           /\ out[o].w.aborted => out'[o].w.aborted
           /\ \/ /\ out'[o].w.written = out[o].w.written
                 /\ \/ staging' = staging
                    \/ out[o].w.aborted /\ Exists(o) /\ \E n : Put(o, n)
              \/ LET n == Head(out[o].w.queue)
                 IN /\ out'[o].w.written = out[o].w.written + n
                    /\ Exists(o) /\ Put(o, staging[o] + n)
  <1> DEFINE c == out[o]
             w == c.w
  <1>1. /\ c \in Calls /\ w \in Writers /\ WriterAdds(w) /\ WriterStage(c)
        /\ out \in [Outputs -> Calls]
    BY WriterTyped DEF TypeOK
  <1>2. ASSUME NEW v, Set(o, v)
        PROVE  /\ out'[o].lock = c.lock /\ out'[o].created = c.created
               /\ out'[o].lateDrop = c.lateDrop /\ out'[o].at = c.at
               /\ out'[o].w = v
    BY <1>1, <1>2 DEF Set, Calls
  <1>3. CASE Enqueue(o)
    <2>1. w.queuedRows < QueueSize
      <3>1. ~(w.queuedRows >= QueueSize)
        BY <1>1, <1>3 DEF WriterStage, Enqueue
      <3>2. w.queuedRows \in Nat /\ QueueSize \in Nat
        BY <1>1, OutputsAssumption DEF Writers
      <3> QED
        BY <3>1, <3>2
    <2>2. Enqueued(w).written = w.written /\ Enqueued(w).aborted = w.aborted
      BY <1>1, <2>1, EnqueuedAdds
    <2>3. Set(o, Enqueued(w)) /\ c.at = "open" /\ staging' = staging
      BY <1>3 DEF Enqueue
    <2> QED
      BY <1>2, <2>2, <2>3
  <1>4. CASE StartBatch(o)
    <2>1. /\ w.queue # <<>> /\ c.at \notin {"swapped", "ok"}
          /\ staging' = staging
      BY <1>1, <1>4 DEF StartBatch, WriterStage
    <2>2. CASE w.failure \/ w.aborted
      <3>1. Skipped(w).aborted = w.aborted /\ Skipped(w).written = w.written
        BY <1>1, <2>1, <2>2, SkippedAdds DEF Finishes
      <3>2. Set(o, Skipped(w))
        BY <1>4, <2>2 DEF StartBatch
      <3> QED
        BY <1>2, <2>1, <3>1, <3>2
    <2>3. CASE ~(w.failure \/ w.aborted)
      <3> DEFINE v == [w EXCEPT !.running = TRUE]
      <3>1. v.aborted = w.aborted /\ v.written = w.written
        BY <1>1 DEF Writers
      <3>2. Set(o, v)
        BY <1>4, <2>3 DEF StartBatch
      <3> QED
        BY <1>2, <2>1, <3>1, <3>2
    <2> QED
      BY <2>2, <2>3
  <1>5. CASE Insert(o)
    <2>1. w.queue # <<>> /\ c.at \notin {"swapped", "ok"}
      BY <1>1, <1>5 DEF Insert, WriterAdds, WriterStage
    <2>2. Landed(w).aborted = w.aborted /\ Rejected(w).aborted = w.aborted
      BY <1>1, <2>1, LandedAdds, RejectedAdds DEF Finishes
    <2>3. /\ Landed(w).written = w.written + Head(w.queue)
          /\ Rejected(w).written = w.written
      BY <1>1, <2>1, LandedAdds, RejectedAdds
    <2>4. CASE /\ Set(o, Landed(w)) /\ Exists(o)
               /\ Put(o, staging[o] + Head(w.queue))
      BY <1>2, <2>1, <2>2, <2>3, <2>4
    <2>5. CASE /\ Set(o, Rejected(w))
               /\ \/ staging' = staging
                  \/ w.aborted /\ Exists(o) /\ \E n : Put(o, n)
      BY <1>2, <2>1, <2>2, <2>3, <2>5
    <2> QED
      BY <1>5, <2>4, <2>5 DEF Insert
  <1>6. CASE InsertSticks(o)
    <2> DEFINE v == [w EXCEPT !.stuck = TRUE]
    <2>1. v.aborted = w.aborted /\ v.written = w.written
      BY <1>1 DEF Writers
    <2>2. Set(o, v) /\ c.at \notin {"swapped", "ok"} /\ staging' = staging
      BY <1>1, <1>6 DEF InsertSticks, WriterAdds, WriterStage
    <2> QED
      BY <1>2, <2>1, <2>2
  <1>7. CASE Abort(o)
    <2>1. Aborted(w).aborted /\ Aborted(w).written = w.written
      BY <1>1 DEF Writers, Aborted, ReleaseRoom
    <2>2. /\ Set(o, Aborted(w)) /\ c.at \in {"open", "close", "drain"}
          /\ staging' = staging
      BY <1>7 DEF Abort
    <2> QED
      BY <1>2, <2>1, <2>2
  <1>8. CASE CloseWriter(o)
    <2>1. CASE c.created = "failed"
      <3>1. /\ out' = [out EXCEPT ![o] = [c EXCEPT !.at = "drop"]] /\ c.at = "close"
            /\ staging' = staging
        BY <1>8, <2>1 DEF CloseWriter
      <3> QED
        BY <1>1, <2>1, <3>1 DEF Calls
    <2>2. CASE c.created # "failed"
      <3> DEFINE v == IF w.rows > 0 THEN Flush(w) ELSE w
      <3>1. out' = [out EXCEPT ![o] = [c EXCEPT !.at = "drain", !.w = v]]
        BY <1>8, <2>2 DEF CloseWriter
      <3>2. v.aborted = w.aborted /\ v.written = w.written
        BY <1>1 DEF Flush, Writers
      <3>3. c.at = "close" /\ staging' = staging
        BY <1>8 DEF CloseWriter
      <3> HIDE DEF v
      <3>4. /\ out'[o].lock = c.lock /\ out'[o].created = c.created
            /\ out'[o].lateDrop = c.lateDrop /\ out'[o].at = "drain"
            /\ out'[o].w = v
        BY <1>1, <3>1 DEF Calls
      <3> QED
        BY <3>2, <3>3, <3>4
    <2> QED
      BY <2>1, <2>2
  <1> QED
    BY <1>3, <1>4, <1>5, <1>6, <1>7, <1>8

Live(o) ==
    Alive(o) /\ out[o].created = "yes"
        /\ out[o].at \in {"open", "close", "drain", "swap"} => Exists(o)

(* A step of an output keeps its own table, its own lock and the promise    *)
(* that its table is there.                                                 *)
LEMMA OwnStep ==
    ASSUME TypeOK, WritersOK, NEW o \in Outputs, OutputStep(o),
           TableAgrees(o), LockCovers(o), Live(o)
    PROVE  TableAgrees(o)' /\ LockCovers(o)' /\ Live(o)'
  <1> DEFINE c == out[o]
             d == out'[o]
  <1>1. /\ c \in Calls /\ c.w \in Writers /\ WriterAdds(c.w) /\ WriterStage(c)
        /\ out \in [Outputs -> Calls]
    BY WriterTyped DEF TypeOK
  <1>2. Alive(o) /\ Alive(o)'
    BY OthersKept, OutputsKillNobody
  <1>3. CASE Output(o)
    <2>1. /\ c.at = "none" /\ d.at = "open" /\ d.lock = "asked" /\ d.w = c.w
          /\ d.created = c.created /\ d.lateDrop = c.lateDrop
          /\ staging' = staging
      BY <1>1, <1>3 DEF Output, Calls
    <2> QED
      BY <1>2, <2>1 DEF TableAgrees, LockCovers, Live, Exists
  <1>4. CASE GrantLock(o)
    <2>1. /\ d.at = c.at /\ d.lock = "held" /\ d.w = c.w
          /\ d.created = c.created /\ d.lateDrop = c.lateDrop
          /\ staging' = staging
      BY <1>1, <1>4 DEF GrantLock, Calls
    <2> QED
      BY <1>2, <2>1 DEF TableAgrees, LockCovers, Live, Exists
  <1>5. CASE Create(o)
    <2>1. /\ d.at = c.at /\ d.lock = c.lock /\ c.lock = "held" /\ d.w = c.w
          /\ c.at # "none" /\ c.created = "no" /\ d.lateDrop = c.lateDrop
          /\ \/ d.created = "yes" /\ Put(o, 0)
             \/ d.created = "failed" /\ UNCHANGED staging
      BY <1>1, <1>5 DEF Create, Calls
    <2>2. c.w.written = 0 /\ ~Exists(o)
      BY <1>1, <2>1 DEF WriterStage, TableAgrees
    <2> QED
      BY <1>2, <2>1, <2>2 DEF TableAgrees, LockCovers, Live, Exists, Put
  <1>6. CASE \/ Enqueue(o) \/ StartBatch(o) \/ Insert(o) \/ InsertSticks(o)
             \/ Abort(o) \/ CloseWriter(o)
    <2>1. /\ d.lock = c.lock /\ d.created = c.created /\ d.lateDrop = c.lateDrop
          /\ \/ d.at = c.at
             \/ c.at = "close" /\ d.at = "drain"
             \/ c.at = "close" /\ c.created = "failed" /\ d.at = "drop"
          /\ c.w.aborted => d.w.aborted
          /\ \/ /\ d.w.written = c.w.written
                /\ \/ staging' = staging
                   \/ c.w.aborted /\ Exists(o) /\ \E n : Put(o, n)
             \/ LET n == Head(c.w.queue)
                IN /\ d.w.written = c.w.written + n
                   /\ Exists(o) /\ Put(o, staging[o] + n)
      BY <1>6, WriterEffect
    <2>2. Exists(o)' <=> Exists(o)
      BY <2>1 DEF Exists, Put
    <2>3. TableAgrees(o)'
      <3>1. ASSUME Exists(o) PROVE d.w.aborted \/ staging'[o] = d.w.written
        BY <2>1, <3>1 DEF TableAgrees, Exists, Put
      <3> QED
        BY <2>1, <2>2, <3>1 DEF TableAgrees
    <2>4. LockCovers(o)' /\ Live(o)'
      BY <1>2, <2>1, <2>2 DEF LockCovers, Live
    <2> QED
      BY <2>3, <2>4
  <1>7. CASE Close(o) \/ Drained(o) \/ SwapFails(o)
    <2>1. /\ d.lock = c.lock /\ d.w = c.w /\ d.created = c.created
          /\ d.lateDrop = c.lateDrop
          /\ c.at \in {"open", "drain", "swap"} /\ d.at \in {"close", "drop", "swap"}
          /\ staging' = staging
      BY <1>1, <1>7 DEF Close, Drained, SwapFails, Calls
    <2> QED
      BY <1>2, <2>1 DEF TableAgrees, LockCovers, Live, Exists
  <1>8. CASE Swap(o) \/ DropStaging(o) \/ LateDrop(o)
    <2>1. /\ d.lock = c.lock /\ d.w = c.w /\ d.created = c.created
          /\ \/ c.at = "swap" /\ d.at = "swapped" /\ d.lateDrop = c.lateDrop
             \/ c.at = "drop" /\ d.at = "release"
             \/ c.lateDrop /\ d.at = c.at /\ d.lateDrop = FALSE
          /\ staging' = staging \/ Drop(o)
      BY <1>1, <1>8 DEF Swap, DropStaging, LateDrop, Calls
    <2>2. Exists(o)' => Exists(o) /\ staging'[o] = staging[o]
      BY <2>1 DEF Exists, Drop, Restrict
    <2> QED
      BY <1>2, <2>1, <2>2 DEF TableAgrees, LockCovers, Live
  <1>9. CASE ReleaseLock(o)
    <2>1. /\ d.lock = "released" /\ d.w = c.w /\ d.created = c.created
          /\ d.lateDrop = c.lateDrop
          /\ (c.at = "release" /\ d.at = "rejected") \/ (c.at = "swapped" /\ d.at = "ok")
          /\ staging' = staging
      BY <1>1, <1>9 DEF ReleaseLock, Calls
    <2> QED
      BY <1>2, <2>1 DEF TableAgrees, LockCovers, Live, Exists
  <1> QED
    BY <1>3, <1>4, <1>5, <1>6, <1>7, <1>8, <1>9 DEF OutputStep, Runs

(* What no step undoes: a table once created, a close() once settled, a tab *)
(* once dead; and no table of a dead tab comes to be.                       *)
Onward(o) ==
    /\ out[o].created = "yes" => out'[o].created = "yes"
    /\ out[o].at \in {"ok", "rejected"} => out'[o].at \in {"ok", "rejected"}
    /\ ~Alive(o) => ~Alive(o)'
    /\ ~Alive(o) /\ Exists(o)' => Exists(o)

(* The steps of a sweep: they drop a table at most, one that the sweep has  *)
(* found stale, and touch no output.                                        *)
LEMMA SweepEffect ==
    ASSUME TypeOK, NEW t \in Tabs, Sweeps(t) \/ SweepFails(t)
    PROVE  /\ out' = out /\ target' = target
           /\ \A o \in Outputs : Alive(o)' <=> Alive(o)
           /\ \A u \in Tabs : u # t => tab'[u] = tab[u]
           /\ \A o \in Outputs :
                 \/ /\ Exists(o)' <=> Exists(o)
                    /\ Exists(o) => staging'[o] = staging[o]
                 \/ /\ ~Exists(o)'
                    /\ tab[t].alive /\ tab[t].swept = "drop"
                    /\ o \in tab[t].tables
  <1>1. out' = out /\ target' = target
    BY DEF Sweeps, SweepAsk, SweepFirst, SweepSecond, SweepDrop, SweepFails
  <1>2. tab[t] \in Clients
    BY DEF TypeOK
  <1> DEFINE Own ==
        \A u \in Tabs : /\ u # t => tab'[u] = tab[u]
                        /\ tab'[u].alive = tab[u].alive
  <1>3. ASSUME NEW r, Sweep(t, r), r.alive = tab[t].alive PROVE Own
    BY <1>3 DEF Sweep, TypeOK
  <1>4. Own
    <2> HIDE DEF Own
    <2>1. CASE SweepAsk(t)
      <3> DEFINE r1 == [tab[t] EXCEPT !.swept = "yes"]
                 r2 == [tab[t] EXCEPT !.swept = "first",
                          !.due = {o \in Outputs : Exists(o) /\ ~Alive(o)}]
      <3>1. r1.alive = tab[t].alive /\ r2.alive = tab[t].alive
        BY <1>2 DEF Clients
      <3>2. Sweep(t, r1) \/ Sweep(t, r2)
        BY <2>1 DEF SweepAsk
      <3> QED
        BY <1>3, <3>1, <3>2
    <2>2. \A what : Reading(tab[t], what).alive = tab[t].alive
      BY <1>2 DEF Reading, Clients
    <2>3. \A what : Reading(tab[t], what) \in Clients
      BY <1>2 DEF Reading, Clients, HeldLocks
    <2>4. CASE SweepFirst(t)
      <3> DEFINE r == Reading(tab[t], SweepPlan[1])
                 v == [r EXCEPT !.swept =
                         IF SweepPlan[1] = "tables" /\ r.tables = {} THEN "yes"
                         ELSE "second"]
      <3>1. v.alive = tab[t].alive
        BY <2>2, <2>3 DEF Clients
      <3>2. Sweep(t, v)
        BY <2>4 DEF SweepFirst
      <3> QED
        BY <1>3, <3>1, <3>2
    <2>5. CASE SweepSecond(t)
      <3> DEFINE r == Reading(tab[t], SweepPlan[2])
                 v == [r EXCEPT !.swept = "drop", !.tables = Stale(r.tables, r.held)]
      <3>1. v.alive = tab[t].alive
        BY <2>2, <2>3 DEF Clients
      <3>2. Sweep(t, v)
        BY <2>5 DEF SweepSecond
      <3> QED
        BY <1>3, <3>1, <3>2
    <2>6. CASE SweepDrop(t)
      <3>1. PICK r \in {[tab[t] EXCEPT !.swept = "yes"]}
                       \cup {[tab[t] EXCEPT !.tables = @ \ {o}] : o \in tab[t].tables} :
               Sweep(t, r)
        BY <2>6 DEF SweepDrop
      <3>2. r.alive = tab[t].alive
        BY <1>2, <3>1 DEF Clients
      <3> QED
        BY <1>3, <3>1, <3>2
    <2>7. CASE SweepFails(t)
      <3>1. [tab[t] EXCEPT !.swept = "failed"].alive = tab[t].alive
        BY <1>2 DEF Clients
      <3> QED
        BY <1>3, <2>7, <3>1 DEF SweepFails
    <2> QED
      BY <2>1, <2>4, <2>5, <2>6, <2>7 DEF Sweeps
  <1>5. \A o \in Outputs : Alive(o)' <=> Alive(o)
    <2>1. \A u \in Tabs : tab'[u].alive = tab[u].alive
      BY <1>4
    <2>2. \A o \in Outputs : TabOf[o] \in Tabs
      BY OutputsAssumption
    <2> QED
      BY <2>1, <2>2 DEF Alive
  <1>6. \/ staging' = staging
        \/ /\ tab[t].alive /\ tab[t].swept = "drop"
           /\ \E o \in tab[t].tables : Drop(o)
    BY DEF Sweeps, SweepAsk, SweepFirst, SweepSecond, SweepDrop, SweepFails
  <1>7. ASSUME NEW o \in Outputs
        PROVE  \/ /\ Exists(o)' <=> Exists(o)
                  /\ Exists(o) => staging'[o] = staging[o]
               \/ /\ ~Exists(o)'
                  /\ tab[t].alive /\ tab[t].swept = "drop"
                  /\ o \in tab[t].tables
    BY <1>6 DEF Exists, Drop, Restrict
  <1> QED
    BY <1>1, <1>4, <1>5, <1>7

(* The steps of a sweep keep what is said of the outputs: it drops nothing  *)
(* that is still in use.                                                    *)
LEMMA SweepSpares ==
    ASSUME TypeOK, NEW t \in Tabs, Sweeps(t) \/ SweepFails(t), SweepsKnow,
           NEW o \in Outputs, TableAgrees(o), LockCovers(o), Live(o)
    PROVE  TableAgrees(o)' /\ LockCovers(o)' /\ Live(o)' /\ Onward(o)
  <1>1. /\ out' = out /\ (Alive(o)' <=> Alive(o))
        /\ \/ /\ Exists(o)' <=> Exists(o)
              /\ Exists(o) => staging'[o] = staging[o]
           \/ /\ ~Exists(o)'
              /\ tab[t].alive /\ tab[t].swept = "drop"
              /\ o \in tab[t].tables
    BY SweepEffect
  <1>2. \/ Exists(o)' <=> Exists(o)
        \/ ~Alive(o) \/ out[o].at \in {"ok", "rejected"}
    BY <1>1 DEF SweepsKnow, SweepKnows
  <1>3. TableAgrees(o)'
    BY <1>1 DEF TableAgrees
  <1>4. LockCovers(o)'
    BY <1>1 DEF LockCovers
  <1>5. Live(o)'
    BY <1>1, <1>2 DEF Live
  <1>6. Onward(o)
    BY <1>1 DEF Onward
  <1> QED
    BY <1>3, <1>4, <1>5, <1>6

(* A tab that dies takes its locks along, and nobody else's.                *)
LEMMA DeathSpares ==
    ASSUME TypeOK, NEW t \in Tabs, TabDies(t),
           NEW o \in Outputs, TableAgrees(o), LockCovers(o), Live(o)
    PROVE  TableAgrees(o)' /\ LockCovers(o)' /\ Live(o)' /\ Onward(o)
  <1>1. /\ TabOf[o] \in Tabs /\ tab[TabOf[o]] \in Clients /\ tab[t] \in Clients
        /\ out[o] \in Calls
    BY OutputsAssumption DEF TypeOK
  <1>2. Alive(o)' <=> Alive(o) /\ TabOf[o] # t
    BY <1>1 DEF TabDies, Alive, TypeOK, Clients
  <1>3. /\ out'[o].at = out[o].at /\ out'[o].created = out[o].created
        /\ out'[o].w = out[o].w /\ out'[o].lateDrop = out[o].lateDrop
        /\ staging' = staging
    BY <1>1 DEF TabDies, Calls
  <1>4. /\ TabOf[o] # t => out'[o].lock = out[o].lock
        /\ TabOf[o] = t => out'[o].lock # "held"
    BY <1>1 DEF TabDies, Calls
  <1>5. Exists(o)' <=> Exists(o)
    BY <1>3 DEF Exists
  <1>6. TableAgrees(o)'
    BY <1>3, <1>5 DEF TableAgrees
  <1>7. LockCovers(o)'
    BY <1>2, <1>3, <1>4 DEF LockCovers
  <1>8. Live(o)' /\ Onward(o)
    BY <1>2, <1>3, <1>5 DEF Live, Onward
  <1> QED
    BY <1>6, <1>7, <1>8

(* A step of an output keeps what is said of that output and of every       *)
(* other.                                                                   *)
LEMMA OutputSpares ==
    ASSUME TypeOK, WritersOK, NEW p \in Outputs, OutputStep(p),
           NEW o \in Outputs, TableAgrees(o), LockCovers(o), Live(o)
    PROVE  TableAgrees(o)' /\ LockCovers(o)' /\ Live(o)' /\ Onward(o)
  <1>1. (Alive(o)' <=> Alive(o)) /\ Alive(p)
    BY OutputsKillNobody, OthersKept
  <1>2. CASE o = p
    <2>1. TableAgrees(o)' /\ LockCovers(o)' /\ Live(o)'
      BY <1>2, OwnStep
    <2>2. /\ out[o].created = "yes" => out'[o].created = "yes"
          /\ out[o].at \in {"ok", "rejected"} => out'[o].at \in {"ok", "rejected"}
      <3>1. CASE \/ Enqueue(o) \/ StartBatch(o) \/ Insert(o) \/ InsertSticks(o)
                 \/ Abort(o) \/ CloseWriter(o)
        <4>1. /\ out'[o].created = out[o].created
              /\ out'[o].at = out[o].at \/ out[o].at = "close"
          BY <3>1, WriterEffect
        <4> QED
          BY <4>1
      <3>2. CASE \/ Output(o) \/ GrantLock(o) \/ Create(o) \/ Close(o) \/ Drained(o)
                 \/ SwapFails(o) \/ Swap(o) \/ DropStaging(o) \/ LateDrop(o)
                 \/ ReleaseLock(o)
        BY <3>2 DEF TypeOK, Calls, Output, GrantLock, Create, Close, Drained,
           SwapFails, Swap, DropStaging, LateDrop, ReleaseLock
      <3> QED
        BY <1>2, <3>1, <3>2 DEF OutputStep, Runs
    <2> QED
      BY <1>1, <1>2, <2>1, <2>2 DEF Onward
  <1>3. CASE o # p
    <2>1. /\ out'[o] = out[o] /\ (Exists(o)' <=> Exists(o))
          /\ Exists(o) => staging'[o] = staging[o]
      BY <1>3, OthersKept DEF Exists
    <2>2. TableAgrees(o)'
      BY <2>1 DEF TableAgrees
    <2>3. LockCovers(o)'
      BY <1>1, <2>1 DEF LockCovers
    <2>4. Live(o)' /\ Onward(o)
      BY <1>1, <2>1 DEF Live, Onward
    <2> QED
      BY <2>2, <2>3, <2>4
  <1> QED
    BY <1>2, <1>3

(* A sweep that is not the one to move still knows what it knew.            *)
LEMMA SweepKept ==
    ASSUME TypeOK, NEW u \in Tabs, SweepKnows(u), \A o \in Outputs : Onward(o),
           tab'[u].tables = tab[u].tables, tab'[u].due = tab[u].due,
           tab'[u].alive => tab[u].alive,
           \/ tab'[u].swept = tab[u].swept
           \/ tab[u].swept = "no" /\ tab'[u].swept = "ask"
    PROVE  SweepKnows(u)'
  <1>1. tab[u].tables \subseteq Outputs /\ tab[u].due \subseteq Outputs
    BY DEF TypeOK, Clients
  <1>2. \A o \in Outputs :
           /\ out[o].created = "yes" => out'[o].created = "yes"
           /\ out[o].at \in {"ok", "rejected"} => out'[o].at \in {"ok", "rejected"}
           /\ ~Alive(o) => ~Alive(o)' /\ (Exists(o)' => Exists(o))
    BY DEF Onward
  <1>3. \A o \in tab[u].due : ~Alive(o) /\ ~Alive(o)' /\ (Exists(o)' => Exists(o))
    BY <1>1, <1>2 DEF SweepKnows
  <1> QED
    BY <1>1, <1>2, <1>3 DEF SweepKnows

(* The sweep that moves knows what it has to: it reads the tables before    *)
(* the locks, so a table it read that is not held has no output left.       *)
LEMMA SweepMoves ==
    ASSUME TypeOK, NEW t \in Tabs, Sweeps(t) \/ SweepFails(t),
           SweepKnows(t), TablesAgree, LocksCover
    PROVE  SweepKnows(t)'
  <1> DEFINE r == tab[t]
  <1>1. r \in Clients /\ tab \in [Tabs -> Clients]
    BY DEF TypeOK
  <1>2. /\ out' = out
        /\ \A o \in Outputs : (Alive(o)' <=> Alive(o)) /\ (Exists(o)' => Exists(o))
    BY SweepEffect
  <1>3. r.tables \subseteq Outputs /\ r.due \subseteq Outputs
    BY <1>1 DEF Clients
  <1>4. ASSUME NEW v, Sweep(t, v) PROVE tab'[t] = v
    BY <1>1, <1>4 DEF Sweep
  <1>5. CASE SweepAsk(t)
    <2> DEFINE due == {o \in Outputs : Exists(o) /\ ~Alive(o)}
               v == [r EXCEPT !.swept = "yes"]
               x == [r EXCEPT !.swept = "first", !.due = due]
    <2>1. Sweep(t, v) \/ Sweep(t, x)
      BY <1>5 DEF SweepAsk
    <2>2. /\ v.swept = "yes" /\ v.due = r.due /\ v.tables = r.tables
          /\ x.swept = "first" /\ x.due = due
      BY <1>1 DEF Clients
    <2>3. r.due = {}
      BY <1>5 DEF SweepAsk, SweepKnows
    <2> QED
      BY <1>2, <1>4, <2>1, <2>2, <2>3 DEF SweepKnows
  <1>6. CASE SweepFirst(t)
    <2> DEFINE tables == {o \in Outputs : Exists(o)}
               v == [Reading(r, "tables") EXCEPT !.swept =
                       IF tables = {} THEN "yes" ELSE "second"]
    <2>1. Sweep(t, v)
      <3>1. Reading(r, SweepPlan[1]).tables = tables /\ SweepPlan[1] = "tables"
        BY <1>1 DEF Reading, SweepPlan, Clients
      <3> QED
        BY <1>6, <3>1 DEF SweepFirst
    <2>2. v.swept = (IF tables = {} THEN "yes" ELSE "second")
          /\ v.due = r.due /\ v.tables = tables
      BY <1>1 DEF Clients, Reading
    <2>3. \A o \in tables : out[o].created = "yes"
      BY DEF TablesAgree, TableAgrees
    <2>4. \A o \in r.due : ~Alive(o) /\ (Exists(o) => o \in tables)
      BY <1>3 DEF SweepKnows
    <2> HIDE DEF tables, v
    <2>5. tab'[t] = v
      BY <1>4, <2>1
    <2>6. v.tables \subseteq Outputs
      BY <2>2 DEF tables
    <2> QED
      BY <1>2, <1>3, <2>2, <2>3, <2>4, <2>5, <2>6 DEF SweepKnows
  <1>7. CASE SweepSecond(t)
    <2> DEFINE tables == Stale(r.tables, HeldLocks)
               v == [Reading(r, "held") EXCEPT !.swept = "drop", !.tables = tables]
    <2>1. Sweep(t, v)
      <3>1. /\ Reading(r, SweepPlan[2]).tables = r.tables
            /\ Reading(r, SweepPlan[2]).held = HeldLocks
            /\ SweepPlan[2] = "held"
        BY <1>1 DEF Reading, SweepPlan, Clients
      <3> QED
        BY <1>7, <3>1 DEF SweepSecond
    <2>2. v.swept = "drop" /\ v.due = r.due /\ v.tables = tables
      BY <1>1 DEF Clients, Reading
    <2>3. r.alive /\ r.swept = "second"
      BY <1>7 DEF SweepSecond
    <2>4. \A o \in tables : /\ o \in Outputs /\ out[o].created = "yes"
                             /\ out[o].lock # "held"
      BY <1>3, <2>3 DEF SweepKnows, Stale, HeldLocks
    <2>5. \A o \in tables : ~Alive(o) \/ out[o].at \in {"ok", "rejected"}
      BY <2>4 DEF LocksCover, LockCovers
    <2>6. \A o \in r.due : ~Alive(o) /\ (Exists(o) => o \in tables)
      BY <1>3, <2>3 DEF SweepKnows, Stale, HeldLocks, LocksCover, LockCovers
    <2> HIDE DEF tables, v
    <2>7. tab'[t] = v
      BY <1>4, <2>1
    <2> QED
      BY <1>2, <1>3, <2>2, <2>4, <2>5, <2>6, <2>7 DEF SweepKnows
  <1>8. CASE SweepDrop(t)
    <2>1. /\ r.alive /\ r.swept = "drop"
          /\ \A o \in r.due : ~Alive(o) /\ (Exists(o) => o \in r.tables)
          /\ \A o \in r.tables : /\ out[o].created = "yes"
                                 /\ ~Alive(o) \/ out[o].at \in {"ok", "rejected"}
      BY <1>8 DEF SweepDrop, SweepKnows
    <2>2. CASE r.tables = {} /\ Sweep(t, [r EXCEPT !.swept = "yes"])
      <3> DEFINE v == [r EXCEPT !.swept = "yes"]
      <3>1. v.swept = "yes" /\ v.due = r.due /\ v.tables = r.tables
        BY <1>1 DEF Clients
      <3>2. tab'[t] = v
        BY <1>4, <2>2
      <3> HIDE DEF v
      <3> QED
        BY <1>2, <1>3, <2>1, <2>2, <3>1, <3>2 DEF SweepKnows
    <2>3. ASSUME NEW p \in r.tables, Drop(p),
                 Sweep(t, [r EXCEPT !.tables = @ \ {p}])
          PROVE  SweepKnows(t)'
      <3> DEFINE v == [r EXCEPT !.tables = @ \ {p}]
      <3>1. v.swept = "drop" /\ v.due = r.due /\ v.tables = r.tables \ {p}
        BY <1>1, <2>1 DEF Clients
      <3>2. tab'[t] = v
        BY <1>4, <2>3
      <3>3. ~Exists(p)'
        BY <2>3 DEF Exists, Drop, Restrict
      <3> HIDE DEF v
      <3> QED
        BY <1>2, <1>3, <2>1, <3>1, <3>2, <3>3 DEF SweepKnows
    <2> QED
      BY <1>8, <2>2, <2>3 DEF SweepDrop
  <1>9. CASE SweepFails(t)
    <2> DEFINE v == [r EXCEPT !.swept = "failed"]
    <2>1. v.swept = "failed" /\ v.due = r.due
      BY <1>1 DEF Clients
    <2>2. tab'[t] = v
      BY <1>4, <1>9 DEF SweepFails
    <2> HIDE DEF v
    <2> QED
      BY <1>2, <1>3, <2>1, <2>2 DEF SweepKnows
  <1> QED
    BY <1>5, <1>6, <1>7, <1>8, <1>9 DEF Sweeps

-----------------------------------------------------------------------------
(* The target.                                                              *)

(* An output that was swapped in has nothing left to write.                 *)
LEMMA SwappedIsStill ==
    ASSUME TypeOK, WritersOK, NEW o \in Outputs, NEW p \in Outputs, OutputStep(p),
           out[o].at \in {"swapped", "ok"}
    PROVE  out'[o].at \in {"swapped", "ok"} /\ out'[o].w.written = out[o].w.written
  <1>1. CASE o # p
    BY <1>1, OthersKept
  <1>2. CASE o = p
    <2>1. CASE \/ Enqueue(o) \/ StartBatch(o) \/ Insert(o) \/ InsertSticks(o)
               \/ Abort(o) \/ CloseWriter(o)
      <3>1. \/ out'[o].at = out[o].at /\ out[o].at \notin {"swapped", "ok"}
            \/ out[o].at = "close"
        BY <2>1, WriterEffect
      <3> QED
        BY <3>1
    <2>2. CASE \/ Output(o) \/ GrantLock(o) \/ Create(o) \/ Close(o) \/ Drained(o)
               \/ SwapFails(o) \/ Swap(o) \/ DropStaging(o) \/ LateDrop(o)
               \/ ReleaseLock(o)
      BY <2>2 DEF TypeOK, Calls, Output, GrantLock, Create, Close, Drained,
         SwapFails, Swap, DropStaging, LateDrop, ReleaseLock
    <2> QED
      BY <1>2, <2>1, <2>2 DEF OutputStep, Runs
  <1> QED
    BY <1>1, <1>2

(* The target changes only in a swap, to a table that holds what its output *)
(* wrote.                                                                   *)
LEMMA TargetStep ==
    ASSUME TypeOK, WritersOK, TablesAgree, TargetSwapped, [Next]_vars
    PROVE  TargetSwapped'
  <1>1. target.of \in Outputs \cup {Old}
    BY DEF TypeOK
  <1>2. CASE \E t \in Tabs : Sweeps(t) \/ SweepFails(t)
    <2>1. out' = out /\ target' = target
      BY <1>2, SweepEffect
    <2> QED
      BY <2>1 DEF TargetSwapped
  <1>3. ASSUME NEW t \in Tabs, TabDies(t) PROVE TargetSwapped'
    <2>1. target' = target
      BY <1>3 DEF TabDies
    <2>2. ASSUME NEW o \in Outputs
          PROVE  out'[o].at = out[o].at /\ out'[o].w = out[o].w
      BY <1>3 DEF TabDies, TypeOK, Calls
    <2> QED
      BY <1>1, <2>1, <2>2 DEF TargetSwapped
  <1>4. ASSUME NEW p \in Outputs, OutputStep(p) PROVE TargetSwapped'
    <2>1. CASE Swap(p)
      <3>1. /\ target' = [of |-> p, rows |-> staging[p]]
            /\ out'[p].at = "swapped" /\ out'[p].w = out[p].w
            /\ out[p].at = "swap" /\ Exists(p)
        BY <2>1 DEF Swap, TypeOK, Calls
      <3>2. ~out[p].w.aborted
        BY <3>1, WriterTyped DEF WriterStage
      <3>3. staging[p] = out[p].w.written
        BY <3>1, <3>2 DEF TablesAgree, TableAgrees
      <3> QED
        BY <3>1, <3>3 DEF TargetSwapped
    <2>2. CASE target' = target
      <3>1. CASE target.of = Old
        BY <2>2, <3>1 DEF TargetSwapped
      <3>2. CASE target.of # Old
        <4>1. target.of \in Outputs
          BY <1>1, <3>2
        <4>2. /\ out[target.of].at \in {"swapped", "ok"}
              /\ target.rows = out[target.of].w.written
          BY <3>2 DEF TargetSwapped
        <4>3. /\ out'[target.of].at \in {"swapped", "ok"}
              /\ out'[target.of].w.written = out[target.of].w.written
          BY <1>4, <4>1, <4>2, SwappedIsStill
        <4> QED
          BY <2>2, <4>2, <4>3 DEF TargetSwapped
      <3> QED
        BY <3>1, <3>2
    <2> QED
      BY <1>4, <2>1, <2>2 DEF OutputStep, Output, Enqueue, Close, Abort, Runs,
         InsertSticks, LateDrop, GrantLock, Create, StartBatch, Insert,
         CloseWriter, Drained, SwapFails, DropStaging, ReleaseLock
  <1>5. CASE UNCHANGED vars
    BY <1>5 DEF vars, TargetSwapped
  <1> QED
    BY <1>2, <1>3, <1>4, <1>5 DEF Next, OutputStep

(* The invariant at the start.                                              *)
LEMMA InitIInv ==
    ASSUME Init
    PROVE  IInv
  <1>1. TypeOK /\ WritersOK
    BY InitWriters
  <1>2. /\ DOMAIN staging = {} /\ target.of = Old
        /\ \A o \in Outputs : /\ out[o].at = "none" /\ out[o].lock = "none"
                              /\ out[o].created = "no" /\ ~out[o].lateDrop
        /\ \A t \in Tabs : tab[t].swept = "no" /\ tab[t].due = {}
    BY DEF Init
  <1>3. TablesAgree /\ LocksCover /\ LiveIsSpared
    BY <1>2 DEF TablesAgree, TableAgrees, LocksCover, LockCovers, LiveIsSpared, Exists
  <1>4. SweepsKnow
    BY <1>2 DEF SweepsKnow, SweepKnows
  <1>5. TargetSwapped
    BY <1>2 DEF TargetSwapped
  <1> QED
    BY <1>1, <1>3, <1>4, <1>5 DEF IInv, WritersOK

(* The invariant is kept by every step.                                     *)
LEMMA StepIInv ==
    ASSUME IInv, [Next]_vars
    PROVE  IInv'
  <1>1. /\ TypeOK /\ WritersOK /\ SweepsKnow /\ TablesAgree /\ LocksCover
        /\ TargetSwapped
        /\ \A o \in Outputs : TableAgrees(o) /\ LockCovers(o) /\ Live(o)
    BY DEF IInv, WritersOK, TablesAgree, LocksCover, LiveIsSpared, Live
  <1>2. TypeOK' /\ WritersOK' /\ TargetSwapped'
    BY <1>1, StepWriters, TargetStep
  <1> DEFINE Kept ==
        \A o \in Outputs :
           TableAgrees(o)' /\ LockCovers(o)' /\ Live(o)' /\ Onward(o)
  <1>3. Kept => TablesAgree' /\ LocksCover' /\ LiveIsSpared'
    BY DEF TablesAgree, LocksCover, LiveIsSpared, Live
  <1>4. ASSUME NEW t \in Tabs, Sweeps(t) \/ SweepFails(t)
        PROVE  Kept /\ SweepsKnow'
    <2>1. Kept
      BY <1>1, <1>4, SweepSpares
    <2>2. ASSUME NEW u \in Tabs PROVE SweepKnows(u)'
      <3>1. CASE u = t
        BY <1>1, <1>4, <3>1, SweepMoves DEF SweepsKnow
      <3>2. CASE u # t
        <4>1. tab'[u] = tab[u]
          BY <1>1, <1>4, <3>2, SweepEffect
        <4>2. SweepKnows(u) /\ \A o \in Outputs : Onward(o)
          BY <1>1, <2>1 DEF SweepsKnow
        <4> QED
          BY <1>1, <4>1, <4>2, SweepKept
      <3> QED
        BY <3>1, <3>2
    <2> QED
      BY <2>1, <2>2 DEF SweepsKnow
  <1>5. ASSUME NEW t \in Tabs, TabDies(t)
        PROVE  Kept /\ SweepsKnow'
    <2>1. Kept
      BY <1>1, <1>5, DeathSpares
    <2>2. ASSUME NEW u \in Tabs PROVE SweepKnows(u)'
      <3>1. /\ tab'[u].tables = tab[u].tables /\ tab'[u].due = tab[u].due
            /\ tab'[u].alive => tab[u].alive
            /\ tab'[u].swept = tab[u].swept
        BY <1>1, <1>5 DEF TabDies, TypeOK, Clients
      <3>2. SweepKnows(u) /\ \A o \in Outputs : Onward(o)
        BY <1>1, <2>1 DEF SweepsKnow
      <3> QED
        BY <1>1, <3>1, <3>2, SweepKept
    <2> QED
      BY <2>1, <2>2 DEF SweepsKnow
  <1>6. ASSUME NEW p \in Outputs, OutputStep(p)
        PROVE  Kept /\ SweepsKnow'
    <2>1. Kept
      BY <1>1, <1>6, OutputSpares
    <2>2. ASSUME NEW u \in Tabs PROVE SweepKnows(u)'
      <3>1. /\ tab'[u].tables = tab[u].tables /\ tab'[u].due = tab[u].due
            /\ tab'[u].alive = tab[u].alive
            /\ \/ tab'[u].swept = tab[u].swept
               \/ tab[u].swept = "no" /\ tab'[u].swept = "ask"
        <4>1. /\ tab[u] \in Clients
              /\ \/ tab'[u] = tab[u]
                 \/ /\ tab[u].swept = "no"
                    /\ tab'[u] = [tab[u] EXCEPT !.swept = "ask"]
          BY <1>1, <1>6, OthersKept DEF TypeOK
        <4> QED
          BY <4>1 DEF Clients
      <3>2. SweepKnows(u) /\ \A o \in Outputs : Onward(o)
        BY <1>1, <2>1 DEF SweepsKnow
      <3> QED
        BY <1>1, <3>1, <3>2, SweepKept
    <2> QED
      BY <2>1, <2>2 DEF SweepsKnow
  <1>7. CASE UNCHANGED vars
    BY <1>1, <1>2, <1>7 DEF vars, IInv, WritersOK, TablesAgree, TableAgrees,
       LocksCover, LockCovers, SweepsKnow, SweepKnows, LiveIsSpared, Exists, Alive
  <1>8. CASE Next
    <2>1. Kept /\ SweepsKnow'
      BY <1>4, <1>5, <1>6, <1>8 DEF Next, OutputStep
    <2> QED
      BY <1>2, <1>3, <2>1 DEF IInv, WritersOK
  <1> QED
    BY <1>7, <1>8

(* Every behaviour keeps the invariant.                                     *)
LEMMA AlwaysIInv == Spec => []IInv
  <1>1. Init => IInv
    BY InitIInv
  <1>2. IInv /\ [Next]_vars => IInv'
    BY StepIInv
  <1> QED
    BY <1>1, <1>2, PTL DEF Spec

(* For any outputs of any number of tabs, whatever fails, is aborted or     *)
(* dies: readers find the old target, or one with every row its output was  *)
(* given.                                                                   *)
THEOREM TargetIsWhole == Spec => []TargetWhole
  <1>1. IInv => TargetWhole
    <2> SUFFICES ASSUME IInv, target.of # Old
                 PROVE  /\ target.rows = out[target.of].w.given
                        /\ out[target.of].w.notWritten = 0
      BY DEF TargetWhole
    <2> DEFINE o == target.of
               w == out[o].w
    <2>1. /\ out[o].at \in {"swapped", "ok"} /\ target.rows = w.written
          /\ o \in Outputs
      BY DEF IInv, TargetSwapped, TypeOK
    <2>2. w \in Writers /\ WriterAdds(w) /\ WriterStage(out[o])
      BY <2>1, WriterTyped DEF IInv, WritersOK
    <2>3. w.queue = <<>> /\ ~w.failure /\ ~w.aborted /\ w.rows = 0
      BY <2>1, <2>2 DEF WriterStage
    <2>4. w.notWritten = 0 /\ Queued(w) = 0
      BY <2>2, <2>3, QueuedEmpty DEF WriterAdds
    <2>5. w.given = w.written + w.notWritten + w.rows + Queued(w)
      BY <2>2 DEF WriterAdds
    <2>6. w.written \in Nat
      BY <2>2 DEF Writers
    <2> QED
      BY <2>1, <2>3, <2>4, <2>5, <2>6
  <1> QED
    BY <1>1, AlwaysIInv, PTL

(* For any number of tabs: no sweep takes the table of an output at work,   *)
(* and a sweep that ran to its end took all those of the tabs that were     *)
(* dead.                                                                    *)
THEOREM SweepsTakeOrphans == Spec => []SweepTakesOrphans
  <1>1. IInv => SweepTakesOrphans
    BY DEF IInv, SweepsKnow, SweepKnows, SweepTakesOrphans, SweepCollects
  <1> QED
    BY <1>1, AlwaysIInv, PTL
=============================================================================
