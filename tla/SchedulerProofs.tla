--------------------------- MODULE SchedulerProofs ---------------------------
(***************************************************************************)
(* What the scheduler guarantees for every pool size, every set of requests *)
(* and every writer policy, as long as no slot is removed between a grant   *)
(* and its lease.  Then Statements, inside one worker: no statement is used *)
(* after its finalize, none leaks, and nothing runs in a mode it was not    *)
(* asked for in, for any cache bounds, any number of verdicts and any set   *)
(* of addresses.  The two share no state.                                   *)
(***************************************************************************)
EXTENDS Scheduler, Statements, SequenceTheorems, WellFoundedInduction, TLAPS

(* The parts of TypeOK that concern a request, and the rest.                *)
LEMMA GateType ==
    ASSUME NEW g \in Gates, NEW i \in Slots,
           NEW how \in {"opened", "failed", "declined"}
    PROVE  SettleGateSlot(g, i, how) \in Gates
  BY DEF SettleGateSlot, Recorded, FirstSettle, Failed, Gates, GateStates

(* takeAvailable only ever returns a free worker.                           *)
LEMMA TakeableAvailable ==
    ASSUME NEW write \in BOOLEAN, NEW w, NEW i \in Takeable(write, w)
    PROVE  i \in available
  BY DEF Takeable, Usable

LEMMA SpliceType ==
    ASSUME NEW S, NEW s \in Seq(S), NEW n \in 1 .. Len(s)
    PROVE  /\ Splice(s, n) \in Seq(S)
           /\ Len(Splice(s, n)) = Len(s) - 1
           /\ \A m \in 1 .. Len(s) - 1 :
                 Splice(s, n)[m] = IF m < n THEN s[m] ELSE s[m + 1]
  BY DEF Splice

(* A waiter leaves position n of queue q, and nobody else stops or starts   *)
(* waiting: every queue is left with exactly its waiters.                   *)
LEMMA WaiterLeaves ==
    ASSUME TypeOK, QueuesHoldWaiters,
           NEW q \in QueueNames, NEW n \in 1 .. Len(queue[q]),
           Len(queue'[q]) = Len(queue[q]) - 1,
           \A m \in 1 .. Len(queue[q]) - 1 :
               queue'[q][m] = IF m < n THEN queue[q][m] ELSE queue[q][m + 1],
           \A p \in QueueNames \ {q} : queue'[p] = queue[p],
           \A x \in Requests :
               st'[x] = "queued" <=> st[x] = "queued" /\ x # queue[q][n],
           kind' = kind
    PROVE  QueuesHoldWaiters'
  <1> DEFINE h == queue[q][n]
             from(m) == IF m < n THEN m ELSE m + 1
  <1>1. queue[q] \in Seq(Requests) /\ Len(queue[q]) \in Nat /\ n \in Nat
    BY DEF TypeOK
  <1>2. st[h] = "queued" /\ QueueOf(kind[h]) = q
    BY DEF QueuesHoldWaiters
  <1>3. \A m \in 1 .. Len(queue'[q]) :
           /\ from(m) \in 1 .. Len(queue[q])
           /\ from(m) # n
           /\ queue'[q][m] = queue[q][from(m)]
    BY <1>1
  <1>4. ASSUME NEW p \in QueueNames, NEW k \in 1 .. Len(queue'[p])
        PROVE  /\ st'[queue'[p][k]] = "queued"
               /\ QueueOf(kind'[queue'[p][k]]) = p
               /\ \A m \in 1 .. Len(queue'[p]) :
                     queue'[p][m] = queue'[p][k] => m = k
    <2>1. CASE p = q
      <3>1. from(k) \in 1 .. Len(queue[q]) /\ queue[q][from(k)] \in Requests
        BY <1>1, <1>3, <1>4, <2>1
      <3>2. /\ queue[q][from(k)] # h
            /\ st[queue[q][from(k)]] = "queued"
            /\ QueueOf(kind[queue[q][from(k)]]) = q
        BY <1>3, <1>4, <2>1, <3>1 DEF QueuesHoldWaiters
      <3>3. ASSUME NEW m \in 1 .. Len(queue'[p]), queue'[p][m] = queue'[p][k]
            PROVE  m = k
        <4>1. from(m) \in 1 .. Len(queue[q])
              /\ queue[q][from(m)] = queue[q][from(k)]
          BY <1>3, <1>4, <2>1, <3>3
        <4>2. from(m) = from(k)
          BY <3>1, <4>1 DEF QueuesHoldWaiters
        <4> QED BY <1>1, <1>4, <2>1, <3>3, <4>2
      <3> QED BY <1>3, <1>4, <2>1, <3>1, <3>2, <3>3
    <2>2. CASE p # q
      <3>1. queue'[p] = queue[p] /\ queue[p] \in Seq(Requests)
        BY <1>4, <2>2 DEF TypeOK
      <3>2. queue[p][k] \in Requests
        BY <1>4, <3>1
      <3>3. st[queue[p][k]] = "queued" /\ QueueOf(kind[queue[p][k]]) = p
        BY <1>4, <3>1 DEF QueuesHoldWaiters
      <3>4. \A m \in 1 .. Len(queue[p]) : queue[p][m] = queue[p][k] => m = k
        BY <1>4, <3>1 DEF QueuesHoldWaiters
      <3> QED BY <1>2, <2>2, <3>1, <3>2, <3>3, <3>4
    <2> QED BY <2>1, <2>2
  <1>5. ASSUME NEW r \in Requests, st'[r] = "queued"
        PROVE  \E k \in 1 .. Len(queue'[QueueOf(kind'[r])]) :
                   queue'[QueueOf(kind'[r])][k] = r
    <2>1. r # h /\ st[r] = "queued"
      BY <1>5
    <2>2. PICK k \in 1 .. Len(queue[QueueOf(kind[r])]) :
                 queue[QueueOf(kind[r])][k] = r
      BY <2>1 DEF QueuesHoldWaiters
    <2>3. CASE QueueOf(kind[r]) = q
      <3> DEFINE to == IF k < n THEN k ELSE k - 1
      <3>1. k # n /\ k \in 1 .. Len(queue[q])
        BY <2>1, <2>2, <2>3
      <3>2. to \in 1 .. Len(queue'[q]) /\ from(to) = k
        BY <1>1, <3>1
      <3>3. queue'[q][to] = r
        BY <1>3, <2>2, <2>3, <3>2
      <3> QED BY <2>3, <3>2, <3>3
    <2>4. CASE QueueOf(kind[r]) # q
      <3>1. QueueOf(kind[r]) \in QueueNames
        BY DEF TypeOK, QueueOf, Kinds, QueueNames
      <3> QED BY <2>2, <2>4, <3>1
    <2> QED BY <2>3, <2>4
  <1> QED BY <1>4, <1>5 DEF QueuesHoldWaiters

(* Serving the head of a queue keeps the types and leaves every queue with  *)
(* exactly its waiters.                                                     *)
LEMMA ServeQueues ==
    ASSUME TypeOK, QueuesHoldWaiters,
           NEW q \in QueueNames, NEW i \in Slots, NEW b \in Nat,
           NEW s \in [Requests -> States],
           \A x \in Requests : s[x] = "queued" <=> st[x] = "queued",
           Serve(q, i, b, s), UNCHANGED kind
    PROVE  /\ Head(queue[q]) \in Requests
           /\ st[Head(queue[q])] = "queued"
           /\ QueueOf(kind[Head(queue[q])]) = q
           /\ queue' \in [QueueNames -> Seq(Requests)]
           /\ st' \in [Requests -> States]
           /\ at' \in [Requests -> Slots]
           /\ born' \in [Requests -> Nat]
           /\ QueuesHoldWaiters'
  <1> DEFINE h == Head(queue[q])
  <1>1. /\ queue[q] \in Seq(Requests) /\ Len(queue[q]) \in Nat
        /\ Len(queue[q]) > 0 /\ h = queue[q][1] /\ h \in Requests
    BY DEF TypeOK, Serve
  <1>2. st[h] = "queued" /\ QueueOf(kind[h]) = q
    BY <1>1 DEF QueuesHoldWaiters
  <1>3. /\ queue' \in [QueueNames -> Seq(Requests)]
        /\ st' \in [Requests -> States]
        /\ at' \in [Requests -> Slots]
        /\ born' \in [Requests -> Nat]
    BY <1>1 DEF TypeOK, Serve, States
  <1>4. /\ Len(queue'[q]) = Len(queue[q]) - 1
        /\ \A m \in 1 .. Len(queue[q]) - 1 : queue'[q][m] = queue[q][m + 1]
        /\ \A p \in QueueNames \ {q} : queue'[p] = queue[p]
    BY <1>1 DEF TypeOK, Serve
  <1>5. \A x \in Requests : st'[x] = "queued" <=> st[x] = "queued" /\ x # h
    BY <1>1 DEF Serve
  <1>6. 1 \in 1 .. Len(queue[q])
    BY <1>1
  <1>7. \A m \in 1 .. Len(queue[q]) - 1 :
            queue'[q][m] = IF m < 1 THEN queue[q][m] ELSE queue[q][m + 1]
    BY <1>1, <1>4
  <1>8. QueuesHoldWaiters'
    BY <1>1, <1>4, <1>5, <1>6, <1>7, WaiterLeaves
  <1> QED BY <1>1, <1>2, <1>3, <1>8

(* Nobody stops or starts waiting.                                          *)
LEMMA QueuesUnmoved ==
    ASSUME TypeOK, QueuesHoldWaiters, queue' = queue,
           \A x \in Requests : st'[x] = "queued" <=> st[x] = "queued",
           \A x \in Requests : st[x] = "queued" => kind'[x] = kind[x]
    PROVE  QueuesHoldWaiters'
  <1>1. \A q \in QueueNames : \A n \in 1 .. Len(queue[q]) :
            queue[q][n] \in Requests
    BY DEF TypeOK
  <1> QED BY <1>1 DEF QueuesHoldWaiters

(* A request that was not waiting joins its queue.                          *)
LEMMA WaiterJoins ==
    ASSUME TypeOK, QueuesHoldWaiters, NEW r \in Requests, NEW q \in QueueNames,
           st[r] # "queued", QueueOf(kind'[r]) = q,
           \A x \in Requests \ {r} : kind'[x] = kind[x],
           queue' = [queue EXCEPT ![q] = Append(@, r)],
           st' = [st EXCEPT ![r] = "queued"]
    PROVE  QueuesHoldWaiters'
  <1>1. queue[q] \in Seq(Requests) /\ Len(queue[q]) \in Nat
    BY DEF TypeOK
  <1>2. /\ queue'[q] = Append(queue[q], r)
        /\ Len(queue'[q]) = Len(queue[q]) + 1
        /\ \A m \in 1 .. Len(queue[q]) : queue'[q][m] = queue[q][m]
        /\ queue'[q][Len(queue[q]) + 1] = r
        /\ \A p \in QueueNames \ {q} : queue'[p] = queue[p]
    BY <1>1 DEF TypeOK
  <1>3. \A p \in QueueNames : \A k \in 1 .. Len(queue[p]) :
           /\ queue[p][k] \in Requests \ {r}
           /\ st'[queue[p][k]] = "queued"
           /\ QueueOf(kind'[queue[p][k]]) = p
    <2> SUFFICES ASSUME NEW p \in QueueNames, NEW k \in 1 .. Len(queue[p])
                 PROVE  /\ queue[p][k] \in Requests \ {r}
                        /\ st'[queue[p][k]] = "queued"
                        /\ QueueOf(kind'[queue[p][k]]) = p
      OBVIOUS
    <2>1. queue[p] \in Seq(Requests)
      BY DEF TypeOK
    <2>2. queue[p][k] \in Requests
      BY <2>1
    <2>3. st[queue[p][k]] = "queued" /\ QueueOf(kind[queue[p][k]]) = p
      BY DEF QueuesHoldWaiters
    <2> QED BY <2>2, <2>3 DEF TypeOK
  <1>4. ASSUME NEW p \in QueueNames, NEW k \in 1 .. Len(queue'[p])
        PROVE  /\ st'[queue'[p][k]] = "queued"
               /\ QueueOf(kind'[queue'[p][k]]) = p
               /\ \A m \in 1 .. Len(queue'[p]) :
                     queue'[p][m] = queue'[p][k] => m = k
    <2>1. CASE p # q
      BY <1>2, <1>3, <1>4, <2>1 DEF QueuesHoldWaiters
    <2>2. CASE p = q /\ k = Len(queue[q]) + 1
      <3>1. queue'[p][k] = r /\ st'[r] = "queued"
        BY <1>2, <2>2 DEF TypeOK
      <3>2. \A m \in 1 .. Len(queue[q]) : queue'[q][m] # r
        BY <1>2, <1>3
      <3> QED BY <1>1, <1>2, <2>2, <3>1, <3>2
    <2>3. CASE p = q /\ k # Len(queue[q]) + 1
      <3>1. k \in 1 .. Len(queue[q]) /\ queue'[q][k] = queue[q][k]
        BY <1>1, <1>2, <1>4, <2>3
      <3>2. \A m \in 1 .. Len(queue[q]) : queue[q][m] = queue[q][k] => m = k
        BY <3>1 DEF QueuesHoldWaiters
      <3>3. \A m \in 1 .. Len(queue'[p]) : queue'[p][m] = queue'[p][k] => m = k
        <4> SUFFICES ASSUME NEW m \in 1 .. Len(queue'[p]),
                            queue'[p][m] = queue'[p][k]
                     PROVE  m = k
          OBVIOUS
        <4>1. m # Len(queue[q]) + 1
          BY <1>2, <1>3, <2>3, <3>1
        <4> QED BY <1>1, <1>2, <2>3, <3>1, <3>2, <4>1
      <3> QED BY <1>3, <2>3, <3>1, <3>3
    <2> QED BY <2>1, <2>2, <2>3
  <1>5. ASSUME NEW x \in Requests, st'[x] = "queued"
        PROVE  \E k \in 1 .. Len(queue'[QueueOf(kind'[x])]) :
                   queue'[QueueOf(kind'[x])][k] = x
    <2>1. CASE x = r
      BY <1>1, <1>2, <2>1
    <2>2. CASE x # r
      <3>1. st[x] = "queued" /\ kind'[x] = kind[x]
        BY <1>5, <2>2 DEF TypeOK
      <3>2. PICK k \in 1 .. Len(queue[QueueOf(kind[x])]) :
                   queue[QueueOf(kind[x])][k] = x
        BY <3>1 DEF QueuesHoldWaiters
      <3>3. QueueOf(kind[x]) \in QueueNames
        BY DEF TypeOK, QueueOf, Kinds, QueueNames
      <3> QED BY <1>1, <1>2, <3>1, <3>2, <3>3
    <2> QED BY <2>1, <2>2
  <1> QED BY <1>4, <1>5 DEF QueuesHoldWaiters

-----------------------------------------------------------------------------
(***************************************************************************)
(* The inductive invariant                                                  *)
(***************************************************************************)

(* Until the gate settles, a slot waits to settle exactly when its worker   *)
(* is still opening, every ready worker counts as opened, and nobody has    *)
(* been let through.                                                        *)
GateInv ==
    gate.state = "closed" =>
        /\ \A i \in Slots : slot[i] = "pending" <=> i \notin gate.settled
        /\ \A i \in Slots : slot[i] = "ready" => i \in gate.opened
        /\ \A r \in Requests : st[r] \in {"idle", "gated", "rejected"}

(* A grant is for the worker now in the slot, and a lease carries the       *)
(* generation its worker joined at.                                         *)
GenInv ==
    /\ \A r \in Requests : st[r] \in {"granted", "holding"} => born[r] <= gen[at[r]]
    /\ \A r \in Requests : st[r] = "granted" => born[r] = gen[at[r]]
    /\ \A r \in Requests : st[r] = "holding" => lgen[r] = born[r]

(* Who has a worker, and who is free.                                       *)
OwnInv ==
    /\ \A i \in available : slot[i] = "ready"
    /\ \A r \in Requests, i \in Slots :
          Owns(r, i) => slot[i] = "ready" /\ i \notin available
    /\ LeaseExclusive
    /\ \A i \in Slots : slot[i] = "ready" =>
          i \in available \/ \E r \in Requests : Owns(r, i)

(* The designation.                                                         *)
WriterInv ==
    /\ writer # NoWriter => slot[writer] = "ready" /\ writer \notin available
    /\ \A r \in Requests :
          Owns(r, at[r]) /\ kind[r] = "write" /\ r \notin demoted
              => writer = at[r]

IInv ==
    TypeOK /\ QueuesHoldWaiters /\ GateInv /\ GenInv /\ OwnInv /\ WriterInv

-----------------------------------------------------------------------------
(***************************************************************************)
(* What the blocks shared by several actions do                             *)
(***************************************************************************)

(* Slot i's worker, which joined at generation b, either goes to a waiter h *)
(* or becomes free.  s is st as the caller left it.                         *)
Handed(i, b, s) ==
    \/ \E h \in Requests :
          /\ st[h] = "queued"
          /\ st' = [s EXCEPT ![h] = "granted"]
          /\ at' = [at EXCEPT ![h] = i]
          /\ born' = [born EXCEPT ![h] = b]
          /\ available' = available
          /\ kind[h] = "write" => writer' = i
    \/ /\ st' = s
       /\ UNCHANGED <<at, born>>
       /\ available' = available \cup {i}

(* The designation moves to slot i only when nobody held it, and leaves it  *)
(* only for nobody.                                                         *)
Redesignated(i) ==
    \/ writer' = writer
    \/ writer = NoWriter /\ writer' = i /\ available' = available
    \/ writer = i /\ writer' = NoWriter

LEMMA QueueKinds ==
    ASSUME NEW k \in Kinds
    PROVE  QueueOf(k) \in QueueNames /\ (QueueOf(k) = "write" <=> k = "write")
  BY DEF Kinds, QueueOf, QueueNames

LEMMA HandOverEffect ==
    ASSUME TypeOK, QueuesHoldWaiters,
           NEW i \in Slots, NEW b \in Nat, NEW s \in [Requests -> States],
           \A x \in Requests : s[x] = "queued" <=> st[x] = "queued",
           HandOver(i, b, s), UNCHANGED kind
    PROVE  /\ queue' \in [QueueNames -> Seq(Requests)]
           /\ st' \in [Requests -> States]
           /\ at' \in [Requests -> Slots]
           /\ born' \in [Requests -> Nat]
           /\ available' \in SUBSET Slots
           /\ writer' \in Slots \cup {NoWriter}
           /\ lastWriter' \in Slots \cup {NoWriter}
           /\ QueuesHoldWaiters'
           /\ Handed(i, b, s)
           /\ Redesignated(i)
           /\ available' # available => writer' # i
  <1> USE DEF QueueNames
  <1>1. i # NoWriter
    BY PoolSizeAssumption DEF Slots, NoWriter
  <1>2. CASE /\ Serve("verdict", i, b, s)
             /\ writer' = IF queue["write"] = <<>> THEN Undesignated(i) ELSE writer
             /\ UNCHANGED <<available, lastWriter>>
    <2>1. /\ Head(queue["verdict"]) \in Requests
          /\ kind[Head(queue["verdict"])] # "write"
          /\ st[Head(queue["verdict"])] = "queued"
          /\ queue' \in [QueueNames -> Seq(Requests)]
          /\ st' \in [Requests -> States]
          /\ at' \in [Requests -> Slots]
          /\ born' \in [Requests -> Nat]
          /\ QueuesHoldWaiters'
      BY <1>2, ServeQueues DEF QueueOf
    <2>2. Handed(i, b, s)
      BY <1>2, <2>1 DEF Handed, Serve
    <2> QED BY <1>2, <2>1, <2>2 DEF Undesignated, Redesignated, TypeOK
  <1>3. CASE ServeWriterFirst(i, b, s)
    <2>1. /\ Head(queue["write"]) \in Requests
          /\ st[Head(queue["write"])] = "queued"
          /\ queue' \in [QueueNames -> Seq(Requests)]
          /\ st' \in [Requests -> States]
          /\ at' \in [Requests -> Slots]
          /\ born' \in [Requests -> Nat]
          /\ QueuesHoldWaiters'
      BY <1>3, ServeQueues DEF ServeWriterFirst
    <2>2. Handed(i, b, s)
      BY <1>3, <2>1 DEF Handed, Serve, ServeWriterFirst
    <2> QED BY <1>3, <2>1, <2>2
            DEF ServeWriterFirst, MayServeWriter, Redesignated, TypeOK
  <1>4. CASE /\ writer' = Undesignated(i)
             /\ UNCHANGED lastWriter
             /\ Serve("read", i, b, s)
             /\ UNCHANGED available
    <2>1. /\ Head(queue["read"]) \in Requests
          /\ kind[Head(queue["read"])] # "write"
          /\ st[Head(queue["read"])] = "queued"
          /\ queue' \in [QueueNames -> Seq(Requests)]
          /\ st' \in [Requests -> States]
          /\ at' \in [Requests -> Slots]
          /\ born' \in [Requests -> Nat]
          /\ QueuesHoldWaiters'
      BY <1>4, ServeQueues DEF QueueOf
    <2>2. Handed(i, b, s)
      BY <1>4, <2>1 DEF Handed, Serve
    <2> QED BY <1>4, <2>1, <2>2 DEF Undesignated, Redesignated, TypeOK
  <1>5. CASE /\ writer' = Undesignated(i)
             /\ UNCHANGED lastWriter
             /\ available' = available \cup {i}
             /\ st' = s
             /\ UNCHANGED <<queue, at, born>>
    <2>1. QueuesHoldWaiters'
      BY <1>5, QueuesUnmoved
    <2>2. Handed(i, b, s)
      BY <1>5 DEF Handed
    <2> QED BY <1>1, <1>5, <2>1, <2>2 DEF Undesignated, Redesignated, TypeOK
  <1> QED BY <1>2, <1>3, <1>4, <1>5 DEF HandOver
(* add() hands the worker over in the same order, without taking the        *)
(* designation from anyone.                                                 *)
LEMMA AddEffect ==
    ASSUME TypeOK, QueuesHoldWaiters, NEW i \in Slots, Add(i)
    PROVE  /\ queue' \in [QueueNames -> Seq(Requests)]
           /\ st' \in [Requests -> States]
           /\ at' \in [Requests -> Slots]
           /\ born' \in [Requests -> Nat]
           /\ available' \in SUBSET Slots
           /\ writer' \in Slots \cup {NoWriter}
           /\ lastWriter' \in Slots \cup {NoWriter}
           /\ QueuesHoldWaiters'
           /\ Handed(i, gen[i], st)
           /\ Redesignated(i)
  <1> USE DEF QueueNames
  <1>1. gen[i] \in Nat /\ st \in [Requests -> States] /\ UNCHANGED kind
    BY DEF TypeOK, Add
  <1>2. CASE \E q \in {"verdict", "read"} : Serve(q, i, gen[i], st)
             /\ UNCHANGED <<available, writer, lastWriter>>
    <2>1. PICK q \in {"verdict", "read"} : Serve(q, i, gen[i], st)
      BY <1>2
    <2>2. /\ Head(queue[q]) \in Requests
          /\ kind[Head(queue[q])] # "write"
          /\ st[Head(queue[q])] = "queued"
          /\ queue' \in [QueueNames -> Seq(Requests)]
          /\ st' \in [Requests -> States]
          /\ at' \in [Requests -> Slots]
          /\ born' \in [Requests -> Nat]
          /\ QueuesHoldWaiters'
      BY <1>1, <2>1, ServeQueues DEF QueueOf
    <2>3. Handed(i, gen[i], st)
      BY <1>2, <2>1, <2>2 DEF Handed, Serve
    <2> QED BY <1>2, <2>2, <2>3 DEF Redesignated, TypeOK
  <1>3. CASE ServeWriterFirst(i, gen[i], st)
    <2>1. /\ Head(queue["write"]) \in Requests
          /\ st[Head(queue["write"])] = "queued"
          /\ queue' \in [QueueNames -> Seq(Requests)]
          /\ st' \in [Requests -> States]
          /\ at' \in [Requests -> Slots]
          /\ born' \in [Requests -> Nat]
          /\ QueuesHoldWaiters'
      BY <1>1, <1>3, ServeQueues DEF ServeWriterFirst
    <2>2. Handed(i, gen[i], st)
      BY <1>3, <2>1 DEF Handed, Serve, ServeWriterFirst
    <2> QED BY <1>3, <2>1, <2>2
            DEF ServeWriterFirst, MayServeWriter, Redesignated, TypeOK
  <1>4. CASE /\ available' = available \cup {i}
             /\ UNCHANGED <<queue, writer, lastWriter, st, at, born>>
    <2>1. QueuesHoldWaiters'
      BY <1>1, <1>4, QueuesUnmoved
    <2> QED BY <1>4, <2>1 DEF Handed, Redesignated, TypeOK
  <1> QED BY <1>2, <1>3, <1>4 DEF Add

(* Settling a slot at the gate respawns only slots whose worker failed.     *)
LEMMA SettledType ==
    ASSUME NEW i \in Slots, NEW how \in {"opened", "failed", "declined"},
           NEW s \in {"ready", "down", "retired"}, TypeOK,
           gate' = SettleGateSlot(gate, i, how),
           slot' = SettledSlots(i, s, gate, gate')
    PROVE  /\ gate' \in Gates
           /\ slot' \in [Slots -> {"pending", "ready", "down", "retired"}]
  BY GateType DEF SettledSlots, TypeOK

(* The part of acquire() behind the gate gives r a free worker or queues    *)
(* it.                                                                      *)
LEMMA TakeOrQueueEffect ==
    ASSUME TypeOK, QueuesHoldWaiters, NEW r \in Requests, NEW k \in Kinds,
           st[r] # "queued", TakeOrQueue(r, k),
           kind' \in [Requests -> Kinds], kind'[r] = k,
           \A x \in Requests \ {r} : kind'[x] = kind[x]
    PROVE  /\ queue' \in [QueueNames -> Seq(Requests)]
           /\ st' \in [Requests -> States]
           /\ at' \in [Requests -> Slots]
           /\ born' \in [Requests -> Nat]
           /\ lgen' \in [Requests -> Nat]
           /\ available' \in SUBSET Slots
           /\ leased' \in SUBSET Slots
           /\ writer' \in Slots \cup {NoWriter}
           /\ lastWriter' \in Slots \cup {NoWriter}
           /\ QueuesHoldWaiters'
  <1>1. CASE \E i \in Takeable(k = "write", writer) : Take(r, k, i)
    <2>1. PICK i \in Takeable(k = "write", writer) : Take(r, k, i)
      BY <1>1
    <2>2. i \in Slots
      BY TakeableAvailable DEF TypeOK
    <2>3. \A x \in Requests : st'[x] = "queued" <=> st[x] = "queued"
      BY <2>1 DEF TypeOK, Take
    <2>4. QueuesHoldWaiters'
      BY <2>1, <2>3, QueuesUnmoved DEF Take
    <2> QED BY <2>1, <2>2, <2>4 DEF TypeOK, States, Take
  <1>2. CASE Enqueue(r, k)
    <2>1. QueueOf(k) \in QueueNames
      BY QueueKinds
    <2>2. QueuesHoldWaiters'
      BY <1>2, <2>1, WaiterJoins DEF Enqueue
    <2>3. Append(queue[QueueOf(k)], r) \in Seq(Requests)
      BY <2>1 DEF TypeOK
    <2> QED BY <1>2, <2>1, <2>2, <2>3 DEF TypeOK, States, Enqueue
  <1> QED BY <1>1, <1>2 DEF TakeOrQueue

-----------------------------------------------------------------------------
(***************************************************************************)
(* Types and queues                                                         *)
(***************************************************************************)

(* TypeOK and QueuesHoldWaiters are inductive together, whatever calls land *)
(* between a grant and its lease.                                           *)
LEMMA QueuesStep ==
    TypeOK /\ QueuesHoldWaiters /\ [Next]_vars => TypeOK' /\ QueuesHoldWaiters'
  <1> SUFFICES ASSUME TypeOK, QueuesHoldWaiters, [Next]_vars
               PROVE  TypeOK' /\ QueuesHoldWaiters'
    OBVIOUS
  <1> USE DEF slotVars, poolVars, closeVars, reqVars
  <1>1. ASSUME NEW r \in Requests, NEW k \in Kinds, Acquire(r, k)
        PROVE  TypeOK' /\ QueuesHoldWaiters'
    <2>1. st[r] # "queued" /\ kind' \in [Requests -> Kinds] /\ kind'[r] = k
          /\ \A x \in Requests \ {r} : kind'[x] = kind[x]
      BY <1>1 DEF Acquire, TypeOK
    <2>2. CASE TakeOrQueue(r, k)
      BY <1>1, <2>1, <2>2, TakeOrQueueEffect DEF Acquire, TypeOK
    <2>3. CASE /\ \E s \in {"rejected", "gated"} : st' = [st EXCEPT ![r] = s]
               /\ UNCHANGED <<poolVars, at, born, lgen>>
      <3>1. \A x \in Requests : st'[x] = "queued" <=> st[x] = "queued"
        BY <2>1, <2>3 DEF TypeOK
      <3>2. \A x \in Requests : st[x] = "queued" => kind'[x] = kind[x]
        BY <2>1
      <3>3. QueuesHoldWaiters'
        BY <2>3, <3>1, <3>2, QueuesUnmoved
      <3> QED BY <1>1, <2>1, <2>3, <3>3 DEF Acquire, TypeOK, States
    <2> QED BY <1>1, <2>2, <2>3 DEF Acquire
  <1>2. ASSUME NEW r \in Requests, PassGate(r)
        PROVE  TypeOK' /\ QueuesHoldWaiters'
    <2>1. st[r] # "queued" /\ kind' \in [Requests -> Kinds] /\ kind'[r] = kind[r]
          /\ kind' = kind /\ kind[r] \in Kinds
      BY <1>2 DEF PassGate, TypeOK
    <2>2. CASE TakeOrQueue(r, kind[r])
      BY <1>2, <2>1, <2>2, TakeOrQueueEffect DEF PassGate, TypeOK
    <2>3. CASE st' = [st EXCEPT ![r] = "rejected"] /\ UNCHANGED <<poolVars, at, born, lgen>>
      <3>1. \A x \in Requests : st'[x] = "queued" <=> st[x] = "queued"
        BY <2>1, <2>3 DEF TypeOK
      <3>2. QueuesHoldWaiters'
        BY <2>1, <2>3, <3>1, QueuesUnmoved
      <3> QED BY <1>2, <2>1, <2>3, <3>2 DEF PassGate, TypeOK, States
    <2> QED BY <1>2, <2>2, <2>3 DEF PassGate
  <1>3. ASSUME NEW r \in Requests, Abort(r)
        PROVE  TypeOK' /\ QueuesHoldWaiters'
    <2>1. aborted' \in SUBSET Requests /\ kind' = kind
      BY <1>3 DEF Abort, TypeOK
    <2>2. CASE st[r] = "gated"
      <3>1. queue' = queue /\ st' \in [Requests -> States]
            /\ \A x \in Requests : st'[x] = "queued" <=> st[x] = "queued"
        BY <1>3, <2>2 DEF Abort, TypeOK, States
      <3>2. QueuesHoldWaiters'
        BY <2>1, <3>1, QueuesUnmoved
      <3> QED BY <1>3, <2>1, <3>1, <3>2 DEF Abort, TypeOK
    <2>3. CASE st[r] = "queued"
      <3> DEFINE q == QueueOf(kind[r])
      <3>1. q \in QueueNames /\ queue[q] \in Seq(Requests)
        BY QueueKinds DEF TypeOK
      <3>2. PICK n \in 1 .. Len(queue[q]) :
                   queue[q][n] = r /\ queue' = [queue EXCEPT ![q] = Splice(@, n)]
        BY <1>3, <2>3 DEF Abort
      <3>3. st' = [st EXCEPT ![r] = "rejected"]
        BY <1>3, <2>3 DEF Abort
      <3>4. /\ Splice(queue[q], n) \in Seq(Requests)
            /\ Len(Splice(queue[q], n)) = Len(queue[q]) - 1
            /\ \A m \in 1 .. Len(queue[q]) - 1 :
                  Splice(queue[q], n)[m] =
                      IF m < n THEN queue[q][m] ELSE queue[q][m + 1]
        BY <3>1, SpliceType
      <3>5. /\ queue'[q] = Splice(queue[q], n)
            /\ \A p \in QueueNames \ {q} : queue'[p] = queue[p]
            /\ queue' \in [QueueNames -> Seq(Requests)]
        BY <3>1, <3>2, <3>4 DEF TypeOK
      <3>6. \A x \in Requests :
               st'[x] = "queued" <=> st[x] = "queued" /\ x # queue[q][n]
        BY <3>2, <3>3 DEF TypeOK
      <3>7. /\ Len(queue'[q]) = Len(queue[q]) - 1
            /\ \A m \in 1 .. Len(queue[q]) - 1 :
                  queue'[q][m] = IF m < n THEN queue[q][m] ELSE queue[q][m + 1]
        BY <3>4, <3>5
      <3>8. QueuesHoldWaiters'
        BY <2>1, <3>1, <3>5, <3>6, <3>7, WaiterLeaves
      <3>9. st' \in [Requests -> States]
        BY <3>3 DEF TypeOK, States
      <3>10. UNCHANGED <<slotVars, closeVars, available, leased, writer,
                         lastWriter, at, born, lgen, demoted>>
        BY <1>3 DEF Abort
      <3> QED BY <2>1, <3>5, <3>8, <3>9, <3>10 DEF TypeOK
    <2> QED BY <1>3, <2>2, <2>3 DEF Abort
  <1>4. ASSUME NEW r \in Requests, MakeLease(r)
        PROVE  TypeOK' /\ QueuesHoldWaiters'
    <2>1. \A x \in Requests : st'[x] = "queued" <=> st[x] = "queued"
      BY <1>4 DEF MakeLease, TypeOK
    <2>2. QueuesHoldWaiters'
      BY <1>4, <2>1, QueuesUnmoved DEF MakeLease
    <2> QED BY <1>4, <2>2 DEF MakeLease, TypeOK, States
  <1>5. ASSUME NEW r \in Requests, Release(r)
        PROVE  TypeOK' /\ QueuesHoldWaiters'
    <2> DEFINE s == [st EXCEPT ![r] = "done"]
    <2>1. /\ s \in [Requests -> States]
          /\ \A x \in Requests : s[x] = "queued" <=> st[x] = "queued"
          /\ at[r] \in Slots /\ born[r] \in Nat /\ kind' = kind
          /\ drained' \in BOOLEAN /\ closing' \in BOOLEAN
      BY <1>5 DEF Release, Stale, TypeOK, States, CheckShutdown
    <2>2. CASE st' = s /\ UNCHANGED <<poolVars, at, born>>
      <3>1. QueuesHoldWaiters'
        BY <2>1, <2>2, QueuesUnmoved
      <3> QED BY <1>5, <2>1, <2>2, <3>1 DEF Release, Stale, TypeOK
    <2>3. CASE leased' = leased \ {at[r]} /\ HandOver(at[r], born[r], s)
      <3>1. /\ queue' \in [QueueNames -> Seq(Requests)]
            /\ st' \in [Requests -> States]
            /\ at' \in [Requests -> Slots]
            /\ born' \in [Requests -> Nat]
            /\ available' \in SUBSET Slots
            /\ writer' \in Slots \cup {NoWriter}
            /\ lastWriter' \in Slots \cup {NoWriter}
            /\ QueuesHoldWaiters'
        <4> HIDE DEF s
        <4> QED BY <2>1, <2>3, HandOverEffect
      <3> QED BY <1>5, <2>1, <2>3, <3>1 DEF Release, Stale, TypeOK
    <2> QED BY <1>5, <2>2, <2>3 DEF Release, Stale
  <1>6. ASSUME NEW r \in Requests, Demote(r)
        PROVE  TypeOK' /\ QueuesHoldWaiters'
    <2>1. demoted' \in SUBSET Requests /\ kind' = kind
      BY <1>6 DEF Demote, Stale, TypeOK
    <2>2. CASE writer' = NoWriter
               /\ UNCHANGED <<available, queue, lastWriter, st, at, born>>
      <3>1. QueuesHoldWaiters'
        BY <2>1, <2>2, QueuesUnmoved
      <3> QED BY <1>6, <2>1, <2>2, <3>1 DEF Demote, Stale, TypeOK
    <2>3. ASSUME NEW i \in Takeable(TRUE, NoWriter), Serve("write", i, gen[i], st),
                 available' = available \ {i}, writer' = i, lastWriter' = i
          PROVE  TypeOK' /\ QueuesHoldWaiters'
      <3>1. i \in Slots /\ gen[i] \in Nat /\ st \in [Requests -> States]
        BY TakeableAvailable DEF TypeOK
      <3>2. /\ queue' \in [QueueNames -> Seq(Requests)]
            /\ st' \in [Requests -> States]
            /\ at' \in [Requests -> Slots]
            /\ born' \in [Requests -> Nat]
            /\ QueuesHoldWaiters'
        BY <2>1, <2>3, <3>1, ServeQueues DEF QueueNames
      <3> QED BY <1>6, <2>1, <2>3, <3>1, <3>2 DEF Demote, Stale, TypeOK
    <2> QED BY <1>6, <2>2, <2>3 DEF Demote, Stale
  <1>7. ASSUME NEW r \in Requests, Offer(r)
        PROVE  TypeOK' /\ QueuesHoldWaiters'
    <2> DEFINE q == queue["verdict"]
    <2>1. q \in Seq(Requests) /\ "verdict" \in QueueNames
      BY DEF TypeOK, QueueNames
    <2>2. PICK n \in 1 .. Len(q) :
             /\ queue' = [queue EXCEPT !["verdict"] = Splice(@, n)]
             /\ st' = [st EXCEPT ![q[n]] = "lent"]
             /\ at' = [at EXCEPT ![q[n]] = at[r]]
             /\ born' = [born EXCEPT ![q[n]] = born[r]]
      BY <1>7 DEF Offer
    <2>3. /\ Splice(q, n) \in Seq(Requests)
          /\ Len(Splice(q, n)) = Len(q) - 1
          /\ \A m \in 1 .. Len(q) - 1 :
                Splice(q, n)[m] = IF m < n THEN q[m] ELSE q[m + 1]
      BY <2>1, SpliceType
    <2>4. /\ queue'["verdict"] = Splice(q, n)
          /\ \A p \in QueueNames \ {"verdict"} : queue'[p] = queue[p]
          /\ queue' \in [QueueNames -> Seq(Requests)]
      BY <2>1, <2>2, <2>3 DEF TypeOK
    <2>5. q[n] \in Requests
      BY <2>1
    <2>6. \A x \in Requests :
             st'[x] = "queued" <=> st[x] = "queued" /\ x # queue["verdict"][n]
      BY <2>2, <2>5 DEF TypeOK
    <2>7. kind' = kind
      BY <1>7 DEF Offer
    <2>8. /\ Len(queue'["verdict"]) = Len(q) - 1
          /\ \A m \in 1 .. Len(q) - 1 :
                queue'["verdict"][m] = IF m < n THEN q[m] ELSE q[m + 1]
      BY <2>3, <2>4
    <2>9. QueuesHoldWaiters'
      BY <2>1, <2>4, <2>6, <2>7, <2>8, WaiterLeaves
    <2>10. st' \in [Requests -> States] /\ at' \in [Requests -> Slots]
           /\ born' \in [Requests -> Nat]
      BY <2>2, <2>5 DEF TypeOK, States
    <2>11. UNCHANGED <<slotVars, closeVars, available, leased, writer,
                       lastWriter, kind, lgen, demoted, aborted>>
      BY <1>7 DEF Offer
    <2> QED BY <2>4, <2>9, <2>10, <2>11 DEF TypeOK
  <1>8. ASSUME NEW r \in Requests, EndLoan(r)
        PROVE  TypeOK' /\ QueuesHoldWaiters'
    <2>1. \A x \in Requests : st'[x] = "queued" <=> st[x] = "queued"
      BY <1>8 DEF EndLoan, TypeOK
    <2>2. QueuesHoldWaiters'
      BY <1>8, <2>1, QueuesUnmoved DEF EndLoan
    <2> QED BY <1>8, <2>2 DEF EndLoan, TypeOK, States
  <1>9. ASSUME NEW i \in Slots, Add(i)
        PROVE  TypeOK' /\ QueuesHoldWaiters'
    <2>1. gate' \in Gates
          /\ slot' \in [Slots -> {"pending", "ready", "down", "retired"}]
      BY <1>9, SettledType DEF Add
    <2> QED BY <1>9, <2>1, AddEffect DEF Add, TypeOK
  <1>10. ASSUME NEW i \in Slots, NEW how \in {"failed", "declined"},
                NEW s \in {"down", "retired"}, TakeOut(i, how, s)
         PROVE  TypeOK' /\ QueuesHoldWaiters'
    <2>1. gate' \in Gates
          /\ slot' \in [Slots -> {"pending", "ready", "down", "retired"}]
      BY <1>10, SettledType DEF TakeOut, NextGen
    <2>2. QueuesHoldWaiters'
      BY <1>10, QueuesUnmoved DEF TakeOut, NextGen
    <2>3. closing' \in BOOLEAN /\ drained' \in BOOLEAN
          /\ writer' \in Slots \cup {NoWriter}
          /\ lastWriter' \in Slots \cup {NoWriter}
      BY <1>10 DEF TakeOut, NextGen, TypeOK, CheckShutdown, FailsAtGate, Undesignated
    <2>4. gen' \in [Slots -> Nat]
      BY <1>10 DEF TakeOut, NextGen, TypeOK
    <2>5. available' \in SUBSET Slots /\ leased' \in SUBSET Slots
      BY <1>10 DEF TakeOut, NextGen, TypeOK
    <2>6. UNCHANGED <<queue, reqVars>>
      BY <1>10 DEF TakeOut, NextGen
    <2> QED BY <2>1, <2>2, <2>3, <2>4, <2>5, <2>6 DEF TypeOK
  <1>11. ASSUME NEW i \in Slots, Respawn(i)
         PROVE  TypeOK' /\ QueuesHoldWaiters'
    <2>1. QueuesHoldWaiters'
      BY <1>11, QueuesUnmoved DEF Respawn
    <2> QED BY <1>11, <2>1 DEF Respawn, TypeOK
  <1>12. CASE Shutdown
    <2>1. gate' \in Gates
      BY <1>12 DEF Shutdown, RejectGate, TypeOK, Gates, GateStates
    <2>2. \A x \in Requests : st'[x] # "queued"
      BY <1>12 DEF Shutdown
    <2>3. QueuesHoldWaiters'
      BY <1>12, <2>2 DEF Shutdown, QueuesHoldWaiters
    <2> QED BY <1>12, <2>1, <2>3 DEF Shutdown, TypeOK, States, CheckShutdown
  <1>13. CASE UNCHANGED vars
    <2>1. QueuesHoldWaiters'
      BY <1>13, QueuesUnmoved DEF vars
    <2> QED BY <1>13, <2>1 DEF vars, TypeOK
  <1> QED BY <1>1, <1>2, <1>3, <1>4, <1>5, <1>6, <1>7, <1>8, <1>9, <1>10,
             <1>11, <1>12, <1>13 DEF Next, RemoveSlot, Retire

LEMMA QueuesInit == Init => TypeOK /\ QueuesHoldWaiters
  <1> SUFFICES ASSUME Init PROVE TypeOK /\ QueuesHoldWaiters
    OBVIOUS
  <1>1. 0 \in Slots
    BY PoolSizeAssumption DEF Slots
  <1>2. ClosedGate \in Gates
    BY DEF ClosedGate, Gates, GateStates
  <1>3. queue \in [QueueNames -> Seq(Requests)]
    BY DEF Init
  <1>4. TypeOK
    BY <1>1, <1>2, <1>3 DEF Init, TypeOK, States, Kinds
  <1>5. QueuesHoldWaiters
    BY DEF Init, QueuesHoldWaiters
  <1> QED BY <1>4, <1>5

(* The scheduler's state stays well formed, and every queue holds exactly   *)
(* the requests that wait in it, whatever lands in the handoff window.      *)
THEOREM QueuesCorrect == Spec => [](TypeOK /\ QueuesHoldWaiters)
  BY QueuesInit, QueuesStep, PTL DEF Spec

(* No step leaves the types: the state variables of the scheduler keep the  *)
(* shapes scheduler.ts declares for them.                                   *)
THEOREM TypeCorrect == Spec => []TypeOK
  BY QueuesCorrect, PTL

-----------------------------------------------------------------------------
(***************************************************************************)
(* Ownership and the designation                                            *)
(***************************************************************************)

(* Slot i's worker, owned by nobody and not free, is handed over.           *)
LEMMA HandedOwnership ==
    ASSUME IInv, TypeOK', NEW i \in Slots, NEW s \in [Requests -> States],
           \A x \in Requests : s[x] \in {"queued", "granted", "holding"} =>
               s[x] = st[x],
           \A x \in Requests : st[x] = "queued" => s[x] = "queued",
           \A x \in Requests :
               s[x] \in {"granted", "holding"} /\ at[x] = i => born[x] # gen[i],
           \A x \in Requests : s[x] \notin {"granted", "holding"} =>
               ~Owns(x, at[x]) \/ at[x] = i,
           i \notin available, slot'[i] = "ready",
           \A j \in Slots \ {i} : slot'[j] = "ready" <=> slot[j] = "ready",
           Handed(i, gen[i], s), Redesignated(i),
           writer' = i => available' = available,
           UNCHANGED <<gen, kind, lgen, demoted>>
    PROVE  GenInv' /\ OwnInv' /\ WriterInv'
  <1> USE DEF IInv
  <1>1. CASE \E h \in Requests :
                /\ st[h] = "queued"
                /\ st' = [s EXCEPT ![h] = "granted"]
                /\ at' = [at EXCEPT ![h] = i]
                /\ born' = [born EXCEPT ![h] = gen[i]]
                /\ available' = available
                /\ kind[h] = "write" => writer' = i
    <2>1. PICK h \in Requests :
                /\ st[h] = "queued"
                /\ st' = [s EXCEPT ![h] = "granted"]
                /\ at' = [at EXCEPT ![h] = i]
                /\ born' = [born EXCEPT ![h] = gen[i]]
                /\ available' = available
                /\ kind[h] = "write" => writer' = i
      BY <1>1
    <2>2. \A x \in Requests \ {h} :
             st'[x] = s[x] /\ at'[x] = at[x] /\ born'[x] = born[x]
      BY <2>1 DEF TypeOK
    <2>3. st'[h] = "granted" /\ at'[h] = i /\ born'[h] = gen[i] /\ Owns(h, i)'
      BY <2>1 DEF TypeOK, Owns
    <2>4. \A x \in Requests, j \in Slots :
             Owns(x, j)' <=> (x = h /\ j = i) \/ (x # h /\ j # i /\ Owns(x, j))
      BY <2>1, <2>2, <2>3 DEF Owns, TypeOK
    <2>5. \A j \in Slots : ~Owns(h, j)
      BY <2>1 DEF Owns
    <2>6. GenInv'
      <3>1. \A x \in Requests \ {h} : st'[x] \in {"granted", "holding"} =>
               st'[x] = st[x] /\ gen'[at'[x]] = gen[at[x]] /\ lgen'[x] = lgen[x]
        BY <2>2
      <3>2. gen'[at'[h]] = gen[i] /\ gen[i] \in Nat
        BY <2>3 DEF TypeOK
      <3> QED BY <2>2, <2>3, <3>1, <3>2 DEF GenInv
    <2>7. OwnInv'
      <3>1. \A j \in available' : slot'[j] = "ready"
        BY <2>1 DEF OwnInv, TypeOK
      <3>2. \A x \in Requests, j \in Slots :
               Owns(x, j)' => slot'[j] = "ready" /\ j \notin available'
        BY <2>1, <2>4 DEF OwnInv
      <3>3. LeaseExclusive'
        BY <2>4 DEF OwnInv, LeaseExclusive
      <3>4. ASSUME NEW j \in Slots, slot'[j] = "ready"
            PROVE  j \in available' \/ \E x \in Requests : Owns(x, j)'
        BY <2>1, <2>3, <2>4, <2>5, <3>4 DEF OwnInv
      <3> QED BY <3>1, <3>2, <3>3, <3>4 DEF OwnInv
    <2>8. WriterInv'
      <3>1. writer' # NoWriter => slot'[writer'] = "ready" /\ writer' \notin available'
        BY <2>1 DEF WriterInv, Redesignated, TypeOK
      <3>2. ASSUME NEW x \in Requests, Owns(x, at[x])', kind'[x] = "write",
                   x \notin demoted'
            PROVE  writer' = at'[x]
        <4>1. CASE x = h
          BY <2>1, <2>3, <3>2, <4>1
        <4>2. CASE x # h
          <5>1. at'[x] = at[x] /\ at[x] # i /\ Owns(x, at[x]) /\ at[x] \in Slots
            BY <2>2, <2>4, <3>2, <4>2 DEF TypeOK
          <5>2. writer = at[x] /\ writer # NoWriter
            BY <3>2, <5>1 DEF WriterInv, Slots, NoWriter
          <5> QED BY <5>1, <5>2 DEF Redesignated
        <4> QED BY <4>1, <4>2
      <3> QED BY <3>1, <3>2 DEF WriterInv
    <2> QED BY <2>6, <2>7, <2>8
  <1>2. CASE /\ st' = s
             /\ UNCHANGED <<at, born>>
             /\ available' = available \cup {i}
    <2>1. \A x \in Requests, j \in Slots : Owns(x, j)' <=> j # i /\ Owns(x, j)
      BY <1>2 DEF Owns, TypeOK
    <2>2. GenInv'
      BY <1>2 DEF GenInv, TypeOK
    <2>3. OwnInv'
      BY <1>2, <2>1 DEF OwnInv, LeaseExclusive, TypeOK
    <2>4. WriterInv'
      BY <1>2, <2>1 DEF WriterInv, OwnInv, Redesignated, TypeOK
    <2> QED BY <2>2, <2>3, <2>4
  <1> QED BY <1>1, <1>2 DEF Handed

(* What settling slot i does to the slots: only i gains or loses a ready    *)
(* worker, and a closed gate still waits for exactly the pending slots.     *)
LEMMA Settling ==
    ASSUME TypeOK, GateInv, NEW i \in Slots,
           NEW how \in {"opened", "failed", "declined"},
           NEW s \in {"ready", "down", "retired"},
           s = "ready" => how = "opened" /\ slot[i] = "pending",
           s = "retired" => slot[i] = "pending",
           gate' = SettleGateSlot(gate, i, how),
           slot' = SettledSlots(i, s, gate, gate')
    PROVE  /\ slot'[i] = "ready" <=> s = "ready"
           /\ \A j \in Slots \ {i} : slot'[j] = "ready" <=> slot[j] = "ready"
           /\ gate'.state = "closed" =>
                 /\ gate.state = "closed"
                 /\ \A j \in Slots : slot'[j] = "pending" <=> j \notin gate'.settled
                 /\ \A j \in Slots : slot'[j] = "ready" => j \in gate'.opened
  <1> DEFINE g == Recorded(gate, i, how)
  <1>1. /\ gate \in Gates /\ slot \in [Slots -> {"pending", "ready", "down", "retired"}]
        /\ \A j \in Slots : slot'[j] = IF j \in Rearmed(gate, gate') THEN "pending"
                                        ELSE IF j = i THEN s ELSE slot[j]
    BY DEF TypeOK, SettledSlots
  <1>2. CASE gate.state # "closed" \/ i \in gate.settled
    <2>1. gate' = gate /\ Rearmed(gate, gate') = {}
      BY <1>2 DEF SettleGateSlot, Rearmed
    <2> QED BY <1>1, <1>2, <2>1 DEF GateInv
  <1>3. CASE gate.state = "closed" /\ i \notin gate.settled
    <2>1. /\ g.settled = gate.settled \cup {i} /\ g.fired = gate.fired
          /\ g.state = "closed"
          /\ g.opened = IF how = "opened" THEN gate.opened \cup {i} ELSE gate.opened
      BY <1>1, <1>3 DEF Recorded, Gates
    <2>2. CASE g.settled # Slots
      <3>1. gate' = g /\ Rearmed(gate, gate') = {}
        BY <1>3, <2>1, <2>2 DEF SettleGateSlot, Rearmed
      <3> QED BY <1>1, <1>3, <2>1, <3>1 DEF GateInv
    <2>3. CASE g.settled = Slots /\ g.fired
      <3>1. gate'.state = "open" /\ Rearmed(gate, gate') = {}
        BY <1>1, <1>3, <2>1, <2>3 DEF SettleGateSlot, Rearmed, Gates, Recorded
      <3> QED BY <1>1, <1>3, <2>1, <3>1 DEF GateInv
    <2>4. CASE g.settled = Slots /\ ~g.fired
      <3>1. gate' = FirstSettle(g)
        BY <1>3, <2>4 DEF SettleGateSlot
      <3>2. CASE g.opened = {}
        <4>1. gate'.state = "rejected" /\ Rearmed(gate, gate') = {}
          BY <1>1, <2>1, <2>4, <3>1, <3>2 DEF FirstSettle, Rearmed, Gates, Recorded
        <4> QED BY <1>1, <1>3, <2>1, <4>1 DEF GateInv
      <3>3. CASE g.opened # {}
        <4>1. g \in Gates
          BY <1>1 DEF Recorded, Gates
        <4>2. /\ gate'.settled = g.settled \ Failed(g)
              /\ gate'.opened = g.opened
              /\ gate'.fired
          BY <3>1, <3>3, <4>1 DEF FirstSettle, Gates
        <4>3. Failed(g) \cap g.opened = {} /\ Failed(g) \subseteq Slots
          BY <2>4 DEF Failed
        <4>4. Rearmed(gate, gate') = Failed(g)
          BY <2>1, <2>4, <4>2, <4>3 DEF Rearmed
        <4> QED BY <1>1, <1>3, <2>1, <2>4, <4>2, <4>3, <4>4 DEF GateInv
      <3> QED BY <3>2, <3>3
    <2> QED BY <2>2, <2>3, <2>4
  <1> QED BY <1>2, <1>3 DEF SettleGateSlot

(* A step in which nobody gains or loses a worker.                          *)
SameOwners ==
    \A x \in Requests :
       /\ (Owns(x, at[x]) \/ st'[x] \in {"granted", "holding"}) =>
             st'[x] = st[x] /\ kind'[x] = kind[x]
       /\ st'[x] \in {"granted", "holding"} =>
             at'[x] = at[x] /\ born'[x] = born[x] /\ lgen'[x] = lgen[x]

LEMMA OwnersKept ==
    ASSUME IInv, TypeOK',
           SameOwners,
           UNCHANGED <<gen, slot, available, writer, demoted>>
    PROVE  GenInv' /\ OwnInv' /\ WriterInv'
  <1> USE DEF IInv
  <1>1. \A x \in Requests, j \in Slots : Owns(x, j)' <=> Owns(x, j)
    BY DEF SameOwners, Owns, TypeOK
  <1>2. GenInv'
    BY DEF SameOwners, GenInv
  <1>3. OwnInv'
    <2>1. LeaseExclusive'
      BY <1>1 DEF OwnInv, LeaseExclusive
    <2> QED BY <1>1, <2>1 DEF OwnInv
  <1>4. WriterInv'
    <2>1. ASSUME NEW x \in Requests, Owns(x, at[x])', kind'[x] = "write",
                 x \notin demoted'
          PROVE  writer' = at'[x]
      <3>1. at'[x] = at[x] /\ kind'[x] = kind[x] /\ at[x] \in Slots
        BY <2>1 DEF SameOwners, Owns, TypeOK
      <3>2. Owns(x, at[x])
        BY <1>1, <2>1, <3>1
      <3> QED BY <2>1, <3>1, <3>2 DEF WriterInv
    <2> QED BY <2>1 DEF WriterInv
  <1> QED BY <1>2, <1>3, <1>4

(* A request takes a free worker at once.                                   *)
LEMMA TakenOwnership ==
    ASSUME IInv, TypeOK', NEW r \in Requests, NEW k \in Kinds,
           st[r] \in {"idle", "gated"}, kind'[r] = k,
           \A x \in Requests \ {r} : kind'[x] = kind[x],
           NEW i \in Takeable(k = "write", writer), Take(r, k, i),
           UNCHANGED <<gen, slot, demoted>>
    PROVE  GenInv' /\ OwnInv' /\ WriterInv'
  <1> USE DEF IInv
  <1>1. i \in available /\ i \in Slots
    BY TakeableAvailable DEF TypeOK
  <1>2. \A x \in Requests \ {r} : st'[x] = st[x] /\ at'[x] = at[x]
                                 /\ born'[x] = born[x] /\ lgen'[x] = lgen[x]
    BY DEF Take, TypeOK
  <1>3. st'[r] = "holding" /\ at'[r] = i /\ born'[r] = gen[i] /\ lgen'[r] = gen[i]
    BY DEF Take, TypeOK
  <1>4. \A x \in Requests : ~Owns(x, i)
    BY <1>1 DEF OwnInv
  <1>5. \A x \in Requests, j \in Slots :
           Owns(x, j)' <=> (x = r /\ j = i) \/ (x # r /\ Owns(x, j))
    BY <1>1, <1>2, <1>3 DEF Owns
  <1>6. \A j \in Slots : ~Owns(r, j)
    BY DEF Owns
  <1>7. GenInv'
    <2>1. gen'[at'[r]] = gen[i] /\ gen[i] \in Nat
      BY <1>1, <1>3 DEF TypeOK
    <2> QED BY <1>2, <1>3, <2>1 DEF GenInv
  <1>8. OwnInv'
    <2>1. available' = available \ {i}
      BY DEF Take
    <2>2. \A x \in Requests, j \in Slots :
             Owns(x, j)' => slot'[j] = "ready" /\ j \notin available'
      BY <1>1, <1>5, <2>1 DEF OwnInv
    <2>3. LeaseExclusive'
      BY <1>4, <1>5 DEF OwnInv, LeaseExclusive
    <2>4. ASSUME NEW j \in Slots, slot'[j] = "ready"
          PROVE  j \in available' \/ \E x \in Requests : Owns(x, j)'
      BY <1>5, <1>6, <2>1, <2>4 DEF OwnInv
    <2> QED BY <2>1, <2>2, <2>3, <2>4 DEF OwnInv
  <1>9. WriterInv'
    <2>1. writer' = IF k = "write" THEN i ELSE writer
      BY DEF Take
    <2>2. k = "write" => writer = NoWriter
      BY <1>1 DEF Takeable, WriterInv
    <2>3. writer' # NoWriter => slot'[writer'] = "ready" /\ writer' \notin available'
      BY <1>1, <2>1 DEF WriterInv, OwnInv, Take
    <2>4. ASSUME NEW x \in Requests, Owns(x, at[x])', kind'[x] = "write",
                 x \notin demoted'
          PROVE  writer' = at'[x]
      <3>1. CASE x = r
        BY <1>3, <2>1, <2>4, <3>1
      <3>2. CASE x # r
        <4>1. at'[x] = at[x] /\ Owns(x, at[x]) /\ kind[x] = "write" /\ at[x] \in Slots
          BY <1>2, <1>5, <2>4, <3>2 DEF TypeOK
        <4>2. writer = at[x] /\ writer # NoWriter
          BY <2>4, <4>1 DEF WriterInv, Slots, NoWriter
        <4> QED BY <2>1, <2>2, <4>1, <4>2
      <3> QED BY <3>1, <3>2
    <2> QED BY <2>3, <2>4 DEF WriterInv
  <1> QED BY <1>7, <1>8, <1>9

(* A lease gives up the designation, to the head writer on another free     *)
(* worker or to nobody.                                                     *)
LEMMA DemoteOwnership ==
    ASSUME IInv, TypeOK', NEW r \in Requests, Demote(r)
    PROVE  GenInv' /\ OwnInv' /\ WriterInv'
  <1> USE DEF IInv
  <1>1. /\ demoted' = demoted \cup {r} /\ kind' = kind /\ writer = at[r]
        /\ UNCHANGED <<slot, gen, lgen>> /\ Owns(r, at[r]) /\ at[r] \in Slots
    BY DEF Demote, Stale, GenInv, Owns, slotVars, TypeOK
  <1>2. \A x \in Requests : Owns(x, at[x]) /\ kind[x] = "write" => x \in demoted'
    BY <1>1 DEF WriterInv, OwnInv, LeaseExclusive
  <1>3. CASE writer' = NoWriter
             /\ UNCHANGED <<available, queue, lastWriter, st, at, born>>
    <2>1. \A x \in Requests, j \in Slots : Owns(x, j)' <=> Owns(x, j)
      BY <1>1, <1>3 DEF Owns
    <2>2. GenInv'
      BY <1>1, <1>3 DEF GenInv
    <2>3. LeaseExclusive'
      BY <2>1 DEF LeaseExclusive, OwnInv
    <2>4. OwnInv'
      BY <1>1, <1>3, <2>1, <2>3 DEF OwnInv
    <2>5. WriterInv'
      BY <1>1, <1>2, <1>3, <2>1 DEF WriterInv, TypeOK
    <2> QED BY <2>2, <2>4, <2>5
  <1>4. ASSUME NEW i \in Takeable(TRUE, NoWriter), Serve("write", i, gen[i], st),
               available' = available \ {i}, writer' = i
        PROVE  GenInv' /\ OwnInv' /\ WriterInv'
    <2> DEFINE h == Head(queue["write"])
    <2>1. i \in available /\ i \in Slots /\ gen[i] \in Nat
      BY TakeableAvailable DEF TypeOK
    <2>2. h \in Requests /\ st[h] = "queued"
      BY <1>1, <1>4, <2>1, ServeQueues DEF TypeOK, QueueNames
    <2>3. st'[h] = "granted" /\ at'[h] = i /\ born'[h] = gen[i]
      BY <1>4, <2>2 DEF Serve, TypeOK
    <2>4. \A x \in Requests \ {h} :
             st'[x] = st[x] /\ at'[x] = at[x] /\ born'[x] = born[x]
      BY <1>4, <2>2 DEF Serve, TypeOK
    <2> HIDE DEF h
    <2>5. \A x \in Requests : ~Owns(x, i)
      BY <2>1 DEF OwnInv
    <2>6. \A j \in Slots : ~Owns(h, j)
      BY <2>2 DEF Owns
    <2>7. \A x \in Requests, j \in Slots :
             Owns(x, j)' <=> (x = h /\ j = i) \/ (x # h /\ Owns(x, j))
      BY <1>1, <2>1, <2>3, <2>4 DEF Owns
    <2>8. GenInv'
      <3>1. gen'[at'[h]] = gen[i] /\ gen[i] \in Nat
        BY <1>1, <2>1, <2>3
      <3> QED BY <1>1, <2>3, <2>4, <3>1 DEF GenInv
    <2>9. OwnInv'
      <3>1. \A x \in Requests, j \in Slots :
               Owns(x, j)' => slot'[j] = "ready" /\ j \notin available'
        BY <1>1, <1>4, <2>1, <2>7 DEF OwnInv
      <3>2. LeaseExclusive'
        BY <2>5, <2>7 DEF OwnInv, LeaseExclusive
      <3>3. ASSUME NEW j \in Slots, slot'[j] = "ready"
            PROVE  j \in available' \/ \E x \in Requests : Owns(x, j)'
        BY <1>1, <1>4, <2>2, <2>6, <2>7, <3>3 DEF OwnInv
      <3>4. \A j \in available' : slot'[j] = "ready"
        BY <1>1, <1>4 DEF OwnInv
      <3> QED BY <3>1, <3>2, <3>3, <3>4 DEF OwnInv
    <2>10. WriterInv'
      <3>1. writer' # NoWriter => slot'[writer'] = "ready" /\ writer' \notin available'
        BY <1>1, <1>4, <2>1 DEF OwnInv
      <3>2. ASSUME NEW x \in Requests, Owns(x, at[x])', kind'[x] = "write",
                   x \notin demoted'
            PROVE  x = h
        BY <1>1, <1>2, <2>4, <2>7, <3>2 DEF TypeOK
      <3> QED BY <1>4, <2>3, <3>1, <3>2 DEF WriterInv
    <2> QED BY <2>8, <2>9, <2>10
  <1> QED BY <1>3, <1>4 DEF Demote, Stale

(* A slot leaves the pool: whoever had its worker has it no more, and since *)
(* no grant is pending on it no later lease can revive the claim.           *)
LEMMA TakeOutOwnership ==
    ASSUME IInv, TypeOK', "remove" \notin Interrupts,
           NEW i \in Slots, NEW how, NEW s, TakeOut(i, how, s),
           slot'[i] # "ready",
           \A j \in Slots \ {i} : slot'[j] = "ready" <=> slot[j] = "ready"
    PROVE  GenInv' /\ OwnInv' /\ WriterInv'
  <1> USE DEF IInv
  <1>1. /\ UNCHANGED <<st, kind, at, born, lgen, demoted>>
        /\ available' = available \ {i}
        /\ writer' = Undesignated(i)
        /\ \A r \in Requests : ~(st[r] = "granted" /\ at[r] = i)
    BY DEF TakeOut, NextGen, reqVars
  <1>2. gen'[i] = gen[i] + 1 /\ gen[i] \in Nat
        /\ \A j \in Slots \ {i} : gen'[j] = gen[j] /\ gen[j] \in Nat
    BY DEF TakeOut, NextGen, TypeOK
  <1>3. GenInv'
    <2> SUFFICES ASSUME NEW r \in Requests
                 PROVE  /\ st'[r] \in {"granted", "holding"} => born'[r] <= gen'[at'[r]]
                        /\ st'[r] = "granted" => born'[r] = gen'[at'[r]]
                        /\ st'[r] = "holding" => lgen'[r] = born'[r]
      BY DEF GenInv
    <2>1. at[r] \in Slots /\ born[r] \in Nat
      BY DEF TypeOK
    <2> QED BY <1>1, <1>2, <2>1 DEF GenInv
  <1>4. \A x \in Requests, j \in Slots : Owns(x, j)' <=> j # i /\ Owns(x, j)
    <2> SUFFICES ASSUME NEW x \in Requests, NEW j \in Slots
                 PROVE  Owns(x, j)' <=> j # i /\ Owns(x, j)
      OBVIOUS
    <2>1. st[x] \in {"granted", "holding"} => born[x] <= gen[at[x]]
      BY DEF GenInv
    <2>2. born[x] \in Nat
      BY DEF TypeOK
    <2> QED BY <1>1, <1>2, <2>1, <2>2 DEF Owns
  <1>5. OwnInv'
    <2>1. LeaseExclusive'
      BY <1>4 DEF OwnInv, LeaseExclusive
    <2>2. \A j \in available' : slot'[j] = "ready"
      BY <1>1 DEF OwnInv, TypeOK
    <2>3. ASSUME NEW j \in Slots, slot'[j] = "ready"
          PROVE  j \in available' \/ \E x \in Requests : Owns(x, j)'
      BY <1>1, <1>4, <2>3 DEF OwnInv
    <2> QED BY <1>1, <1>4, <2>1, <2>2, <2>3 DEF OwnInv
  <1>6. WriterInv'
    <2>1. writer' # NoWriter => writer' = writer /\ writer # i
      BY <1>1 DEF Undesignated
    <2>2. writer' # NoWriter => slot'[writer'] = "ready" /\ writer' \notin available'
      BY <1>1, <2>1 DEF WriterInv, TypeOK
    <2>3. ASSUME NEW x \in Requests, Owns(x, at[x])', kind'[x] = "write",
                 x \notin demoted'
          PROVE  writer' = at'[x]
      <3>1. at[x] # i /\ Owns(x, at[x])
        BY <1>1, <1>4, <2>3 DEF TypeOK
      <3> QED BY <1>1, <2>3, <3>1 DEF WriterInv, Undesignated
    <2> QED BY <2>2, <2>3 DEF WriterInv
  <1> QED BY <1>3, <1>5, <1>6

LEMMA IInvInit == Init => IInv
  <1> SUFFICES ASSUME Init PROVE IInv
    OBVIOUS
  <1>1. TypeOK /\ QueuesHoldWaiters
    BY QueuesInit
  <1>2. GateInv
    BY DEF Init, GateInv, ClosedGate
  <1>3. GenInv /\ WriterInv
    BY DEF Init, GenInv, WriterInv, Owns
  <1>4. OwnInv
    BY DEF Init, OwnInv, LeaseExclusive, Owns
  <1> QED BY <1>1, <1>2, <1>3, <1>4 DEF IInv

(* IInv is inductive when no slot is removed between a grant and its lease. *)
LEMMA IInvStep ==
    ASSUME "remove" \notin Interrupts
    PROVE  IInv /\ [Next]_vars => IInv'
  <1> SUFFICES ASSUME IInv, [Next]_vars PROVE IInv'
    OBVIOUS
  <1> USE DEF slotVars, poolVars, closeVars, reqVars
  <1>0. TypeOK' /\ QueuesHoldWaiters'
    BY QueuesStep DEF IInv
  <1> SUFFICES GateInv' /\ GenInv' /\ OwnInv' /\ WriterInv'
    BY <1>0 DEF IInv
  <1>a. TypeOK /\ QueuesHoldWaiters /\ GateInv /\ GenInv
    BY DEF IInv
  <1>1. ASSUME NEW r \in Requests, NEW k \in Kinds, Acquire(r, k)
        PROVE  GateInv' /\ GenInv' /\ OwnInv' /\ WriterInv'
    <2>1. /\ st[r] = "idle" /\ kind'[r] = k
          /\ \A x \in Requests \ {r} : kind'[x] = kind[x]
          /\ UNCHANGED <<gate, gen, slot, demoted>>
      BY <1>1, <1>a DEF Acquire, TypeOK
    <2>2. ASSUME NEW i \in Takeable(k = "write", writer), Take(r, k, i),
                 gate.state # "closed"
          PROVE  GateInv' /\ GenInv' /\ OwnInv' /\ WriterInv'
      BY <1>0, <2>1, <2>2, TakenOwnership DEF GateInv
    <2>3. CASE (gate.state # "closed" /\ Enqueue(r, k))
               \/ \E s \in {"rejected", "gated"} :
                     /\ st' = [st EXCEPT ![r] = s]
                     /\ UNCHANGED <<poolVars, at, born, lgen>>
      <3>1. /\ UNCHANGED <<available, writer, at, born, lgen>>
            /\ st'[r] \in {"queued", "rejected", "gated"}
            /\ \A x \in Requests \ {r} : st'[x] = st[x]
            /\ gate.state = "closed" => st'[r] \in {"rejected", "gated"}
        BY <1>a, <2>3 DEF Enqueue, TypeOK
      <3>2. GateInv'
        BY <1>a, <2>1, <3>1 DEF GateInv
      <3>3. SameOwners
        BY <2>1, <3>1 DEF SameOwners, Owns
      <3> QED BY <1>0, <2>1, <3>1, <3>2, <3>3, OwnersKept
    <2> QED BY <1>1, <2>2, <2>3 DEF Acquire, TakeOrQueue
  <1>2. ASSUME NEW r \in Requests, PassGate(r)
        PROVE  GateInv' /\ GenInv' /\ OwnInv' /\ WriterInv'
    <2>1. /\ st[r] = "gated" /\ kind' = kind /\ kind[r] \in Kinds
          /\ UNCHANGED <<gate, gen, slot, demoted>>
          /\ gate.state # "closed" /\ GateInv'
      BY <1>2, <1>a DEF PassGate, TypeOK, GateInv
    <2>2. ASSUME NEW i \in Takeable(kind[r] = "write", writer), Take(r, kind[r], i)
          PROVE  GateInv' /\ GenInv' /\ OwnInv' /\ WriterInv'
      BY <1>0, <2>1, <2>2, TakenOwnership
    <2>3. CASE \/ Enqueue(r, kind[r])
               \/ /\ st' = [st EXCEPT ![r] = "rejected"]
                  /\ UNCHANGED <<poolVars, at, born, lgen>>
      <3>1. /\ UNCHANGED <<available, writer, at, born, lgen>>
            /\ st'[r] \in {"queued", "rejected"}
            /\ \A x \in Requests \ {r} : st'[x] = st[x]
        BY <1>a, <2>3 DEF Enqueue, TypeOK
      <3>2. SameOwners
        BY <2>1, <3>1 DEF SameOwners, Owns
      <3> QED BY <1>0, <2>1, <3>1, <3>2, OwnersKept
    <2> QED BY <1>2, <2>2, <2>3 DEF PassGate, TakeOrQueue
  <1>3. ASSUME NEW r \in Requests, Abort(r)
        PROVE  GateInv' /\ GenInv' /\ OwnInv' /\ WriterInv'
    <2>1. /\ st[r] \in {"gated", "queued"}
          /\ UNCHANGED <<gate, gen, slot, available, writer, kind, at, born, lgen, demoted>>
          /\ st'[r] \in {"gated", "rejected"}
          /\ \A x \in Requests \ {r} : st'[x] = st[x]
      BY <1>3, <1>a DEF Abort, TypeOK
    <2>2. GateInv'
      BY <1>a, <2>1 DEF GateInv
    <2>3. SameOwners
      BY <2>1 DEF SameOwners, Owns
    <2> QED BY <1>0, <2>1, <2>2, <2>3, OwnersKept
  <1>4. ASSUME NEW r \in Requests, MakeLease(r)
        PROVE  GateInv' /\ GenInv' /\ OwnInv' /\ WriterInv'
    <2>1. /\ st[r] = "granted" /\ st'[r] = "holding"
          /\ \A x \in Requests \ {r} : st'[x] = st[x] /\ lgen'[x] = lgen[x]
          /\ lgen'[r] = gen[at[r]]
          /\ UNCHANGED <<gate, gen, slot, available, writer, kind, at, born, demoted>>
      BY <1>4, <1>a DEF MakeLease, TypeOK
    <2>2. GateInv'
      BY <1>a, <2>1 DEF GateInv
    <2>3. GenInv'
      BY <1>a, <2>1 DEF GenInv
    <2>4. \A x \in Requests, j \in Slots : Owns(x, j)' <=> Owns(x, j)
      BY <2>1 DEF Owns
    <2>5. OwnInv'
      BY <2>1, <2>4 DEF IInv, OwnInv, LeaseExclusive
    <2>6. WriterInv'
      BY <1>a, <2>1, <2>4 DEF IInv, WriterInv, TypeOK
    <2> QED BY <2>2, <2>3, <2>5, <2>6
  <1>5. ASSUME NEW r \in Requests, Release(r)
        PROVE  GateInv' /\ GenInv' /\ OwnInv' /\ WriterInv'
    <2> DEFINE s == [st EXCEPT ![r] = "done"]
    <2>1. /\ st[r] = "holding" /\ lgen[r] = born[r] /\ at[r] \in Slots
          /\ UNCHANGED <<gate, gen, slot, kind, lgen, demoted>>
          /\ gate.state # "closed" /\ GateInv'
      BY <1>5, <1>a DEF Release, Stale, GenInv, GateInv, TypeOK
    <2>2. /\ s \in [Requests -> States] /\ s[r] = "done"
          /\ \A x \in Requests \ {r} : s[x] = st[x]
      BY <1>a DEF TypeOK, States
    <2>3. CASE gen[at[r]] # lgen[r] /\ st' = s /\ UNCHANGED <<poolVars, at, born>>
      <3>1. SameOwners
        BY <2>1, <2>2, <2>3 DEF SameOwners, Owns
      <3> QED BY <1>0, <2>1, <2>3, <3>1, OwnersKept
    <2>4. CASE gen[at[r]] = lgen[r] /\ HandOver(at[r], born[r], s)
      <3> DEFINE i == at[r]
      <3>1. Owns(r, i) /\ born[r] = gen[i] /\ gen[i] \in Nat
        BY <1>a, <2>1, <2>4 DEF Owns, TypeOK
      <3>2. slot[i] = "ready" /\ i \notin available
            /\ \A x \in Requests : Owns(x, i) => x = r
        BY <2>1, <3>1 DEF IInv, OwnInv, LeaseExclusive
      <3>3. \A x \in Requests : s[x] = "queued" <=> st[x] = "queued"
        BY <2>1, <2>2
      <3> HIDE DEF s
      <3>4. HandOver(i, gen[i], s) /\ kind' = kind
        BY <2>1, <2>4, <3>1
      <3> HIDE DEF i
      <3>5. i \in Slots
        BY <2>1 DEF i
      <3>6. /\ Handed(i, gen[i], s) /\ Redesignated(i)
            /\ available' # available => writer' # i
        BY <1>a, <2>2, <3>1, <3>3, <3>4, <3>5, HandOverEffect
      <3>7. \A x \in Requests :
               /\ s[x] \in {"queued", "granted", "holding"} => s[x] = st[x]
               /\ st[x] = "queued" => s[x] = "queued"
               /\ s[x] \in {"granted", "holding"} /\ at[x] = i => born[x] # gen[i]
               /\ s[x] \notin {"granted", "holding"} =>
                     ~Owns(x, at[x]) \/ at[x] = i
        BY <2>1, <2>2, <3>2 DEF Owns, i
      <3> QED BY <1>0, <2>1, <2>2, <3>2, <3>5, <3>6, <3>7, HandedOwnership
    <2> QED BY <1>5, <2>3, <2>4 DEF Release, Stale
  <1>6. ASSUME NEW r \in Requests, Demote(r)
        PROVE  GateInv' /\ GenInv' /\ OwnInv' /\ WriterInv'
    <2>1. GateInv'
      BY <1>6, <1>a DEF Demote, Stale, GateInv
    <2> QED BY <1>0, <1>6, <2>1, DemoteOwnership
  <1>7. ASSUME NEW r \in Requests, Offer(r)
        PROVE  GateInv' /\ GenInv' /\ OwnInv' /\ WriterInv'
    <2>1. GateInv'
      BY <1>7, <1>a DEF Offer, GateInv
    <2>2. PICK n \in 1 .. Len(queue["verdict"]) :
             LET v == queue["verdict"][n] IN
             /\ st' = [st EXCEPT ![v] = "lent"]
             /\ at' = [at EXCEPT ![v] = at[r]]
             /\ born' = [born EXCEPT ![v] = born[r]]
      BY <1>7 DEF Offer
    <2> DEFINE v == queue["verdict"][n]
    <2>3. v \in Requests /\ st[v] = "queued"
      <3>1. queue["verdict"] \in Seq(Requests) /\ "verdict" \in QueueNames
        BY <1>a DEF TypeOK, QueueNames
      <3>2. st[v] = "queued"
        BY <1>a, <3>1 DEF QueuesHoldWaiters
      <3> QED BY <3>1, <3>2
    <2>4. st'[v] = "lent" /\ \A x \in Requests \ {v} :
             st'[x] = st[x] /\ at'[x] = at[x] /\ born'[x] = born[x]
      BY <1>a, <2>2, <2>3 DEF TypeOK
    <2> HIDE DEF v
    <2>5. UNCHANGED <<gen, slot, available, writer, kind, lgen, demoted>>
      BY <1>7 DEF Offer
    <2>6. SameOwners
      BY <2>3, <2>4, <2>5 DEF SameOwners, Owns
    <2> QED BY <1>0, <2>1, <2>5, <2>6, OwnersKept
  <1>8. ASSUME NEW r \in Requests, EndLoan(r)
        PROVE  GateInv' /\ GenInv' /\ OwnInv' /\ WriterInv'
    <2>1. /\ st[r] = "lent" /\ st'[r] = "done"
          /\ \A x \in Requests \ {r} : st'[x] = st[x]
          /\ UNCHANGED <<gate, gen, slot, available, writer, kind, at, born, lgen, demoted>>
      BY <1>8, <1>a DEF EndLoan, TypeOK
    <2>2. GateInv'
      BY <1>a, <2>1 DEF GateInv
    <2>3. SameOwners
      BY <2>1 DEF SameOwners, Owns
    <2> QED BY <1>0, <2>1, <2>2, <2>3, OwnersKept
  <1>9. ASSUME NEW i \in Slots, Add(i)
        PROVE  GateInv' /\ GenInv' /\ OwnInv' /\ WriterInv'
    <2>1. /\ slot[i] = "pending" /\ gate' = SettleGateSlot(gate, i, "opened")
          /\ slot' = SettledSlots(i, "ready", gate, gate')
          /\ UNCHANGED <<gen, kind, lgen, demoted>>
      BY <1>9 DEF Add
    <2>2. /\ slot'[i] = "ready"
          /\ \A j \in Slots \ {i} : slot'[j] = "ready" <=> slot[j] = "ready"
          /\ gate'.state = "closed" =>
                /\ gate.state = "closed"
                /\ \A j \in Slots : slot'[j] = "pending" <=> j \notin gate'.settled
                /\ \A j \in Slots : slot'[j] = "ready" => j \in gate'.opened
      BY <1>a, <2>1, Settling
    <2>3. i \notin available /\ writer # i /\ \A x \in Requests : ~Owns(x, i)
      BY <2>1 DEF IInv, OwnInv, WriterInv, Slots, NoWriter
    <2>4. Handed(i, gen[i], st) /\ Redesignated(i)
      BY <1>a, <1>9, AddEffect
    <2>5. writer' = i => available' = available
      BY <2>3, <2>4 DEF Redesignated, Slots, NoWriter
    <2>6. GateInv'
      <3>1. gate.state = "closed" => st' = st
        BY <1>a, <2>4 DEF Handed, GateInv
      <3> QED BY <1>a, <2>2, <3>1 DEF GateInv
    <2>7. \A x \in Requests :
             /\ st[x] \in {"granted", "holding"} /\ at[x] = i => born[x] # gen[i]
             /\ st[x] \notin {"granted", "holding"} => ~Owns(x, at[x]) \/ at[x] = i
      BY <2>3 DEF Owns
    <2>8. st \in [Requests -> States]
      BY <1>a DEF TypeOK
    <2> QED BY <1>0, <2>1, <2>2, <2>3, <2>4, <2>5, <2>6, <2>7, <2>8, HandedOwnership
  <1>10. ASSUME NEW i \in Slots, NEW how \in {"failed", "declined"},
                NEW s \in {"down", "retired"}, TakeOut(i, how, s),
                s = "retired" => slot[i] = "pending"
         PROVE  GateInv' /\ GenInv' /\ OwnInv' /\ WriterInv'
    <2>1. gate' = SettleGateSlot(gate, i, how)
          /\ slot' = SettledSlots(i, s, gate, gate') /\ st' = st
      BY <1>10 DEF TakeOut, NextGen
    <2>2. /\ slot'[i] # "ready"
          /\ \A j \in Slots \ {i} : slot'[j] = "ready" <=> slot[j] = "ready"
          /\ gate'.state = "closed" =>
                /\ gate.state = "closed"
                /\ \A j \in Slots : slot'[j] = "pending" <=> j \notin gate'.settled
                /\ \A j \in Slots : slot'[j] = "ready" => j \in gate'.opened
      BY <1>a, <1>10, <2>1, Settling
    <2>3. GateInv'
      BY <1>a, <2>1, <2>2 DEF GateInv
    <2> QED BY <1>0, <1>10, <2>2, <2>3, TakeOutOwnership
  <1>11. ASSUME NEW i \in Slots, Respawn(i)
         PROVE  GateInv' /\ GenInv' /\ OwnInv' /\ WriterInv'
    <2>1. /\ slot[i] = "down" /\ gate' = gate /\ gate.state = "open"
          /\ slot'[i] = "pending" /\ \A j \in Slots \ {i} : slot'[j] = slot[j]
          /\ UNCHANGED <<gen, available, writer, st, kind, at, born, lgen, demoted>>
      BY <1>11, <1>a DEF Respawn, TypeOK
    <2>2. GateInv' /\ GenInv'
      BY <1>a, <2>1 DEF GateInv, GenInv
    <2>3. \A x \in Requests, j \in Slots : Owns(x, j)' <=> Owns(x, j)
      BY <2>1 DEF Owns
    <2>4. \A j \in Slots : slot'[j] = "ready" <=> slot[j] = "ready"
      BY <2>1
    <2>5. LeaseExclusive'
      BY <2>3 DEF IInv, OwnInv, LeaseExclusive
    <2>6. OwnInv'
      BY <1>a, <2>1, <2>3, <2>4, <2>5 DEF IInv, OwnInv, TypeOK
    <2>7. WriterInv'
      BY <1>a, <2>1, <2>3, <2>4 DEF IInv, WriterInv, TypeOK
    <2> QED BY <2>2, <2>6, <2>7
  <1>12. CASE Shutdown
    <2>1. /\ UNCHANGED <<gen, slot, available, writer, kind, at, born, lgen, demoted>>
          /\ \A x \in Requests :
                st'[x] = IF st[x] = "queued" THEN "rejected" ELSE st[x]
      BY <1>12 DEF Shutdown
    <2>2. GateInv'
      BY <1>a, <1>12 DEF Shutdown, RejectGate, GateInv, TypeOK, Gates
    <2>3. SameOwners
      BY <2>1 DEF SameOwners, Owns
    <2> QED BY <1>0, <2>1, <2>2, <2>3, OwnersKept
  <1>13. CASE UNCHANGED vars
    <2>1. GateInv' /\ GenInv'
      BY <1>a, <1>13 DEF vars, GateInv, GenInv
    <2> QED BY <1>13, <2>1 DEF vars, IInv, OwnInv, LeaseExclusive, WriterInv, Owns
  <1>14. CASE \E i \in Slots : RemoveSlot(i) \/ Retire(i)
    BY <1>10, <1>14 DEF RemoveSlot, Retire
  <1> QED BY <1>1, <1>2, <1>3, <1>4, <1>5, <1>6, <1>7, <1>8, <1>9,
             <1>11, <1>12, <1>13, <1>14 DEF Next

LEMMA IInvCorrect ==
    ASSUME "remove" \notin Interrupts
    PROVE  Spec => []IInv
  BY IInvInit, IInvStep, PTL DEF Spec

(* One query at a time per worker, for every pool size, request set and     *)
(* writer policy: no two requests ever own the worker of one slot, when no  *)
(* slot is removed between a grant and its lease.                           *)
THEOREM LeasesExclusive ==
    ASSUME "remove" \notin Interrupts
    PROVE  Spec => []LeaseExclusive
  <1>1. IInv => LeaseExclusive
    BY DEF IInv, OwnInv
  <1> QED BY <1>1, IInvCorrect, PTL

(* No worker is stranded and none is free while borrowed, under the same    *)
(* condition.                                                               *)
THEOREM WorkersAccounted ==
    ASSUME "remove" \notin Interrupts
    PROVE  Spec => []WorkerAccounted
  <1>1. IInv => WorkerAccounted
    BY DEF IInv, OwnInv, WorkerAccounted
  <1> QED BY <1>1, IInvCorrect, PTL

(* The designation serializes writes, and it is never left on an idle or a  *)
(* dead worker, under the same condition.                                   *)
THEOREM WritesSerialized ==
    ASSUME "remove" \notin Interrupts
    PROVE  Spec => [](OneWriter /\ DesignatedIsLeased)
  <1>1. ASSUME IInv PROVE OneWriter
    <2> SUFFICES ASSUME NEW r \in Requests, NEW s \in Requests,
                        kind[r] = "write", r \notin demoted, Owns(r, at[r]),
                        kind[s] = "write", s \notin demoted, Owns(s, at[s])
                 PROVE  r = s
      BY DEF OneWriter
    <2>1. writer = at[r] /\ writer = at[s] /\ at[r] \in Slots
      BY <1>1 DEF IInv, WriterInv, TypeOK
    <2> QED BY <1>1, <2>1 DEF IInv, OwnInv, LeaseExclusive
  <1>2. IInv => DesignatedIsLeased
    BY DEF IInv, OwnInv, WriterInv, DesignatedIsLeased, TypeOK
  <1> QED BY <1>1, <1>2, IInvCorrect, PTL

-----------------------------------------------------------------------------
(***************************************************************************)
(* Nobody waits for a worker that is free                                   *)
(***************************************************************************)

(* takeAvailable finds a worker for a read or a verdict whenever a ready     *)
(* one is free: some free slot has the lowest index.                        *)
LEMMA TakeableFinds ==
    ASSUME NEW w, available \subseteq Slots, \A i \in available : slot[i] = "ready",
           available # {}
    PROVE  Takeable(FALSE, w) # {}
  <1>1. Usable(FALSE) = available
    BY DEF Usable
  <1>2. available \subseteq Nat
    BY PoolSizeAssumption DEF Slots
  <1>3. PICK k \in available : \A j \in available : ~(<<j, k>> \in OpToRel(<, Nat))
    BY <1>2, WFMin, NatLessThanWellFounded
  <1>4. \A j \in available : k <= j
    <2> SUFFICES ASSUME NEW j \in available, j < k PROVE FALSE
      BY <1>2
    <2>1. j \in Nat /\ k \in Nat
      BY <1>2
    <2>2. <<j, k>> \in OpToRel(<, Nat)
      BY <2>1 DEF OpToRel
    <2> QED
      BY <1>3, <2>2
  <1>5. k \in {i \in Usable(FALSE) : \A j \in Usable(FALSE) : i <= j}
    BY <1>1, <1>3, <1>4
  <1>6. lastWriter \notin Usable(FALSE) =>
           Takeable(FALSE, w) = {i \in Usable(FALSE) : \A j \in Usable(FALSE) : i <= j}
    BY DEF Takeable
  <1>7. lastWriter \in Usable(FALSE) => Takeable(FALSE, w) = {lastWriter}
    BY DEF Takeable
  <1> QED BY <1>5, <1>6, <1>7

(* No queue of readers or verdicts grows but by a request that found no      *)
(* worker, and no worker is freed past a queue that is not empty.           *)
Unfilled ==
    /\ available' \subseteq available
    /\ \A q \in {"read", "verdict"} : queue[q] = <<>> => queue'[q] = <<>>

(* Such a step leaves no reader waiting beside a free worker.                *)
LEMMA UnfilledKeeps ==
    ASSUME NoIdleWhileReadersWait, Unfilled
    PROVE  NoIdleWhileReadersWait'
  BY DEF NoIdleWhileReadersWait, Unfilled

(* Serving the head of a queue is such a step...                             *)
LEMMA ServeUnfilled ==
    ASSUME TypeOK, NEW q \in QueueNames, NEW i, NEW b, NEW s, Serve(q, i, b, s),
           available' \subseteq available
    PROVE  Unfilled
  <1>1. \A p \in QueueNames \ {q} : queue'[p] = queue[p]
    BY DEF Serve, TypeOK
  <1>2. queue[q] # <<>>
    BY DEF Serve
  <1> QED BY <1>1, <1>2 DEF Unfilled, QueueNames

(* ... and so is taking a request out of the middle of one.                  *)
LEMMA SpliceUnfilled ==
    ASSUME TypeOK, NEW q \in QueueNames, NEW n \in 1 .. Len(queue[q]),
           queue' = [queue EXCEPT ![q] = Splice(@, n)], available' = available
    PROVE  Unfilled
  <1>1. \A p \in QueueNames \ {q} : queue'[p] = queue[p]
    BY DEF TypeOK
  <1>2. queue[q] # <<>>
    BY DEF TypeOK
  <1> QED BY <1>1, <1>2 DEF Unfilled, QueueNames

(* A request queues for a read or a verdict only when no worker is free.     *)
LEMMA TakeOrQueueIdle ==
    ASSUME IInv, NoIdleWhileReadersWait, NEW r \in Requests, NEW k \in Kinds,
           TakeOrQueue(r, k)
    PROVE  NoIdleWhileReadersWait'
  <1>1. available \subseteq Slots /\ \A i \in available : slot[i] = "ready"
    BY DEF IInv, OwnInv, TypeOK
  <1>2. CASE \E i \in Takeable(k = "write", writer) : Take(r, k, i)
    BY <1>2, UnfilledKeeps DEF Take, Unfilled
  <1>3. CASE Takeable(k = "write", writer) = {} /\ Enqueue(r, k)
    <2>1. CASE k = "write"
      <3>1. Unfilled
        BY <1>3, <2>1 DEF Enqueue, QueueOf, Unfilled, IInv, TypeOK, QueueNames
      <3> QED BY <3>1, UnfilledKeeps
    <2>2. CASE k # "write"
      <3>1. Takeable(FALSE, writer) = {}
        BY <1>3, <2>2 DEF Takeable
      <3>2. available = {}
        BY <1>1, <3>1, TakeableFinds
      <3> QED BY <1>3, <3>2 DEF Enqueue, NoIdleWhileReadersWait
    <2> QED BY <2>1, <2>2
  <1> QED BY <1>2, <1>3 DEF TakeOrQueue

(* Every action keeps free workers and waiting readers apart.                *)
LEMMA IdleStep ==
    IInv /\ NoIdleWhileReadersWait /\ [Next]_vars => NoIdleWhileReadersWait'
  <1> SUFFICES ASSUME IInv, NoIdleWhileReadersWait, [Next]_vars
               PROVE  NoIdleWhileReadersWait'
    OBVIOUS
  <1> USE DEF slotVars, poolVars, closeVars, reqVars
  <1>0. TypeOK
    BY DEF IInv
  <1>1. ASSUME UNCHANGED <<available, queue>> PROVE NoIdleWhileReadersWait'
    BY <1>1 DEF NoIdleWhileReadersWait
  <1>2. ASSUME NEW r \in Requests, NEW k \in Kinds, Acquire(r, k)
        PROVE  NoIdleWhileReadersWait'
    <2>1. CASE TakeOrQueue(r, k)
      BY <2>1, TakeOrQueueIdle
    <2>2. CASE UNCHANGED <<available, queue>>
      BY <1>1, <2>2
    <2> QED BY <1>2, <2>1, <2>2 DEF Acquire
  <1>3. ASSUME NEW r \in Requests, PassGate(r)
        PROVE  NoIdleWhileReadersWait'
    <2>1. CASE TakeOrQueue(r, kind[r])
      BY <1>0, <2>1, TakeOrQueueIdle DEF TypeOK
    <2>2. CASE UNCHANGED <<available, queue>>
      BY <1>1, <2>2
    <2> QED BY <1>3, <2>1, <2>2 DEF PassGate
  <1>4. ASSUME NEW r \in Requests, Abort(r)
        PROVE  NoIdleWhileReadersWait'
    <2>1. CASE UNCHANGED <<available, queue>>
      BY <1>1, <2>1
    <2>2. CASE \E n \in 1 .. Len(queue[QueueOf(kind[r])]) :
                  queue' = [queue EXCEPT ![QueueOf(kind[r])] = Splice(@, n)]
      <3>1. QueueOf(kind[r]) \in QueueNames
        BY <1>0, QueueKinds DEF TypeOK
      <3>2. available' = available
        BY <1>4 DEF Abort
      <3>3. Unfilled
        BY <1>0, <2>2, <3>1, <3>2, SpliceUnfilled
      <3> QED BY <3>3, UnfilledKeeps
    <2> QED BY <1>4, <2>1, <2>2 DEF Abort
  <1>5. ASSUME NEW r \in Requests, MakeLease(r) \/ EndLoan(r)
        PROVE  NoIdleWhileReadersWait'
    BY <1>1, <1>5 DEF MakeLease, EndLoan
  <1>6. ASSUME NEW i, NEW b, NEW s, HandOver(i, b, s)
        PROVE  NoIdleWhileReadersWait'
    <2>1. CASE \E q \in QueueNames : Serve(q, i, b, s) /\ available' = available
      BY <1>0, <2>1, ServeUnfilled, UnfilledKeeps
    <2>2. CASE queue["verdict"] = <<>> /\ queue["read"] = <<>> /\ UNCHANGED queue
      BY <2>2 DEF NoIdleWhileReadersWait
    <2> QED BY <1>6, <2>1, <2>2 DEF HandOver, ServeWriterFirst, QueueNames
  <1>7. ASSUME NEW r \in Requests, Release(r)
        PROVE  NoIdleWhileReadersWait'
    BY <1>1, <1>6, <1>7 DEF Release
  <1>8. ASSUME NEW r \in Requests, Demote(r)
        PROVE  NoIdleWhileReadersWait'
    <2>1. CASE UNCHANGED <<available, queue>>
      BY <1>1, <2>1
    <2>2. CASE \E i : Serve("write", i, gen[i], st) /\ available' = available \ {i}
      BY <1>0, <2>2, ServeUnfilled, UnfilledKeeps DEF QueueNames
    <2> QED BY <1>8, <2>1, <2>2 DEF Demote
  <1>9. ASSUME NEW r \in Requests, Offer(r)
        PROVE  NoIdleWhileReadersWait'
    <2>1. PICK n \in 1 .. Len(queue["verdict"]) :
                 queue' = [queue EXCEPT !["verdict"] = Splice(@, n)]
      BY <1>9 DEF Offer
    <2>2. available' = available
      BY <1>9 DEF Offer
    <2>3. Unfilled
      BY <1>0, <2>1, <2>2, SpliceUnfilled DEF QueueNames
    <2> QED BY <2>3, UnfilledKeeps
  <1>10. ASSUME NEW i \in Slots, Add(i)
         PROVE  NoIdleWhileReadersWait'
    <2>1. CASE \E q \in QueueNames : Serve(q, i, gen[i], st) /\ available' = available
      BY <1>0, <2>1, ServeUnfilled, UnfilledKeeps
    <2>2. CASE queue["verdict"] = <<>> /\ queue["read"] = <<>> /\ UNCHANGED queue
      BY <2>2 DEF NoIdleWhileReadersWait
    <2> QED BY <1>10, <2>1, <2>2 DEF Add, ServeWriterFirst, QueueNames
  <1>11. ASSUME NEW i \in Slots, RemoveSlot(i) \/ Retire(i)
         PROVE  NoIdleWhileReadersWait'
    <2>1. Unfilled
      BY <1>11 DEF RemoveSlot, Retire, TakeOut, Unfilled
    <2> QED BY <2>1, UnfilledKeeps
  <1>12. ASSUME NEW i \in Slots, Respawn(i)
         PROVE  NoIdleWhileReadersWait'
    BY <1>1, <1>12 DEF Respawn
  <1>13. CASE Shutdown
    BY <1>13 DEF Shutdown, NoIdleWhileReadersWait, QueueNames
  <1>14. CASE UNCHANGED vars
    BY <1>1, <1>14 DEF vars
  <1> QED BY <1>2, <1>3, <1>4, <1>5, <1>7, <1>8, <1>9, <1>10, <1>11, <1>12,
             <1>13, <1>14 DEF Next

(* acquire() queues only "when none is free", and no worker is freed past    *)
(* the queue: while a read or a verdict waits no worker is idle, under the   *)
(* same condition.                                                          *)
THEOREM NobodyWaitsForAFreeWorker ==
    ASSUME "remove" \notin Interrupts
    PROVE  Spec => []NoIdleWhileReadersWait
  <1>1. Init => NoIdleWhileReadersWait
    BY DEF Init, NoIdleWhileReadersWait
  <1> QED BY <1>1, IInvCorrect, IdleStep, PTL DEF Spec

-----------------------------------------------------------------------------
(***************************************************************************)
(* Statements                                                              *)
(***************************************************************************)

-----------------------------------------------------------------------------
(* The invariant.                                                           *)

Entry == [text : Texts, handle : Handles, weight : Weights]

Rows(c) == {c.entries[i] : i \in DOMAIN c.entries}

(* A map: one entry of a text; and one of a statement.                      *)
Distinct(s) ==
    \A i, j \in DOMAIN s :
        s[i].text = s[j].text \/ s[i].handle = s[j].handle => i = j

CacheInv(c) == c.entries \in Seq(Entry) /\ Distinct(c.entries)

(* What is filed is alive, compiled from its text, and does something.      *)
Backed(c, alive) ==
    \A e \in Rows(c) : /\ e.handle \in DOMAIN alive
                       /\ alive[e.handle].text = e.text
                       /\ ~alive[e.handle].hollow

Programs == [text : Texts, table : BOOLEAN, hollow : BOOLEAN]

LiveShape(alive) == DOMAIN alive \subseteq Handles /\ \A h \in DOMAIN alive : alive[h] \in Programs

Users == {"query", "close"} \cup Verdicts

Shape ==
    /\ CacheInv(cache)
    /\ LiveShape(live)
    /\ Backed(cache, live)
    /\ \/ query = NoQuery
       \/ query \in [pc : {"waiting", "first", "credit", "back"}, text : Texts,
                     mode : Modes, handle : Handles \cup {NoHandle}, stopped : BOOLEAN]
    /\ verdicts \in [Verdicts -> {NoVerdict} \cup
                        [pc : {"waiting", "compiled"}, text : Texts,
                         handle : Handles \cup {NoHandle}, keep : BOOLEAN]]
    /\ conn \in [table : BOOLEAN, in : BOOLEAN, closing : BOOLEAN, closed : BOOLEAN]
    /\ conn.closed => conn.closing

InLine(who) == \E i \in DOMAIN mutex : mutex[i] = who

LineShape ==
    /\ mutex \in Seq(Users)
    /\ \A i, j \in DOMAIN mutex : mutex[i] = mutex[j] => i = j

(* Who waits for SQLite, and who has it.                                    *)
LineInv ==
    /\ LineShape
    /\ InLine("query") <=> query.pc \in {"waiting", "first", "back"}
    /\ \A v \in Verdicts : InLine(v) <=> verdicts[v].pc # "idle"
    /\ InLine("close") => conn.closing /\ ~conn.closed /\ query.pc = "idle"
    /\ query.pc = "first" => Holds("query")
    /\ \A v \in Verdicts : verdicts[v].pc = "compiled" => Holds(v)

Stepping == query.pc \in {"first", "credit", "back"}

(* The query's statement is its text's, and is the cache's entry of that    *)
(* text if there is one.                                                    *)
QueryInv ==
    /\ ~Stepping => query.handle = NoHandle
    /\ Stepping =>
          /\ query.handle \in DOMAIN live
          /\ live[query.handle].text = query.text
          /\ ~DeniedControl(query.text, query.mode)
          /\ live[query.handle].hollow => query.mode = "read"
          /\ \A e \in Rows(cache) :
                /\ e.handle = query.handle => e.text = query.text /\ query.mode # "uncached"
                /\ query.mode # "uncached" /\ e.text = query.text => e.handle = query.handle

(* A verdict's statement is nobody else's; it is filed only where no query  *)
(* is stepping, and where the cache has none of its text.                   *)
VerdictInv ==
    \A v \in Verdicts :
        /\ verdicts[v].pc # "compiled" => verdicts[v].handle = NoHandle
        /\ verdicts[v].pc = "compiled" =>
              /\ verdicts[v].handle \in DOMAIN live \ Filed(cache)
              /\ verdicts[v].handle # query.handle
              /\ live[verdicts[v].handle].text = verdicts[v].text
              /\ verdicts[v].keep =>
                    /\ ~Stepping
                    /\ \A e \in Rows(cache) : e.text # verdicts[v].text

ClosedInv == conn.closed => query.pc = "idle" /\ cache.entries = <<>>

StatementsInv ==
    /\ Shape /\ LineInv /\ QueryInv /\ VerdictInv /\ ClosedInv
    /\ NothingLeaks /\ RunsAsAsked

-----------------------------------------------------------------------------
(* The cache.                                                               *)

(* Removing an element keeps the others, in their order.                    *)
LEMMA RemoveAtIs ==
    ASSUME NEW S, NEW s \in Seq(S), NEW i \in DOMAIN s
    PROVE  /\ RemoveAt(s, i) \in Seq(S)
           /\ Len(RemoveAt(s, i)) = Len(s) - 1
           /\ \A j \in 1 .. Len(s) - 1 :
                 RemoveAt(s, i)[j] = IF j < i THEN s[j] ELSE s[j + 1]
  <1>1. i \in 1 .. Len(s) /\ Len(s) \in Nat
    OBVIOUS
  <1> DEFINE a == SubSeq(s, 1, i - 1)
             b == SubSeq(s, i + 1, Len(s))
  <1>2. /\ a \in Seq(S) /\ Len(a) = i - 1
        /\ \A j \in 1 .. i - 1 : a[j] = s[j]
    BY <1>1
  <1>3. /\ b \in Seq(S) /\ Len(b) = Len(s) - i
        /\ \A j \in 1 .. Len(s) - i : b[j] = s[i + j]
    BY <1>1
  <1>4. RemoveAt(s, i) = a \o b
    BY DEF RemoveAt
  <1> HIDE DEF a, b
  <1>5. /\ a \o b \in Seq(S) /\ Len(a \o b) = Len(s) - 1
    BY <1>1, <1>2, <1>3
  <1>6. ASSUME NEW j \in 1 .. Len(s) - 1
        PROVE  (a \o b)[j] = IF j < i THEN s[j] ELSE s[j + 1]
    <2>1. CASE j < i
      BY <1>1, <1>2, <1>3, <2>1
    <2>2. CASE ~(j < i)
      <3>1. (a \o b)[j] = b[j - (i - 1)] /\ j - (i - 1) \in 1 .. Len(s) - i
        <4>1. /\ j \in 1 .. Len(a) + Len(b) /\ ~(j <= Len(a)) /\ Len(a) = i - 1
              /\ j - (i - 1) \in 1 .. Len(s) - i
          BY <1>1, <1>2, <1>3, <2>2, SMTT(30)
        <4>2. (a \o b)[j] = b[j - Len(a)]
          BY <1>2, <1>3, <4>1, ConcatProperties
        <4> QED BY <4>1, <4>2
      <3>2. b[j - (i - 1)] = s[i + (j - (i - 1))] /\ i + (j - (i - 1)) = j + 1
        <4>1. b[j - (i - 1)] = s[i + (j - (i - 1))]
          BY <1>3, <3>1
        <4>2. i + (j - (i - 1)) = j + 1
          BY <1>1
        <4> QED BY <4>1, <4>2
      <3> QED BY <1>1, <2>2, <3>1, <3>2
    <2> QED BY <2>1, <2>2
  <1> QED BY <1>4, <1>5, <1>6

(* A set of numbers that is not empty has a least element.                  *)
LEMMA MinIs ==
    ASSUME NEW S \in SUBSET Nat, S # {}
    PROVE  Min(S) \in S /\ \A j \in S : Min(S) <= j
  <1>1. PICK k \in S : \A j \in S : ~(<<j, k>> \in OpToRel(<, Nat))
    BY WFMin, NatLessThanWellFounded
  <1>2. \A j \in S : k <= j
    <2> SUFFICES ASSUME NEW j \in S, j < k PROVE FALSE
      OBVIOUS
    <2>1. j \in Nat /\ k \in Nat
      OBVIOUS
    <2>2. <<j, k>> \in OpToRel(<, Nat)
      BY <2>1 DEF OpToRel
    <2> QED
      BY <1>1, <2>2
  <1> QED BY <1>2 DEF Min

(* The rows without the one of an index.                                    *)
LEMMA RemoveRows ==
    ASSUME NEW s \in Seq(Entry), Distinct(s), NEW i \in DOMAIN s
    PROVE  /\ RemoveAt(s, i) \in Seq(Entry)
           /\ Distinct(RemoveAt(s, i))
           /\ {RemoveAt(s, i)[j] : j \in DOMAIN RemoveAt(s, i)} = {s[j] : j \in DOMAIN s} \ {s[i]}
  <1> DEFINE t == RemoveAt(s, i)
  <1>1. /\ t \in Seq(Entry) /\ Len(t) = Len(s) - 1 /\ DOMAIN t = 1 .. Len(s) - 1
        /\ \A j \in 1 .. Len(s) - 1 : t[j] = IF j < i THEN s[j] ELSE s[j + 1]
    BY RemoveAtIs
  <1>2. i \in 1 .. Len(s) /\ DOMAIN s = 1 .. Len(s) /\ Len(s) \in Nat
    OBVIOUS
  <1> HIDE DEF t
  <1>3. Distinct(t)
    <2> SUFFICES ASSUME NEW j \in DOMAIN t, NEW k \in DOMAIN t,
                        t[j].text = t[k].text \/ t[j].handle = t[k].handle
                 PROVE  j = k
      BY DEF Distinct
    <2> DEFINE was(x) == IF x < i THEN x ELSE x + 1
    <2>1. was(j) \in DOMAIN s /\ was(k) \in DOMAIN s /\ t[j] = s[was(j)] /\ t[k] = s[was(k)]
      BY <1>1, <1>2
    <2>2. was(j) = was(k)
      BY <2>1 DEF Distinct
    <2> QED BY <1>1, <1>2, <2>2
  <1>4. ASSUME NEW j \in DOMAIN t PROVE t[j] \in {s[k] : k \in DOMAIN s} \ {s[i]}
    <2> DEFINE k == IF j < i THEN j ELSE j + 1
    <2>1. k \in DOMAIN s /\ k # i /\ t[j] = s[k]
      BY <1>1, <1>2
    <2> QED BY <2>1 DEF Distinct
  <1>5. ASSUME NEW k \in DOMAIN s, s[k] # s[i] PROVE \E j \in DOMAIN t : t[j] = s[k]
    <2> DEFINE j == IF k < i THEN k ELSE k - 1
    <2>1. j \in DOMAIN t /\ t[j] = s[k]
      BY <1>1, <1>2, <1>5
    <2> QED BY <2>1
  <1> QED BY <1>1, <1>3, <1>4, <1>5 DEF t

(* drop: the entry of the text is gone, the others are kept.                *)
LEMMA DropIs ==
    ASSUME NEW c, CacheInv(c), NEW text
    PROVE  /\ CacheInv(Drop(c, text))
           /\ Rows(Drop(c, text)) = {e \in Rows(c) : e.text # text}
  <1>1. CASE ~Has(c, text)
    BY <1>1 DEF Drop, Has, Rows
  <1>2. CASE Has(c, text)
    <2> DEFINE i == IndexOf(c, text)
    <2>1. i \in DOMAIN c.entries /\ c.entries[i].text = text
      BY <1>2 DEF Has, IndexOf
    <2>2. \A e \in Rows(c) : e.text = text => e = c.entries[i]
      BY <2>1 DEF Rows, CacheInv, Distinct
    <2> HIDE DEF i
    <2>3. /\ RemoveAt(c.entries, i) \in Seq(Entry)
          /\ Distinct(RemoveAt(c.entries, i))
          /\ {RemoveAt(c.entries, i)[j] : j \in DOMAIN RemoveAt(c.entries, i)}
                = Rows(c) \ {c.entries[i]}
      BY <2>1, RemoveRows DEF CacheInv, Rows
    <2>4. Drop(c, text).entries = RemoveAt(c.entries, i)
      BY <1>2 DEF Drop, i
    <2>5. CacheInv(Drop(c, text)) /\ Rows(Drop(c, text)) = Rows(c) \ {c.entries[i]}
      BY <2>3, <2>4 DEF CacheInv, Rows
    <2> QED BY <2>1, <2>2, <2>5
  <1> QED BY <1>1, <1>2

(* An entry of a text and an address the sequence has not, at its end.      *)
LEMMA AppendRows ==
    ASSUME NEW s \in Seq(Entry), Distinct(s), NEW e \in Entry,
           \A i \in DOMAIN s : s[i].text # e.text /\ s[i].handle # e.handle
    PROVE  /\ Append(s, e) \in Seq(Entry)
           /\ Distinct(Append(s, e))
           /\ {Append(s, e)[j] : j \in DOMAIN Append(s, e)} = {s[j] : j \in DOMAIN s} \cup {e}
  <1> DEFINE t == Append(s, e)
  <1>1. /\ t \in Seq(Entry) /\ DOMAIN t = 1 .. Len(s) + 1 /\ t[Len(s) + 1] = e
        /\ \A j \in 1 .. Len(s) : t[j] = s[j]
    OBVIOUS
  <1>2. DOMAIN s = 1 .. Len(s) /\ Len(s) \in Nat
    OBVIOUS
  <1> HIDE DEF t
  <1>3. Distinct(t)
    BY <1>1, <1>2 DEF Distinct
  <1>4. {t[j] : j \in DOMAIN t} = {s[j] : j \in DOMAIN s} \cup {e}
    BY <1>1, <1>2
  <1> QED BY <1>1, <1>3, <1>4 DEF t

(* get: the same entries.                                                  *)
LEMMA UseIs ==
    ASSUME NEW c, CacheInv(c), NEW text
    PROVE  CacheInv(Use(c, text)) /\ Rows(Use(c, text)) = Rows(c)
  <1>1. CASE ~Has(c, text)
    BY <1>1 DEF Use
  <1>2. CASE Has(c, text)
    <2> DEFINE i == IndexOf(c, text)
    <2>1. i \in DOMAIN c.entries
      BY <1>2 DEF Has, IndexOf
    <2> HIDE DEF i
    <2> DEFINE s == RemoveAt(c.entries, i)
               e == c.entries[i]
    <2>2. /\ s \in Seq(Entry) /\ Distinct(s)
          /\ {s[j] : j \in DOMAIN s} = Rows(c) \ {e}
      BY <2>1, RemoveRows DEF CacheInv, Rows
    <2>3. e \in Entry /\ e \in Rows(c)
      BY <2>1 DEF CacheInv, Rows
    <2>4. Use(c, text).entries = Append(s, e)
      BY <1>2 DEF Use, i
    <2>5. \A f \in Rows(c) \ {e} : f.text # e.text /\ f.handle # e.handle
      BY <2>1 DEF CacheInv, Distinct, Rows
    <2> HIDE DEF s, e
    <2>6. \A j \in DOMAIN s : s[j].text # e.text /\ s[j].handle # e.handle
      BY <2>2, <2>5
    <2>7. /\ Append(s, e) \in Seq(Entry) /\ Distinct(Append(s, e))
          /\ {Append(s, e)[j] : j \in DOMAIN Append(s, e)} = {s[j] : j \in DOMAIN s} \cup {e}
      BY <2>2, <2>3, <2>6, AppendRows
    <2>8. CacheInv(Use(c, text)) /\ Rows(Use(c, text)) = (Rows(c) \ {e}) \cup {e}
      BY <2>2, <2>4, <2>7 DEF CacheInv, Rows
    <2> QED BY <2>3, <2>8
  <1> QED BY <1>1, <1>2

(* Evicting leaves some of the entries.                                     *)
LEMMA EvictIs ==
    ASSUME NEW c, CacheInv(c), NEW n \in 0 .. Len(c.entries)
    PROVE  CacheInv(Evict(c, n)) /\ Rows(Evict(c, n)) \subseteq Rows(c)
  <1> DEFINE s == c.entries
             t == Evict(c, n).entries
  <1>1. s \in Seq(Entry) /\ Len(s) \in Nat /\ DOMAIN s = 1 .. Len(s)
    BY DEF CacheInv
  <1>2. t = SubSeq(s, n + 1, Len(s))
    BY DEF Evict
  <1> HIDE DEF s, t
  <1>3. /\ t \in Seq(Entry) /\ DOMAIN t = 1 .. Len(s) - n
        /\ \A j \in 1 .. Len(s) - n : t[j] = s[n + j] /\ n + j \in DOMAIN s
    BY <1>1, <1>2 DEF s
  <1>4. Distinct(s)
    BY DEF CacheInv, s
  <1>5. Distinct(t)
    <2> SUFFICES ASSUME NEW j \in DOMAIN t, NEW k \in DOMAIN t,
                        t[j].text = t[k].text \/ t[j].handle = t[k].handle
                 PROVE  j = k
      BY DEF Distinct
    <2>1. t[j] = s[n + j] /\ t[k] = s[n + k] /\ n + j \in DOMAIN s /\ n + k \in DOMAIN s
      BY <1>3
    <2>2. n + j = n + k
      BY <1>4, <2>1 DEF Distinct
    <2> QED BY <1>1, <1>3, <2>2
  <1>6. \A j \in DOMAIN t : \E i \in DOMAIN s : t[j] = s[i]
    BY <1>3
  <1> QED BY <1>3, <1>5, <1>6 DEF CacheInv, Rows, s, t

(* set: what remains is the new entry and some of the others.               *)
LEMMA InsertIs ==
    ASSUME NEW c, CacheInv(c), NEW text \in Texts, NEW handle \in Handles,
           NEW weight \in Weights,
           \A e \in Rows(c) : e.handle = handle => e.text = text
    PROVE  /\ CacheInv(Insert(c, text, handle, weight))
           /\ Rows(Insert(c, text, handle, weight)) \subseteq
                 {e \in Rows(c) : e.text # text}
                    \cup {[text |-> text, handle |-> handle, weight |-> weight]}
  <1> DEFINE dropped == Drop(c, text)
             K == {k \in 0 .. Len(dropped.entries) :
                      \/ k = Len(dropped.entries)
                      \/ Evict(dropped, k).total < MaxBytes}
             n == Min(K)
             room == Evict(dropped, n)
             e0 == [text |-> text, handle |-> handle, weight |-> weight]
             grown == [entries |-> Append(room.entries, e0), total |-> room.total + weight]
             x == Max({0, Len(grown.entries) - MaxEntries})
  <1>1. CacheInv(dropped) /\ Rows(dropped) = {e \in Rows(c) : e.text # text}
    BY DropIs
  <1>2. Insert(c, text, handle, weight) = Evict(grown, x)
    BY DEF Insert
  <1> HIDE DEF dropped
  <1>3. Len(dropped.entries) \in Nat
    BY <1>1 DEF CacheInv
  <1>4. n \in 0 .. Len(dropped.entries)
    <2>1. K \in SUBSET Nat /\ Len(dropped.entries) \in K
      BY <1>3
    <2>2. n \in K
      <3> HIDE DEF K
      <3> QED BY <2>1, MinIs
    <2> QED BY <2>2
  <1> HIDE DEF K, n
  <1>5. CacheInv(room) /\ Rows(room) \subseteq Rows(dropped)
    BY <1>1, <1>4, EvictIs
  <1> HIDE DEF room
  <1>6. e0 \in Entry /\ e0.text = text /\ e0.handle = handle
    BY DEF Entry
  <1> HIDE DEF e0
  <1>7. room.entries \in Seq(Entry) /\ Distinct(room.entries)
    BY <1>5 DEF CacheInv
  <1>8. \A i \in DOMAIN room.entries : /\ room.entries[i].text # e0.text
                                       /\ room.entries[i].handle # e0.handle
    BY <1>1, <1>5, <1>6 DEF Rows
  <1>9. /\ Append(room.entries, e0) \in Seq(Entry)
        /\ Distinct(Append(room.entries, e0))
        /\ {Append(room.entries, e0)[j] : j \in DOMAIN Append(room.entries, e0)}
              = Rows(room) \cup {e0}
    BY <1>6, <1>7, <1>8, AppendRows DEF Rows
  <1>10. CacheInv(grown) /\ Rows(grown) = Rows(room) \cup {e0}
    BY <1>9 DEF CacheInv, Rows
  <1>11. x \in 0 .. Len(grown.entries)
    <2>1. Len(grown.entries) \in Nat /\ MaxEntries \in Nat
      BY <1>9, StatementsAssumption
    <2> HIDE DEF grown
    <2> DEFINE d == Len(grown.entries) - MaxEntries
    <2>2. d \in Int
      BY <2>1
    <2>3. \E m \in {0, d} : \A y \in {0, d} : m >= y
      <3>1. CASE d >= 0
        BY <2>2, <3>1
      <3>2. CASE d < 0
        BY <2>2, <3>2
      <3> QED BY <2>2, <3>1, <3>2
    <2>4. x \in {0, d} /\ x >= 0
      BY <2>3 DEF Max
    <2> QED BY <2>1, <2>4
  <1> HIDE DEF grown, x
  <1>12. CacheInv(Evict(grown, x)) /\ Rows(Evict(grown, x)) \subseteq Rows(grown)
    BY <1>10, <1>11, EvictIs
  <1> QED BY <1>1, <1>2, <1>5, <1>10, <1>12 DEF e0

-----------------------------------------------------------------------------
(* SQLite's holder and those who wait for it.                               *)

(* holdSqlite: one more in the line, and the holder stays.                  *)
LEMMA HoldLine ==
    ASSUME LineShape, NEW who \in Users, ~InLine(who), Hold(who)
    PROVE  /\ LineShape'
           /\ \A u : InLine(u)' <=> InLine(u) \/ u = who
           /\ \A u : Holds(u) => Holds(u)'
  <1>1. /\ mutex' \in Seq(Users) /\ Len(mutex) \in Nat
        /\ DOMAIN mutex' = 1 .. Len(mutex) + 1 /\ DOMAIN mutex = 1 .. Len(mutex)
        /\ mutex'[Len(mutex) + 1] = who
        /\ \A i \in 1 .. Len(mutex) : mutex'[i] = mutex[i]
    BY DEF LineShape, Hold
  <1>2. LineShape'
    BY <1>1 DEF LineShape, InLine
  <1>3. \A u : InLine(u)' <=> InLine(u) \/ u = who
    BY <1>1 DEF InLine
  <1>4. \A u : Holds(u) => Holds(u)'
    BY <1>1 DEF Holds, LineShape
  <1> QED BY <1>2, <1>3, <1>4

(* releaseSqlite: the holder leaves the line, the others stay.              *)
LEMMA ReleaseLine ==
    ASSUME LineShape, NEW who, Holds(who), ReleaseSqlite
    PROVE  /\ LineShape'
           /\ InLine(who)
           /\ \A u : InLine(u)' <=> InLine(u) /\ u # who
  <1>1. /\ mutex' \in Seq(Users) /\ Len(mutex) \in Nat \ {0}
        /\ DOMAIN mutex' = 1 .. Len(mutex) - 1 /\ DOMAIN mutex = 1 .. Len(mutex)
        /\ mutex[1] = who
        /\ \A i \in 1 .. Len(mutex) - 1 : mutex'[i] = mutex[i + 1]
    BY DEF LineShape, ReleaseSqlite, Holds
  <1>2. LineShape'
    <2> SUFFICES ASSUME NEW j \in DOMAIN mutex', NEW k \in DOMAIN mutex',
                        mutex'[j] = mutex'[k]
                 PROVE  j = k
      BY <1>1 DEF LineShape
    <2>1. /\ mutex[j + 1] = mutex[k + 1] /\ j + 1 \in DOMAIN mutex
          /\ k + 1 \in DOMAIN mutex
      BY <1>1
    <2>2. j + 1 = k + 1
      BY <2>1 DEF LineShape
    <2> QED BY <1>1, <2>2
  <1>3. InLine(who)
    BY <1>1 DEF InLine
  <1>4. ASSUME NEW u, InLine(u)' PROVE InLine(u) /\ u # who
    BY <1>1, <1>4 DEF InLine, LineShape
  <1>5. ASSUME NEW u, InLine(u), u # who PROVE InLine(u)'
    <2>1. PICK i \in DOMAIN mutex : mutex[i] = u
      BY <1>5 DEF InLine
    <2>2. i - 1 \in DOMAIN mutex' /\ mutex'[i - 1] = u
      BY <1>1, <1>5, <2>1
    <2> QED BY <2>2 DEF InLine
  <1> QED BY <1>2, <1>3, <1>4, <1>5

(* Only one holds SQLite.                                                   *)
LEMMA OneHolds ==
    ASSUME NEW u, NEW w, Holds(u), Holds(w)
    PROVE  u = w
  BY DEF Holds

-----------------------------------------------------------------------------
(* Statements filed and finalised.                                          *)

(* The statements of the rows.                                              *)
LEMMA FiledIs ==
    ASSUME NEW c
    PROVE  Filed(c) = {e.handle : e \in Rows(c)}
  BY DEF Filed, Rows

(* Filing keeps alive what stays in the cache and what was never in it.     *)
LEMMA FileIs ==
    ASSUME CacheInv(cache), LiveShape(live), Backed(cache, live),
           NEW text \in Texts, NEW handle \in Handles,
           NEW program \in Programs, program.text = text, ~program.hollow,
           \A e \in Rows(cache) : e.handle = handle <=> e.text = text,
           File(text, handle, program)
    PROVE  /\ CacheInv(cache') /\ LiveShape(live') /\ Backed(cache', live')
           /\ Filed(cache') \subseteq Filed(cache) \cup {handle}
           /\ DOMAIN live' = (DOMAIN live \ (Filed(cache) \cup {handle})) \cup Filed(cache')
           /\ \A h \in DOMAIN live' \ {handle} : live'[h] = live[h]
  <1>1. PICK weight \in Weights :
           /\ cache' = Insert(cache, text, handle, weight)
           /\ live' = [h \in (DOMAIN live \cup {handle})
                               \ ((Filed(Drop(cache, text)) \cup {handle}) \ Filed(cache'))
                          |-> IF h = handle THEN program ELSE live[h]]
    BY DEF File
  <1> DEFINE e0 == [text |-> text, handle |-> handle, weight |-> weight]
  <1>2. /\ CacheInv(cache')
        /\ Rows(cache') \subseteq {e \in Rows(cache) : e.text # text} \cup {e0}
    BY <1>1, InsertIs
  <1>3. Rows(Drop(cache, text)) = {e \in Rows(cache) : e.text # text}
    BY DropIs
  <1>4. e0.text = text /\ e0.handle = handle
    OBVIOUS
  <1> HIDE DEF e0
  <1>5. Filed(cache') \subseteq Filed(cache) \cup {handle}
    BY <1>2, <1>4, FiledIs
  <1>6. Filed(Drop(cache, text)) \cup {handle} = Filed(cache) \cup {handle}
    BY <1>3, FiledIs
  <1>7. Filed(cache) \subseteq DOMAIN live
    BY FiledIs DEF Backed
  <1>8. DOMAIN live' = (DOMAIN live \ (Filed(cache) \cup {handle})) \cup Filed(cache')
    BY <1>1, <1>5, <1>6, <1>7
  <1>9. \A h \in DOMAIN live' : live'[h] = IF h = handle THEN program ELSE live[h]
    BY <1>1
  <1>10. DOMAIN live' \subseteq DOMAIN live \cup {handle}
    BY <1>1
  <1>11. LiveShape(live')
    BY <1>9, <1>10 DEF LiveShape
  <1>12. Backed(cache', live')
    <2> SUFFICES ASSUME NEW e \in Rows(cache')
                 PROVE  /\ e.handle \in DOMAIN live'
                        /\ live'[e.handle].text = e.text /\ ~live'[e.handle].hollow
      BY DEF Backed
    <2>1. e.handle \in DOMAIN live'
      BY <1>8, FiledIs
    <2>2. CASE e = e0
      BY <1>4, <1>9, <2>1, <2>2
    <2>3. CASE e \in Rows(cache) /\ e.text # text
      BY <1>9, <2>1, <2>3 DEF Backed
    <2> QED BY <1>2, <2>2, <2>3
  <1> QED BY <1>2, <1>5, <1>8, <1>9, <1>11, <1>12

(* A statement that is filed nowhere is finalised.                          *)
LEMMA FinalizeIs ==
    ASSUME LiveShape(live), NEW c, Backed(c, live), NEW handle, handle \notin Filed(c),
           live' = Without({handle})
    PROVE  /\ LiveShape(live') /\ Backed(c, live')
           /\ DOMAIN live' = DOMAIN live \ {handle}
           /\ \A h \in DOMAIN live' : live'[h] = live[h]
  <1>1. /\ DOMAIN live' = DOMAIN live \ {handle}
        /\ \A h \in DOMAIN live' : live'[h] = live[h]
    BY DEF Without
  <1> QED BY <1>1, FiledIs DEF LiveShape, Backed

(* A statement is finalised and its text forgotten.                         *)
LEMMA DiscardIs ==
    ASSUME CacheInv(cache), LiveShape(live), Backed(cache, live), NEW text, NEW handle,
           \A e \in Rows(cache) : e.handle = handle <=> e.text = text,
           Discard(text, handle)
    PROVE  /\ CacheInv(cache') /\ LiveShape(live') /\ Backed(cache', live')
           /\ Filed(cache') = Filed(cache) \ {handle}
           /\ DOMAIN live' = DOMAIN live \ {handle}
           /\ \A h \in DOMAIN live' : live'[h] = live[h]
  <1>1. cache' = Drop(cache, text) /\ live' = Without({handle})
    BY DEF Discard
  <1>2. CacheInv(cache') /\ Rows(cache') = {e \in Rows(cache) : e.text # text}
    BY <1>1, DropIs
  <1>3. Filed(cache') = Filed(cache) \ {handle}
    BY <1>2, FiledIs
  <1>4. Backed(cache', live)
    BY <1>2 DEF Backed
  <1> QED BY <1>1, <1>2, <1>3, <1>4, FinalizeIs

(* A statement is compiled at a free address.                               *)
LEMMA WithIs ==
    ASSUME LiveShape(live), NEW c, Backed(c, live), NEW h \in Free, NEW p \in Programs,
           live' = With(h, p)
    PROVE  /\ LiveShape(live') /\ Backed(c, live')
           /\ DOMAIN live' = DOMAIN live \cup {h}
           /\ live'[h] = p
           /\ \A g \in DOMAIN live : live'[g] = live[g] /\ g # h
           /\ h \notin Filed(c) /\ h # NoHandle /\ h \in Handles
  <1>1. /\ DOMAIN live' = DOMAIN live \cup {h} /\ live'[h] = p
        /\ \A g \in DOMAIN live : live'[g] = live[g] /\ g # h
    BY DEF With, Free
  <1>2. h \in Handles /\ h # NoHandle
    BY StatementsAssumption DEF Free
  <1>3. h \notin Filed(c)
    BY FiledIs DEF Backed, Free
  <1>4. LiveShape(live') /\ Backed(c, live')
    BY <1>1, <1>2 DEF LiveShape, Backed
  <1> QED BY <1>1, <1>2, <1>3, <1>4

-----------------------------------------------------------------------------
(* What the actions have in common.                                         *)

(* The cache is a map: a text, or a statement, has one row.                 *)
LEMMA RowsDistinct ==
    ASSUME NEW c, CacheInv(c), NEW e \in Rows(c), NEW f \in Rows(c),
           e.text = f.text \/ e.handle = f.handle
    PROVE  e = f
  BY DEF CacheInv, Distinct, Rows

(* What is filed has an address.                                            *)
LEMMA RowsTyped ==
    ASSUME NEW c, CacheInv(c)
    PROVE  /\ Rows(c) \subseteq Entry
           /\ Filed(c) \subseteq Handles
           /\ NoHandle \notin Filed(c)
  <1>1. Rows(c) \subseteq Entry
    BY DEF CacheInv, Rows
  <1> QED BY <1>1, FiledIs, StatementsAssumption DEF Entry

(* While somebody has SQLite no verdict but his is being prepared.          *)
LEMMA NoneCompiled ==
    ASSUME StatementsInv, NEW u, Holds(u), NEW v \in Verdicts, v # u
    PROVE  verdicts[v].pc # "compiled" /\ verdicts[v].handle = NoHandle
  BY OneHolds DEF StatementsInv, LineInv, VerdictInv

(* While the query has SQLite every statement is filed or its own.          *)
LEMMA HolderIs ==
    ASSUME StatementsInv, Holds("query")
    PROVE  /\ query.pc \in {"waiting", "first", "back"}
           /\ ~conn.closed
           /\ \A v \in Verdicts : verdicts[v].pc # "compiled" /\ verdicts[v].handle = NoHandle
           /\ DOMAIN live \subseteq Filed(cache) \cup {query.handle}
  <1>1. InLine("query")
    BY DEF Holds, InLine, StatementsInv, LineInv, LineShape
  <1>2. query.pc \in {"waiting", "first", "back"}
    BY <1>1 DEF StatementsInv, LineInv
  <1>3. \A v \in Verdicts : verdicts[v].pc # "compiled" /\ verdicts[v].handle = NoHandle
    BY NoneCompiled, StatementsAssumption
  <1>4. NoHandle \notin DOMAIN live
    BY StatementsAssumption DEF StatementsInv, Shape, LiveShape
  <1> QED BY <1>2, <1>3, <1>4 DEF StatementsInv, ClosedInv, NothingLeaks

(* The reply: the query and its statement are let go.                       *)
LEMMA QueryDone ==
    ASSUME StatementsInv, Holds("query"), Reply,
           CacheInv(cache'), LiveShape(live'), Backed(cache', live'),
           DOMAIN live' \subseteq Filed(cache'),
           UNCHANGED <<verdicts, harm>>,
           conn' \in [table : BOOLEAN, in : BOOLEAN, closing : BOOLEAN, closed : BOOLEAN],
           conn'.closing = conn.closing, conn'.closed = conn.closed
    PROVE  StatementsInv'
  <1>1. query' = NoQuery /\ query'.pc = "idle" /\ query'.handle = NoHandle /\ ReleaseSqlite
    BY DEF Reply, NoQuery
  <1>2. ~conn.closed /\ \A v \in Verdicts : verdicts[v].pc # "compiled"
    BY HolderIs
  <1>3. Shape'
    BY <1>1 DEF StatementsInv, Shape
  <1>4. LineInv'
    <2>1. /\ LineShape' /\ InLine("query")
          /\ \A u : InLine(u)' <=> InLine(u) /\ u # "query"
      BY <1>1, ReleaseLine DEF StatementsInv, LineInv
    <2>2. \A v \in Verdicts : v # "query"
      BY StatementsAssumption
    <2> QED BY <1>1, <1>2, <2>1, <2>2 DEF StatementsInv, LineInv
  <1>5. QueryInv'
    BY <1>1 DEF QueryInv, Stepping
  <1>6. VerdictInv'
    BY <1>2 DEF VerdictInv, StatementsInv
  <1>7. ClosedInv' /\ NothingLeaks' /\ RunsAsAsked'
    BY <1>2 DEF ClosedInv, NothingLeaks, RunsAsAsked, StatementsInv
  <1> QED BY <1>3, <1>4, <1>5, <1>6, <1>7 DEF StatementsInv

(* A query's statement is filed, or finalised.                              *)
LEMMA SettleIs ==
    ASSUME CacheInv(cache), LiveShape(live), Backed(cache, live),
           NEW text \in Texts, NEW handle \in Handles,
           NEW program \in Programs, program.text = text, NEW failed \in BOOLEAN,
           query.mode # "uncached" =>
               \A e \in Rows(cache) : e.handle = handle <=> e.text = text,
           query.mode = "uncached" \/ program.hollow => handle \notin Filed(cache),
           DOMAIN live \subseteq Filed(cache) \cup {handle},
           Settle(text, handle, program, failed)
    PROVE  /\ CacheInv(cache') /\ LiveShape(live') /\ Backed(cache', live')
           /\ DOMAIN live' \subseteq Filed(cache')
  <1>1. CASE query.mode = "uncached" \/ program.hollow
    <2>1. cache' = cache /\ live' = Without({handle})
      BY <1>1 DEF Settle
    <2> QED BY <1>1, <2>1, FinalizeIs
  <1>2. CASE ~(query.mode = "uncached" \/ program.hollow) /\ failed
    <2>1. Discard(text, handle)
      BY <1>2 DEF Settle
    <2>2. \A e \in Rows(cache) : e.handle = handle <=> e.text = text
      BY <1>2
    <2>3. /\ CacheInv(cache') /\ LiveShape(live') /\ Backed(cache', live')
          /\ Filed(cache') = Filed(cache) \ {handle}
          /\ DOMAIN live' = DOMAIN live \ {handle}
      BY <2>1, <2>2, DiscardIs
    <2> QED BY <2>3
  <1>3. CASE ~(query.mode = "uncached" \/ program.hollow) /\ ~failed
    <2>1. File(text, handle, program)
      BY <1>3 DEF Settle
    <2>2. \A e \in Rows(cache) : e.handle = handle <=> e.text = text
      BY <1>3
    <2>3. /\ CacheInv(cache') /\ LiveShape(live') /\ Backed(cache', live')
          /\ DOMAIN live' = (DOMAIN live \ (Filed(cache) \cup {handle})) \cup Filed(cache')
      BY <1>3, <2>1, <2>2, FileIs
    <2> QED BY <2>3
  <1> QED BY <1>1, <1>2, <1>3

(* The query's step is over: it replies, or waits for a credit.             *)
LEMMA StepIs ==
    ASSUME StatementsInv, Stepping, Holds("query"), NEW p \in Programs,
           p.text = query.text, p.hollow = live[query.handle].hollow,
           UNCHANGED <<verdicts, harm>>,
           conn' \in [table : BOOLEAN, in : BOOLEAN, closing : BOOLEAN, closed : BOOLEAN],
           conn'.closing = conn.closing, conn'.closed = conn.closed,
           Yields(p) \/ \E failed \in BOOLEAN : Over(p, failed)
    PROVE  StatementsInv'
  <1>0. /\ query \in [pc : {"waiting", "first", "credit", "back"}, text : Texts,
                      mode : Modes, handle : Handles \cup {NoHandle}, stopped : BOOLEAN]
        /\ CacheInv(cache) /\ LiveShape(live) /\ Backed(cache, live)
    BY DEF StatementsInv, Shape, Stepping, NoQuery
  <1>1. /\ query.handle \in DOMAIN live /\ query.handle \in Handles
        /\ query.text \in Texts
    BY <1>0 DEF StatementsInv, QueryInv, LiveShape
  <1>2. query.handle \in Filed(cache) => ~p.hollow /\ query.mode # "uncached"
    BY FiledIs DEF Backed, StatementsInv, Shape, QueryInv
  <1>3. query.mode # "uncached" =>
            \A e \in Rows(cache) : e.handle = query.handle <=> e.text = query.text
    BY DEF StatementsInv, QueryInv
  <1>4. CASE \E failed \in BOOLEAN : Over(p, failed)
    <2>1. PICK failed \in BOOLEAN : Settle(query.text, query.handle, p, failed) /\ Reply
      BY <1>4 DEF Over
    <2>2. DOMAIN live \subseteq Filed(cache) \cup {query.handle}
      BY HolderIs
    <2>3. /\ CacheInv(cache') /\ LiveShape(live') /\ Backed(cache', live')
          /\ DOMAIN live' \subseteq Filed(cache')
      BY <1>0, <1>1, <1>2, <1>3, <2>1, <2>2, SettleIs
    <2> QED BY <2>1, <2>3, QueryDone
  <1>5. CASE Yields(p)
    <2>1. /\ query' = [query EXCEPT !.pc = "credit"] /\ live' = With(query.handle, p)
          /\ ReleaseSqlite /\ cache' = cache
      BY <1>5 DEF Yields
    <2>2. /\ DOMAIN live' = DOMAIN live /\ live'[query.handle] = p
          /\ \A g \in DOMAIN live \ {query.handle} : live'[g] = live[g]
      BY <1>1, <2>1 DEF With
    <2>3. /\ query'.pc = "credit" /\ query'.handle = query.handle /\ query'.text = query.text
          /\ query'.mode = query.mode
          /\ query' \in [pc : {"waiting", "first", "credit", "back"}, text : Texts,
                      mode : Modes, handle : Handles \cup {NoHandle}, stopped : BOOLEAN]
      BY <1>0, <2>1
    <2>4. LiveShape(live')
      BY <1>0, <2>2 DEF LiveShape
    <2>5. Backed(cache, live')
      <3> SUFFICES ASSUME NEW e \in Rows(cache)
                   PROVE  /\ e.handle \in DOMAIN live'
                          /\ live'[e.handle].text = e.text /\ ~live'[e.handle].hollow
        BY DEF Backed
      <3>1. CASE e.handle = query.handle
        BY <1>0, <2>2, <3>1 DEF Backed, StatementsInv, QueryInv
      <3>2. CASE e.handle # query.handle
        BY <1>0, <2>2, <3>2 DEF Backed
      <3> QED BY <3>1, <3>2
    <2>6. Shape'
      BY <2>1, <2>3, <2>4, <2>5 DEF StatementsInv, Shape
    <2>7. ~conn.closed /\ \A v \in Verdicts : verdicts[v].pc # "compiled"
      BY HolderIs
    <2>8. LineInv'
      <3>1. /\ LineShape' /\ InLine("query")
            /\ \A u : InLine(u)' <=> InLine(u) /\ u # "query"
        BY <2>1, ReleaseLine DEF StatementsInv, LineInv
      <3>2. \A v \in Verdicts : v # "query"
        BY StatementsAssumption
      <3>3. ~InLine("close")
        BY <3>1 DEF StatementsInv, LineInv
      <3> QED BY <2>3, <2>7, <3>1, <3>2, <3>3 DEF StatementsInv, LineInv
    <2>9. QueryInv'
      BY <2>1, <2>2, <2>3, <1>1 DEF StatementsInv, QueryInv, Stepping
    <2>10. VerdictInv'
      BY <2>7 DEF VerdictInv, StatementsInv
    <2>11. ClosedInv' /\ NothingLeaks' /\ RunsAsAsked'
      BY <2>1, <2>2, <2>3, <2>7 DEF ClosedInv, NothingLeaks, RunsAsAsked, StatementsInv
    <2> QED BY <2>6, <2>8, <2>9, <2>10, <2>11 DEF StatementsInv
  <1> QED BY <1>4, <1>5

-----------------------------------------------------------------------------
(* The actions of a query.                                                  *)

(* A query arrives, and waits for SQLite.                                   *)
LEMMA ReceiveStep ==
    ASSUME StatementsInv, NEW text \in Texts, NEW mode \in Modes, Receive(text, mode)
    PROVE  StatementsInv'
  <1>1. /\ query.pc = "idle" /\ ~conn.closing /\ ~conn.closed
        /\ query'.pc = "waiting" /\ query'.handle = NoHandle /\ ~query'.stopped
        /\ query' \in [pc : {"waiting", "first", "credit", "back"}, text : Texts,
                       mode : Modes, handle : Handles \cup {NoHandle}, stopped : BOOLEAN]
        /\ Hold("query") /\ UNCHANGED <<cache, live, verdicts, conn, harm>>
    BY DEF Receive, StatementsInv, Shape
  <1>2. /\ LineShape'
        /\ \A u : InLine(u)' <=> InLine(u) \/ u = "query"
        /\ \A u : Holds(u) => Holds(u)'
    BY <1>1, HoldLine DEF StatementsInv, LineInv, Users
  <1>3. Shape'
    BY <1>1 DEF StatementsInv, Shape
  <1>4. LineInv'
    BY <1>1, <1>2, StatementsAssumption DEF StatementsInv, LineInv
  <1>5. QueryInv' /\ VerdictInv'
    <2>1. query.handle = NoHandle
      BY <1>1 DEF StatementsInv, QueryInv, Stepping
    <2> QED BY <1>1, <2>1 DEF StatementsInv, QueryInv, VerdictInv, Stepping
  <1>6. ClosedInv' /\ NothingLeaks' /\ RunsAsAsked'
    <2>1. query.handle = NoHandle
      BY <1>1 DEF StatementsInv, QueryInv, Stepping
    <2> QED BY <1>1, <2>1 DEF StatementsInv, ClosedInv, NothingLeaks, RunsAsAsked
  <1> QED BY <1>3, <1>4, <1>5, <1>6 DEF StatementsInv

(* The query's turn: its statement is at an address and is to be stepped.   *)
LEMMA QueryStarts ==
    ASSUME StatementsInv, query.pc = "waiting", Holds("query"),
           NEW h \in Handles, h \in DOMAIN live',
           query' = [query EXCEPT !.pc = "first", !.handle = h],
           CacheInv(cache'), LiveShape(live'), Backed(cache', live'),
           Rows(cache') = Rows(cache),
           DOMAIN live' \subseteq DOMAIN live \cup {h},
           live'[h].text = query.text,
           ~DeniedControl(query.text, query.mode),
           live'[h].hollow => query.mode = "read",
           \A e \in Rows(cache) :
              /\ e.handle = h => e.text = query.text /\ query.mode # "uncached"
              /\ query.mode # "uncached" /\ e.text = query.text => e.handle = h,
           UNCHANGED <<mutex, verdicts, conn, harm>>
    PROVE  StatementsInv'
  <1>1. /\ query \in [pc : {"waiting", "first", "credit", "back"}, text : Texts,
                      mode : Modes, handle : Handles \cup {NoHandle}, stopped : BOOLEAN]
    BY DEF StatementsInv, Shape, NoQuery
  <1>2. /\ query'.pc = "first" /\ query'.handle = h /\ query'.text = query.text
        /\ query'.mode = query.mode
        /\ query' \in [pc : {"waiting", "first", "credit", "back"}, text : Texts,
                       mode : Modes, handle : Handles \cup {NoHandle}, stopped : BOOLEAN]
    BY <1>1
  <1>3. /\ ~conn.closed /\ \A v \in Verdicts : verdicts[v].pc # "compiled"
        /\ DOMAIN live \subseteq Filed(cache) \cup {query.handle}
    BY HolderIs
  <1>4. query.handle = NoHandle /\ NoHandle \notin DOMAIN live
    BY StatementsAssumption DEF StatementsInv, QueryInv, Stepping, Shape, LiveShape
  <1>5. Shape'
    BY <1>2 DEF StatementsInv, Shape
  <1>6. LineInv'
    <2>1. ~InLine("close")
      BY DEF StatementsInv, LineInv
    <2>2. UNCHANGED mutex
      OBVIOUS
    <2> QED BY <1>2, <1>3, <2>1, <2>2 DEF StatementsInv, LineInv, LineShape, InLine, Holds
  <1>7. QueryInv'
    BY <1>2 DEF QueryInv, Stepping, DeniedControl
  <1>8. VerdictInv'
    BY <1>3 DEF VerdictInv, StatementsInv
  <1>9. Filed(cache') = Filed(cache)
    BY FiledIs
  <1>10. ClosedInv' /\ NothingLeaks' /\ RunsAsAsked'
    BY <1>2, <1>3, <1>4, <1>9 DEF ClosedInv, NothingLeaks, RunsAsAsked, StatementsInv
  <1> QED BY <1>5, <1>6, <1>7, <1>8, <1>10 DEF StatementsInv

(* Its text is in the cache: refused, or to be stepped.                     *)
LEMMA TakeCachedStep ==
    ASSUME StatementsInv, TakeCached
    PROVE  StatementsInv'
  <1>1. /\ query.pc = "waiting" /\ Holds("query")
        /\ UNCHANGED <<verdicts, conn, harm>>
    BY DEF TakeCached
  <1>2. /\ query \in [pc : {"waiting", "first", "credit", "back"}, text : Texts,
                      mode : Modes, handle : Handles \cup {NoHandle}, stopped : BOOLEAN]
        /\ CacheInv(cache) /\ LiveShape(live) /\ Backed(cache, live)
        /\ conn \in [table : BOOLEAN, in : BOOLEAN, closing : BOOLEAN, closed : BOOLEAN]
    BY <1>1 DEF StatementsInv, Shape, NoQuery
  <1>3. DOMAIN live \subseteq Filed(cache)
    <2>1. query.handle = NoHandle /\ NoHandle \notin DOMAIN live
      BY <1>1, <1>2, StatementsAssumption DEF StatementsInv, QueryInv, Stepping, LiveShape
    <2> QED BY <1>1, <2>1, HolderIs
  <1>4. PICK e \in Hit(query.text, query.mode) :
           \/ /\ DeniedControl(query.text, query.mode)
              /\ cache' = Use(cache, query.text)
              /\ Reply
              /\ UNCHANGED live
           \/ /\ ~DeniedControl(query.text, query.mode)
              /\ Refuses(query.mode, live[e.handle])
              /\ File(query.text, e.handle, live[e.handle])
              /\ Reply
           \/ /\ ~DeniedControl(query.text, query.mode)
              /\ ~Refuses(query.mode, live[e.handle])
              /\ cache' = Use(cache, query.text)
              /\ query' = [query EXCEPT !.pc = "first", !.handle = e.handle]
              /\ UNCHANGED <<live, mutex>>
    BY DEF TakeCached
  <1>5. e \in Rows(cache) /\ e.text = query.text /\ query.mode # "uncached"
    BY <1>4 DEF Hit, Find, Rows
  <1>6. \A f \in Rows(cache) : f.handle = e.handle <=> f.text = query.text
    BY <1>2, <1>5, RowsDistinct
  <1>7. /\ e.handle \in DOMAIN live /\ e.handle \in Handles
        /\ live[e.handle] \in Programs
        /\ live[e.handle].text = query.text /\ ~live[e.handle].hollow
    BY <1>2, <1>5 DEF Backed, LiveShape
  <1>8. /\ CacheInv(Use(cache, query.text))
        /\ Rows(Use(cache, query.text)) = Rows(cache)
        /\ Filed(Use(cache, query.text)) = Filed(cache)
        /\ Backed(Use(cache, query.text), live)
    BY <1>2, UseIs, FiledIs DEF Backed
  <1>9. CASE cache' = Use(cache, query.text) /\ Reply /\ UNCHANGED live
    BY <1>1, <1>2, <1>3, <1>8, <1>9, QueryDone
  <1>10. CASE File(query.text, e.handle, live[e.handle]) /\ Reply
    <2> DEFINE h == e.handle
               p == live[h]
               text == query.text
    <2>0. /\ text \in Texts /\ h \in Handles /\ p \in Programs /\ p.text = text /\ ~p.hollow
          /\ File(text, h, p)
          /\ \A f \in Rows(cache) : f.handle = h <=> f.text = text
      BY <1>2, <1>6, <1>7, <1>10
    <2> HIDE DEF h, p, text
    <2>1. /\ CacheInv(cache') /\ LiveShape(live') /\ Backed(cache', live')
          /\ DOMAIN live' = (DOMAIN live \ (Filed(cache) \cup {h})) \cup Filed(cache')
      BY <1>2, <2>0, FileIs
    <2> QED BY <1>1, <1>2, <1>3, <1>10, <2>1, QueryDone
  <1>11. CASE /\ ~DeniedControl(query.text, query.mode)
              /\ cache' = Use(cache, query.text)
              /\ query' = [query EXCEPT !.pc = "first", !.handle = e.handle]
              /\ UNCHANGED <<live, mutex>>
    BY <1>1, <1>2, <1>5, <1>6, <1>7, <1>8, <1>11, QueryStarts
  <1> QED BY <1>4, <1>9, <1>10, <1>11

(* Its text is compiled: refused, or to be stepped.                         *)
LEMMA CompileStep ==
    ASSUME StatementsInv, Compile
    PROVE  StatementsInv'
  <1> DEFINE p == Program(query.text, query.mode = "read")
  <1>1. /\ query.pc = "waiting" /\ Holds("query") /\ Hit(query.text, query.mode) = {}
        /\ UNCHANGED <<verdicts, conn, harm>>
    BY DEF Compile
  <1>2. /\ query \in [pc : {"waiting", "first", "credit", "back"}, text : Texts,
                      mode : Modes, handle : Handles \cup {NoHandle}, stopped : BOOLEAN]
        /\ CacheInv(cache) /\ LiveShape(live) /\ Backed(cache, live)
        /\ conn \in [table : BOOLEAN, in : BOOLEAN, closing : BOOLEAN, closed : BOOLEAN]
    BY <1>1 DEF StatementsInv, Shape, NoQuery
  <1>3. DOMAIN live \subseteq Filed(cache)
    <2>1. query.handle = NoHandle /\ NoHandle \notin DOMAIN live
      BY <1>1, <1>2, StatementsAssumption DEF StatementsInv, QueryInv, Stepping, LiveShape
    <2> QED BY <1>1, <2>1, HolderIs
  <1>4. query.mode # "uncached" => \A e \in Rows(cache) : e.text # query.text
    BY <1>1 DEF Hit, Find, Rows
  <1>5. p \in Programs /\ p.text = query.text /\ (p.hollow => query.mode = "read")
    BY <1>2 DEF Program, Programs
  <1>6. \/ Reply /\ UNCHANGED <<cache, live>>
        \/ /\ ~DeniedControl(query.text, query.mode)
           /\ \E h \in Free :
                \/ Reply /\ Settle(query.text, h, p, FALSE)
                \/ /\ query' = [query EXCEPT !.pc = "first", !.handle = h]
                   /\ live' = With(h, p)
                   /\ UNCHANGED <<cache, mutex>>
    BY DEF Compile
  <1> HIDE DEF p
  <1>7. CASE Reply /\ UNCHANGED <<cache, live>>
    BY <1>1, <1>2, <1>3, <1>7, QueryDone
  <1>8. ASSUME NEW h \in Free, Reply, Settle(query.text, h, p, FALSE)
        PROVE  StatementsInv'
    <2>1. h \in Handles /\ h \notin Filed(cache)
      BY <1>2, FiledIs DEF Free, Backed
    <2>2. query.mode # "uncached" =>
              \A e \in Rows(cache) : e.handle = h <=> e.text = query.text
      BY <1>4, <2>1, FiledIs
    <2>3. /\ CacheInv(cache') /\ LiveShape(live') /\ Backed(cache', live')
          /\ DOMAIN live' \subseteq Filed(cache')
      BY <1>2, <1>3, <1>5, <1>8, <2>1, <2>2, SettleIs
    <2> QED BY <1>1, <1>2, <1>8, <2>3, QueryDone
  <1>9. ASSUME NEW h \in Free, ~DeniedControl(query.text, query.mode),
               query' = [query EXCEPT !.pc = "first", !.handle = h],
               live' = With(h, p), UNCHANGED <<cache, mutex>>
        PROVE  StatementsInv'
    <2>1. /\ LiveShape(live') /\ Backed(cache, live')
          /\ DOMAIN live' = DOMAIN live \cup {h} /\ live'[h] = p
          /\ h \notin Filed(cache) /\ h \in Handles
      BY <1>2, <1>5, <1>9, WithIs
    <2>2. \A e \in Rows(cache) :
             /\ e.handle # h
             /\ query.mode # "uncached" => e.text # query.text
      BY <1>4, <2>1, FiledIs
    <2>3. \A e \in Rows(cache) :
             /\ e.handle = h => e.text = query.text /\ query.mode # "uncached"
             /\ query.mode # "uncached" /\ e.text = query.text => e.handle = h
      BY <2>2
    <2>4. CacheInv(cache') /\ Backed(cache', live') /\ Rows(cache') = Rows(cache)
      BY <1>2, <1>9, <2>1
    <2>5. /\ h \in DOMAIN live' /\ DOMAIN live' \subseteq DOMAIN live \cup {h}
          /\ live'[h].text = query.text
          /\ live'[h].hollow => query.mode = "read"
      BY <1>5, <2>1
    <2> QED BY <1>1, <1>9, <2>1, <2>3, <2>4, <2>5, QueryStarts
  <1> QED BY <1>6, <1>7, <1>8, <1>9

(* Its first step: nothing its mode forbids is done.                        *)
LEMMA FirstStepStep ==
    ASSUME StatementsInv, FirstStep
    PROVE  StatementsInv'
  <1> DEFINE p == [live[query.handle] EXCEPT !.table = conn.table]
             wrong == CASE query.mode = "read" /\ KindOf(p) = "write"     -> {"wrote"}
                        [] query.mode # "control" /\ query.text = "begin" -> {"control"}
                        [] query.mode # "read" /\ p.hollow                -> {"nothing"}
                        [] OTHER                                          -> {}
  <1>1. query.pc = "first" /\ Stepping /\ Holds("query") /\ UNCHANGED verdicts
    BY DEF FirstStep, Stepping, StatementsInv, LineInv
  <1>2. conn \in [table : BOOLEAN, in : BOOLEAN, closing : BOOLEAN, closed : BOOLEAN]
    BY DEF StatementsInv, Shape
  <1>3. live[query.handle] \in Programs /\ live[query.handle].text = query.text
    BY <1>1 DEF StatementsInv, QueryInv, Shape, LiveShape
  <1>4. p \in Programs /\ p.text = query.text /\ p.hollow = live[query.handle].hollow
    BY <1>2, <1>3 DEF Programs
  <1>5. \/ Over(p, TRUE) /\ UNCHANGED <<conn, harm>>
        \/ /\ ~StepDenied(p)
           /\ harm' = harm \cup wrong
           /\ conn' = [conn EXCEPT !.table = @ \/ query.text = "ensure",
                                   !.in = IF query.text = "begin" THEN ~@ ELSE @]
           /\ Yields(p) \/ Over(p, FALSE)
    BY DEF FirstStep
  <1>6. ~StepDenied(p) => wrong = {}
    <2>1. ~(query.mode # "control" /\ query.text = "begin")
      BY <1>1 DEF StatementsInv, QueryInv, DeniedControl
    <2>2. ~(query.mode # "read" /\ p.hollow)
      BY <1>1, <1>4 DEF StatementsInv, QueryInv
    <2>3. ~StepDenied(p) => ~(query.mode = "read" /\ KindOf(p) = "write")
      BY DEF StepDenied, Refuses
    <2> HIDE DEF p
    <2> QED BY <2>1, <2>2, <2>3
  <1> HIDE DEF p, wrong
  <1>7. CASE Over(p, TRUE) /\ UNCHANGED <<conn, harm>>
    BY <1>1, <1>2, <1>4, <1>7, StepIs
  <1>8. CASE /\ ~StepDenied(p)
             /\ harm' = harm \cup wrong
             /\ conn' = [conn EXCEPT !.table = @ \/ query.text = "ensure",
                                     !.in = IF query.text = "begin" THEN ~@ ELSE @]
             /\ Yields(p) \/ Over(p, FALSE)
    <2>1. harm' = harm
      BY <1>6, <1>8
    <2>2. /\ conn' \in [table : BOOLEAN, in : BOOLEAN, closing : BOOLEAN, closed : BOOLEAN]
          /\ conn'.closing = conn.closing /\ conn'.closed = conn.closed
      BY <1>2, <1>8
    <2>3. Yields(p) \/ \E failed \in BOOLEAN : Over(p, failed)
      BY <1>8
    <2> QED BY <1>1, <1>4, <2>1, <2>2, <2>3, StepIs
  <1> QED BY <1>5, <1>7, <1>8

(* Its next steps.                                                          *)
LEMMA NextStepStep ==
    ASSUME StatementsInv, NextStep
    PROVE  StatementsInv'
  <1> DEFINE p == live[query.handle]
  <1>1. /\ query.pc = "back" /\ Stepping /\ Holds("query")
        /\ UNCHANGED <<verdicts, conn, harm>>
        /\ Yields(p) \/ \E failed \in BOOLEAN : Over(p, failed)
    BY DEF NextStep, Stepping
  <1>2. conn \in [table : BOOLEAN, in : BOOLEAN, closing : BOOLEAN, closed : BOOLEAN]
    BY DEF StatementsInv, Shape
  <1>3. p \in Programs /\ p.text = query.text
    BY <1>1 DEF StatementsInv, QueryInv, Shape, LiveShape
  <1> QED BY <1>1, <1>2, <1>3, StepIs

(* A query that asks for its turn again, or is told to stop.                *)
LEMMA CreditStopStep ==
    ASSUME StatementsInv, Credit \/ Stop
    PROVE  StatementsInv'
  <1>0. /\ query.pc # "idle"
        /\ UNCHANGED <<cache, live, verdicts, conn, harm>>
    BY DEF Credit, Stop
  <1>1. query \in [pc : {"waiting", "first", "credit", "back"}, text : Texts,
                   mode : Modes, handle : Handles \cup {NoHandle}, stopped : BOOLEAN]
    BY <1>0 DEF StatementsInv, Shape, NoQuery
  <1>2. /\ query'.handle = query.handle /\ query'.text = query.text
        /\ query'.mode = query.mode /\ Stepping' = Stepping
        /\ query' \in [pc : {"waiting", "first", "credit", "back"}, text : Texts,
                       mode : Modes, handle : Handles \cup {NoHandle}, stopped : BOOLEAN]
    <2>1. CASE Credit
      <3>1. query.pc = "credit" /\ query' = [query EXCEPT !.pc = "back"]
        BY <2>1 DEF Credit
      <3> QED BY <1>1, <3>1 DEF Stepping
    <2>2. CASE Stop
      <3>1. query' = [query EXCEPT !.stopped = TRUE]
        BY <2>2 DEF Stop
      <3> QED BY <1>1, <3>1 DEF Stepping
    <2> QED BY <2>1, <2>2
  <1>3. Shape'
    BY <1>0, <1>2 DEF StatementsInv, Shape
  <1>4. LineInv'
    <2>1. CASE Stop
      <3>1. UNCHANGED mutex /\ query'.pc = query.pc
        BY <1>1, <2>1 DEF Stop
      <3> QED BY <1>0, <3>1 DEF StatementsInv, LineInv, LineShape, InLine, Holds
    <2>2. CASE Credit
      <3>1. Hold("query") /\ query.pc = "credit" /\ query'.pc = "back"
        BY <1>1, <2>2 DEF Credit
      <3>2. ~InLine("query") /\ ~InLine("close")
        BY <3>1 DEF StatementsInv, LineInv
      <3>3. /\ LineShape'
            /\ \A u : InLine(u)' <=> InLine(u) \/ u = "query"
            /\ \A u : Holds(u) => Holds(u)'
        BY <3>1, <3>2, HoldLine DEF StatementsInv, LineInv, Users
      <3> QED BY <1>0, <3>1, <3>2, <3>3, StatementsAssumption DEF StatementsInv, LineInv
    <2> QED BY <2>1, <2>2
  <1>5. QueryInv' /\ VerdictInv'
    BY <1>0, <1>2 DEF StatementsInv, QueryInv, VerdictInv, DeniedControl
  <1>6. ClosedInv' /\ NothingLeaks' /\ RunsAsAsked'
    BY <1>0, <1>2 DEF StatementsInv, ClosedInv, NothingLeaks, RunsAsAsked
  <1> QED BY <1>3, <1>4, <1>5, <1>6 DEF StatementsInv

-----------------------------------------------------------------------------
(* The actions of a verdict.                                                *)

VerdictShape == [pc : {"waiting", "compiled"}, text : Texts,
                 handle : Handles \cup {NoHandle}, keep : BOOLEAN]

(* A verdict is asked for, and waits for SQLite.                            *)
LEMMA AskVerdictStep ==
    ASSUME StatementsInv, NEW v \in Verdicts, NEW text \in Texts, AskVerdict(v, text)
    PROVE  StatementsInv'
  <1>0. verdicts \in [Verdicts -> {NoVerdict} \cup VerdictShape]
    BY DEF StatementsInv, Shape, VerdictShape
  <1>1. /\ verdicts[v].pc = "idle" /\ ~conn.closing
        /\ verdicts' = [verdicts EXCEPT ![v] = [pc |-> "waiting", text |-> text,
                                               handle |-> NoHandle, keep |-> FALSE]]
        /\ Hold(v) /\ UNCHANGED <<cache, live, query, conn, harm>>
    BY DEF AskVerdict
  <1>2. /\ verdicts' \in [Verdicts -> {NoVerdict} \cup VerdictShape]
        /\ verdicts'[v].pc = "waiting" /\ verdicts'[v].handle = NoHandle
        /\ verdicts[v].handle = NoHandle
        /\ \A u \in Verdicts \ {v} : verdicts'[u] = verdicts[u]
    BY <1>0, <1>1 DEF VerdictShape, StatementsInv, VerdictInv
  <1>3. /\ LineShape'
        /\ \A u : InLine(u)' <=> InLine(u) \/ u = v
        /\ \A u : Holds(u) => Holds(u)'
    BY <1>1, HoldLine DEF StatementsInv, LineInv, Users
  <1>4. Shape'
    BY <1>1, <1>2 DEF StatementsInv, Shape, VerdictShape
  <1>5. LineInv'
    BY <1>1, <1>2, <1>3, StatementsAssumption DEF StatementsInv, LineInv
  <1>6. QueryInv'
    BY <1>1 DEF StatementsInv, QueryInv, Stepping
  <1>7. VerdictInv'
    BY <1>1, <1>2 DEF StatementsInv, VerdictInv, Stepping
  <1>8. ClosedInv' /\ RunsAsAsked'
    BY <1>1 DEF StatementsInv, ClosedInv, RunsAsAsked
  <1>9. NothingLeaks'
    <2>1. \A u \in Verdicts : verdicts'[u].handle = verdicts[u].handle
      BY <1>2
    <2> QED BY <1>1, <2>1 DEF StatementsInv, NothingLeaks
  <1> QED BY <1>4, <1>5, <1>6, <1>7, <1>8, <1>9 DEF StatementsInv

(* While a verdict has SQLite, the other verdicts have no statement, and the *)
(* query is not at its first step.                                          *)
LEMMA VerdictHolds ==
    ASSUME StatementsInv, NEW v \in Verdicts, Holds(v)
    PROVE  /\ verdicts[v].pc # "idle"
           /\ query.pc # "first"
           /\ \A u \in Verdicts \ {v} :
                 verdicts[u].pc # "compiled" /\ verdicts[u].handle = NoHandle
           /\ DOMAIN live \subseteq Filed(cache) \cup {query.handle, verdicts[v].handle}
           /\ NoHandle \notin DOMAIN live
  <1>1. InLine(v)
    BY DEF Holds, InLine, StatementsInv, LineInv, LineShape
  <1>2. query.pc # "first"
    BY OneHolds, StatementsAssumption DEF StatementsInv, LineInv
  <1>3. \A u \in Verdicts \ {v} : verdicts[u].pc # "compiled" /\ verdicts[u].handle = NoHandle
    BY NoneCompiled
  <1>4. NoHandle \notin DOMAIN live
    BY StatementsAssumption DEF StatementsInv, Shape, LiveShape
  <1>5. DOMAIN live \subseteq Filed(cache) \cup {query.handle, verdicts[v].handle}
    BY <1>3, <1>4 DEF StatementsInv, NothingLeaks
  <1> QED BY <1>1, <1>2, <1>3, <1>4, <1>5 DEF StatementsInv, LineInv

(* The answer: the verdict and its statement are let go.                    *)
LEMMA VerdictDone ==
    ASSUME StatementsInv, NEW v \in Verdicts, Holds(v), Answer(v),
           CacheInv(cache'), LiveShape(live'), Backed(cache', live'),
           DOMAIN live' \subseteq Filed(cache') \cup {query.handle},
           Stepping => /\ query.handle \in DOMAIN live'
                       /\ live'[query.handle] = live[query.handle]
                       /\ Rows(cache') = Rows(cache),
           conn.closed => UNCHANGED <<cache, live>>,
           UNCHANGED <<query, conn, harm>>
    PROVE  StatementsInv'
  <1>1. /\ verdicts' = [verdicts EXCEPT ![v] = NoVerdict] /\ ReleaseSqlite
        /\ verdicts \in [Verdicts -> {NoVerdict} \cup VerdictShape]
    BY DEF Answer, StatementsInv, Shape, VerdictShape
  <1>2. /\ verdicts' \in [Verdicts -> {NoVerdict} \cup VerdictShape]
        /\ verdicts'[v] = NoVerdict
        /\ verdicts'[v].pc = "idle" /\ verdicts'[v].handle = NoHandle
        /\ \A u \in Verdicts \ {v} : verdicts'[u] = verdicts[u]
    BY <1>1 DEF NoVerdict
  <1>3. /\ query.pc # "first"
        /\ \A u \in Verdicts \ {v} :
              verdicts[u].pc # "compiled" /\ verdicts[u].handle = NoHandle
    BY VerdictHolds
  <1>4. \A u \in Verdicts : verdicts'[u].pc # "compiled" /\ verdicts'[u].handle = NoHandle
    BY <1>2, <1>3
  <1>5. Shape'
    BY <1>2 DEF StatementsInv, Shape, VerdictShape
  <1>6. LineInv'
    <2>1. /\ LineShape' /\ InLine(v)
          /\ \A u : InLine(u)' <=> InLine(u) /\ u # v
      BY <1>1, ReleaseLine DEF StatementsInv, LineInv
    <2>2. v # "query" /\ v # "close"
      BY StatementsAssumption
    <2> QED BY <1>2, <1>3, <1>4, <2>1, <2>2 DEF StatementsInv, LineInv
  <1>7. QueryInv'
    <2>1. CASE Stepping
      BY <2>1 DEF StatementsInv, QueryInv, Stepping, DeniedControl
    <2>2. CASE ~Stepping
      BY <2>2 DEF StatementsInv, QueryInv, Stepping
    <2> QED BY <2>1, <2>2
  <1>8. VerdictInv'
    BY <1>4 DEF VerdictInv
  <1>9. ClosedInv' /\ RunsAsAsked'
    BY DEF StatementsInv, ClosedInv, RunsAsAsked
  <1>10. NothingLeaks'
    BY <1>4 DEF StatementsInv, NothingLeaks
  <1> QED BY <1>5, <1>6, <1>7, <1>8, <1>9, <1>10 DEF StatementsInv

(* Its turn: answered from the cache, or compiled.                          *)
LEMMA TakeVerdictStep ==
    ASSUME StatementsInv, NEW v \in Verdicts, TakeVerdict(v)
    PROVE  StatementsInv'
  <1> DEFINE text == verdicts[v].text
             p == Program(text, TRUE)
  <1>1. /\ verdicts[v].pc = "waiting" /\ Holds(v)
        /\ UNCHANGED <<query, conn, harm>>
    BY DEF TakeVerdict
  <1>2. /\ verdicts \in [Verdicts -> {NoVerdict} \cup VerdictShape]
        /\ verdicts[v] \in VerdictShape /\ text \in Texts
        /\ CacheInv(cache) /\ LiveShape(live) /\ Backed(cache, live)
        /\ conn \in [table : BOOLEAN, in : BOOLEAN, closing : BOOLEAN, closed : BOOLEAN]
        /\ conn.closed => conn.closing
    BY <1>1 DEF StatementsInv, Shape, VerdictShape, NoVerdict
  <1>3. /\ verdicts[v].handle = NoHandle /\ NoHandle \notin DOMAIN live
        /\ DOMAIN live \subseteq Filed(cache) \cup {query.handle}
        /\ query.pc # "first"
        /\ \A u \in Verdicts \ {v} :
              verdicts[u].pc # "compiled" /\ verdicts[u].handle = NoHandle
    BY <1>1, VerdictHolds DEF StatementsInv, VerdictInv
  <1>4. Stepping => query.handle \in DOMAIN live
    BY DEF StatementsInv, QueryInv
  <1>5. \/ Answer(v) /\ UNCHANGED <<cache, live>>
        \/ ~conn.closing /\ cache' = Use(cache, text) /\ Answer(v) /\ UNCHANGED live
        \/ /\ ~conn.closing
           /\ (IF conn.in THEN {} ELSE Find(cache, text)) = {}
           /\ \E h \in Free :
                 /\ live' = With(h, p)
                 /\ verdicts' = [verdicts EXCEPT ![v].pc = "compiled", ![v].handle = h,
                                                 ![v].keep = MayKeep]
           /\ UNCHANGED <<cache, mutex>>
    BY DEF TakeVerdict
  <1>6. CASE Answer(v) /\ UNCHANGED <<cache, live>>
    BY <1>1, <1>2, <1>3, <1>4, <1>6, VerdictDone
  <1>7. CASE ~conn.closing /\ cache' = Use(cache, text) /\ Answer(v) /\ UNCHANGED live
    <2>1. CacheInv(cache') /\ Rows(cache') = Rows(cache)
      BY <1>2, <1>7, UseIs
    <2>2. Filed(cache') = Filed(cache) /\ Backed(cache', live')
      BY <1>2, <1>7, <2>1, FiledIs DEF Backed
    <2> QED BY <1>1, <1>2, <1>3, <1>4, <1>7, <2>1, <2>2, VerdictDone
  <1>8. ASSUME NEW h \in Free, ~conn.closing,
               (IF conn.in THEN {} ELSE Find(cache, text)) = {},
               live' = With(h, p),
               verdicts' = [verdicts EXCEPT ![v].pc = "compiled", ![v].handle = h,
                                            ![v].keep = MayKeep],
               UNCHANGED <<cache, mutex>>
        PROVE  StatementsInv'
    <2>1. p \in Programs /\ p.text = text
      BY <1>2 DEF Program, Programs
    <2> HIDE DEF p
    <2>2. /\ LiveShape(live') /\ Backed(cache, live')
          /\ DOMAIN live' = DOMAIN live \cup {h} /\ live'[h] = p
          /\ \A g \in DOMAIN live : live'[g] = live[g] /\ g # h
          /\ h \notin Filed(cache) /\ h # NoHandle /\ h \in Handles
      BY <1>2, <1>8, <2>1, WithIs
    <2>3. MayKeep => ~Stepping /\ \A e \in Rows(cache) : e.text # text
      BY <1>8 DEF MayKeep, Stepping, Find, Rows
    <2>4. MayKeep \in BOOLEAN
      BY <1>2 DEF MayKeep
    <2>5. /\ verdicts' \in [Verdicts -> {NoVerdict} \cup VerdictShape]
          /\ verdicts'[v].pc = "compiled" /\ verdicts'[v].handle = h
          /\ verdicts'[v].text = text /\ verdicts'[v].keep = MayKeep
          /\ \A u \in Verdicts \ {v} : verdicts'[u] = verdicts[u]
      BY <1>2, <1>8, <2>2, <2>4 DEF VerdictShape
    <2>6. Shape'
      BY <1>1, <1>8, <2>2, <2>5 DEF StatementsInv, Shape, VerdictShape
    <2>7. LineInv'
      BY <1>1, <1>8, <2>5 DEF StatementsInv, LineInv, LineShape, InLine, Holds
    <2>8. QueryInv'
      BY <1>1, <1>8, <2>2 DEF StatementsInv, QueryInv, Stepping, DeniedControl
    <2>9. VerdictInv'
      <3>1. query.handle # h
        BY <1>4, <2>2 DEF StatementsInv, QueryInv
      <3>2. \A u \in Verdicts \ {v} : verdicts'[u].pc # "compiled" /\ verdicts'[u].handle = NoHandle
        BY <1>3, <2>5
      <3>3. Stepping' = Stepping /\ Rows(cache') = Rows(cache) /\ Filed(cache') = Filed(cache)
        BY <1>1, <1>8 DEF Stepping
      <3> QED BY <1>1, <2>1, <2>2, <2>3, <2>5, <3>1, <3>2, <3>3 DEF VerdictInv
    <2>10. ClosedInv' /\ RunsAsAsked'
      BY <1>1, <1>8 DEF StatementsInv, ClosedInv, RunsAsAsked
    <2>11. NothingLeaks'
      BY <1>1, <1>2, <1>3, <1>8, <2>2, <2>5 DEF NothingLeaks
    <2> QED BY <2>6, <2>7, <2>8, <2>9, <2>10, <2>11 DEF StatementsInv
  <1> QED BY <1>5, <1>6, <1>7, <1>8

(* Its statement is filed, or finalised.                                    *)
LEMMA EndVerdictStep ==
    ASSUME StatementsInv, NEW v \in Verdicts, EndVerdict(v)
    PROVE  StatementsInv'
  <1> DEFINE h == verdicts[v].handle
             text == verdicts[v].text
             p == live[h]
  <1>1. /\ verdicts[v].pc = "compiled" /\ Holds(v) /\ Answer(v)
        /\ UNCHANGED <<query, conn, harm>>
    BY DEF EndVerdict, StatementsInv, LineInv
  <1>2. /\ text \in Texts
        /\ CacheInv(cache) /\ LiveShape(live) /\ Backed(cache, live)
    BY <1>1 DEF StatementsInv, Shape, NoVerdict
  <1>3. /\ h \in DOMAIN live \ Filed(cache) /\ h # query.handle /\ p.text = text
        /\ h \in Handles /\ p \in Programs
        /\ verdicts[v].keep => ~Stepping /\ \A e \in Rows(cache) : e.text # text
    BY <1>1, <1>2 DEF StatementsInv, VerdictInv, LiveShape
  <1>4. DOMAIN live \subseteq Filed(cache) \cup {query.handle, h}
    BY <1>1, VerdictHolds
  <1>5. ~conn.closed
    BY <1>3 DEF StatementsInv, NothingLeaks
  <1>6. Stepping => query.handle \in DOMAIN live
    BY DEF StatementsInv, QueryInv
  <1>7. \/ verdicts[v].keep /\ ~p.hollow /\ File(text, h, p)
        \/ cache' = cache /\ live' = Without({h})
    BY DEF EndVerdict
  <1> HIDE DEF h, text, p
  <1>8. CASE verdicts[v].keep /\ ~p.hollow /\ File(text, h, p)
    <2>1. \A e \in Rows(cache) : e.handle = h <=> e.text = text
      BY <1>3, <1>8, FiledIs
    <2>2. /\ CacheInv(cache') /\ LiveShape(live') /\ Backed(cache', live')
          /\ DOMAIN live' = (DOMAIN live \ (Filed(cache) \cup {h})) \cup Filed(cache')
      BY <1>2, <1>3, <1>8, <2>1, FileIs
    <2>3. ~Stepping /\ DOMAIN live' \subseteq Filed(cache') \cup {query.handle}
      BY <1>3, <1>4, <1>8, <2>2
    <2> QED BY <1>1, <1>5, <2>2, <2>3, VerdictDone
  <1>9. CASE cache' = cache /\ live' = Without({h})
    <2>1. /\ LiveShape(live') /\ Backed(cache, live')
          /\ DOMAIN live' = DOMAIN live \ {h}
          /\ \A g \in DOMAIN live' : live'[g] = live[g]
      BY <1>2, <1>3, <1>9, FinalizeIs
    <2>2. /\ CacheInv(cache') /\ Backed(cache', live') /\ Rows(cache') = Rows(cache)
          /\ DOMAIN live' \subseteq Filed(cache') \cup {query.handle}
      BY <1>2, <1>4, <1>9, <2>1
    <2>3. Stepping => /\ query.handle \in DOMAIN live'
                      /\ live'[query.handle] = live[query.handle]
      BY <1>3, <1>6, <2>1
    <2> QED BY <1>1, <1>5, <2>1, <2>2, <2>3, VerdictDone
  <1> QED BY <1>7, <1>8, <1>9

-----------------------------------------------------------------------------
(* The end, and the others.                                                 *)

(* close(): the query is told to stop.                                      *)
LEMMA CloseStep ==
    ASSUME StatementsInv, Close
    PROVE  StatementsInv'
  <1>1. /\ ~conn.closing /\ conn' = [conn EXCEPT !.closing = TRUE]
        /\ query' = IF query.pc = "idle" THEN query ELSE [query EXCEPT !.stopped = TRUE]
        /\ UNCHANGED <<cache, live, mutex, verdicts, harm>>
    BY DEF Close
  <1>2. /\ conn' \in [table : BOOLEAN, in : BOOLEAN, closing : BOOLEAN, closed : BOOLEAN]
        /\ conn'.closing /\ conn'.closed = conn.closed /\ ~conn.closed
    BY <1>1 DEF StatementsInv, Shape
  <1>3. /\ \/ query' = NoQuery
           \/ query' \in [pc : {"waiting", "first", "credit", "back"}, text : Texts,
                          mode : Modes, handle : Handles \cup {NoHandle}, stopped : BOOLEAN]
        /\ query'.pc = query.pc /\ query'.handle = query.handle
        /\ query.pc # "idle" => query'.text = query.text /\ query'.mode = query.mode
    <2>1. CASE query.pc = "idle"
      BY <1>1, <2>1 DEF StatementsInv, Shape
    <2>2. CASE query.pc # "idle"
      <3>1. query \in [pc : {"waiting", "first", "credit", "back"}, text : Texts,
                       mode : Modes, handle : Handles \cup {NoHandle}, stopped : BOOLEAN]
        BY <2>2 DEF StatementsInv, Shape, NoQuery
      <3> QED BY <1>1, <2>2, <3>1
    <2> QED BY <2>1, <2>2
  <1>4. Shape'
    BY <1>1, <1>2, <1>3 DEF StatementsInv, Shape
  <1>5. LineInv'
    BY <1>1, <1>2, <1>3 DEF StatementsInv, LineInv, LineShape, InLine, Holds
  <1>6. QueryInv'
    BY <1>1, <1>3 DEF StatementsInv, QueryInv, Stepping, DeniedControl
  <1>7. VerdictInv'
    BY <1>1, <1>3 DEF StatementsInv, VerdictInv, Stepping
  <1>8. ClosedInv' /\ RunsAsAsked' /\ NothingLeaks'
    BY <1>1, <1>2, <1>3 DEF StatementsInv, ClosedInv, RunsAsAsked, NothingLeaks
  <1> QED BY <1>4, <1>5, <1>6, <1>7, <1>8 DEF StatementsInv

(* close() waits for SQLite.                                                *)
LEMMA CloseWaitsStep ==
    ASSUME StatementsInv, CloseWaits
    PROVE  StatementsInv'
  <1>1. /\ conn.closing /\ ~conn.closed /\ query.pc = "idle" /\ Hold("close")
        /\ UNCHANGED <<cache, live, query, verdicts, conn, harm>>
    BY DEF CloseWaits
  <1>2. ~InLine("close")
    BY DEF CloseWaits, Contains, InLine, StatementsInv, LineInv, LineShape
  <1>3. /\ LineShape'
        /\ \A u : InLine(u)' <=> InLine(u) \/ u = "close"
        /\ \A u : Holds(u) => Holds(u)'
    BY <1>1, <1>2, HoldLine DEF StatementsInv, LineInv, Users
  <1>4. LineInv'
    BY <1>1, <1>3, StatementsAssumption DEF StatementsInv, LineInv
  <1> QED
    BY <1>1, <1>4 DEF StatementsInv, Shape, QueryInv, VerdictInv, ClosedInv, NothingLeaks,
                      RunsAsAsked, Stepping

(* close() finalises what is filed, and nothing else is alive.              *)
LEMMA CloseEndsStep ==
    ASSUME StatementsInv, CloseEnds
    PROVE  StatementsInv'
  <1>1. /\ Holds("close") /\ live' = Without(Filed(cache))
        /\ cache' = [entries |-> <<>>, total |-> 0]
        /\ conn' = [conn EXCEPT !.closed = TRUE] /\ ReleaseSqlite
        /\ UNCHANGED <<query, verdicts, harm>>
    BY DEF CloseEnds
  <1>2. InLine("close")
    BY <1>1 DEF Holds, InLine, StatementsInv, LineInv, LineShape
  <1>3. /\ query.pc = "idle" /\ conn.closing /\ query.handle = NoHandle
    BY <1>2 DEF StatementsInv, LineInv, QueryInv, Stepping
  <1>4. \A v \in Verdicts : verdicts[v].pc # "compiled" /\ verdicts[v].handle = NoHandle
    BY <1>1, NoneCompiled, StatementsAssumption
  <1>5. DOMAIN live \subseteq Filed(cache)
    BY <1>3, <1>4, StatementsAssumption DEF StatementsInv, NothingLeaks, Shape, LiveShape
  <1>6. DOMAIN live' = {}
    BY <1>1, <1>5 DEF Without
  <1>7. cache'.entries = <<>> /\ CacheInv(cache') /\ Rows(cache') = {}
    BY <1>1 DEF CacheInv, Distinct, Rows
  <1>8. /\ conn' \in [table : BOOLEAN, in : BOOLEAN, closing : BOOLEAN, closed : BOOLEAN]
        /\ conn'.closing /\ conn'.closed
    BY <1>1, <1>3 DEF StatementsInv, Shape
  <1>9. Shape'
    BY <1>1, <1>6, <1>7, <1>8 DEF StatementsInv, Shape, LiveShape, Backed
  <1>10. LineInv'
    <2>1. /\ LineShape'
          /\ \A u : InLine(u)' <=> InLine(u) /\ u # "close"
      BY <1>1, ReleaseLine DEF StatementsInv, LineInv
    <2>2. \A v \in Verdicts : v # "close"
      BY StatementsAssumption
    <2> QED BY <1>1, <1>3, <1>4, <2>1, <2>2 DEF StatementsInv, LineInv
  <1>11. QueryInv' /\ VerdictInv'
    BY <1>1, <1>3, <1>4 DEF StatementsInv, QueryInv, VerdictInv, Stepping
  <1>12. ClosedInv' /\ NothingLeaks' /\ RunsAsAsked'
    BY <1>1, <1>3, <1>6, <1>7 DEF StatementsInv, ClosedInv, NothingLeaks, RunsAsAsked
  <1> QED BY <1>9, <1>10, <1>11, <1>12 DEF StatementsInv

(* Another connection changes the schema.                                   *)
LEMMA ChangeStep ==
    ASSUME StatementsInv, Change
    PROVE  StatementsInv'
  <1>1. /\ conn' \in [table : BOOLEAN, in : BOOLEAN, closing : BOOLEAN, closed : BOOLEAN]
        /\ conn'.closing = conn.closing /\ conn'.closed = conn.closed
        /\ UNCHANGED <<cache, live, mutex, query, verdicts, harm>>
    BY DEF Change, StatementsInv, Shape
  <1>2. Shape'
    BY <1>1 DEF StatementsInv, Shape
  <1>3. LineInv'
    BY <1>1 DEF StatementsInv, LineInv, LineShape, InLine, Holds
  <1>4. QueryInv' /\ VerdictInv' /\ ClosedInv' /\ NothingLeaks' /\ RunsAsAsked'
    BY <1>1 DEF StatementsInv, QueryInv, VerdictInv, ClosedInv, NothingLeaks, RunsAsAsked, Stepping
  <1> QED BY <1>2, <1>3, <1>4 DEF StatementsInv

-----------------------------------------------------------------------------
(* The account of the cache. The weight is a recursive function: the lemmas  *)
(* say that it exists, that it is the only one, and what becomes of it when  *)
(* sequences are put together and taken apart.                              *)

SumsOf(q) ==
    {s \in [0 .. Len(q) -> Nat] :
        s[0] = 0 /\ \A n \in 1 .. Len(q) : s[n] = s[n - 1] + q[n].weight}

(* What an entry weighs.                                                    *)
LEMMA Weighs ==
    ASSUME NEW q \in Seq(Entry), NEW i \in 1 .. Len(q)
    PROVE  q[i] \in Entry /\ q[i].weight \in Nat
  <1>1. q[i] \in Entry
    OBVIOUS
  <1> QED BY <1>1, StatementsAssumption DEF Entry

(* The shortest prefix without its sums would extend one that has them.     *)
LEMMA SumsExist ==
    ASSUME NEW q \in Seq(Entry)
    PROVE  SumsOf(q) # {}
  <1> DEFINE Upto(k) ==
        {s \in [0 .. k -> Nat] :
            s[0] = 0 /\ \A n \in 1 .. k : s[n] = s[n - 1] + q[n].weight}
  <1> DEFINE Bad == {k \in 0 .. Len(q) : Upto(k) = {}}
  <1> SUFFICES ASSUME Bad # {} PROVE FALSE
    <2>1. Len(q) \in 0 .. Len(q) /\ SumsOf(q) = Upto(Len(q))
      BY DEF SumsOf
    <2> QED BY <2>1
  <1> DEFINE k == Min(Bad)
  <1>1. k \in Bad /\ \A j \in Bad : k <= j
    <2>1. Bad \in SUBSET Nat
      OBVIOUS
    <2> HIDE DEF Bad
    <2> QED BY <2>1, MinIs
  <1> HIDE DEF k
  <1>2. k # 0
    <2>1. [n \in 0 .. 0 |-> 0] \in Upto(0)
      OBVIOUS
    <2> QED BY <1>1, <2>1
  <1>3. k \in 1 .. Len(q) /\ k - 1 \in 0 .. Len(q) /\ k - 1 \notin Bad
    <2>1. k \in 0 .. Len(q) /\ Len(q) \in Nat
      BY <1>1
    <2> HIDE DEF Bad
    <2> QED BY <1>1, <1>2, <2>1
  <1>4. PICK s \in Upto(k - 1) : TRUE
    BY <1>3
  <1>5. q[k].weight \in Nat
    BY <1>3, Weighs
  <1> DEFINE t == [n \in 0 .. k |-> IF n = k THEN s[k - 1] + q[k].weight ELSE s[n]]
  <1>6. t \in [0 .. k -> Nat]
    <2>1. \A n \in 0 .. k : n # k => n \in 0 .. (k - 1)
      BY <1>3
    <2>2. k - 1 \in 0 .. (k - 1) /\ s \in [0 .. (k - 1) -> Nat]
      BY <1>3, <1>4
    <2>3. s[k - 1] + q[k].weight \in Nat
      BY <1>5, <2>2
    <2> QED BY <2>1, <2>2, <2>3
  <1>7. t[0] = 0
    BY <1>2, <1>3, <1>4
  <1>8. ASSUME NEW n \in 1 .. k PROVE t[n] = t[n - 1] + q[n].weight
    <2>1. n - 1 \in 0 .. k /\ n - 1 # k
      BY <1>3
    <2>2. CASE n = k
      BY <1>3, <2>1, <2>2
    <2>3. CASE n # k
      <3>1. n \in 1 .. k - 1
        BY <1>3, <2>3
      <3>2. s[n] = s[n - 1] + q[n].weight
        BY <1>4, <3>1
      <3> QED BY <2>1, <2>3, <3>2
    <2> QED BY <2>2, <2>3
  <1>9. t \in Upto(k)
    BY <1>6, <1>7, <1>8
  <1> QED BY <1>1, <1>9

(* They are unique, and their last is the weight.                           *)
LEMMA WeightIsSum ==
    ASSUME NEW q \in Seq(Entry), NEW s \in SumsOf(q)
    PROVE  Weight(q) = s[Len(q)] /\ Weight(q) \in Nat
  <1> DEFINE Law(f) == f = [n \in 0 .. Len(q) |->
                               IF n = 0 THEN 0 ELSE f[n - 1] + q[n].weight]
  <1> DEFINE c == CHOOSE f : Law(f)
  <1>0. /\ Len(q) \in Nat /\ s \in [0 .. Len(q) -> Nat] /\ s[0] = 0
        /\ \A n \in 1 .. Len(q) : s[n] = s[n - 1] + q[n].weight
    BY DEF SumsOf
  <1>1. Law(s)
    <2>1. \A n \in 0 .. Len(q) : s[n] = IF n = 0 THEN 0 ELSE s[n - 1] + q[n].weight
      BY <1>0
    <2> QED BY <1>0, <2>1
  <1>2. Law(c)
    BY <1>1
  <1>3. Weight(q) = c[Len(q)]
    BY DEF Weight
  <1> DEFINE Bad == {n \in 0 .. Len(q) : c[n] # s[n]}
  <1>4. Bad = {}
    <2> HIDE DEF c
    <2> SUFFICES ASSUME Bad # {} PROVE FALSE
      OBVIOUS
    <2> DEFINE n == Min(Bad)
    <2>1. n \in Bad /\ \A j \in Bad : n <= j
      <3>1. Bad \in SUBSET Nat
        OBVIOUS
      <3> HIDE DEF Bad
      <3> QED BY <3>1, MinIs
    <2> HIDE DEF n
    <2>2. n \in 0 .. Len(q) /\ c[n] # s[n]
      BY <2>1
    <2>3. c[n] = IF n = 0 THEN 0 ELSE c[n - 1] + q[n].weight
      BY <1>2, <2>2
    <2>4. s[n] = IF n = 0 THEN 0 ELSE s[n - 1] + q[n].weight
      BY <1>1, <2>2
    <2>5. n # 0 => n - 1 \in 0 .. Len(q) /\ n - 1 \notin Bad
      <3>1. n - 1 < n
        BY <2>2
      <3> HIDE DEF Bad
      <3> QED BY <2>1, <2>2, <3>1
    <2> QED BY <2>2, <2>3, <2>4, <2>5
  <1>5. Len(q) \in 0 .. Len(q)
    BY <1>0
  <1> HIDE DEF c
  <1> QED BY <1>0, <1>3, <1>4, <1>5

(* The weight of two sequences in a row.                                    *)
LEMMA WeightConcat ==
    ASSUME NEW a \in Seq(Entry), NEW b \in Seq(Entry)
    PROVE  /\ Weight(a) \in Nat /\ Weight(b) \in Nat
           /\ Weight(a \o b) = Weight(a) + Weight(b)
  <1> DEFINE m == Len(a)
             n == Len(b)
             q == a \o b
  <1>1. PICK s \in SumsOf(a) : TRUE
    BY SumsExist
  <1>2. PICK r \in SumsOf(b) : TRUE
    BY SumsExist
  <1>3. /\ m \in Nat /\ s \in [0 .. m -> Nat] /\ s[0] = 0
        /\ \A k \in 1 .. m : s[k] = s[k - 1] + a[k].weight
    BY <1>1 DEF SumsOf
  <1>4. /\ n \in Nat /\ r \in [0 .. n -> Nat] /\ r[0] = 0
        /\ \A k \in 1 .. n : r[k] = r[k - 1] + b[k].weight
    BY <1>2 DEF SumsOf
  <1>5. /\ q \in Seq(Entry) /\ Len(q) = m + n
        /\ \A k \in 1 .. m + n : q[k] = IF k <= m THEN a[k] ELSE b[k - m]
    BY ConcatProperties
  <1>6. Weight(a) = s[m] /\ Weight(b) = r[n] /\ s[m] \in Nat /\ r[n] \in Nat
    BY <1>1, <1>2, <1>3, <1>4, WeightIsSum
  <1> HIDE DEF m, n, q
  <1> DEFINE t == [k \in 0 .. m + n |-> IF k <= m THEN s[k] ELSE s[m] + r[k - m]]
  <1>7. t \in [0 .. m + n -> Nat] /\ t[0] = 0
    <2>1. \A k \in 0 .. m + n : k <= m => k \in 0 .. m /\ s[k] \in Nat
      BY <1>3, <1>4
    <2>2. \A k \in 0 .. m + n : ~(k <= m) => k - m \in 0 .. n /\ s[m] + r[k - m] \in Nat
      BY <1>3, <1>4, <1>6
    <2>3. 0 \in 0 .. m + n /\ 0 <= m
      BY <1>3, <1>4
    <2> QED BY <1>3, <2>1, <2>2, <2>3
  <1>8. ASSUME NEW k \in 1 .. m + n PROVE t[k] = t[k - 1] + q[k].weight
    <2>1. k \in 0 .. m + n /\ k - 1 \in 0 .. m + n /\ k \in Int
      BY <1>3, <1>4
    <2>2. CASE k <= m
      <3>1. k \in 1 .. m /\ k - 1 <= m
        BY <1>3, <2>2
      <3> QED BY <1>3, <1>5, <2>1, <2>2, <3>1
    <2>3. CASE ~(k <= m) /\ k - 1 <= m
      <3>1. k - 1 = m /\ k - m = 1 /\ 1 \in 1 .. n
        BY <1>3, <1>4, <2>1, <2>3
      <3>2. r[1] = b[1].weight
        <4>1. r[1] = r[1 - 1] + b[1].weight
          BY <1>4, <3>1
        <4>2. b[1].weight \in Nat
          BY <3>1, Weighs DEF n
        <4> QED BY <1>4, <4>1, <4>2
      <3>3. t[k] = s[m] + r[1] /\ t[k - 1] = s[m]
        BY <1>3, <2>1, <2>3, <3>1
      <3>4. q[k] = b[1]
        BY <1>5, <2>3, <3>1
      <3> QED BY <3>2, <3>3, <3>4
    <2>4. CASE ~(k <= m) /\ ~(k - 1 <= m)
      <3>1. k - m \in 1 .. n /\ (k - 1) - m = (k - m) - 1
        BY <1>3, <1>4, <2>1, <2>4, SMTT(30)
      <3>2. r[k - m] = r[(k - m) - 1] + b[k - m].weight
        BY <1>4, <3>1
      <3>3. t[k] = s[m] + r[k - m] /\ t[k - 1] = s[m] + r[(k - m) - 1]
        BY <2>1, <2>4, <3>1
      <3>4. q[k] = b[k - m]
        BY <1>5, <2>4
      <3>5. r[(k - m) - 1] \in Nat /\ b[k - m].weight \in Nat
        <4>1. (k - m) - 1 \in 0 .. n
          BY <1>4, <3>1
        <4> QED BY <1>4, <3>1, <4>1, Weighs DEF n
      <3> HIDE DEF t
      <3> QED BY <1>6, <3>2, <3>3, <3>4, <3>5
    <2> QED BY <2>2, <2>3, <2>4
  <1>9. t \in SumsOf(q)
    <2> HIDE DEF t
    <2> QED BY <1>5, <1>7, <1>8 DEF SumsOf
  <1>10. t[m + n] = s[m] + r[n]
    <2>1. m + n \in 0 .. m + n
      BY <1>3, <1>4
    <2>2. CASE n = 0
      BY <1>3, <1>4, <2>1, <2>2
    <2>3. CASE n # 0
      <3>1. ~(m + n <= m) /\ (m + n) - m = n
        BY <1>3, <1>4, <2>3
      <3> QED BY <2>1, <3>1
    <2> QED BY <2>2, <2>3
  <1>11. Weight(q) = t[Len(q)]
    <2> HIDE DEF t
    <2> QED BY <1>5, <1>9, WeightIsSum
  <1> HIDE DEF t
  <1> QED BY <1>5, <1>6, <1>10, <1>11 DEF q

(* Nothing weighs nothing, and one entry its weight.                        *)
LEMMA WeightOne ==
    ASSUME NEW e \in Entry
    PROVE  /\ Weight(<<>>) = 0
           /\ e.weight \in Nat /\ Weight(<<e>>) = e.weight
  <1>1. <<>> \in Seq(Entry) /\ Len(<<>>) = 0 /\ <<e>> \in Seq(Entry) /\ Len(<<e>>) = 1
    OBVIOUS
  <1>2. e.weight \in Nat
    BY StatementsAssumption DEF Entry
  <1>3. Weight(<<>>) = 0
    <2>1. PICK s \in SumsOf(<<>>) : TRUE
      BY <1>1, SumsExist
    <2> QED BY <1>1, <2>1, WeightIsSum DEF SumsOf
  <1>4. Weight(<<e>>) = e.weight
    <2>1. PICK s \in SumsOf(<<e>>) : TRUE
      BY <1>1, SumsExist
    <2>2. s[0] = 0 /\ s[1] = s[1 - 1] + <<e>>[1].weight
      BY <1>1, <2>1 DEF SumsOf
    <2>3. s[1] = e.weight
      BY <1>2, <2>2
    <2> QED BY <1>1, <2>1, <2>3, WeightIsSum
  <1> QED BY <1>2, <1>3, <1>4

(* An entry more.                                                           *)
LEMMA WeightAppend ==
    ASSUME NEW q \in Seq(Entry), NEW e \in Entry
    PROVE  /\ Weight(q) \in Nat /\ e.weight \in Nat
           /\ Weight(Append(q, e)) = Weight(q) + e.weight
  <1>1. Append(q, e) = q \o <<e>> /\ <<e>> \in Seq(Entry)
    BY AppendIsConcat
  <1> QED BY <1>1, WeightConcat, WeightOne

(* An entry less.                                                           *)
LEMMA WeightRemove ==
    ASSUME NEW q \in Seq(Entry), NEW i \in DOMAIN q
    PROVE  /\ Weight(q) \in Nat /\ Weight(RemoveAt(q, i)) \in Nat /\ q[i].weight \in Nat
           /\ Weight(q) = Weight(RemoveAt(q, i)) + q[i].weight
  <1> DEFINE a == SubSeq(q, 1, i - 1)
             b == SubSeq(q, i + 1, Len(q))
             c == SubSeq(q, 1, i)
  <1>1. i \in 1 .. Len(q) /\ Len(q) \in Nat /\ q[i] \in Entry
    OBVIOUS
  <1>2. /\ a \in Seq(Entry) /\ Len(a) = i - 1 /\ \A j \in 1 .. i - 1 : a[j] = q[j]
    BY <1>1
  <1>3. /\ b \in Seq(Entry) /\ Len(b) = Len(q) - i
        /\ \A j \in 1 .. Len(q) - i : b[j] = q[i + j]
    BY <1>1
  <1>4. RemoveAt(q, i) = a \o b
    BY DEF RemoveAt
  <1>5. q = Append(a, q[i]) \o b
    <2> DEFINE d == Append(a, q[i])
    <2> HIDE DEF a, b
    <2>1. /\ d \in Seq(Entry) /\ Len(d) = i /\ d[i] = q[i]
          /\ \A j \in 1 .. i - 1 : d[j] = q[j]
      BY <1>1, <1>2
    <2> HIDE DEF d
    <2>2. /\ d \o b \in Seq(Entry) /\ Len(d \o b) = Len(q)
          /\ \A j \in 1 .. Len(q) : (d \o b)[j] = IF j <= i THEN d[j] ELSE b[j - i]
      BY <1>1, <1>3, <2>1, ConcatProperties
    <2>3. ASSUME NEW j \in 1 .. Len(q) PROVE (d \o b)[j] = q[j]
      <3>1. CASE j <= i
        BY <1>1, <2>1, <2>2, <3>1
      <3>2. CASE ~(j <= i)
        <4>1. j - i \in 1 .. Len(q) - i /\ i + (j - i) = j
          BY <1>1, <3>2
        <4> QED BY <1>3, <2>2, <3>2, <4>1
      <3> QED BY <3>1, <3>2
    <2>4. d \o b = q
      BY <2>2, <2>3, SeqEqual
    <2> QED BY <2>4 DEF d
  <1> HIDE DEF a, b
  <1>6. /\ Append(a, q[i]) \in Seq(Entry)
        /\ Weight(a) \in Nat /\ q[i].weight \in Nat
        /\ Weight(Append(a, q[i])) = Weight(a) + q[i].weight
    BY <1>1, <1>2, WeightAppend
  <1>7. Weight(b) \in Nat /\ Weight(q) = Weight(Append(a, q[i])) + Weight(b)
    BY <1>3, <1>5, <1>6, WeightConcat
  <1>8. Weight(RemoveAt(q, i)) = Weight(a) + Weight(b)
    BY <1>2, <1>3, <1>4, WeightConcat
  <1> QED BY <1>6, <1>7, <1>8

(* The first entries and the others.                                        *)
LEMMA WeightSplit ==
    ASSUME NEW q \in Seq(Entry), NEW n \in 0 .. Len(q)
    PROVE  /\ Weight(SubSeq(q, 1, n)) \in Nat /\ Weight(SubSeq(q, n + 1, Len(q))) \in Nat
           /\ Weight(q) = Weight(SubSeq(q, 1, n)) + Weight(SubSeq(q, n + 1, Len(q)))
  <1> DEFINE a == SubSeq(q, 1, n)
             b == SubSeq(q, n + 1, Len(q))
  <1>1. n \in Nat /\ n <= Len(q) /\ Len(q) \in Nat
    OBVIOUS
  <1>2. /\ a \in Seq(Entry) /\ Len(a) = n /\ \A j \in 1 .. n : a[j] = q[j]
    BY <1>1
  <1>3. /\ b \in Seq(Entry) /\ Len(b) = Len(q) - n
        /\ \A j \in 1 .. Len(q) - n : b[j] = q[n + j]
    BY <1>1
  <1> HIDE DEF a, b
  <1>4. /\ a \o b \in Seq(Entry) /\ Len(a \o b) = Len(q)
        /\ \A j \in 1 .. Len(q) : (a \o b)[j] = IF j <= n THEN a[j] ELSE b[j - n]
    BY <1>1, <1>2, <1>3, ConcatProperties
  <1>5. ASSUME NEW j \in 1 .. Len(q) PROVE (a \o b)[j] = q[j]
    <2>1. CASE j <= n
      BY <1>1, <1>2, <1>4, <2>1
    <2>2. CASE ~(j <= n)
      <3>1. j - n \in 1 .. Len(q) - n /\ n + (j - n) = j
        BY <1>1, <2>2
      <3> QED BY <1>3, <1>4, <2>2, <3>1
    <2> QED BY <2>1, <2>2
  <1>6. a \o b = q
    BY <1>4, <1>5, SeqEqual
  <1>7. /\ Weight(a) \in Nat /\ Weight(b) \in Nat
        /\ Weight(a \o b) = Weight(a) + Weight(b)
    BY <1>2, <1>3, WeightConcat
  <1> QED BY <1>6, <1>7 DEF a, b

(* Within the bounds: WithinBudget of any cache.                            *)
Within(c) ==
    /\ c.entries \in Seq(Entry)
    /\ c.total = Weight(c.entries)
    /\ Len(c.entries) <= MaxEntries
    /\ c.entries # <<>> =>
           \E i \in DOMAIN c.entries : c.total - c.entries[i].weight < Max({1, MaxBytes})

(* The bound of bytes, were it zero.                                        *)
LEMMA BoundIs ==
    Max({1, MaxBytes}) \in Nat /\ Max({1, MaxBytes}) >= 1 /\ Max({1, MaxBytes}) >= MaxBytes
  <1>1. MaxBytes \in Nat
    BY StatementsAssumption
  <1>2. \E m \in {1, MaxBytes} : \A y \in {1, MaxBytes} : m >= y
    <2>1. CASE MaxBytes >= 1
      BY <1>1, <2>1
    <2>2. CASE MaxBytes < 1
      BY <1>1, <2>2
    <2> QED BY <1>1, <2>1, <2>2
  <1>3. Max({1, MaxBytes}) \in {1, MaxBytes} /\ \A y \in {1, MaxBytes} : Max({1, MaxBytes}) >= y
    BY <1>2 DEF Max
  <1> QED BY <1>1, <1>3

(* An entry less keeps the bounds.                                          *)
LEMMA LessIsWithin ==
    ASSUME NEW c, Within(c), NEW i \in DOMAIN c.entries, NEW d,
           d.entries = RemoveAt(c.entries, i), d.total = c.total - c.entries[i].weight
    PROVE  Within(d)
  <1> DEFINE q == c.entries
             t == d.entries
             M == Max({1, MaxBytes})
  <1>1. /\ q \in Seq(Entry) /\ Len(q) \in Nat /\ i \in 1 .. Len(q)
        /\ c.total = Weight(q) /\ Len(q) <= MaxEntries
    BY DEF Within
  <1>2. /\ t \in Seq(Entry) /\ Len(t) = Len(q) - 1
        /\ \A j \in 1 .. Len(q) - 1 : t[j] = IF j < i THEN q[j] ELSE q[j + 1]
    BY <1>1, RemoveAtIs
  <1>3. /\ Weight(q) \in Nat /\ Weight(t) \in Nat /\ q[i].weight \in Nat
        /\ d.total = Weight(t) /\ c.total = Weight(t) + q[i].weight
    BY <1>1, WeightRemove
  <1>4. M \in Nat
    BY BoundIs
  <1>5. MaxEntries \in Nat
    BY StatementsAssumption
  <1>6. q # <<>>
    BY <1>1
  <1>7. PICK k \in DOMAIN q : c.total - q[k].weight < M
    BY <1>6 DEF Within
  <1>8. q[k].weight \in Nat /\ k \in 1 .. Len(q)
    BY <1>1, Weighs
  <1> HIDE DEF q, t, M
  <1>9. ASSUME t # <<>> PROVE \E j \in DOMAIN t : d.total - t[j].weight < M
    <2>1. CASE k = i
      <3>1. 1 \in 1 .. Len(t) /\ 1 \in DOMAIN t
        BY <1>1, <1>2, <1>9
      <3>2. t[1].weight \in Nat
        BY <1>2, <3>1, Weighs
      <3>3. d.total - t[1].weight < M
        BY <1>3, <1>4, <1>7, <2>1, <3>2
      <3> QED BY <3>1, <3>3
    <2>2. CASE k # i
      <3> DEFINE j == IF k < i THEN k ELSE k - 1
      <3>1. j \in DOMAIN t /\ t[j] = q[k]
        BY <1>1, <1>2, <1>8, <2>2
      <3>2. d.total - q[k].weight < M
        BY <1>3, <1>4, <1>7, <1>8
      <3> HIDE DEF j
      <3> QED BY <3>1, <3>2
    <2> QED BY <2>1, <2>2
  <1>10. Len(t) <= MaxEntries
    BY <1>1, <1>2, <1>5
  <1> QED BY <1>2, <1>3, <1>9, <1>10 DEF Within, t, M

(* drop keeps the bounds.                                                   *)
LEMMA DropIsWithin ==
    ASSUME NEW c, Within(c), NEW text
    PROVE  Within(Drop(c, text))
  <1>1. CASE ~Has(c, text)
    BY <1>1 DEF Drop
  <1>2. CASE Has(c, text)
    <2>1. IndexOf(c, text) \in DOMAIN c.entries
      BY <1>2 DEF Has, IndexOf
    <2>2. /\ Drop(c, text).entries = RemoveAt(c.entries, IndexOf(c, text))
          /\ Drop(c, text).total = c.total - c.entries[IndexOf(c, text)].weight
      BY <1>2 DEF Drop
    <2> QED BY <2>1, <2>2, LessIsWithin
  <1> QED BY <1>1, <1>2

(* The most recently used entry changes its place, not the account.         *)
LEMMA UseIsWithin ==
    ASSUME NEW c, Within(c), NEW text
    PROVE  Within(Use(c, text))
  <1>1. CASE ~Has(c, text)
    BY <1>1 DEF Use
  <1>2. CASE Has(c, text)
    <2> DEFINE i == IndexOf(c, text)
               q == c.entries
               s == RemoveAt(q, i)
               e == q[i]
               t == Append(s, e)
               M == Max({1, MaxBytes})
    <2>1. i \in DOMAIN q
      BY <1>2 DEF Has, IndexOf
    <2>2. Use(c, text).entries = t /\ Use(c, text).total = c.total
      BY <1>2 DEF Use
    <2> HIDE DEF i
    <2>3. /\ q \in Seq(Entry) /\ Len(q) \in Nat /\ i \in 1 .. Len(q) /\ q # <<>>
          /\ c.total = Weight(q) /\ Len(q) <= MaxEntries /\ e \in Entry
      BY <2>1 DEF Within
    <2>4. /\ s \in Seq(Entry) /\ Len(s) = Len(q) - 1
          /\ \A j \in 1 .. Len(q) - 1 : s[j] = IF j < i THEN q[j] ELSE q[j + 1]
      BY <2>1, <2>3, RemoveAtIs
    <2>5. Weight(q) = Weight(s) + e.weight
      BY <2>1, <2>3, WeightRemove
    <2>6. PICK k \in DOMAIN q : c.total - q[k].weight < M
      BY <2>3 DEF Within
    <2> HIDE DEF q, s, M
    <2>7. Weight(t) = Weight(s) + e.weight
      BY <2>3, <2>4, WeightAppend
    <2>8. /\ t \in Seq(Entry) /\ Len(t) = Len(q) /\ t[Len(q)] = e
          /\ \A j \in 1 .. Len(q) - 1 : t[j] = s[j]
      BY <2>3, <2>4
    <2> HIDE DEF t
    <2>9. \E j \in DOMAIN t : t[j] = q[k]
      <3>0. k \in 1 .. Len(q) /\ DOMAIN t = 1 .. Len(q)
        BY <2>3, <2>8
      <3>1. CASE k = i
        BY <2>3, <2>8, <3>0, <3>1
      <3>2. CASE k < i
        <4>1. k \in 1 .. Len(q) - 1
          BY <2>3, <3>0, <3>2
        <4> QED BY <2>4, <2>8, <3>0, <3>2, <4>1
      <3>3. CASE k > i
        <4>1. /\ k - 1 \in 1 .. Len(q) - 1 /\ ~(k - 1 < i) /\ (k - 1) + 1 = k
              /\ k - 1 \in 1 .. Len(q)
          BY <2>3, <3>0, <3>3
        <4>2. t[k - 1] = q[k]
          BY <2>4, <2>8, <4>1
        <4> QED BY <3>0, <4>1, <4>2
      <3> QED BY <2>3, <3>0, <3>1, <3>2, <3>3
    <2> QED BY <2>2, <2>3, <2>5, <2>6, <2>7, <2>8, <2>9 DEF Within, M
  <1> QED BY <1>1, <1>2

(* An insertion overshoots the bytes by the new entry only.                 *)
LEMMA InsertIsWithin ==
    ASSUME NEW c, Within(c), NEW text \in Texts, NEW handle \in Handles,
           NEW weight \in Weights
    PROVE  Within(Insert(c, text, handle, weight))
  <1> DEFINE dropped == Drop(c, text)
             K == {k \in 0 .. Len(dropped.entries) :
                      \/ k = Len(dropped.entries)
                      \/ Evict(dropped, k).total < MaxBytes}
             n == Min(K)
             room == Evict(dropped, n)
             e0 == [text |-> text, handle |-> handle, weight |-> weight]
             grown == [entries |-> Append(room.entries, e0), total |-> room.total + weight]
             x == Max({0, Len(grown.entries) - MaxEntries})
             d == Evict(grown, x)
             M == Max({1, MaxBytes})
  <1>1. Insert(c, text, handle, weight) = d
    BY DEF Insert
  <1>2. Within(dropped)
    BY DropIsWithin
  <1> HIDE DEF dropped
  <1>3. /\ dropped.entries \in Seq(Entry) /\ Len(dropped.entries) \in Nat
        /\ dropped.total = Weight(dropped.entries)
    BY <1>2 DEF Within
  <1>4. /\ n \in 0 .. Len(dropped.entries)
        /\ n = Len(dropped.entries) \/ room.total < MaxBytes
    <2>1. K \in SUBSET Nat /\ Len(dropped.entries) \in K
      BY <1>3
    <2>2. n \in K
      <3> HIDE DEF K
      <3> QED BY <2>1, MinIs
    <2> QED BY <2>2
  <1> HIDE DEF K, n
  <1>5. /\ room.entries = SubSeq(dropped.entries, n + 1, Len(dropped.entries))
        /\ room.total = dropped.total - Weight(SubSeq(dropped.entries, 1, n))
    BY DEF Evict
  <1> HIDE DEF room
  <1>6. room.entries \in Seq(Entry) /\ Len(room.entries) = Len(dropped.entries) - n
    BY <1>3, <1>4, <1>5
  <1>7. room.total = Weight(room.entries) /\ room.total \in Nat
    BY <1>3, <1>4, <1>5, WeightSplit
  <1>8. M \in Nat /\ M >= 1 /\ M >= MaxBytes /\ MaxBytes \in Nat /\ MaxEntries \in Nat
    BY BoundIs, StatementsAssumption
  <1>9. e0 \in Entry /\ e0.weight = weight
    BY DEF Entry
  <1> HIDE DEF M, e0
  <1>10. room.total < M
    <2>1. CASE n = Len(dropped.entries)
      <3>1. room.entries = <<>>
        BY <1>3, <1>6, <2>1
      <3>2. room.total = 0
        BY <1>7, <1>9, <3>1, WeightOne
      <3> QED BY <1>8, <3>2
    <2>2. CASE room.total < MaxBytes
      BY <1>7, <1>8, <2>2
    <2> QED BY <1>4, <2>1, <2>2
  <1>11. /\ grown.entries \in Seq(Entry) /\ Len(grown.entries) = Len(room.entries) + 1
         /\ grown.entries[Len(grown.entries)] = e0 /\ Len(room.entries) \in Nat
    BY <1>6, <1>9
  <1>12. /\ weight \in Nat /\ grown.total = room.total + weight
         /\ grown.total = Weight(grown.entries)
    BY <1>6, <1>7, <1>9, WeightAppend
  <1> HIDE DEF grown
  <1>13. x \in 0 .. Len(grown.entries) /\ Len(grown.entries) - x <= MaxEntries
    <2> DEFINE y == Len(grown.entries) - MaxEntries
    <2>1. y \in Int /\ y <= Len(grown.entries)
      BY <1>8, <1>11
    <2>2. \E m \in {0, y} : \A z \in {0, y} : m >= z
      <3>1. CASE y >= 0
        BY <2>1, <3>1
      <3>2. CASE y < 0
        BY <2>1, <3>2
      <3> QED BY <2>1, <3>1, <3>2
    <2>3. x \in {0, y} /\ x >= 0 /\ x >= y
      BY <2>2 DEF Max
    <2> QED BY <1>8, <1>11, <2>1, <2>3
  <1> HIDE DEF x
  <1>14. /\ d.entries = SubSeq(grown.entries, x + 1, Len(grown.entries))
         /\ d.total = grown.total - Weight(SubSeq(grown.entries, 1, x))
    BY DEF Evict
  <1> HIDE DEF d
  <1>15. /\ d.entries \in Seq(Entry) /\ Len(d.entries) = Len(grown.entries) - x
         /\ \A j \in 1 .. Len(grown.entries) - x : d.entries[j] = grown.entries[x + j]
    BY <1>11, <1>13, <1>14
  <1>16. /\ Weight(SubSeq(grown.entries, 1, x)) \in Nat
         /\ d.total = Weight(d.entries) /\ d.total \in Nat
         /\ d.total <= grown.total
    BY <1>11, <1>12, <1>13, <1>14, WeightSplit
  <1>17. ASSUME d.entries # <<>>
         PROVE  \E i \in DOMAIN d.entries : d.total - d.entries[i].weight < M
    <2> DEFINE i == Len(d.entries)
    <2>1. /\ i \in 1 .. Len(grown.entries) - x /\ i \in DOMAIN d.entries
          /\ x + i = Len(grown.entries)
      BY <1>11, <1>13, <1>15, <1>17
    <2>2. d.entries[i] = e0
      BY <1>11, <1>15, <2>1
    <2>3. d.total - weight < M
      BY <1>7, <1>8, <1>10, <1>12, <1>16
    <2> QED BY <1>9, <2>1, <2>2, <2>3
  <1>18. Within(d)
    BY <1>13, <1>15, <1>16, <1>17 DEF Within, M
  <1> QED BY <1>1, <1>18

(* Nothing filed.                                                           *)
LEMMA WithinEmpty ==
    Within([entries |-> <<>>, total |-> 0])
  <1>1. <<>> \in Seq(Entry) /\ Len(<<>>) = 0 /\ MaxEntries \in Nat
    BY StatementsAssumption
  <1>2. Weight(<<>>) = 0
    <2>1. PICK s \in SumsOf(<<>>) : TRUE
      BY <1>1, SumsExist
    <2> QED BY <1>1, <2>1, WeightIsSum DEF SumsOf
  <1> QED BY <1>1, <1>2 DEF Within

(* What an action may do to the cache.                                      *)
CacheStep ==
    \/ cache' = cache
    \/ cache' = [entries |-> <<>>, total |-> 0]
    \/ \E text \in Texts : cache' = Use(cache, text) \/ cache' = Drop(cache, text)
    \/ \E text \in Texts, handle \in Handles, weight \in Weights :
           cache' = Insert(cache, text, handle, weight)

(* Every action does one of these.                                          *)
LEMMA CacheSteps ==
    ASSUME StatementsInv, [StatementsNext]_statementsVars
    PROVE  CacheStep
  <1>1. query.pc # "idle" => query.text \in Texts
    BY DEF StatementsInv, Shape, NoQuery
  <1>2. Stepping => query.handle \in Handles
    BY DEF StatementsInv, QueryInv, Shape, LiveShape
  <1>3. \A v \in Verdicts : verdicts[v].pc # "idle" => verdicts[v].text \in Texts
    BY DEF StatementsInv, Shape, NoVerdict
  <1>4. \A v \in Verdicts : verdicts[v].pc = "compiled" => verdicts[v].handle \in Handles
    BY DEF StatementsInv, VerdictInv, Shape, LiveShape
  <1>5. ASSUME NEW text \in Texts, NEW h \in Handles, NEW p, NEW failed \in BOOLEAN,
               Settle(text, h, p, failed)
        PROVE  CacheStep
    BY <1>5 DEF Settle, File, Discard, CacheStep
  <1>6. CASE TakeCached
    <2>1. PICK e \in Hit(query.text, query.mode) :
             \/ cache' = Use(cache, query.text)
             \/ File(query.text, e.handle, live[e.handle])
      BY <1>6 DEF TakeCached
    <2>2. e \in Rows(cache) /\ query.pc = "waiting"
      BY <1>6 DEF Hit, Find, Rows, TakeCached
    <2>3. e.handle \in Handles /\ query.text \in Texts
      BY <1>1, <2>2, RowsTyped DEF Entry, StatementsInv, Shape
    <2> QED BY <2>1, <2>3 DEF File, CacheStep
  <1>7. CASE Compile
    <2>1. \/ cache' = cache
          \/ \E p : \E h \in Handles : Settle(query.text, h, p, FALSE)
      BY <1>7 DEF Compile, Free
    <2> QED BY <1>1, <1>5, <1>7, <2>1 DEF Compile, CacheStep
  <1>8. CASE FirstStep \/ NextStep
    <2>1. Stepping /\ query.pc # "idle"
      BY <1>8 DEF FirstStep, NextStep, Stepping
    <2>2. \/ cache' = cache
          \/ \E p : \E failed \in BOOLEAN : Settle(query.text, query.handle, p, failed)
      <3>1. CASE FirstStep
        BY <3>1 DEF FirstStep, Yields, Over
      <3>2. CASE NextStep
        BY <3>2 DEF NextStep, Yields, Over
      <3> QED BY <1>8, <3>1, <3>2
    <2> QED BY <1>1, <1>2, <1>5, <2>1, <2>2 DEF CacheStep
  <1>9. ASSUME NEW v \in Verdicts, TakeVerdict(v) PROVE CacheStep
    <2>1. cache' = cache \/ cache' = Use(cache, verdicts[v].text)
      BY <1>9 DEF TakeVerdict
    <2> QED BY <1>3, <1>9, <2>1 DEF TakeVerdict, CacheStep
  <1>10. ASSUME NEW v \in Verdicts, EndVerdict(v) PROVE CacheStep
    BY <1>3, <1>4, <1>10 DEF EndVerdict, File, CacheStep
  <1>11. CASE CloseEnds
    BY <1>11 DEF CloseEnds, CacheStep
  <1>12. CASE UNCHANGED cache
    BY <1>12 DEF CacheStep
  <1>13. CASE StatementsNext
    <2>1. ASSUME NEW text \in Texts, NEW mode \in Modes, Receive(text, mode)
          PROVE  UNCHANGED cache
      BY <2>1 DEF Receive
    <2>2. ASSUME NEW v \in Verdicts, NEW text \in Texts, AskVerdict(v, text)
          PROVE  UNCHANGED cache
      BY <2>2 DEF AskVerdict
    <2>3. ASSUME Credit \/ Stop \/ Close \/ CloseWaits \/ Change
          PROVE  UNCHANGED cache
      BY <2>3 DEF Credit, Stop, Close, CloseWaits, Change
    <2> QED
      BY <1>6, <1>7, <1>8, <1>9, <1>10, <1>11, <1>12, <1>13, <2>1, <2>2, <2>3 DEF StatementsNext
  <1> QED BY <1>12, <1>13 DEF statementsVars

(* So every action keeps the bounds.                                        *)
LEMMA WithinStep ==
    ASSUME StatementsInv, Within(cache), [StatementsNext]_statementsVars
    PROVE  Within(cache)'
  <1>1. CacheStep
    BY CacheSteps
  <1>2. CASE cache' = [entries |-> <<>>, total |-> 0]
    BY <1>2, WithinEmpty
  <1>3. ASSUME NEW text \in Texts, cache' = Use(cache, text) PROVE Within(cache')
    BY <1>3, UseIsWithin
  <1>4. ASSUME NEW text \in Texts, cache' = Drop(cache, text) PROVE Within(cache')
    BY <1>4, DropIsWithin
  <1>5. ASSUME NEW text \in Texts, NEW handle \in Handles, NEW weight \in Weights,
               cache' = Insert(cache, text, handle, weight)
        PROVE  Within(cache')
    BY <1>5, InsertIsWithin
  <1> QED BY <1>1, <1>2, <1>3, <1>4, <1>5 DEF CacheStep

-----------------------------------------------------------------------------
(* The theorems.                                                            *)

(* A worker that has opened its database.                                   *)
LEMMA InitCorrect == StatementsInit => StatementsInv
  <1> SUFFICES ASSUME StatementsInit PROVE StatementsInv
    OBVIOUS
  <1> USE DEF StatementsInit
  <1>1. CacheInv(cache) /\ Rows(cache) = {} /\ cache.entries = <<>> /\ DOMAIN live = {}
    BY DEF CacheInv, Distinct, Rows
  <1>2. Shape
    BY <1>1 DEF Shape, LiveShape, Backed
  <1>3. query.pc = "idle" /\ query.handle = NoHandle
    BY DEF NoQuery
  <1>4. \A v \in Verdicts : verdicts[v].pc = "idle" /\ verdicts[v].handle = NoHandle
    BY DEF NoVerdict
  <1>5. LineInv
    BY <1>3, <1>4 DEF LineInv, LineShape, InLine
  <1>6. QueryInv /\ VerdictInv /\ ClosedInv /\ NothingLeaks /\ RunsAsAsked
    BY <1>1, <1>3, <1>4 DEF QueryInv, VerdictInv, ClosedInv, NothingLeaks, RunsAsAsked, Stepping
  <1> QED BY <1>2, <1>5, <1>6 DEF StatementsInv

(* Every action keeps the invariant.                                        *)
LEMMA StepCorrect == StatementsInv /\ [StatementsNext]_statementsVars => StatementsInv'
  <1> SUFFICES ASSUME StatementsInv, [StatementsNext]_statementsVars PROVE StatementsInv'
    OBVIOUS
  <1>1. CASE UNCHANGED statementsVars
    BY <1>1 DEF statementsVars, StatementsInv, Shape, LineInv, LineShape, InLine, Holds, QueryInv, VerdictInv,
                ClosedInv, NothingLeaks, RunsAsAsked, Stepping
  <1>2. CASE StatementsNext
    BY <1>2, ReceiveStep, TakeCachedStep, CompileStep, FirstStepStep, NextStepStep,
       CreditStopStep, AskVerdictStep, TakeVerdictStep, EndVerdictStep, CloseStep,
       CloseWaitsStep, CloseEndsStep, ChangeStep DEF StatementsNext
  <1> QED BY <1>1, <1>2

(* The invariant of a worker's statements.                                  *)
THEOREM StatementsInvCorrect == StatementsSpec => []StatementsInv
  BY InitCorrect, StepCorrect, PTL DEF StatementsSpec

(* settle, verdictOf and evict never finalise a statement that is stepped   *)
(* or filed, whatever the bounds of the cache.                              *)
THEOREM NoUseAfterFinalize == StatementsSpec => []InUseIsLive
  <1>1. StatementsInv => InUseIsLive
    <2> SUFFICES ASSUME StatementsInv PROVE InUseIsLive
      OBVIOUS
    <2>1. query.handle # NoHandle => query.handle \in DOMAIN live
      BY DEF StatementsInv, QueryInv
    <2>2. Filed(cache) \subseteq DOMAIN live
      BY FiledIs DEF StatementsInv, Shape, Backed
    <2> QED BY <2>1, <2>2 DEF StatementsInv, Shape, CacheInv, Distinct, InUseIsLive
  <1> QED BY <1>1, StatementsInvCorrect, PTL

(* Every statement alive is filed or in somebody's hands, and close() leaves *)
(* none.                                                                    *)
THEOREM NoStatementLeaks == StatementsSpec => []NothingLeaks
  <1>1. StatementsInv => NothingLeaks
    BY DEF StatementsInv
  <1> QED BY <1>1, StatementsInvCorrect, PTL

(* refuseWrites, the authorizer and the IGNORE of a guarded prepare: no      *)
(* query writes, begins or does nothing against its mode.                   *)
THEOREM QueriesRunAsAsked == StatementsSpec => []RunsAsAsked
  <1>1. StatementsInv => RunsAsAsked
    BY DEF StatementsInv
  <1> QED BY <1>1, StatementsInvCorrect, PTL

(* insert, drop and evictOldest keep the running total equal to the weights *)
(* of what is filed, and both bounds, the bytes but for one entry.          *)
THEOREM BudgetIsKept == StatementsSpec => []WithinBudget
  <1>1. StatementsInit => Within(cache)
    BY WithinEmpty DEF StatementsInit
  <1>2. StatementsInv /\ Within(cache) /\ [StatementsNext]_statementsVars => Within(cache)'
    BY WithinStep
  <1>3. Within(cache) => WithinBudget
    BY DEF Within, WithinBudget
  <1> QED BY <1>1, <1>2, <1>3, StatementsInvCorrect, PTL DEF StatementsSpec

=============================================================================
