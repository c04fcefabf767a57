--------------------------- MODULE LifecycleProofs ---------------------------
(***************************************************************************)
(* What Lifecycle promises, for any size of the pool, any restart budget and *)
(* any number of crashes, in every setting.  The handlers are operators on   *)
(* the client's record, so the invariant is stated of a record: d, with k    *)
(* when close() has not emptied the pool, z once close() was called, and T   *)
(* the threads a transaction owes something to.                             *)
(***************************************************************************)
EXTENDS Lifecycle, FiniteSetTheorems, TLAPS

-----------------------------------------------------------------------------
(* The inductive invariant.                                                 *)

(* Some worker of slot i lives; some worker lives.                          *)
LiveIn(d, i) == \E n \in 1 .. Len(d.thread[i]) : d.thread[i][n] \in Alive

Undead(d) == \E i \in Slots : LiveIn(d, i)

(* A slot's pool entry is its last thread, and only that one may live; the  *)
(* probe is worker 0's.                                                     *)
Latest(d, k) ==
    \A i \in Slots :
        /\ d.pool[i] \in {0, Len(d.thread[i])}
        /\ \A n \in 1 .. Len(d.thread[i]) :
              /\ d.thread[i][n] = "probing" => i = 0
              /\ k /\ d.thread[i][n] \in Alive => n = Len(d.thread[i]) /\ n = d.pool[i]

(* The supervisor counts a slot as alive until it is lost, and counts as    *)
(* alive whatever lives.  A worker that may be declined was never ready.    *)
Counted(d, k) ==
    \A i \in Slots :
        /\ d.sup[i].alive <=> ~d.sup[i].lost
        /\ k /\ LiveIn(d, i) => d.sup[i].alive
        /\ d.env.declining /\ i # 0 => ~d.sup[i].everReady

(* Startup lasts while the gate is closed.  A gate rejected past startup is *)
(* that of a client whose every worker failed to open.  A slot whose worker *)
(* lives and was never ready has not settled.                               *)
Gated(d, z) ==
    /\ d.gate.state = "closed" => d.inStartup /\ ~d.fatal /\ ~z
    /\ d.gate.state = "open" => ~d.inStartup /\ d.gate.settled = Slots
    /\ d.gate.state = "rejected" /\ ~d.inStartup => d.fatal /\ ~Undead(d)
    /\ d.inStartup => d.ready # "resolved" /\ \A i \in Slots : d.reported[i] = 0
    /\ d.gate.state # "rejected" =>
          \A i \in d.gate.settled : LiveIn(d, i) => d.sup[i].everReady

(* During startup a slot without a worker has not spawned one, is among the *)
(* startup losses or was declined, and every other one counted as alive has *)
(* a worker.  A loss that waits for its retry has not settled, and a slot    *)
(* that settled without a worker to show for it is a loss.                  *)
Starting(d) ==
    d.gate.state = "closed" =>
        \A i \in Slots :
            /\ d.sup[i].alive \/ i \in d.gate.declined
            /\ i \in d.gate.declined => i \notin d.losses /\ i # 0 /\ ~d.sup[i].alive
            /\ d.pool[i] = 0 =>
                  Len(d.thread[i]) = 0 \/ i \in d.losses \/ i \in d.gate.declined
            /\ i \in d.gate.settled \/ i \in d.losses => Len(d.thread[i]) # 0
            /\ i \in d.losses /\ i \in d.gate.settled => d.pool[i] = 0
            /\ i \in Failed(d.gate) => i \in d.losses
            /\ d.sup[i].alive /\ i \notin d.losses /\ Len(d.thread[i]) # 0 => LiveIn(d, i)

(* A failed client has no worker, and none of its slots is restarted for a  *)
(* transaction that still holds one; transactions begin on ready clients.   *)
Failing(d, k, T) ==
    /\ d.fatal /\ k => ~Undead(d)
    /\ d.fatal /\ T # {} => \A i \in Slots : ~d.sup[i].alive
    /\ T # {} => /\ d.gate.state = "open" /\ d.probed /\ d.ready = "resolved"
                 /\ d.conn \notin {"undecided", "asked"}

(* A slot is announced once, when it stops to count as alive or when every  *)
(* slot failed to open.                                                     *)
Announced(d) ==
    \A i \in Slots :
        /\ d.reported[i] <= 1
        /\ d.reported[i] = 1 =>
              ~d.sup[i].alive \/ (d.gate.state = "rejected" /\ ~d.inStartup)

(* Past startup every slot that is without a worker, or counted as dead,    *)
(* was announced or declined.                                               *)
Told(d, z) ==
    ~d.inStartup /\ ~z =>
        \A i \in Slots : d.pool[i] = 0 \/ ~d.sup[i].alive =>
                             d.reported[i] = 1 \/ i \in d.gate.declined

(* Past startup some slot counts as alive, and each that does has a worker. *)
Manned(d, z) ==
    d.gate.state = "open" /\ ~z /\ ~d.fatal =>
        /\ \E i \in Slots : d.sup[i].alive
        /\ \A i \in Slots : d.sup[i].alive => LiveIn(d, i)

(* A lock is asked for once the mode is known; where it is exclusive no     *)
(* worker is started before it is granted.                                  *)
Locking(d) ==
    /\ d.conn # "undecided" => d.probed
    /\ d.conn = "undecided" => d.env.connection = "probed"
    /\ d.env.connection = "exclusive" /\ d.conn = "asked" =>
          /\ d.inStartup /\ d.gate.settled = {} /\ d.gate.declined = {} /\ d.losses = {}
          /\ \A i \in Slots : Len(d.thread[i]) = 0 /\ d.sup[i].alive

(* All that is said of the client's record alone.                           *)
Sound(d, k, z, T) ==
    /\ d \in Clients
    /\ Latest(d, k) /\ Counted(d, k) /\ Gated(d, z) /\ Starting(d)
    /\ Failing(d, k, T) /\ Announced(d) /\ Told(d, z) /\ Manned(d, z) /\ Locking(d)

(* Every restart was paid for by a death since the slot last served, unless *)
(* deaths are reported twice.                                               *)
Charged ==
    "stale" \notin c.env.deaths => \A i \in Slots : c.sup[i].restarts <= deaths[i]

(* Surplus workers only are declined.                                       *)
Kept(d) == {i \in Slots : i = 0 \/ ~d.sup[i].lost}

Sized == Cardinality(Kept(c)) <= c.size

(* What may still live while close() goes on.                               *)
Sweeping ==
    /\ ~PoolKept => Closing
    /\ \A i \in Slots : swept[i] \in 0 .. Len(c.thread[i])
    /\ Closing /\ "closing" \notin c.env.deaths =>
          \A i \in Slots : \A n \in 1 .. Len(c.thread[i]) :
              c.thread[i][n] \in Alive =>
                  phase = "draining" \/ (phase = "sweeping" /\ swept[i] = n)

(* The inductive invariant of the specification.                            *)
IInv ==
    /\ TypeOK /\ Sound(c, PoolKept, Closing, tx)
    /\ Charged /\ Sized /\ Sweeping
-----------------------------------------------------------------------------
(* What the handlers' parts do to the client's record.                      *)

(* The threads of e are those of d, some of them dead by now.               *)
Quieter(d, e) ==
    \A i \in Slots :
        /\ Len(e.thread[i]) = Len(d.thread[i])
        /\ \A n \in 1 .. Len(d.thread[i]) :
              e.thread[i][n] = d.thread[i][n] \/ e.thread[i][n] = "dead"

(* No worker lives in e that did not live in d.                             *)
NoNewLife(d, e) ==
    \A i \in Slots : \A n \in 1 .. Len(e.thread[i]) :
        e.thread[i][n] \in Alive =>
            n \in 1 .. Len(d.thread[i]) /\ d.thread[i][n] \in Alive

(* Nothing lives in the quieter record that did not live before.            *)
LEMMA QuieterLives ==
    ASSUME NEW d, NEW e, Quieter(d, e)
    PROVE  /\ \A i \in Slots : LiveIn(e, i) => LiveIn(d, i)
           /\ Undead(e) => Undead(d)
           /\ NoNewLife(d, e)
  BY DEF Quieter, LiveIn, Undead, Alive, NoNewLife

(* There is a slot 0, and the slots are finitely many.                      *)
LEMMA SlotsFacts ==
    /\ 0 \in Slots /\ Slots # {}
    /\ Slots \subseteq Nat
    /\ IsFiniteSet(Slots)
  <1>1. PoolSize \in Nat \ {0} /\ 0 \in Int /\ PoolSize - 1 \in Int
    BY PoolSizeAssumption
  <1>2. IsFiniteSet(0 .. PoolSize - 1)
    BY <1>1, FS_Interval
  <1>3. Slots = 0 .. PoolSize - 1
    BY DEF Slots
  <1>4. 0 \in Slots /\ Slots \subseteq Nat
    BY <1>1, <1>3
  <1> QED
    BY <1>2, <1>3, <1>4

(* A slot's threads are a sequence of thread states.                        *)
LEMMA ThreadsAre ==
    ASSUME NEW d \in Clients, NEW i \in Slots
    PROVE  /\ d.thread[i] \in Seq(ThreadStates)
           /\ Len(d.thread[i]) \in Nat
           /\ \A n \in 1 .. Len(d.thread[i]) : d.thread[i][n] \in ThreadStates
  <1>1. d.thread[i] \in Seq(ThreadStates)
    BY DEF Clients
  <1> QED
    BY <1>1

(* terminate() of the workers of I.                                         *)
LEMMA TerminateIs ==
    ASSUME NEW d \in Clients, NEW I \in SUBSET Slots
    PROVE  /\ Terminate(d, I) \in Clients
           /\ \E th \in [Slots -> Seq(ThreadStates)] :
                 Terminate(d, I) = [d EXCEPT !.thread = th]
           /\ Quieter(d, Terminate(d, I))
           /\ \A i \in Slots \ I : Terminate(d, I).thread[i] = d.thread[i]
           /\ \A i \in I : \A n \in 1 .. Len(d.thread[i]) :
                 n = d.pool[i] => Terminate(d, I).thread[i][n] = "dead"
  <1> DEFINE row(i) == [n \in 1 .. Len(d.thread[i]) |->
                            IF i \in I /\ n = d.pool[i] THEN "dead" ELSE d.thread[i][n]]
             th == [i \in Slots |-> row(i)]
  <1>1. Terminate(d, I) = [d EXCEPT !.thread = th]
    BY DEF Terminate
  <1>2. ASSUME NEW i \in Slots
        PROVE  /\ row(i) \in Seq(ThreadStates) /\ Len(row(i)) = Len(d.thread[i])
               /\ \A n \in 1 .. Len(d.thread[i]) :
                     row(i)[n] = IF i \in I /\ n = d.pool[i] THEN "dead"
                                 ELSE d.thread[i][n]
    <2>1. Len(d.thread[i]) \in Nat
      BY ThreadsAre
    <2>2. row(i) \in [1 .. Len(d.thread[i]) -> ThreadStates]
      BY ThreadsAre DEF ThreadStates
    <2> QED
      BY <2>1, <2>2
  <1>3. ASSUME NEW i \in Slots \ I PROVE row(i) = d.thread[i]
    <2>1. d.thread[i] \in Seq(ThreadStates)
      BY ThreadsAre
    <2>2. d.thread[i] = [n \in 1 .. Len(d.thread[i]) |-> d.thread[i][n]]
      BY <2>1
    <2> QED
      BY <2>2
  <1> HIDE DEF row
  <1>4. th \in [Slots -> Seq(ThreadStates)]
    BY <1>2
  <1>5. [d EXCEPT !.thread = th] \in Clients /\ [d EXCEPT !.thread = th].thread = th
    BY <1>4 DEF Clients
  <1>6. \A i \in Slots : Terminate(d, I).thread[i] = row(i)
    BY <1>1, <1>5
  <1> HIDE DEF th
  <1>7. Quieter(d, Terminate(d, I))
    BY <1>2, <1>6 DEF Quieter
  <1>8. \A i \in Slots \ I : Terminate(d, I).thread[i] = d.thread[i]
    BY <1>3, <1>6
  <1>9. \A i \in I : \A n \in 1 .. Len(d.thread[i]) :
            n = d.pool[i] => Terminate(d, I).thread[i][n] = "dead"
    BY <1>2, <1>6
  <1> QED
    BY <1>1, <1>4, <1>5, <1>7, <1>8, <1>9

(* e differs from d in its threads only.                                    *)
Aside(d, e) ==
    /\ e.env = d.env /\ e.size = d.size /\ e.pool = d.pool /\ e.sup = d.sup
    /\ e.losses = d.losses /\ e.reported = d.reported /\ e.ready = d.ready
    /\ e.inStartup = d.inStartup /\ e.gate = d.gate /\ e.conn = d.conn
    /\ e.probed = d.probed /\ e.fatal = d.fatal

(* A worker of slot i changes its state.                                    *)
LEMMA ThreadSet ==
    ASSUME NEW d \in Clients, NEW i \in Slots, NEW n \in 1 .. Len(d.thread[i]),
           NEW v \in ThreadStates
    PROVE  LET e == [d EXCEPT !.thread[i][n] = v] IN
           /\ e \in Clients
           /\ Aside(d, e)
           /\ \A j \in Slots : Len(e.thread[j]) = Len(d.thread[j])
           /\ \A j \in Slots : \A m \in 1 .. Len(d.thread[j]) :
                 e.thread[j][m] = IF j = i /\ m = n THEN v ELSE d.thread[j][m]
           /\ \A j \in Slots \ {i} : e.thread[j] = d.thread[j]
  <1> DEFINE row == [d.thread[i] EXCEPT ![n] = v]
             th == [d.thread EXCEPT ![i] = row]
             e == [d EXCEPT !.thread = th]
  <1>1. d.thread[i] \in Seq(ThreadStates) /\ Len(d.thread[i]) \in Nat
    BY ThreadsAre
  <1>2. /\ row \in Seq(ThreadStates) /\ Len(row) = Len(d.thread[i])
        /\ \A m \in 1 .. Len(d.thread[i]) : row[m] = IF m = n THEN v ELSE d.thread[i][m]
    BY <1>1
  <1>3. [d EXCEPT !.thread[i][n] = v] = e
    BY DEF Clients
  <1> HIDE DEF row
  <1>4. d.thread \in [Slots -> Seq(ThreadStates)]
    BY DEF Clients
  <1>5. /\ th \in [Slots -> Seq(ThreadStates)]
        /\ \A j \in Slots : th[j] = IF j = i THEN row ELSE d.thread[j]
    BY <1>2, <1>4
  <1> HIDE DEF th
  <1>6. e \in Clients /\ e.thread = th /\ Aside(d, e)
    BY <1>5 DEF Clients, Aside
  <1> HIDE DEF e
  <1>7. \A j \in Slots : Len(e.thread[j]) = Len(d.thread[j])
    BY <1>2, <1>5, <1>6
  <1>8. \A j \in Slots : \A m \in 1 .. Len(d.thread[j]) :
            e.thread[j][m] = IF j = i /\ m = n THEN v ELSE d.thread[j][m]
    BY <1>2, <1>5, <1>6
  <1>9. \A j \in Slots \ {i} : e.thread[j] = d.thread[j]
    BY <1>5, <1>6
  <1> QED
    BY <1>3, <1>5, <1>6, <1>7, <1>8, <1>9, ZenonT(60) DEF e

(* What the operations below never touch.                                   *)
SameFate(d, e) ==
    /\ e.env = d.env /\ e.size = d.size

(* spawn() for every slot of I: one more thread, which is the pool's.       *)
LEMMA SpawnIs ==
    ASSUME NEW d \in Clients, NEW I \in SUBSET Slots
    PROVE  LET e == Spawn(d, I) IN
           /\ e \in Clients /\ SameFate(d, e)
           /\ e.gate = d.gate /\ e.inStartup = d.inStartup /\ e.losses = d.losses
           /\ e.reported = d.reported /\ e.conn = d.conn /\ e.probed = d.probed
           /\ e.fatal = d.fatal /\ e.ready = d.ready
           /\ \A i \in Slots \ I :
                 e.thread[i] = d.thread[i] /\ e.pool[i] = d.pool[i] /\ e.sup[i] = d.sup[i]
           /\ \A i \in I :
                 /\ Len(e.thread[i]) = Len(d.thread[i]) + 1
                 /\ e.pool[i] = Len(e.thread[i])
                 /\ \A n \in 1 .. Len(d.thread[i]) : e.thread[i][n] = d.thread[i][n]
                 /\ e.thread[i][Len(e.thread[i])] = FirstState(d, i)
                 /\ e.sup[i].alive <=> d.sup[i].alive \/ ~d.sup[i].lost
                 /\ e.sup[i].lost = d.sup[i].lost
                 /\ e.sup[i].everReady = d.sup[i].everReady
                 /\ e.sup[i].restarts = d.sup[i].restarts
  <1> DEFINE e == Spawn(d, I)
             sp(i) == IF i \in I THEN Spawned(d.sup[i]) ELSE d.sup[i]
             tr(i) == IF i \in I THEN Append(d.thread[i], FirstState(d, i)) ELSE d.thread[i]
             pl(i) == IF i \in I THEN Len(d.thread[i]) + 1 ELSE d.pool[i]
             sup == [i \in Slots |-> sp(i)]
             thread == [i \in Slots |-> tr(i)]
             pool == [i \in Slots |-> pl(i)]
  <1>1. e = [d EXCEPT !.sup = sup, !.thread = thread, !.pool = pool]
    BY DEF Spawn, Clients
  <1>2. ASSUME NEW i \in Slots
        PROVE  /\ sp(i) \in SlotRecords
               /\ i \in I => /\ sp(i).alive <=> d.sup[i].alive \/ ~d.sup[i].lost
                             /\ sp(i).lost = d.sup[i].lost
                             /\ sp(i).everReady = d.sup[i].everReady
                             /\ sp(i).restarts = d.sup[i].restarts
    <2>1. d.sup[i] \in SlotRecords
      BY DEF Clients
    <2> QED
      BY <2>1 DEF SlotRecords, Spawned
  <1>3. ASSUME NEW i \in Slots
        PROVE  /\ tr(i) \in Seq(ThreadStates) /\ pl(i) \in Nat
               /\ i \in I =>
                     /\ Len(tr(i)) = Len(d.thread[i]) + 1
                     /\ pl(i) = Len(tr(i))
                     /\ \A n \in 1 .. Len(d.thread[i]) : tr(i)[n] = d.thread[i][n]
                     /\ tr(i)[Len(tr(i))] = FirstState(d, i)
    <2>1. d.thread[i] \in Seq(ThreadStates) /\ d.pool[i] \in Nat
      BY DEF Clients
    <2>2. FirstState(d, i) \in ThreadStates
      BY DEF FirstState, ThreadStates
    <2> QED
      BY <2>1, <2>2
  <1>4. \A i \in Slots \ I :
            tr(i) = d.thread[i] /\ pl(i) = d.pool[i] /\ sp(i) = d.sup[i]
    OBVIOUS
  <1> HIDE DEF sp, tr, pl
  <1>5. /\ sup \in [Slots -> SlotRecords] /\ thread \in [Slots -> Seq(ThreadStates)]
        /\ pool \in [Slots -> Nat]
    BY <1>2, <1>3
  <1>6. \A i \in Slots : sup[i] = sp(i) /\ thread[i] = tr(i) /\ pool[i] = pl(i)
    OBVIOUS
  <1> HIDE DEF sup, thread, pool
  <1>7. /\ e \in Clients /\ e.sup = sup /\ e.thread = thread /\ e.pool = pool
        /\ e.env = d.env /\ e.size = d.size
        /\ e.gate = d.gate /\ e.inStartup = d.inStartup /\ e.losses = d.losses
        /\ e.reported = d.reported /\ e.conn = d.conn /\ e.probed = d.probed
        /\ e.fatal = d.fatal /\ e.ready = d.ready
    BY <1>1, <1>5 DEF Clients
  <1>8. \A i \in Slots \ I :
            e.thread[i] = d.thread[i] /\ e.pool[i] = d.pool[i] /\ e.sup[i] = d.sup[i]
    BY <1>4, <1>6, <1>7
  <1>9. ASSUME NEW i \in I
        PROVE  /\ e.thread[i] = tr(i) /\ e.pool[i] = pl(i) /\ e.sup[i] = sp(i)
               /\ i \in Slots
    BY <1>6, <1>7
  <1> HIDE DEF e
  <1>10. ASSUME NEW i \in I
         PROVE  /\ Len(e.thread[i]) = Len(d.thread[i]) + 1
                /\ e.pool[i] = Len(e.thread[i])
                /\ \A n \in 1 .. Len(d.thread[i]) : e.thread[i][n] = d.thread[i][n]
                /\ e.thread[i][Len(e.thread[i])] = FirstState(d, i)
                /\ e.sup[i].alive <=> d.sup[i].alive \/ ~d.sup[i].lost
                /\ e.sup[i].lost = d.sup[i].lost
                /\ e.sup[i].everReady = d.sup[i].everReady
                /\ e.sup[i].restarts = d.sup[i].restarts
    <2>1. e.thread[i] = tr(i) /\ e.pool[i] = pl(i) /\ e.sup[i] = sp(i)
      BY <1>9
    <2>2. /\ Len(tr(i)) = Len(d.thread[i]) + 1
          /\ pl(i) = Len(tr(i))
          /\ \A n \in 1 .. Len(d.thread[i]) : tr(i)[n] = d.thread[i][n]
          /\ tr(i)[Len(tr(i))] = FirstState(d, i)
      BY <1>3
    <2>3. /\ sp(i).alive <=> d.sup[i].alive \/ ~d.sup[i].lost
          /\ sp(i).lost = d.sup[i].lost
          /\ sp(i).everReady = d.sup[i].everReady
          /\ sp(i).restarts = d.sup[i].restarts
      BY <1>2
    <2> QED
      BY <2>1, <2>2, <2>3
  <1> QED
    BY <1>7, <1>8, <1>10 DEF SameFate, e

(* The same, as far as the invariant sees it: a slot that spawns lives.     *)
LEMMA SpawnLives ==
    ASSUME NEW d \in Clients, NEW I \in SUBSET Slots
    PROVE  LET e == Spawn(d, I) IN
           \A i \in Slots : /\ LiveIn(e, i) <=> i \in I \/ LiveIn(d, i)
                            /\ Len(e.thread[i]) = Len(d.thread[i]) + (IF i \in I THEN 1 ELSE 0)
  <1> DEFINE e == Spawn(d, I)
  <1>1. ASSUME NEW i \in I PROVE LiveIn(e, i) /\ Len(e.thread[i]) = Len(d.thread[i]) + 1
    <2>1. /\ Len(e.thread[i]) = Len(d.thread[i]) + 1
          /\ e.thread[i][Len(e.thread[i])] = FirstState(d, i)
      BY SpawnIs
    <2>2. Len(d.thread[i]) \in Nat
      BY ThreadsAre
    <2>3. FirstState(d, i) \in Alive
      BY DEF FirstState, Alive, ThreadStates
    <2>4. Len(e.thread[i]) \in 1 .. Len(e.thread[i])
      BY <2>1, <2>2
    <2> QED
      BY <2>1, <2>3, <2>4 DEF LiveIn
  <1>2. ASSUME NEW i \in Slots \ I
        PROVE  (LiveIn(e, i) <=> LiveIn(d, i)) /\ Len(e.thread[i]) = Len(d.thread[i]) + 0
    <2>1. e.thread[i] = d.thread[i]
      BY SpawnIs
    <2>2. Len(d.thread[i]) \in Nat
      BY ThreadsAre
    <2> QED
      BY <2>1, <2>2 DEF LiveIn
  <1> QED
    BY <1>1, <1>2

(* spawn() for no slot does nothing.                                        *)
LEMMA SpawnNone ==
    ASSUME NEW d \in Clients
    PROVE  Spawn(d, {}) = d
  <1>1. /\ d.sup = [i \in Slots |-> d.sup[i]] /\ d.thread = [i \in Slots |-> d.thread[i]]
        /\ d.pool = [i \in Slots |-> d.pool[i]]
    BY DEF Clients
  <1>2. Spawn(d, {}) = [d EXCEPT !.sup = [i \in Slots |-> d.sup[i]],
                                 !.thread = [i \in Slots |-> d.thread[i]],
                                 !.pool = [i \in Slots |-> d.pool[i]]]
    BY DEF Spawn, Clients
  <1>3. Spawn(d, {}) = [d EXCEPT !.sup = d.sup, !.thread = d.thread, !.pool = d.pool]
    BY <1>1, <1>2
  <1> QED
    BY <1>3 DEF Clients

(* emitWorkerLost() for every slot of I.                                    *)
LEMMA EmitIs ==
    ASSUME NEW d \in Clients, NEW I \in SUBSET Slots
    PROVE  \E r \in [Slots -> Nat] :
              /\ EmitWorkerLost(d, I) = [d EXCEPT !.reported = r]
              /\ \A i \in Slots : r[i] = IF i \in I THEN d.reported[i] + 1 ELSE d.reported[i]
  <1> DEFINE r == [i \in Slots |-> IF i \in I THEN d.reported[i] + 1 ELSE d.reported[i]]
  <1>1. d.reported \in [Slots -> Nat]
    BY DEF Clients
  <1>2. r \in [Slots -> Nat]
    BY <1>1
  <1>3. EmitWorkerLost(d, I) = [d EXCEPT !.reported = r]
    BY DEF EmitWorkerLost, Clients
  <1> QED
    BY <1>2, <1>3

(* failClient().                                                            *)
LEMMA FailClientIs ==
    ASSUME NEW d \in Clients
    PROVE  LET e == FailClient(d) IN
           /\ e \in Clients /\ SameFate(d, e) /\ Quieter(d, e)
           /\ \A i \in Slots : \A n \in 1 .. Len(d.thread[i]) :
                 n = d.pool[i] => e.thread[i][n] = "dead"
           /\ e.pool = d.pool /\ e.sup = d.sup /\ e.losses = d.losses
           /\ e.inStartup = d.inStartup /\ e.reported = d.reported
           /\ e.fatal = TRUE /\ e.probed = TRUE
           /\ e.conn = Released(d.conn)
           /\ e.ready = IF d.ready = "pending" THEN "rejected" ELSE d.ready
           /\ e.gate = RejectGate(d.gate)
  <1> DEFINE e == FailClient(d)
  <1>1. PICK th \in [Slots -> Seq(ThreadStates)] :
            Terminate(d, Slots) = [d EXCEPT !.thread = th]
    BY TerminateIs
  <1>2. /\ Quieter(d, Terminate(d, Slots)) /\ Terminate(d, Slots).thread = th
        /\ \A i \in Slots : \A n \in 1 .. Len(d.thread[i]) :
              n = d.pool[i] => Terminate(d, Slots).thread[i][n] = "dead"
    <2>1. [d EXCEPT !.thread = th].thread = th
      BY DEF Clients
    <2>2. Slots \in SUBSET Slots
      OBVIOUS
    <2> QED
      BY <1>1, <2>1, <2>2, TerminateIs
  <1>3. Released(d.conn) \in LockStates
    BY DEF Released, LockStates, Clients
  <1>4. RejectGate(d.gate) \in Gates
    BY DEF RejectGate, Gates, GateStates, Clients
  <1> DEFINE rd == IF d.ready = "pending" THEN "rejected" ELSE d.ready
  <1>5. rd \in {"pending", "resolved", "rejected"}
    BY DEF Clients
  <1> DEFINE t == [d EXCEPT !.thread = th]
  <1>0. t.conn = d.conn /\ t.ready = d.ready /\ t.gate = d.gate
    BY DEF Clients
  <1>10. e = [t EXCEPT !.fatal = TRUE, !.probed = TRUE, !.conn = Released(t.conn),
                       !.ready = IF t.ready = "pending" THEN "rejected" ELSE t.ready,
                       !.gate = RejectGate(t.gate)]
    <2>1. Terminate(d, Slots) = t /\ t \in Clients
      BY <1>1 DEF Clients
    <2> HIDE DEF t
    <2> QED
      BY <2>1 DEF FailClient, Clients
  <1>6. e = [d EXCEPT !.thread = th, !.fatal = TRUE, !.probed = TRUE,
                      !.conn = Released(d.conn), !.ready = rd, !.gate = RejectGate(d.gate)]
    BY <1>0, <1>10 DEF Clients
  <1> HIDE DEF rd
  <1>7. /\ e \in Clients /\ e.env = d.env /\ e.size = d.size
        /\ e.thread = th
        /\ e.pool = d.pool /\ e.sup = d.sup /\ e.losses = d.losses
        /\ e.inStartup = d.inStartup /\ e.reported = d.reported
        /\ e.fatal = TRUE /\ e.probed = TRUE
        /\ e.conn = Released(d.conn) /\ e.ready = rd /\ e.gate = RejectGate(d.gate)
    BY <1>3, <1>4, <1>5, <1>6, ZenonT(60) DEF Clients
  <1> HIDE DEF e
  <1>8. Quieter(d, e)
    BY <1>2, <1>7 DEF Quieter
  <1> QED
    BY <1>2, <1>7, <1>8 DEF SameFate, rd, e

-----------------------------------------------------------------------------
(* failClient() and the gate's callbacks keep the invariant.                *)

(* Deaths leave the pool's workers the latest ones.                         *)
LEMMA LatestQuieter ==
    ASSUME NEW d, NEW e, NEW k, Latest(d, k), Quieter(d, e),
           \A i \in Slots : e.pool[i] = d.pool[i] \/ (e.pool[i] = 0 /\ ~LiveIn(e, i))
    PROVE  Latest(e, k)
  BY DEF Latest, Quieter, Alive, LiveIn

(* A client that was sound, or that has just been told that nothing opened, *)
(* is sound once it failed.                                                 *)
LEMMA FailClientKeeps ==
    ASSUME NEW d \in Clients, NEW k, NEW z, NEW T,
           Latest(d, k), Counted(d, k), Announced(d), Told(d, z), Locking(d),
           d.gate.state = "closed" => k,
           d.gate.state = "open" =>
               /\ ~d.inStartup /\ d.gate.settled = Slots
               /\ \A i \in Slots : LiveIn(d, i) => d.sup[i].everReady,
           d.gate.state = "rejected" /\ ~d.inStartup => k \/ ~Undead(d),
           d.inStartup => d.ready # "resolved" /\ \A i \in Slots : d.reported[i] = 0,
           T # {} => /\ d.gate.state = "open" /\ d.probed /\ d.ready = "resolved"
                     /\ d.conn \notin {"undecided", "asked"}
                     /\ \A i \in Slots : ~d.sup[i].alive
    PROVE  Sound(FailClient(d), k, z, T)
  <1> DEFINE e == FailClient(d)
  <1>1. /\ e \in Clients /\ SameFate(d, e) /\ Quieter(d, e)
        /\ \A i \in Slots : \A n \in 1 .. Len(d.thread[i]) :
              n = d.pool[i] => e.thread[i][n] = "dead"
        /\ e.pool = d.pool /\ e.sup = d.sup /\ e.losses = d.losses
        /\ e.inStartup = d.inStartup /\ e.reported = d.reported
        /\ e.fatal = TRUE /\ e.probed = TRUE
        /\ e.conn = Released(d.conn)
        /\ e.ready = IF d.ready = "pending" THEN "rejected" ELSE d.ready
        /\ e.gate = RejectGate(d.gate)
    BY FailClientIs
  <1>2. /\ e.gate.settled = d.gate.settled /\ e.gate.declined = d.gate.declined
        /\ e.gate.state = IF d.gate.state = "closed" THEN "rejected" ELSE d.gate.state
        /\ e.gate.state \in {"open", "rejected"}
    BY <1>1 DEF RejectGate, Clients, Gates, GateStates
  <1>3. e.conn # "asked" => e.conn = d.conn \/ d.conn # "undecided"
    BY <1>1 DEF Released
  <1>4. e.env = d.env
    BY <1>1 DEF SameFate
  <1> HIDE DEF e
  <1>5. k => \A i \in Slots : ~LiveIn(e, i)
    <2> SUFFICES ASSUME k, NEW i \in Slots, NEW n \in 1 .. Len(d.thread[i]),
                        e.thread[i][n] \in Alive
                 PROVE  FALSE
      BY <1>1 DEF LiveIn, Quieter
    <2>1. d.thread[i][n] \in Alive
      BY <1>1 DEF Quieter, Alive
    <2>2. n = d.pool[i]
      BY <2>1 DEF Latest
    <2> QED
      BY <1>1, <2>2 DEF Alive
  <1>6. \A i \in Slots : LiveIn(e, i) => LiveIn(d, i)
    BY <1>1, QuieterLives
  <1>7. Latest(e, k)
    BY <1>1, LatestQuieter
  <1>8. Counted(e, k)
    BY <1>1, <1>4, <1>6 DEF Counted
  <1>9. Gated(e, z)
    <2>1. e.gate.state = "rejected" /\ ~e.inStartup => ~Undead(e)
      BY <1>1, <1>2, <1>5, <1>6 DEF Undead
    <2> QED
      BY <1>1, <1>2, <1>6, <2>1 DEF Gated
  <1>10. Starting(e)
    BY <1>2 DEF Starting
  <1>11. Failing(e, k, T)
    BY <1>1, <1>2, <1>5 DEF Failing, Undead, Released
  <1>12. Announced(e)
    BY <1>1, <1>2 DEF Announced
  <1>13. Told(e, z)
    BY <1>1, <1>2 DEF Told
  <1>14. Manned(e, z)
    BY <1>1 DEF Manned
  <1>15. Locking(e)
    <2>1. /\ e.conn = "undecided" => d.conn = "undecided"
          /\ e.conn = "asked" => d.conn = "asked"
      BY <1>1 DEF Released
    <2>2. \A i \in Slots : Len(e.thread[i]) = Len(d.thread[i])
      BY <1>1 DEF Quieter
    <2> QED
      BY <1>1, <1>2, <1>4, <2>1, <2>2 DEF Locking
  <1>16. e \in Clients
    BY <1>1
  <1> QED
    BY <1>7, <1>8, <1>9, <1>10, <1>11, <1>12, <1>13, <1>14, <1>15, <1>16 DEF Sound, e

(* StartupOver(), and what announces the losses of a startup that failed.   *)
LEMMA StartupOverIs ==
    ASSUME NEW d \in Clients
    PROVE  LET e == StartupOver(d) IN
           /\ e \in Clients /\ SameFate(d, e)
           /\ e.thread = d.thread /\ e.pool = d.pool /\ e.gate = d.gate
           /\ e.conn = d.conn /\ e.probed = d.probed /\ e.fatal = d.fatal
           /\ e.ready = d.ready /\ e.inStartup = FALSE /\ e.losses = {}
           /\ \A i \in Slots :
                 /\ e.reported[i] = IF i \in d.losses THEN d.reported[i] + 1 ELSE d.reported[i]
                 /\ e.sup[i] = IF i \in d.losses THEN Lost(d.sup[i]) ELSE d.sup[i]
  <1> DEFINE e == StartupOver(d)
  <1>1. d.losses \in SUBSET Slots
    BY DEF Clients
  <1>2. PICK r \in [Slots -> Nat] :
            /\ EmitWorkerLost(d, d.losses) = [d EXCEPT !.reported = r]
            /\ \A i \in Slots : r[i] = IF i \in d.losses THEN d.reported[i] + 1 ELSE d.reported[i]
    <2> HIDE DEF Clients
    <2>1. \A I \in SUBSET Slots :
             \E r \in [Slots -> Nat] :
                /\ EmitWorkerLost(d, I) = [d EXCEPT !.reported = r]
                /\ \A i \in Slots : r[i] = IF i \in I THEN d.reported[i] + 1 ELSE d.reported[i]
      BY EmitIs
    <2> QED
      BY <1>1, <2>1
  <1> DEFINE t == [d EXCEPT !.reported = r]
             row(i) == IF i \in d.losses THEN Lost(d.sup[i]) ELSE d.sup[i]
             sup == [i \in Slots |-> row(i)]
  <1>3. t \in Clients /\ t.sup = d.sup
    BY DEF Clients
  <1>4. sup \in [Slots -> SlotRecords]
    <2>1. ASSUME NEW i \in Slots PROVE row(i) \in SlotRecords
      <3>1. d.sup[i] \in SlotRecords
        BY DEF Clients
      <3> QED
        BY <3>1 DEF Lost, SlotRecords
    <2> QED
      BY <2>1
  <1>5. e = [t EXCEPT !.inStartup = FALSE, !.losses = {}, !.sup = sup]
    <2>1. sup = [i \in Slots |-> IF i \in d.losses THEN Lost(t.sup[i]) ELSE t.sup[i]]
      BY <1>3
    <2> HIDE DEF sup, row
    <2>2. EmitWorkerLost(d, d.losses) = t
      BY <1>2
    <2> HIDE DEF t
    <2> QED
      BY <1>3, <2>1, <2>2 DEF StartupOver, Clients
  <1>6. \A i \in Slots : sup[i] = row(i)
    OBVIOUS
  <1> HIDE DEF sup
  <1>7. /\ e \in Clients /\ e.env = d.env /\ e.size = d.size
        /\ e.thread = d.thread /\ e.pool = d.pool /\ e.gate = d.gate
        /\ e.conn = d.conn /\ e.probed = d.probed /\ e.fatal = d.fatal
        /\ e.ready = d.ready /\ e.inStartup = FALSE /\ e.losses = {}
        /\ e.reported = r /\ e.sup = sup
    BY <1>4, <1>5, ZenonT(60) DEF Clients
  <1> QED
    BY <1>2, <1>6, <1>7 DEF SameFate, e

(* What no callback of the gate undoes.                                     *)
Onward(d, e) ==
    /\ SameFate(d, e)
    /\ \A i \in Slots : /\ Len(e.thread[i]) >= Len(d.thread[i])
                        /\ d.sup[i].lost => e.sup[i].lost
                        /\ e.sup[i].restarts = d.sup[i].restarts

(* readyDeferred.resolve(), where startup is over.                          *)
LEMMA ResolvedKeeps ==
    ASSUME NEW d \in Clients, NEW k, NEW z, NEW T,
           Sound(d, k, z, T), ~d.inStartup
    PROVE  Sound(Resolved(d), k, z, T) /\ Onward(d, Resolved(d))
  <1> DEFINE rd == IF d.ready = "pending" /\ ~d.env.setup THEN "resolved" ELSE d.ready
             e == Resolved(d)
  <1>1. /\ e \in Clients /\ e.env = d.env /\ e.size = d.size
        /\ e.thread = d.thread /\ e.pool = d.pool /\ e.sup = d.sup
        /\ e.losses = d.losses /\ e.reported = d.reported
        /\ e.inStartup = d.inStartup /\ e.gate = d.gate /\ e.conn = d.conn
        /\ e.probed = d.probed /\ e.fatal = d.fatal
        /\ d.ready = "resolved" => e.ready = "resolved"
    <2>1. rd \in {"pending", "resolved", "rejected"}
      BY DEF Clients
    <2>2. e = [d EXCEPT !.ready = rd]
      BY DEF Resolved, Clients
    <2>3. d.ready = "resolved" => rd = "resolved"
      OBVIOUS
    <2> HIDE DEF rd, e
    <2> QED
      BY <2>1, <2>2, <2>3 DEF Clients
  <1> HIDE DEF e
  <1>2. \A i \in Slots : LiveIn(e, i) <=> LiveIn(d, i)
    BY <1>1 DEF LiveIn
  <1>3. Latest(e, k) /\ Counted(e, k)
    BY <1>1, <1>2 DEF Sound, Latest, Counted
  <1>4. Starting(e)
    BY <1>1, <1>2 DEF Sound, Starting
  <1>7. Gated(e, z)
    <2>1. Gated(d, z) /\ (Undead(e) <=> Undead(d))
      BY <1>2 DEF Sound, Undead
    <2>2. /\ e.gate = d.gate /\ e.inStartup = d.inStartup /\ e.fatal = d.fatal
          /\ e.sup = d.sup /\ ~e.inStartup
      BY <1>1
    <2>3. /\ e.gate.state = "closed" => e.inStartup /\ ~e.fatal /\ ~z
          /\ e.gate.state = "open" => ~e.inStartup /\ e.gate.settled = Slots
          /\ e.gate.state = "rejected" /\ ~e.inStartup => e.fatal /\ ~Undead(e)
      BY <2>1, <2>2 DEF Gated
    <2>4. e.gate.state # "rejected" =>
             \A i \in e.gate.settled : LiveIn(e, i) => e.sup[i].everReady
      <3>1. e.gate.settled \subseteq Slots
        BY <2>2 DEF Clients, Gates
      <3> QED
        BY <1>2, <2>1, <2>2, <3>1 DEF Gated
    <2> QED
      BY <2>2, <2>3, <2>4 DEF Gated
  <1>5. Failing(e, k, T) /\ Announced(e) /\ Told(e, z) /\ Manned(e, z) /\ Locking(e)
    BY <1>1, <1>2 DEF Sound, Failing, Announced, Told, Manned, Locking, Undead
  <1>6. \A i \in Slots : Len(e.thread[i]) >= Len(d.thread[i])
    BY <1>1, ThreadsAre
  <1> QED
    BY <1>1, <1>3, <1>4, <1>5, <1>6, <1>7 DEF Sound, Onward, SameFate, e

(* Every slot settled, the gate opens: startup is over, its losses are      *)
(* announced, and the client fails if that leaves it without a worker.      *)
LEMMA OnGateOpenKeeps ==
    ASSUME NEW d \in Clients, Sound(d, TRUE, FALSE, {}),
           d.gate.state = "closed", d.gate.settled = Slots,
           NEW g \in Gates, g.state = "open", g.settled = Slots,
           g.declined = d.gate.declined
    PROVE  LET e == OnGateOpen([d EXCEPT !.gate = g]) IN
           Sound(e, TRUE, FALSE, {}) /\ Onward(d, e)
  <1> DEFINE o == [d EXCEPT !.gate = g]
             s == StartupOver(o)
  <1>1. /\ o \in Clients /\ o.env = d.env /\ o.size = d.size
        /\ o.thread = d.thread /\ o.pool = d.pool /\ o.sup = d.sup
        /\ o.losses = d.losses /\ o.reported = d.reported /\ o.ready = d.ready
        /\ o.inStartup = d.inStartup /\ o.gate = g /\ o.conn = d.conn
        /\ o.probed = d.probed /\ o.fatal = d.fatal
    BY DEF Clients
  <1> HIDE DEF o
  <1>2. /\ s \in Clients /\ SameFate(o, s)
        /\ s.thread = d.thread /\ s.pool = d.pool /\ s.gate = g
        /\ s.conn = d.conn /\ s.probed = d.probed /\ s.fatal = d.fatal
        /\ s.ready = d.ready /\ s.inStartup = FALSE /\ s.losses = {}
        /\ \A i \in Slots :
              /\ s.reported[i] = IF i \in d.losses THEN d.reported[i] + 1 ELSE d.reported[i]
              /\ s.sup[i] = IF i \in d.losses THEN Lost(d.sup[i]) ELSE d.sup[i]
    <2>1. /\ s \in Clients /\ SameFate(o, s)
          /\ s.thread = o.thread /\ s.pool = o.pool /\ s.gate = o.gate
          /\ s.conn = o.conn /\ s.probed = o.probed /\ s.fatal = o.fatal
          /\ s.ready = o.ready /\ s.inStartup = FALSE /\ s.losses = {}
          /\ \A i \in Slots :
                /\ s.reported[i] = IF i \in o.losses THEN o.reported[i] + 1 ELSE o.reported[i]
                /\ s.sup[i] = IF i \in o.losses THEN Lost(o.sup[i]) ELSE o.sup[i]
      BY <1>1, StartupOverIs
    <2> HIDE DEF s
    <2> QED
      BY <1>1, <2>1
  <1> HIDE DEF s
  <1>3. \A i \in Slots :
            /\ LiveIn(s, i) <=> LiveIn(d, i)
            /\ s.sup[i].alive <=> d.sup[i].alive /\ i \notin d.losses
            /\ s.sup[i].lost <=> d.sup[i].lost \/ (d.sup[i].alive /\ i \in d.losses)
            /\ s.sup[i].everReady = d.sup[i].everReady
            /\ s.sup[i].restarts = d.sup[i].restarts
            /\ s.reported[i] = IF i \in d.losses THEN 1 ELSE 0
    <2> TAKE i \in Slots
    <2>1. d.sup[i] \in SlotRecords
      BY DEF Clients
    <2>2. d.reported[i] = 0
      BY DEF Sound, Gated
    <2>3. LiveIn(s, i) <=> LiveIn(d, i)
      BY <1>2 DEF LiveIn
    <2>4. s.reported[i] = IF i \in d.losses THEN 1 ELSE 0
      BY <1>2, <2>2
    <2>5. s.sup[i] = IF i \in d.losses THEN Lost(d.sup[i]) ELSE d.sup[i]
      BY <1>2
    <2> DEFINE q == d.sup[i]
               r == s.sup[i]
    <2>6. q \in SlotRecords /\ r = IF i \in d.losses THEN Lost(q) ELSE q
      BY <2>1, <2>5
    <2> HIDE DEF q, r
    <2>7. /\ r.alive <=> q.alive /\ i \notin d.losses
          /\ r.lost <=> q.lost \/ (q.alive /\ i \in d.losses)
          /\ r.everReady = q.everReady /\ r.restarts = q.restarts
      BY <2>6 DEF Lost, SlotRecords
    <2> QED
      BY <2>3, <2>4, <2>7 DEF q, r
  <1>4. \A i \in Slots : i \in d.losses => d.pool[i] = 0 /\ ~LiveIn(d, i)
    <2> SUFFICES ASSUME NEW i \in Slots, i \in d.losses
                 PROVE  d.pool[i] = 0 /\ ~LiveIn(d, i)
      OBVIOUS
    <2>1. d.pool[i] = 0
      BY DEF Sound, Starting
    <2> QED
      BY <2>1 DEF Sound, Latest, LiveIn
  <1>5. \A i \in Slots : Len(d.thread[i]) # 0
    BY DEF Sound, Starting
  <1>6. d.inStartup /\ ~d.fatal
    BY DEF Sound, Gated
  <1>7. Latest(s, TRUE)
    BY <1>2 DEF Sound, Latest
  <1>8. s.env = d.env
    BY <1>1, <1>2 DEF SameFate
  <1>9. Counted(s, TRUE)
    BY <1>3, <1>4, <1>8 DEF Sound, Counted
  <1>10. Announced(s)
    BY <1>3 DEF Announced
  <1>11. Told(s, FALSE)
    <2> SUFFICES ASSUME NEW i \in Slots, s.pool[i] = 0 \/ ~s.sup[i].alive
                 PROVE  i \in d.losses \/ i \in g.declined
      BY <1>2, <1>3 DEF Told
    <2>1. CASE s.pool[i] = 0
      BY <1>2, <1>5, <2>1 DEF Sound, Starting
    <2>2. CASE ~s.sup[i].alive
      BY <1>3, <2>2 DEF Sound, Starting
    <2> QED
      BY <2>1, <2>2
  <1>12. Locking(s)
    <2>1. ~(d.env.connection = "exclusive" /\ d.conn = "asked")
      BY <1>5, SlotsFacts DEF Sound, Locking
    <2> QED
      BY <1>2, <1>8, <2>1 DEF Sound, Locking
  <1>13. \A i \in Slots : LiveIn(s, i) => s.sup[i].everReady
    BY <1>3 DEF Sound, Gated
  <1>14. Onward(d, s)
    <2>1. \A i \in Slots : Len(d.thread[i]) >= Len(d.thread[i])
      BY ThreadsAre
    <2> QED
      BY <1>1, <1>2, <1>3, <2>1 DEF Onward, SameFate
  <1>15. ASSUME ~StartupFailed(o, s)
         PROVE  Sound(s, TRUE, FALSE, {})
    <2>1. Gated(s, FALSE)
      BY <1>2, <1>13 DEF Gated
    <2>2. Starting(s) /\ Failing(s, TRUE, {})
      BY <1>2, <1>6 DEF Starting, Failing
    <2>3. Manned(s, FALSE)
      <3>1. 0 \in Slots /\ o.sup[0].alive
        BY <1>1, SlotsFacts DEF Sound, Starting
      <3>2. Live(o.sup) # {}
        BY <3>1 DEF Live
      <3>3. Live(s.sup) # {}
        BY <1>15, <3>2 DEF StartupFailed
      <3>4. \E i \in Slots : s.sup[i].alive
        BY <3>3 DEF Live
      <3>5. \A i \in Slots : s.sup[i].alive => LiveIn(s, i)
        BY <1>3, <1>5 DEF Sound, Starting
      <3> QED
        BY <3>4, <3>5 DEF Manned
    <2> QED
      BY <1>2, <1>7, <1>9, <1>10, <1>11, <1>12, <2>1, <2>2, <2>3 DEF Sound
  <1>16. Sound(FailClient(s), TRUE, FALSE, {}) /\ Onward(d, FailClient(s))
    <2>1. Sound(FailClient(s), TRUE, FALSE, {})
      BY <1>2, <1>7, <1>9, <1>10, <1>11, <1>12, <1>13, FailClientKeeps
    <2> DEFINE f == FailClient(s)
    <2>2. SameFate(s, f) /\ Quieter(s, f) /\ f.sup = s.sup
      BY <1>2, FailClientIs
    <2> HIDE DEF f
    <2>3. Onward(d, f)
      BY <1>14, <2>2 DEF Onward, SameFate, Quieter
    <2> QED
      BY <2>1, <2>3 DEF f
  <1> DEFINE v == IF StartupFailed(o, s) THEN FailClient(s) ELSE s
  <1>17. Sound(v, TRUE, FALSE, {}) /\ Onward(d, v) /\ ~v.inStartup
    <2>1. FailClient(s).inStartup = s.inStartup
      BY <1>2, FailClientIs
    <2> QED
      BY <1>2, <1>14, <1>15, <1>16, <2>1
  <1>18. OnGateOpen(o) = Resolved(v)
    BY DEF OnGateOpen, s
  <1> HIDE DEF v
  <1>19. Sound(Resolved(v), TRUE, FALSE, {}) /\ Onward(v, Resolved(v))
    BY <1>17, ResolvedKeeps DEF Sound
  <1>20. Onward(d, Resolved(v))
    <2>1. \A i \in Slots : /\ Len(d.thread[i]) \in Nat /\ Len(v.thread[i]) \in Nat
                           /\ Len(Resolved(v).thread[i]) \in Nat
      BY <1>17, <1>19, ThreadsAre DEF Sound
    <2> DEFINE r == Resolved(v)
    <2>2. Onward(v, r)
      BY <1>19
    <2> HIDE DEF r
    <2> QED
      BY <1>17, <2>1, <2>2 DEF Onward, SameFate, r
  <1> QED
    BY <1>18, <1>19, <1>20 DEF o

(* Nothing opened in the first round: the losses are announced and the      *)
(* client fails.                                                            *)
LEMMA FailStartupKeeps ==
    ASSUME NEW d \in Clients, Sound(d, TRUE, FALSE, {}),
           d.gate.state = "closed", d.gate.settled = Slots,
           NEW g \in Gates, g.state = "rejected", g.settled = Slots,
           g.declined = d.gate.declined
    PROVE  LET e == FailStartup([d EXCEPT !.gate = g]) IN
           Sound(e, TRUE, FALSE, {}) /\ Onward(d, e)
  <1> DEFINE o == [d EXCEPT !.gate = g]
             s == [EmitWorkerLost(o, o.losses) EXCEPT !.inStartup = FALSE, !.losses = {}]
  <1>1. /\ o \in Clients /\ o.env = d.env /\ o.size = d.size
        /\ o.thread = d.thread /\ o.pool = d.pool /\ o.sup = d.sup
        /\ o.losses = d.losses /\ o.reported = d.reported /\ o.ready = d.ready
        /\ o.inStartup = d.inStartup /\ o.gate = g /\ o.conn = d.conn
        /\ o.probed = d.probed /\ o.fatal = d.fatal
    BY DEF Clients
  <1>2. FailStartup(o) = FailClient(s)
    BY DEF FailStartup
  <1> HIDE DEF o
  <1>3. o.losses \in SUBSET Slots
    BY <1>1 DEF Clients
  <1>4. PICK r \in [Slots -> Nat] :
            /\ EmitWorkerLost(o, o.losses) = [o EXCEPT !.reported = r]
            /\ \A i \in Slots : r[i] = IF i \in o.losses THEN o.reported[i] + 1 ELSE o.reported[i]
    <2>1. \A I \in SUBSET Slots :
             \E r \in [Slots -> Nat] :
                /\ EmitWorkerLost(o, I) = [o EXCEPT !.reported = r]
                /\ \A i \in Slots : r[i] = IF i \in I THEN o.reported[i] + 1 ELSE o.reported[i]
      BY <1>1, EmitIs
    <2> QED
      BY <1>3, <2>1
  <1>5. /\ s \in Clients /\ s.env = o.env /\ s.size = o.size
        /\ s.thread = o.thread /\ s.pool = o.pool /\ s.sup = o.sup
        /\ s.losses = {} /\ s.reported = r /\ s.ready = o.ready
        /\ s.inStartup = FALSE /\ s.gate = o.gate /\ s.conn = o.conn
        /\ s.probed = o.probed /\ s.fatal = o.fatal
    BY <1>1, <1>4 DEF Clients
  <1> HIDE DEF s
  <1>6. \A i \in Slots : s.reported[i] = IF i \in d.losses THEN 1 ELSE 0
    <2> TAKE i \in Slots
    <2>1. d.reported[i] = 0
      BY DEF Sound, Gated
    <2> QED
      BY <1>1, <1>4, <1>5, <2>1
  <1>7. \A i \in Slots : LiveIn(s, i) <=> LiveIn(d, i)
    BY <1>1, <1>5 DEF LiveIn
  <1>8. \A i \in Slots : Len(d.thread[i]) # 0
    BY DEF Sound, Starting
  <1>9. Latest(s, TRUE) /\ Counted(s, TRUE)
    BY <1>1, <1>5, <1>7 DEF Sound, Latest, Counted
  <1>10. Announced(s)
    BY <1>1, <1>5, <1>6 DEF Announced
  <1>11. Told(s, FALSE)
    <2> SUFFICES ASSUME NEW i \in Slots, d.pool[i] = 0 \/ ~d.sup[i].alive
                 PROVE  i \in d.losses \/ i \in d.gate.declined
      BY <1>1, <1>5, <1>6 DEF Told
    <2> QED
      BY <1>8 DEF Sound, Starting
  <1>12. Locking(s)
    <2>1. ~(d.env.connection = "exclusive" /\ d.conn = "asked")
      BY <1>8, SlotsFacts DEF Sound, Locking
    <2> QED
      BY <1>1, <1>5, <2>1 DEF Sound, Locking
  <1>13. Sound(FailClient(s), TRUE, FALSE, {})
    BY <1>1, <1>5, <1>9, <1>10, <1>11, <1>12, FailClientKeeps
  <1> DEFINE f == FailClient(s)
  <1>14. SameFate(s, f) /\ Quieter(s, f) /\ f.sup = s.sup
    BY <1>5, FailClientIs
  <1> HIDE DEF f
  <1>15. \A i \in Slots : Len(d.thread[i]) >= Len(d.thread[i])
    BY ThreadsAre
  <1>16. Onward(d, f)
    BY <1>1, <1>5, <1>14, <1>15 DEF Onward, SameFate, Quieter
  <1> QED
    BY <1>2, <1>13, <1>16 DEF o, f

(* Some opened: what failed is re-armed and spawned once more, the losses   *)
(* waiting for the second verdict.                                          *)
LEMMA RearmKeeps ==
    ASSUME NEW d \in Clients, Sound(d, TRUE, FALSE, {}),
           d.gate.state = "closed", d.gate.settled = Slots,
           NEW g \in Gates, g.state = "closed", g.opened = d.gate.opened,
           g.declined = d.gate.declined, g.settled = Slots \ Failed(d.gate)
    PROVE  LET e == Spawn([d EXCEPT !.gate = g], Failed(d.gate)) IN
           Sound(e, TRUE, FALSE, {}) /\ Onward(d, e)
  <1> DEFINE o == [d EXCEPT !.gate = g]
             I == Failed(d.gate)
             e == Spawn(o, I)
  <1>1. /\ o \in Clients /\ o.env = d.env /\ o.size = d.size
        /\ o.thread = d.thread /\ o.pool = d.pool /\ o.sup = d.sup
        /\ o.losses = d.losses /\ o.reported = d.reported /\ o.ready = d.ready
        /\ o.inStartup = d.inStartup /\ o.gate = g /\ o.conn = d.conn
        /\ o.probed = d.probed /\ o.fatal = d.fatal
    BY DEF Clients
  <1> HIDE DEF o
  <1>2. I \in SUBSET Slots
    BY DEF Clients, Gates, Failed
  <1>3. \A i \in I : i \in d.losses /\ i \notin g.declined /\ i \notin g.settled
    <2>1. \A i \in Slots : i \in Failed(d.gate) => i \in d.losses
      BY DEF Sound, Starting
    <2>2. \A i \in I : i \notin g.declined /\ i \notin g.settled
      BY DEF Failed
    <2> QED
      BY <1>2, <2>1, <2>2
  <1> HIDE DEF I
  <1>4. /\ e \in Clients /\ SameFate(o, e)
        /\ e.gate = o.gate /\ e.inStartup = o.inStartup /\ e.losses = o.losses
        /\ e.reported = o.reported /\ e.conn = o.conn /\ e.probed = o.probed
        /\ e.fatal = o.fatal /\ e.ready = o.ready
        /\ \A i \in Slots \ I :
              e.thread[i] = o.thread[i] /\ e.pool[i] = o.pool[i] /\ e.sup[i] = o.sup[i]
        /\ \A i \in I :
              /\ Len(e.thread[i]) = Len(o.thread[i]) + 1
              /\ e.pool[i] = Len(e.thread[i])
              /\ \A n \in 1 .. Len(o.thread[i]) : e.thread[i][n] = o.thread[i][n]
              /\ e.thread[i][Len(e.thread[i])] = FirstState(o, i)
              /\ e.sup[i].alive <=> o.sup[i].alive \/ ~o.sup[i].lost
              /\ e.sup[i].lost = o.sup[i].lost
              /\ e.sup[i].everReady = o.sup[i].everReady
              /\ e.sup[i].restarts = o.sup[i].restarts
    BY <1>1, <1>2, SpawnIs
  <1>5. \A i \in Slots : /\ LiveIn(e, i) <=> i \in I \/ LiveIn(o, i)
                         /\ Len(e.thread[i]) = Len(o.thread[i]) + (IF i \in I THEN 1 ELSE 0)
    BY <1>1, <1>2, SpawnLives, ZenonT(60)
  <1> HIDE DEF e
  <1>6. \A i \in Slots : LiveIn(o, i) <=> LiveIn(d, i)
    BY <1>1 DEF LiveIn
  <1>7. \A i \in I : d.pool[i] = 0 /\ ~LiveIn(d, i) /\ i \in Slots
    <2> SUFFICES ASSUME NEW i \in I PROVE d.pool[i] = 0 /\ ~LiveIn(d, i) /\ i \in Slots
      OBVIOUS
    <2>1. i \in Slots /\ d.pool[i] = 0
      BY <1>2, <1>3 DEF Sound, Starting
    <2> QED
      BY <2>1 DEF Sound, Latest, LiveIn
  <1>8. \A i \in Slots : /\ e.sup[i].alive <=> d.sup[i].alive
                         /\ e.sup[i].lost = d.sup[i].lost
                         /\ e.sup[i].everReady = d.sup[i].everReady
                         /\ e.sup[i].restarts = d.sup[i].restarts
    BY <1>1, <1>2, <1>4 DEF Sound, Counted
  <1>9. e.env = d.env /\ e.gate = g /\ e.losses = d.losses
    BY <1>1, <1>4 DEF SameFate
  <1>10. Latest(e, TRUE)
    <2> SUFFICES ASSUME NEW i \in Slots
                 PROVE  /\ e.pool[i] \in {0, Len(e.thread[i])}
                        /\ \A n \in 1 .. Len(e.thread[i]) :
                              /\ e.thread[i][n] = "probing" => i = 0
                              /\ e.thread[i][n] \in Alive
                                    => n = Len(e.thread[i]) /\ n = e.pool[i]
      BY DEF Latest
    <2>1. CASE i \in I
      <3>1. \A n \in 1 .. Len(e.thread[i]) :
                n # Len(e.thread[i]) => n \in 1 .. Len(d.thread[i])
        BY <1>1, <1>4, <2>1, ThreadsAre
      <3>2. \A n \in 1 .. Len(d.thread[i]) :
                e.thread[i][n] = d.thread[i][n] /\ d.thread[i][n] \notin Alive
        BY <1>1, <1>4, <1>7, <2>1 DEF LiveIn
      <3>3. FirstState(o, i) = "probing" => i = 0
        BY DEF FirstState
      <3>4. "probing" \in Alive
        BY DEF Alive, ThreadStates
      <3> QED
        BY <1>4, <2>1, <3>1, <3>2, <3>3, <3>4
    <2>2. CASE i \notin I
      BY <1>1, <1>4, <2>2 DEF Sound, Latest
    <2> QED
      BY <2>1, <2>2
  <1>11. Counted(e, TRUE)
    <2>1. \A i \in I : d.sup[i].alive
      BY <1>2, <1>3 DEF Sound, Starting
    <2> QED
      BY <1>5, <1>6, <1>8, <1>9, <2>1 DEF Sound, Counted
  <1>12. Gated(e, FALSE)
    <2>1. \A i \in g.settled : i \in Slots /\ i \notin I
      BY <1>3 DEF Gates
    <2>2. \A i \in g.settled : LiveIn(d, i) => d.sup[i].everReady
      BY <2>1 DEF Sound, Gated
    <2>3. \A i \in g.settled : LiveIn(e, i) => e.sup[i].everReady
      BY <1>5, <1>6, <1>8, <2>1, <2>2
    <2>4. /\ e.inStartup = d.inStartup /\ e.fatal = d.fatal /\ e.ready = d.ready
          /\ e.reported = d.reported
      BY <1>1, <1>4
    <2> QED
      BY <1>9, <2>3, <2>4 DEF Sound, Gated
  <1>13. Starting(e)
    <2> SUFFICES ASSUME NEW i \in Slots
                 PROVE
            /\ e.sup[i].alive \/ i \in g.declined
            /\ i \in g.declined => i \notin d.losses /\ i # 0 /\ ~e.sup[i].alive
            /\ e.pool[i] = 0 =>
                  Len(e.thread[i]) = 0 \/ i \in d.losses \/ i \in g.declined
            /\ i \in g.settled \/ i \in d.losses => Len(e.thread[i]) # 0
            /\ i \in d.losses /\ i \in g.settled => e.pool[i] = 0
            /\ i \in Failed(g) => i \in d.losses
            /\ e.sup[i].alive /\ i \notin d.losses /\ Len(e.thread[i]) # 0 => LiveIn(e, i)
      BY <1>9 DEF Starting
    <2>1. Failed(g) = {}
      BY <1>2 DEF Failed, Gates, I
    <2>2. Len(d.thread[i]) \in Nat
      BY ThreadsAre
    <2>3. /\ d.sup[i].alive \/ i \in g.declined
          /\ i \in g.declined => i \notin d.losses /\ i # 0 /\ ~d.sup[i].alive
          /\ Len(d.thread[i]) # 0
          /\ i \in d.losses => d.pool[i] = 0
          /\ d.pool[i] = 0 => i \in d.losses \/ i \in g.declined
          /\ d.sup[i].alive /\ i \notin d.losses => LiveIn(d, i)
      BY DEF Sound, Starting
    <2>4. CASE i \in I
      <3>1. Len(e.thread[i]) # 0
        BY <1>1, <1>4, <2>2, <2>4
      <3> QED
        BY <1>3, <1>8, <2>1, <2>3, <2>4, <3>1
    <2>5. CASE i \notin I
      <3>1. e.thread[i] = d.thread[i] /\ e.pool[i] = d.pool[i]
        BY <1>1, <1>4, <2>5
      <3> QED
        BY <1>5, <1>6, <1>8, <2>1, <2>3, <2>5, <3>1
    <2> QED
      BY <2>4, <2>5
  <1>14. Failing(e, TRUE, {}) /\ Manned(e, FALSE)
    BY <1>1, <1>4, <1>9 DEF Sound, Gated, Failing, Manned
  <1>15. Announced(e) /\ Told(e, FALSE)
    BY <1>1, <1>4, <1>8, <1>9 DEF Sound, Gated, Announced, Told
  <1>16. Locking(e)
    <2>1. ~(d.env.connection = "exclusive" /\ d.conn = "asked")
      BY SlotsFacts DEF Sound, Locking
    <2> QED
      BY <1>1, <1>4, <1>9, <2>1 DEF Sound, Locking
  <1>17. Onward(d, e)
    <2>1. \A i \in Slots : Len(e.thread[i]) >= Len(d.thread[i])
      <3> TAKE i \in Slots
      <3>1. Len(d.thread[i]) \in Nat
        BY ThreadsAre
      <3>2. i \in I => Len(e.thread[i]) = Len(d.thread[i]) + 1
        BY <1>1, <1>4
      <3>3. i \notin I => Len(e.thread[i]) = Len(d.thread[i])
        BY <1>1, <1>4
      <3> QED
        BY <3>1, <3>2, <3>3
    <2> QED
      BY <1>1, <1>4, <1>8, <2>1 DEF Onward, SameFate
  <1> QED
    BY <1>4, <1>10, <1>11, <1>12, <1>13, <1>14, <1>15, <1>16, <1>17 DEF Sound, e, o, I

(* The invariant speaks of k, z and T only by what they imply.              *)
LEMMA SoundFor ==
    ASSUME NEW d, NEW k, NEW z, NEW T, NEW l, NEW y, NEW U, Sound(d, k, z, T),
           k <=> l, z <=> y, U # {} => T # {}
    PROVE  Sound(d, l, y, U)
  BY DEF Sound, Latest, Counted, Gated, Failing, Told, Manned

(* The client with what it settles recorded, before the gate's callbacks.   *)
Marked(d, i, how) ==
    [d EXCEPT !.gate = IF d.gate.state = "closed" /\ i \notin d.gate.settled
                       THEN Recorded(d.gate, i, how) ELSE d.gate]

(* Marking a slot settled changes the gate alone.                           *)
LEMMA MarkedIs ==
    ASSUME NEW d \in Clients, NEW i \in Slots, NEW how
    PROVE  LET e == Marked(d, i, how) IN
           /\ e \in Clients /\ e.env = d.env /\ e.size = d.size
           /\ e.thread = d.thread /\ e.pool = d.pool /\ e.sup = d.sup
           /\ e.losses = d.losses /\ e.reported = d.reported /\ e.ready = d.ready
           /\ e.inStartup = d.inStartup /\ e.conn = d.conn
           /\ e.probed = d.probed /\ e.fatal = d.fatal
           /\ e.gate.state = d.gate.state /\ e.gate.fired = d.gate.fired
           /\ IF d.gate.state = "closed" /\ i \notin d.gate.settled
              THEN /\ e.gate.settled = d.gate.settled \cup {i}
                   /\ e.gate.opened = IF how = "opened" THEN d.gate.opened \cup {i}
                                      ELSE d.gate.opened
                   /\ e.gate.declined = IF how = "declined" THEN d.gate.declined \cup {i}
                                        ELSE d.gate.declined
              ELSE e.gate = d.gate
  <1> DEFINE g == IF d.gate.state = "closed" /\ i \notin d.gate.settled
                  THEN Recorded(d.gate, i, how) ELSE d.gate
  <1>1. /\ g \in Gates /\ g.state = d.gate.state /\ g.fired = d.gate.fired
        /\ IF d.gate.state = "closed" /\ i \notin d.gate.settled
           THEN /\ g.settled = d.gate.settled \cup {i}
                /\ g.opened = IF how = "opened" THEN d.gate.opened \cup {i} ELSE d.gate.opened
                /\ g.declined = IF how = "declined" THEN d.gate.declined \cup {i}
                                ELSE d.gate.declined
           ELSE g = d.gate
    <2>1. d.gate \in Gates
      BY DEF Clients
    <2> QED
      BY <2>1 DEF Recorded, Gates
  <1> HIDE DEF g
  <1>2. [d EXCEPT !.gate = g] \in Clients
    BY <1>1 DEF Clients
  <1>3. /\ [d EXCEPT !.gate = g].env = d.env /\ [d EXCEPT !.gate = g].size = d.size
        /\ [d EXCEPT !.gate = g].thread = d.thread /\ [d EXCEPT !.gate = g].pool = d.pool
        /\ [d EXCEPT !.gate = g].sup = d.sup /\ [d EXCEPT !.gate = g].losses = d.losses
        /\ [d EXCEPT !.gate = g].reported = d.reported
        /\ [d EXCEPT !.gate = g].ready = d.ready
        /\ [d EXCEPT !.gate = g].inStartup = d.inStartup
        /\ [d EXCEPT !.gate = g].conn = d.conn /\ [d EXCEPT !.gate = g].probed = d.probed
        /\ [d EXCEPT !.gate = g].fatal = d.fatal /\ [d EXCEPT !.gate = g].gate = g
    BY DEF Clients
  <1>4. Marked(d, i, how) = [d EXCEPT !.gate = g]
    BY DEF Marked, g
  <1> QED
    BY <1>1, <1>2, <1>3, <1>4

(* A gate that is no longer closed, or a slot settled before, ignores it.   *)
LEMMA SettleNot ==
    ASSUME NEW d \in Clients, NEW i \in Slots, NEW how,
           d.gate.state # "closed" \/ i \in d.gate.settled
    PROVE  Settle(d, i, how) = d
  <1>1. SettleGateSlot(d.gate, i, how) = d.gate
    BY DEF SettleGateSlot
  <1>2. [d EXCEPT !.gate = d.gate] = d
    BY DEF Clients
  <1>3. Rearmed(d.gate, d.gate) = {}
    BY DEF Rearmed
  <1>4. ~(d.gate.fired /\ ~d.gate.fired)
    OBVIOUS
  <1>5. ~(d.gate.state = "closed" /\ d.gate.state = "open")
    OBVIOUS
  <1>6. Settle(d, i, how) = Spawn(d, {})
    BY <1>1, <1>2, <1>3, <1>4, <1>5 DEF Settle
  <1> QED
    BY <1>6, SpawnNone

(* Whatever a slot settles with, and whatever the gate makes of it.         *)
LEMMA SettleKeeps ==
    ASSUME NEW d \in Clients, NEW i \in Slots, NEW how \in {"opened", "declined", "failed"},
           NEW k, NEW z, NEW T, ~k => z, Sound(Marked(d, i, how), k, z, T)
    PROVE  Sound(Settle(d, i, how), k, z, T) /\ Onward(d, Settle(d, i, how))
  <1>1. CASE d.gate.state # "closed" \/ i \in d.gate.settled
    <2>1. Marked(d, i, how) = [d EXCEPT !.gate = d.gate]
      BY <1>1 DEF Marked
    <2>2. Marked(d, i, how) = d
      BY <2>1 DEF Clients
    <2>3. \A j \in Slots : Len(d.thread[j]) >= Len(d.thread[j])
      BY ThreadsAre
    <2>4. Settle(d, i, how) = d
      BY <1>1, SettleNot
    <2>5. Onward(d, d)
      BY <2>3 DEF Onward, SameFate
    <2> QED
      BY <2>2, <2>4, <2>5
  <1>2. CASE d.gate.state = "closed" /\ i \notin d.gate.settled
    <2> DEFINE r == Recorded(d.gate, i, how)
               b == [d EXCEPT !.gate = r]
               g == SettleGateSlot(d.gate, i, how)
               e == [d EXCEPT !.gate = g]
               S == Settle(d, i, how)
    <2>1. Marked(d, i, how) = b
      BY <1>2 DEF Marked
    <2>2. /\ b \in Clients /\ SameFate(d, b) /\ b.thread = d.thread /\ b.sup = d.sup
          /\ b.gate = r /\ r.state = "closed" /\ r.fired = d.gate.fired /\ r \in Gates
      <3>1. b.gate = r
        BY DEF Clients
      <3> HIDE DEF b, r
      <3> DEFINE m == Marked(d, i, how)
      <3>2. /\ m \in Clients /\ m.env = d.env /\ m.size = d.size
            /\ m.thread = d.thread /\ m.sup = d.sup
            /\ m.gate.state = d.gate.state /\ m.gate.fired = d.gate.fired
        BY ZenonT(60), MarkedIs
      <3> HIDE DEF m
      <3>3. b = m
        BY <2>1 DEF m
      <3>4. m.gate \in Gates
        BY <3>2 DEF Clients
      <3> QED
        BY <1>2, <3>1, <3>2, <3>3, <3>4 DEF SameFate
    <2>3. d.gate \in Gates /\ d.gate.fired \in BOOLEAN
      BY DEF Clients, Gates
    <2>4. g = IF r.settled # Slots THEN r
              ELSE IF r.fired THEN [r EXCEPT !.state = "open"] ELSE FirstSettle(r)
      BY <1>2 DEF SettleGateSlot
    <2>5. \A h : [b EXCEPT !.gate = h] = [d EXCEPT !.gate = h]
      BY DEF Clients
    <2>6. Sound(b, TRUE, FALSE, {}) /\ k /\ ~z /\ T = {}
      <3> HIDE DEF b, r
      <3>1. k /\ ~z /\ T = {}
        BY <2>1, <2>2 DEF Sound, Gated, Failing
      <3>2. Sound(b, k, z, T) /\ (k <=> TRUE) /\ (z <=> FALSE) /\ ({} # {} => T # {})
        BY <2>1, <3>1
      <3>3. Sound(b, TRUE, FALSE, {})
        BY <3>2 DEF Sound, Latest, Counted, Gated, Failing, Told, Manned
      <3> QED
        BY <3>1, <3>3
    <2> DEFINE quits == g.fired /\ ~d.gate.fired /\ g.opened = {}
    <2>7. /\ quits /\ g.state # "open" => S = FailStartup(e)
          /\ ~quits /\ g.state = "open" => S = OnGateOpen(e)
          /\ ~quits /\ g.state # "open" => S = Spawn(e, Rearmed(d.gate, g))
      BY <1>2 DEF Settle
    <2> HIDE DEF g, S
    <2>8. CASE r.settled # Slots
      <3>1. g = r
        BY <2>4, <2>8
      <3>2. Rearmed(d.gate, g) = {}
        BY <2>2, <3>1 DEF Rearmed
      <3> HIDE DEF r
      <3>3. S = Spawn(b, {})
        BY <2>2, <2>7, <3>1, <3>2
      <3> HIDE DEF b
      <3>4. S = b
        BY <2>2, <3>3, SpawnNone
      <3>5. \A j \in Slots : Len(d.thread[j]) >= Len(d.thread[j])
        BY ThreadsAre
      <3>6. Onward(d, b)
        BY <2>2, <3>5 DEF Onward
      <3> QED
        BY <2>1, <3>4, <3>6 DEF S
    <2>9. ASSUME r.settled = Slots PROVE Sound(S, TRUE, FALSE, {}) /\ Onward(b, S)
      <3> HIDE DEF r
      <3>1. CASE r.fired
        <4>1. g = [r EXCEPT !.state = "open"]
          BY <2>4, <2>9, <3>1
        <4>2. /\ g \in Gates /\ g.state = "open" /\ g.settled = Slots
              /\ g.declined = b.gate.declined /\ g.fired = d.gate.fired
          BY <2>2, <2>9, <4>1 DEF Gates, GateStates
        <4>3. S = OnGateOpen([b EXCEPT !.gate = g])
          BY <2>2, <2>5, <2>7, <3>1, <4>2
        <4> HIDE DEF b
        <4> QED
          BY <2>2, <2>6, <2>9, <4>2, <4>3, OnGateOpenKeeps
      <3>2. CASE ~r.fired /\ r.opened = {}
        <4>1. g = [r EXCEPT !.fired = TRUE, !.state = "rejected"]
          BY <2>4, <2>9, <3>2 DEF FirstSettle
        <4>2. /\ g \in Gates /\ g.state = "rejected" /\ g.settled = Slots
              /\ g.declined = b.gate.declined /\ g.fired /\ g.opened = {}
          BY <2>2, <2>9, <3>2, <4>1 DEF Gates, GateStates
        <4>3. S = FailStartup([b EXCEPT !.gate = g])
          BY <2>2, <2>5, <2>7, <3>2, <4>2
        <4> HIDE DEF b
        <4> QED
          BY <2>2, <2>6, <2>9, <4>2, <4>3, FailStartupKeeps
      <3>3. CASE ~r.fired /\ r.opened # {} /\ Failed(r) = {}
        <4>1. g = [r EXCEPT !.fired = TRUE, !.settled = r.settled \ {}, !.state = "open"]
          BY <2>4, <2>9, <3>3 DEF FirstSettle
        <4>2. /\ g \in Gates /\ g.state = "open" /\ g.settled = Slots
              /\ g.declined = b.gate.declined /\ g.opened # {}
          BY <2>2, <2>9, <3>3, <4>1 DEF Gates, GateStates
        <4>3. S = OnGateOpen([b EXCEPT !.gate = g])
          BY <2>5, <2>7, <4>2
        <4> HIDE DEF b
        <4> QED
          BY <2>2, <2>6, <2>9, <4>2, <4>3, OnGateOpenKeeps
      <3>4. CASE ~r.fired /\ r.opened # {} /\ Failed(r) # {}
        <4>1. g = [r EXCEPT !.fired = TRUE, !.settled = r.settled \ Failed(r),
                            !.state = "closed"]
          BY <2>4, <2>9, <3>4 DEF FirstSettle
        <4>2. Failed(r) \subseteq Slots
          BY <2>2 DEF Failed, Gates
        <4>3. /\ g \in Gates /\ g.state = "closed" /\ g.settled = Slots \ Failed(r)
              /\ g.declined = r.declined /\ g.opened = r.opened /\ g.fired
          BY <2>2, <2>9, <4>1 DEF Gates, GateStates
        <4>4. Rearmed(d.gate, g) = Failed(r)
          BY <2>2, <3>4, <4>2, <4>3 DEF Rearmed
        <4>5. S = Spawn([b EXCEPT !.gate = g], Failed(b.gate))
          BY <2>2, <2>5, <2>7, <3>4, <4>3, <4>4
        <4>6. /\ g.opened = b.gate.opened /\ g.declined = b.gate.declined
              /\ g.settled = Slots \ Failed(b.gate)
          BY <2>2, <4>3
        <4> HIDE DEF b
        <4> QED
          BY <2>2, <2>6, <2>9, <4>3, <4>5, <4>6, RearmKeeps
      <3> QED
        BY <3>1, <3>2, <3>3, <3>4
    <2>10. CASE r.settled = Slots
      <3> HIDE DEF b, r
      <3>1. Sound(S, k, z, T)
        BY <2>6, <2>9, <2>10, SoundFor
      <3>2. Onward(d, S)
        BY <2>2, <2>9, <2>10 DEF Onward, SameFate
      <3> QED
        BY <3>1, <3>2 DEF S
    <2> QED
      BY <2>8, <2>10
  <1> QED
    BY <1>1, <1>2

-----------------------------------------------------------------------------
(* handleDeath keeps the invariant.                                         *)

(* d is b, but for workers of slot i that died.                             *)
Mourned(b, d, i) ==
    /\ Aside(b, d)
    /\ Quieter(b, d)
    /\ \A j \in Slots \ {i} : d.thread[j] = b.thread[j]

(* The worker of slot i is terminated and taken out of the pool.            *)
Buried(d, i) ==
    [Terminate(d, {i}) EXCEPT
        !.pool[i] = 0,
        !.losses  = IF d.inStartup THEN @ \cup {i} ELSE @]

(* What burying a worker changes, and what it leaves.                       *)
LEMMA BuriedIs ==
    ASSUME NEW d \in Clients, NEW i \in Slots
    PROVE  LET e == Buried(d, i) IN
           /\ e \in Clients /\ e.env = d.env /\ e.size = d.size
           /\ e.sup = d.sup /\ e.reported = d.reported /\ e.ready = d.ready
           /\ e.inStartup = d.inStartup /\ e.gate = d.gate /\ e.conn = d.conn
           /\ e.probed = d.probed /\ e.fatal = d.fatal
           /\ e.losses = IF d.inStartup THEN d.losses \cup {i} ELSE d.losses
           /\ e.pool[i] = 0
           /\ \A j \in Slots \ {i} : e.pool[j] = d.pool[j] /\ e.thread[j] = d.thread[j]
           /\ Quieter(d, e)
           /\ \A n \in 1 .. Len(d.thread[i]) : n = d.pool[i] => e.thread[i][n] = "dead"
  <1> DEFINE t == Terminate(d, {i})
             e == Buried(d, i)
             p == [d.pool EXCEPT ![i] = 0]
             l == IF d.inStartup THEN d.losses \cup {i} ELSE d.losses
  <1>1. {i} \in SUBSET Slots
    OBVIOUS
  <1>2. PICK th \in [Slots -> Seq(ThreadStates)] : t = [d EXCEPT !.thread = th]
    BY <1>1, TerminateIs
  <1>3. /\ Quieter(d, t)
        /\ \A j \in Slots \ {i} : t.thread[j] = d.thread[j]
        /\ \A n \in 1 .. Len(d.thread[i]) : n = d.pool[i] => t.thread[i][n] = "dead"
    BY <1>1, TerminateIs
  <1>4. t.thread = th /\ t.pool = d.pool /\ t.losses = d.losses
    BY <1>2 DEF Clients
  <1>5. e = [t EXCEPT !.pool = p, !.losses = l]
    <2>1. e = [t EXCEPT !.pool = [t.pool EXCEPT ![i] = 0],
                        !.losses = IF d.inStartup THEN t.losses \cup {i} ELSE t.losses]
      <3>1. t \in Clients
        BY <1>1, TerminateIs
      <3> HIDE DEF t, p, l
      <3> QED
        BY <3>1 DEF Buried, t, Clients
    <2> HIDE DEF t, e
    <2> QED
      BY <1>4, <2>1
  <1>6. p \in [Slots -> Nat] /\ l \in SUBSET Slots
    BY DEF Clients
  <1>7. p[i] = 0 /\ \A j \in Slots \ {i} : p[j] = d.pool[j]
    BY DEF Clients
  <1> HIDE DEF t, e, p, l
  <1>8. /\ e \in Clients /\ e.env = d.env /\ e.size = d.size
        /\ e.sup = d.sup /\ e.reported = d.reported /\ e.ready = d.ready
        /\ e.inStartup = d.inStartup /\ e.gate = d.gate /\ e.conn = d.conn
        /\ e.probed = d.probed /\ e.fatal = d.fatal
        /\ e.losses = l /\ e.pool = p /\ e.thread = th
    BY <1>2, <1>5, <1>6 DEF Clients
  <1>9. Quieter(d, e)
    BY <1>3, <1>4, <1>8 DEF Quieter
  <1> QED
    BY <1>3, <1>4, <1>7, <1>8, <1>9 DEF e, l

(* What is left of b once slot i was buried: its other slots are untouched. *)
LEMMA BuriedLives ==
    ASSUME NEW b \in Clients, NEW d \in Clients, NEW i \in Slots, Mourned(b, d, i),
           NEW k, Latest(b, k)
    PROVE  LET e == Buried(d, i) IN
           /\ Latest(e, k)
           /\ \A j \in Slots \ {i} : LiveIn(e, j) <=> LiveIn(b, j)
           /\ LiveIn(e, i) => LiveIn(b, i)
           /\ k => ~LiveIn(e, i)
           /\ \A j \in Slots : Len(e.thread[j]) = Len(b.thread[j])
  <1> DEFINE e == Buried(d, i)
  <1>1. /\ e.pool[i] = 0
        /\ \A j \in Slots \ {i} : e.pool[j] = d.pool[j] /\ e.thread[j] = d.thread[j]
        /\ Quieter(d, e)
        /\ \A n \in 1 .. Len(d.thread[i]) : n = d.pool[i] => e.thread[i][n] = "dead"
    BY BuriedIs
  <1> HIDE DEF e
  <1>2. Quieter(b, e)
    BY <1>1 DEF Quieter, Mourned
  <1>3. \A j \in Slots \ {i} : LiveIn(e, j) <=> LiveIn(b, j)
    BY <1>1 DEF Mourned, Aside, LiveIn
  <1>4. LiveIn(e, i) => LiveIn(b, i)
    BY <1>2, QuieterLives
  <1>5. k => ~LiveIn(e, i)
    <2> SUFFICES ASSUME k, NEW n \in 1 .. Len(e.thread[i]), e.thread[i][n] \in Alive
                 PROVE  FALSE
      BY DEF LiveIn
    <2>1. n \in 1 .. Len(b.thread[i]) /\ n \in 1 .. Len(d.thread[i])
      BY <1>1, <1>2 DEF Quieter
    <2>2. b.thread[i][n] \in Alive
      BY <1>2, <2>1 DEF Quieter, Alive
    <2>3. n = d.pool[i]
      BY <2>1, <2>2 DEF Latest, Mourned, Aside
    <2> QED
      BY <1>1, <2>1, <2>3 DEF Alive
  <1>6. \A j \in Slots : Len(e.thread[j]) = Len(b.thread[j])
    BY <1>2 DEF Quieter
  <1>7. Latest(e, k)
    <2> SUFFICES ASSUME NEW j \in Slots
                 PROVE  /\ e.pool[j] \in {0, Len(e.thread[j])}
                        /\ \A n \in 1 .. Len(e.thread[j]) :
                              /\ e.thread[j][n] = "probing" => j = 0
                              /\ k /\ e.thread[j][n] \in Alive
                                    => n = Len(e.thread[j]) /\ n = e.pool[j]
      BY DEF Latest
    <2>1. CASE j # i
      BY <1>1, <2>1 DEF Latest, Mourned, Aside
    <2>2. CASE j = i
      <3>1. \A n \in 1 .. Len(e.thread[j]) : e.thread[j][n] = "probing" => j = 0
        BY <1>2 DEF Latest, Quieter
      <3>2. \A n \in 1 .. Len(e.thread[j]) : ~(k /\ e.thread[j][n] \in Alive)
        BY <1>5, <2>2 DEF LiveIn
      <3> QED
        BY <1>1, <2>2, <3>1, <3>2
    <2> QED
      BY <2>1, <2>2
  <1> QED
    BY <1>3, <1>4, <1>5, <1>6, <1>7 DEF e

(* What a death may have done to the pool: one restart of the slot at most, *)
(* and past startup only a slot out of restarts is lost.                    *)
Bereaved(b, e, i) ==
    /\ SameFate(b, e)
    /\ \A j \in Slots :
          /\ Len(e.thread[j]) >= Len(b.thread[j])
          /\ b.sup[j].lost => e.sup[j].lost
          /\ e.sup[j].restarts = b.sup[j].restarts
             \/ (j = i /\ e.sup[j].restarts = b.sup[j].restarts + 1)
          /\ ~b.inStartup /\ ~b.sup[j].lost /\ e.sup[j].lost /\ LiveIn(b, i)
                => j = i /\ b.sup[i].restarts >= MaxRestarts

(* During startup a death settles its slot.                                 *)
LEMMA StartupDeathKeeps ==
    ASSUME NEW b \in Clients, NEW d \in Clients, NEW i \in Slots, Mourned(b, d, i),
           NEW k, NEW z, NEW T, ~k => z, Sound(b, k, z, T), LiveIn(b, i) \/ T # {},
           b.inStartup
    PROVE  LET e == Settle(Buried(d, i), i, "failed") IN
           Sound(e, k, z, T) /\ Bereaved(b, e, i)
  <1> DEFINE e == Buried(d, i)
             m == Marked(e, i, "failed")
  <1>1. /\ e \in Clients /\ e.env = b.env /\ e.size = b.size
        /\ e.sup = b.sup /\ e.reported = b.reported /\ e.ready = b.ready
        /\ e.inStartup = b.inStartup /\ e.gate = b.gate /\ e.conn = b.conn
        /\ e.probed = b.probed /\ e.fatal = b.fatal
        /\ e.losses = b.losses \cup {i}
        /\ e.pool[i] = 0
        /\ \A j \in Slots \ {i} : e.pool[j] = b.pool[j]
    <2>1. /\ e \in Clients /\ e.env = d.env /\ e.size = d.size
          /\ e.sup = d.sup /\ e.reported = d.reported /\ e.ready = d.ready
          /\ e.inStartup = d.inStartup /\ e.gate = d.gate /\ e.conn = d.conn
          /\ e.probed = d.probed /\ e.fatal = d.fatal
          /\ e.losses = IF d.inStartup THEN d.losses \cup {i} ELSE d.losses
          /\ e.pool[i] = 0
          /\ \A j \in Slots \ {i} : e.pool[j] = d.pool[j] /\ e.thread[j] = d.thread[j]
          /\ Quieter(d, e)
          /\ \A n \in 1 .. Len(d.thread[i]) : n = d.pool[i] => e.thread[i][n] = "dead"
      BY BuriedIs
    <2> HIDE DEF e
    <2> QED
      BY <2>1 DEF Mourned, Aside
  <1>2. /\ Latest(e, k)
        /\ \A j \in Slots \ {i} : LiveIn(e, j) <=> LiveIn(b, j)
        /\ LiveIn(e, i) => LiveIn(b, i)
        /\ k => ~LiveIn(e, i)
        /\ \A j \in Slots : Len(e.thread[j]) = Len(b.thread[j])
    BY BuriedLives DEF Sound
  <1> HIDE DEF e
  <1>3. T = {} /\ LiveIn(b, i) /\ b.gate.state \in {"closed", "rejected"}
    BY DEF Sound, Gated, Failing, Clients, Gates, GateStates
  <1>4. /\ m \in Clients /\ m.env = e.env /\ m.size = e.size
        /\ m.thread = e.thread /\ m.pool = e.pool /\ m.sup = e.sup
        /\ m.losses = e.losses /\ m.reported = e.reported /\ m.ready = e.ready
        /\ m.inStartup = e.inStartup /\ m.conn = e.conn
        /\ m.probed = e.probed /\ m.fatal = e.fatal
        /\ m.gate.state = e.gate.state
        /\ m.gate.opened = e.gate.opened /\ m.gate.declined = e.gate.declined
        /\ e.gate.state = "closed" => m.gate.settled = e.gate.settled \cup {i}
    <2> HIDE DEF m
    <2> DEFINE M == Marked(e, i, "failed")
    <2>1. /\ M \in Clients /\ M.env = e.env /\ M.size = e.size
          /\ M.thread = e.thread /\ M.pool = e.pool /\ M.sup = e.sup
          /\ M.losses = e.losses /\ M.reported = e.reported /\ M.ready = e.ready
          /\ M.inStartup = e.inStartup /\ M.conn = e.conn
          /\ M.probed = e.probed /\ M.fatal = e.fatal
          /\ M.gate.state = e.gate.state /\ M.gate.fired = e.gate.fired
          /\ IF e.gate.state = "closed" /\ i \notin e.gate.settled
             THEN /\ M.gate.settled = e.gate.settled \cup {i}
                  /\ M.gate.opened = IF "failed" = "opened" THEN e.gate.opened \cup {i}
                                     ELSE e.gate.opened
                  /\ M.gate.declined = IF "failed" = "declined" THEN e.gate.declined \cup {i}
                                       ELSE e.gate.declined
             ELSE M.gate = e.gate
      BY <1>1, MarkedIs
    <2>2. M = m
      BY DEF m
    <2> HIDE DEF M
    <2> QED
      BY <2>1, <2>2
  <1> HIDE DEF m
  <1>5. \A j \in Slots : LiveIn(m, j) <=> LiveIn(e, j)
    BY <1>4 DEF LiveIn
  <1>6. \A j \in Slots : LiveIn(m, j) => LiveIn(b, j)
    BY <1>2, <1>5
  <1>7. Latest(m, k)
    BY <1>2, <1>4 DEF Latest
  <1>8. Counted(m, k)
    BY <1>1, <1>4, <1>6 DEF Sound, Counted
  <1>9. b.gate.state = "closed" => k /\ ~z
    BY DEF Sound, Gated
  <1>10. Gated(m, z)
    <2>1. Undead(m) => Undead(b)
      BY <1>6 DEF Undead
    <2>2. b.gate.state = "closed" =>
            \A j \in m.gate.settled : LiveIn(m, j) => m.sup[j].everReady
      <3> SUFFICES ASSUME b.gate.state = "closed", NEW j \in m.gate.settled, LiveIn(m, j)
                   PROVE  m.sup[j].everReady
        OBVIOUS
      <3>1. j \in Slots
        BY <1>4 DEF Clients, Gates
      <3>2. j # i
        BY <1>2, <1>5, <1>9, <3>1
      <3>3. j \in b.gate.settled
        BY <1>1, <1>4, <3>2
      <3> QED
        BY <1>1, <1>4, <1>6, <3>1, <3>3 DEF Sound, Gated
    <2> QED
      BY <1>1, <1>3, <1>4, <2>1, <2>2 DEF Sound, Gated
  <1>11. Starting(m)
    <2> SUFFICES ASSUME b.gate.state = "closed", NEW j \in Slots
                 PROVE
            /\ b.sup[j].alive \/ j \in b.gate.declined
            /\ j \in b.gate.declined =>
                  j \notin b.losses \cup {i} /\ j # 0 /\ ~b.sup[j].alive
            /\ m.pool[j] = 0 =>
                  Len(b.thread[j]) = 0 \/ j \in b.losses \cup {i} \/ j \in b.gate.declined
            /\ j \in b.gate.settled \cup {i} \/ j \in b.losses \cup {i}
                  => Len(b.thread[j]) # 0
            /\ j \in b.losses \cup {i} /\ j \in b.gate.settled \cup {i} => m.pool[j] = 0
            /\ j \in Failed(m.gate) => j \in b.losses \cup {i}
            /\ b.sup[j].alive /\ j \notin b.losses \cup {i} /\ Len(b.thread[j]) # 0
                  => LiveIn(m, j)
      BY <1>1, <1>2, <1>4 DEF Starting
    <2>1. /\ b.sup[j].alive \/ j \in b.gate.declined
          /\ j \in b.gate.declined => j \notin b.losses /\ j # 0 /\ ~b.sup[j].alive
          /\ b.pool[j] = 0 =>
                Len(b.thread[j]) = 0 \/ j \in b.losses \/ j \in b.gate.declined
          /\ j \in b.gate.settled \/ j \in b.losses => Len(b.thread[j]) # 0
          /\ j \in b.losses /\ j \in b.gate.settled => b.pool[j] = 0
          /\ j \in Failed(b.gate) => j \in b.losses
          /\ b.sup[j].alive /\ j \notin b.losses /\ Len(b.thread[j]) # 0 => LiveIn(b, j)
      BY DEF Sound, Starting
    <2>2. Len(b.thread[i]) # 0
      BY <1>3, ThreadsAre DEF LiveIn
    <2>3. b.sup[i].alive
      BY <1>3, <1>9 DEF Sound, Counted
    <2>4. j \in Failed(m.gate) => j \in Failed(b.gate) \/ j = i
      BY <1>1, <1>4 DEF Failed
    <2>5. CASE j = i
      BY <1>1, <1>4, <2>1, <2>2, <2>3, <2>5
    <2>6. CASE j # i
      BY <1>1, <1>2, <1>4, <1>5, <2>1, <2>4, <2>6
    <2> QED
      BY <2>5, <2>6
  <1>12. Failing(m, k, T)
    BY <1>1, <1>3, <1>4, <1>6 DEF Sound, Failing, Undead
  <1>13. Announced(m)
    BY <1>1, <1>4 DEF Sound, Gated, Announced
  <1>14. Told(m, z) /\ Manned(m, z)
    BY <1>1, <1>3, <1>4 DEF Told, Manned
  <1>15. Locking(m)
    <2>1. ~(b.env.connection = "exclusive" /\ b.conn = "asked")
      BY <1>3, ThreadsAre DEF Sound, Locking, LiveIn
    <2> QED
      BY <1>1, <1>4, <2>1 DEF Sound, Locking
  <1>16. Sound(m, k, z, T)
    BY <1>4, <1>7, <1>8, <1>10, <1>11, <1>12, <1>13, <1>14, <1>15 DEF Sound
  <1> DEFINE f == Settle(e, i, "failed")
  <1>17. Sound(f, k, z, T) /\ Onward(e, f)
    BY <1>1, <1>16, SettleKeeps DEF m
  <1> HIDE DEF f
  <1>18. Bereaved(b, f, i)
    BY <1>1, <1>2, <1>17 DEF Onward, Bereaved, SameFate
  <1> QED
    BY <1>17, <1>18 DEF f, e

(* The supervisor's entry of one slot changes, and nothing else.            *)
LEMMA SupSet ==
    ASSUME NEW d \in Clients, NEW i \in Slots, NEW s \in SlotRecords
    PROVE  LET e == [d EXCEPT !.sup[i] = s] IN
           /\ e \in Clients /\ e.env = d.env /\ e.size = d.size
           /\ e.thread = d.thread /\ e.pool = d.pool /\ e.losses = d.losses
           /\ e.reported = d.reported /\ e.ready = d.ready
           /\ e.inStartup = d.inStartup /\ e.gate = d.gate /\ e.conn = d.conn
           /\ e.probed = d.probed /\ e.fatal = d.fatal
           /\ e.sup[i] = s
           /\ \A j \in Slots \ {i} : e.sup[j] = d.sup[j]
  <1> DEFINE u == [d.sup EXCEPT ![i] = s]
             e == [d EXCEPT !.sup = u]
  <1>1. [d EXCEPT !.sup[i] = s] = e
    BY DEF Clients
  <1>2. /\ u \in [Slots -> SlotRecords] /\ u[i] = s
        /\ \A j \in Slots \ {i} : u[j] = d.sup[j]
    BY DEF Clients
  <1> HIDE DEF u
  <1>3. /\ e \in Clients /\ e.env = d.env /\ e.size = d.size
        /\ e.thread = d.thread /\ e.pool = d.pool /\ e.losses = d.losses
        /\ e.reported = d.reported /\ e.ready = d.ready
        /\ e.inStartup = d.inStartup /\ e.gate = d.gate /\ e.conn = d.conn
        /\ e.probed = d.probed /\ e.fatal = d.fatal /\ e.sup = u
    BY <1>2 DEF Clients
  <1> HIDE DEF e
  <1> QED
    BY <1>1, <1>2, <1>3

(* The three verdicts on a death, as records.                               *)
LEMMA JudgeIs ==
    ASSUME NEW e \in Clients, NEW i \in Slots
    PROVE  LET s == e.sup[i]
               again == [s EXCEPT !.alive = FALSE, !.restarts = @ + 1]
               r == [e EXCEPT !.sup[i] = again]
               l == EmitWorkerLost([e EXCEPT !.sup[i] = Lost(s)], {i})
           IN  /\ again \in SlotRecords /\ Lost(s) \in SlotRecords
               /\ again.alive = FALSE /\ again.lost = s.lost
               /\ again.everReady = s.everReady /\ again.restarts = s.restarts + 1
               /\ Lost(s).alive = FALSE /\ (Lost(s).lost <=> s.lost \/ s.alive)
               /\ Lost(s).everReady = s.everReady /\ Lost(s).restarts = s.restarts
               /\ ~s.alive => Judge(e, i) = e
               /\ s.alive /\ s.everReady /\ s.restarts < MaxRestarts
                     => Judge(e, i) = Spawn(r, {i})
               /\ s.alive /\ ~(s.everReady /\ s.restarts < MaxRestarts)
                     => Judge(e, i) = IF Live(l.sup) = {} \/ AnswerLost(e, i)
                                      THEN FailClient(l) ELSE l
  <1> DEFINE s == e.sup[i]
             again == [s EXCEPT !.alive = FALSE, !.restarts = @ + 1]
             r == [e EXCEPT !.sup[i] = again]
             l == EmitWorkerLost([e EXCEPT !.sup[i] = Lost(s)], {i})
  <1>1. s \in SlotRecords
    BY DEF Clients
  <1>2. /\ again \in SlotRecords /\ Lost(s) \in SlotRecords
        /\ again.alive = FALSE /\ again.lost = s.lost
        /\ again.everReady = s.everReady /\ again.restarts = s.restarts + 1
        /\ Lost(s).alive = FALSE /\ (Lost(s).lost <=> s.lost \/ s.alive)
        /\ Lost(s).everReady = s.everReady /\ Lost(s).restarts = s.restarts
    <2> HIDE DEF s
    <2>1. /\ again \in SlotRecords
          /\ again.alive = FALSE /\ again.lost = s.lost
          /\ again.everReady = s.everReady /\ again.restarts = s.restarts + 1
      <3> DEFINE n == s.restarts + 1
                 a == [s EXCEPT !.alive = FALSE, !.restarts = n]
      <3>1. again = a
        OBVIOUS
      <3>2. n \in Nat
        BY <1>1 DEF SlotRecords
      <3> HIDE DEF n, again
      <3>3. a \in SlotRecords
        BY <1>1, <3>2 DEF SlotRecords
      <3>4. /\ a.alive = FALSE /\ a.lost = s.lost
            /\ a.everReady = s.everReady /\ a.restarts = n
        BY <1>1 DEF SlotRecords
      <3> QED
        BY <3>1, <3>3, <3>4 DEF n
    <2>2. /\ Lost(s) \in SlotRecords /\ Lost(s).alive = FALSE
          /\ Lost(s).everReady = s.everReady /\ Lost(s).restarts = s.restarts
      BY <1>1 DEF Lost, SlotRecords
    <2>3. Lost(s).lost <=> s.lost \/ s.alive
      BY <1>1 DEF Lost, SlotRecords
    <2> QED
      BY <2>1, <2>2, <2>3
  <1>3. [e EXCEPT !.sup[i].alive = FALSE, !.sup[i].restarts = @ + 1] = r
    <2> DEFINE one == [e.sup EXCEPT ![i] = [s EXCEPT !.alive = FALSE]]
               d == [e EXCEPT !.sup = one]
    <2>1. [e EXCEPT !.sup[i].alive = FALSE] = d
      BY DEF Clients
    <2>2. d \in Clients /\ d.sup = one
      <3>1. one \in [Slots -> SlotRecords]
        BY <1>1 DEF Clients, SlotRecords
      <3> HIDE DEF one
      <3> QED
        BY <3>1 DEF Clients
    <2>3. one[i] = [s EXCEPT !.alive = FALSE]
      BY DEF Clients
    <2>4. [e EXCEPT !.sup[i].alive = FALSE, !.sup[i].restarts = @ + 1]
             = [d EXCEPT !.sup = [one EXCEPT ![i] = [one[i] EXCEPT !.restarts = @ + 1]]]
      BY <2>1, <2>2
    <2>5. [one EXCEPT ![i] = again] = [e.sup EXCEPT ![i] = again]
      BY DEF Clients
    <2>6. [one[i] EXCEPT !.restarts = @ + 1] = again
      BY <2>3
    <2>7. [d EXCEPT !.sup = [e.sup EXCEPT ![i] = again]]
             = [e EXCEPT !.sup = [e.sup EXCEPT ![i] = again]]
      BY DEF Clients
    <2> QED
      BY <2>4, <2>5, <2>6, <2>7
  <1>4. ~s.alive => Judge(e, i) = e
    BY DEF Judge, Repeated, MayRestart
  <1>5. s.alive /\ s.everReady /\ s.restarts < MaxRestarts => Judge(e, i) = Spawn(r, {i})
    BY <1>3 DEF Judge, Repeated, MayRestart
  <1>6. s.alive /\ ~(s.everReady /\ s.restarts < MaxRestarts)
           => Judge(e, i) = IF Live(l.sup) = {} \/ AnswerLost(e, i)
                            THEN FailClient(l) ELSE l
    BY DEF Judge, Repeated, MayRestart
  <1> QED
    BY <1>2, <1>4, <1>5, <1>6

(* Past startup a death is judged: reported again, paid for or final.       *)
LEMMA LaterDeathKeeps ==
    ASSUME NEW b \in Clients, NEW d \in Clients, NEW i \in Slots, Mourned(b, d, i),
           NEW k, NEW z, NEW T, Sound(b, k, z, T), LiveIn(b, i) \/ T # {},
           ~b.inStartup
    PROVE  LET f == Judge(Buried(d, i), i) IN
           Sound(f, k, z, T) /\ Bereaved(b, f, i)
  <1> DEFINE e == Buried(d, i)
  <1>1. /\ e \in Clients /\ e.env = b.env /\ e.size = b.size
        /\ e.sup = b.sup /\ e.reported = b.reported /\ e.ready = b.ready
        /\ e.inStartup = b.inStartup /\ e.gate = b.gate /\ e.conn = b.conn
        /\ e.probed = b.probed /\ e.fatal = b.fatal
        /\ e.pool[i] = 0
        /\ \A j \in Slots \ {i} : e.pool[j] = b.pool[j] /\ e.thread[j] = d.thread[j]
    <2>1. /\ e \in Clients /\ e.env = d.env /\ e.size = d.size
          /\ e.sup = d.sup /\ e.reported = d.reported /\ e.ready = d.ready
          /\ e.inStartup = d.inStartup /\ e.gate = d.gate /\ e.conn = d.conn
          /\ e.probed = d.probed /\ e.fatal = d.fatal
          /\ e.losses = IF d.inStartup THEN d.losses \cup {i} ELSE d.losses
          /\ e.pool[i] = 0
          /\ \A j \in Slots \ {i} : e.pool[j] = d.pool[j] /\ e.thread[j] = d.thread[j]
          /\ Quieter(d, e)
          /\ \A n \in 1 .. Len(d.thread[i]) : n = d.pool[i] => e.thread[i][n] = "dead"
      BY BuriedIs
    <2> HIDE DEF e
    <2> QED
      BY <2>1 DEF Mourned, Aside
  <1>2. /\ Latest(e, k)
        /\ \A j \in Slots \ {i} : LiveIn(e, j) <=> LiveIn(b, j)
        /\ LiveIn(e, i) => LiveIn(b, i)
        /\ k => ~LiveIn(e, i)
        /\ \A j \in Slots : Len(e.thread[j]) = Len(b.thread[j])
    BY BuriedLives DEF Sound
  <1> HIDE DEF e
  <1>3. b.gate.state = "open" /\ b.gate.settled = Slots
    <2>1. b.gate.state \in {"closed", "open", "rejected"}
      BY DEF Clients, Gates, GateStates
    <2> QED
      BY <2>1 DEF Sound, Gated, Failing, Undead
  <1>4. \A j \in Slots : LiveIn(b, j) => b.sup[j].everReady
    BY <1>3 DEF Sound, Gated
  <1>5. /\ b.conn # "undecided" => b.probed
        /\ b.conn = "undecided" => b.env.connection = "probed"
        /\ ~(b.env.connection = "exclusive" /\ b.conn = "asked")
    BY DEF Sound, Locking
  <1>6. \A j \in Slots : Len(b.thread[j]) \in Nat /\ b.sup[j].restarts \in Nat
                         /\ b.reported[j] \in Nat
    BY ThreadsAre DEF Clients, SlotRecords
  <1> DEFINE s == e.sup[i]
             again == [s EXCEPT !.alive = FALSE, !.restarts = @ + 1]
             r == [e EXCEPT !.sup[i] = again]
             l == EmitWorkerLost([e EXCEPT !.sup[i] = Lost(s)], {i})
             J == Judge(e, i)
  <1>7. s = b.sup[i]
    BY <1>1
  <1>8. /\ again \in SlotRecords /\ Lost(s) \in SlotRecords
        /\ again.alive = FALSE /\ again.lost = s.lost
        /\ again.everReady = s.everReady /\ again.restarts = s.restarts + 1
        /\ Lost(s).alive = FALSE /\ (Lost(s).lost <=> s.lost \/ s.alive)
        /\ Lost(s).everReady = s.everReady /\ Lost(s).restarts = s.restarts
        /\ ~s.alive => J = e
        /\ s.alive /\ s.everReady /\ s.restarts < MaxRestarts => J = Spawn(r, {i})
        /\ s.alive /\ ~(s.everReady /\ s.restarts < MaxRestarts)
              => J = IF Live(l.sup) = {} \/ AnswerLost(e, i) THEN FailClient(l) ELSE l
    BY <1>1, JudgeIs
  <1>9. \A j \in Slots : (b.sup[j].alive <=> ~b.sup[j].lost)
                         /\ (b.env.declining /\ j # 0 => ~b.sup[j].everReady)
    BY DEF Sound, Counted
  <1>10. CASE ~s.alive
    <2>1. J = e
      BY <1>8, <1>10
    <2>2. Counted(e, k)
      BY <1>1, <1>2 DEF Sound, Counted
    <2>3. Gated(e, z)
      BY <1>1, <1>2, <1>3, <1>4 DEF Gated
    <2>4. Starting(e)
      BY <1>1, <1>3 DEF Starting
    <2>5. Failing(e, k, T)
      BY <1>1, <1>2 DEF Sound, Failing, Undead
    <2>6. Announced(e)
      BY <1>1 DEF Sound, Announced
    <2>7. Told(e, z)
      BY <1>1, <1>7, <1>10 DEF Sound, Told
    <2>8. Manned(e, z)
      BY <1>1, <1>2, <1>7, <1>10 DEF Sound, Manned
    <2>9. Locking(e)
      BY <1>1, <1>5 DEF Locking
    <2>10. Sound(e, k, z, T)
      BY <1>1, <1>2, <2>2, <2>3, <2>4, <2>5, <2>6, <2>7, <2>8, <2>9 DEF Sound
    <2>11. Bereaved(b, e, i)
      BY <1>1, <1>2, <1>6 DEF Bereaved, SameFate
    <2> QED
      BY <2>1, <2>10, <2>11 DEF e
  <1>11. b.sup[i].alive => ~b.sup[i].lost /\ b.reported[i] = 0 /\ (T # {} => ~b.fatal)
                           /\ (k => ~b.fatal)
    <2>1. b.sup[i].alive => ~b.sup[i].lost /\ b.reported[i] # 1 /\ b.reported[i] <= 1
      BY <1>3, <1>9 DEF Sound, Announced
    <2>2. b.sup[i].alive => (T # {} => ~b.fatal)
      BY DEF Sound, Failing
    <2>3. b.sup[i].alive => (k => ~b.fatal)
      BY <2>2 DEF Sound, Failing, Undead
    <2> QED
      BY <1>6, <2>1, <2>2, <2>3
  <1>12. CASE s.alive /\ s.everReady /\ s.restarts < MaxRestarts
    <2> DEFINE f == Spawn(r, {i})
    <2>1. J = f
      BY <1>8, <1>12
    <2>2. /\ r \in Clients /\ r.env = e.env /\ r.size = e.size
          /\ r.thread = e.thread /\ r.pool = e.pool /\ r.losses = e.losses
          /\ r.reported = e.reported /\ r.ready = e.ready
          /\ r.inStartup = e.inStartup /\ r.gate = e.gate /\ r.conn = e.conn
          /\ r.probed = e.probed /\ r.fatal = e.fatal
          /\ r.sup[i] = again
          /\ \A j \in Slots \ {i} : r.sup[j] = e.sup[j]
      <3> DEFINE a == again
      <3>1. a \in SlotRecords
        BY <1>8
      <3> HIDE DEF again
      <3> QED
        BY <1>1, <3>1, SupSet
    <2> HIDE DEF r
    <2>3. {i} \in SUBSET Slots
      OBVIOUS
    <2>4. /\ f \in Clients /\ SameFate(r, f)
          /\ f.gate = r.gate /\ f.inStartup = r.inStartup /\ f.losses = r.losses
          /\ f.reported = r.reported /\ f.conn = r.conn /\ f.probed = r.probed
          /\ f.fatal = r.fatal /\ f.ready = r.ready
          /\ \A j \in Slots \ {i} :
                f.thread[j] = r.thread[j] /\ f.pool[j] = r.pool[j] /\ f.sup[j] = r.sup[j]
          /\ \A j \in {i} :
                /\ Len(f.thread[j]) = Len(r.thread[j]) + 1
                /\ f.pool[j] = Len(f.thread[j])
                /\ \A n \in 1 .. Len(r.thread[j]) : f.thread[j][n] = r.thread[j][n]
                /\ f.thread[j][Len(f.thread[j])] = FirstState(r, j)
                /\ f.sup[j].alive <=> r.sup[j].alive \/ ~r.sup[j].lost
                /\ f.sup[j].lost = r.sup[j].lost
                /\ f.sup[j].everReady = r.sup[j].everReady
                /\ f.sup[j].restarts = r.sup[j].restarts
      BY <2>2, <2>3, SpawnIs
    <2>5. \A j \in Slots :
             /\ LiveIn(f, j) <=> j \in {i} \/ LiveIn(r, j)
             /\ Len(f.thread[j]) = Len(r.thread[j]) + (IF j \in {i} THEN 1 ELSE 0)
      <3>1. \A I \in SUBSET Slots : \A j \in Slots :
               /\ LiveIn(Spawn(r, I), j) <=> j \in I \/ LiveIn(r, j)
               /\ Len(Spawn(r, I).thread[j])
                     = Len(r.thread[j]) + (IF j \in I THEN 1 ELSE 0)
        BY <2>2, SpawnLives
      <3> QED
        BY <2>3, <3>1
    <2> HIDE DEF f
    <2>6. \A j \in Slots : LiveIn(r, j) <=> LiveIn(e, j)
      BY <2>2 DEF LiveIn
    <2>7. /\ f.env = b.env /\ f.size = b.size
          /\ f.gate = b.gate /\ f.inStartup = b.inStartup
          /\ f.reported = b.reported /\ f.conn = b.conn /\ f.probed = b.probed
          /\ f.fatal = b.fatal /\ f.ready = b.ready
      BY <1>1, <2>2, <2>4 DEF SameFate
    <2>8. \A j \in Slots \ {i} : /\ f.sup[j] = b.sup[j] /\ f.pool[j] = b.pool[j]
                                 /\ f.thread[j] = e.thread[j]
                                 /\ LiveIn(f, j) <=> LiveIn(b, j)
      <3> TAKE j \in Slots \ {i}
      <3>1. f.sup[j] = b.sup[j] /\ f.pool[j] = b.pool[j] /\ f.thread[j] = e.thread[j]
        BY <1>1, <2>2, <2>4
      <3>2. LiveIn(f, j) <=> LiveIn(b, j)
        BY <1>2, <2>5, <2>6
      <3> QED
        BY <3>1, <3>2
    <2>9. /\ f.sup[i].alive /\ ~f.sup[i].lost /\ f.sup[i].everReady
          /\ f.sup[i].restarts = b.sup[i].restarts + 1
          /\ LiveIn(f, i) /\ Len(f.thread[i]) = Len(b.thread[i]) + 1
          /\ f.pool[i] = Len(f.thread[i])
      <3>1. /\ f.sup[i].alive <=> again.alive \/ ~again.lost
            /\ f.sup[i].lost = again.lost
            /\ f.sup[i].everReady = again.everReady
            /\ f.sup[i].restarts = again.restarts
        BY <2>2, <2>4
      <3>2. ~s.lost
        BY <1>7, <1>11, <1>12
      <3> HIDE DEF again
      <3>3. /\ f.sup[i].alive /\ ~f.sup[i].lost /\ f.sup[i].everReady
            /\ f.sup[i].restarts = b.sup[i].restarts + 1
        BY <1>7, <1>8, <1>12, <3>1, <3>2
      <3> QED
        BY <1>2, <2>2, <2>4, <2>5, <3>3
    <2>10. Latest(f, k)
      <3> SUFFICES ASSUME NEW j \in Slots
                   PROVE  /\ f.pool[j] \in {0, Len(f.thread[j])}
                          /\ \A n \in 1 .. Len(f.thread[j]) :
                                /\ f.thread[j][n] = "probing" => j = 0
                                /\ k /\ f.thread[j][n] \in Alive
                                      => n = Len(f.thread[j]) /\ n = f.pool[j]
        BY DEF Latest
      <3>1. CASE j # i
        BY <1>1, <1>2, <2>8, <3>1 DEF Latest
      <3>2. CASE j = i
        <4>1. \A n \in 1 .. Len(f.thread[i]) :
                  n # Len(f.thread[i]) => n \in 1 .. Len(e.thread[i])
          BY <1>2, <1>6, <2>9
        <4>2. \A n \in 1 .. Len(e.thread[i]) : f.thread[i][n] = e.thread[i][n]
          BY <2>2, <2>4
        <4>3. \A n \in 1 .. Len(e.thread[i]) : k => e.thread[i][n] \notin Alive
          BY <1>2 DEF LiveIn
        <4>4. f.thread[i][Len(f.thread[i])] = "probing" => i = 0
          BY <2>4 DEF FirstState
        <4>5. \A n \in 1 .. Len(e.thread[i]) : e.thread[i][n] = "probing" => i = 0
          BY <1>2 DEF Latest
        <4> QED
          BY <2>9, <3>2, <4>1, <4>2, <4>3, <4>4, <4>5
      <3> QED
        BY <3>1, <3>2
    <2>11. Counted(f, k)
      <3>1. b.env.declining /\ i # 0 => FALSE
        BY <1>7, <1>9, <1>12
      <3> QED
        BY <2>7, <2>8, <2>9, <3>1 DEF Sound, Counted
    <2>12. Gated(f, z)
      <3>1. \A j \in Slots : LiveIn(f, j) => f.sup[j].everReady
        BY <1>4, <2>8, <2>9
      <3> QED
        BY <1>3, <2>7, <3>1 DEF Gated
    <2>13. Starting(f)
      BY <1>3, <2>7 DEF Starting
    <2>14. Failing(f, k, T)
      BY <1>7, <1>11, <1>12, <2>7 DEF Sound, Failing
    <2>15. Announced(f)
      BY <1>7, <1>11, <1>12, <2>7, <2>8 DEF Sound, Announced
    <2>16. Told(f, z)
      <3>1. f.pool[i] # 0
        BY <1>6, <2>9
      <3> QED
        BY <2>7, <2>8, <2>9, <3>1 DEF Sound, Told
    <2>17. Manned(f, z)
      BY <2>7, <2>8, <2>9 DEF Sound, Manned
    <2>18. Locking(f)
      BY <1>5, <2>7 DEF Locking
    <2>19. Sound(f, k, z, T)
      BY <2>4, <2>10, <2>11, <2>12, <2>13, <2>14, <2>15, <2>16, <2>17, <2>18 DEF Sound
    <2>20. Bereaved(b, f, i)
      <3>1. \A j \in Slots : Len(f.thread[j]) >= Len(b.thread[j])
        BY <1>2, <1>6, <2>8, <2>9
      <3> QED
        BY <1>7, <1>11, <1>12, <2>7, <2>8, <2>9, <3>1 DEF Bereaved, SameFate
    <2> QED
      BY <2>1, <2>19, <2>20 DEF e
  <1>13. CASE s.alive /\ ~(s.everReady /\ s.restarts < MaxRestarts)
    <2> DEFINE q == [e EXCEPT !.sup[i] = Lost(s)]
    <2>1. J = IF Live(l.sup) = {} \/ AnswerLost(e, i) THEN FailClient(l) ELSE l
      BY <1>8, <1>13
    <2>2. /\ q \in Clients /\ q.env = e.env /\ q.size = e.size
          /\ q.thread = e.thread /\ q.pool = e.pool /\ q.losses = e.losses
          /\ q.reported = e.reported /\ q.ready = e.ready
          /\ q.inStartup = e.inStartup /\ q.gate = e.gate /\ q.conn = e.conn
          /\ q.probed = e.probed /\ q.fatal = e.fatal
          /\ q.sup[i] = Lost(s)
          /\ \A j \in Slots \ {i} : q.sup[j] = e.sup[j]
      BY <1>1, <1>8, SupSet
    <2>3. l = EmitWorkerLost(q, {i})
      OBVIOUS
    <2> HIDE DEF q
    <2>4. PICK rep \in [Slots -> Nat] :
              /\ EmitWorkerLost(q, {i}) = [q EXCEPT !.reported = rep]
              /\ \A j \in Slots : rep[j] = IF j \in {i} THEN q.reported[j] + 1
                                           ELSE q.reported[j]
      <3>1. \A I \in SUBSET Slots :
               \E rep \in [Slots -> Nat] :
                  /\ EmitWorkerLost(q, I) = [q EXCEPT !.reported = rep]
                  /\ \A j \in Slots : rep[j] = IF j \in I THEN q.reported[j] + 1
                                               ELSE q.reported[j]
        BY <2>2, EmitIs
      <3>2. {i} \in SUBSET Slots
        OBVIOUS
      <3> QED
        BY <3>1, <3>2
    <2>5. /\ l \in Clients /\ l.env = b.env /\ l.size = b.size
          /\ l.thread = e.thread /\ l.pool = e.pool /\ l.sup = q.sup
          /\ l.ready = b.ready /\ l.inStartup = b.inStartup
          /\ l.gate = b.gate /\ l.conn = b.conn
          /\ l.probed = b.probed /\ l.fatal = b.fatal
          /\ l.reported = rep
      <3> HIDE DEF l
      <3>1. /\ l \in Clients /\ l.env = q.env /\ l.size = q.size
            /\ l.thread = q.thread /\ l.pool = q.pool /\ l.sup = q.sup
            /\ l.ready = q.ready /\ l.inStartup = q.inStartup
            /\ l.gate = q.gate /\ l.conn = q.conn
            /\ l.probed = q.probed /\ l.fatal = q.fatal
            /\ l.reported = rep
        BY <2>2, <2>3, <2>4 DEF Clients
      <3> QED
        BY <1>1, <2>2, <3>1
    <2> HIDE DEF l
    <2>6. \A j \in Slots : /\ LiveIn(l, j) <=> LiveIn(e, j)
                           /\ LiveIn(l, j) => LiveIn(b, j)
                           /\ Len(l.thread[j]) = Len(b.thread[j])
      <3>1. \A j \in Slots : LiveIn(l, j) <=> LiveIn(e, j)
        BY <2>5 DEF LiveIn
      <3> QED
        BY <1>2, <2>5, <3>1
    <2>7. /\ ~l.sup[i].alive /\ l.sup[i].lost /\ l.sup[i].everReady = b.sup[i].everReady
          /\ l.sup[i].restarts = b.sup[i].restarts
          /\ l.reported[i] = 1 /\ l.pool[i] = 0
      <3>1. l.reported[i] = 1
        BY <1>1, <1>7, <1>11, <1>13, <2>2, <2>4, <2>5
      <3>2. l.sup[i] = Lost(s)
        BY <2>2, <2>5
      <3> HIDE DEF s
      <3> QED
        BY <1>1, <1>7, <1>8, <1>13, <2>5, <3>1, <3>2
    <2>8. \A j \in Slots \ {i} : /\ l.sup[j] = b.sup[j] /\ l.pool[j] = b.pool[j]
                                 /\ l.reported[j] = b.reported[j]
                                 /\ LiveIn(l, j) <=> LiveIn(b, j)
      <3> TAKE j \in Slots \ {i}
      <3>1. l.sup[j] = b.sup[j] /\ l.pool[j] = b.pool[j]
        BY <1>1, <2>2, <2>5
      <3>2. l.reported[j] = b.reported[j]
        BY <1>1, <2>2, <2>4, <2>5
      <3> QED
        BY <1>2, <2>6, <3>1, <3>2
    <2>9. Latest(l, k)
      BY <1>2, <2>5 DEF Latest
    <2>10. Counted(l, k)
      <3>1. k => ~LiveIn(l, i)
        BY <1>2, <2>6
      <3> QED
        BY <1>9, <2>5, <2>7, <2>8, <3>1 DEF Sound, Counted
    <2>11. Announced(l)
      BY <1>3, <2>5, <2>7, <2>8 DEF Sound, Announced
    <2>12. Told(l, z)
      BY <2>5, <2>7, <2>8 DEF Sound, Told
    <2>13. Locking(l)
      BY <1>5, <2>5 DEF Locking
    <2>14. \A j \in Slots : LiveIn(l, j) => l.sup[j].everReady
      BY <1>4, <2>6, <2>7, <2>8
    <2>15. Bereaved(b, l, i)
      <3>1. \A j \in Slots : Len(l.thread[j]) >= Len(b.thread[j])
        BY <1>6, <2>6
      <3>2. LiveIn(b, i) => b.sup[i].restarts >= MaxRestarts
        <4>1. LiveIn(b, i) => ~(b.sup[i].restarts < MaxRestarts)
          BY <1>4, <1>7, <1>13
        <4> QED
          BY <1>6, <4>1, LifecycleAssumption
      <3> QED
        BY <2>5, <2>7, <2>8, <3>1, <3>2 DEF Bereaved, SameFate
    <2>16. CASE Live(l.sup) = {} \/ AnswerLost(e, i)
      <3>1. T # {} => /\ l.gate.state = "open" /\ l.probed /\ l.ready = "resolved"
                      /\ l.conn \notin {"undecided", "asked"}
        BY <2>5 DEF Sound, Failing
      <3>2. T # {} => \A j \in Slots : ~l.sup[j].alive
        <4>1. T # {} => ~AnswerLost(e, i)
          BY <1>1, <2>5, <3>1 DEF AnswerLost
        <4> QED
          BY <2>16, <4>1 DEF Live
      <3>3. Sound(FailClient(l), k, z, T)
        BY <1>3, <2>5, <2>9, <2>10, <2>11, <2>12, <2>13, <2>14, <3>1, <3>2, FailClientKeeps
      <3> DEFINE f == FailClient(l)
      <3>4. SameFate(l, f) /\ Quieter(l, f) /\ f.sup = l.sup
        BY <2>5, FailClientIs
      <3> HIDE DEF f
      <3>5. \A j \in Slots : Len(f.thread[j]) = Len(l.thread[j])
        BY <3>4 DEF Quieter
      <3>6. Bereaved(b, f, i)
        BY <2>15, <3>4, <3>5 DEF Bereaved, SameFate
      <3> QED
        BY <2>1, <2>16, <3>3, <3>6 DEF e, f
    <2>17. CASE ~(Live(l.sup) = {} \/ AnswerLost(e, i))
      <3>1. Gated(l, z)
        BY <1>3, <2>5, <2>14 DEF Gated
      <3>2. Starting(l)
        BY <1>3, <2>5 DEF Starting
      <3>3. Failing(l, k, T)
        BY <1>7, <1>11, <1>13, <2>5 DEF Sound, Failing
      <3>4. Manned(l, z)
        <4>1. \E j \in Slots : l.sup[j].alive
          BY <2>17 DEF Live
        <4> QED
          BY <2>5, <2>7, <2>8, <4>1 DEF Sound, Manned
      <3>5. Sound(l, k, z, T)
        BY <2>5, <2>9, <2>10, <2>11, <2>12, <2>13, <3>1, <3>2, <3>3, <3>4 DEF Sound
      <3>6. J = l
        BY <2>1, <2>17
      <3> HIDE DEF J
      <3> QED
        BY <2>15, <3>5, <3>6 DEF J, e
    <2> QED
      BY <2>16, <2>17
  <1> QED
    BY <1>10, <1>12, <1>13

(* handleDeath() keeps the invariant, during startup and past it.           *)
LEMMA HandleDeathKeeps ==
    ASSUME NEW b \in Clients, NEW d \in Clients, NEW i \in Slots, Mourned(b, d, i),
           NEW k, NEW z, NEW T, ~k => z, Sound(b, k, z, T), LiveIn(b, i) \/ T # {}
    PROVE  LET f == HandleDeath(d, i) IN
           Sound(f, k, z, T) /\ Bereaved(b, f, i)
  <1> DEFINE e == Buried(d, i)
  <1>1. HandleDeath(d, i) = IF d.inStartup THEN Settle(e, i, "failed")
                            ELSE Judge(Settle(e, i, "failed"), i)
    BY DEF HandleDeath, Buried
  <1>2. d.inStartup = b.inStartup /\ d.gate = b.gate
    BY DEF Mourned, Aside
  <1>3. CASE b.inStartup
    BY <1>1, <1>2, <1>3, StartupDeathKeeps
  <1>4. CASE ~b.inStartup
    <2>1. e \in Clients /\ e.gate = d.gate
      BY BuriedIs
    <2>2. e.gate.state # "closed"
      BY <1>2, <1>4, <2>1 DEF Sound, Gated
    <2> HIDE DEF e
    <2>3. Settle(e, i, "failed") = e
      BY <2>1, <2>2, SettleNot
    <2>4. HandleDeath(d, i) = Judge(e, i)
      BY <1>1, <1>2, <1>4, <2>3
    <2> QED
      BY <1>4, <2>4, LaterDeathKeeps DEF e
  <1> QED
    BY <1>3, <1>4

-----------------------------------------------------------------------------
(* What else a worker or the client does keeps the invariant.               *)

(* The record as it is handed to settleGateSlot: what m must say of it.     *)
LEMMA MarkedAs ==
    ASSUME NEW e \in Clients, NEW i \in Slots, NEW how \in {"opened", "declined", "failed"}
    PROVE  LET m == Marked(e, i, how) IN
           /\ m \in Clients /\ m.env = e.env /\ m.size = e.size
           /\ m.thread = e.thread /\ m.pool = e.pool /\ m.sup = e.sup
           /\ m.losses = e.losses /\ m.reported = e.reported /\ m.ready = e.ready
           /\ m.inStartup = e.inStartup /\ m.conn = e.conn
           /\ m.probed = e.probed /\ m.fatal = e.fatal
           /\ m.gate.state = e.gate.state
           /\ e.gate.state # "closed" => m.gate = e.gate
           /\ e.gate.state = "closed" => m.gate.settled = e.gate.settled \cup {i}
           /\ e.gate.state = "closed" /\ i \notin e.gate.settled =>
                 /\ how = "declined" => m.gate.declined = e.gate.declined \cup {i}
                 /\ how # "declined" => m.gate.declined = e.gate.declined
           /\ i \in e.gate.settled => m.gate = e.gate
           /\ \A j \in Slots : j \in Failed(m.gate) =>
                 j \in Failed(e.gate) \/ (j = i /\ how = "failed")
  <1> DEFINE m == Marked(e, i, how)
  <1>1. /\ m \in Clients /\ m.env = e.env /\ m.size = e.size
        /\ m.thread = e.thread /\ m.pool = e.pool /\ m.sup = e.sup
        /\ m.losses = e.losses /\ m.reported = e.reported /\ m.ready = e.ready
        /\ m.inStartup = e.inStartup /\ m.conn = e.conn
        /\ m.probed = e.probed /\ m.fatal = e.fatal
        /\ m.gate.state = e.gate.state /\ m.gate.fired = e.gate.fired
        /\ IF e.gate.state = "closed" /\ i \notin e.gate.settled
           THEN /\ m.gate.settled = e.gate.settled \cup {i}
                /\ m.gate.opened = IF how = "opened" THEN e.gate.opened \cup {i}
                                   ELSE e.gate.opened
                /\ m.gate.declined = IF how = "declined" THEN e.gate.declined \cup {i}
                                     ELSE e.gate.declined
           ELSE m.gate = e.gate
    BY MarkedIs
  <1> HIDE DEF m
  <1>2. e.gate.state # "closed" \/ i \in e.gate.settled => m.gate = e.gate
    BY <1>1
  <1>3. e.gate.state = "closed" => m.gate.settled = e.gate.settled \cup {i}
    BY <1>1
  <1>4. e.gate.state = "closed" /\ i \notin e.gate.settled =>
           /\ how = "declined" => m.gate.declined = e.gate.declined \cup {i}
           /\ how # "declined" => m.gate.declined = e.gate.declined
    BY <1>1
  <1>5. ASSUME NEW j \in Slots, j \in Failed(m.gate)
        PROVE  j \in Failed(e.gate) \/ (j = i /\ how = "failed")
    <2>1. CASE m.gate = e.gate
      BY <1>5, <2>1
    <2>2. CASE e.gate.state = "closed" /\ i \notin e.gate.settled
      BY <1>1, <1>5, <2>2 DEF Failed
    <2> QED
      BY <1>2, <2>1, <2>2
  <1> QED
    BY <1>1, <1>2, <1>3, <1>4, <1>5 DEF m

(* What the client notes of a worker that is ready, before the gate settles *)
(* its slot; and of one that declined, where z says that close() goes on.   *)
Noted(d, i, n) ==
    LET s == d.sup[i] IN
    [d EXCEPT !.thread[i][n] = "ready",
              !.sup[i] = IF s.lost THEN s
                         ELSE [s EXCEPT !.everReady = TRUE, !.alive = TRUE],
              !.losses = Recovered(@, i)]

Retired(d, i, z) ==
    [Terminate(d, {i}) EXCEPT
        !.losses = Recovered(@, i),
        !.sup[i] = Lost(@),
        !.pool[i] = IF z THEN @ ELSE 0,
        !.size    = IF z THEN @ ELSE @ - 1]

(* 'ready'.                                                                 *)
LEMMA ReadyKeeps ==
    ASSUME NEW b \in Clients, NEW i \in Slots, NEW n \in 1 .. Len(b.thread[i]),
           b.thread[i][n] = "opening", ~(b.env.declining /\ i # 0),
           NEW k, NEW z, NEW T, ~k => z, Sound(b, k, z, T)
    PROVE  LET f == Settle(Noted(b, i, n), i, "opened") IN
           /\ Sound(f, k, z, T) /\ Onward(b, f) /\ (z => NoNewLife(b, f))
           /\ ~b.inStartup => \A j \in Slots : f.sup[j].lost = b.sup[j].lost
  <1> DEFINE s == b.sup[i]
             r == IF s.lost THEN s ELSE [s EXCEPT !.everReady = TRUE, !.alive = TRUE]
             t == [b EXCEPT !.thread[i][n] = "ready"]
             u == [t EXCEPT !.sup[i] = r]
             e == [u EXCEPT !.losses = b.losses \ {i}]
             m == Marked(e, i, "opened")
  <1>1. /\ t \in Clients /\ Aside(b, t)
        /\ \A j \in Slots : Len(t.thread[j]) = Len(b.thread[j])
        /\ \A j \in Slots : \A x \in 1 .. Len(b.thread[j]) :
              t.thread[j][x] = IF j = i /\ x = n THEN "ready" ELSE b.thread[j][x]
    <2>1. "ready" \in ThreadStates
      BY DEF ThreadStates
    <2> QED
      BY <2>1, ThreadSet
  <1>2. s \in SlotRecords
    BY DEF Clients
  <1>3. /\ r \in SlotRecords /\ r.lost = s.lost /\ r.restarts = s.restarts
        /\ r.alive <=> s.alive \/ ~s.lost
        /\ r.everReady <=> s.everReady \/ ~s.lost
    <2> HIDE DEF s
    <2> QED
      BY <1>2 DEF SlotRecords
  <1> HIDE DEF t, r
  <1>4. /\ u \in Clients /\ u.env = t.env /\ u.size = t.size
        /\ u.thread = t.thread /\ u.pool = t.pool /\ u.losses = t.losses
        /\ u.reported = t.reported /\ u.ready = t.ready
        /\ u.inStartup = t.inStartup /\ u.gate = t.gate /\ u.conn = t.conn
        /\ u.probed = t.probed /\ u.fatal = t.fatal
        /\ u.sup[i] = r
        /\ \A j \in Slots \ {i} : u.sup[j] = t.sup[j]
    BY <1>1, <1>3, SupSet
  <1> HIDE DEF u
  <1>5. /\ e \in Clients /\ e.env = u.env /\ e.size = u.size
        /\ e.thread = u.thread /\ e.pool = u.pool /\ e.sup = u.sup
        /\ e.reported = u.reported /\ e.ready = u.ready
        /\ e.inStartup = u.inStartup /\ e.gate = u.gate /\ e.conn = u.conn
        /\ e.probed = u.probed /\ e.fatal = u.fatal
        /\ e.losses = b.losses \ {i}
    BY <1>4 DEF Clients
  <1> HIDE DEF e
  <1>6. /\ e.env = b.env /\ e.size = b.size /\ e.pool = b.pool
        /\ e.reported = b.reported /\ e.ready = b.ready
        /\ e.inStartup = b.inStartup /\ e.gate = b.gate /\ e.conn = b.conn
        /\ e.probed = b.probed /\ e.fatal = b.fatal
        /\ e.thread = t.thread /\ e.sup[i] = r
        /\ \A j \in Slots \ {i} : e.sup[j] = b.sup[j]
    BY <1>1, <1>4, <1>5 DEF Aside
  <1>7. \A j \in Slots : LiveIn(e, j) <=> LiveIn(b, j)
    BY <1>1, <1>6 DEF LiveIn, Alive, ThreadStates
  <1>8. LiveIn(b, i) /\ Len(b.thread[i]) # 0
    BY ThreadsAre DEF LiveIn, Alive, ThreadStates
  <1>9. /\ m \in Clients /\ m.env = e.env /\ m.size = e.size
        /\ m.thread = e.thread /\ m.pool = e.pool /\ m.sup = e.sup
        /\ m.losses = e.losses /\ m.reported = e.reported /\ m.ready = e.ready
        /\ m.inStartup = e.inStartup /\ m.conn = e.conn
        /\ m.probed = e.probed /\ m.fatal = e.fatal
        /\ m.gate.state = e.gate.state
        /\ e.gate.state # "closed" => m.gate = e.gate
        /\ e.gate.state = "closed" => m.gate.settled = e.gate.settled \cup {i}
        /\ e.gate.state = "closed" /\ i \notin e.gate.settled =>
              m.gate.declined = e.gate.declined
        /\ i \in e.gate.settled => m.gate = e.gate
        /\ \A j \in Slots : j \in Failed(m.gate) => j \in Failed(e.gate)
    <2> DEFINE M == Marked(e, i, "opened")
    <2>1. /\ M \in Clients /\ M.env = e.env /\ M.size = e.size
          /\ M.thread = e.thread /\ M.pool = e.pool /\ M.sup = e.sup
          /\ M.losses = e.losses /\ M.reported = e.reported /\ M.ready = e.ready
          /\ M.inStartup = e.inStartup /\ M.conn = e.conn
          /\ M.probed = e.probed /\ M.fatal = e.fatal
          /\ M.gate.state = e.gate.state
          /\ e.gate.state # "closed" => M.gate = e.gate
          /\ e.gate.state = "closed" => M.gate.settled = e.gate.settled \cup {i}
          /\ e.gate.state = "closed" /\ i \notin e.gate.settled =>
                /\ "opened" = "declined" => M.gate.declined = e.gate.declined \cup {i}
                /\ "opened" # "declined" => M.gate.declined = e.gate.declined
          /\ i \in e.gate.settled => M.gate = e.gate
          /\ \A j \in Slots : j \in Failed(M.gate) =>
                j \in Failed(e.gate) \/ (j = i /\ "opened" = "failed")
      <3>1. "opened" \in {"opened", "declined", "failed"}
        OBVIOUS
      <3> QED
        BY <1>5, <3>1, MarkedAs
    <2>2. m = M
      OBVIOUS
    <2> HIDE DEF M, m
    <2> QED
      BY <2>1, <2>2
  <1> HIDE DEF m
  <1>10. \A j \in Slots : LiveIn(m, j) <=> LiveIn(b, j)
    BY <1>7, <1>9 DEF LiveIn
  <1>11. \A j \in Slots : /\ b.sup[j].alive <=> ~b.sup[j].lost
                          /\ m.sup[j].alive <=> b.sup[j].alive
                          /\ m.sup[j].lost = b.sup[j].lost
                          /\ m.sup[j].restarts = b.sup[j].restarts
                          /\ b.sup[j].everReady => m.sup[j].everReady
                          /\ m.sup[j].everReady => b.sup[j].everReady \/ j = i
    BY <1>3, <1>6, <1>9 DEF Sound, Counted
  <1>12. Latest(m, k)
    BY <1>1, <1>6, <1>9 DEF Sound, Latest, Alive, ThreadStates
  <1>13. Counted(m, k)
    BY <1>6, <1>9, <1>10, <1>11 DEF Sound, Counted
  <1>14. b.gate.state = "closed" => k /\ ~z
    BY DEF Sound, Gated
  <1>15. Gated(m, z)
    <2>1. Undead(m) <=> Undead(b)
      BY <1>10 DEF Undead
    <2>2. b.gate.state = "closed" => m.sup[i].everReady
      BY <1>3, <1>6, <1>8, <1>9, <1>14 DEF Sound, Counted
    <2>3. b.gate.state # "rejected" =>
             \A j \in m.gate.settled : LiveIn(m, j) => m.sup[j].everReady
      <3> SUFFICES ASSUME b.gate.state # "rejected", NEW j \in m.gate.settled, LiveIn(m, j)
                   PROVE  m.sup[j].everReady
        OBVIOUS
      <3>1. j \in Slots
        BY <1>9 DEF Clients, Gates
      <3>2. CASE j = i /\ b.gate.state = "closed"
        BY <2>2, <3>2
      <3>3. CASE ~(j = i /\ b.gate.state = "closed")
        <4>1. j \in b.gate.settled
          BY <1>6, <1>9, <3>3
        <4> QED
          BY <1>10, <1>11, <3>1, <4>1 DEF Sound, Gated
      <3> QED
        BY <3>2, <3>3
    <2> QED
      BY <1>6, <1>9, <2>1, <2>3 DEF Sound, Gated
  <1>16. Starting(m)
    <2> SUFFICES ASSUME b.gate.state = "closed", NEW j \in Slots
                 PROVE
            /\ b.sup[j].alive \/ j \in m.gate.declined
            /\ j \in m.gate.declined => j \notin b.losses \ {i} /\ j # 0 /\ ~b.sup[j].alive
            /\ b.pool[j] = 0 =>
                  Len(b.thread[j]) = 0 \/ j \in b.losses \ {i} \/ j \in m.gate.declined
            /\ j \in b.gate.settled \cup {i} \/ j \in b.losses \ {i}
                  => Len(b.thread[j]) # 0
            /\ j \in b.losses \ {i} /\ j \in b.gate.settled \cup {i} => b.pool[j] = 0
            /\ j \in Failed(m.gate) => j \in b.losses \ {i}
            /\ b.sup[j].alive /\ j \notin b.losses \ {i} /\ Len(b.thread[j]) # 0
                  => LiveIn(b, j)
      BY <1>1, <1>5, <1>6, <1>9, <1>10, <1>11 DEF Starting
    <2>1. /\ b.sup[j].alive \/ j \in b.gate.declined
          /\ j \in b.gate.declined => j \notin b.losses /\ j # 0 /\ ~b.sup[j].alive
          /\ b.pool[j] = 0 =>
                Len(b.thread[j]) = 0 \/ j \in b.losses \/ j \in b.gate.declined
          /\ j \in b.gate.settled \/ j \in b.losses => Len(b.thread[j]) # 0
          /\ j \in b.losses /\ j \in b.gate.settled => b.pool[j] = 0
          /\ j \in Failed(b.gate) => j \in b.losses
          /\ b.sup[j].alive /\ j \notin b.losses /\ Len(b.thread[j]) # 0 => LiveIn(b, j)
      BY DEF Sound, Starting
    <2>2. b.sup[i].alive /\ b.pool[i] # 0
      <3>1. b.sup[i].alive
        BY <1>8, <1>14 DEF Sound, Counted
      <3>2. PICK x \in 1 .. Len(b.thread[i]) : x = b.pool[i]
        BY <1>8, <1>14 DEF Sound, Latest, LiveIn
      <3> QED
        BY <3>1, <3>2
    <2>3. m.gate.declined = b.gate.declined
      BY <1>6, <1>9
    <2>4. i \notin Failed(m.gate)
      <3>1. CASE i \in b.gate.settled
        <4>1. i \notin b.losses
          BY <2>2, <3>1 DEF Sound, Starting
        <4> QED
          BY <1>6, <1>9, <4>1 DEF Sound, Starting
      <3>2. CASE i \notin b.gate.settled
        BY <1>6, <1>9, <3>2 DEF Failed
      <3> QED
        BY <3>1, <3>2
    <2>5. j \in Failed(m.gate) => j \in Failed(b.gate)
      BY <1>6, <1>9
    <2>6. CASE j = i
      BY <1>8, <2>1, <2>2, <2>3, <2>4, <2>6
    <2>7. CASE j # i
      BY <2>1, <2>3, <2>5, <2>7
    <2> QED
      BY <2>6, <2>7
  <1>17. Failing(m, k, T)
    BY <1>6, <1>9, <1>10, <1>11 DEF Sound, Failing, Undead
  <1>18. Announced(m)
    BY <1>6, <1>9, <1>11 DEF Sound, Announced
  <1>19. Told(m, z)
    <2>1. ~b.inStartup => m.gate = b.gate
      BY <1>6, <1>9 DEF Sound, Gated
    <2> QED
      BY <1>6, <1>9, <1>11, <2>1 DEF Sound, Told
  <1>20. Manned(m, z)
    BY <1>6, <1>9, <1>10, <1>11 DEF Sound, Manned
  <1>21. Locking(m)
    <2>1. ~(b.env.connection = "exclusive" /\ b.conn = "asked")
      BY <1>8 DEF Sound, Locking
    <2> QED
      BY <1>6, <1>9, <2>1 DEF Sound, Locking
  <1>22. Sound(m, k, z, T)
    BY <1>9, <1>12, <1>13, <1>15, <1>16, <1>17, <1>18, <1>19, <1>20, <1>21 DEF Sound
  <1> DEFINE f == Settle(e, i, "opened")
  <1>23. Sound(f, k, z, T) /\ Onward(e, f)
    BY <1>5, <1>22, SettleKeeps DEF m
  <1> HIDE DEF f
  <1>24. Onward(b, f)
    BY <1>1, <1>6, <1>9, <1>11, <1>23 DEF Onward, SameFate
  <1>25. z => NoNewLife(b, f)
    <2>1. z => f = e
      BY <1>5, <1>6, <1>14, SettleNot DEF f
    <2>2. NoNewLife(b, e)
      BY <1>1, <1>6 DEF NoNewLife, Alive, ThreadStates
    <2> QED
      BY <2>1, <2>2
  <1>26. [b EXCEPT !.thread[i][n] = "ready", !.sup[i] = r, !.losses = Recovered(@, i)] = e
    BY <1>1, <1>4 DEF Recovered, e, u, t, Clients, Aside
  <1>27. Noted(b, i, n) = e
    BY <1>26 DEF Noted, r
  <1>28. ASSUME ~b.inStartup PROVE \A j \in Slots : f.sup[j].lost = b.sup[j].lost
    <2>1. b.gate.state # "closed"
      BY <1>28 DEF Sound, Gated
    <2>2. f = e
      BY <1>5, <1>6, <2>1, SettleNot DEF f
    <2> QED
      BY <1>1, <1>3, <1>4, <1>5, <2>2 DEF Aside
  <1> QED
    BY <1>23, <1>24, <1>25, <1>27, <1>28 DEF f

(* 'declined'.                                                              *)
LEMMA DeclineKeeps ==
    ASSUME NEW b \in Clients, NEW i \in Slots, NEW n \in 1 .. Len(b.thread[i]),
           b.thread[i][n] = "opening", b.env.declining, i # 0,
           NEW k, NEW z \in BOOLEAN, NEW T, ~k => z, Sound(b, k, z, T),
           ~z => b.size > 1
    PROVE  LET f == Settle(Retired(b, i, z), i, "declined") IN
               /\ Sound(f, k, z, T) /\ (z => NoNewLife(b, f))
               /\ f.env = b.env /\ f.size = IF z THEN b.size ELSE b.size - 1
               /\ f.sup[i].lost
               /\ \A j \in Slots : /\ Len(f.thread[j]) >= Len(b.thread[j])
                                   /\ b.sup[j].lost => f.sup[j].lost
                                   /\ f.sup[j].restarts = b.sup[j].restarts
  <1> DEFINE t == Terminate(b, {i})
             s == b.sup[i]
             p == IF z THEN b.pool[i] ELSE 0
             sz == IF z THEN b.size ELSE b.size - 1
             u == [t EXCEPT !.losses = b.losses \ {i}]
             v == [u EXCEPT !.sup[i] = Lost(s)]
             e == [v EXCEPT !.pool = [b.pool EXCEPT ![i] = p], !.size = sz]
             m == Marked(e, i, "declined")
  <1>1. {i} \in SUBSET Slots
    OBVIOUS
  <1>2. /\ t \in Clients /\ Aside(b, t) /\ Quieter(b, t)
        /\ \A j \in Slots \ {i} : t.thread[j] = b.thread[j]
        /\ \A x \in 1 .. Len(b.thread[i]) : x = b.pool[i] => t.thread[i][x] = "dead"
    <2>1. PICK th \in [Slots -> Seq(ThreadStates)] : t = [b EXCEPT !.thread = th]
      BY ZenonT(60), <1>1, TerminateIs
    <2>2. Aside(b, [b EXCEPT !.thread = th])
      BY DEF Aside, Clients
    <2>3. t \in Clients
      BY <1>1, TerminateIs
    <2>4. /\ Quieter(b, t)
          /\ \A j \in Slots \ {i} : t.thread[j] = b.thread[j]
          /\ \A x \in 1 .. Len(b.thread[i]) : x = b.pool[i] => t.thread[i][x] = "dead"
      BY <1>1, TerminateIs
    <2> HIDE DEF t
    <2> QED
      BY <2>1, <2>2, <2>3, <2>4
  <1>3. s \in SlotRecords
    BY DEF Clients
  <1>4. /\ Lost(s) \in SlotRecords /\ Lost(s).restarts = s.restarts
        /\ ~Lost(s).alive /\ (Lost(s).lost <=> s.lost \/ s.alive)
        /\ Lost(s).everReady = s.everReady
    <2> HIDE DEF s
    <2>1. /\ Lost(s) \in SlotRecords /\ ~Lost(s).alive
          /\ Lost(s).everReady = s.everReady /\ Lost(s).restarts = s.restarts
      BY <1>3 DEF Lost, SlotRecords
    <2>2. Lost(s).lost <=> s.lost \/ s.alive
      BY <1>3 DEF Lost, SlotRecords
    <2> QED
      BY <2>1, <2>2
  <1> HIDE DEF t
  <1>5. /\ u \in Clients /\ u.env = t.env /\ u.size = t.size
        /\ u.thread = t.thread /\ u.pool = t.pool /\ u.sup = t.sup
        /\ u.reported = t.reported /\ u.ready = t.ready
        /\ u.inStartup = t.inStartup /\ u.gate = t.gate /\ u.conn = t.conn
        /\ u.probed = t.probed /\ u.fatal = t.fatal
        /\ u.losses = b.losses \ {i}
    BY <1>2 DEF Clients
  <1> HIDE DEF u
  <1>6. /\ v \in Clients /\ v.env = u.env /\ v.size = u.size
        /\ v.thread = u.thread /\ v.pool = u.pool /\ v.losses = u.losses
        /\ v.reported = u.reported /\ v.ready = u.ready
        /\ v.inStartup = u.inStartup /\ v.gate = u.gate /\ v.conn = u.conn
        /\ v.probed = u.probed /\ v.fatal = u.fatal
        /\ v.sup[i] = Lost(s)
        /\ \A j \in Slots \ {i} : v.sup[j] = u.sup[j]
    BY <1>4, <1>5, SupSet
  <1> HIDE DEF v
  <1> DEFINE po == [b.pool EXCEPT ![i] = p]
  <1>7. /\ po \in [Slots -> Nat] /\ po[i] = p
        /\ \A j \in Slots \ {i} : po[j] = b.pool[j]
    BY DEF Clients
  <1>8. sz \in 1 .. PoolSize
    <2>1. b.size \in 1 .. PoolSize /\ PoolSize \in Nat
      BY PoolSizeAssumption DEF Clients
    <2> QED
      BY <2>1
  <1> HIDE DEF po, sz
  <1>9. /\ e \in Clients /\ e.env = v.env /\ e.size = sz
        /\ e.thread = v.thread /\ e.pool = po /\ e.sup = v.sup
        /\ e.reported = v.reported /\ e.ready = v.ready
        /\ e.inStartup = v.inStartup /\ e.gate = v.gate /\ e.conn = v.conn
        /\ e.probed = v.probed /\ e.fatal = v.fatal
        /\ e.losses = v.losses
    BY <1>6, <1>7, <1>8 DEF Clients, po
  <1>10. [t EXCEPT !.losses = Recovered(@, i), !.sup[i] = Lost(@),
                   !.pool[i] = IF z THEN @ ELSE 0,
                   !.size    = IF z THEN @ ELSE @ - 1] = e
    <2>1. [t EXCEPT !.losses = Recovered(@, i)] = u
      BY <1>2 DEF Recovered, u, Aside
    <2>2. u.sup[i] = s /\ v.pool[i] = b.pool[i] /\ v.size = b.size
      BY <1>2, <1>5, <1>6 DEF Aside
    <2>3. [u EXCEPT !.sup[i] = Lost(@)] = v
      BY <2>2 DEF v
    <2>4. v.pool = b.pool
      BY <1>2, <1>5, <1>6 DEF Aside
    <2>5. [v EXCEPT !.pool[i] = IF z THEN @ ELSE 0, !.size = IF z THEN @ ELSE @ - 1]
             = [v EXCEPT !.pool = po, !.size = sz]
      <3> DEFINE w == [v EXCEPT !.pool = po]
      <3>1. [v EXCEPT !.pool[i] = IF z THEN @ ELSE 0] = w
        BY <2>2, <2>4 DEF po
      <3>2. w.size = b.size
        BY <1>6, <2>2 DEF Clients
      <3> HIDE DEF w
      <3>3. [v EXCEPT !.pool[i] = IF z THEN @ ELSE 0, !.size = IF z THEN @ ELSE @ - 1]
               = [w EXCEPT !.size = sz]
        BY <3>1, <3>2 DEF sz
      <3> QED
        BY <3>3 DEF w
    <2> QED
      BY <2>1, <2>3, <2>5 DEF po
  <1> HIDE DEF e
  <1>11. /\ e.env = b.env /\ e.size = sz /\ e.pool[i] = p
         /\ e.reported = b.reported /\ e.ready = b.ready
         /\ e.inStartup = b.inStartup /\ e.gate = b.gate /\ e.conn = b.conn
         /\ e.probed = b.probed /\ e.fatal = b.fatal
         /\ e.thread = t.thread /\ e.losses = b.losses \ {i} /\ e.sup[i] = Lost(s)
         /\ \A j \in Slots \ {i} : e.sup[j] = b.sup[j] /\ e.pool[j] = b.pool[j]
    BY <1>2, <1>5, <1>6, <1>7, <1>9 DEF Aside
  <1>12. Quieter(b, e)
    BY <1>2, <1>11 DEF Quieter
  <1>13. /\ \A j \in Slots : LiveIn(e, j) => LiveIn(b, j)
         /\ \A j \in Slots \ {i} : LiveIn(e, j) <=> LiveIn(b, j)
    <2>1. \A j \in Slots \ {i} : LiveIn(e, j) <=> LiveIn(b, j)
      BY <1>2, <1>11 DEF LiveIn
    <2> QED
      BY <1>12, <2>1, QuieterLives
  <1>14. LiveIn(b, i) /\ Len(b.thread[i]) # 0
    BY ThreadsAre DEF LiveIn, Alive, ThreadStates
  <1>15. k => ~LiveIn(e, i)
    <2> SUFFICES ASSUME k, NEW x \in 1 .. Len(e.thread[i]), e.thread[i][x] \in Alive
                 PROVE  FALSE
      BY DEF LiveIn
    <2>1. x \in 1 .. Len(b.thread[i]) /\ b.thread[i][x] \in Alive
      BY <1>12 DEF Quieter, Alive
    <2>2. x = b.pool[i]
      BY <2>1 DEF Sound, Latest
    <2> QED
      BY <1>2, <1>11, <2>1, <2>2 DEF Alive
  <1>16. ~b.sup[i].everReady
    BY DEF Sound, Counted
  <1>17. b.inStartup /\ T = {} /\ b.gate.state \in {"closed", "rejected"}
    <2>1. b.gate.state \in {"closed", "open", "rejected"}
      BY DEF Clients, Gates, GateStates
    <2>2. b.gate.state # "open"
      BY <1>14, <1>16 DEF Sound, Gated
    <2>3. b.inStartup
      BY <1>14, <2>1, <2>2 DEF Sound, Gated, Undead
    <2> QED
      BY <2>1, <2>2, <2>3 DEF Sound, Failing
  <1>18. b.gate.state = "closed" => k /\ ~z /\ i \notin b.gate.settled
    BY <1>14, <1>16 DEF Sound, Gated
  <1>19. /\ m \in Clients /\ m.env = e.env /\ m.size = e.size
         /\ m.thread = e.thread /\ m.pool = e.pool /\ m.sup = e.sup
         /\ m.losses = e.losses /\ m.reported = e.reported /\ m.ready = e.ready
         /\ m.inStartup = e.inStartup /\ m.conn = e.conn
         /\ m.probed = e.probed /\ m.fatal = e.fatal
         /\ m.gate.state = e.gate.state
         /\ e.gate.state = "closed" =>
               /\ m.gate.settled = e.gate.settled \cup {i}
               /\ m.gate.declined = e.gate.declined \cup {i}
         /\ \A j \in Slots : j \in Failed(m.gate) => j \in Failed(e.gate)
    <2> DEFINE M == Marked(e, i, "declined")
    <2>1. /\ M \in Clients /\ M.env = e.env /\ M.size = e.size
          /\ M.thread = e.thread /\ M.pool = e.pool /\ M.sup = e.sup
          /\ M.losses = e.losses /\ M.reported = e.reported /\ M.ready = e.ready
          /\ M.inStartup = e.inStartup /\ M.conn = e.conn
          /\ M.probed = e.probed /\ M.fatal = e.fatal
          /\ M.gate.state = e.gate.state
          /\ e.gate.state # "closed" => M.gate = e.gate
          /\ e.gate.state = "closed" => M.gate.settled = e.gate.settled \cup {i}
          /\ e.gate.state = "closed" /\ i \notin e.gate.settled =>
                /\ "declined" = "declined" => M.gate.declined = e.gate.declined \cup {i}
                /\ "declined" # "declined" => M.gate.declined = e.gate.declined
          /\ i \in e.gate.settled => M.gate = e.gate
          /\ \A j \in Slots : j \in Failed(M.gate) =>
                j \in Failed(e.gate) \/ (j = i /\ "declined" = "failed")
      <3>1. "declined" \in {"opened", "declined", "failed"}
        OBVIOUS
      <3> QED
        BY <1>9, <3>1, MarkedAs
    <2>2. m = M
      OBVIOUS
    <2> HIDE DEF M, m
    <2> QED
      BY <1>11, <1>18, <2>1, <2>2
  <1> HIDE DEF m
  <1>20. \A j \in Slots : LiveIn(m, j) <=> LiveIn(e, j)
    BY <1>19 DEF LiveIn
  <1>21. \A j \in Slots : b.sup[j].alive <=> ~b.sup[j].lost
    BY DEF Sound, Counted
  <1>22. ~m.sup[i].alive /\ m.sup[i].lost /\ m.sup[i].restarts = s.restarts
    BY <1>4, <1>11, <1>19, <1>21
  <1>23. \A j \in Slots \ {i} : /\ m.sup[j] = b.sup[j] /\ m.pool[j] = b.pool[j]
                                /\ LiveIn(m, j) <=> LiveIn(b, j)
    BY <1>11, <1>13, <1>19, <1>20
  <1>24. \A j \in Slots : Len(m.thread[j]) = Len(b.thread[j])
    BY <1>12, <1>19 DEF Quieter
  <1>25. Latest(m, k)
    <2> SUFFICES ASSUME NEW j \in Slots
                 PROVE  /\ m.pool[j] \in {0, Len(m.thread[j])}
                        /\ \A x \in 1 .. Len(m.thread[j]) :
                              /\ m.thread[j][x] = "probing" => j = 0
                              /\ k /\ m.thread[j][x] \in Alive
                                    => x = Len(m.thread[j]) /\ x = m.pool[j]
      BY DEF Latest
    <2>1. \A x \in 1 .. Len(m.thread[j]) : m.thread[j][x] = "probing" => j = 0
      BY <1>12, <1>19 DEF Sound, Latest, Quieter
    <2>2. CASE j # i
      BY <1>2, <1>11, <1>19, <1>23, <2>2 DEF Sound, Latest
    <2>3. CASE j = i
      <3>1. m.pool[i] \in {0, b.pool[i]}
        BY <1>11, <1>19
      <3>2. m.pool[i] \in {0, Len(m.thread[i])}
        BY <1>24, <3>1 DEF Sound, Latest
      <3>3. \A x \in 1 .. Len(m.thread[i]) : k => m.thread[i][x] \notin Alive
        BY <1>15, <1>20 DEF LiveIn
      <3> QED
        BY <2>1, <2>3, <3>2, <3>3
    <2> QED
      BY <2>2, <2>3
  <1>26. Counted(m, k)
    <2>1. k => ~LiveIn(m, i)
      BY <1>15, <1>20
    <2>2. m.env = b.env /\ m.sup[i].everReady = b.sup[i].everReady
      BY <1>4, <1>11, <1>19
    <2> QED
      BY <1>16, <1>22, <1>23, <2>1, <2>2 DEF Sound, Counted
  <1>27. Gated(m, z)
    <2>1. b.gate.state = "closed" =>
             \A j \in m.gate.settled : LiveIn(m, j) => m.sup[j].everReady
      <3> SUFFICES ASSUME b.gate.state = "closed", NEW j \in m.gate.settled, LiveIn(m, j)
                   PROVE  m.sup[j].everReady
        OBVIOUS
      <3>1. j \in Slots
        BY <1>19 DEF Clients, Gates
      <3>2. j # i
        BY <1>15, <1>18, <1>20
      <3>3. j \in b.gate.settled
        BY <1>11, <1>19, <3>2
      <3> QED
        BY <1>23, <3>1, <3>2, <3>3 DEF Sound, Gated
    <2> QED
      BY <1>11, <1>17, <1>19, <2>1 DEF Sound, Gated
  <1>28. Starting(m)
    <2> SUFFICES ASSUME b.gate.state = "closed", NEW j \in Slots
                 PROVE
            /\ m.sup[j].alive \/ j \in b.gate.declined \cup {i}
            /\ j \in b.gate.declined \cup {i} =>
                  j \notin b.losses \ {i} /\ j # 0 /\ ~m.sup[j].alive
            /\ m.pool[j] = 0 => Len(b.thread[j]) = 0 \/ j \in b.losses \ {i}
                                \/ j \in b.gate.declined \cup {i}
            /\ j \in b.gate.settled \cup {i} \/ j \in b.losses \ {i}
                  => Len(b.thread[j]) # 0
            /\ j \in b.losses \ {i} /\ j \in b.gate.settled \cup {i} => m.pool[j] = 0
            /\ j \in Failed(m.gate) => j \in b.losses \ {i}
            /\ m.sup[j].alive /\ j \notin b.losses \ {i} /\ Len(b.thread[j]) # 0
                  => LiveIn(m, j)
      BY <1>11, <1>19, <1>24 DEF Starting
    <2>1. /\ b.sup[j].alive \/ j \in b.gate.declined
          /\ j \in b.gate.declined => j \notin b.losses /\ j # 0 /\ ~b.sup[j].alive
          /\ b.pool[j] = 0 =>
                Len(b.thread[j]) = 0 \/ j \in b.losses \/ j \in b.gate.declined
          /\ j \in b.gate.settled \/ j \in b.losses => Len(b.thread[j]) # 0
          /\ j \in b.losses /\ j \in b.gate.settled => b.pool[j] = 0
          /\ j \in Failed(b.gate) => j \in b.losses
          /\ b.sup[j].alive /\ j \notin b.losses /\ Len(b.thread[j]) # 0 => LiveIn(b, j)
      BY DEF Sound, Starting
    <2>2. j \in Failed(m.gate) => j \in Failed(b.gate) /\ j # i
      BY <1>11, <1>18, <1>19 DEF Failed
    <2>3. CASE j = i
      BY <1>14, <1>22, <2>1, <2>2, <2>3
    <2>4. CASE j # i
      BY <1>23, <2>1, <2>2, <2>4
    <2> QED
      BY <2>3, <2>4
  <1>29. Failing(m, k, T)
    <2>1. Undead(m) => Undead(b)
      BY <1>13, <1>20 DEF Undead
    <2> QED
      BY <1>11, <1>17, <1>19, <2>1 DEF Sound, Failing
  <1>30. Announced(m)
    BY <1>11, <1>17, <1>19 DEF Sound, Gated, Announced
  <1>31. Told(m, z) /\ Manned(m, z)
    BY <1>11, <1>17, <1>19 DEF Told, Manned
  <1>32. Locking(m)
    <2>1. ~(b.env.connection = "exclusive" /\ b.conn = "asked")
      BY <1>14 DEF Sound, Locking
    <2> QED
      BY <1>11, <1>19, <2>1 DEF Sound, Locking
  <1>33. Sound(m, k, z, T)
    BY <1>19, <1>25, <1>26, <1>27, <1>28, <1>29, <1>30, <1>31, <1>32 DEF Sound
  <1> DEFINE f == Settle(e, i, "declined")
  <1>34. Sound(f, k, z, T) /\ Onward(e, f)
    BY <1>9, <1>33, SettleKeeps DEF m
  <1> HIDE DEF f
  <1>35. /\ f.env = b.env /\ f.size = sz /\ f.sup[i].lost
         /\ \A j \in Slots : /\ Len(f.thread[j]) >= Len(b.thread[j])
                             /\ b.sup[j].lost => f.sup[j].lost
                             /\ f.sup[j].restarts = b.sup[j].restarts
    <2>1. \A j \in Slots : /\ Len(f.thread[j]) >= Len(b.thread[j])
                           /\ m.sup[j].lost => f.sup[j].lost
                           /\ f.sup[j].restarts = m.sup[j].restarts
      BY <1>19, <1>24, <1>34 DEF Onward
    <2>2. f.env = b.env /\ f.size = sz
      BY <1>11, <1>34 DEF Onward, SameFate
    <2> QED
      BY <1>22, <1>23, <2>1, <2>2
  <1>36. z => NoNewLife(b, f)
    <2>1. z => f = e
      BY <1>9, <1>11, <1>18, SettleNot DEF f
    <2>2. NoNewLife(b, e)
      BY <1>12, QuieterLives
    <2> QED
      BY <2>1, <2>2
  <1>37. Retired(b, i, z) = e
    BY <1>10 DEF Retired, t
  <1> QED
    BY <1>34, <1>35, <1>36, <1>37 DEF f, sz

(* A worker that failed by itself and is reported.                          *)
LEMMA DiedKeeps ==
    ASSUME NEW b \in Clients, NEW i \in Slots, NEW n \in 1 .. Len(b.thread[i]),
           b.thread[i][n] \in Alive,
           NEW k, NEW z, NEW T, ~k => z, Sound(b, k, z, T)
    PROVE  LET f == Died(b, i, n) IN
           Sound(f, k, z, T) /\ Bereaved(b, f, i)
  <1> DEFINE d == [b EXCEPT !.thread[i][n] = "dead"]
  <1>1. /\ d \in Clients /\ Aside(b, d)
        /\ \A j \in Slots : Len(d.thread[j]) = Len(b.thread[j])
        /\ \A j \in Slots : \A m \in 1 .. Len(b.thread[j]) :
              d.thread[j][m] = IF j = i /\ m = n THEN "dead" ELSE b.thread[j][m]
        /\ \A j \in Slots \ {i} : d.thread[j] = b.thread[j]
    <2>1. "dead" \in ThreadStates
      BY DEF ThreadStates
    <2> QED
      BY <2>1, ThreadSet
  <1>2. Died(b, i, n) = HandleDeath(d, i)
    BY DEF Died
  <1> HIDE DEF d
  <1>3. Mourned(b, d, i)
    BY <1>1 DEF Mourned, Quieter
  <1>4. LiveIn(b, i)
    BY DEF LiveIn
  <1> QED
    BY <1>1, <1>2, <1>3, <1>4, HandleDeathKeeps

(* A transaction's report, of a worker that lives or of one that did.       *)
LEMMA ReportKeeps ==
    ASSUME NEW b \in Clients, NEW i \in Slots,
           NEW k, NEW z, NEW T, T # {}, ~k => z, Sound(b, k, z, T)
    PROVE  LET f == HandleDeath(b, i) IN
           Sound(f, k, z, T) /\ Bereaved(b, f, i)
  <1>1. Mourned(b, b, i)
    BY DEF Mourned, Quieter, Aside
  <1> QED
    BY <1>1, HandleDeathKeeps

(* What touches neither the pool nor the gate keeps the invariant, if it    *)
(* settles the probe before the lock and startup before `ready'.            *)
LEMMA TouchKeeps ==
    ASSUME NEW b \in Clients, NEW e \in Clients,
           NEW k, NEW z, NEW T, NEW U, Sound(b, k, z, T),
           /\ e.env = b.env /\ e.size = b.size /\ e.pool = b.pool
           /\ e.losses = b.losses /\ e.reported = b.reported
           /\ e.inStartup = b.inStartup /\ e.gate = b.gate /\ e.fatal = b.fatal,
           \A i \in Slots : /\ e.sup[i].alive = b.sup[i].alive
                            /\ e.sup[i].lost = b.sup[i].lost
                            /\ e.sup[i].everReady = b.sup[i].everReady
                            /\ Len(e.thread[i]) = Len(b.thread[i])
                            /\ \A n \in 1 .. Len(b.thread[i]) :
                                  /\ e.thread[i][n] \in Alive <=> b.thread[i][n] \in Alive
                                  /\ e.thread[i][n] = "probing"
                                        => b.thread[i][n] = "probing",
           e.conn # "undecided" => e.probed,
           e.conn = "undecided" => b.conn = "undecided",
           e.conn = "asked" => b.conn = "asked" \/ b.env.connection = "probed",
           e.ready = "resolved" => ~b.inStartup,
           U # {} => /\ b.gate.state = "open" /\ e.probed /\ e.ready = "resolved"
                     /\ e.conn \notin {"undecided", "asked"}
                     /\ b.fatal => \A i \in Slots : ~b.sup[i].alive
    PROVE  Sound(e, k, z, U)
  <1>1. \A i \in Slots : LiveIn(e, i) <=> LiveIn(b, i)
    BY DEF LiveIn
  <1>2. Undead(e) <=> Undead(b)
    BY <1>1 DEF Undead
  <1>3. Latest(e, k)
    BY DEF Sound, Latest
  <1>4. Counted(e, k)
    BY <1>1 DEF Sound, Counted
  <1>5. Gated(e, z)
    <2>1. b.gate.settled \subseteq Slots
      BY DEF Clients, Gates
    <2>2. b.gate.state # "rejected" =>
             \A i \in b.gate.settled : LiveIn(e, i) => e.sup[i].everReady
      BY <1>1, <2>1 DEF Sound, Gated
    <2> QED
      BY <1>2, <2>2 DEF Sound, Gated
  <1>6. Starting(e)
    BY <1>1 DEF Sound, Starting
  <1>7. Failing(e, k, U)
    BY <1>2 DEF Sound, Failing
  <1>8. Announced(e)
    BY DEF Sound, Announced
  <1>9. Told(e, z)
    BY DEF Sound, Told
  <1>10. Manned(e, z)
    BY <1>1 DEF Sound, Manned
  <1>11. Locking(e)
    BY DEF Sound, Locking
  <1> QED
    BY <1>3, <1>4, <1>5, <1>6, <1>7, <1>8, <1>9, <1>10, <1>11 DEF Sound

(* startWorkers() of a client that waited for its exclusive lock.           *)
LEMMA StartKeeps ==
    ASSUME NEW b \in Clients, b.env.connection = "exclusive", b.conn = "asked",
           ~b.fatal, NEW k, NEW z, NEW T, Sound(b, k, z, T)
    PROVE  LET f == Spawn([b EXCEPT !.conn = "granted"], Slots) IN
           Sound(f, k, z, T) /\ Onward(b, f)
  <1> DEFINE d == [b EXCEPT !.conn = "granted"]
             f == Spawn(d, Slots)
  <1>1. /\ d \in Clients /\ d.thread = b.thread
        /\ d.conn = "granted"
        /\ d.env = b.env /\ d.size = b.size /\ d.pool = b.pool /\ d.sup = b.sup
        /\ d.losses = b.losses /\ d.reported = b.reported /\ d.ready = b.ready
        /\ d.inStartup = b.inStartup /\ d.gate = b.gate
        /\ d.probed = b.probed /\ d.fatal = b.fatal
    BY DEF Clients, LockStates
  <1> HIDE DEF d
  <1>2. Slots \in SUBSET Slots
    OBVIOUS
  <1>3. /\ f \in Clients /\ SameFate(d, f)
        /\ f.gate = d.gate /\ f.inStartup = d.inStartup /\ f.losses = d.losses
        /\ f.reported = d.reported /\ f.conn = d.conn /\ f.probed = d.probed
        /\ f.fatal = d.fatal /\ f.ready = d.ready
        /\ \A j \in Slots \ Slots :
              f.thread[j] = d.thread[j] /\ f.pool[j] = d.pool[j] /\ f.sup[j] = d.sup[j]
        /\ \A j \in Slots :
              /\ Len(f.thread[j]) = Len(d.thread[j]) + 1
              /\ f.pool[j] = Len(f.thread[j])
              /\ \A n \in 1 .. Len(d.thread[j]) : f.thread[j][n] = d.thread[j][n]
              /\ f.thread[j][Len(f.thread[j])] = FirstState(d, j)
              /\ f.sup[j].alive <=> d.sup[j].alive \/ ~d.sup[j].lost
              /\ f.sup[j].lost = d.sup[j].lost
              /\ f.sup[j].everReady = d.sup[j].everReady
              /\ f.sup[j].restarts = d.sup[j].restarts
    BY <1>1, <1>2, SpawnIs
  <1>4. \A j \in Slots : LiveIn(f, j)
    <2>1. \A j \in Slots : LiveIn(f, j) <=> j \in Slots \/ LiveIn(d, j)
      BY <1>1, <1>2, SpawnLives
    <2> QED
      BY <2>1
  <1> HIDE DEF f
  <1>5. /\ b.inStartup /\ b.gate.settled = {} /\ b.gate.declined = {} /\ b.losses = {}
        /\ \A j \in Slots : Len(b.thread[j]) = 0 /\ b.sup[j].alive
    BY DEF Sound, Locking
  <1>6. T = {} /\ b.gate.state # "open" /\ b.probed
    BY <1>5 DEF Sound, Gated, Failing, Locking
  <1>7. /\ f.env = b.env /\ f.size = b.size /\ f.gate = b.gate
        /\ f.inStartup = b.inStartup /\ f.losses = b.losses
        /\ f.reported = b.reported /\ f.conn = "granted" /\ f.probed = b.probed
        /\ f.fatal = b.fatal /\ f.ready = b.ready
    BY <1>1, <1>3 DEF SameFate
  <1>8. \A j \in Slots : /\ Len(f.thread[j]) = 1 /\ f.pool[j] = 1
                         /\ f.thread[j][1] = FirstState(d, j)
                         /\ f.sup[j].alive /\ ~f.sup[j].lost
                         /\ f.sup[j].lost = b.sup[j].lost
                         /\ f.sup[j].everReady = b.sup[j].everReady
                         /\ f.sup[j].restarts = b.sup[j].restarts
    <2> TAKE j \in Slots
    <2>1. Len(d.thread[j]) = 0 /\ b.sup[j].alive /\ ~b.sup[j].lost /\ d.sup = b.sup
      BY <1>1, <1>5 DEF Sound, Counted
    <2>2. Len(f.thread[j]) = 1 /\ f.pool[j] = 1
      <3>1. Len(f.thread[j]) = Len(d.thread[j]) + 1 /\ f.pool[j] = Len(f.thread[j])
        BY <1>3
      <3>2. Len(f.thread[j]) = 0 + 1
        BY <2>1, <3>1
      <3>3. 0 + 1 = 1
        OBVIOUS
      <3> QED
        BY <3>1, <3>2, <3>3
    <2>3. f.thread[j][1] = FirstState(d, j)
      BY <1>3, <2>2
    <2>4. /\ f.sup[j].alive /\ ~f.sup[j].lost
          /\ f.sup[j].lost = b.sup[j].lost
          /\ f.sup[j].everReady = b.sup[j].everReady
          /\ f.sup[j].restarts = b.sup[j].restarts
      BY <1>3, <2>1
    <2> QED
      BY <2>2, <2>3, <2>4
  <1>9. Latest(f, k)
    <2>1. \A j \in Slots : FirstState(d, j) = "probing" => j = 0
      BY DEF FirstState
    <2> QED
      <3> SUFFICES ASSUME NEW j \in Slots
                   PROVE  /\ f.pool[j] \in {0, Len(f.thread[j])}
                          /\ \A n \in 1 .. Len(f.thread[j]) :
                                /\ f.thread[j][n] = "probing" => j = 0
                                /\ n = Len(f.thread[j]) /\ n = f.pool[j]
        BY DEF Latest
      <3>1. /\ Len(f.thread[j]) = 1 /\ f.pool[j] = 1
            /\ f.thread[j][1] = FirstState(d, j)
        BY <1>8
      <3>2. 1 .. Len(f.thread[j]) = {1}
        <4>1. 1 .. 1 = {1}
          OBVIOUS
        <4> QED
          BY <3>1, <4>1
      <3>3. \A n \in 1 .. Len(f.thread[j]) :
               f.thread[j][n] = "probing" => j = 0
        BY <2>1, <3>1, <3>2
      <3>4. \A n \in 1 .. Len(f.thread[j]) : n = 1
        BY <3>2
      <3> QED
        BY <3>1, <3>3, <3>4
  <1>10. Counted(f, k)
    BY <1>7, <1>8 DEF Sound, Counted
  <1>11. Gated(f, z)
    BY <1>5, <1>6, <1>7 DEF Sound, Gated
  <1>12. Starting(f)
    <2>1. Failed(f.gate) = {}
      BY <1>5, <1>7 DEF Failed
    <2> QED
      BY <1>4, <1>5, <1>7, <1>8, <2>1 DEF Starting
  <1>13. Failing(f, k, T) /\ Announced(f)
    <2>1. \A j \in Slots : f.reported[j] = 0
      BY <1>5, <1>7 DEF Sound, Gated
    <2> QED
      BY <1>6, <1>7, <2>1 DEF Failing, Announced
  <1>14. Told(f, z) /\ Manned(f, z) /\ Locking(f)
    BY <1>5, <1>6, <1>7 DEF Told, Manned, Locking
  <1>15. Onward(b, f)
    <2>1. \A j \in Slots : Len(f.thread[j]) >= Len(b.thread[j])
      BY <1>5, <1>8
    <2> QED
      BY <1>7, <1>8, <2>1 DEF Onward, SameFate
  <1> QED
    BY <1>3, <1>9, <1>10, <1>11, <1>12, <1>13, <1>14, <1>15 DEF Sound, d, f

(* failClient() of a sound client that no transaction holds a worker of.    *)
LEMMA FailKeeps ==
    ASSUME NEW b \in Clients, NEW k, NEW z, ~k => z, Sound(b, k, z, {})
    PROVE  Sound(FailClient(b), k, z, {}) /\ Onward(b, FailClient(b))
  <1>1. Sound(FailClient(b), k, z, {})
    <2>1. /\ Latest(b, k) /\ Counted(b, k) /\ Announced(b) /\ Told(b, z) /\ Locking(b)
      BY DEF Sound
    <2>2. /\ b.gate.state = "closed" => k
          /\ b.gate.state = "open" =>
               /\ ~b.inStartup /\ b.gate.settled = Slots
               /\ \A i \in Slots : LiveIn(b, i) => b.sup[i].everReady
          /\ b.gate.state = "rejected" /\ ~b.inStartup => k \/ ~Undead(b)
          /\ b.inStartup => b.ready # "resolved" /\ \A i \in Slots : b.reported[i] = 0
      BY DEF Sound, Gated
    <2> QED
      BY <2>1, <2>2, FailClientKeeps
  <1> DEFINE f == FailClient(b)
  <1>2. SameFate(b, f) /\ Quieter(b, f) /\ f.sup = b.sup
    BY FailClientIs
  <1>3. \A i \in Slots : Len(b.thread[i]) \in Nat
    BY ThreadsAre
  <1> HIDE DEF f
  <1>4. Onward(b, f)
    BY <1>2, <1>3 DEF Onward, Quieter
  <1> QED
    BY <1>1, <1>4 DEF f

(* What close() does at once: from here on nothing is restarted by the gate.*)
LEMMA FrontDoorKeeps ==
    ASSUME NEW b \in Clients, NEW k, NEW T, Sound(b, k, FALSE, T)
    PROVE  Sound(FrontDoor(b), k, TRUE, T) /\ Onward(b, FrontDoor(b))
  <1> DEFINE rd == IF b.ready = "pending" THEN "rejected" ELSE b.ready
             e == FrontDoor(b)
  <1>1. /\ e \in Clients /\ e.env = b.env /\ e.size = b.size /\ e.thread = b.thread
        /\ e.pool = b.pool /\ e.sup = b.sup /\ e.losses = b.losses
        /\ e.reported = b.reported /\ e.inStartup = b.inStartup /\ e.conn = b.conn
        /\ e.fatal = b.fatal /\ e.probed = TRUE
        /\ e.gate = RejectGate(b.gate) /\ e.ready = rd
    <2>1. rd \in {"pending", "resolved", "rejected"}
      BY DEF Clients
    <2>2. RejectGate(b.gate) \in Gates
      BY DEF RejectGate, Gates, GateStates, Clients
    <2>3. e = [b EXCEPT !.probed = TRUE, !.ready = rd, !.gate = RejectGate(b.gate)]
      BY DEF FrontDoor, Clients
    <2> HIDE DEF rd, e
    <2> QED
      BY <2>1, <2>2, <2>3 DEF Clients
  <1>2. /\ e.gate.settled = b.gate.settled
        /\ e.gate.state = IF b.gate.state = "closed" THEN "rejected" ELSE b.gate.state
        /\ e.gate.state \in {"open", "rejected"}
    <2> HIDE DEF e
    <2> QED
      BY <1>1 DEF RejectGate, Clients, Gates, GateStates
  <1>3. b.ready = "resolved" <=> e.ready = "resolved"
    BY <1>1
  <1> HIDE DEF e, rd
  <1>4. \A i \in Slots : LiveIn(e, i) <=> LiveIn(b, i)
    BY <1>1 DEF LiveIn
  <1>5. Undead(e) <=> Undead(b)
    BY <1>4 DEF Undead
  <1>6. Latest(e, k) /\ Counted(e, k)
    BY <1>1, <1>4 DEF Sound, Latest, Counted
  <1>7. Gated(e, TRUE)
    <2>1. b.gate.settled \subseteq Slots
      BY DEF Clients, Gates
    <2>2. e.gate.state # "rejected" =>
             \A i \in b.gate.settled : LiveIn(e, i) => e.sup[i].everReady
      BY <1>1, <1>2, <1>4, <2>1 DEF Sound, Gated
    <2> QED
      BY <1>1, <1>2, <1>3, <1>5, <2>2 DEF Sound, Gated
  <1>8. Starting(e) /\ Told(e, TRUE) /\ Manned(e, TRUE)
    BY <1>2 DEF Starting, Told, Manned
  <1>9. Failing(e, k, T)
    BY <1>1, <1>2, <1>3, <1>5 DEF Sound, Failing
  <1>10. Announced(e)
    BY <1>1, <1>2 DEF Sound, Gated, Announced
  <1>11. Locking(e)
    <2>1. e.gate.declined = b.gate.declined
      BY <1>1 DEF RejectGate, Clients, Gates
    <2> QED
      BY <1>1, <1>2, <2>1 DEF Sound, Locking
  <1>12. \A i \in Slots : Len(b.thread[i]) \in Nat
    BY ThreadsAre
  <1>13. Onward(b, e)
    BY <1>1, <1>12 DEF Onward, SameFate
  <1> QED
    BY <1>1, <1>6, <1>7, <1>8, <1>9, <1>10, <1>11, <1>13 DEF Sound, e

(* A worker that close() ends, whatever happened to its slot since.         *)
LEMMA CloseWorkerKeeps ==
    ASSUME NEW b \in Clients, NEW i \in Slots, NEW n \in 1 .. Len(b.thread[i]),
           NEW k, NEW T, Sound(b, k, TRUE, T)
    PROVE  LET e == [b EXCEPT !.thread[i][n] = "dead"] IN
           Sound(e, k, TRUE, T) /\ Onward(b, e) /\ Quieter(b, e)
           /\ e.thread[i][n] = "dead"
  <1> DEFINE e == [b EXCEPT !.thread[i][n] = "dead"]
  <1>1. /\ e \in Clients /\ Aside(b, e)
        /\ \A j \in Slots : Len(e.thread[j]) = Len(b.thread[j])
        /\ \A j \in Slots : \A m \in 1 .. Len(b.thread[j]) :
              e.thread[j][m] = IF j = i /\ m = n THEN "dead" ELSE b.thread[j][m]
    <2>1. "dead" \in ThreadStates
      BY DEF ThreadStates
    <2> QED
      BY <2>1, ThreadSet
  <1> HIDE DEF e
  <1>2. Quieter(b, e)
    BY <1>1 DEF Quieter
  <1>3. (\A j \in Slots : LiveIn(e, j) => LiveIn(b, j)) /\ (Undead(e) => Undead(b))
    BY <1>2, QuieterLives
  <1>4. Latest(e, k)
    BY <1>1, <1>2, LatestQuieter DEF Sound, Aside
  <1>5. Counted(e, k)
    BY <1>1, <1>3 DEF Sound, Counted, Aside
  <1>6. b.gate.state # "closed"
    BY DEF Sound, Gated
  <1>7. Gated(e, TRUE)
    <2>1. b.gate.settled \subseteq Slots
      BY DEF Clients, Gates
    <2>2. b.gate.state # "rejected" =>
             \A j \in b.gate.settled : LiveIn(e, j) => e.sup[j].everReady
      BY <1>1, <1>3, <2>1 DEF Sound, Gated, Aside
    <2> QED
      BY <1>1, <1>3, <2>2 DEF Sound, Gated, Aside
  <1>8. Starting(e) /\ Told(e, TRUE) /\ Manned(e, TRUE)
    BY <1>1, <1>6 DEF Starting, Told, Manned, Aside
  <1>9. Failing(e, k, T) /\ Announced(e)
    BY <1>1, <1>3 DEF Sound, Failing, Announced, Aside
  <1>10. Locking(e)
    BY <1>1 DEF Sound, Locking, Aside
  <1>11. \A j \in Slots : Len(b.thread[j]) \in Nat
    BY ThreadsAre
  <1>12. Onward(b, e)
    BY <1>1, <1>11 DEF Onward, SameFate, Aside
  <1>13. e.thread[i][n] = "dead"
    BY <1>1
  <1> QED
    BY <1>1, <1>2, <1>4, <1>5, <1>7, <1>8, <1>9, <1>10, <1>12, <1>13 DEF Sound, e

(* pool.length = 0.                                                         *)
LEMMA ClearPoolKeeps ==
    ASSUME NEW b \in Clients, NEW k, NEW T, Sound(b, k, TRUE, T)
    PROVE  LET e == [b EXCEPT !.pool = [i \in Slots |-> 0]] IN
           Sound(e, FALSE, TRUE, T) /\ Onward(b, e) /\ e.thread = b.thread
  <1> DEFINE e == [b EXCEPT !.pool = [i \in Slots |-> 0]]
  <1>1. /\ e \in Clients /\ e.env = b.env /\ e.size = b.size /\ e.thread = b.thread
        /\ e.sup = b.sup /\ e.losses = b.losses /\ e.ready = b.ready
        /\ e.reported = b.reported /\ e.inStartup = b.inStartup /\ e.conn = b.conn
        /\ e.fatal = b.fatal /\ e.probed = b.probed /\ e.gate = b.gate
        /\ \A i \in Slots : e.pool[i] = 0
    BY DEF Clients
  <1> HIDE DEF e
  <1>2. \A i \in Slots : LiveIn(e, i) <=> LiveIn(b, i)
    BY <1>1 DEF LiveIn
  <1>3. Undead(e) <=> Undead(b)
    BY <1>2 DEF Undead
  <1>4. Latest(e, FALSE) /\ Counted(e, FALSE)
    BY <1>1, <1>2 DEF Sound, Latest, Counted
  <1>5. b.gate.state # "closed"
    BY DEF Sound, Gated
  <1>6. Gated(e, TRUE)
    <2>1. b.gate.settled \subseteq Slots
      BY DEF Clients, Gates
    <2>2. b.gate.state # "rejected" =>
             \A i \in b.gate.settled : LiveIn(e, i) => e.sup[i].everReady
      BY <1>1, <1>2, <2>1 DEF Sound, Gated
    <2> QED
      BY <1>1, <1>3, <2>2 DEF Sound, Gated
  <1>7. Starting(e) /\ Told(e, TRUE) /\ Manned(e, TRUE)
    BY <1>1, <1>5 DEF Starting, Told, Manned
  <1>8. Failing(e, FALSE, T) /\ Announced(e) /\ Locking(e)
    BY <1>1 DEF Sound, Failing, Announced, Locking
  <1>9. \A j \in Slots : Len(b.thread[j]) \in Nat
    BY ThreadsAre
  <1>10. Onward(b, e)
    BY <1>1, <1>9 DEF Onward, SameFate
  <1> QED
    BY <1>1, <1>4, <1>6, <1>7, <1>8, <1>10 DEF Sound, e

-----------------------------------------------------------------------------
(* The steps of the client keep the invariant.                              *)

(* The slots that count towards the pool's size are finitely many.          *)
LEMMA KeptFinite ==
    ASSUME NEW d
    PROVE  IsFiniteSet(Kept(d)) /\ Cardinality(Kept(d)) \in Nat
  <1>1. IsFiniteSet(Slots) /\ Kept(d) \in SUBSET Slots
    BY SlotsFacts DEF Kept
  <1>2. IsFiniteSet(Kept(d))
    BY <1>1, FS_Subset
  <1> QED
    BY <1>2, FS_CardinalityType

(* A thread is a slot and a number among that slot's threads.               *)
LEMMA ThreadOf ==
    ASSUME NEW t \in Threads
    PROVE  /\ t[1] \in Slots /\ t[2] \in 1 .. Len(c.thread[t[1]])
           /\ t = <<t[1], t[2]>>
  BY DEF Threads

(* The rest of the invariant, for steps that charge and lose as Onward says.*)
LEMMA SizedKept ==
    ASSUME TypeOK, Sized, c' \in Clients, c'.size = c.size,
           \A i \in Slots : c.sup[i].lost => c'.sup[i].lost
    PROVE  Sized'
  <1>1. Kept(c') \in SUBSET Kept(c)
    BY DEF Kept
  <1>2. Cardinality(Kept(c')) <= Cardinality(Kept(c))
    BY <1>1, KeptFinite, FS_Subset
  <1>3. /\ Cardinality(Kept(c)) \in Nat /\ Cardinality(Kept(c')) \in Nat
        /\ c.size \in Int
    BY KeptFinite DEF TypeOK, Clients
  <1>4. Cardinality(Kept(c')) <= c'.size
    BY <1>2, <1>3 DEF Sized
  <1> QED
    BY <1>4 DEF Sized, Kept

(* Charges and losses that only go forward stay paid for and counted.       *)
LEMMA OnwardKeeps ==
    ASSUME IInv, c' \in Clients, Onward(c, c'), deaths' = deaths
    PROVE  Charged' /\ Sized'
  <1>1. Sized'
    BY SizedKept DEF IInv, Onward, SameFate
  <1>2. Charged'
    BY DEF IInv, Charged, Onward, SameFate
  <1> QED
    BY <1>1, <1>2

(* A step that starts nothing during close() leaves nothing to sweep behind.*)
LEMMA SweepingKept ==
    ASSUME IInv, UNCHANGED <<phase, swept>>, c' \in Clients, c'.env = c.env,
           \A i \in Slots : Len(c'.thread[i]) >= Len(c.thread[i]),
           Closing /\ "closing" \notin c.env.deaths => NoNewLife(c, c')
    PROVE  Sweeping'
  <1>1. \A i \in Slots : swept[i] \in 0 .. Len(c'.thread[i])
    <2> TAKE i \in Slots
    <2>1. swept[i] \in 0 .. Len(c.thread[i]) /\ Len(c'.thread[i]) >= Len(c.thread[i])
      BY DEF IInv, Sweeping
    <2>2. Len(c.thread[i]) \in Nat /\ Len(c'.thread[i]) \in Nat
      BY ThreadsAre DEF IInv, TypeOK
    <2> QED
      BY <2>1, <2>2
  <1>2. ~PoolKept => Closing
    BY DEF PoolKept, Closing
  <1>3. ASSUME Closing, "closing" \notin c.env.deaths, NEW i \in Slots,
               NEW n \in 1 .. Len(c'.thread[i]), c'.thread[i][n] \in Alive
        PROVE  phase = "draining" \/ (phase = "sweeping" /\ swept[i] = n)
    <2>1. n \in 1 .. Len(c.thread[i]) /\ c.thread[i][n] \in Alive
      BY <1>3 DEF NoNewLife
    <2> QED
      BY <1>3, <2>1 DEF IInv, Sweeping
  <1> QED
    BY <1>1, <1>2, <1>3 DEF Sweeping, PoolKept, Closing

(* A step of the client alone that goes Onward.                             *)
LEMMA ClientStep ==
    ASSUME IInv, UNCHANGED <<phase, swept, tx, crashes, deaths>>,
           Sound(c', PoolKept, Closing, tx), Onward(c, c'),
           Closing /\ "closing" \notin c.env.deaths => NoNewLife(c, c')
    PROVE  IInv'
  <1>1. Sound(c, PoolKept, Closing, tx)'
    BY DEF PoolKept, Closing
  <1>2. c' \in Clients /\ c'.env = c.env
    BY DEF Sound, Onward, SameFate
  <1>3. TypeOK'
    BY <1>2 DEF IInv, TypeOK
  <1>4. Charged' /\ Sized'
    BY <1>2, OnwardKeeps
  <1>5. Sweeping'
    BY <1>2, SweepingKept DEF Onward
  <1> QED
    BY <1>1, <1>3, <1>4, <1>5 DEF IInv

(* A client as it is made, before it has started a worker.                  *)
LEMMA NewClientIs ==
    ASSUME NEW e \in Settings
    PROVE  LET d == NewClient(e) IN
           /\ d \in Clients /\ d.env = e /\ d.size = PoolSize
           /\ d.gate = ClosedGate /\ d.inStartup = TRUE /\ d.losses = {}
           /\ d.fatal = FALSE /\ d.ready = "pending" /\ d.granted = FALSE
           /\ d.conn = IF e.connection = "probed" THEN "undecided" ELSE "asked"
           /\ d.probed <=> e.connection # "probed"
           /\ \A i \in Slots :
                 /\ d.thread[i] = <<>> /\ d.pool[i] = 0 /\ d.reported[i] = 0
                 /\ d.sup[i].alive = TRUE /\ d.sup[i].lost = FALSE
                 /\ d.sup[i].everReady = FALSE /\ d.sup[i].restarts = 0
  <1> DEFINE s == [everReady |-> FALSE, alive |-> TRUE, lost |-> FALSE, restarts |-> 0]
             cn == IF e.connection = "probed" THEN "undecided" ELSE "asked"
             d == NewClient(e)
  <1>1. ClosedGate \in Gates
    BY DEF ClosedGate, Gates, GateStates
  <1>2. PoolSize \in 1 .. PoolSize
    BY PoolSizeAssumption
  <1>3. <<>> \in Seq(ThreadStates)
    OBVIOUS
  <1>4. [i \in Slots |-> <<>>] \in [Slots -> Seq(ThreadStates)]
    BY <1>3
  <1>5. s \in SlotRecords
    BY DEF SlotRecords
  <1>6. [i \in Slots |-> s] \in [Slots -> SlotRecords]
    BY <1>5
  <1>7. [i \in Slots |-> 0] \in [Slots -> Nat]
    OBVIOUS
  <1>8. cn \in LockStates
    BY DEF LockStates
  <1>9. d = [env |-> e, gate |-> ClosedGate, inStartup |-> TRUE, losses |-> {},
             thread |-> [i \in Slots |-> <<>>], pool |-> [i \in Slots |-> 0],
             sup |-> [i \in Slots |-> s], reported |-> [i \in Slots |-> 0],
             size |-> PoolSize, conn |-> cn, probed |-> e.connection # "probed",
             granted |-> FALSE, fatal |-> FALSE, ready |-> "pending"]
    BY DEF NewClient
  <1> HIDE DEF d, cn, s
  <1>10. d \in Clients
    BY <1>1, <1>2, <1>4, <1>6, <1>7, <1>8, <1>9 DEF Clients
  <1>11. \A i \in Slots : d.thread[i] = <<>> /\ d.pool[i] = 0 /\ d.reported[i] = 0 /\ d.sup[i] = s
    BY <1>9
  <1>12. /\ s.alive = TRUE /\ s.lost = FALSE /\ s.everReady = FALSE /\ s.restarts = 0
    BY DEF s
  <1>13. /\ d.env = e /\ d.size = PoolSize /\ d.gate = ClosedGate /\ d.inStartup = TRUE
         /\ d.losses = {} /\ d.fatal = FALSE /\ d.ready = "pending" /\ d.granted = FALSE
         /\ d.conn = cn /\ (d.probed <=> e.connection # "probed")
    BY <1>9
  <1> QED
    BY <1>10, <1>11, <1>12, <1>13 DEF cn, d

(* It is sound, and so is the one that has started all its workers.         *)
LEMMA NewClientSound ==
    ASSUME NEW e \in Settings
    PROVE  Sound(NewClient(e), TRUE, FALSE, {})
  <1> DEFINE d == NewClient(e)
  <1>1. d \in Clients
    BY NewClientIs
  <1>2. \A i \in Slots :
           /\ d.thread[i] = <<>> /\ d.pool[i] = 0 /\ d.reported[i] = 0
           /\ d.sup[i].alive = TRUE /\ d.sup[i].lost = FALSE
           /\ d.sup[i].everReady = FALSE /\ d.sup[i].restarts = 0
    BY NewClientIs
  <1>3. /\ d.gate = ClosedGate /\ d.inStartup = TRUE /\ d.losses = {} /\ d.env = e
        /\ d.fatal = FALSE /\ d.ready = "pending"
        /\ d.conn = IF e.connection = "probed" THEN "undecided" ELSE "asked"
        /\ d.probed <=> e.connection # "probed"
    BY NewClientIs
  <1> HIDE DEF d
  <1>4. /\ d.gate.state = "closed" /\ d.gate.settled = {} /\ d.gate.declined = {}
        /\ Failed(d.gate) = {}
    BY <1>3 DEF ClosedGate, Failed
  <1>5. \A i \in Slots : Len(d.thread[i]) = 0 /\ ~LiveIn(d, i)
    BY <1>2 DEF LiveIn
  <1>6. ~Undead(d)
    BY <1>5 DEF Undead
  <1>7. Latest(d, TRUE)
    BY <1>2, <1>5 DEF Latest
  <1>8. Counted(d, TRUE)
    BY <1>2, <1>5 DEF Counted
  <1>9. Gated(d, FALSE)
    BY <1>2, <1>3, <1>4, <1>5 DEF Gated
  <1>10. Starting(d)
    BY <1>2, <1>3, <1>4, <1>5 DEF Starting
  <1>11. Failing(d, TRUE, {}) /\ Announced(d) /\ Told(d, FALSE) /\ Manned(d, FALSE)
    BY <1>2, <1>3, <1>4 DEF Failing, Announced, Told, Manned
  <1>12. Locking(d)
    BY <1>2, <1>3, <1>4, <1>5 DEF Locking
  <1> QED
    BY <1>1, <1>7, <1>8, <1>9, <1>10, <1>11, <1>12 DEF Sound, d

(* ... and so it is where the workers start without an exclusive lock.       *)
LEMMA StartedSound ==
    ASSUME NEW e \in Settings, e.connection # "exclusive"
    PROVE  Sound(Spawn(NewClient(e), Slots), TRUE, FALSE, {})
  <1> DEFINE b == NewClient(e)
             d == Spawn(b, Slots)
  <1>1. /\ b \in Clients /\ b.gate = ClosedGate /\ b.inStartup = TRUE /\ b.losses = {}
        /\ b.env = e /\ b.fatal = FALSE /\ b.ready = "pending"
        /\ b.conn = IF e.connection = "probed" THEN "undecided" ELSE "asked"
        /\ b.probed <=> e.connection # "probed"
    BY NewClientIs
  <1>2. \A i \in Slots :
           /\ b.thread[i] = <<>> /\ b.pool[i] = 0 /\ b.reported[i] = 0
           /\ b.sup[i].alive = TRUE /\ b.sup[i].lost = FALSE
           /\ b.sup[i].everReady = FALSE /\ b.sup[i].restarts = 0
    BY NewClientIs
  <1> HIDE DEF b
  <1>3. Slots \in SUBSET Slots
    OBVIOUS
  <1>4. /\ d \in Clients /\ d.env = b.env /\ d.gate = b.gate /\ d.losses = b.losses
        /\ d.inStartup = b.inStartup /\ d.fatal = b.fatal /\ d.ready = b.ready
        /\ d.conn = b.conn /\ d.probed = b.probed /\ d.reported = b.reported
    BY <1>1, <1>3, SpawnIs DEF SameFate
  <1>5. \A i \in Slots :
           /\ Len(d.thread[i]) = Len(b.thread[i]) + 1
           /\ d.pool[i] = Len(d.thread[i])
           /\ d.thread[i][Len(d.thread[i])] = FirstState(b, i)
           /\ d.sup[i].alive <=> b.sup[i].alive \/ ~b.sup[i].lost
           /\ d.sup[i].lost = b.sup[i].lost
           /\ d.sup[i].everReady = b.sup[i].everReady
    BY <1>1, <1>3, SpawnIs
  <1>6. \A i \in Slots : LiveIn(d, i)
    BY <1>1, <1>3, SpawnLives
  <1> HIDE DEF d
  <1>7. \A i \in Slots : Len(b.thread[i]) = 0
    BY <1>2
  <1>8. \A i \in Slots :
           /\ Len(d.thread[i]) = 1 /\ d.pool[i] = 1 /\ d.thread[i][1] = FirstState(b, i)
           /\ d.sup[i].alive = TRUE /\ d.sup[i].lost = FALSE /\ d.sup[i].everReady = FALSE
    <2>1. 0 + 1 = 1
      OBVIOUS
    <2>2. \A i \in Slots : d.sup[i].alive \in BOOLEAN
      BY <1>4 DEF Clients, SlotRecords
    <2> TAKE i \in Slots
    <2>3. Len(d.thread[i]) = 1
      BY <1>5, <1>7, <2>1
    <2>4. d.pool[i] = 1 /\ d.thread[i][1] = FirstState(b, i)
      BY <1>5, <2>3
    <2>5. d.sup[i].alive = TRUE /\ d.sup[i].lost = FALSE /\ d.sup[i].everReady = FALSE
      BY <1>2, <1>5, <2>2
    <2> QED
      BY <2>3, <2>4, <2>5
  <1>9. /\ d.gate.state = "closed" /\ d.gate.settled = {} /\ d.gate.declined = {}
        /\ Failed(d.gate) = {}
    BY <1>1, <1>4 DEF ClosedGate, Failed
  <1>10. Latest(d, TRUE)
    <2>1. \A i \in Slots : \A n \in 1 .. Len(d.thread[i]) : n = 1
      <3>1. \A n \in 1 .. 1 : n = 1
        OBVIOUS
      <3> QED
        BY <1>8, <3>1
    <2>2. \A i \in Slots : d.thread[i][1] = "probing" => i = 0
      BY <1>8 DEF FirstState
    <2> QED
      BY <1>8, <2>1, <2>2 DEF Latest
  <1>11. Counted(d, TRUE)
    BY <1>8 DEF Counted
  <1>12. Gated(d, FALSE)
    BY <1>1, <1>2, <1>4, <1>9 DEF Gated
  <1>13. Starting(d)
    BY <1>1, <1>4, <1>6, <1>8, <1>9 DEF Starting
  <1>14. Failing(d, TRUE, {}) /\ Announced(d) /\ Told(d, FALSE) /\ Manned(d, FALSE)
    BY <1>1, <1>2, <1>4, <1>9 DEF Failing, Announced, Told, Manned
  <1>15. Locking(d)
    BY <1>1, <1>4 DEF Locking
  <1> QED
    BY <1>4, <1>10, <1>11, <1>12, <1>13, <1>14, <1>15 DEF Sound, d, b

(* The client as it is made satisfies the invariant.                        *)
LEMMA InitOK == Init => IInv
  <1> SUFFICES ASSUME Init PROVE IInv
    OBVIOUS
  <1>1. PICK e \in Environments :
           c = IF e.connection = "exclusive" THEN NewClient(e)
               ELSE Spawn(NewClient(e), Slots)
    BY DEF Init
  <1>2. e \in Settings
    BY LifecycleAssumption
  <1>3. Sound(c, TRUE, FALSE, {})
    BY <1>1, <1>2, NewClientSound, StartedSound
  <1>4. PoolKept /\ ~Closing /\ tx = {}
    BY DEF Init, PoolKept, Closing
  <1>5. Sound(c, PoolKept, Closing, tx)
    BY <1>3, <1>4, SoundFor
  <1>6. TypeOK
    <2>1. c \in Clients
      BY <1>3 DEF Sound
    <2>2. 0 \in 0 .. MaxCrashes
      BY LifecycleAssumption
    <2> QED
      BY <2>1, <2>2 DEF Init, TypeOK
  <1>7. /\ c.size = PoolSize
        /\ \A i \in Slots : c.sup[i].lost = FALSE /\ c.sup[i].restarts = 0
    <2> DEFINE b == NewClient(e)
    <2>1. b \in Clients /\ b.size = PoolSize
      BY <1>2, NewClientIs
    <2>2. \A i \in Slots :
             /\ b.thread[i] = <<>> /\ b.pool[i] = 0 /\ b.reported[i] = 0
             /\ b.sup[i].alive = TRUE /\ b.sup[i].lost = FALSE
             /\ b.sup[i].everReady = FALSE /\ b.sup[i].restarts = 0
      BY <1>2, NewClientIs
    <2>3. Slots \in SUBSET Slots
      OBVIOUS
    <2> DEFINE d == Spawn(b, Slots)
    <2> HIDE DEF b
    <2>4. d.size = b.size /\ \A i \in Slots : d.sup[i].lost = b.sup[i].lost
                                          /\ d.sup[i].restarts = b.sup[i].restarts
      BY <2>1, <2>3, SpawnIs DEF SameFate
    <2>5. c = b \/ c = d
      BY <1>1 DEF b
    <2> HIDE DEF d
    <2> QED
      BY <2>1, <2>2, <2>4, <2>5
  <1>8. Charged
    BY <1>7 DEF Init, Charged
  <1>9. Sized
    <2>1. Kept(c) \in SUBSET (0 .. PoolSize - 1)
      BY DEF Kept, Slots
    <2>2. /\ IsFiniteSet(0 .. PoolSize - 1)
          /\ Cardinality(0 .. PoolSize - 1) = IF 0 > PoolSize - 1 THEN 0 ELSE PoolSize - 1 - 0 + 1
      BY FS_Interval, PoolSizeAssumption
    <2>3. Cardinality(Kept(c)) <= Cardinality(0 .. PoolSize - 1)
      BY <2>1, <2>2, FS_Subset
    <2>4. Cardinality(0 .. PoolSize - 1) = PoolSize
      BY <2>2, PoolSizeAssumption
    <2> QED
      BY <1>7, <2>3, <2>4 DEF Sized
  <1>10. Sweeping
    <2>1. \A i \in Slots : Len(c.thread[i]) \in Nat
      BY <1>6, ThreadsAre DEF TypeOK
    <2>2. \A i \in Slots : swept[i] \in 0 .. Len(c.thread[i])
      BY <2>1 DEF Init
    <2> QED
      BY <1>4, <2>2 DEF Sweeping
  <1> QED
    BY <1>5, <1>6, <1>8, <1>9, <1>10 DEF IInv

(* Where close() has emptied the pool, it was called.                       *)
LEMMA Before ==
    ASSUME IInv
    PROVE  /\ c \in Clients /\ Sound(c, PoolKept, Closing, tx)
           /\ ~PoolKept => Closing
           /\ Closing \in BOOLEAN
  BY DEF IInv, Sweeping, TypeOK, Closing

(* The invariant of the record, with close()'s two bits as plain booleans.  *)
LEMMA Meanwhile ==
    ASSUME IInv
    PROVE  \E k, z : /\ k <=> PoolKept
                     /\ z <=> Closing
                     /\ Sound(c, k, z, tx) /\ (~k => z) /\ z \in BOOLEAN
  <1>1. PoolKept \in BOOLEAN /\ Closing \in BOOLEAN
    BY DEF PoolKept, Closing
  <1>2. PICK k \in BOOLEAN : k <=> PoolKept
    <2>1. CASE PoolKept
      BY <2>1
    <2>2. CASE ~PoolKept
      BY <2>2
    <2> QED
      BY <2>1, <2>2
  <1>3. PICK z \in BOOLEAN : z <=> Closing
    <2>1. CASE Closing
      BY <2>1
    <2>2. CASE ~Closing
      BY <2>2
    <2> QED
      BY <2>1, <2>2
  <1>4. Sound(c, k, z, tx)
    BY <1>2, <1>3, Before, SoundFor
  <1>5. ~k => z
    BY <1>2, <1>3, Before
  <1> QED
    BY <1>2, <1>3, <1>4, <1>5

(* One lemma per action: it keeps the invariant.  `ready' loses no slot.     *)
LEMMA ReadyStep ==
    ASSUME IInv, NEW t \in Threads, Ready(t)
    PROVE  /\ IInv'
           /\ ~c.inStartup => \A j \in Slots : c'.sup[j].lost = c.sup[j].lost
  <1> DEFINE i == t[1]
             n == t[2]
  <1>1. i \in Slots /\ n \in 1 .. Len(c.thread[i])
    BY ThreadOf
  <1>2. c.thread[i][n] = "opening" /\ ~(c.env.declining /\ i # 0)
    BY DEF Ready, State, MayDecline
  <1> DEFINE f == Settle(Noted(c, i, n), i, "opened")
  <1>3. c' = f
    BY DEF Ready, Noted
  <1> HIDE DEF i, n
  <1>4. PICK k, z : /\ k <=> PoolKept
                    /\ z <=> Closing
                    /\ Sound(c, k, z, tx) /\ (~k => z)
    BY Meanwhile
  <1>5. c \in Clients
    BY Before
  <1>6. /\ Sound(f, k, z, tx) /\ Onward(c, f) /\ (z => NoNewLife(c, f))
        /\ ~c.inStartup => \A j \in Slots : f.sup[j].lost = c.sup[j].lost
    BY <1>1, <1>2, <1>4, <1>5, ReadyKeeps
  <1> HIDE DEF f
  <1>8. Sound(c', PoolKept, Closing, tx)
    BY <1>3, <1>4, <1>6, SoundFor
  <1>9. Onward(c, c') /\ (Closing => NoNewLife(c, c'))
    BY <1>3, <1>4, <1>6
  <1>7. UNCHANGED <<phase, swept, tx, crashes, deaths>>
    BY DEF Ready
  <1> QED
    BY <1>3, <1>6, <1>7, <1>8, <1>9, ClientStep

(* A worker's thread or the lock changes: all the rest of the client stays. *)
LEMMA QuietStep ==
    ASSUME IInv, NEW e \in Clients, c' = e, UNCHANGED <<phase, swept, tx, crashes, deaths>>,
           /\ e.env = c.env /\ e.size = c.size /\ e.pool = c.pool
           /\ e.losses = c.losses /\ e.reported = c.reported /\ e.sup = c.sup
           /\ e.inStartup = c.inStartup /\ e.gate = c.gate /\ e.fatal = c.fatal,
           \A i \in Slots :
               /\ Len(e.thread[i]) = Len(c.thread[i])
               /\ \A n \in 1 .. Len(c.thread[i]) :
                     /\ e.thread[i][n] \in Alive <=> c.thread[i][n] \in Alive
                     /\ e.thread[i][n] = "probing" => c.thread[i][n] = "probing",
           e.conn # "undecided" => e.probed,
           e.conn = "undecided" => c.conn = "undecided",
           e.conn = "asked" => c.conn = "asked" \/ c.env.connection = "probed",
           e.ready = "resolved" => ~c.inStartup,
           tx # {} => /\ e.probed /\ e.ready = "resolved"
                      /\ e.conn \notin {"undecided", "asked"}
    PROVE  IInv'
  <1>1. Sound(c, PoolKept, Closing, tx)
    BY Before
  <1>2. tx # {} => c.gate.state = "open" /\ (c.fatal => \A i \in Slots : ~c.sup[i].alive)
    BY <1>1 DEF Sound, Failing
  <1>3. Sound(e, PoolKept, Closing, tx)
    BY <1>1, <1>2, Before, TouchKeeps
  <1>4. \A i \in Slots : Len(c.thread[i]) \in Nat
    BY Before, ThreadsAre
  <1>5. Onward(c, c')
    BY <1>4 DEF Onward, SameFate
  <1>6. NoNewLife(c, c')
    BY DEF NoNewLife
  <1> QED
    BY <1>3, <1>5, <1>6, ClientStep

(* Worker 0 answers its probe.                                              *)
LEMMA ProbedStep ==
    ASSUME IInv, NEW t \in Threads, Probed(t)
    PROVE  IInv'
  <1> DEFINE n == t[2]
             v == IF c.granted /\ ~Closing THEN "opening" ELSE "answered"
             m == [c EXCEPT !.thread[0][n] = v]
             e == [m EXCEPT !.probed = TRUE]
  <1>1. t[1] \in Slots /\ n \in 1 .. Len(c.thread[t[1]]) /\ c.thread[t[1]][n] = "probing"
    BY ThreadOf DEF Probed, State
  <1>2. c \in Clients /\ Sound(c, PoolKept, Closing, tx)
    BY Before
  <1>3. t[1] = 0
    BY <1>1, <1>2 DEF Sound, Latest
  <1>4. 0 \in Slots /\ n \in 1 .. Len(c.thread[0]) /\ c.thread[0][n] = "probing"
    BY <1>1, <1>3
  <1>5. v \in ThreadStates /\ v \in Alive /\ v # "probing" /\ "probing" \in Alive
    BY DEF ThreadStates, Alive
  <1>6. c' = [c EXCEPT !.thread[0][n] = v, !.probed = TRUE]
    BY DEF Probed
  <1> HIDE DEF v, n
  <1>7. /\ m \in Clients
        /\ Aside(c, m)
        /\ \A j \in Slots : Len(m.thread[j]) = Len(c.thread[j])
        /\ \A j \in Slots : \A k \in 1 .. Len(c.thread[j]) :
              m.thread[j][k] = IF j = 0 /\ k = n THEN v ELSE c.thread[j][k]
    BY <1>2, <1>4, <1>5, ThreadSet
  <1>8. c' = e
    <2>1. c.thread \in [Slots -> Seq(ThreadStates)]
      BY <1>2 DEF Clients
    <2> QED
      BY <1>2, <1>4, <1>6, <2>1 DEF Clients
  <1> HIDE DEF m
  <1>9. /\ e \in Clients /\ e.probed = TRUE /\ e.env = m.env /\ e.size = m.size
        /\ e.pool = m.pool /\ e.losses = m.losses /\ e.reported = m.reported
        /\ e.sup = m.sup /\ e.inStartup = m.inStartup /\ e.gate = m.gate
        /\ e.fatal = m.fatal /\ e.conn = m.conn /\ e.ready = m.ready
        /\ e.thread = m.thread
    BY <1>7 DEF Clients
  <1> HIDE DEF e
  <1>10. \A j \in Slots :
            /\ Len(e.thread[j]) = Len(c.thread[j])
            /\ \A k \in 1 .. Len(c.thread[j]) :
                  /\ e.thread[j][k] \in Alive <=> c.thread[j][k] \in Alive
                  /\ e.thread[j][k] = "probing" => c.thread[j][k] = "probing"
    BY <1>4, <1>5, <1>7, <1>9
  <1>11. /\ e.ready = c.ready /\ e.conn = c.conn /\ e.env = c.env /\ e.size = c.size
         /\ e.pool = c.pool /\ e.losses = c.losses /\ e.reported = c.reported
         /\ e.sup = c.sup /\ e.inStartup = c.inStartup /\ e.gate = c.gate
         /\ e.fatal = c.fatal
    BY <1>7, <1>9 DEF Aside
  <1>12. e.ready = "resolved" => ~c.inStartup
    BY <1>2, <1>11 DEF Sound, Gated
  <1>13. tx # {} => /\ e.probed /\ e.ready = "resolved"
                    /\ e.conn \notin {"undecided", "asked"}
    BY <1>2, <1>9, <1>11 DEF Sound, Failing
  <1>14. UNCHANGED <<phase, swept, tx, crashes, deaths>>
    BY DEF Probed
  <1> QED
    BY <1>8, <1>9, <1>10, <1>11, <1>12, <1>13, <1>14, QuietStep

(* The probe's answer and the lock request touch no worker.                 *)
LEMMA LockStep ==
    ASSUME IInv, NEW cn \in LockStates, NEW pr \in BOOLEAN,
           NEW rd \in {"pending", "resolved", "rejected"},
           c' = [c EXCEPT !.conn = cn, !.probed = pr, !.ready = rd],
           UNCHANGED <<phase, swept, tx, crashes, deaths>>,
           cn # "undecided" => pr,
           cn = "undecided" => c.conn = "undecided",
           cn = "asked" => c.conn = "asked" \/ c.env.connection = "probed",
           rd = "resolved" => ~c.inStartup,
           tx # {} => pr /\ rd = "resolved" /\ cn \notin {"undecided", "asked"}
    PROVE  IInv'
  <1> DEFINE e == [c EXCEPT !.conn = cn, !.probed = pr, !.ready = rd]
  <1>1. c \in Clients
    BY Before
  <1>2. /\ e \in Clients /\ e.probed = pr /\ e.conn = cn /\ e.ready = rd
        /\ e.env = c.env /\ e.size = c.size
        /\ e.pool = c.pool /\ e.losses = c.losses /\ e.reported = c.reported
        /\ e.sup = c.sup /\ e.inStartup = c.inStartup /\ e.gate = c.gate
        /\ e.fatal = c.fatal /\ e.thread = c.thread
    BY <1>1 DEF Clients
  <1>3. c' = e
    OBVIOUS
  <1> HIDE DEF e
  <1>4. \A j \in Slots :
            /\ Len(e.thread[j]) = Len(c.thread[j])
            /\ \A k \in 1 .. Len(c.thread[j]) :
                  /\ e.thread[j][k] \in Alive <=> c.thread[j][k] \in Alive
                  /\ e.thread[j][k] = "probing" => c.thread[j][k] = "probing"
    BY <1>2
  <1> QED
    BY <1>2, <1>3, <1>4, QuietStep

(* Another client answered the probe.                                       *)
LEMMA ProbedElsewhereStep ==
    ASSUME IInv, ProbedElsewhere
    PROVE  IInv'
  <1>1. c \in Clients /\ Sound(c, PoolKept, Closing, tx)
    BY Before
  <1>2. c' = [c EXCEPT !.conn = c.conn, !.probed = TRUE, !.ready = c.ready]
    BY <1>1 DEF ProbedElsewhere, Clients
  <1>3. c.conn \in LockStates /\ c.ready \in {"pending", "resolved", "rejected"}
    BY <1>1 DEF Clients
  <1>4. c.ready = "resolved" => ~c.inStartup
    BY <1>1 DEF Sound, Gated
  <1>5. tx # {} => c.ready = "resolved" /\ c.conn \notin {"undecided", "asked"}
    BY <1>1 DEF Sound, Failing
  <1>6. UNCHANGED <<phase, swept, tx, crashes, deaths>>
    BY DEF ProbedElsewhere
  <1> QED
    BY <1>2, <1>3, <1>4, <1>5, <1>6, LockStep

(* The lock is asked for once the mode is known.                            *)
LEMMA AskLockStep ==
    ASSUME IInv, AskLock
    PROVE  IInv'
  <1> DEFINE cn == IF c.fatal \/ Closing THEN "none" ELSE "asked"
  <1>1. c \in Clients /\ Sound(c, PoolKept, Closing, tx)
    BY Before
  <1>2. c' = [c EXCEPT !.conn = cn, !.probed = c.probed, !.ready = c.ready]
    BY <1>1 DEF AskLock, Clients
  <1>3. /\ cn \in LockStates /\ c.ready \in {"pending", "resolved", "rejected"}
        /\ c.probed \in BOOLEAN /\ c.probed = TRUE /\ cn \in {"none", "asked"}
    BY <1>1 DEF AskLock, Clients, LockStates
  <1> HIDE DEF cn
  <1>4. c.ready = "resolved" => ~c.inStartup
    BY <1>1 DEF Sound, Gated
  <1>5. tx = {}
    BY <1>1 DEF Sound, Failing, AskLock
  <1>6. UNCHANGED <<phase, swept, tx, crashes, deaths>>
    BY DEF AskLock
  <1>7. c.env.connection = "probed"
    BY <1>1 DEF Sound, Locking, AskLock
  <1> QED
    BY <1>2, <1>3, <1>4, <1>5, <1>6, <1>7, LockStep

(* The pragmas are applied: the client is ready.                            *)
LEMMA SetupAppliedStep ==
    ASSUME IInv, SetupApplied
    PROVE  IInv'
  <1>1. c \in Clients /\ Sound(c, PoolKept, Closing, tx)
    BY Before
  <1>2. c' = [c EXCEPT !.conn = c.conn, !.probed = c.probed, !.ready = "resolved"]
    BY <1>1 DEF SetupApplied, Clients
  <1>3. /\ c.conn \in LockStates /\ c.probed \in BOOLEAN
        /\ "resolved" \in {"pending", "resolved", "rejected"}
    BY <1>1 DEF Clients
  <1>4. ~c.inStartup
    BY <1>1 DEF Sound, Gated, SetupApplied, SettingUp
  <1>5. c.conn = "granted" /\ c.probed
    BY <1>1 DEF Sound, Locking, SetupApplied, SettingUp
  <1>6. UNCHANGED <<phase, swept, tx, crashes, deaths>>
    BY DEF SetupApplied
  <1> QED
    BY <1>2, <1>3, <1>4, <1>5, <1>6, LockStep

(* failClient() where no transaction runs yet.                              *)
LEMMA FailStep ==
    ASSUME IInv, NEW m \in Clients, Sound(m, PoolKept, Closing, tx), tx = {},
           m.thread = c.thread, m.sup = c.sup, m.env = c.env, m.size = c.size,
           c' = FailClient(m), UNCHANGED <<phase, swept, tx, crashes, deaths>>
    PROVE  IInv'
  <1>1. PICK k, z : /\ k <=> PoolKept
                    /\ z <=> Closing
                    /\ Sound(c, k, z, tx) /\ (~k => z)
    BY Meanwhile
  <1>2. Sound(m, k, z, {})
    BY <1>1, SoundFor
  <1> DEFINE f == FailClient(m)
  <1>3. Sound(f, k, z, {})
    BY <1>1, <1>2, FailKeeps
  <1>4. Quieter(m, f) /\ SameFate(m, f) /\ f.sup = m.sup
    BY FailClientIs
  <1>5. c' = f
    OBVIOUS
  <1> HIDE DEF f
  <1>6. Sound(f, PoolKept, Closing, tx)
    BY <1>1, <1>3, SoundFor
  <1>7. \A i \in Slots : Len(c.thread[i]) \in Nat
    BY Before, ThreadsAre
  <1>8. Onward(c, f)
    BY <1>4, <1>7 DEF Onward, SameFate, Quieter
  <1>9. NoNewLife(m, f)
    BY <1>4, QuieterLives
  <1>10. NoNewLife(c, f)
    BY <1>9 DEF NoNewLife
  <1> QED
    BY <1>5, <1>6, <1>8, <1>10, ClientStep

(* A pragma failed: the client fails.                                       *)
LEMMA SetupFailsStep ==
    ASSUME IInv, SetupFails
    PROVE  IInv'
  <1>1. c \in Clients /\ Sound(c, PoolKept, Closing, tx)
    BY Before
  <1>2. tx = {}
    BY <1>1 DEF Sound, Failing, SetupFails, SettingUp
  <1>3. c' = FailClient(c) /\ UNCHANGED <<phase, swept, tx, crashes, deaths>>
    BY DEF SetupFails
  <1> QED
    BY <1>1, <1>2, <1>3, FailStep

(* The lock was refused: the client fails.                                  *)
LEMMA RefusedStep ==
    ASSUME IInv, LockTaken, c' = Refused([c EXCEPT !.conn = "refused"])
    PROVE  IInv'
  <1> DEFINE m == [c EXCEPT !.conn = "refused"]
  <1>1. c \in Clients /\ Sound(c, PoolKept, Closing, tx)
    BY Before
  <1>2. "refused" \in LockStates
    BY DEF LockStates
  <1>3. /\ m \in Clients /\ m.conn = "refused" /\ m.env = c.env /\ m.size = c.size
        /\ m.pool = c.pool /\ m.losses = c.losses /\ m.reported = c.reported
        /\ m.inStartup = c.inStartup /\ m.gate = c.gate /\ m.fatal = c.fatal
        /\ m.sup = c.sup /\ m.thread = c.thread /\ m.probed = c.probed
        /\ m.ready = c.ready
    BY <1>1, <1>2 DEF Clients
  <1>4. c' = FailClient(m) /\ UNCHANGED <<phase, swept, tx, crashes, deaths>>
    BY DEF Refused, LockTaken
  <1> HIDE DEF m
  <1>5. tx = {}
    BY <1>1 DEF Sound, Failing, LockTaken
  <1>6. c.probed
    BY <1>1 DEF Sound, Locking, LockTaken
  <1>7. c.ready = "resolved" => ~c.inStartup
    BY <1>1 DEF Sound, Gated
  <1>8. Sound(m, PoolKept, Closing, tx)
    BY <1>1, <1>3, <1>5, <1>6, <1>7, TouchKeeps
  <1> QED
    BY <1>3, <1>4, <1>5, <1>8, FailStep

(* The lock is ours, and nothing else happens at once.                      *)
LEMMA LockOnlyStep ==
    ASSUME IInv, LockTaken, NEW cn \in {"none", "granted"},
           c' = [c EXCEPT !.conn = cn]
    PROVE  IInv'
  <1>1. c \in Clients /\ Sound(c, PoolKept, Closing, tx)
    BY Before
  <1>2. c' = [c EXCEPT !.conn = cn, !.probed = c.probed, !.ready = c.ready]
    BY <1>1 DEF Clients
  <1>3. /\ cn \in LockStates /\ c.ready \in {"pending", "resolved", "rejected"}
        /\ c.probed \in BOOLEAN
    BY <1>1 DEF Clients, LockStates
  <1>4. c.ready = "resolved" => ~c.inStartup
    BY <1>1 DEF Sound, Gated
  <1>5. tx = {}
    BY <1>1 DEF Sound, Failing, LockTaken
  <1>6. UNCHANGED <<phase, swept, tx, crashes, deaths>>
    BY DEF LockTaken
  <1>7. c.probed
    BY <1>1 DEF Sound, Locking, LockTaken
  <1> QED
    BY <1>2, <1>3, <1>4, <1>5, <1>6, <1>7, LockStep

(* startWorkers(), once the exclusive lock is ours.                         *)
LEMMA StartStep ==
    ASSUME IInv, LockTaken, c.env.connection = "exclusive", ~c.fatal, ~Closing,
           c' = Spawn([c EXCEPT !.conn = "granted"], Slots)
    PROVE  IInv'
  <1>1. c \in Clients /\ Sound(c, PoolKept, Closing, tx) /\ c.conn = "asked"
    BY Before DEF LockTaken
  <1>2. Sound(c', PoolKept, Closing, tx) /\ Onward(c, c')
    BY <1>1, StartKeeps
  <1>3. UNCHANGED <<phase, swept, tx, crashes, deaths>>
    BY DEF LockTaken
  <1> QED
    BY <1>2, <1>3, ClientStep

(* maybeProceed, once the lock is ours.                                     *)
LEMMA ProceedStep ==
    ASSUME IInv, LockTaken, c' = Proceed([c EXCEPT !.conn = "granted"])
    PROVE  IInv'
  <1> DEFINE s == [n \in 1 .. Len(c.thread[0]) |->
                      IF c.thread[0][n] = "answered" /\ ~Closing THEN "opening"
                      ELSE c.thread[0][n]]
             e == [c EXCEPT !.conn = "granted", !.granted = TRUE,
                            !.thread = [c.thread EXCEPT ![0] = s]]
  <1>1. c \in Clients /\ Sound(c, PoolKept, Closing, tx)
    BY Before
  <1>2. 0 \in Slots
    BY SlotsFacts
  <1>3. /\ Len(c.thread[0]) \in Nat
        /\ \A n \in 1 .. Len(c.thread[0]) : c.thread[0][n] \in ThreadStates
    BY <1>1, <1>2, ThreadsAre
  <1>4. "opening" \in ThreadStates /\ "granted" \in LockStates
    BY DEF ThreadStates, LockStates
  <1>5. s \in [1 .. Len(c.thread[0]) -> ThreadStates]
    BY <1>3, <1>4
  <1>6. s \in Seq(ThreadStates) /\ Len(s) = Len(c.thread[0])
    <2> HIDE DEF s
    <2>1. s \in Seq(ThreadStates)
      BY <1>3, <1>5
    <2>2. DOMAIN s = 1 .. Len(s) /\ Len(s) \in Nat
      BY <2>1
    <2> QED
      BY <1>3, <1>5, <2>1, <2>2
  <1>7. \A n \in 1 .. Len(c.thread[0]) :
           s[n] = IF c.thread[0][n] = "answered" /\ ~Closing THEN "opening"
                  ELSE c.thread[0][n]
    OBVIOUS
  <1>8. c' = e
    <2>1. c.thread \in [Slots -> Seq(ThreadStates)]
      BY <1>1 DEF Clients
    <2> QED
      BY <1>1, <1>2, <2>1 DEF Proceed, Clients
  <1> HIDE DEF s
  <1>9. c.thread \in [Slots -> Seq(ThreadStates)]
    BY <1>1 DEF Clients
  <1> DEFINE th == [c.thread EXCEPT ![0] = s]
  <1>10. /\ th \in [Slots -> Seq(ThreadStates)] /\ th[0] = s
         /\ \A i \in Slots \ {0} : th[i] = c.thread[i]
    BY <1>2, <1>6, <1>9
  <1> HIDE DEF th
  <1>11. e = [c EXCEPT !.conn = "granted", !.granted = TRUE, !.thread = th]
    BY DEF th
  <1> HIDE DEF e
  <1>12. /\ e \in Clients /\ e.thread = th /\ e.conn = "granted" /\ e.env = c.env
         /\ e.size = c.size /\ e.pool = c.pool /\ e.losses = c.losses
         /\ e.reported = c.reported /\ e.sup = c.sup /\ e.inStartup = c.inStartup
         /\ e.gate = c.gate /\ e.fatal = c.fatal /\ e.probed = c.probed
         /\ e.ready = c.ready
    BY <1>1, <1>4, <1>10, <1>11 DEF Clients
  <1>13. \A i \in Slots :
            /\ Len(e.thread[i]) = Len(c.thread[i])
            /\ \A n \in 1 .. Len(c.thread[i]) :
                  /\ e.thread[i][n] \in Alive <=> c.thread[i][n] \in Alive
                  /\ e.thread[i][n] = "probing" => c.thread[i][n] = "probing"
    <2> TAKE i \in Slots
    <2>1. CASE i = 0
      BY <1>6, <1>7, <1>10, <1>12, <2>1 DEF Alive, ThreadStates
    <2>2. CASE i # 0
      BY <1>10, <1>12, <2>2
    <2> QED
      BY <2>1, <2>2
  <1>14. tx = {}
    BY <1>1 DEF Sound, Failing, LockTaken
  <1>15. e.conn # "undecided" => e.probed
    BY <1>1, <1>12 DEF Sound, Locking, LockTaken
  <1>16. e.ready = "resolved" => ~c.inStartup
    BY <1>1, <1>12 DEF Sound, Gated
  <1>17. UNCHANGED <<phase, swept, tx, crashes, deaths>>
    BY DEF LockTaken
  <1> QED
    BY <1>8, <1>12, <1>13, <1>14, <1>15, <1>16, <1>17, QuietStep

(* Whatever the lock request came to.                                       *)
LEMMA LockTakenStep ==
    ASSUME IInv, LockTaken
    PROVE  IInv'
  <1> DEFINE m == [c EXCEPT !.conn = "granted"]
  <1>1. CASE c.fatal /\ c' = [c EXCEPT !.conn = "none"]
    BY <1>1, LockOnlyStep
  <1>2. CASE ~c.fatal /\ c' = Granted(m)
    <2>1. c \in Clients /\ m.env = c.env
      BY Before DEF Clients
    <2>2. c.env.connection \in {"shared", "exclusive", "probed"}
      BY <2>1 DEF Clients, Settings
    <2>3. CASE c.env.connection = "shared"
      <3>1. c' = m
        BY <1>2, <2>1, <2>3 DEF Granted
      <3> QED
        BY <3>1, LockOnlyStep
    <2>4. CASE c.env.connection = "exclusive"
      <3>1. c' = StartWorkers(m)
        BY <1>2, <2>1, <2>4 DEF Granted
      <3>2. CASE Closing
        <4>1. c' = m
          BY <3>1, <3>2 DEF StartWorkers
        <4> QED
          BY <4>1, LockOnlyStep
      <3>3. CASE ~Closing
        <4>1. c' = Spawn(m, Slots)
          BY <3>1, <3>3 DEF StartWorkers
        <4> QED
          BY <1>2, <2>4, <3>3, <4>1, StartStep
      <3> QED
        BY <3>2, <3>3
    <2>5. CASE c.env.connection = "probed"
      <3>1. c' = Proceed(m)
        BY <1>2, <2>1, <2>5 DEF Granted
      <3> QED
        BY <3>1, ProceedStep
    <2> QED
      BY <2>2, <2>3, <2>4, <2>5
  <1>3. CASE c' = Refused([c EXCEPT !.conn = "refused"])
    BY <1>3, RefusedStep
  <1> QED
    BY <1>1, <1>2, <1>3 DEF LockTaken

(* A worker served: its slot's charges and deaths are forgotten together.   *)
LEMMA ServeStep ==
    ASSUME IInv, NEW t \in Threads, Serve(t)
    PROVE  IInv'
  <1> DEFINE i == t[1]
             s == [c.sup[i] EXCEPT !.restarts = 0]
             e == [c EXCEPT !.sup[i] = s]
  <1>1. i \in Slots
    BY ThreadOf
  <1>2. c \in Clients /\ Sound(c, PoolKept, Closing, tx)
    BY Before
  <1>3. c' = e
    BY <1>1, <1>2 DEF Serve, Clients
  <1> HIDE DEF i
  <1>4. c.sup[i] \in SlotRecords
    BY <1>1, <1>2 DEF Clients
  <1>5. /\ s \in SlotRecords /\ s.restarts = 0 /\ s.alive = c.sup[i].alive
        /\ s.lost = c.sup[i].lost /\ s.everReady = c.sup[i].everReady
    BY <1>4 DEF SlotRecords
  <1> HIDE DEF s
  <1>6. /\ e \in Clients /\ e.env = c.env /\ e.size = c.size
        /\ e.thread = c.thread /\ e.pool = c.pool /\ e.losses = c.losses
        /\ e.reported = c.reported /\ e.ready = c.ready
        /\ e.inStartup = c.inStartup /\ e.gate = c.gate /\ e.conn = c.conn
        /\ e.probed = c.probed /\ e.fatal = c.fatal
        /\ e.sup[i] = s
        /\ \A j \in Slots \ {i} : e.sup[j] = c.sup[j]
    BY <1>1, <1>2, <1>5, SupSet
  <1> HIDE DEF e
  <1>7. \A j \in Slots : /\ e.sup[j].alive = c.sup[j].alive
                         /\ e.sup[j].lost = c.sup[j].lost
                         /\ e.sup[j].everReady = c.sup[j].everReady
                         /\ e.sup[j].restarts = IF j = i THEN 0 ELSE c.sup[j].restarts
    BY <1>5, <1>6
  <1>8. c.conn # "undecided" => c.probed
    BY <1>2 DEF Sound, Locking
  <1>9. c.ready = "resolved" => ~c.inStartup
    BY <1>2 DEF Sound, Gated
  <1>10. tx # {} => /\ c.gate.state = "open" /\ c.probed /\ c.ready = "resolved"
                    /\ c.conn \notin {"undecided", "asked"}
                    /\ c.fatal => \A j \in Slots : ~c.sup[j].alive
    BY <1>2 DEF Sound, Failing
  <1>11. Sound(e, PoolKept, Closing, tx)
    BY <1>2, <1>6, <1>7, <1>8, <1>9, <1>10, TouchKeeps
  <1>12. Sound(c, PoolKept, Closing, tx)'
    BY <1>3, <1>11 DEF Serve, PoolKept, Closing
  <1>13. TypeOK'
    BY <1>3, <1>6 DEF IInv, TypeOK, Serve, i
  <1>14. Charged'
    <2>1. \A j \in Slots : deaths'[j] = IF j = i THEN 0 ELSE deaths[j]
      BY DEF IInv, TypeOK, Serve, i
    <2> QED
      BY <1>3, <1>6, <1>7, <2>1 DEF IInv, Charged
  <1>15. Sized'
    BY <1>3, <1>6, <1>7, SizedKept DEF IInv
  <1>16. Sweeping'
    <2>1. \A j \in Slots : Len(c'.thread[j]) >= Len(c.thread[j])
      BY <1>2, <1>3, <1>6, ThreadsAre
    <2>2. NoNewLife(c, c')
      BY <1>3, <1>6 DEF NoNewLife
    <2>3. UNCHANGED <<phase, swept>>
      BY DEF Serve
    <2> QED
      BY <1>3, <1>6, <2>1, <2>2, <2>3, SweepingKept
  <1> QED
    BY <1>12, <1>13, <1>14, <1>15, <1>16 DEF IInv

(* Steps that leave the client's record as it is.                           *)
LEMMA BookStep ==
    ASSUME IInv, UNCHANGED <<c, crashes, deaths>>, TypeOK',
           Sound(c, PoolKept', Closing', tx'), Sweeping'
    PROVE  IInv'
  <1>1. Sound(c, PoolKept, Closing, tx)'
    OBVIOUS
  <1>2. Charged' /\ Sized'
    BY DEF IInv, Charged, Sized, Kept
  <1> QED
    BY <1>1, <1>2 DEF IInv

(* A transaction begins on the worker of a running client.                  *)
LEMMA BeginStep ==
    ASSUME IInv, NEW t \in Threads, Begin(t)
    PROVE  IInv'
  <1> DEFINE i == t[1]
             n == t[2]
  <1>1. /\ i \in Slots /\ n \in 1 .. Len(c.thread[i]) /\ t = <<i, n>>
        /\ c.thread[i][n] = "ready"
    BY ThreadOf DEF Begin, State
  <1>2. c \in Clients /\ Sound(c, PoolKept, Closing, tx)
    BY Before
  <1>3. PoolKept /\ ~Closing /\ c.conn = "granted" /\ c.ready = "resolved"
    BY DEF Begin, PoolKept, Closing
  <1>4. tx' = tx \cup {t} /\ UNCHANGED <<c, phase, swept, crashes, deaths>>
    BY DEF Begin
  <1>5. Len(c.thread[i]) \in Nat
    BY <1>1, <1>2, ThreadsAre
  <1> HIDE DEF i, n
  <1>6. LiveIn(c, i) /\ Undead(c)
    BY <1>1 DEF LiveIn, Undead, Alive, ThreadStates
  <1>7. ~c.fatal
    BY <1>2, <1>3, <1>6 DEF Sound, Failing
  <1>8. ~c.inStartup
    BY <1>2, <1>3 DEF Sound, Gated
  <1>9. c.gate.state = "open"
    <2>1. c.gate.state \in GateStates
      BY <1>2 DEF Clients, Gates
    <2> QED
      BY <1>2, <1>6, <1>8, <2>1 DEF Sound, Gated, GateStates
  <1>10. c.probed
    BY <1>2, <1>3 DEF Sound, Locking
  <1>11. Sound(c, PoolKept, Closing, tx')
    BY <1>2, <1>3, <1>7, <1>8, <1>9, <1>10, TouchKeeps
  <1>12. Sound(c, PoolKept', Closing', tx')
    BY <1>4, <1>11 DEF PoolKept, Closing
  <1>13. TypeOK'
    <2>1. n \in Nat \ {0}
      BY <1>1, <1>5
    <2>2. t \in Slots \X (Nat \ {0})
      BY <1>1, <2>1
    <2> QED
      BY <1>4, <2>2 DEF IInv, TypeOK
  <1>14. Sweeping'
    BY <1>4 DEF IInv, Sweeping, PoolKept, Closing
  <1> QED
    BY <1>4, <1>12, <1>13, <1>14, BookStep

(* A transaction ends.                                                      *)
LEMMA EndStep ==
    ASSUME IInv, NEW t \in Threads, End(t)
    PROVE  IInv'
  <1>1. Sound(c, PoolKept, Closing, tx)
    BY Before
  <1>2. tx' = tx \ {t} /\ t \in tx /\ UNCHANGED <<c, phase, swept, crashes, deaths>>
    BY DEF End
  <1>3. (PoolKept' <=> PoolKept) /\ (Closing' <=> Closing)
    BY <1>2 DEF PoolKept, Closing
  <1>4. Sound(c, PoolKept', Closing', tx')
    BY <1>1, <1>2, <1>3, SoundFor
  <1>5. TypeOK'
    BY <1>2 DEF IInv, TypeOK
  <1>6. Sweeping'
    BY <1>2 DEF IInv, Sweeping, PoolKept, Closing
  <1> QED
    BY <1>2, <1>4, <1>5, <1>6, BookStep

(* The sweep captures every worker that lives.                              *)
LEMMA SweepStep ==
    ASSUME IInv, Sweep
    PROVE  IInv'
  <1>1. c \in Clients /\ Sound(c, PoolKept, Closing, tx)
    BY Before
  <1>2. /\ phase = "draining" /\ phase' = "sweeping" /\ swept' = c.pool
        /\ UNCHANGED <<c, tx, crashes, deaths>>
    BY DEF Sweep
  <1>3. PoolKept' /\ PoolKept /\ Closing' /\ Closing
    BY <1>2 DEF PoolKept, Closing
  <1>4. Sound(c, PoolKept', Closing', tx')
    BY <1>1, <1>2, <1>3, SoundFor
  <1>5. TypeOK'
    BY <1>1, <1>2 DEF IInv, TypeOK, Clients
  <1>6. Sweeping'
    <2>1. Latest(c, PoolKept)
      BY <1>1 DEF Sound
    <2>2. \A i \in Slots : Len(c.thread[i]) \in Nat /\ swept'[i] \in {0, Len(c.thread[i])}
      BY <1>1, <1>2, <2>1, ThreadsAre DEF Latest
    <2>3. \A i \in Slots : swept'[i] \in 0 .. Len(c.thread[i])
      BY <2>2
    <2>4. \A i \in Slots : \A n \in 1 .. Len(c.thread[i]) :
              c.thread[i][n] \in Alive => swept'[i] = n
      BY <1>2, <1>3, <2>1 DEF Latest
    <2> QED
      BY <1>2, <1>3, <2>3, <2>4 DEF Sweeping
  <1> QED
    BY <1>2, <1>4, <1>5, <1>6, BookStep

(* close() is called.                                                       *)
LEMMA CloseStep ==
    ASSUME IInv, Close
    PROVE  IInv'
  <1> DEFINE f == FrontDoor(c)
  <1>1. c \in Clients /\ Sound(c, PoolKept, Closing, tx)
    BY Before
  <1>2. /\ phase = "open" /\ phase' = "draining" /\ c' = f
        /\ UNCHANGED <<swept, tx, crashes, deaths>>
    BY DEF Close
  <1>3. PoolKept' /\ PoolKept /\ Closing' /\ ~Closing
    BY <1>2 DEF PoolKept, Closing
  <1>4. Sound(c, TRUE, FALSE, tx)
    <2>1. PICK k, z : /\ k <=> PoolKept
                      /\ z <=> Closing
                      /\ Sound(c, k, z, tx) /\ (~k => z) /\ z \in BOOLEAN
      BY Meanwhile
    <2>2. (k <=> TRUE) /\ (z <=> FALSE)
      BY <1>3, <2>1
    <2> QED
      BY <2>1, <2>2, SoundFor
  <1>5. Sound(f, TRUE, TRUE, tx) /\ Onward(c, f)
    BY <1>1, <1>4, FrontDoorKeeps
  <1>6. f.thread = c.thread
    BY <1>1 DEF FrontDoor, Clients
  <1> HIDE DEF f
  <1>7. Sound(f, PoolKept', Closing', tx')
    BY <1>2, <1>3, <1>5, SoundFor
  <1>8. Sound(c, PoolKept, Closing, tx)'
    BY <1>2, <1>7
  <1>9. c' \in Clients
    BY <1>2, <1>5 DEF Sound
  <1>10. TypeOK'
    BY <1>2, <1>9 DEF IInv, TypeOK
  <1>11. Charged' /\ Sized'
    BY <1>2, <1>5, <1>9, OnwardKeeps
  <1>12. Sweeping'
    BY <1>2, <1>3, <1>6 DEF IInv, Sweeping
  <1> QED
    BY <1>8, <1>10, <1>11, <1>12 DEF IInv

(* A captured worker is closed.                                             *)
LEMMA CloseWorkerStep ==
    ASSUME IInv, NEW i \in Slots, CloseWorker(i)
    PROVE  IInv'
  <1> DEFINE n == swept[i]
             f == [c EXCEPT !.thread[i][n] = "dead"]
  <1>1. c \in Clients /\ Sound(c, PoolKept, Closing, tx) /\ swept \in [Slots -> Nat]
    BY Before DEF IInv, TypeOK
  <1>2. /\ phase = "sweeping" /\ n # 0 /\ c' = f
        /\ swept' = [swept EXCEPT ![i] = 0]
        /\ UNCHANGED <<phase, tx, crashes, deaths>>
    BY DEF CloseWorker
  <1>3. Closing
    BY <1>2 DEF Closing
  <1>4. n \in 1 .. Len(c.thread[i])
    <2>1. swept[i] \in 0 .. Len(c.thread[i]) /\ Len(c.thread[i]) \in Nat
      BY <1>1, ThreadsAre DEF IInv, Sweeping
    <2> QED
      BY <1>2, <2>1
  <1>5. PICK k, z : /\ k <=> PoolKept
                    /\ z <=> Closing
                    /\ Sound(c, k, z, tx) /\ (~k => z) /\ z \in BOOLEAN
    BY Meanwhile
  <1>6. Sound(c, k, TRUE, tx)
    BY <1>3, <1>5, SoundFor
  <1>7. \A j \in Slots : swept'[j] = IF j = i THEN 0 ELSE swept[j]
    BY <1>1, <1>2
  <1> HIDE DEF n
  <1>8. /\ Sound(f, k, TRUE, tx) /\ Onward(c, f) /\ Quieter(c, f)
        /\ f.thread[i][n] = "dead"
    BY <1>1, <1>4, <1>6, CloseWorkerKeeps
  <1> HIDE DEF f
  <1>9. (PoolKept' <=> PoolKept) /\ (Closing' <=> Closing)
    BY <1>2 DEF PoolKept, Closing
  <1>10. Sound(f, PoolKept', Closing', tx')
    <2>1. TRUE <=> z
      BY <1>3, <1>5
    <2>4. (k <=> PoolKept') /\ (z <=> Closing')
      BY <1>5, <1>9
    <2>2. tx' # {} => tx # {}
      BY <1>2
    <2>3. Sound(f, k, z, tx)
      BY <1>8, <2>1, SoundFor
    <2> QED
      BY <2>2, <2>3, <2>4, SoundFor
  <1>11. Sound(c, PoolKept, Closing, tx)'
    BY <1>2, <1>10
  <1>12. c' \in Clients
    BY <1>2, <1>8 DEF Sound
  <1>13. TypeOK'
    <2>1. swept' \in [Slots -> Nat]
      BY <1>1, <1>2
    <2> QED
      BY <1>2, <1>12, <2>1 DEF IInv, TypeOK
  <1>14. Charged' /\ Sized'
    BY <1>2, <1>8, <1>12, OnwardKeeps
  <1>15. Sweeping'
    <2>1. \A j \in Slots : Len(f.thread[j]) = Len(c.thread[j]) /\ Len(c.thread[j]) \in Nat
      BY <1>1, <1>8, ThreadsAre DEF Quieter
    <2>2. \A j \in Slots : swept'[j] \in 0 .. Len(f.thread[j])
      BY <1>7, <2>1 DEF IInv, Sweeping
    <2>3. ASSUME "closing" \notin c.env.deaths, NEW j \in Slots,
                 NEW m \in 1 .. Len(f.thread[j]), f.thread[j][m] \in Alive
          PROVE  swept'[j] = m
      <3>1. m \in 1 .. Len(c.thread[j]) /\ c.thread[j][m] \in Alive
        BY <1>8, <2>1, <2>3 DEF Quieter, Alive
      <3>2. swept[j] = m
        BY <1>2, <1>3, <2>3, <3>1 DEF IInv, Sweeping
      <3>3. j # i
        BY <1>8, <2>3, <3>2 DEF n, Alive
      <3> QED
        BY <1>7, <3>2, <3>3
    <2>4. c'.env = c.env
      BY <1>2, <1>8 DEF Onward, SameFate
    <2>5. ~PoolKept' => Closing'
      BY <1>3, <1>9
    <2> QED
      BY <1>2, <2>2, <2>3, <2>4, <2>5 DEF Sweeping
  <1> QED
    BY <1>11, <1>13, <1>14, <1>15 DEF IInv

(* The pool is emptied when nothing captured is left.                       *)
LEMMA ClearPoolStep ==
    ASSUME IInv, ClearPool
    PROVE  IInv'
  <1> DEFINE f == [c EXCEPT !.pool = [i \in Slots |-> 0]]
  <1>1. c \in Clients /\ Sound(c, PoolKept, Closing, tx)
    BY Before
  <1>2. /\ phase = "sweeping" /\ phase' = "swept" /\ c' = f
        /\ \A i \in Slots : swept[i] = 0
        /\ UNCHANGED <<swept, tx, crashes, deaths>>
    BY DEF ClearPool
  <1>3. PoolKept /\ ~PoolKept' /\ Closing /\ Closing'
    BY <1>2 DEF PoolKept, Closing
  <1>4. Sound(c, TRUE, TRUE, tx)
    BY <1>1, <1>3, SoundFor
  <1>5. Sound(f, FALSE, TRUE, tx) /\ Onward(c, f) /\ f.thread = c.thread
    BY <1>1, <1>4, ClearPoolKeeps
  <1> HIDE DEF f
  <1>6. Sound(f, PoolKept', Closing', tx')
    BY <1>2, <1>3, <1>5, SoundFor
  <1>7. Sound(c, PoolKept, Closing, tx)'
    BY <1>2, <1>6
  <1>8. c' \in Clients
    BY <1>2, <1>5 DEF Sound
  <1>9. TypeOK'
    BY <1>2, <1>8 DEF IInv, TypeOK
  <1>10. Charged' /\ Sized'
    BY <1>2, <1>5, <1>8, OnwardKeeps
  <1>11. Sweeping'
    <2>1. \A i \in Slots : swept[i] \in 0 .. Len(c.thread[i])
      BY DEF IInv, Sweeping
    <2>2. "closing" \notin c.env.deaths =>
             \A i \in Slots : \A n \in 1 .. Len(c.thread[i]) : c.thread[i][n] \notin Alive
      <3>1. \A i \in Slots : \A n \in 1 .. Len(c.thread[i]) : n # 0
        OBVIOUS
      <3> QED
        BY <1>2, <1>3, <3>1 DEF IInv, Sweeping
    <2>3. c'.env = c.env /\ c'.thread = c.thread
      BY <1>2, <1>5 DEF Onward, SameFate
    <2> QED
      BY <1>2, <1>3, <2>1, <2>2, <2>3 DEF Sweeping
  <1> QED
    BY <1>7, <1>9, <1>10, <1>11 DEF IInv

(* The lock is released.                                                    *)
LEMMA ClosedStep ==
    ASSUME IInv, Closed
    PROVE  IInv'
  <1> DEFINE f == [c EXCEPT !.conn = Released(@)]
  <1>1. c \in Clients /\ Sound(c, PoolKept, Closing, tx)
    BY Before
  <1>2. /\ phase = "swept" /\ phase' = "closed" /\ c' = f
        /\ c.conn \notin {"undecided", "asked"}
        /\ UNCHANGED <<swept, tx, crashes, deaths>>
    BY DEF Closed
  <1>3. ~PoolKept /\ ~PoolKept' /\ Closing /\ Closing'
    BY <1>2 DEF PoolKept, Closing
  <1>4. Released(c.conn) \in LockStates \ {"undecided", "asked"}
    BY <1>1, <1>2 DEF Released, LockStates, Clients
  <1>5. /\ f \in Clients /\ f.conn = Released(c.conn) /\ f.env = c.env /\ f.size = c.size
        /\ f.pool = c.pool /\ f.losses = c.losses /\ f.reported = c.reported
        /\ f.inStartup = c.inStartup /\ f.gate = c.gate /\ f.fatal = c.fatal
        /\ f.sup = c.sup /\ f.thread = c.thread /\ f.probed = c.probed
        /\ f.ready = c.ready
    BY <1>1, <1>4 DEF Clients
  <1> HIDE DEF f
  <1>6. c.probed
    BY <1>1, <1>2 DEF Sound, Locking
  <1>7. c.ready = "resolved" => ~c.inStartup
    BY <1>1 DEF Sound, Gated
  <1>8. tx # {} => /\ c.gate.state = "open" /\ c.ready = "resolved"
                   /\ c.fatal => \A j \in Slots : ~c.sup[j].alive
    BY <1>1 DEF Sound, Failing
  <1>9. Sound(f, PoolKept, Closing, tx)
    BY <1>1, <1>4, <1>5, <1>6, <1>7, <1>8, TouchKeeps
  <1>10. Sound(f, PoolKept', Closing', tx')
    <2>1. (PoolKept <=> PoolKept') /\ (Closing <=> Closing')
      BY <1>3
    <2>2. tx' # {} => tx # {}
      BY <1>2
    <2> QED
      BY <1>9, <2>1, <2>2, SoundFor
  <1>11. Sound(c, PoolKept, Closing, tx)'
    BY <1>2, <1>10
  <1>12. TypeOK'
    BY <1>2, <1>5 DEF IInv, TypeOK
  <1>13. Charged' /\ Sized'
    BY <1>2, <1>5 DEF IInv, Charged, Sized, Kept
  <1>14. Sweeping'
    BY <1>2, <1>3, <1>5 DEF IInv, Sweeping
  <1> QED
    BY <1>11, <1>12, <1>13, <1>14 DEF IInv

(* A surplus worker declines, and the pool shrinks with it.                 *)
LEMMA DeclineStep ==
    ASSUME IInv, NEW t \in Threads, Decline(t)
    PROVE  IInv'
  <1> DEFINE i == t[1]
             n == t[2]
  <1>1. i \in Slots /\ n \in 1 .. Len(c.thread[i])
    BY ThreadOf
  <1>2. c.thread[i][n] = "opening" /\ c.env.declining /\ i # 0
    BY DEF Decline, State, MayDecline
  <1>3. PICK k, z : /\ k <=> PoolKept
                    /\ z <=> Closing
                    /\ Sound(c, k, z, tx) /\ (~k => z) /\ z \in BOOLEAN
    BY Meanwhile
  <1> DEFINE f == Settle(Retired(c, i, z), i, "declined")
  <1>4. c' = f
    <2>1. CASE z
      BY <1>3, <2>1 DEF Decline, Retired
    <2>2. CASE ~z
      BY <1>3, <2>2 DEF Decline, Retired
    <2> QED
      BY <2>1, <2>2
  <1>5. UNCHANGED <<phase, swept, tx, crashes, deaths>>
    BY DEF Decline
  <1>6. c \in Clients
    BY Before
  <1> HIDE DEF i, n
  <1>7. Cardinality(Kept(c)) <= c.size
    BY DEF IInv, Sized
  <1>8. ASSUME ~z PROVE c.size > 1
    <2>1. LiveIn(c, i) /\ k
      BY <1>1, <1>2, <1>3, <1>8 DEF LiveIn, Alive, ThreadStates
    <2>2. ~c.sup[i].lost
      BY <1>1, <1>3, <2>1 DEF Sound, Counted
    <2>3. {0, i} \in SUBSET Kept(c)
      BY <1>1, <2>2, SlotsFacts DEF Kept
    <2>4. Cardinality({0, i}) <= Cardinality(Kept(c))
      BY <2>3, KeptFinite, FS_Subset
    <2>5. Cardinality({0, i}) = 2
      <3>1. IsFiniteSet({i}) /\ Cardinality({i}) = 1
        BY FS_Singleton
      <3>2. 0 \notin {i}
        BY <1>2
      <3>3. Cardinality({i} \cup {0}) = Cardinality({i}) + 1
        BY <3>1, <3>2, FS_AddElement
      <3>4. {i} \cup {0} = {0, i} /\ 1 + 1 = 2
        OBVIOUS
      <3> QED
        BY <3>1, <3>3, <3>4
    <2>6. Cardinality(Kept(c)) \in Nat /\ c.size \in Int
      BY <1>6, KeptFinite DEF Clients
    <2> QED
      BY <1>7, <2>4, <2>5, <2>6
  <1>9. /\ Sound(f, k, z, tx) /\ (z => NoNewLife(c, f))
        /\ f.env = c.env /\ f.size = IF z THEN c.size ELSE c.size - 1
        /\ f.sup[i].lost
        /\ \A j \in Slots : /\ Len(f.thread[j]) >= Len(c.thread[j])
                            /\ c.sup[j].lost => f.sup[j].lost
                            /\ f.sup[j].restarts = c.sup[j].restarts
    BY <1>1, <1>2, <1>3, <1>6, <1>8, DeclineKeeps
  <1> HIDE DEF f
  <1>10. Sound(f, PoolKept', Closing', tx')
    <2>1. (PoolKept' <=> PoolKept) /\ (Closing' <=> Closing)
      BY <1>5 DEF PoolKept, Closing
    <2> QED
      BY <1>3, <1>5, <1>9, <2>1, SoundFor
  <1>11. Sound(c, PoolKept, Closing, tx)'
    BY <1>4, <1>10
  <1>12. f \in Clients
    BY <1>9 DEF Sound
  <1>13. TypeOK'
    BY <1>4, <1>5, <1>12 DEF IInv, TypeOK
  <1>14. Charged'
    BY <1>4, <1>5, <1>9 DEF IInv, Charged
  <1>15. Cardinality(Kept(f)) <= f.size
    <2>1. Kept(f) \in SUBSET (Kept(c) \ {i})
      BY <1>2, <1>9 DEF Kept
    <2>2. /\ IsFiniteSet(Kept(c)) /\ Cardinality(Kept(c)) \in Nat
          /\ IsFiniteSet(Kept(f)) /\ Cardinality(Kept(f)) \in Nat
          /\ c.size \in Int
      BY <1>6, KeptFinite DEF Clients
    <2>3. CASE z
      <3>1. Cardinality(Kept(f)) <= Cardinality(Kept(c))
        BY <2>1, <2>2, FS_Subset
      <3> QED
        BY <1>7, <1>9, <2>2, <2>3, <3>1
    <2>4. CASE ~z
      <3>1. i \in Kept(c)
        <4>1. LiveIn(c, i) /\ k
          BY <1>1, <1>2, <1>3, <2>4 DEF LiveIn, Alive, ThreadStates
        <4>2. ~c.sup[i].lost
          BY <1>1, <1>3, <4>1 DEF Sound, Counted
        <4> QED
          BY <1>1, <4>2 DEF Kept
      <3>2. /\ IsFiniteSet(Kept(c) \ {i})
            /\ Cardinality(Kept(c) \ {i}) = Cardinality(Kept(c)) - 1
        BY <2>2, <3>1, FS_RemoveElement
      <3>3. Cardinality(Kept(f)) <= Cardinality(Kept(c) \ {i})
        BY <2>1, <3>2, FS_Subset
      <3>4. f.size = c.size - 1
        BY <1>9, <2>4
      <3> QED
        BY <1>7, <2>2, <3>2, <3>3, <3>4
    <2> QED
      BY <2>3, <2>4
  <1>16. Sized'
    BY <1>4, <1>15 DEF Sized, Kept
  <1>17. Sweeping'
    BY <1>3, <1>4, <1>5, <1>9, <1>12, SweepingKept
  <1> QED
    BY <1>11, <1>13, <1>14, <1>16, <1>17 DEF IInv

(* What Crash and Poison have in common.                                    *)
LEMMA BereavedStep ==
    ASSUME IInv, NEW i \in Slots, Bereaved(c, c', i), Opportune,
           Sound(c', PoolKept, Closing, tx), UNCHANGED <<phase, swept>>,
           tx' \subseteq tx,
           \/ /\ crashes < MaxCrashes /\ crashes' = crashes + 1
              /\ deaths' = [deaths EXCEPT ![i] = @ + 1]
           \/ "stale" \in c.env.deaths /\ UNCHANGED <<crashes, deaths>>
    PROVE  IInv'
  <1>1. (PoolKept' <=> PoolKept) /\ (Closing' <=> Closing)
    BY DEF PoolKept, Closing
  <1>2. tx' # {} => tx # {}
    OBVIOUS
  <1>3. Sound(c', PoolKept', Closing', tx')
    BY <1>1, <1>2, SoundFor
  <1>4. /\ c' \in Clients /\ c'.env = c.env /\ c'.size = c.size
        /\ \A j \in Slots :
              /\ Len(c'.thread[j]) >= Len(c.thread[j])
              /\ c.sup[j].lost => c'.sup[j].lost
              /\ c'.sup[j].restarts = c.sup[j].restarts
                 \/ (j = i /\ c'.sup[j].restarts = c.sup[j].restarts + 1)
    BY <1>3 DEF Sound, Bereaved, SameFate
  <1>5. c \in Clients /\ deaths \in [Slots -> Nat] /\ crashes \in 0 .. MaxCrashes
    BY DEF IInv, TypeOK
  <1>6. crashes' \in 0 .. MaxCrashes /\ deaths' \in [Slots -> Nat]
    BY <1>5, LifecycleAssumption
  <1>7. TypeOK'
    BY <1>4, <1>6 DEF IInv, TypeOK
  <1>8. Charged'
    <2> SUFFICES ASSUME "stale" \notin c.env.deaths, NEW j \in Slots
                 PROVE  c'.sup[j].restarts <= deaths'[j]
      BY <1>4 DEF Charged
    <2>1. c.sup[j].restarts <= deaths[j] /\ deaths[j] \in Nat /\ c.sup[j].restarts \in Nat
      BY <1>5 DEF IInv, Charged, Clients, SlotRecords
    <2>2. deaths'[j] = IF j = i THEN deaths[j] + 1 ELSE deaths[j]
      BY <1>5
    <2>3. c'.sup[j].restarts = c.sup[j].restarts
          \/ (j = i /\ c'.sup[j].restarts = c.sup[j].restarts + 1)
      BY <1>4
    <2> QED
      BY <2>1, <2>2, <2>3
  <1>9. Sized'
    BY <1>4, SizedKept DEF IInv
  <1>10. Sweeping'
    BY <1>4, SweepingKept DEF Opportune
  <1>11. Sound(c, PoolKept, Closing, tx)'
    BY <1>3
  <1> QED
    BY <1>7, <1>8, <1>9, <1>10, <1>11 DEF IInv

(* A crash bereaves its slot, which had a worker.                           *)
LEMMA CrashIs ==
    ASSUME IInv, NEW t \in Threads, Crash(t)
    PROVE  /\ Sound(c', PoolKept, Closing, tx) /\ Bereaved(c, c', t[1])
           /\ LiveIn(c, t[1])
  <1>1. t[1] \in Slots /\ t[2] \in 1 .. Len(c.thread[t[1]])
    BY ThreadOf
  <1>2. c.thread[t[1]][t[2]] \in Alive
    BY DEF Crash, State
  <1>3. PICK k, z : /\ k <=> PoolKept
                    /\ z <=> Closing
                    /\ Sound(c, k, z, tx) /\ (~k => z) /\ z \in BOOLEAN
    BY Meanwhile
  <1>4. c \in Clients
    BY Before
  <1> DEFINE f == Died(c, t[1], t[2])
  <1>5. Sound(f, k, z, tx) /\ Bereaved(c, f, t[1])
    BY <1>1, <1>2, <1>3, <1>4, DiedKeeps
  <1>6. c' = f
    BY DEF Crash
  <1> HIDE DEF f
  <1>7. Sound(f, PoolKept, Closing, tx)
    BY <1>3, <1>5, SoundFor
  <1>8. LiveIn(c, t[1])
    BY <1>1, <1>2 DEF LiveIn
  <1> QED
    BY <1>5, <1>6, <1>7, <1>8

(* A worker fails by itself.                                                *)
LEMMA CrashStep ==
    ASSUME IInv, NEW t \in Threads, Crash(t)
    PROVE  IInv'
  <1>1. t[1] \in Slots
    BY ThreadOf
  <1>2. Sound(c', PoolKept, Closing, tx) /\ Bereaved(c, c', t[1])
    BY CrashIs
  <1>3. /\ crashes < MaxCrashes /\ crashes' = crashes + 1 /\ Opportune
        /\ deaths' = [deaths EXCEPT ![t[1]] = @ + 1]
        /\ UNCHANGED <<phase, swept, tx>>
    BY DEF Crash, MayFail
  <1>4. tx' \subseteq tx
    BY <1>3
  <1> QED
    BY <1>1, <1>2, <1>3, <1>4, BereavedStep

(* So does a worker that a transaction reports.                             *)
LEMMA PoisonIs ==
    ASSUME IInv, NEW t \in Threads, Poison(t)
    PROVE  Sound(c', PoolKept, Closing, tx) /\ Bereaved(c, c', t[1])
  <1>1. t[1] \in Slots /\ tx # {}
    BY ThreadOf DEF Poison
  <1>2. PICK k, z : /\ k <=> PoolKept
                    /\ z <=> Closing
                    /\ Sound(c, k, z, tx) /\ (~k => z) /\ z \in BOOLEAN
    BY Meanwhile
  <1>3. c \in Clients
    BY Before
  <1> DEFINE f == HandleDeath(c, t[1])
  <1>4. Sound(f, k, z, tx) /\ Bereaved(c, f, t[1])
    BY <1>1, <1>2, <1>3, ReportKeeps
  <1>5. c' = f
    BY DEF Poison
  <1> HIDE DEF f
  <1>6. Sound(f, PoolKept, Closing, tx)
    BY <1>2, <1>4, SoundFor
  <1> QED
    BY <1>4, <1>5, <1>6

(* A transaction reports its worker.                                        *)
LEMMA PoisonStep ==
    ASSUME IInv, NEW t \in Threads, Poison(t)
    PROVE  IInv'
  <1>1. t[1] \in Slots
    BY ThreadOf
  <1>2. Sound(c', PoolKept, Closing, tx) /\ Bereaved(c, c', t[1])
    BY PoisonIs
  <1>3. /\ \/ /\ crashes < MaxCrashes /\ crashes' = crashes + 1
              /\ deaths' = [deaths EXCEPT ![t[1]] = @ + 1]
           \/ "stale" \in c.env.deaths /\ UNCHANGED <<crashes, deaths>>
        /\ Opportune /\ tx' \subseteq tx /\ UNCHANGED <<phase, swept>>
    BY DEF Poison, MayFail
  <1> QED
    BY <1>1, <1>2, <1>3, BereavedStep

(* Every step keeps the invariant.                                          *)
LEMMA NextOK ==
    ASSUME IInv, [Next]_vars
    PROVE  IInv'
  <1>1. CASE UNCHANGED vars
    <2>1. UNCHANGED <<c, phase, swept, tx, crashes, deaths>>
      BY <1>1 DEF vars
    <2>2. TypeOK'
      BY <2>1 DEF IInv, TypeOK
    <2>3. Sound(c, PoolKept', Closing', tx') /\ Sweeping'
      BY <2>1 DEF IInv, Sweeping, PoolKept, Closing
    <2> QED
      BY <2>1, <2>2, <2>3, BookStep
  <1>2. ASSUME NEW t \in Threads,
               Ready(t) \/ Decline(t) \/ Crash(t) \/ Serve(t) \/ Begin(t) \/ End(t)
               \/ Poison(t) \/ Probed(t)
        PROVE  IInv'
    BY <1>2, ReadyStep, DeclineStep, CrashStep, ServeStep, BeginStep, EndStep,
       PoisonStep, ProbedStep
  <1>3. CASE ProbedElsewhere \/ AskLock \/ LockTaken \/ SetupApplied \/ SetupFails
    BY <1>3, ProbedElsewhereStep, AskLockStep, LockTakenStep, SetupAppliedStep,
       SetupFailsStep
  <1>4. CASE Close \/ Sweep \/ (\E i \in Slots : CloseWorker(i)) \/ ClearPool \/ Closed
    BY <1>4, CloseStep, SweepStep, CloseWorkerStep, ClearPoolStep, ClosedStep
  <1> QED
    BY <1>1, <1>2, <1>3, <1>4 DEF Next

(* The invariant holds in every reachable state.                            *)
LEMMA AlwaysSound == Spec => []IInv
  <1>1. IInv /\ [Next]_vars => IInv'
    BY NextOK
  <1> QED
    BY InitOK, <1>1, PTL DEF Spec

-----------------------------------------------------------------------------
(* What the invariant is for.                                               *)

(* Every reachable client is one that TypeOK describes, whatever dies when. *)
THEOREM LifecycleTypes == Spec => []TypeOK
  <1>1. IInv => TypeOK
    BY DEF IInv
  <1> QED
    BY <1>1, AlwaysSound, PTL

(* client.ts: the pool of a running client is never empty without anybody   *)
(* being told.  Its gate is open, so some slot counts as alive, and every    *)
(* slot that does has a worker, which its pool entry names.                 *)
THEOREM NeverEmptyAndSilent == Spec => []NeverSilentlyEmpty
  <1>1. IInv => NeverSilentlyEmpty
    <2> SUFFICES ASSUME IInv, Running
                 PROVE  \E i \in Slots : c.pool[i] # 0 /\ LiveThread(i)
      BY DEF NeverSilentlyEmpty
    <2>1. c \in Clients /\ Sound(c, PoolKept, Closing, tx) /\ PoolKept
      BY Before DEF Running
    <2>2. ~c.inStartup /\ ~c.fatal /\ ~Closing
      BY DEF Running
    <2>3. c.gate.state \in GateStates
      BY <2>1 DEF Clients, Gates
    <2>4. c.gate.state = "open"
      BY <2>1, <2>2, <2>3 DEF Sound, Gated, GateStates
    <2>5. PICK i \in Slots : LiveIn(c, i)
      BY <2>1, <2>2, <2>4 DEF Sound, Manned
    <2>6. PICK n \in 1 .. Len(c.thread[i]) : c.thread[i][n] \in Alive
      BY <2>5 DEF LiveIn
    <2>7. n = c.pool[i] /\ n # 0
      BY <2>1, <2>6 DEF Sound, Latest
    <2> QED
      BY <2>5, <2>7 DEF LiveIn, LiveThread
  <1> QED
    BY <1>1, AlwaysSound, PTL

(* onWorkerLost is called once for exactly the slots that are lost for good.*)
THEOREM LossesAreAnnounced == Spec => []LossesAnnounced
  <1>1. IInv => LossesAnnounced
    <2> SUFFICES ASSUME IInv PROVE LossIsFinal /\ NoQuietLoss
      BY DEF LossesAnnounced
    <2>1. c \in Clients /\ Sound(c, PoolKept, Closing, tx)
      BY Before
    <2>2. ASSUME NEW i \in Slots, c.reported[i] = 1, PoolKept PROVE ~LiveThread(i)
      <3>1. ~c.sup[i].alive \/ (c.gate.state = "rejected" /\ ~c.inStartup)
        BY <2>1, <2>2 DEF Sound, Announced
      <3>2. CASE ~c.sup[i].alive
        BY <2>1, <2>2, <3>2 DEF Sound, Counted, LiveIn, LiveThread
      <3>3. CASE c.gate.state = "rejected" /\ ~c.inStartup
        <4>1. ~Undead(c)
          BY <2>1, <3>3 DEF Sound, Gated
        <4> QED
          BY <4>1 DEF Undead, LiveIn, LiveThread
      <3> QED
        BY <3>1, <3>2, <3>3
    <2>3. \A i \in Slots : c.reported[i] <= 1
      BY <2>1 DEF Sound, Announced
    <2>4. LossIsFinal
      BY <2>2, <2>3 DEF LossIsFinal
    <2>5. NoQuietLoss
      BY <2>1 DEF Sound, Told, NoQuietLoss
    <2> QED
      BY <2>4, <2>5
  <1> QED
    BY <1>1, AlwaysSound, PTL

(* close() settles with no worker left: whatever lived when it was called    *)
(* was in the pool its sweep captured, and nothing is started after it.     *)
THEOREM NoWorkerOutlivesClose == Spec => []NoOrphan
  <1>1. IInv => NoOrphan
    <2> SUFFICES ASSUME IInv, phase = "closed", "closing" \notin c.env.deaths
                 PROVE  \A i \in Slots : ~LiveThread(i)
      BY DEF NoOrphan
    <2>1. Closing /\ phase # "draining" /\ phase # "sweeping"
      BY DEF Closing
    <2> QED
      BY <2>1 DEF IInv, Sweeping, LiveThread
  <1> QED
    BY <1>1, AlwaysSound, PTL

(* Past startup a slot is only given up by the death of a worker: no other   *)
(* step of the client loses one.                                            *)
LEMMA OnlyDeathsLose ==
    ASSUME IInv, ~c.inStartup, Next, NEW i \in Slots, ~c.sup[i].lost, c'.sup[i].lost
    PROVE  \E t \in Threads : Crash(t) \/ Poison(t)
  <1>1. c \in Clients /\ Sound(c, PoolKept, Closing, tx)
    BY Before
  <1>2. c.gate.state # "closed"
    BY <1>1 DEF Sound, Gated
  <1>3. ASSUME NEW t \in Threads, Ready(t) PROVE FALSE
    <2>1. c'.sup[i].lost = c.sup[i].lost
      BY <1>3, ReadyStep
    <2> QED
      BY <2>1
  <1>4. ASSUME NEW t \in Threads, Decline(t) PROVE FALSE
    <2>1. /\ t[1] \in Slots /\ t[2] \in 1 .. Len(c.thread[t[1]]) /\ t[1] # 0
          /\ c.thread[t[1]][t[2]] = "opening" /\ c.env.declining
      BY <1>4, ThreadOf DEF Decline, State, MayDecline
    <2>2. LiveIn(c, t[1]) /\ Undead(c)
      BY <2>1 DEF LiveIn, Undead, Alive, ThreadStates
    <2>3. c.gate.state \in GateStates
      BY <1>1 DEF Clients, Gates
    <2>4. c.gate.state = "open" /\ c.gate.settled = Slots
      BY <1>1, <1>2, <2>2, <2>3 DEF Sound, Gated, GateStates
    <2>5. c.sup[t[1]].everReady
      BY <1>1, <2>1, <2>2, <2>4 DEF Sound, Gated
    <2> QED
      BY <1>1, <2>1, <2>5 DEF Sound, Counted
  <1>5. ASSUME NEW t \in Threads, Serve(t) PROVE FALSE
    <2>1. t[1] \in Slots
      BY ThreadOf
    <2>2. c'.sup[i].lost = c.sup[i].lost
      BY <1>1, <1>5, <2>1 DEF Serve, Clients, SlotRecords
    <2> QED
      BY <2>2
  <1>6. ASSUME NEW t \in Threads, Begin(t) \/ End(t) PROVE FALSE
    BY <1>6 DEF Begin, End
  <1>7. ASSUME c'.sup = c.sup PROVE FALSE
    BY <1>7
  <1>8. ASSUME NEW t \in Threads, Probed(t) PROVE FALSE
    <2>1. c'.sup = c.sup
      BY <1>1, <1>8 DEF Probed, Clients
    <2> QED
      BY <1>7, <2>1
  <1>9. ASSUME ProbedElsewhere \/ AskLock \/ SetupApplied PROVE FALSE
    <2>1. c'.sup = c.sup
      BY <1>1, <1>9 DEF ProbedElsewhere, AskLock, SetupApplied, Clients
    <2> QED
      BY <1>7, <2>1
  <1>10. ASSUME SetupFails PROVE FALSE
    <2>1. c'.sup = c.sup
      BY <1>1, <1>10, FailClientIs DEF SetupFails
    <2> QED
      BY <1>7, <2>1
  <1>11. ASSUME LockTaken PROVE FALSE
    <2> DEFINE m == [c EXCEPT !.conn = "granted"]
               r == [c EXCEPT !.conn = "refused"]
    <2>1. CASE c' = [c EXCEPT !.conn = "none"]
      BY <1>1, <1>7, <2>1 DEF Clients
    <2>2. CASE c' = Granted(m)
      <3>1. c.env.connection # "exclusive"
        BY <1>1, <1>11 DEF Sound, Locking, LockTaken
      <3>2. c.env.connection \in {"shared", "probed"} /\ m.env = c.env /\ m.sup = c.sup
        BY <1>1, <3>1 DEF Clients, Settings
      <3>3. c' = m \/ c' = Proceed(m)
        BY <2>2, <3>2 DEF Granted
      <3>4. Proceed(m).sup = m.sup
        BY <1>1 DEF Proceed, Clients
      <3> QED
        BY <1>7, <3>2, <3>3, <3>4
    <2>3. CASE c' = Refused(r)
      <3>1. r \in Clients /\ r.sup = c.sup
        BY <1>1 DEF Clients, LockStates
      <3>2. c'.sup = r.sup
        BY <2>3, <3>1, FailClientIs DEF Refused
      <3> QED
        BY <1>7, <3>1, <3>2
    <2> QED
      BY <1>11, <2>1, <2>2, <2>3 DEF LockTaken
  <1>12. ASSUME Close \/ Sweep \/ ClearPool \/ Closed PROVE FALSE
    <2>1. c'.sup = c.sup
      BY <1>1, <1>12 DEF Close, FrontDoor, Sweep, ClearPool, Closed, Clients
    <2> QED
      BY <1>7, <2>1
  <1>13. ASSUME NEW j \in Slots, CloseWorker(j) PROVE FALSE
    <2>1. c'.sup = c.sup
      BY <1>1, <1>13 DEF CloseWorker, Clients
    <2> QED
      BY <1>7, <2>1
  <1> QED
    BY <1>3, <1>4, <1>5, <1>6, <1>8, <1>9, <1>10, <1>11, <1>12, <1>13 DEF Next

(* options.maxWorkerRestarts: past startup a slot is given up only after    *)
(* that many restarts and one more death since a worker of it last served.  *)
THEOREM BudgetIsHonoured == Spec => BudgetHonoured
  <1> DEFINE Honoured ==
        \A i \in Slots :
          "stale" \notin c.env.deaths /\ ~c.inStartup /\ ~c.sup[i].lost /\ c'.sup[i].lost
              => deaths'[i] > MaxRestarts
  <1>1. ASSUME IInv, Next, NEW i \in Slots, "stale" \notin c.env.deaths,
               ~c.inStartup, ~c.sup[i].lost, c'.sup[i].lost
        PROVE  deaths'[i] > MaxRestarts
    <2>1. PICK t \in Threads : Crash(t) \/ Poison(t)
      BY <1>1, OnlyDeathsLose
    <2>2. t[1] \in Slots /\ t[2] \in 1 .. Len(c.thread[t[1]])
      BY ThreadOf
    <2>3. Bereaved(c, c', t[1])
      BY <1>1, <2>1, CrashIs, PoisonIs
    <2>4. deaths' = [deaths EXCEPT ![t[1]] = @ + 1]
      BY <1>1, <2>1 DEF Crash, Poison
    <2>5. LiveIn(c, t[1])
      <3>1. CASE Crash(t)
        BY <1>1, <3>1, CrashIs
      <3>2. CASE Poison(t)
        BY <1>1, <2>2, <3>2 DEF Poison, State, LiveIn, Alive, ThreadStates
      <3> QED
        BY <2>1, <3>1, <3>2
    <2>6. i = t[1] /\ c.sup[i].restarts >= MaxRestarts
      BY <1>1, <2>3, <2>5 DEF Bereaved
    <2>7. c.sup[i].restarts <= deaths[i] /\ deaths[i] \in Nat /\ c.sup[i].restarts \in Nat
      BY <1>1 DEF IInv, Charged, TypeOK, Clients, SlotRecords
    <2>8. deaths'[i] = deaths[i] + 1
      BY <1>1, <2>4, <2>6 DEF IInv, TypeOK
    <2> QED
      BY <2>6, <2>7, <2>8, LifecycleAssumption
  <1>2. IInv /\ [Next]_vars => [Honoured]_vars
    BY <1>1
  <1> QED
    BY <1>2, AlwaysSound, PTL DEF Spec, BudgetHonoured
=============================================================================
