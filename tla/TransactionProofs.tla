------------------------- MODULE TransactionProofs -------------------------
(***************************************************************************)
(* Proofs about Transaction: what the queue of calls, the connection and    *)
(* what the page knows of it guarantee each other, for any number of calls. *)
(* The first part says what each operator and each action does, as          *)
(* relations on records, and keeps the types; the second proves Inv.        *)
(***************************************************************************)
EXTENDS Transaction, WellFoundedInduction, TLAPS

(* A set of naturals that is not empty has a least element.                 *)
LEMMA LeastOne ==
    ASSUME NEW S, S \subseteq Nat, S # {}
    PROVE  \E k \in S : \A j \in S : k <= j
  <1>1. PICK k \in S : \A j \in S : ~(<<j, k>> \in OpToRel(<, Nat))
    BY WFMin, NatLessThanWellFounded
  <1>2. \A j \in S : ~(j < k)
    BY <1>1 DEF OpToRel
  <1> QED
    BY <1>2

(* The writes of a journal, read up to its k-th entry.                      *)
WritesUpTo(log, S, n) ==
    {u \in [0 .. n -> Seq(S)] :
        /\ u[0] = <<>>
        /\ \A k \in 1 .. n :
              u[k] = IF IsEffect(log[k]) THEN Append(u[k - 1], log[k]) ELSE u[k - 1]}

(* The writes of a journal exist: the recursion has a value.                *)
LEMMA WritesExist ==
    ASSUME NEW S, NEW log \in Seq(S)
    PROVE  WritesUpTo(log, S, Len(log)) # {}
  <1> DEFINE Bad == {n \in 0 .. Len(log) : WritesUpTo(log, S, n) = {}}
  <1> SUFFICES ASSUME Bad # {} PROVE FALSE
    <2>1. Len(log) \in 0 .. Len(log)
      OBVIOUS
    <2> QED
      BY <2>1
  <1>1. PICK n \in Bad : \A j \in Bad : n <= j
    <2>1. Bad \subseteq Nat
      OBVIOUS
    <2> HIDE DEF Bad
    <2> QED
      BY <2>1, LeastOne
  <1>2. n # 0
    <2>1. [k \in 0 .. 0 |-> <<>>] \in WritesUpTo(log, S, 0)
      BY DEF WritesUpTo
    <2> QED
      BY <2>1
  <1>3. n - 1 \in 0 .. Len(log) /\ n - 1 \notin Bad
    <2>1. n \in 0 .. Len(log) /\ Len(log) \in Nat
      OBVIOUS
    <2> HIDE DEF Bad
    <2> QED
      BY <1>1, <1>2, <2>1
  <1>4. PICK u \in WritesUpTo(log, S, n - 1) : TRUE
    BY <1>3
  <1>5. n \in 1 .. Len(log) /\ log[n] \in S
    BY <1>2
  <1>6. /\ u \in [0 .. n - 1 -> Seq(S)] /\ u[0] = <<>>
        /\ \A k \in 1 .. n - 1 :
              u[k] = IF IsEffect(log[k]) THEN Append(u[k - 1], log[k]) ELSE u[k - 1]
    BY <1>4 DEF WritesUpTo
  <1> DEFINE last == IF IsEffect(log[n]) THEN Append(u[n - 1], log[n]) ELSE u[n - 1]
             t == [k \in 0 .. n |-> IF k = n THEN last ELSE u[k]]
  <1>7. last \in Seq(S)
    <2>1. u[n - 1] \in Seq(S)
      BY <1>5, <1>6
    <2>2. Append(u[n - 1], log[n]) \in Seq(S)
      BY <1>5, <2>1
    <2> QED
      BY <2>1, <2>2
  <1> HIDE DEF last
  <1>8. t \in [0 .. n -> Seq(S)]
    <2>1. \A k \in 0 .. n : k # n => k \in 0 .. (n - 1)
      BY <1>5
    <2> QED
      BY <1>6, <1>7, <2>1
  <1>9. t[0] = <<>>
    BY <1>5, <1>6
  <1>10. ASSUME NEW k \in 1 .. n
         PROVE  t[k] = IF IsEffect(log[k]) THEN Append(t[k - 1], log[k]) ELSE t[k - 1]
    <2>1. k - 1 \in 0 .. n /\ k - 1 # n /\ t[k - 1] = u[k - 1]
      BY <1>5
    <2>2. CASE k = n
      <3>1. t[k] = last
        BY <1>5, <2>2
      <3> HIDE DEF t
      <3> QED
        BY <2>1, <2>2, <3>1 DEF last
    <2>3. CASE k # n
      <3>1. k \in 1 .. n - 1 /\ k \in 0 .. n
        BY <1>5, <2>3
      <3>2. t[k] = u[k]
        BY <2>3, <3>1
      <3>3. u[k] = IF IsEffect(log[k]) THEN Append(u[k - 1], log[k]) ELSE u[k - 1]
        BY <1>6, <3>1
      <3> HIDE DEF t
      <3> QED
        BY <2>1, <3>2, <3>3
    <2> QED
      BY <2>2, <2>3
  <1>11. t \in WritesUpTo(log, S, n)
    <2> HIDE DEF t
    <2> QED
      BY <1>8, <1>9, <1>10 DEF WritesUpTo
  <1> QED
    BY <1>11

(* They are unique, and their last is what Writes returns.                  *)
LEMMA WritesAreLast ==
    ASSUME NEW S, NEW log \in Seq(S), NEW u \in WritesUpTo(log, S, Len(log))
    PROVE  Writes(log) = u[Len(log)]
  <1> DEFINE Law(f) == f = [k \in 0 .. Len(log) |->
                  IF k = 0 THEN <<>>
                  ELSE IF IsEffect(log[k]) THEN Append(f[k - 1], log[k]) ELSE f[k - 1]]
             c == CHOOSE f : Law(f)
  <1>0. /\ Len(log) \in Nat /\ u \in [0 .. Len(log) -> Seq(S)] /\ u[0] = <<>>
        /\ \A k \in 1 .. Len(log) :
              u[k] = IF IsEffect(log[k]) THEN Append(u[k - 1], log[k]) ELSE u[k - 1]
    BY DEF WritesUpTo
  <1>1. Law(u)
    <2>1. \A k \in 0 .. Len(log) :
              u[k] = IF k = 0 THEN <<>>
                     ELSE IF IsEffect(log[k]) THEN Append(u[k - 1], log[k]) ELSE u[k - 1]
      <3> TAKE k \in 0 .. Len(log)
      <3>1. k # 0 => k \in 1 .. Len(log)
        OBVIOUS
      <3> QED BY <1>0, <3>1
    <2> QED
      BY <1>0, <2>1
  <1>2. Law(c)
    BY <1>1
  <1>3. Writes(log) = c[Len(log)]
    BY DEF Writes
  <1> DEFINE Bad == {k \in 0 .. Len(log) : c[k] # u[k]}
  <1>4. Bad = {}
    <2> HIDE DEF c
    <2> SUFFICES ASSUME Bad # {} PROVE FALSE
      OBVIOUS
    <2>1. PICK k \in Bad : \A j \in Bad : k <= j
      <3>1. Bad \subseteq Nat
        OBVIOUS
      <3> HIDE DEF Bad
      <3> QED
        BY <3>1, LeastOne
    <2>2. c[k] = IF k = 0 THEN <<>>
                 ELSE IF IsEffect(log[k]) THEN Append(c[k - 1], log[k]) ELSE c[k - 1]
      BY <1>2
    <2>3. u[k] = IF k = 0 THEN <<>>
                 ELSE IF IsEffect(log[k]) THEN Append(u[k - 1], log[k]) ELSE u[k - 1]
      BY <1>1
    <2>4. k # 0 => k - 1 \in 0 .. Len(log) /\ k - 1 \notin Bad
      BY <2>1
    <2>5. k # 0 => c[k - 1] = u[k - 1]
      BY <2>4
    <2>6. c[k] # u[k]
      OBVIOUS
    <2> QED
      BY <2>2, <2>3, <2>5, <2>6
  <1>5. Len(log) \in 0 .. Len(log)
    OBVIOUS
  <1> HIDE DEF c
  <1> QED
    BY <1>3, <1>4, <1>5

(* The writes of a journal are a journal.                                   *)
LEMMA WritesType ==
    ASSUME NEW S, NEW log \in Seq(S)
    PROVE  Writes(log) \in Seq(S)
  <1>1. PICK u \in WritesUpTo(log, S, Len(log)) : TRUE
    BY WritesExist
  <1>2. u[Len(log)] \in Seq(S)
    BY DEF WritesUpTo
  <1> QED
    BY <1>2, WritesAreLast

(* Where a savepoint's mark is.                                             *)
LEMMA MarkAtType ==
    ASSUME NEW S, NEW log \in Seq(S), NEW n
    PROVE  /\ MarkAt(log, n) \in 0 .. Len(log)
           /\ MarkAt(log, n) # 0 => log[MarkAt(log, n)] = Mark(n)
  <1> DEFINE I == {i \in 1 .. Len(log) : log[i] = Mark(n)}
  <1>1. MarkAt(log, n) = IF I # {} THEN Max(I) ELSE 0
    BY DEF MarkAt, SelectLastInSeq
  <1>2. I # {} => Max(I) \in I
    <2> SUFFICES ASSUME I # {} PROVE \E i \in I : \A j \in I : i >= j
      BY DEF Max
    <2> DEFINE D == {k \in 0 .. Len(log) : Len(log) - k \in I}
    <2>1. D # {} /\ D \subseteq Nat
      <3>1. PICK i \in I : TRUE
        OBVIOUS
      <3>2. Len(log) \in Nat /\ i \in 1 .. Len(log)
        BY <3>1
      <3>3. Len(log) - (Len(log) - i) = i /\ Len(log) - i \in 0 .. Len(log)
        BY <3>2
      <3> HIDE DEF I
      <3> QED BY <3>1, <3>3
    <2>2. PICK k \in D : \A j \in D : k <= j
      <3> HIDE DEF D
      <3> QED BY <2>1, LeastOne
    <2>3. ASSUME NEW j \in I PROVE Len(log) - k >= j
      <3>1. Len(log) - j \in D
        <4>1. Len(log) \in Nat /\ j \in 1 .. Len(log)
          OBVIOUS
        <4>2. Len(log) - (Len(log) - j) = j /\ Len(log) - j \in 0 .. Len(log)
          BY <4>1
        <4> HIDE DEF I
        <4> QED BY <4>2
      <3>2. j \in Nat /\ Len(log) \in Nat /\ k \in Nat
        BY <2>1
      <3>3. k <= Len(log) - j
        BY <2>2, <3>1
      <3> HIDE DEF D, I
      <3> QED BY <3>2, <3>3
    <2>4. Len(log) - k \in I
      OBVIOUS
    <2> HIDE DEF I, D
    <2> QED BY <2>3, <2>4
  <1> QED BY <1>1, <1>2

(* A prefix of a sequence is one.                                           *)
LEMMA PrefixType ==
    ASSUME NEW S, NEW log \in Seq(S), NEW j \in 0 .. Len(log)
    PROVE  SubSeq(log, 1, j) \in Seq(S)
  OBVIOUS

(* A journal rolled back to a mark is a journal.                            *)
LEMMA RolledBackToType ==
    ASSUME NEW S, NEW log \in Seq(S), NEW n
    PROVE  RolledBackTo(log, n) \in Seq(S)
  <1>1. MarkAt(log, n) \in 0 .. Len(log)
    BY MarkAtType
  <1> QED BY <1>1, PrefixType DEF RolledBackTo

(* A journal with a mark released is a journal.                             *)
LEMMA ReleasedType ==
    ASSUME NEW S, NEW log \in Seq(S), NEW n
    PROVE  Released(log, n) \in Seq(S)
  <1> DEFINE k == MarkAt(log, n)
  <1>1. k \in 0 .. Len(log)
    BY MarkAtType
  <1> HIDE DEF k
  <1>2. SubSeq(log, 1, k - 1) \in Seq(S)
    <2>1. CASE k = 0
      <3>1. SubSeq(log, 1, k - 1) = <<>>
        BY <2>1
      <3>2. <<>> \in Seq(S)
        OBVIOUS
      <3> QED BY Zenon, <3>1, <3>2
    <2>2. CASE k # 0
      <3>1. k - 1 \in 0 .. Len(log)
        BY <1>1, <2>2
      <3> QED BY <3>1, PrefixType
    <2> QED BY <2>1, <2>2
  <1>3. SubSeq(log, k + 1, Len(log)) \in Seq(S)
    BY <1>1
  <1>4. Writes(SubSeq(log, k + 1, Len(log))) \in Seq(S)
    BY <1>3, WritesType
  <1> QED BY <1>2, <1>4 DEF Released, k

SameSc(s, t) == t.sc = s.sc /\ t.readOnly = s.readOnly /\ t.autoCommit = s.autoCommit
SamePc(s, t) == t.pc = s.pc /\ t.begun = s.begun /\ t.done = s.done /\ t.poisoned = s.poisoned
SameEnding(s, t) == t.ending = s.ending /\ t.cut = s.cut
SameBook(s, t) == t.stack = s.stack /\ t.closing = s.closing
SameLine(s, t) == t.abandoned = s.abandoned /\ t.tail = s.tail /\ t.calls = s.calls
SameBusy(s, t) == t.busy = s.busy /\ t.pending = s.pending /\ t.said = s.said
SameData(s, t) == t.dead = s.dead /\ t.conn = s.conn /\ t.db = s.db /\ t.ledger = s.ledger

Tellings == {"nothing", "ok", "error", "busy", "cut", "closed"}

(* Two calls for the same thing.                                            *)
Kin(c, d) == c.kind = d.kind /\ c.own = d.own /\ c.name = d.name /\ c.keep = d.keep

(* Two reports on the same query.                                           *)
SameQuery(m, n) ==
    /\ m.call = n.call /\ m.verb = n.verb /\ m.name = n.name
    /\ m.conclude = n.conclude /\ m.open = n.open /\ m.failed = n.failed

(* The worker is idle or has a query, never both.                           *)
LEMMA IdleIs ==
    ASSUME NEW s \in States
    PROVE  /\ ~IsIdle(s) <=> s.busy \in Messages
           /\ IsIdle(s) => s.busy = Idle
           /\ Idle \notin Messages
  <1>1. s.busy \in Messages \cup {Idle}
    BY DEF States
  <1>2. \A m \in Messages : m.stage # "idle"
    BY DEF Messages
  <1>3. Idle \notin Messages
    BY <1>2 DEF Idle
  <1> QED BY <1>1, <1>3 DEF IsIdle

IsCut(s, t) ==
    /\ t \in States
    /\ SameSc(s, t) /\ SamePc(s, t) /\ SameBook(s, t) /\ SameLine(s, t) /\ SameData(s, t)
    /\ t.pending = s.pending /\ t.said = s.said
    /\ t.cut
    /\ t.ending = IF s.ending = "none" THEN "died" ELSE s.ending
    /\ IsIdle(t) <=> IsIdle(s)
    /\ ~IsIdle(s) =>
          /\ SameQuery(t.busy, s.busy)
          /\ t.busy.stop <=> s.busy.stop \/ (s.busy.stage # "delivering" /\ s.busy.verb \in {"read", "write"})
          /\ t.busy.stage = IF s.busy.stage = "delivering" THEN "ended" ELSE s.busy.stage

(* The signal fires (Cut).                                                  *)
LEMMA CutIs ==
    ASSUME NEW s \in States
    PROVE  IsCut(s, Cut(s))
  <1> DEFINE b == IF IsIdle(s) THEN Idle ELSE Halted(s.busy, s.busy.verb \in {"read", "write"})
             e == IF s.ending = "none" THEN "died" ELSE s.ending
             t == [s EXCEPT !.cut = TRUE, !.ending = e, !.busy = b]
  <1>1. Cut(s) = t
    BY DEF Cut, Halted
  <1>2. ~IsIdle(s) =>
          /\ Halted(s.busy, s.busy.verb \in {"read", "write"}) \in Messages
          /\ SameQuery(Halted(s.busy, s.busy.verb \in {"read", "write"}), s.busy)
          /\ Halted(s.busy, s.busy.verb \in {"read", "write"}).stop <=> s.busy.stop \/ (s.busy.stage # "delivering" /\ s.busy.verb \in {"read", "write"})
          /\ Halted(s.busy, s.busy.verb \in {"read", "write"}).stage = IF s.busy.stage = "delivering" THEN "ended" ELSE s.busy.stage
    BY IdleIs DEF Halted, Messages, SameQuery
  <1>3. b \in Messages \cup {Idle} /\ e \in Endings
    BY <1>2 DEF States, Endings
  <1>4. IsIdle(s) => b = Idle
    OBVIOUS
  <1>5. ~IsIdle(s) => b = Halted(s.busy, s.busy.verb \in {"read", "write"})
    OBVIOUS
  <1> HIDE DEF b
  <1>6. t \in States
    BY <1>3 DEF States
  <1>7. SameSc(s, t) /\ SamePc(s, t) /\ SameBook(s, t) /\ SameLine(s, t) /\ SameData(s, t)
    BY DEF States, SameSc, SamePc, SameBook, SameLine, SameData
  <1>8. t.pending = s.pending /\ t.said = s.said /\ t.cut /\ t.ending = e /\ t.busy = b
    BY DEF States
  <1> HIDE DEF t
  <1>9. IsIdle(t) <=> IsIdle(s)
    BY <1>2, <1>4, <1>5, <1>6, <1>8, IdleIs
  <1> QED BY <1>1, <1>2, <1>5, <1>6, <1>7, <1>8, <1>9 DEF IsCut

IsSettled(s, t, i, v) ==
    /\ t \in States
    /\ SameSc(s, t) /\ SamePc(s, t) /\ SameBook(s, t) /\ SameData(s, t) /\ SameBusy(s, t)
    /\ SameEnding(s, t)
    /\ t.abandoned = s.abandoned
    /\ t.tail = IF s.tail = i THEN Nobody ELSE s.tail
    /\ Len(t.calls) = Len(s.calls)
    /\ DOMAIN t.calls = DOMAIN s.calls
    /\ \A j \in DOMAIN s.calls :
          /\ Kin(t.calls[j], s.calls[j])
          /\ t.calls[j].prior = IF s.calls[j].prior = i THEN s.calls[i].prior ELSE s.calls[j].prior
          /\ t.calls[j].pc = IF j = i THEN "over" ELSE s.calls[j].pc
          /\ t.calls[j].told = IF j = i /\ s.calls[j].told = "nothing" THEN v ELSE s.calls[j].told

CallPcs == {"fresh", "waiting", "asking", "running", "delivering", "stopping",
           "dropping", "left", "over"}

(* A function on an initial segment is a sequence.                          *)
LEMMA TypeOfSeq ==
    ASSUME NEW S, NEW n \in Nat, NEW f, f = [j \in 1 .. n |-> f[j]], \A j \in 1 .. n : f[j] \in S
    PROVE  f \in Seq(S) /\ Len(f) = n /\ DOMAIN f = 1 .. n
  OBVIOUS

(* The calls are a sequence of calls.                                       *)
LEMMA CallsAre ==
    ASSUME NEW s \in States
    PROVE  /\ s.calls \in Seq(Call)
           /\ Len(s.calls) \in Nat
           /\ DOMAIN s.calls = 1 .. Len(s.calls)
           /\ \A i \in DOMAIN s.calls : s.calls[i] \in Call
  BY DEF States

IsTold(s, t, i, v) == 
    /\ t \in States
    /\ SameSc(s, t) /\ SamePc(s, t) /\ SameBook(s, t) /\ SameData(s, t) /\ SameBusy(s, t)
    /\ SameEnding(s, t)
    /\ t.abandoned = s.abandoned
    /\ t.tail = s.tail
    /\ Len(t.calls) = Len(s.calls)
    /\ DOMAIN t.calls = DOMAIN s.calls
    /\ \A j \in DOMAIN s.calls :
          /\ Kin(t.calls[j], s.calls[j])
          /\ t.calls[j].prior = s.calls[j].prior
          /\ t.calls[j].pc = s.calls[j].pc
          /\ t.calls[j].told = IF j = i /\ s.calls[j].told = "nothing" THEN v ELSE s.calls[j].told

(* Only the calls are replaced.                                             *)
LEMMA WithCalls ==
    ASSUME NEW s \in States, NEW cs \in Seq(Call), NEW t, t = [s EXCEPT !.calls = cs]
    PROVE  /\ t \in States
           /\ SameSc(s, t) /\ SamePc(s, t) /\ SameBook(s, t) /\ SameData(s, t) /\ SameBusy(s, t)
           /\ SameEnding(s, t)
           /\ t.abandoned = s.abandoned
           /\ t.tail = s.tail
           /\ t.calls = cs
  <1>1. t \in States
    BY DEF States
  <1>2. SameSc(s, t) /\ SamePc(s, t) /\ SameBook(s, t) /\ SameData(s, t) /\ SameBusy(s, t) /\ SameEnding(s, t)
    BY DEF States, SameSc, SamePc, SameBook, SameData, SameBusy, SameEnding
  <1>3. t.abandoned = s.abandoned /\ t.tail = s.tail /\ t.calls = cs
    BY DEF States
  <1> QED BY <1>1, <1>2, <1>3

(* A caller is told its result (Told).                                      *)
LEMMA ToldIs ==
    ASSUME NEW s \in States, NEW i \in DOMAIN s.calls, NEW v \in Tellings
    PROVE  IsTold(s, Told(s, i, v), i, v)
  <1> DEFINE w == IF s.calls[i].told = "nothing" THEN v ELSE s.calls[i].told
             cs == [s.calls EXCEPT ![i].told = w]
             t == [s EXCEPT !.calls = cs]
  <1>0. Told(s, i, v) = t
    BY DEF Told
  <1>1. s.calls \in Seq(Call) /\ s.calls[i] \in Call
    BY CallsAre
  <1>2. [s.calls[i] EXCEPT !.told = w] \in Call
    BY <1>1 DEF Call, Tellings
  <1>3. cs \in Seq(Call) /\ Len(cs) = Len(s.calls) /\ DOMAIN cs = DOMAIN s.calls
    BY <1>1, <1>2
  <1>4. \A j \in DOMAIN s.calls :
          /\ j # i => cs[j] = s.calls[j]
          /\ j = i => cs[j] = [s.calls[i] EXCEPT !.told = w]
    BY <1>1
  <1> HIDE DEF cs
  <1>5. \A j \in DOMAIN s.calls :
          /\ Kin(cs[j], s.calls[j])
          /\ cs[j].prior = s.calls[j].prior
          /\ cs[j].pc = s.calls[j].pc
          /\ cs[j].told = IF j = i /\ s.calls[j].told = "nothing" THEN v ELSE s.calls[j].told
    BY <1>1, <1>4 DEF Kin, Call
  <1> HIDE DEF t
  <1> QED BY <1>0, <1>3, <1>5, WithCalls DEF IsTold, t

Pendings == {"none", "release", "undo"}
Names == {"a", "b", Library}
Verbs == {"begin", "commit", "rollback", "read", "write", "savepoint", "release", "rollbackTo"}

(* One call goes on to p.                                                   *)
IsMoved(s, t, i, p) ==
    /\ t \in States
    /\ SameSc(s, t) /\ SamePc(s, t) /\ SameBook(s, t) /\ SameData(s, t) /\ SameBusy(s, t)
    /\ SameEnding(s, t)
    /\ t.abandoned = s.abandoned
    /\ t.tail = s.tail
    /\ Len(t.calls) = Len(s.calls)
    /\ DOMAIN t.calls = DOMAIN s.calls
    /\ \A j \in DOMAIN s.calls :
          /\ Kin(t.calls[j], s.calls[j])
          /\ t.calls[j].prior = s.calls[j].prior
          /\ t.calls[j].pc = IF j = i THEN p ELSE s.calls[j].pc
          /\ t.calls[j].told = s.calls[j].told

Stepped(cs, ds, i, p) ==
    /\ ds \in Seq(Call)
    /\ Len(ds) = Len(cs)
    /\ DOMAIN ds = DOMAIN cs
    /\ \A j \in DOMAIN cs :
          /\ Kin(ds[j], cs[j])
          /\ ds[j].prior = cs[j].prior
          /\ ds[j].pc = IF j = i THEN p ELSE cs[j].pc
          /\ ds[j].told = cs[j].told

(* One call goes on to its next step.                                       *)
LEMMA SteppedIs ==
    ASSUME NEW cs \in Seq(Call), NEW i \in DOMAIN cs, NEW p \in CallPcs
    PROVE  Stepped(cs, [cs EXCEPT ![i].pc = p], i, p)
  <1> DEFINE ds == [cs EXCEPT ![i].pc = p]
  <1>1. cs[i] \in Call /\ \A j \in DOMAIN cs : cs[j] \in Call
    OBVIOUS
  <1>2. [cs[i] EXCEPT !.pc = p] \in Call
    BY <1>1 DEF Call, CallPcs
  <1>3. ds \in Seq(Call) /\ Len(ds) = Len(cs) /\ DOMAIN ds = DOMAIN cs
    BY <1>2
  <1>4. \A j \in DOMAIN cs :
          /\ j # i => ds[j] = cs[j]
          /\ j = i => ds[j] = [cs[i] EXCEPT !.pc = p]
    OBVIOUS
  <1> HIDE DEF ds
  <1>5. \A j \in DOMAIN cs :
          /\ Kin(ds[j], cs[j])
          /\ ds[j].prior = cs[j].prior
          /\ ds[j].pc = IF j = i THEN p ELSE cs[j].pc
          /\ ds[j].told = cs[j].told
    BY <1>1, <1>4 DEF Kin, Call
  <1> QED BY <1>3, <1>5 DEF Stepped, ds

(* One call goes on, in the state.                                          *)
LEMMA MovedIs ==
    ASSUME NEW s \in States, NEW i \in DOMAIN s.calls, NEW p \in CallPcs
    PROVE  IsMoved(s, [s EXCEPT !.calls[i].pc = p], i, p)
  <1> DEFINE cs == [s.calls EXCEPT ![i].pc = p]
             t == [s EXCEPT !.calls = cs]
  <1>1. [s EXCEPT !.calls[i].pc = p] = t
    OBVIOUS
  <1>2. Stepped(s.calls, cs, i, p)
    BY SteppedIs, CallsAre
  <1> HIDE DEF cs
  <1>3. cs \in Seq(Call)
    BY <1>2 DEF Stepped
  <1>4. t = [s EXCEPT !.calls = cs]
    OBVIOUS
  <1> HIDE DEF t
  <1>5. IsMoved(s, t, i, p)
    BY <1>2, <1>3, <1>4, WithCalls DEF IsMoved, Stepped
  <1> QED BY <1>1, <1>5 DEF t, cs

(* A call is over with its caller told (Settle).                            *)
LEMMA SettledIs ==
    ASSUME NEW s \in States, NEW i \in DOMAIN s.calls, NEW v \in Tellings
    PROVE  IsSettled(s, Settle(s, i, v), i, v)
  <1> DEFINE a == Told(s, i, v)
             b == LeaveQueue(a, i)
             n == IF a.tail = i THEN Nobody ELSE a.tail
             cs == [j \in DOMAIN a.calls |->
                       IF a.calls[j].prior = i
                       THEN [a.calls[j] EXCEPT !.prior = a.calls[i].prior]
                       ELSE a.calls[j]]
             t == [b EXCEPT !.calls[i].pc = "over"]
  <1>1. IsTold(s, a, i, v)
    BY ToldIs
  <1>2. Settle(s, i, v) = t
    BY DEF Settle
  <1>3. b = [a EXCEPT !.tail = n, !.calls = cs]
    BY DEF LeaveQueue
  <1> HIDE DEF a, b
  <1>4. a \in States /\ DOMAIN a.calls = 1 .. Len(a.calls) /\ Len(a.calls) \in Nat
        /\ \A j \in DOMAIN a.calls : a.calls[j] \in Call
    BY <1>1, CallsAre DEF IsTold
  <1>5. \A j \in DOMAIN a.calls :
          /\ cs[j] \in Call
          /\ Kin(cs[j], a.calls[j])
          /\ cs[j].prior = IF a.calls[j].prior = i THEN a.calls[i].prior ELSE a.calls[j].prior
          /\ cs[j].pc = a.calls[j].pc
          /\ cs[j].told = a.calls[j].told
    <2> TAKE j \in DOMAIN a.calls
    <2>1. a.calls[j] \in Call /\ a.calls[i].prior \in 0 .. MaxCalls
      BY <1>1, <1>4 DEF Call, IsTold
    <2>2. [a.calls[j] EXCEPT !.prior = a.calls[i].prior] \in Call
      BY <2>1 DEF Call
    <2>3. cs[j] = IF a.calls[j].prior = i
                  THEN [a.calls[j] EXCEPT !.prior = a.calls[i].prior]
                  ELSE a.calls[j]
      OBVIOUS
    <2> HIDE DEF cs
    <2> QED BY <2>1, <2>2, <2>3 DEF Kin, Call
  <1>6. cs \in Seq(Call) /\ Len(cs) = Len(a.calls) /\ DOMAIN cs = DOMAIN a.calls
    <2>1. cs = [j \in 1 .. Len(a.calls) |-> cs[j]]
      BY <1>4
    <2> HIDE DEF cs
    <2> QED BY <1>4, <1>5, <2>1, TypeOfSeq
  <1>7. n \in 0 .. MaxCalls /\ a.tail \in 0 .. MaxCalls
    <2>1. a.tail \in 0 .. MaxCalls
      BY <1>4 DEF States
    <2> QED BY <2>1, TransactionAssumption DEF Nobody
  <1> HIDE DEF cs, n
  <1>8. /\ b \in States /\ b.tail = n /\ b.calls = cs /\ b.abandoned = a.abandoned
        /\ SameSc(a, b) /\ SamePc(a, b) /\ SameBook(a, b) /\ SameData(a, b)
        /\ SameBusy(a, b) /\ SameEnding(a, b)
    <2>1. b \in States
      BY <1>3, <1>4, <1>6, <1>7 DEF States
    <2>2. b.tail = n /\ b.calls = cs /\ b.abandoned = a.abandoned
      BY <1>3, <1>4, <1>6, <1>7 DEF States
    <2>3. /\ SameSc(a, b) /\ SamePc(a, b) /\ SameBook(a, b) /\ SameData(a, b)
          /\ SameBusy(a, b) /\ SameEnding(a, b)
      BY <1>3, <1>4, <1>6, <1>7
         DEF States, SameSc, SamePc, SameBook, SameData, SameBusy, SameEnding
    <2> QED BY <2>1, <2>2, <2>3
  <1>9. IsMoved(b, t, i, "over")
    BY <1>1, <1>6, <1>8, MovedIs DEF CallPcs, IsTold
  <1> HIDE DEF t
  <1>10. \A j \in DOMAIN s.calls :
          /\ Kin(t.calls[j], s.calls[j])
          /\ t.calls[j].prior = IF s.calls[j].prior = i THEN s.calls[i].prior ELSE s.calls[j].prior
          /\ t.calls[j].pc = IF j = i THEN "over" ELSE s.calls[j].pc
          /\ t.calls[j].told = IF j = i /\ s.calls[j].told = "nothing" THEN v ELSE s.calls[j].told
    BY <1>1, <1>5, <1>6, <1>8, <1>9 DEF IsTold, IsMoved, Kin
  <1>11. /\ t \in States
         /\ SameSc(s, t) /\ SamePc(s, t) /\ SameBook(s, t) /\ SameData(s, t)
         /\ SameBusy(s, t) /\ SameEnding(s, t)
         /\ t.abandoned = s.abandoned
    BY <1>1, <1>8, <1>9
       DEF IsTold, IsMoved, SameSc, SamePc, SameBook, SameData, SameBusy, SameEnding
  <1>12. /\ t.tail = IF s.tail = i THEN Nobody ELSE s.tail
         /\ Len(t.calls) = Len(s.calls) /\ DOMAIN t.calls = DOMAIN s.calls
    BY <1>1, <1>6, <1>8, <1>9 DEF IsTold, IsMoved, n
  <1> QED BY <1>2, <1>10, <1>11, <1>12 DEF IsSettled

IsPosted(s, t, i, verb, name, open) ==
    /\ t \in States
    /\ SameSc(s, t) /\ SamePc(s, t) /\ SameBook(s, t) /\ SameData(s, t) /\ SameLine(s, t)
    /\ SameEnding(s, t)
    /\ t.said = s.said
    /\ t.pending = IF open THEN "release" ELSE "none"
    /\ ~IsIdle(t)
    /\ t.busy.call = i /\ t.busy.verb = verb /\ t.busy.name = name
    /\ t.busy.conclude = s.pending /\ t.busy.open = open /\ ~t.busy.stop
    /\ ~t.busy.failed /\ t.busy.stage = "posted"

(* A query goes out (Post).                                                 *)
LEMMA PostedIs ==
    ASSUME NEW s \in States, NEW i \in 0 .. MaxCalls, NEW verb \in Verbs,
           NEW name \in Names, NEW open \in BOOLEAN
    PROVE  IsPosted(s, Post(s, i, verb, name, open), i, verb, name, open)
  <1> DEFINE m == [call |-> i, verb |-> verb, name |-> name,
                   conclude |-> s.pending, open |-> open,
                   stop |-> FALSE, failed |-> FALSE, stage |-> "posted"]
             p == IF open THEN "release" ELSE "none"
             t == [s EXCEPT !.busy = m, !.pending = p]
  <1>1. Post(s, i, verb, name, open) = t
    BY DEF Post
  <1>2. m \in Messages
    BY DEF Messages, States, Verbs, Names
  <1>3. /\ m.call = i /\ m.verb = verb /\ m.name = name /\ m.conclude = s.pending
        /\ m.open = open /\ ~m.stop /\ ~m.failed /\ m.stage = "posted"
    OBVIOUS
  <1>4. p \in Pendings /\ p = IF open THEN "release" ELSE "none"
    BY DEF Pendings
  <1> HIDE DEF m, p
  <1>5. t \in States /\ t.busy = m /\ t.pending = p /\ t.said = s.said
    BY <1>2, <1>4 DEF States, Pendings
  <1>6. SameSc(s, t) /\ SamePc(s, t) /\ SameBook(s, t) /\ SameData(s, t) /\ SameLine(s, t)
        /\ SameEnding(s, t)
    BY DEF States, SameSc, SamePc, SameBook, SameData, SameLine, SameEnding
  <1> HIDE DEF t
  <1>7. ~IsIdle(t)
    BY <1>2, <1>5, IdleIs
  <1> QED BY <1>1, <1>3, <1>4, <1>5, <1>6, <1>7 DEF IsPosted

(* Die: the transaction is cut, or had ended before.                        *)
Dies(s, t) == IF s.ending = "none" THEN IsCut(s, t) ELSE t = s

(* The transaction dies (Die).                                              *)
LEMMA DiesIs ==
    ASSUME NEW s \in States
    PROVE  Dies(s, Die(s)) /\ Die(s) \in States
  <1>1. CASE s.ending = "none"
    <2>1. Die(s) = Cut(s)
      BY <1>1 DEF Die
    <2> QED BY <1>1, <2>1, CutIs DEF Dies, IsCut
  <1>2. CASE s.ending # "none"
    <2>1. Die(s) = s
      BY <1>2 DEF Die
    <2> QED BY <1>2, <2>1 DEF Dies
  <1> QED BY <1>1, <1>2

Left(s) == s.begun /\ s.ending = "none" /\ s.said = "out"

(* The transaction dies if SQLite has left it (DieIfLeft).                  *)
LEMMA DiesIfLeftIs ==
    ASSUME NEW s \in States
    PROVE  /\ IF Left(s) THEN IsCut(s, DieIfLeft(s)) ELSE DieIfLeft(s) = s
           /\ DieIfLeft(s) \in States
  <1>1. CASE Left(s)
    <2>1. DieIfLeft(s) = Cut(s)
      BY <1>1 DEF DieIfLeft, Die, Left
    <2> QED BY <1>1, <2>1, CutIs DEF IsCut
  <1>2. CASE ~Left(s)
    <2>1. DieIfLeft(s) = s
      BY <1>2 DEF DieIfLeft, Left
    <2> QED BY <1>2, <2>1
  <1> QED BY <1>1, <1>2

VerbOfKind(kind) == IF kind \in {"write", "gen", "batch"} THEN "write" ELSE kind

(* The verb of a call is known by its kind.                                 *)
LEMMA VerbIs ==
    ASSUME NEW c \in Call
    PROVE  VerbOf(c) = VerbOfKind(c.kind) /\ VerbOf(c) \in Verbs
  BY DEF Call, CallKinds, VerbOf, VerbOfKind, Verbs

(* A call is posted.                                                        *)
IsRun(s, t, i, open) ==
    /\ t \in States
    /\ SameSc(s, t) /\ SamePc(s, t) /\ SameBook(s, t) /\ SameData(s, t)
    /\ SameEnding(s, t)
    /\ t.abandoned = s.abandoned
    /\ t.tail = s.tail
    /\ t.said = s.said
    /\ t.pending = IF open THEN "release" ELSE "none"
    /\ ~IsIdle(t)
    /\ t.busy.call = i /\ t.busy.verb = VerbOf(s.calls[i]) /\ t.busy.name = s.calls[i].name
    /\ t.busy.conclude = IF s.calls[i].kind = "rollback" THEN "none" ELSE s.pending
    /\ t.busy.open = open /\ ~t.busy.stop
    /\ ~t.busy.failed /\ t.busy.stage = "posted"
    /\ Stepped(s.calls, t.calls, i, "running")

(* Only the deferred savepoint verb is replaced.                            *)
LEMMA WithPending ==
    ASSUME NEW s \in States, NEW p \in Pendings
    PROVE  LET t == [s EXCEPT !.pending = p] IN
           /\ t \in States
           /\ SameSc(s, t) /\ SamePc(s, t) /\ SameBook(s, t) /\ SameData(s, t) /\ SameLine(s, t)
           /\ SameEnding(s, t)
           /\ t.said = s.said /\ t.busy = s.busy /\ t.pending = p
  <1> DEFINE t == [s EXCEPT !.pending = p]
  <1>1. t \in States
    BY DEF States, Pendings
  <1>2. SameSc(s, t) /\ SamePc(s, t) /\ SameBook(s, t) /\ SameData(s, t) /\ SameLine(s, t)
        /\ SameEnding(s, t)
    BY DEF States, SameSc, SamePc, SameBook, SameData, SameLine, SameEnding
  <1>3. t.said = s.said /\ t.busy = s.busy /\ t.pending = p
    BY DEF States
  <1> QED BY <1>1, <1>2, <1>3

Starts(s, t, i, open) ==
    \/ ~IsIdle(s) /\ \E r \in States : (r = s \/ Dies(s, r)) /\ IsSettled(r, t, i, "busy")
    \/ IsIdle(s) /\ s.dead /\ \E r \in States :
          /\ IF Statement(s.calls[i].kind) \/ s.calls[i].kind \in {"commit", "rollback"}
             THEN r = s ELSE Dies(s, r)
          /\ IsSettled(r, t, i, "error")
    \/ IsIdle(s) /\ ~s.dead /\ IsRun(s, t, i, open)

(* A call's turn: it is posted or refused (Start).                          *)
LEMMA StartIs ==
    ASSUME NEW s \in States, NEW i \in DOMAIN s.calls, i <= MaxCalls, NEW open \in BOOLEAN
    PROVE  Starts(s, Start(s, i, open), i, open)
  <1> DEFINE c == s.calls[i]
             spares == Statement(c.kind) \/ c.kind \in {"commit", "rollback"}
             r == IF spares THEN s ELSE Die(s)
             base == IF c.kind = "rollback" THEN [s EXCEPT !.pending = "none"] ELSE s
             u == Post(base, i, VerbOf(c), c.name, open)
             t == Start(s, i, open)
  <1>1. t = IF ~IsIdle(s) THEN Settle(r, i, "busy")
            ELSE IF s.dead THEN Settle(r, i, "error")
            ELSE [u EXCEPT !.calls[i].pc = "running"]
    BY DEF Start
  <1>2. r \in States /\ i \in DOMAIN r.calls /\ IF spares THEN r = s ELSE Dies(s, r)
    <2>1. CASE spares
      BY <2>1
    <2>2. CASE ~spares
      <3>1. r = Die(s)
        BY <2>2
      <3>2. i \in DOMAIN Die(s).calls
        BY DiesIs DEF Dies, IsCut, SameLine
      <3> QED BY <2>2, <3>1, <3>2, DiesIs
    <2> QED BY <2>1, <2>2
  <1>3. c \in Call /\ c.name \in Names /\ i \in 0 .. MaxCalls /\ DOMAIN s.calls = 1 .. Len(s.calls)
    BY CallsAre, TransactionAssumption DEF Call, Names
  <1>4. VerbOf(c) \in Verbs
    BY <1>3, VerbIs
  <1>5. /\ base \in States
        /\ SameSc(s, base) /\ SamePc(s, base) /\ SameBook(s, base) /\ SameData(s, base)
        /\ SameLine(s, base) /\ SameEnding(s, base) /\ base.said = s.said
        /\ base.pending = IF c.kind = "rollback" THEN "none" ELSE s.pending
    <2>1. CASE c.kind = "rollback"
      <3>1. base = [s EXCEPT !.pending = "none"]
        BY <2>1
      <3>2. "none" \in Pendings
        BY DEF Pendings
      <3> HIDE DEF base, c
      <3> QED BY <2>1, <3>1, <3>2, WithPending
    <2>2. CASE c.kind # "rollback"
      <3>1. base = s
        BY <2>2
      <3> HIDE DEF base, c
      <3> QED BY <2>2, <3>1
              DEF SameSc, SamePc, SameBook, SameData, SameLine, SameEnding
    <2> QED BY <2>1, <2>2
  <1>6. u \in States /\ IsPosted(base, u, i, VerbOf(c), c.name, open)
    <2> HIDE DEF base, c
    <2> QED BY <1>3, <1>4, <1>5, PostedIs DEF IsPosted, c
  <1>7. CASE ~IsIdle(s)
    <2>1. t = Settle(r, i, "busy") /\ "busy" \in Tellings
      BY <1>1, <1>7 DEF Tellings
    <2> HIDE DEF t, r, c
    <2>2. IsSettled(r, t, i, "busy")
      BY <1>2, <2>1, SettledIs
    <2> QED BY <1>2, <1>7, <2>2 DEF Starts, t
  <1>8. CASE IsIdle(s) /\ s.dead
    <2>1. t = Settle(r, i, "error") /\ "error" \in Tellings
      BY <1>1, <1>8 DEF Tellings
    <2> HIDE DEF t, r
    <2>2. IsSettled(r, t, i, "error")
      BY <1>2, <2>1, SettledIs
    <2> QED BY <1>2, <1>8, <2>2 DEF Starts, t
  <1>9. CASE IsIdle(s) /\ ~s.dead
    <2>1. t = [u EXCEPT !.calls[i].pc = "running"]
      BY <1>1, <1>9
    <2> HIDE DEF t, u, base, c
    <2>2. u.calls = s.calls
      BY <1>5, <1>6 DEF IsPosted, SameLine
    <2>3. IsMoved(u, t, i, "running")
      BY <1>6, <2>1, <2>2, MovedIs DEF CallPcs
    <2>4. Stepped(s.calls, t.calls, i, "running")
      BY <2>2, <2>3, CallsAre DEF IsMoved, Stepped
    <2>5. /\ t.busy = u.busy /\ t.pending = u.pending /\ t.said = u.said
          /\ t \in States /\ t.tail = u.tail /\ t.abandoned = u.abandoned
          /\ SameSc(u, t) /\ SamePc(u, t) /\ SameBook(u, t) /\ SameData(u, t) /\ SameEnding(u, t)
      BY <2>3 DEF IsMoved, SameBusy
    <2>6. /\ SameSc(s, t) /\ SamePc(s, t) /\ SameBook(s, t) /\ SameData(s, t) /\ SameEnding(s, t)
          /\ t.tail = s.tail /\ t.abandoned = s.abandoned
      BY <1>5, <1>6, <2>5
         DEF IsPosted, SameSc, SamePc, SameBook, SameData, SameLine, SameEnding
    <2>7. ~IsIdle(t) <=> ~IsIdle(u)
      BY <2>5 DEF IsIdle
    <2> QED BY <1>5, <1>6, <1>9, <2>4, <2>5, <2>6, <2>7 DEF IsPosted, Starts, IsRun, t, c
  <1> QED BY <1>7, <1>8, <1>9

Takes(s, t, i) ==
    IF Asks(s, s.calls[i]) THEN IsMoved(s, t, i, "asking")
    ELSE Starts(s, t, i, s.calls[i].own /\ ~s.readOnly /\ s.calls[i].kind = "batch")

(* A call's turn: it asks for a verdict, or starts (Take).                  *)
LEMMA TakeIs ==
    ASSUME NEW s \in States, NEW i \in DOMAIN s.calls, i <= MaxCalls
    PROVE  Takes(s, Take(s, i), i)
  <1> DEFINE c == s.calls[i]
             o == c.own /\ ~s.readOnly /\ c.kind = "batch"
  <1>1. CASE Asks(s, c)
    <2>1. Take(s, i) = [s EXCEPT !.calls[i].pc = "asking"]
      BY <1>1 DEF Take
    <2> QED BY <1>1, <2>1, MovedIs DEF Takes, CallPcs
  <1>2. CASE ~Asks(s, c)
    <2>1. o \in BOOLEAN
      OBVIOUS
    <2>2. Take(s, i) = Start(s, i, o)
      BY <1>2 DEF Take
    <2> HIDE DEF o
    <2>3. Starts(s, Start(s, i, o), i, o)
      BY <2>1, StartIs
    <2> QED BY <1>2, <2>2, <2>3 DEF Takes, o
  <1> QED BY <1>1, <1>2

(* A place at the end of the queue.                                         *)
IsPlaced(s, t, i) ==
    /\ t \in States
    /\ SameSc(s, t) /\ SamePc(s, t) /\ SameBook(s, t) /\ SameData(s, t) /\ SameBusy(s, t)
    /\ SameEnding(s, t)
    /\ t.abandoned = s.abandoned
    /\ t.tail = i
    /\ Len(t.calls) = Len(s.calls)
    /\ DOMAIN t.calls = DOMAIN s.calls
    /\ \A j \in DOMAIN s.calls :
          /\ Kin(t.calls[j], s.calls[j])
          /\ t.calls[j].prior = IF j = i THEN s.tail ELSE s.calls[j].prior
          /\ t.calls[j].pc = IF j = i THEN "waiting" ELSE s.calls[j].pc
          /\ t.calls[j].told = s.calls[j].told

Enqueues(s, t, i) ==
    \E r \in States :
        /\ IsPlaced(s, r, i)
        /\ IF s.tail = Nobody /\ s.abandoned = Nobody THEN Takes(r, t, i) ELSE t = r

(* A call joins the queue (Enqueue).                                        *)
LEMMA EnqueueIs ==
    ASSUME NEW s \in States, NEW i \in DOMAIN s.calls, i <= MaxCalls
    PROVE  Enqueues(s, Enqueue(s, i), i)
  <1> DEFINE r == [s EXCEPT !.calls[i].prior = s.tail, !.calls[i].pc = "waiting", !.tail = i]
             cs == [[s.calls EXCEPT ![i].prior = s.tail] EXCEPT ![i].pc = "waiting"]
             ds == [s.calls EXCEPT ![i].prior = s.tail]
  <1>1. Enqueue(s, i) = IF s.tail = Nobody /\ s.abandoned = Nobody THEN Take(r, i) ELSE r
    BY DEF Enqueue
  <1>2. /\ i \in 0 .. MaxCalls /\ i \in 1 .. Len(s.calls) /\ s.tail \in 0 .. MaxCalls
        /\ s.calls \in Seq(Call) /\ Len(s.calls) \in Nat
    BY CallsAre, TransactionAssumption DEF States
  <1>3. \A j \in DOMAIN s.calls : s.calls[j] \in Call
    BY CallsAre
  <1>4. [s.calls[i] EXCEPT !.prior = s.tail] \in Call
    BY <1>2, <1>3 DEF Call
  <1>5. ds \in Seq(Call) /\ Len(ds) = Len(s.calls) /\ DOMAIN ds = DOMAIN s.calls
    BY <1>2, <1>4
  <1>6. \A j \in DOMAIN s.calls :
          /\ j # i => ds[j] = s.calls[j]
          /\ j = i => ds[j] = [s.calls[i] EXCEPT !.prior = s.tail]
    BY <1>2
  <1>7. cs = [ds EXCEPT ![i].pc = "waiting"]
    OBVIOUS
  <1>8. \A j \in DOMAIN s.calls :
          /\ Kin(ds[j], s.calls[j])
          /\ ds[j].prior = IF j = i THEN s.tail ELSE s.calls[j].prior
          /\ ds[j].pc = s.calls[j].pc
          /\ ds[j].told = s.calls[j].told
    <2> HIDE DEF ds
    <2> QED BY <1>3, <1>6 DEF Kin, Call
  <1>9. Stepped(ds, cs, i, "waiting")
    <2> HIDE DEF ds, cs
    <2>1. "waiting" \in CallPcs
      BY DEF CallPcs
    <2> QED BY <1>5, <1>7, <2>1, SteppedIs
  <1>10. r.calls = cs /\ r.tail = i /\ r.abandoned = s.abandoned
    BY DEF States
  <1>11. r \in States
    <2>1. cs \in Seq(Call)
      BY <1>9 DEF Stepped
    <2> HIDE DEF cs
    <2>2. r = [s EXCEPT !.calls = r.calls, !.tail = i]
      BY DEF States
    <2> HIDE DEF r
    <2> QED BY <1>2, <1>10, <2>1, <2>2 DEF States
  <1>12. /\ SameSc(s, r) /\ SamePc(s, r) /\ SameBook(s, r) /\ SameData(s, r) /\ SameBusy(s, r)
         /\ SameEnding(s, r)
    BY DEF States, SameSc, SamePc, SameBook, SameData, SameBusy, SameEnding
  <1> HIDE DEF cs, ds, r
  <1>13. IsPlaced(s, r, i)
    BY <1>5, <1>8, <1>9, <1>10, <1>11, <1>12 DEF IsPlaced, Stepped, Kin
  <1>14. i \in DOMAIN r.calls
    BY <1>13 DEF IsPlaced
  <1>15. CASE s.tail = Nobody /\ s.abandoned = Nobody
    <2>1. Enqueue(s, i) = Take(r, i)
      BY <1>1, <1>15
    <2>2. Takes(r, Take(r, i), i)
      BY <1>11, <1>14, TakeIs
    <2> QED BY <1>11, <1>13, <1>15, <2>1, <2>2 DEF Enqueues
  <1>16. CASE ~(s.tail = Nobody /\ s.abandoned = Nobody)
    BY <1>1, <1>11, <1>13, <1>16 DEF Enqueues
  <1> QED BY <1>15, <1>16

(* A call given up: its message runs on, and owes an undo.                  *)
IsAbandoned(s, t, i) ==
    /\ t \in States
    /\ SameSc(s, t) /\ SamePc(s, t) /\ SameBook(s, t) /\ SameData(s, t)
    /\ SameEnding(s, t)
    /\ t.busy = s.busy /\ t.said = s.said
    /\ t.pending = "undo"
    /\ t.abandoned = i
    /\ t.tail = IF s.tail = i THEN Nobody ELSE s.tail
    /\ Len(t.calls) = Len(s.calls)
    /\ DOMAIN t.calls = DOMAIN s.calls
    /\ \A j \in DOMAIN s.calls :
          /\ Kin(t.calls[j], s.calls[j])
          /\ t.calls[j].prior = IF s.calls[j].prior = i THEN s.calls[i].prior ELSE s.calls[j].prior
          /\ t.calls[j].pc = IF j = i THEN "left" ELSE s.calls[j].pc
          /\ t.calls[j].told = IF j = i /\ s.calls[j].told = "nothing" THEN "cut" ELSE s.calls[j].told

(* A call gives up, and its place stays (Abandon).                          *)
LEMMA AbandonIs ==
    ASSUME NEW s \in States, NEW i \in DOMAIN s.calls, i <= MaxCalls
    PROVE  IsAbandoned(s, Abandon(s, i), i)
  <1> DEFINE a == Told(s, i, "cut")
             b == LeaveQueue(a, i)
             n == IF a.tail = i THEN Nobody ELSE a.tail
             cs == [j \in DOMAIN a.calls |->
                       IF a.calls[j].prior = i
                       THEN [a.calls[j] EXCEPT !.prior = a.calls[i].prior]
                       ELSE a.calls[j]]
             ds == [b.calls EXCEPT ![i].pc = "left"]
             t == [b EXCEPT !.calls[i].pc = "left", !.pending = "undo", !.abandoned = i]
  <1>1. IsTold(s, a, i, "cut")
    BY ToldIs DEF Tellings
  <1>2. Abandon(s, i) = t
    BY DEF Abandon
  <1>3. b = [a EXCEPT !.tail = n, !.calls = cs]
    BY DEF LeaveQueue
  <1> HIDE DEF a, b
  <1>4. a \in States /\ DOMAIN a.calls = 1 .. Len(a.calls) /\ Len(a.calls) \in Nat
        /\ \A j \in DOMAIN a.calls : a.calls[j] \in Call
    BY <1>1, CallsAre DEF IsTold
  <1>5. \A j \in DOMAIN a.calls :
          /\ cs[j] \in Call
          /\ Kin(cs[j], a.calls[j])
          /\ cs[j].prior = IF a.calls[j].prior = i THEN a.calls[i].prior ELSE a.calls[j].prior
          /\ cs[j].pc = a.calls[j].pc
          /\ cs[j].told = a.calls[j].told
    <2> TAKE j \in DOMAIN a.calls
    <2>1. a.calls[j] \in Call /\ a.calls[i].prior \in 0 .. MaxCalls
      BY <1>1, <1>4 DEF Call, IsTold
    <2>2. [a.calls[j] EXCEPT !.prior = a.calls[i].prior] \in Call
      BY <2>1 DEF Call
    <2>3. cs[j] = IF a.calls[j].prior = i
                  THEN [a.calls[j] EXCEPT !.prior = a.calls[i].prior]
                  ELSE a.calls[j]
      OBVIOUS
    <2> HIDE DEF cs
    <2> QED BY <2>1, <2>2, <2>3 DEF Kin, Call
  <1>6. cs \in Seq(Call) /\ Len(cs) = Len(a.calls) /\ DOMAIN cs = DOMAIN a.calls
    <2>1. cs = [j \in 1 .. Len(a.calls) |-> cs[j]]
      BY <1>4
    <2> HIDE DEF cs
    <2> QED BY <1>4, <1>5, <2>1, TypeOfSeq
  <1>7. n \in 0 .. MaxCalls /\ i \in 0 .. MaxCalls
    <2>1. a.tail \in 0 .. MaxCalls
      BY <1>4 DEF States
    <2>2. i \in Nat
      BY CallsAre
    <2> QED BY <2>1, <2>2, TransactionAssumption DEF Nobody
  <1> HIDE DEF cs, n
  <1>8. /\ b \in States /\ b.tail = n /\ b.calls = cs /\ b.abandoned = a.abandoned
        /\ SameSc(a, b) /\ SamePc(a, b) /\ SameBook(a, b) /\ SameData(a, b)
        /\ SameBusy(a, b) /\ SameEnding(a, b)
    <2>1. b \in States
      BY <1>3, <1>4, <1>6, <1>7 DEF States
    <2>2. b.tail = n /\ b.calls = cs /\ b.abandoned = a.abandoned
      BY <1>3, <1>4, <1>6, <1>7 DEF States
    <2>3. /\ SameSc(a, b) /\ SamePc(a, b) /\ SameBook(a, b) /\ SameData(a, b)
          /\ SameBusy(a, b) /\ SameEnding(a, b)
      BY <1>3, <1>4, <1>6, <1>7
         DEF States, SameSc, SamePc, SameBook, SameData, SameBusy, SameEnding
    <2> QED BY <2>1, <2>2, <2>3
  <1>9. Stepped(b.calls, ds, i, "left")
    <2>1. b.calls \in Seq(Call) /\ i \in DOMAIN b.calls /\ "left" \in CallPcs
      BY <1>1, <1>6, <1>8 DEF IsTold, CallPcs
    <2> QED BY <2>1, SteppedIs
  <1>10. /\ t.calls = ds /\ t.abandoned = i /\ t.pending = "undo"
         /\ t.tail = b.tail /\ t.busy = b.busy /\ t.said = b.said
    BY <1>8 DEF States
  <1>11. t \in States
    <2>1. ds \in Seq(Call) /\ "undo" \in {"none", "release", "undo"}
      BY <1>9 DEF Stepped
    <2>2. t = [b EXCEPT !.calls = ds, !.pending = "undo", !.abandoned = i]
      OBVIOUS
    <2> HIDE DEF t, ds
    <2> QED BY <1>7, <1>8, <2>1, <2>2 DEF States
  <1>12. SameSc(b, t) /\ SamePc(b, t) /\ SameBook(b, t) /\ SameData(b, t) /\ SameEnding(b, t)
    BY <1>8 DEF States, SameSc, SamePc, SameBook, SameData, SameEnding
  <1> HIDE DEF t, ds
  <1>13. \A j \in DOMAIN s.calls :
          /\ Kin(t.calls[j], s.calls[j])
          /\ t.calls[j].prior = IF s.calls[j].prior = i THEN s.calls[i].prior ELSE s.calls[j].prior
          /\ t.calls[j].pc = IF j = i THEN "left" ELSE s.calls[j].pc
          /\ t.calls[j].told = IF j = i /\ s.calls[j].told = "nothing" THEN "cut" ELSE s.calls[j].told
    BY <1>1, <1>5, <1>6, <1>8, <1>9, <1>10 DEF IsTold, Stepped, Kin
  <1>14. /\ SameSc(s, t) /\ SamePc(s, t) /\ SameBook(s, t) /\ SameData(s, t) /\ SameEnding(s, t)
         /\ t.busy = s.busy /\ t.said = s.said
    BY <1>1, <1>8, <1>10, <1>12
       DEF IsTold, SameSc, SamePc, SameBook, SameData, SameBusy, SameEnding
  <1>15. /\ t.tail = IF s.tail = i THEN Nobody ELSE s.tail
         /\ Len(t.calls) = Len(s.calls) /\ DOMAIN t.calls = DOMAIN s.calls
    BY <1>1, <1>6, <1>8, <1>9, <1>10 DEF IsTold, Stepped, n
  <1> QED BY <1>2, <1>10, <1>11, <1>13, <1>14, <1>15 DEF IsAbandoned

(* A stop reaches the query in flight.                                      *)
IsStopped(s, t) ==
    /\ t \in States
    /\ SameSc(s, t) /\ SamePc(s, t) /\ SameBook(s, t) /\ SameLine(s, t) /\ SameData(s, t)
    /\ SameEnding(s, t)
    /\ t.pending = s.pending /\ t.said = s.said
    /\ ~IsIdle(t)
    /\ SameQuery(t.busy, s.busy)
    /\ t.busy.stop <=> s.busy.stop \/ s.busy.stage # "delivering"
    /\ t.busy.stage = IF s.busy.stage = "delivering" THEN "ended" ELSE s.busy.stage

(* The query in flight is asked to stop (Stop).                             *)
LEMMA StopIs ==
    ASSUME NEW s \in States, ~IsIdle(s)
    PROVE  IsStopped(s, Stop(s))
  <1> DEFINE b == Halted(s.busy, TRUE)
             t == [s EXCEPT !.busy = b]
  <1>1. Stop(s) = t
    BY DEF Stop
  <1>2. /\ b \in Messages
        /\ SameQuery(b, s.busy)
        /\ b.stop <=> s.busy.stop \/ s.busy.stage # "delivering"
        /\ b.stage = IF s.busy.stage = "delivering" THEN "ended" ELSE s.busy.stage
    BY IdleIs DEF Halted, Messages, SameQuery
  <1> HIDE DEF b
  <1>3. t \in States /\ t.busy = b /\ t.pending = s.pending /\ t.said = s.said
    BY <1>2 DEF States
  <1>4. /\ SameSc(s, t) /\ SamePc(s, t) /\ SameBook(s, t) /\ SameLine(s, t)
        /\ SameData(s, t) /\ SameEnding(s, t)
    BY DEF States, SameSc, SamePc, SameBook, SameLine, SameData, SameEnding
  <1> HIDE DEF t
  <1>5. ~IsIdle(t)
    BY <1>2, <1>3, IdleIs
  <1> QED BY <1>1, <1>2, <1>3, <1>4, <1>5 DEF IsStopped

(* The reply to a query.                                                    *)
IsReplied(s, t) ==
    /\ t \in States
    /\ SameSc(s, t) /\ SamePc(s, t) /\ SameBook(s, t) /\ SameLine(s, t) /\ SameData(s, t)
    /\ SameEnding(s, t)
    /\ t.pending = s.pending
    /\ IsIdle(t)
    /\ t.said = IF s.dead THEN s.said ELSE IF s.conn.in THEN "in" ELSE "out"

(* The page has the reply (Replied).                                        *)
LEMMA RepliedIs ==
    ASSUME NEW s \in States
    PROVE  IsReplied(s, Replied(s))
  <1> DEFINE n == IF s.dead THEN s.said ELSE IF s.conn.in THEN "in" ELSE "out"
             t == [s EXCEPT !.busy = Idle, !.said = n]
  <1>1. Replied(s) = t
    BY DEF Replied
  <1>2. n \in {"in", "out"}
    BY DEF States
  <1> HIDE DEF n
  <1>3. t \in States /\ t.busy = Idle /\ t.pending = s.pending /\ t.said = n
    BY <1>2 DEF States
  <1>4. /\ SameSc(s, t) /\ SamePc(s, t) /\ SameBook(s, t) /\ SameLine(s, t)
        /\ SameData(s, t) /\ SameEnding(s, t)
    BY DEF States, SameSc, SamePc, SameBook, SameLine, SameData, SameEnding
  <1> HIDE DEF t
  <1> QED BY <1>1, <1>3, <1>4 DEF IsReplied, IsIdle, n

(* The account after what call i, which is c, did.                          *)
Account(l, c, i) ==
    CASE VerbOf(c) = "write"  -> Append(l, Effect(i))
      [] c.kind = "savepoint" -> Append(l, Mark(c.name))
      [] c.kind = "release"   -> Released(l, c.name)
      [] c.kind = "rollbackTo" -> IF c.keep THEN RolledBackTo(l, c.name)
                                  ELSE Released(RolledBackTo(l, c.name), c.name)
      [] OTHER -> l

(* Writes and marks of the first n calls.                                   *)
EntriesOf(n) == [call : 0 .. n, name : {"a", "b", Library, ""}]

(* The entries a journal of n calls may have.                               *)
LEMMA EntryIs ==
    ASSUME NEW n \in Nat, NEW i \in 1 .. n, NEW name \in Names
    PROVE  /\ Effect(i) \in EntriesOf(n) /\ IsEffect(Effect(i))
           /\ Mark(name) \in EntriesOf(n) /\ Effect(i).call = i
  <1>1. i \in 0 .. n /\ 0 \in 0 .. n /\ i # 0
    OBVIOUS
  <1>2. Effect(i) \in EntriesOf(n) /\ Mark(name) \in EntriesOf(n)
    BY <1>1 DEF Effect, Mark, EntriesOf, Names
  <1>3. Effect(i).call = i
    BY DEF Effect
  <1> QED BY <1>1, <1>2, <1>3 DEF IsEffect

(* What a success adds to the account keeps it a journal.                   *)
LEMMA AccountType ==
    ASSUME NEW n \in Nat, NEW l \in Seq(EntriesOf(n)), NEW c \in Call, NEW i \in 1 .. n
    PROVE  Account(l, c, i) \in Seq(EntriesOf(n))
  <1> DEFINE S == EntriesOf(n)
  <1>0. l \in Seq(S)
    OBVIOUS
  <1> SUFFICES Account(l, c, i) \in Seq(S)
    OBVIOUS
  <1> HIDE DEF S
  <1>1. Effect(i) \in S /\ Mark(c.name) \in S
    <2>1. c.name \in Names
      BY DEF Call, Names
    <2> QED BY <2>1, EntryIs DEF S
  <1>2. Append(l, Effect(i)) \in Seq(S) /\ Append(l, Mark(c.name)) \in Seq(S)
    BY <1>0, <1>1
  <1>3. RolledBackTo(l, c.name) \in Seq(S)
    BY <1>0, RolledBackToType
  <1>4. /\ Released(l, c.name) \in Seq(S)
        /\ Released(RolledBackTo(l, c.name), c.name) \in Seq(S)
    BY <1>0, <1>3, ReleasedType
  <1>5. CASE VerbOf(c) = "write"
    <2>1. VerbOfKind(c.kind) = "write"
      BY <1>5, VerbIs
    <2>2. c.kind \notin {"savepoint", "release", "rollbackTo"}
      BY <2>1 DEF VerbOfKind
    <2>3. Account(l, c, i) = Append(l, Effect(i))
      BY <1>5, <2>2 DEF Account
    <2> QED BY <1>2, <2>3
  <1>6. CASE VerbOf(c) # "write"
    <2>1. CASE c.kind = "savepoint"
      BY <1>2, <1>6, <2>1 DEF Account
    <2>2. CASE c.kind = "release"
      BY <1>4, <1>6, <2>2 DEF Account
    <2>3. CASE c.kind = "rollbackTo"
      BY <1>3, <1>4, <1>6, <2>3 DEF Account
    <2>4. CASE c.kind \notin {"savepoint", "release", "rollbackTo"}
      BY <1>0, <1>6, <2>4 DEF Account
    <2> QED BY <2>1, <2>2, <2>3, <2>4
  <1> QED BY <1>5, <1>6

IsRecorded(s, t, i) ==
    /\ t \in States
    /\ SameSc(s, t) /\ SamePc(s, t) /\ SameBook(s, t) /\ SameLine(s, t) /\ SameBusy(s, t)
    /\ SameEnding(s, t)
    /\ t.dead = s.dead /\ t.conn = s.conn /\ t.db = s.db
    /\ t.ledger = Account(s.ledger, s.calls[i], i)

(* A success enters the account (Recorded).                                 *)
LEMMA RecordedIs ==
    ASSUME NEW s \in States, NEW i \in DOMAIN s.calls, i <= MaxCalls
    PROVE  IsRecorded(s, Recorded(s, i), i)
  <1> DEFINE l == Account(s.ledger, s.calls[i], i)
             t == [s EXCEPT !.ledger = l]
  <1>1. Recorded(s, i) = t
    BY Zenon DEF Recorded, Account
  <1>2. l \in Seq(Entries)
    <2>1. MaxCalls \in Nat /\ i \in 1 .. MaxCalls /\ s.calls[i] \in Call
          /\ s.ledger \in Seq(Entries)
      BY CallsAre, TransactionAssumption DEF States
    <2> QED BY <2>1, AccountType DEF Entries, EntriesOf
  <1> HIDE DEF l
  <1>3. t \in States /\ t.dead = s.dead /\ t.conn = s.conn /\ t.db = s.db /\ t.ledger = l
    BY <1>2 DEF States
  <1>4. /\ SameSc(s, t) /\ SamePc(s, t) /\ SameBook(s, t) /\ SameLine(s, t)
        /\ SameBusy(s, t) /\ SameEnding(s, t)
    BY DEF States, SameSc, SamePc, SameBook, SameLine, SameBusy, SameEnding
  <1> HIDE DEF t
  <1> QED BY <1>1, <1>3, <1>4 DEF IsRecorded, l

(* The transaction is over, with an ending.                                 *)
IsDone(s, t, e) ==
    /\ t \in States
    /\ SameSc(s, t) /\ SameBook(s, t) /\ SameLine(s, t) /\ SameBusy(s, t) /\ SameData(s, t)
    /\ t.pc = s.pc /\ t.begun = s.begun /\ t.poisoned = s.poisoned /\ t.cut = s.cut
    /\ t.done /\ t.ending = e

(* The transaction is recorded as concluded (Committed, RolledBack).        *)
LEMMA DoneIs ==
    ASSUME NEW s \in States
    PROVE  /\ IsDone(s, Committed(s), "committed")
           /\ IsDone(s, RolledBack(s), IF s.ending = "none" THEN "rolled-back" ELSE s.ending)
  <1>1. ASSUME NEW e \in Endings, NEW t, t = [s EXCEPT !.done = TRUE, !.ending = e]
        PROVE  IsDone(s, t, e)
    <2>1. t \in States
      BY <1>1 DEF States
    <2>2. /\ SameSc(s, t) /\ SameBook(s, t) /\ SameLine(s, t)
          /\ SameBusy(s, t) /\ SameData(s, t)
      BY <1>1 DEF States, SameSc, SameBook, SameLine, SameBusy, SameData
    <2>3. /\ t.pc = s.pc /\ t.begun = s.begun /\ t.poisoned = s.poisoned /\ t.cut = s.cut
          /\ t.done /\ t.ending = e
      BY <1>1 DEF States
    <2> QED BY <2>1, <2>2, <2>3 DEF IsDone
  <1> DEFINE e == IF s.ending = "none" THEN "rolled-back" ELSE s.ending
  <1>2. e \in Endings /\ "committed" \in Endings
    BY DEF States, Endings
  <1>3. Committed(s) = [s EXCEPT !.done = TRUE, !.ending = "committed"]
    BY DEF Committed
  <1>4. RolledBack(s) = [s EXCEPT !.done = TRUE, !.ending = e]
    BY DEF RolledBack
  <1> HIDE DEF e
  <1>5. IsDone(s, Committed(s), "committed") /\ IsDone(s, RolledBack(s), e)
    BY <1>1, <1>2, <1>3, <1>4
  <1> QED BY <1>5 DEF e

(* The transaction fails: it dies, and the generators it leaves are closed. *)
Fails_(s, t) ==
    \E r \in States :
        /\ Dies(s, r)
        /\ t \in States
        /\ SameSc(r, t) /\ SameEnding(r, t) /\ SameLine(r, t) /\ SameBusy(r, t) /\ SameData(r, t)
        /\ t.begun = r.begun /\ t.done = r.done /\ t.poisoned = r.poisoned /\ t.stack = r.stack
        /\ t.pc = "unwinding" /\ t.closing = OpenStatements(s)

(* The callback's failure, or the library's own, begins the unwinding       *)
(* (Fail).                                                                  *)
LEMMA FailIs ==
    ASSUME NEW s \in States, Len(s.calls) <= MaxCalls
    PROVE  Fails_(s, Fail(s))
  <1> DEFINE r == Die(s)
             o == OpenStatements(s)
             t == [r EXCEPT !.pc = "unwinding", !.closing = o]
  <1>1. Fail(s) = t
    BY DEF Fail
  <1>2. r \in States /\ Dies(s, r)
    BY DiesIs
  <1>3. o \in SUBSET Calls
    BY CallsAre, TransactionAssumption DEF OpenStatements, Calls
  <1> HIDE DEF r, o
  <1>4. t \in States /\ t.pc = "unwinding" /\ t.closing = o
    BY <1>2, <1>3 DEF States, Phases
  <1>5. /\ SameSc(r, t) /\ SameEnding(r, t) /\ SameLine(r, t) /\ SameBusy(r, t)
        /\ SameData(r, t)
        /\ t.begun = r.begun /\ t.done = r.done /\ t.poisoned = r.poisoned /\ t.stack = r.stack
    BY <1>2 DEF States, SameSc, SameEnding, SameLine, SameBusy, SameData
  <1> HIDE DEF t
  <1> QED BY <1>1, <1>2, <1>4, <1>5 DEF Fails_, o

(* A generator that never ran is closed.                                    *)
IsShut(s, t, i) ==
    /\ t \in States
    /\ SameSc(s, t) /\ SamePc(s, t) /\ t.stack = s.stack /\ SameData(s, t) /\ SameBusy(s, t)
    /\ SameEnding(s, t)
    /\ t.abandoned = s.abandoned
    /\ t.tail = s.tail
    /\ Len(t.calls) = Len(s.calls)
    /\ DOMAIN t.calls = DOMAIN s.calls
    /\ \A j \in DOMAIN s.calls :
          /\ Kin(t.calls[j], s.calls[j])
          /\ t.calls[j].prior = s.calls[j].prior
          /\ t.calls[j].pc = IF j = i THEN "over" ELSE s.calls[j].pc
          /\ t.calls[j].told = IF j = i THEN "closed" ELSE s.calls[j].told

Shut(s, i, o) ==
    [[s EXCEPT !.closing = o] EXCEPT !.calls[i].pc = "over", !.calls[i].told = "closed"]

(* A generator never pulled is shut (Shut).                                 *)
LEMMA ShutIs ==
    ASSUME NEW s \in States, NEW i \in DOMAIN s.calls, NEW o \in SUBSET Calls
    PROVE  IsShut(s, Shut(s, i, o), i) /\ Shut(s, i, o).closing = o
  <1> DEFINE t == [[s EXCEPT !.closing = o]
                      EXCEPT !.calls[i].pc = "over", !.calls[i].told = "closed"]
  <1> SUFFICES IsShut(s, t, i) /\ t.closing = o
    BY DEF Shut
  <1> DEFINE cs == [s.calls EXCEPT ![i].pc = "over"]
             ds == [cs EXCEPT ![i].told = "closed"]
  <1>1. Stepped(s.calls, cs, i, "over")
    BY SteppedIs, CallsAre DEF CallPcs
  <1> HIDE DEF cs
  <1>2. /\ cs \in Seq(Call) /\ Len(cs) = Len(s.calls) /\ DOMAIN cs = DOMAIN s.calls
        /\ \A j \in DOMAIN cs : cs[j] \in Call
    BY <1>1 DEF Stepped
  <1>3. [cs[i] EXCEPT !.told = "closed"] \in Call
    BY <1>2 DEF Call
  <1>4. ds \in Seq(Call) /\ Len(ds) = Len(cs) /\ DOMAIN ds = DOMAIN cs
    BY <1>2, <1>3
  <1>5. \A j \in DOMAIN cs :
          /\ j # i => ds[j] = cs[j]
          /\ j = i => ds[j] = [cs[i] EXCEPT !.told = "closed"]
    BY <1>2
  <1> HIDE DEF ds
  <1>6. \A j \in DOMAIN s.calls :
          /\ Kin(ds[j], s.calls[j])
          /\ ds[j].prior = s.calls[j].prior
          /\ ds[j].pc = IF j = i THEN "over" ELSE s.calls[j].pc
          /\ ds[j].told = IF j = i THEN "closed" ELSE s.calls[j].told
    BY <1>1, <1>2, <1>5 DEF Stepped, Kin, Call
  <1>7. t = [s EXCEPT !.closing = o, !.calls = ds]
    <2>1. t.calls = ds
      BY DEF States, cs, ds
    <2> QED BY DEF cs, ds
  <1>8. t \in States /\ t.calls = ds /\ t.closing = o
    BY <1>4, <1>7, <1>2 DEF States
  <1>9. /\ SameSc(s, t) /\ SamePc(s, t) /\ t.stack = s.stack /\ SameData(s, t)
        /\ SameBusy(s, t) /\ SameEnding(s, t)
        /\ t.abandoned = s.abandoned /\ t.tail = s.tail
    BY <1>7 DEF States, SameSc, SamePc, SameData, SameBusy, SameEnding
  <1> QED BY <1>2, <1>4, <1>6, <1>8, <1>9 DEF IsShut

(* A call is made.                                                          *)
IsMade(s, t, c) ==
    /\ t \in States
    /\ SameSc(s, t) /\ SamePc(s, t) /\ t.closing = s.closing /\ SameData(s, t) /\ SameBusy(s, t)
    /\ SameEnding(s, t)
    /\ t.abandoned = s.abandoned
    /\ t.tail = s.tail
    /\ t.calls = Append(s.calls, c)

(* A call is made, with a new stack of savepoints.                          *)
LEMMA MadeIs ==
    ASSUME NEW s \in States, NEW c \in Call, NEW k \in Seq(Calls)
    PROVE  /\ IsMade(s, [s EXCEPT !.calls = Append(s.calls, c), !.stack = k], c)
           /\ [s EXCEPT !.calls = Append(s.calls, c), !.stack = k].stack = k
  <1> DEFINE t == [s EXCEPT !.calls = Append(s.calls, c), !.stack = k]
  <1> SUFFICES IsMade(s, t, c) /\ t.stack = k
    OBVIOUS
  <1>1. Append(s.calls, c) \in Seq(Call)
    BY CallsAre
  <1>2. t \in States
    BY <1>1 DEF States
  <1>3. /\ SameSc(s, t) /\ SamePc(s, t) /\ t.closing = s.closing /\ SameData(s, t)
        /\ SameBusy(s, t) /\ SameEnding(s, t)
    BY DEF States, SameSc, SamePc, SameData, SameBusy, SameEnding
  <1>4. t.abandoned = s.abandoned /\ t.tail = s.tail /\ t.calls = Append(s.calls, c)
        /\ t.stack = k
    BY DEF States
  <1> QED BY <1>2, <1>3, <1>4 DEF IsMade

(* A call is made, and the stack stays.                                     *)
LEMMA MadeIsToo ==
    ASSUME NEW s \in States, NEW c \in Call, NEW t,
           t = [s EXCEPT !.calls = Append(s.calls, c)]
    PROVE  IsMade(s, t, c) /\ t.stack = s.stack
  <1>1. Append(s.calls, c) \in Seq(Call)
    BY CallsAre
  <1>2. t \in States
    BY <1>1 DEF States
  <1>3. /\ SameSc(s, t) /\ SamePc(s, t) /\ t.closing = s.closing /\ SameData(s, t)
        /\ SameBusy(s, t) /\ SameEnding(s, t)
    BY DEF States, SameSc, SamePc, SameData, SameBusy, SameEnding
  <1>4. t.abandoned = s.abandoned /\ t.tail = s.tail /\ t.calls = Append(s.calls, c)
        /\ t.stack = s.stack
    BY DEF States
  <1> QED BY <1>2, <1>3, <1>4 DEF IsMade

Own == {"begin", "concluding", "rolling"}

(* What refers to a call refers to one that was made.                       *)
Bounds(s) ==
    /\ Len(s.calls) <= MaxCalls
    /\ s.tail \in 0 .. Len(s.calls)
    /\ s.abandoned \in 0 .. Len(s.calls)
    /\ s.closing \subseteq DOMAIN s.calls
    /\ s.stack \in Seq(DOMAIN s.calls)
    /\ s.db \subseteq DOMAIN s.calls
    /\ s.conn.log \in Seq(EntriesOf(Len(s.calls)))
    /\ s.ledger \in Seq(EntriesOf(Len(s.calls)))

(* The transaction's own query is in flight exactly while it waits for it.  *)
OwnFlight(s) ==
    /\ s.pc \in Own <=> ~IsIdle(s) /\ s.busy.call = 0
    /\ ~IsIdle(s) => s.busy.call \in 0 .. Len(s.calls)
    /\ ~IsIdle(s) /\ s.busy.call = 0 =>
          /\ s.busy.verb \in {"begin", "commit", "rollback"}
          /\ s.busy.stage \in {"posted", "ended"}

TypeInv(s) == s \in States /\ Bounds(s) /\ OwnFlight(s)

(* What leaves the calls and the data as they are keeps the types.          *)
LEMMA TypeSame ==
    ASSUME NEW s, NEW t, TypeInv(s), t \in States, Len(t.calls) = Len(s.calls),
           DOMAIN t.calls = DOMAIN s.calls,
           t.tail \in 0 .. Len(s.calls), t.abandoned \in 0 .. Len(s.calls),
           t.closing \subseteq DOMAIN s.calls, t.stack = s.stack, SameData(s, t),
           OwnFlight(t)
    PROVE  TypeInv(t)
  BY DEF TypeInv, Bounds, SameData

(* The signal firing keeps the types.                                       *)
LEMMA TypeCut ==
    ASSUME NEW s, NEW t, TypeInv(s), IsCut(s, t)
    PROVE  TypeInv(t)
  <1>1. OwnFlight(t)
    BY DEF TypeInv, OwnFlight, IsCut, SamePc, SameLine, SameQuery
  <1> QED BY <1>1, TypeSame DEF TypeInv, Bounds, IsCut, SameLine, SameBook

(* The transaction dying keeps the types.                                   *)
LEMMA TypeDies ==
    ASSUME NEW s, NEW t, TypeInv(s), Dies(s, t)
    PROVE  TypeInv(t)
  BY TypeCut DEF Dies

(* A call that is over keeps the types.                                     *)
LEMMA TypeSettled ==
    ASSUME NEW s, NEW t, NEW i \in DOMAIN s.calls, NEW v, TypeInv(s), IsSettled(s, t, i, v)
    PROVE  TypeInv(t)
  <1>1. OwnFlight(t)
    BY DEF TypeInv, OwnFlight, IsSettled, SamePc, SameBusy, IsIdle
  <1>2. 0 \in 0 .. Len(s.calls)
    BY CallsAre DEF TypeInv
  <1> QED BY <1>1, <1>2, TypeSame DEF TypeInv, Bounds, IsSettled, SameBook, Nobody

(* A call going on keeps the types.                                         *)
LEMMA TypeMoved ==
    ASSUME NEW s, NEW t, NEW i \in DOMAIN s.calls, NEW p, TypeInv(s), IsMoved(s, t, i, p)
    PROVE  TypeInv(t)
  <1>1. OwnFlight(t)
    BY DEF TypeInv, OwnFlight, IsMoved, SamePc, SameBusy, IsIdle
  <1> QED BY <1>1, TypeSame DEF TypeInv, Bounds, IsMoved, SameBook

(* A call that is posted keeps the types.                                   *)
LEMMA TypeRun ==
    ASSUME NEW s, NEW t, NEW i \in DOMAIN s.calls, NEW open, TypeInv(s), IsRun(s, t, i, open),
           IsIdle(s)
    PROVE  TypeInv(t)
  <1>0. i # 0 /\ i \in 0 .. Len(s.calls)
    <2>1. i \in 1 .. Len(s.calls) /\ Len(s.calls) \in Nat
      BY CallsAre DEF TypeInv
    <2> QED BY <2>1
  <1>1. OwnFlight(t)
    BY <1>0 DEF TypeInv, OwnFlight, IsRun, SamePc, Stepped
  <1> QED BY <1>1, TypeSame DEF TypeInv, Bounds, IsRun, SameBook, Stepped

(* A call's start keeps the types.                                          *)
LEMMA TypeStarts ==
    ASSUME NEW s, NEW t, NEW i \in DOMAIN s.calls, NEW open, TypeInv(s), Starts(s, t, i, open)
    PROVE  TypeInv(t)
  <1>1. CASE IsIdle(s) /\ ~s.dead /\ IsRun(s, t, i, open)
    BY <1>1, TypeRun
  <1>2. ASSUME NEW r \in States, NEW v, r = s \/ Dies(s, r), IsSettled(r, t, i, v)
        PROVE  TypeInv(t)
    <2>1. TypeInv(r) /\ i \in DOMAIN r.calls
      BY <1>2, TypeDies DEF Dies, IsCut, SameLine
    <2> QED BY <1>2, <2>1, TypeSettled
  <1> QED BY <1>1, <1>2 DEF Starts

(* A call's turn keeps the types.                                           *)
LEMMA TypeTakes ==
    ASSUME NEW s, NEW t, NEW i \in DOMAIN s.calls, TypeInv(s), Takes(s, t, i)
    PROVE  TypeInv(t)
  BY TypeMoved, TypeStarts DEF Takes

(* A place in the queue keeps the types.                                    *)
LEMMA TypePlaced ==
    ASSUME NEW s, NEW t, NEW i \in DOMAIN s.calls, TypeInv(s), IsPlaced(s, t, i)
    PROVE  TypeInv(t)
  <1>1. OwnFlight(t)
    BY DEF TypeInv, OwnFlight, IsPlaced, SamePc, SameBusy, IsIdle
  <1>2. i \in 0 .. Len(s.calls)
    BY CallsAre DEF TypeInv
  <1> QED BY <1>1, <1>2, TypeSame DEF TypeInv, Bounds, IsPlaced, SameBook

(* Joining the queue keeps the types.                                       *)
LEMMA TypeEnqueues ==
    ASSUME NEW s, NEW t, NEW i \in DOMAIN s.calls, TypeInv(s), Enqueues(s, t, i)
    PROVE  TypeInv(t)
  <1>1. PICK r \in States :
            /\ IsPlaced(s, r, i)
            /\ IF s.tail = Nobody /\ s.abandoned = Nobody THEN Takes(r, t, i) ELSE t = r
    BY DEF Enqueues
  <1>2. TypeInv(r) /\ i \in DOMAIN r.calls
    BY <1>1, TypePlaced DEF IsPlaced
  <1> QED BY <1>1, <1>2, TypeTakes

(* A call given up keeps the types.                                         *)
LEMMA TypeAbandoned ==
    ASSUME NEW s, NEW t, NEW i \in DOMAIN s.calls, TypeInv(s), IsAbandoned(s, t, i)
    PROVE  TypeInv(t)
  <1>1. OwnFlight(t)
    BY DEF TypeInv, OwnFlight, IsAbandoned, SamePc, IsIdle
  <1>2. i \in 0 .. Len(s.calls) /\ 0 \in 0 .. Len(s.calls)
    BY CallsAre DEF TypeInv
  <1> QED BY <1>1, <1>2, TypeSame, SMTT(30) DEF TypeInv, Bounds, IsAbandoned, SameBook, Nobody

(* A stop keeps the types.                                                  *)
LEMMA TypeStopped ==
    ASSUME NEW s, NEW t, TypeInv(s), ~IsIdle(s), IsStopped(s, t)
    PROVE  TypeInv(t)
  <1>1. OwnFlight(t)
    BY DEF TypeInv, OwnFlight, IsStopped, SamePc, SameLine, SameQuery
  <1> QED BY <1>1, TypeSame DEF TypeInv, Bounds, IsStopped, SameLine, SameBook

(* The reply heard keeps the types.                                         *)
LEMMA TypeReplied ==
    ASSUME NEW s, NEW t, TypeInv(s), ~IsIdle(s), s.busy.call # 0, IsReplied(s, t)
    PROVE  TypeInv(t)
  <1>1. OwnFlight(t)
    BY DEF TypeInv, OwnFlight, IsReplied, SamePc
  <1> QED BY <1>1, TypeSame DEF TypeInv, Bounds, IsReplied, SameLine, SameBook

(* The account's new entry keeps the types.                                 *)
LEMMA TypeRecorded ==
    ASSUME NEW s, NEW t, NEW i \in DOMAIN s.calls, TypeInv(s), IsRecorded(s, t, i)
    PROVE  TypeInv(t)
  <1>1. OwnFlight(t)
    BY DEF TypeInv, OwnFlight, IsRecorded, SamePc, SameBusy, SameLine, IsIdle
  <1>2. t.ledger \in Seq(EntriesOf(Len(s.calls)))
    BY CallsAre, AccountType DEF TypeInv, Bounds, IsRecorded
  <1> QED BY <1>1, <1>2 DEF TypeInv, Bounds, IsRecorded, SameBook, SameLine

(* The recorded ending keeps the types.                                     *)
LEMMA TypeDone ==
    ASSUME NEW s, NEW t, NEW e, TypeInv(s), IsDone(s, t, e)
    PROVE  TypeInv(t)
  <1>1. OwnFlight(t)
    BY DEF TypeInv, OwnFlight, IsDone, SameBusy, SameLine, IsIdle
  <1> QED BY <1>1, TypeSame DEF TypeInv, Bounds, IsDone, SameBook, SameLine

(* The generators left open are calls.                                      *)
LEMMA OpenAreCalls ==
    ASSUME NEW s
    PROVE  OpenStatements(s) \subseteq DOMAIN s.calls
  BY DEF OpenStatements

(* The transaction dying keeps every reference to a call in range.          *)
LEMMA BoundsDie ==
    ASSUME NEW s, NEW t, Bounds(s), Dies(s, t)
    PROVE  Bounds(t)
  BY DEF Dies, IsCut, Bounds, SameLine, SameBook, SameData

(* The unwinding begins within the types.                                   *)
LEMMA TypeFails ==
    ASSUME NEW s \in States, NEW t, Bounds(s), Fails_(s, t),
           ~IsIdle(s) => s.busy.call \in 1 .. Len(s.calls)
    PROVE  TypeInv(t)
  <1>1. PICK r \in States :
        /\ Dies(s, r)
        /\ t \in States
        /\ SameSc(r, t) /\ SameEnding(r, t) /\ SameLine(r, t) /\ SameBusy(r, t) /\ SameData(r, t)
        /\ t.begun = r.begun /\ t.done = r.done /\ t.poisoned = r.poisoned /\ t.stack = r.stack
        /\ t.pc = "unwinding" /\ t.closing = OpenStatements(s)
    BY DEF Fails_
  <1>2. Bounds(r) /\ r.calls = s.calls
    BY <1>1, BoundsDie DEF Dies, IsCut, SameLine
  <1>3. Bounds(t)
    BY <1>1, <1>2, OpenAreCalls DEF Bounds, SameLine, SameData
  <1>4. ~IsIdle(r) => r.busy.call \in 1 .. Len(s.calls)
    BY <1>1 DEF Dies, IsCut, SameQuery
  <1>5. ~IsIdle(t) => t.busy.call \in 1 .. Len(t.calls)
    BY <1>1, <1>2, <1>4 DEF SameBusy, SameLine, IsIdle
  <1>6. OwnFlight(t)
    BY <1>1, <1>5, CallsAre DEF OwnFlight, Own
  <1> QED BY <1>1, <1>3, <1>6 DEF TypeInv

(* A generator shut keeps the types.                                        *)
LEMMA TypeShut ==
    ASSUME NEW s, NEW t, NEW i \in DOMAIN s.calls, TypeInv(s), IsShut(s, t, i),
           t.closing \subseteq s.closing
    PROVE  TypeInv(t)
  <1>1. OwnFlight(t)
    BY DEF TypeInv, OwnFlight, IsShut, SamePc, SameBusy, IsIdle
  <1> QED BY <1>1, TypeSame DEF TypeInv, Bounds, IsShut

(* A journal of n calls is one of n + 1.                                    *)
LEMMA EntriesGrow ==
    ASSUME NEW n \in Nat, NEW l \in Seq(EntriesOf(n))
    PROVE  l \in Seq(EntriesOf(n + 1))
  <1>0. 0 .. n \subseteq 0 .. n + 1
    OBVIOUS
  <1> DEFINE M == 0 .. n
             N == 0 .. n + 1
  <1>1. [call : M, name : {"a", "b", Library, ""}] \subseteq [call : N, name : {"a", "b", Library, ""}]
    <2> HIDE DEF M, N
    <2> QED BY <1>0 DEF M, N
  <1>2. EntriesOf(n) \subseteq EntriesOf(n + 1)
    BY <1>1 DEF EntriesOf
  <1> QED BY <1>2

(* A new call keeps the types.                                              *)
LEMMA TypeMade ==
    ASSUME NEW s, NEW t, NEW c \in Call, TypeInv(s), IsMade(s, t, c),
           Len(s.calls) < MaxCalls, t.stack \in Seq(1 .. Len(s.calls) + 1)
    PROVE  TypeInv(t) /\ Len(t.calls) = Len(s.calls) + 1
  <1>0. s.calls \in Seq(Call) /\ Len(s.calls) \in Nat /\ DOMAIN s.calls = 1 .. Len(s.calls)
        /\ MaxCalls \in Nat
    BY CallsAre, TransactionAssumption DEF TypeInv
  <1>1. Len(t.calls) = Len(s.calls) + 1 /\ DOMAIN t.calls = 1 .. Len(s.calls) + 1
    BY <1>0 DEF IsMade
  <1>2. OwnFlight(t)
    BY <1>0, <1>1 DEF TypeInv, OwnFlight, IsMade, SamePc, SameBusy, IsIdle
  <1>3. /\ t.conn.log \in Seq(EntriesOf(Len(t.calls)))
        /\ t.ledger \in Seq(EntriesOf(Len(t.calls)))
    BY <1>0, <1>1, EntriesGrow DEF TypeInv, Bounds, IsMade, SameData
  <1>4. Bounds(t)
    BY <1>0, <1>1, <1>3, SMTT(30) DEF TypeInv, Bounds, IsMade, SameData
  <1> QED BY <1>1, <1>2, <1>4 DEF TypeInv, IsMade

(* The worker is done with the query in flight, or further with it.         *)
IsWorked(s, t, conn, db, stage, failed) ==
    /\ t \in States
    /\ SameSc(s, t) /\ SamePc(s, t) /\ SameEnding(s, t) /\ SameBook(s, t) /\ SameLine(s, t)
    /\ t.pending = s.pending /\ t.said = s.said /\ t.dead = s.dead /\ t.ledger = s.ledger
    /\ t.conn = conn /\ t.db = db
    /\ ~IsIdle(t)
    /\ t.busy.call = s.busy.call /\ t.busy.verb = s.busy.verb /\ t.busy.name = s.busy.name
    /\ t.busy.conclude = s.busy.conclude /\ t.busy.open = s.busy.open
    /\ t.busy.stop = s.busy.stop
    /\ t.busy.stage = stage /\ t.busy.failed = failed

Conns == [in : BOOLEAN, log : Seq(Entries)]

(* The worker goes on with its query, and nothing else changes.             *)
LEMMA WorkedIs ==
    ASSUME NEW s \in States, ~IsIdle(s), NEW conn \in Conns, NEW db \in SUBSET Calls,
           NEW b \in Messages, NEW t,
           /\ b.call = s.busy.call /\ b.verb = s.busy.verb /\ b.name = s.busy.name
           /\ b.conclude = s.busy.conclude /\ b.open = s.busy.open
           /\ b.stop = s.busy.stop,
           \/ t = [s EXCEPT !.conn = conn, !.db = db, !.busy = b]
           \/ db = s.db /\ t = [s EXCEPT !.conn = conn, !.busy = b]
           \/ conn = s.conn /\ db = s.db /\ t = [s EXCEPT !.busy = b]
    PROVE  IsWorked(s, t, conn, db, b.stage, b.failed)
  <1>1. t \in States
    <2>1. CASE t = [s EXCEPT !.conn = conn, !.db = db, !.busy = b]
      BY <2>1 DEF States, Conns
    <2>2. CASE t = [s EXCEPT !.conn = conn, !.busy = b]
      BY <2>2 DEF States, Conns
    <2>3. CASE t = [s EXCEPT !.busy = b]
      BY <2>3 DEF States
    <2> QED BY <2>1, <2>2, <2>3
  <1>2. t.busy = b /\ t.conn = conn /\ t.db = db
        /\ t.pending = s.pending /\ t.said = s.said /\ t.dead = s.dead /\ t.ledger = s.ledger
    BY DEF States
  <1>3. SameSc(s, t) /\ SamePc(s, t) /\ SameEnding(s, t) /\ SameBook(s, t) /\ SameLine(s, t)
    BY ZenonT(60) DEF States, SameSc, SamePc, SameEnding, SameBook, SameLine
  <1>4. ~IsIdle(t)
    BY <1>1, <1>2, IdleIs
  <1> QED BY <1>1, <1>2, <1>3, <1>4 DEF IsWorked

(* The connection's journal, of the first n calls.                          *)
ConnsOf(n) == [in : BOOLEAN, log : Seq(EntriesOf(n))]

(* A journal after the deferred savepoint verb is a journal.                *)
LEMMA ConcludedType ==
    ASSUME NEW S, NEW log \in Seq(S), NEW c
    PROVE  Concluded(log, c) \in Seq(S)
  <1>1. RolledBackTo(log, Library) \in Seq(S)
    BY RolledBackToType
  <1>2. Released(RolledBackTo(log, Library), Library) \in Seq(S) /\ Released(log, Library) \in Seq(S)
    BY <1>1, ReleasedType
  <1> QED BY <1>2 DEF Concluded

(* The connection after the prelude of a query.                             *)
LEMMA PreludeIs ==
    ASSUME NEW n \in Nat, NEW conn \in ConnsOf(n), NEW m \in Messages
    PROVE  /\ Prelude(conn, m) \in ConnsOf(n)
           /\ (Prelude(conn, m).in <=> conn.in \/ m.open)
           /\ Prelude(conn, m).log = IF m.open THEN Append(Concluded(conn.log, m.conclude), Mark(Library))
                                     ELSE Concluded(conn.log, m.conclude)
  <1> DEFINE l == Concluded(conn.log, m.conclude)
  <1>1. l \in Seq(EntriesOf(n)) /\ conn.in \in BOOLEAN
    BY ConcludedType DEF ConnsOf
  <1>2. Append(l, Mark(Library)) \in Seq(EntriesOf(n))
    <2>1. Mark(Library) \in EntriesOf(n)
      BY DEF Mark, EntriesOf
    <2> QED BY <1>1, <2>1
  <1>3. Prelude(conn, m) = IF m.open THEN [in |-> TRUE, log |-> Append(l, Mark(Library))]
                           ELSE [conn EXCEPT !.log = l]
    BY DEF Prelude
  <1>4. CASE m.open
    <2>1. Prelude(conn, m) = [in |-> TRUE, log |-> Append(l, Mark(Library))]
      BY <1>3, <1>4
    <2> HIDE DEF l
    <2> QED BY <1>2, <1>4, <2>1 DEF ConnsOf, l
  <1>5. CASE ~m.open
    <2>1. Prelude(conn, m) = [conn EXCEPT !.log = l]
      BY <1>3, <1>5
    <2> HIDE DEF l
    <2> QED BY <1>1, <1>5, <2>1 DEF ConnsOf, l
  <1> QED BY <1>4, <1>5

(* What the statement makes of the connection.                              *)
Ran(conn, m) ==
    IF m.verb \in {"commit", "rollback"} THEN [in |-> FALSE, log |-> <<>>]
    ELSE IF m.verb = "begin" THEN [in |-> TRUE, log |-> <<>>]
    ELSE IF m.verb = "write" THEN
        IF conn.in THEN [in |-> conn.in, log |-> Append(conn.log, Effect(m.call))] ELSE conn
    ELSE IF m.verb = "savepoint" THEN [in |-> TRUE, log |-> Append(conn.log, Mark(m.name))]
    ELSE IF m.verb = "release" THEN [in |-> conn.in, log |-> Released(conn.log, m.name)]
    ELSE IF m.verb = "rollbackTo" THEN [in |-> conn.in, log |-> RolledBackTo(conn.log, m.name)]
    ELSE conn

(* What the query does to the connection, its prelude apart.                *)
LEMMA ExecutedIs ==
    ASSUME NEW n \in Nat, NEW conn \in ConnsOf(n), NEW m \in Messages
    PROVE  Executed(conn, m) = Ran(conn, m)
  <1>1. m.verb \in Verbs
    BY DEF Messages, Verbs
  <1>2. /\ \A l : [conn EXCEPT !.log = l] = [in |-> conn.in, log |-> l]
    BY DEF ConnsOf
  <1>3. CASE m.verb \in {"commit", "rollback", "begin", "savepoint", "read"}
    BY <1>3 DEF Executed, Ran, OutOfTransaction
  <1>4. CASE m.verb = "write"
    BY <1>2, <1>4 DEF Executed, Ran, OutOfTransaction
  <1>5. CASE m.verb = "release"
    BY <1>2, <1>5 DEF Executed, Ran, OutOfTransaction
  <1>6. CASE m.verb = "rollbackTo"
    BY <1>2, <1>6 DEF Executed, Ran, OutOfTransaction
  <1> QED BY <1>1, <1>3, <1>4, <1>5, <1>6 DEF Verbs

(* The connection after a query is one.                                     *)
LEMMA RanType ==
    ASSUME NEW n \in Nat, NEW conn \in ConnsOf(n), NEW m \in Messages, m.call \in 0 .. n
    PROVE  Ran(conn, m) \in ConnsOf(n)
  <1>1. conn.in \in BOOLEAN /\ conn.log \in Seq(EntriesOf(n)) /\ m.name \in Names
    BY DEF ConnsOf, Messages, Names
  <1>2. <<>> \in Seq(EntriesOf(n))
    OBVIOUS
  <1>3. /\ Released(conn.log, m.name) \in Seq(EntriesOf(n))
        /\ RolledBackTo(conn.log, m.name) \in Seq(EntriesOf(n))
    BY <1>1, ReleasedType, RolledBackToType
  <1>4. Append(conn.log, Mark(m.name)) \in Seq(EntriesOf(n))
    <2>1. 0 \in 0 .. n
      OBVIOUS
    <2>2. Mark(m.name) \in EntriesOf(n)
      BY <1>1, <2>1 DEF Mark, EntriesOf, Names
    <2> QED BY <1>1, <2>2
  <1>5. m.verb = "write" => Append(conn.log, Effect(m.call)) \in Seq(EntriesOf(n))
    <2>1. Effect(m.call) \in EntriesOf(n)
      BY DEF Effect, EntriesOf
    <2> QED BY <1>1, <2>1
  <1>6. CASE m.verb \in {"commit", "rollback", "begin"}
    BY <1>2, <1>6 DEF Ran, ConnsOf
  <1>7. CASE m.verb = "write"
    BY <1>1, <1>5, <1>7 DEF Ran, ConnsOf
  <1>8. CASE m.verb = "savepoint"
    BY <1>4, <1>8 DEF Ran, ConnsOf
  <1>9. CASE m.verb \in {"release", "rollbackTo"}
    BY <1>1, <1>3, <1>9 DEF Ran, ConnsOf
  <1>10. CASE m.verb \notin {"commit", "rollback", "begin", "write", "savepoint", "release", "rollbackTo"}
    BY <1>10 DEF Ran
  <1> QED BY <1>6, <1>7, <1>8, <1>9, <1>10

(* The connection's journal holds calls that were made.                     *)
LEMMA ConnIs ==
    ASSUME NEW s, TypeInv(s)
    PROVE  s.conn \in ConnsOf(Len(s.calls)) /\ Len(s.calls) \in Nat
  <1>1. s.conn \in [in : BOOLEAN, log : Seq(Entries)] /\ Len(s.calls) \in Nat
    BY CallsAre DEF TypeInv, States
  <1>2. s.conn.log \in Seq(EntriesOf(Len(s.calls)))
    BY DEF TypeInv, Bounds
  <1>3. s.conn = [in |-> s.conn.in, log |-> s.conn.log]
    BY <1>1
  <1> QED BY <1>1, <1>2, <1>3 DEF ConnsOf

(* A connection of n calls is one of the model's.                           *)
LEMMA ConnsGrow ==
    ASSUME NEW n \in Nat, n <= MaxCalls, NEW conn \in ConnsOf(n)
    PROVE  conn \in Conns
  <1>1. 0 .. n \subseteq 0 .. MaxCalls
    BY TransactionAssumption
  <1> DEFINE M == 0 .. n
             N == 0 .. MaxCalls
  <1>2. [call : M, name : {"a", "b", Library, ""}] \subseteq [call : N, name : {"a", "b", Library, ""}]
    <2> HIDE DEF M, N
    <2> QED BY <1>1 DEF M, N
  <1>3. EntriesOf(n) \subseteq Entries
    BY <1>2 DEF EntriesOf, Entries
  <1>4. conn.log \in Seq(EntriesOf(n)) /\ conn.in \in BOOLEAN
        /\ conn = [in |-> conn.in, log |-> conn.log]
    BY DEF ConnsOf
  <1>5. conn.log \in Seq(Entries)
    BY <1>3, <1>4
  <1> QED BY <1>4, <1>5 DEF Conns

(* What a query writes to the file.                                         *)
LEMMA WrittenIs ==
    ASSUME NEW n \in Nat, NEW conn \in ConnsOf(n), NEW m \in Messages, m.call \in 0 .. n,
           m.verb = "write" => m.call # 0
    PROVE  /\ Written(conn, m) = IF m.verb = "commit" THEN Effects(conn.log)
                                 ELSE IF m.verb = "write" /\ ~conn.in THEN {m.call} ELSE {}
           /\ Written(conn, m) \subseteq 1 .. n
  <1>1. Written(conn, m) = IF m.verb = "commit" THEN Effects(conn.log)
                           ELSE IF m.verb = "write" /\ ~conn.in THEN {m.call} ELSE {}
    <2>1. CASE m.verb = "commit"
      BY <2>1 DEF Written
    <2>2. CASE m.verb # "commit" /\ m.verb = "write" /\ ~conn.in
      BY <2>2 DEF Written
    <2>3. CASE m.verb # "commit" /\ ~(m.verb = "write" /\ ~conn.in)
      BY <2>3 DEF Written
    <2> QED BY <2>1, <2>2, <2>3
  <1>2. Effects(conn.log) \subseteq 1 .. n
    <2>1. \A j \in DOMAIN conn.log : conn.log[j].call \in 0 .. n
      <3>1. conn.log \in Seq(EntriesOf(n))
        BY DEF ConnsOf
      <3>2. \A j \in DOMAIN conn.log : conn.log[j] \in EntriesOf(n)
        BY <3>1
      <3> QED BY <3>2 DEF EntriesOf
    <2> QED BY <2>1 DEF Effects, IsEffect
  <1>3. m.verb = "write" => {m.call} \subseteq 1 .. n
    OBVIOUS
  <1> QED BY <1>1, <1>2, <1>3

(* The worker's step keeps the types.                                       *)
LEMMA TypeWorked ==
    ASSUME NEW s, NEW t, NEW conn \in ConnsOf(Len(s.calls)), NEW db \in SUBSET (1 .. Len(s.calls)),
           NEW stage, NEW failed, TypeInv(s), ~IsIdle(s), IsWorked(s, t, conn, db, stage, failed),
           s.busy.call = 0 => stage \in {"posted", "ended"}
    PROVE  TypeInv(t)
  <1>1. OwnFlight(t)
    BY DEF TypeInv, OwnFlight, IsWorked, SamePc, SameLine
  <1>2. conn.log \in Seq(EntriesOf(Len(s.calls))) /\ db \subseteq DOMAIN s.calls
    BY CallsAre DEF ConnsOf, TypeInv
  <1> QED BY <1>1, <1>2 DEF TypeInv, Bounds, IsWorked, SameBook, SameLine

(* The query in flight, and the connection once its prelude has run.        *)
Begun(s) == Prelude(s.conn, s.busy)

(* The query in flight and the connection it meets.                         *)
LEMMA QueryIs ==
    ASSUME NEW s, TypeInv(s), ~IsIdle(s)
    PROVE  /\ s.busy \in Messages
           /\ s.busy.call \in 0 .. Len(s.calls)
           /\ s.busy.verb = "write" => s.busy.call # 0
           /\ Begun(s) \in ConnsOf(Len(s.calls))
           /\ Begun(s).in <=> s.conn.in \/ s.busy.open
           /\ Begun(s).log = IF s.busy.open
                             THEN Append(Concluded(s.conn.log, s.busy.conclude), Mark(Library))
                             ELSE Concluded(s.conn.log, s.busy.conclude)
           /\ Executed(Begun(s), s.busy) = Ran(Begun(s), s.busy)
           /\ Ran(Begun(s), s.busy) \in ConnsOf(Len(s.calls))

  <1>1. s.busy \in Messages /\ s.busy.call \in 0 .. Len(s.calls)
        /\ (s.busy.verb = "write" => s.busy.call # 0)
    BY IdleIs DEF TypeInv, OwnFlight
  <1>2. s.conn \in ConnsOf(Len(s.calls)) /\ Len(s.calls) \in Nat
    BY ConnIs
  <1>3. Begun(s) \in ConnsOf(Len(s.calls))
    BY <1>1, <1>2, PreludeIs DEF Begun
  <1>4. /\ Begun(s).in <=> s.conn.in \/ s.busy.open
        /\ Begun(s).log = IF s.busy.open
                             THEN Append(Concluded(s.conn.log, s.busy.conclude), Mark(Library))
                             ELSE Concluded(s.conn.log, s.busy.conclude)
    BY <1>1, <1>2, PreludeIs DEF Begun
  <1>5. Executed(Begun(s), s.busy) = Ran(Begun(s), s.busy)
    BY <1>1, <1>2, <1>3, ExecutedIs
  <1>6. Ran(Begun(s), s.busy) \in ConnsOf(Len(s.calls))
    BY <1>1, <1>2, <1>3, RanType
  <1> QED BY <1>1, <1>3, <1>4, <1>5, <1>6

Stage(s) == IF s.busy.verb = "write" /\ s.calls[s.busy.call].kind = "gen"
            THEN "affected" ELSE "ended"

(* The query succeeds (Succeeds).                                           *)
LEMMA SucceedsIs ==
    ASSUME TypeInv(x), Succeeds
    PROVE  /\ Posted
           /\ PreludeFits(x.conn, x.busy) /\ Fits(Begun(x), x.busy)
           /\ IsWorked(x, x', Ran(Begun(x), x.busy), x.db \cup Written(Begun(x), x.busy),
                       Stage(x), x.busy.failed)
           /\ x.db \cup Written(Begun(x), x.busy) \subseteq 1 .. Len(x.calls)
           /\ TypeInv(x')
  <1> DEFINE conn == Ran(Begun(x), x.busy)
             db == x.db \cup Written(Begun(x), x.busy)
             b == [x.busy EXCEPT !.stage = Stage(x)]
  <1>1. Posted /\ ~IsIdle(x) /\ x \in States
    BY DEF Succeeds, Posted, TypeInv
  <1>2. x.busy \in Messages /\ conn \in ConnsOf(Len(x.calls)) /\ Len(x.calls) \in Nat
        /\ Len(x.calls) <= MaxCalls /\ DOMAIN x.calls = 1 .. Len(x.calls)
    BY <1>1, QueryIs, CallsAre DEF TypeInv, Bounds
  <1>3. conn \in Conns
    BY <1>2, ConnsGrow
  <1>4. db \subseteq 1 .. Len(x.calls)
    <2>1. Written(Begun(x), x.busy) \subseteq 1 .. Len(x.calls)
      BY <1>1, <1>2, QueryIs, WrittenIs
    <2> QED BY <1>2, <2>1 DEF TypeInv, Bounds
  <1>5. db \in SUBSET Calls
    BY <1>2, <1>4, TransactionAssumption DEF Calls
  <1>6. /\ b \in Messages
        /\ b.call = x.busy.call /\ b.verb = x.busy.verb /\ b.name = x.busy.name
        /\ b.conclude = x.busy.conclude /\ b.open = x.busy.open
        /\ b.stop = x.busy.stop /\ b.stage = Stage(x) /\ b.failed = x.busy.failed
    BY <1>2 DEF Messages, Stage
  <1>7. x' = [x EXCEPT !.conn = Executed(Begun(x), x.busy), !.db = db, !.busy = b]
    BY DEF Succeeds, Begun, Stage
  <1>8. x' = [x EXCEPT !.conn = conn, !.db = db, !.busy = b]
    BY <1>1, <1>7, QueryIs
  <1> HIDE DEF conn, db, b
  <1>9. IsWorked(x, x', conn, db, b.stage, b.failed)
    BY <1>1, <1>3, <1>5, <1>6, <1>8, WorkedIs
  <1>10. TypeInv(x')
    <2>1. x.busy.call = 0 => b.stage \in {"posted", "ended"}
      BY <1>1, <1>6, QueryIs DEF Stage
    <2> QED BY <1>1, <1>2, <1>4, <1>9, <2>1, TypeWorked
  <1>11. PreludeFits(x.conn, x.busy) /\ Fits(Begun(x), x.busy)
    BY DEF Succeeds, Begun
  <1> QED BY <1>1, <1>4, <1>6, <1>9, <1>10, <1>11 DEF conn, db

Ended(b, n) ==
    /\ n \in Messages
    /\ n.call = b.call /\ n.verb = b.verb /\ n.name = b.name
    /\ n.conclude = b.conclude /\ n.open = b.open /\ n.stop = b.stop
    /\ n.stage = "ended"

(* A query that ended keeps what it asked for.                              *)
LEMMA EndedIs ==
    ASSUME NEW b \in Messages
    PROVE  /\ Ended(b, [[b EXCEPT !.stage = "ended"] EXCEPT !.failed = TRUE])
           /\ [[b EXCEPT !.stage = "ended"] EXCEPT !.failed = TRUE].failed
           /\ Ended(b, [b EXCEPT !.stage = "ended"])
           /\ [b EXCEPT !.stage = "ended"].failed = b.failed
  BY DEF Messages, Ended

(* The query fails and the transaction stays (Fails).                       *)
LEMMA FailsIs ==
    ASSUME TypeInv(x), Fails
    PROVE  /\ Posted
           /\ PreludeFits(x.conn, x.busy)
           /\ \/ ~Fits(Begun(x), x.busy)
              \/ x.busy.verb \in {"read", "write"}
              \/ "control" \in x.sc.faults
           /\ x.busy.verb = "rollback" /\ x.busy.call # 0 =>
                 "explicit" \in x.sc.faults \/ ~Fits(Begun(x), x.busy)
           /\ IsWorked(x, x', Begun(x), x.db, "ended", TRUE)
           /\ TypeInv(x')
  <1> DEFINE b == [[x.busy EXCEPT !.stage = "ended"] EXCEPT !.failed = TRUE]
  <1>1. Posted /\ ~IsIdle(x) /\ x \in States
    BY DEF Fails, Posted, TypeInv
  <1>2. x.busy \in Messages /\ Begun(x) \in ConnsOf(Len(x.calls)) /\ Len(x.calls) \in Nat
        /\ Len(x.calls) <= MaxCalls /\ DOMAIN x.calls = 1 .. Len(x.calls)
    BY <1>1, QueryIs, CallsAre DEF TypeInv, Bounds
  <1>3. Begun(x) \in Conns
    BY <1>2, ConnsGrow
  <1>4. x.db \in SUBSET Calls /\ x.db \subseteq 1 .. Len(x.calls)
    BY <1>1, <1>2 DEF States, TypeInv, Bounds
  <1>5. Ended(x.busy, b) /\ b.failed = TRUE
    BY <1>2, EndedIs DEF Messages, Ended
  <1>6. x' = [x EXCEPT !.conn = Begun(x), !.busy = b]
    BY DEF Fails, Begun
  <1> HIDE DEF b
  <1>7. IsWorked(x, x', Begun(x), x.db, b.stage, b.failed)
    BY <1>1, <1>3, <1>4, <1>5, <1>6, WorkedIs DEF Ended
  <1>8. IsWorked(x, x', Begun(x), x.db, "ended", TRUE)
    BY <1>5, <1>7 DEF Ended
  <1>9. TypeInv(x')
    BY <1>1, <1>2, <1>4, <1>8, TypeWorked
  <1>10. PreludeFits(x.conn, x.busy)
         /\ \/ ~Fits(Begun(x), x.busy)
            \/ x.busy.verb \in {"read", "write"}
            \/ /\ x.busy.verb \notin {"read", "write"}
               /\ "control" \in x.sc.faults
               /\ x.busy.verb = "rollback" /\ x.busy.call # 0 => "explicit" \in x.sc.faults
    BY DEF Fails, Begun
  <1> QED BY <1>1, <1>8, <1>9, <1>10

(* The query fails and takes the transaction with it (Leaves).              *)
LEMMA LeavesIs ==
    ASSUME TypeInv(x), Leaves
    PROVE  /\ Posted
           /\ x.busy.verb = "commit" /\ x.busy.call # 0 => "explicit" \in x.sc.faults
           /\ \/ x.busy.verb \in {"write", "commit"} \/ x.busy.conclude # "none"
              \/ ~PreludeFits(x.conn, x.busy)
           /\ IsWorked(x, x', OutOfTransaction, x.db, "ended", TRUE)
           /\ TypeInv(x')
  <1> DEFINE b == [[x.busy EXCEPT !.stage = "ended"] EXCEPT !.failed = TRUE]
  <1>1. Posted /\ ~IsIdle(x) /\ x \in States
    BY DEF Leaves, Posted, TypeInv
  <1>2. x.busy \in Messages /\ Len(x.calls) \in Nat
        /\ Len(x.calls) <= MaxCalls /\ DOMAIN x.calls = 1 .. Len(x.calls)
    BY <1>1, QueryIs, CallsAre DEF TypeInv, Bounds
  <1>3. OutOfTransaction \in Conns /\ OutOfTransaction \in ConnsOf(Len(x.calls))
    BY DEF OutOfTransaction, Conns, ConnsOf
  <1>4. x.db \in SUBSET Calls /\ x.db \subseteq 1 .. Len(x.calls)
    BY <1>1, <1>2 DEF States, TypeInv, Bounds
  <1>5. Ended(x.busy, b) /\ b.failed = TRUE
    BY <1>2, EndedIs DEF Messages, Ended
  <1>6. x' = [x EXCEPT !.conn = OutOfTransaction, !.busy = b]
    BY DEF Leaves
  <1> HIDE DEF b
  <1>7. IsWorked(x, x', OutOfTransaction, x.db, b.stage, b.failed)
    BY <1>1, <1>3, <1>4, <1>5, <1>6, WorkedIs DEF Ended
  <1>8. IsWorked(x, x', OutOfTransaction, x.db, "ended", TRUE)
    BY <1>5, <1>7 DEF Ended
  <1>9. TypeInv(x')
    BY <1>1, <1>2, <1>3, <1>4, <1>8, TypeWorked
  <1>10. x.busy.verb = "commit" /\ x.busy.call # 0 => "explicit" \in x.sc.faults
    BY DEF Leaves
  <1>11. \/ x.busy.verb \in {"write", "commit"} \/ x.busy.conclude # "none"
         \/ ~PreludeFits(x.conn, x.busy)
    BY DEF Leaves
  <1> QED BY <1>1, <1>8, <1>9, <1>10, <1>11

(* The worker is gone.                                                      *)
IsCrashed(s, t) ==
    /\ t \in States
    /\ SameSc(s, t) /\ SamePc(s, t) /\ SameEnding(s, t) /\ SameBook(s, t) /\ SameLine(s, t)
    /\ t.pending = s.pending /\ t.said = s.said /\ t.ledger = s.ledger /\ t.db = s.db
    /\ t.dead /\ t.conn = OutOfTransaction
    /\ IsIdle(t) <=> IsIdle(s)
    /\ ~IsIdle(s) => Ended(s.busy, t.busy) /\ t.busy.failed

(* The worker dies (Crash).                                                 *)
LEMMA CrashIs ==
    ASSUME TypeInv(x), Crash
    PROVE  ~x.dead /\ x.pc \notin {"acquiring", "released"} /\ IsCrashed(x, x') /\ TypeInv(x')
  <1> DEFINE c == [[x.busy EXCEPT !.stage = "ended"] EXCEPT !.failed = TRUE]
             b == IF x.busy = Idle THEN Idle ELSE c
  <1>1. ~x.dead /\ x.pc \notin {"acquiring", "released"} /\ x \in States
    BY DEF Crash, TypeInv
  <1>2. ~IsIdle(x) => Ended(x.busy, c) /\ c.failed
    BY <1>1, IdleIs, EndedIs DEF Messages, Ended
  <1>3. b \in Messages \cup {Idle} /\ (IsIdle(x) => b = Idle) /\ (~IsIdle(x) => b = c)
    BY <1>2 DEF Ended, IsIdle
  <1>4. x' = [x EXCEPT !.dead = TRUE, !.conn = OutOfTransaction, !.busy = b]
    BY DEF Crash
  <1>5. OutOfTransaction \in Conns /\ OutOfTransaction.log = <<>>
    BY DEF OutOfTransaction, Conns
  <1> HIDE DEF b, c
  <1>6. x' \in States /\ x'.busy = b /\ x'.dead /\ x'.conn = OutOfTransaction
        /\ x'.pending = x.pending /\ x'.said = x.said /\ x'.ledger = x.ledger /\ x'.db = x.db
    BY <1>1, <1>3, <1>4, <1>5 DEF States, Conns
  <1>7. SameSc(x, x') /\ SamePc(x, x') /\ SameEnding(x, x') /\ SameBook(x, x') /\ SameLine(x, x')
    BY <1>1, <1>4 DEF States, SameSc, SamePc, SameEnding, SameBook, SameLine
  <1>8. IsIdle(x') <=> IsIdle(x)
    BY <1>2, <1>3, <1>6, IdleIs DEF Ended, IsIdle
  <1>9. IsCrashed(x, x')
    BY <1>2, <1>3, <1>6, <1>7, <1>8 DEF IsCrashed
  <1>10. OwnFlight(x')
    BY <1>2, <1>3, <1>6, <1>7, <1>8 DEF TypeInv, OwnFlight, SamePc, SameLine, Ended
  <1>11. <<>> \in Seq(EntriesOf(Len(x.calls)))
    OBVIOUS
  <1>12. Bounds(x')
    BY <1>5, <1>6, <1>7, <1>11 DEF TypeInv, Bounds, SameLine, SameBook
  <1> QED BY <1>1, <1>6, <1>9, <1>10, <1>12 DEF TypeInv

(* A call that was given up is over.                                        *)
IsFreed(s, t, i) ==
    /\ t \in States
    /\ SameSc(s, t) /\ SamePc(s, t) /\ SameBook(s, t) /\ SameData(s, t) /\ SameBusy(s, t)
    /\ SameEnding(s, t)
    /\ t.abandoned = IF s.abandoned = i THEN Nobody ELSE s.abandoned
    /\ t.tail = s.tail
    /\ Stepped(s.calls, t.calls, i, "over")

(* A call that had given up leaves its place.                               *)
LEMMA FreedIs ==
    ASSUME NEW s \in States, NEW i \in DOMAIN s.calls
    PROVE  IsFreed(s, [s EXCEPT !.calls[i].pc = "over",
                                !.abandoned = IF @ = i THEN Nobody ELSE @], i)
  <1> DEFINE cs == [s.calls EXCEPT ![i].pc = "over"]
             n == IF s.abandoned = i THEN Nobody ELSE s.abandoned
             t == [s EXCEPT !.calls = cs, !.abandoned = n]
  <1>1. [s EXCEPT !.calls[i].pc = "over",
                  !.abandoned = IF @ = i THEN Nobody ELSE @] = t
    OBVIOUS
  <1>2. Stepped(s.calls, cs, i, "over")
    BY SteppedIs, CallsAre DEF CallPcs
  <1>3. cs \in Seq(Call)
    BY <1>2 DEF Stepped
  <1>4. n \in 0 .. MaxCalls
    BY TransactionAssumption DEF States, Nobody
  <1> HIDE DEF cs, n
  <1>5. t \in States /\ t.calls = cs /\ t.abandoned = n /\ t.tail = s.tail
    BY <1>3, <1>4 DEF States
  <1>6. /\ SameSc(s, t) /\ SamePc(s, t) /\ SameBook(s, t) /\ SameData(s, t) /\ SameBusy(s, t)
        /\ SameEnding(s, t)
    BY DEF States, SameSc, SamePc, SameBook, SameData, SameBusy, SameEnding
  <1> HIDE DEF t
  <1>7. IsFreed(s, t, i)
    BY <1>2, <1>5, <1>6 DEF IsFreed, n
  <1> QED BY <1>1, <1>7 DEF t, cs, n

(* The second half of a rollback to a savepoint that goes with it.          *)
IsDropping(s, t, i) ==
    /\ t \in States
    /\ SameSc(s, t) /\ SamePc(s, t) /\ SameBook(s, t) /\ SameData(s, t)
    /\ SameEnding(s, t)
    /\ t.abandoned = s.abandoned
    /\ t.tail = s.tail
    /\ t.said = s.said
    /\ t.pending = "none"
    /\ ~IsIdle(t)
    /\ t.busy.call = i /\ t.busy.verb = "release" /\ t.busy.name = s.calls[i].name
    /\ t.busy.conclude = s.pending
    /\ ~t.busy.open /\ ~t.busy.stop
    /\ ~t.busy.failed /\ t.busy.stage = "posted"
    /\ Stepped(s.calls, t.calls, i, "dropping")

(* The second half of a rollback that drops its savepoint.                  *)
LEMMA DroppingIs ==
    ASSUME NEW s \in States, NEW i \in DOMAIN s.calls, i <= MaxCalls
    PROVE  IsDropping(s, [Post(s, i, "release", s.calls[i].name, FALSE)
                             EXCEPT !.calls[i].pc = "dropping"], i)
  <1> DEFINE u == Post(s, i, "release", s.calls[i].name, FALSE)
             t == [u EXCEPT !.calls[i].pc = "dropping"]
  <1>1. s.calls[i].name \in Names /\ i \in 0 .. MaxCalls /\ "release" \in Verbs
    BY CallsAre, TransactionAssumption DEF Call, Names, Verbs
  <1>2. IsPosted(s, u, i, "release", s.calls[i].name, FALSE)
    BY <1>1, PostedIs
  <1> HIDE DEF u
  <1>3. u \in States /\ u.calls = s.calls
    BY <1>2 DEF IsPosted, SameLine
  <1>4. IsMoved(u, t, i, "dropping")
    BY <1>3, MovedIs DEF CallPcs
  <1> HIDE DEF t
  <1>5. Stepped(s.calls, t.calls, i, "dropping")
    BY <1>3, <1>4, CallsAre DEF IsMoved, Stepped
  <1>6. /\ t.busy = u.busy /\ t.pending = u.pending /\ t.said = u.said
        /\ t \in States /\ t.tail = u.tail /\ t.abandoned = u.abandoned
        /\ SameSc(u, t) /\ SamePc(u, t) /\ SameBook(u, t) /\ SameData(u, t) /\ SameEnding(u, t)
    BY <1>4 DEF IsMoved, SameBusy
  <1>7. /\ SameSc(s, t) /\ SamePc(s, t) /\ SameBook(s, t) /\ SameData(s, t) /\ SameEnding(s, t)
        /\ t.tail = s.tail /\ t.abandoned = s.abandoned
    BY <1>2, <1>6
       DEF IsPosted, SameSc, SamePc, SameBook, SameData, SameLine, SameEnding
  <1>8. ~IsIdle(t) <=> ~IsIdle(u)
    BY <1>6 DEF IsIdle
  <1>9. IsDropping(s, t, i)
    BY <1>2, <1>5, <1>6, <1>7, <1>8 DEF IsPosted, IsDropping
  <1> QED BY <1>9 DEF t, u

Parts(s, t) == IF Left(s) THEN IsCut(s, t) ELSE t = s

Verdict(c, m) ==
    IF c.pc = "stopping" THEN "cut" ELSE IF m.stop THEN "closed"
    ELSE IF m.failed THEN "error" ELSE "ok"

Drops(s, c) == c.kind = "rollbackTo" /\ ~c.keep /\ c.pc = "running"

(* The reply to a call's query, and what it makes of the call.              *)
HearsLeft(s, t) ==
    LET i == s.busy.call IN
    /\ s.calls[i].pc = "left"
    /\ \E r \in States, d \in States : IsReplied(s, r) /\ Parts(r, d) /\ IsFreed(d, t, i)

HearsStatement(s, t) ==
    LET i == s.busy.call
        v == Verdict(s.calls[i], s.busy)
    IN
    /\ s.calls[i].pc # "left" /\ Statement(s.calls[i].kind)
    /\ \E r \in States, d \in States, e \in States :
          /\ IsReplied(s, r) /\ Parts(r, d) /\ IsSettled(d, e, i, v)
          /\ IF v = "ok" /\ s.calls[i].told = "nothing" THEN IsRecorded(e, t, i) ELSE t = e

SavepointVerbs == {"savepoint", "release", "rollbackTo"}

HearsRefusal(s, t) ==
    LET i == s.busy.call IN
    /\ s.calls[i].pc # "left" /\ s.busy.failed
    /\ ~Statement(s.calls[i].kind)
    /\ \E r \in States, d \in States :
          /\ IsReplied(s, r)
          /\ IF s.calls[i].kind \in SavepointVerbs THEN Dies(r, d) ELSE d = r
          /\ IsSettled(d, t, i, "error")

HearsHalf(s, t) ==
    LET i == s.busy.call IN
    /\ s.calls[i].pc # "left" /\ ~s.busy.failed /\ Drops(s, s.calls[i])
    /\ \E r \in States :
          /\ IsReplied(s, r)
          /\ IF s.ending # "none" THEN IsSettled(r, t, i, "closed") ELSE IsDropping(r, t, i)

HearsControl(s, t) ==
    LET i == s.busy.call IN
    /\ s.calls[i].pc # "left" /\ ~s.busy.failed /\ ~Drops(s, s.calls[i])
    /\ s.calls[i].kind \in SavepointVerbs
    /\ \E r \in States, e \in States :
          IsReplied(s, r) /\ IsSettled(r, e, i, "ok") /\ IsRecorded(e, t, i)

HearsEnding(s, t) ==
    LET i == s.busy.call IN
    /\ s.calls[i].pc # "left" /\ ~s.busy.failed /\ s.calls[i].kind \in {"commit", "rollback"}
    /\ \E r \in States, e \in States :
          /\ IsReplied(s, r) /\ IsSettled(r, e, i, "ok")
          /\ IsDone(e, t, IF s.calls[i].kind = "commit" THEN "committed"
                          ELSE IF s.ending = "none" THEN "rolled-back" ELSE s.ending)

(* What the page does with a call's reply (HearCall).                       *)
LEMMA HearCallIs ==
    ASSUME TypeInv(x), HearCall
    PROVE  /\ ~IsIdle(x) /\ x.busy.stage = "ended" /\ x.busy.call \in DOMAIN x.calls
           /\ x.busy.call # 0
           /\ \/ HearsLeft(x, x') \/ HearsStatement(x, x') \/ HearsRefusal(x, x')
              \/ HearsHalf(x, x') \/ HearsControl(x, x') \/ HearsEnding(x, x')
  <1> DEFINE m == x.busy
             i == m.call
             c == x.calls[i]
             r == Replied(x)
             d == DieIfLeft(r)
             v == Verdict(c, m)
  <1>1. /\ ~IsIdle(x) /\ m.stage = "ended" /\ i # 0 /\ x \in States
        /\ i \in 0 .. Len(x.calls)
    BY DEF HearCall, TypeInv, OwnFlight
  <1>2. i \in DOMAIN x.calls /\ i <= MaxCalls /\ c \in Call
    <2>1. DOMAIN x.calls = 1 .. Len(x.calls) /\ Len(x.calls) <= MaxCalls /\ Len(x.calls) \in Nat
      BY <1>1, CallsAre DEF TypeInv, Bounds
    <2>2. i \in DOMAIN x.calls /\ i <= MaxCalls
      BY <1>1, <2>1, TransactionAssumption
    <2> QED BY <1>1, <2>2, CallsAre
  <1>3. IsReplied(x, r) /\ r \in States /\ r.calls = x.calls /\ r.ending = x.ending
    BY <1>1, RepliedIs DEF IsReplied, SameLine, SameEnding
  <1>4. x' = IF c.pc = "left"
             THEN [DieIfLeft(r) EXCEPT !.calls[i].pc = "over",
                           !.abandoned = IF @ = i THEN Nobody ELSE @]
             ELSE IF Statement(c.kind) THEN StatementReplied(r, i, m)
             ELSE IF c.kind \in {"savepoint", "release", "rollbackTo"}
             THEN ControlReplied(r, i, m.failed)
             ELSE IF m.failed THEN Settle(r, i, "error")
             ELSE IF c.kind = "commit" THEN Committed(Settle(r, i, "ok"))
             ELSE RolledBack(Settle(r, i, "ok"))
    BY DEF HearCall
  <1> HIDE DEF r
  <1>5. d \in States /\ Parts(r, d) /\ d.calls = x.calls
    BY <1>3, DiesIfLeftIs DEF Parts, IsCut, SameLine
  <1> HIDE DEF d
  <1>6. CASE c.pc = "left"
    <2>1. x' = [d EXCEPT !.calls[i].pc = "over", !.abandoned = IF @ = i THEN Nobody ELSE @]
      BY <1>4, <1>6 DEF d
    <2>2. IsFreed(d, x', i)
      BY <1>2, <1>5, <2>1, FreedIs
    <2> QED BY <1>1, <1>2, <1>3, <1>5, <1>6, <2>2 DEF HearsLeft
  <1>7. CASE c.pc # "left" /\ Statement(c.kind)
    <2> DEFINE e == Settle(d, i, v)
    <2>1. v \in Tellings
      BY DEF Verdict, Tellings
    <2>2. IsSettled(d, e, i, v) /\ e \in States
      <3>1. d \in States /\ i \in DOMAIN d.calls
        BY <1>2, <1>5
      <3> HIDE DEF v
      <3>2. IsSettled(d, Settle(d, i, v), i, v)
        BY <2>1, <3>1, SettledIs
      <3> QED BY <3>2 DEF IsSettled
    <2>3. x' = IF v = "ok" /\ c.told = "nothing" THEN Recorded(e, i) ELSE e
      BY <1>3, <1>4, <1>7 DEF StatementReplied, Verdict, d
    <2> HIDE DEF e, v
    <2>4. i \in DOMAIN e.calls
      BY <1>2, <1>5, <2>2 DEF IsSettled
    <2>5. IsRecorded(e, Recorded(e, i), i)
      BY <1>2, <2>2, <2>4, RecordedIs
    <2>6. IF v = "ok" /\ c.told = "nothing" THEN IsRecorded(e, x', i) ELSE x' = e
      BY <2>3, <2>5
    <2> QED BY <1>1, <1>2, <1>3, <1>5, <1>7, <2>2, <2>6 DEF HearsStatement, v
  <1>8. CASE c.pc # "left" /\ ~Statement(c.kind) /\ m.failed /\ c.kind \in SavepointVerbs
    <2>1. x' = ControlReplied(r, i, m.failed)
      BY <1>4, <1>8 DEF SavepointVerbs
    <2>2. x' = Settle(Die(r), i, "error")
      BY <1>8, <2>1 DEF ControlReplied
    <2>3. Dies(r, Die(r)) /\ Die(r) \in States
      BY <1>3, DiesIs
    <2>4. i \in DOMAIN Die(r).calls
      BY <1>2, <1>3, <2>3 DEF Dies, IsCut, SameLine
    <2>5. IsSettled(Die(r), x', i, "error")
      BY <2>2, <2>3, <2>4, SettledIs DEF Tellings
    <2> QED BY <1>1, <1>2, <1>3, <1>8, <2>3, <2>5 DEF HearsRefusal
  <1>9. CASE c.pc # "left" /\ ~Statement(c.kind) /\ m.failed /\ c.kind \notin SavepointVerbs
    <2>1. x' = Settle(r, i, "error")
      BY <1>4, <1>9 DEF SavepointVerbs
    <2>2. IsSettled(r, x', i, "error")
      BY <1>2, <1>3, <2>1, SettledIs DEF Tellings
    <2> QED BY <1>1, <1>2, <1>3, <1>9, <2>2 DEF HearsRefusal
  <1>10. CASE c.pc # "left" /\ ~Statement(c.kind) /\ ~m.failed /\ c.kind \in SavepointVerbs
    <2>1. x' = ControlReplied(r, i, m.failed)
      BY <1>4, <1>10 DEF SavepointVerbs
    <2>2. CASE Drops(x, c)
      <3>1. CASE x.ending # "none"
        <4>1. x' = Settle(r, i, "closed")
          BY <1>3, <1>10, <2>1, <2>2, <3>1 DEF ControlReplied, Drops
        <4>2. IsSettled(r, x', i, "closed")
          BY <1>2, <1>3, <4>1, SettledIs DEF Tellings
        <4> QED BY <1>1, <1>2, <1>3, <1>10, <2>2, <3>1, <4>2 DEF HearsHalf
      <3>2. CASE x.ending = "none"
        <4>1. x' = [Post(r, i, "release", r.calls[i].name, FALSE) EXCEPT !.calls[i].pc = "dropping"]
          BY <1>3, <1>10, <2>1, <2>2, <3>2 DEF ControlReplied, Drops
        <4>2. IsDropping(r, x', i)
          BY <1>2, <1>3, <4>1, DroppingIs
        <4> QED BY <1>1, <1>2, <1>3, <1>10, <2>2, <3>2, <4>2 DEF HearsHalf
      <3> QED BY <3>1, <3>2
    <2>3. CASE ~Drops(x, c)
      <3> DEFINE e == Settle(r, i, "ok")
      <3>1. x' = Recorded(e, i)
        BY <1>3, <1>10, <2>1, <2>3 DEF ControlReplied, Drops
      <3>2. IsSettled(r, e, i, "ok") /\ e \in States
        BY <1>2, <1>3, SettledIs DEF Tellings, IsSettled
      <3> HIDE DEF e
      <3>3. i \in DOMAIN e.calls
        BY <1>2, <1>3, <3>2 DEF IsSettled
      <3>4. IsRecorded(e, x', i)
        BY <1>2, <3>1, <3>2, <3>3, RecordedIs
      <3> QED BY <1>1, <1>2, <1>3, <1>10, <2>3, <3>2, <3>4 DEF HearsControl
    <2> QED BY <2>2, <2>3
  <1>11. CASE c.pc # "left" /\ ~Statement(c.kind) /\ ~m.failed /\ c.kind \notin SavepointVerbs
    <2> DEFINE e == Settle(r, i, "ok")
    <2>1. c.kind \in {"commit", "rollback"}
      BY <1>2, <1>11 DEF Call, CallKinds, Statement, SavepointVerbs
    <2>2. IsSettled(r, e, i, "ok") /\ e \in States
      BY <1>2, <1>3, SettledIs DEF Tellings, IsSettled
    <2>3. x' = IF c.kind = "commit" THEN Committed(e) ELSE RolledBack(e)
      BY <1>4, <1>11 DEF SavepointVerbs
    <2> HIDE DEF e
    <2>4. e.ending = x.ending
      BY <1>3, <2>2 DEF IsSettled, SameEnding
    <2>5. IsDone(e, x', IF c.kind = "commit" THEN "committed"
                        ELSE IF x.ending = "none" THEN "rolled-back" ELSE x.ending)
      BY <2>2, <2>3, <2>4, DoneIs
    <2> QED BY <1>1, <1>2, <1>3, <1>11, <2>1, <2>2, <2>5 DEF HearsEnding, Drops
  <1>12. \/ HearsLeft(x, x') \/ HearsStatement(x, x') \/ HearsRefusal(x, x')
         \/ HearsHalf(x, x') \/ HearsControl(x, x') \/ HearsEnding(x, x')
    BY <1>6, <1>7, <1>8, <1>9, <1>10, <1>11
  <1> QED BY <1>1, <1>2, <1>12

(* The transaction itself goes on to p.                                     *)
IsAt(s, t, p) ==
    /\ t \in States
    /\ SameSc(s, t) /\ SameLine(s, t) /\ SameBusy(s, t) /\ SameData(s, t)
    /\ t.done = s.done /\ t.cut = s.cut /\ t.stack = s.stack
    /\ t.pc = p

(* Only the phase changes.                                                  *)
LEMMA PcIs ==
    ASSUME NEW s \in States, NEW p \in Phases,
           NEW t, t = [s EXCEPT !.pc = p]
    PROVE  /\ IsAt(s, t, p) /\ t.closing = s.closing
           /\ t.begun = s.begun /\ t.poisoned = s.poisoned /\ t.ending = s.ending
  <1>1. t \in States
    BY DEF States
  <1>2. SameSc(s, t) /\ SameLine(s, t) /\ SameBusy(s, t) /\ SameData(s, t)
    BY DEF States, SameSc, SameLine, SameBusy, SameData
  <1>3. /\ t.done = s.done /\ t.cut = s.cut /\ t.stack = s.stack /\ t.pc = p
        /\ t.closing = s.closing /\ t.begun = s.begun
        /\ t.poisoned = s.poisoned /\ t.ending = s.ending
    BY DEF States
  <1> QED BY <1>1, <1>2, <1>3 DEF IsAt

(* The transaction is recorded as begun.                                    *)
LEMMA AtBegun ==
    ASSUME NEW s \in States, NEW t, t = [s EXCEPT !.begun = TRUE]
    PROVE  /\ IsAt(s, t, s.pc) /\ t.closing = s.closing
           /\ t.begun /\ t.poisoned = s.poisoned /\ t.ending = s.ending
  <1>1. t \in States
    BY DEF States
  <1>2. SameSc(s, t) /\ SameLine(s, t) /\ SameBusy(s, t) /\ SameData(s, t)
    BY DEF States, SameSc, SameLine, SameBusy, SameData
  <1>3. /\ t.done = s.done /\ t.cut = s.cut /\ t.stack = s.stack /\ t.pc = s.pc
        /\ t.closing = s.closing /\ t.begun
        /\ t.poisoned = s.poisoned /\ t.ending = s.ending
    BY DEF States
  <1> QED BY <1>1, <1>2, <1>3 DEF IsAt

(* The connection is recorded as poisoned.                                  *)
LEMMA AtPoisoned ==
    ASSUME NEW s \in States, NEW t, t = [s EXCEPT !.poisoned = TRUE]
    PROVE  /\ IsAt(s, t, s.pc) /\ t.closing = s.closing
           /\ t.begun = s.begun /\ t.poisoned /\ t.ending = s.ending
  <1>1. t \in States
    BY DEF States
  <1>2. SameSc(s, t) /\ SameLine(s, t) /\ SameBusy(s, t) /\ SameData(s, t)
    BY DEF States, SameSc, SameLine, SameBusy, SameData
  <1>3. /\ t.done = s.done /\ t.cut = s.cut /\ t.stack = s.stack /\ t.pc = s.pc
        /\ t.closing = s.closing /\ t.begun = s.begun
        /\ t.poisoned /\ t.ending = s.ending
    BY DEF States
  <1> QED BY <1>1, <1>2, <1>3 DEF IsAt

(* One of the generators to be closed is.                                   *)
LEMMA AtClosed ==
    ASSUME NEW s \in States, NEW k \in SUBSET Calls,
           NEW t, t = [s EXCEPT !.closing = k]
    PROVE  /\ IsAt(s, t, s.pc) /\ t.closing = k
           /\ t.begun = s.begun /\ t.poisoned = s.poisoned /\ t.ending = s.ending
  <1>1. t \in States
    BY DEF States
  <1>2. SameSc(s, t) /\ SameLine(s, t) /\ SameBusy(s, t) /\ SameData(s, t)
    BY DEF States, SameSc, SameLine, SameBusy, SameData
  <1>3. /\ t.done = s.done /\ t.cut = s.cut /\ t.stack = s.stack /\ t.pc = s.pc
        /\ t.closing = k /\ t.begun = s.begun
        /\ t.poisoned = s.poisoned /\ t.ending = s.ending
    BY DEF States
  <1> QED BY <1>1, <1>2, <1>3 DEF IsAt

(* A new phase keeps the types.                                             *)
LEMMA TypeAt ==
    ASSUME NEW s, NEW t, NEW p, Bounds(s), IsAt(s, t, p), t.closing \subseteq DOMAIN s.calls,
           OwnFlight(t)
    PROVE  TypeInv(t)
  BY DEF TypeInv, Bounds, IsAt, SameLine, SameData

(* BEGIN, COMMIT or ROLLBACK goes out.                                      *)
IsOwn(s, t, verb, p) ==
    /\ t \in States
    /\ SameSc(s, t) /\ SameLine(s, t) /\ SameBook(s, t) /\ SameData(s, t) /\ SameEnding(s, t)
    /\ t.begun = s.begun /\ t.done = s.done /\ t.poisoned = s.poisoned
    /\ t.said = s.said /\ t.pc = p /\ t.pending = "none"
    /\ ~IsIdle(t)
    /\ t.busy.call = 0 /\ t.busy.verb = verb /\ t.busy.name = Library
    /\ t.busy.conclude = IF verb = "rollback" THEN "none" ELSE s.pending
    /\ ~t.busy.open /\ ~t.busy.stop /\ ~t.busy.failed /\ t.busy.stage = "posted"

(* A query of the transaction's own goes out.                               *)
LEMMA OwnIs ==
    ASSUME NEW s \in States, NEW p \in Phases, NEW t
    PROVE  /\ \A verb \in {"begin", "commit"} :
                 t = [Post(s, 0, verb, Library, FALSE) EXCEPT !.pc = p] => IsOwn(s, t, verb, p)
           /\ t = [Post([s EXCEPT !.pending = "none"], 0, "rollback", Library, FALSE)
                      EXCEPT !.pc = p] => IsOwn(s, t, "rollback", p)
  <1>1. 0 \in 0 .. MaxCalls /\ Library \in Names
    BY TransactionAssumption DEF Names
  <1>2. ASSUME NEW v \in {"begin", "commit", "rollback"}, NEW w \in States,
               NEW u, u = Post(w, 0, v, Library, FALSE), t = [u EXCEPT !.pc = p]
        PROVE  IsPosted(w, u, 0, v, Library, FALSE) /\ IsAt(u, t, p)
               /\ t.closing = u.closing /\ t.begun = u.begun
               /\ t.poisoned = u.poisoned /\ t.ending = u.ending
    <2>1. IsPosted(w, u, 0, v, Library, FALSE)
      BY <1>1, <1>2, PostedIs DEF Verbs
    <2>2. u \in States
      BY <2>1 DEF IsPosted
    <2>3. t = [u EXCEPT !.pc = p]
      BY <1>2
    <2>4. /\ IsAt(u, t, p) /\ t.closing = u.closing /\ t.begun = u.begun
          /\ t.poisoned = u.poisoned /\ t.ending = u.ending
      BY <2>2, <2>3, PcIs
    <2> QED BY <2>1, <2>4
  <1>3. ASSUME NEW verb \in {"begin", "commit"},
               t = [Post(s, 0, verb, Library, FALSE) EXCEPT !.pc = p]
        PROVE  IsOwn(s, t, verb, p)
    <2> DEFINE u == Post(s, 0, verb, Library, FALSE)
    <2>1. u = Post(s, 0, verb, Library, FALSE)
      OBVIOUS
    <2> HIDE DEF u
    <2>2. IsPosted(s, u, 0, verb, Library, FALSE) /\ IsAt(u, t, p)
          /\ t.closing = u.closing /\ t.begun = u.begun
          /\ t.poisoned = u.poisoned /\ t.ending = u.ending
      BY <1>2, <1>3, <2>1, ZenonT(60)
    <2> QED BY <2>2
            DEF IsPosted, IsAt, IsOwn, SameSc, SamePc, SameLine, SameBook, SameData, SameEnding,
                SameBusy, IsIdle
  <1>4. ASSUME t = [Post([s EXCEPT !.pending = "none"], 0, "rollback", Library, FALSE)
                      EXCEPT !.pc = p]
        PROVE  IsOwn(s, t, "rollback", p)
    <2> DEFINE w == [s EXCEPT !.pending = "none"]
               u == Post(w, 0, "rollback", Library, FALSE)
    <2>1. /\ w \in States
          /\ SameSc(s, w) /\ SamePc(s, w) /\ SameBook(s, w) /\ SameData(s, w) /\ SameLine(s, w)
          /\ SameEnding(s, w)
          /\ w.said = s.said /\ w.busy = s.busy /\ w.pending = "none"
      BY WithPending DEF Pendings
    <2>2. u = Post(w, 0, "rollback", Library, FALSE) /\ t = [u EXCEPT !.pc = p]
      BY <1>4
    <2> HIDE DEF u, w
    <2>3. IsPosted(w, u, 0, "rollback", Library, FALSE) /\ IsAt(u, t, p)
          /\ t.closing = u.closing /\ t.begun = u.begun
          /\ t.poisoned = u.poisoned /\ t.ending = u.ending
      BY <1>2, <2>1, <2>2, ZenonT(60)
    <2> QED BY <2>1, <2>3
            DEF IsPosted, IsAt, IsOwn, SameSc, SamePc, SameLine, SameBook, SameData, SameEnding,
                SameBusy, IsIdle
  <1> QED BY <1>3, <1>4

(* A query of the transaction's own keeps the types.                        *)
LEMMA TypeOwn ==
    ASSUME NEW s, NEW t, NEW verb \in {"begin", "commit", "rollback"}, NEW p \in Own,
           TypeInv(s), IsOwn(s, t, verb, p)
    PROVE  TypeInv(t)
  <1>1. 0 \in 0 .. Len(s.calls)
    BY CallsAre DEF TypeInv
  <1>2. OwnFlight(t)
    BY <1>1 DEF OwnFlight, IsOwn, SameLine
  <1> QED BY <1>2, TypeSame DEF TypeInv, Bounds, IsOwn, SameLine, SameBook

(* A call is made on the handle.                                            *)
Makes(s, t, c) ==
    /\ Len(s.calls) < MaxCalls
    /\ \E r \in States :
          /\ IsMade(s, r, c)
          /\ r.stack \in Seq(1 .. Len(s.calls) + 1)
          /\ TypeInv(r)
          /\ IF c.kind = "gen" THEN t = r ELSE Enqueues(r, t, Len(s.calls) + 1)

Fresh(c) ==
    /\ c \in Call /\ c.prior = Nobody /\ c.pc = "fresh" /\ c.told = "nothing"
    /\ c.own => Statement(c.kind)

(* A new call is a call (NewCall).                                          *)
LEMMA FreshIs ==
    ASSUME NEW kind \in CallKinds, NEW own \in BOOLEAN, NEW name \in Names, NEW keep \in BOOLEAN,
           NEW c, c = NewCall(kind, own, name, keep), own => Statement(kind)
    PROVE  Fresh(c) /\ c \in Call /\ c.kind = kind
  BY TransactionAssumption DEF NewCall, Fresh, Call, Names, Nobody

(* A call is made, and joins the queue unless it is a generator.            *)
LEMMA MakesIs ==
    ASSUME TypeInv(x), NEW c \in Call, NEW made, IsMade(x, made, c),
           Len(x.calls) < MaxCalls, made.stack \in Seq(1 .. Len(x.calls) + 1),
           x' = IF c.kind = "gen" THEN made ELSE Enqueue(made, Len(x.calls) + 1)
    PROVE  Makes(x, x', c) /\ TypeInv(x')
  <1> DEFINE n == Len(x.calls)
  <1>1. n \in Nat /\ MaxCalls \in Nat
    BY CallsAre, TransactionAssumption DEF TypeInv
  <1>2. TypeInv(made) /\ made \in States /\ Len(made.calls) = n + 1
    BY TypeMade DEF TypeInv
  <1>3. n + 1 \in DOMAIN made.calls /\ n + 1 <= MaxCalls
    BY <1>1, <1>2, CallsAre
  <1>4. c.kind # "gen" => Enqueues(made, x', n + 1)
    BY <1>2, <1>3, EnqueueIs
  <1>5. TypeInv(x')
    BY <1>2, <1>3, <1>4, TypeEnqueues
  <1> QED BY <1>2, <1>4, <1>5 DEF Makes

(* A method of the handle is called.                                        *)
Calls_(s, t) ==
    /\ s.begun /\ s.ending = "none"
    /\ s.pc = "callback" \/ s.sc.unawaited # {}
    /\ \E c \in Call : Fresh(c) /\ Makes(s, t, c)

(* A statement is called for (Issue).                                       *)
LEMMA IssueIs ==
    ASSUME TypeInv(x), NEW kind, NEW own \in BOOLEAN, Issue(kind, own)
    PROVE  Calls_(x, x') /\ TypeInv(x')
  <1> DEFINE c == NewCall(kind, own, Library, FALSE)
             n == Len(x.calls)
             made == [x EXCEPT !.calls = Append(@, c)]
  <1>1. /\ kind \in CallKinds /\ x.ending = "none" /\ x.begun
        /\ x.pc = "callback" \/ x.sc.unawaited # {}
        /\ Statement(kind)
    BY DEF Issue, Reachable, Statement, CallKinds
  <1>2. Library \in Names
    BY DEF Names
  <1>3. Fresh(c) /\ c \in Call
    BY <1>1, <1>2, FreshIs
  <1>4. /\ n + 1 <= x.sc.calls
        /\ x' = IF c.kind = "gen" THEN made ELSE Enqueue(made, n + 1)
    BY DEF Issue, Make
  <1>5. x \in States /\ x.sc.calls \in 0 .. MaxCalls /\ n \in Nat
        /\ x.stack \in Seq(1 .. n) /\ MaxCalls \in Nat
    BY TransactionAssumption, CallsAre DEF TypeInv, States, Scenario, Bounds
  <1>6. n < MaxCalls
    BY <1>4, <1>5
  <1>7. made = [x EXCEPT !.calls = Append(x.calls, c)]
    OBVIOUS
  <1> HIDE DEF made, c
  <1>8. IsMade(x, made, c) /\ made.stack = x.stack
    BY <1>3, <1>5, <1>7, MadeIsToo
  <1>9. made.stack \in Seq(1 .. n + 1)
    <2>1. 1 .. n \subseteq 1 .. n + 1
      BY <1>5
    <2> QED BY <1>5, <1>8, <2>1
  <1>10. Makes(x, x', c) /\ TypeInv(x')
    BY <1>3, <1>4, <1>6, <1>8, <1>9, MakesIs
  <1> QED BY <1>1, <1>3, <1>10 DEF Calls_

(* An explicit commit() or rollback() is called for (Conclude).             *)
LEMMA ConcludeIs ==
    ASSUME TypeInv(x), NEW kind, Conclude(kind)
    PROVE  Calls_(x, x') /\ TypeInv(x')
  <1> DEFINE c == NewCall(kind, FALSE, Library, FALSE)
             n == Len(x.calls)
             made == [x EXCEPT !.calls = Append(@, c)]
  <1>1. /\ kind \in CallKinds /\ x.ending = "none" /\ x.begun
        /\ x.pc = "callback" \/ x.sc.unawaited # {}
    BY DEF Conclude, Reachable, CallKinds
  <1>2. Library \in Names
    BY DEF Names
  <1>3. Fresh(c) /\ c \in Call
    BY <1>1, <1>2, FreshIs
  <1>4. /\ n + 1 <= x.sc.calls
        /\ x' = IF c.kind = "gen" THEN made ELSE Enqueue(made, n + 1)
    BY DEF Conclude, Make
  <1>5. x \in States /\ x.sc.calls \in 0 .. MaxCalls /\ n \in Nat
        /\ x.stack \in Seq(1 .. n) /\ MaxCalls \in Nat
    BY TransactionAssumption, CallsAre DEF TypeInv, States, Scenario, Bounds
  <1>6. n < MaxCalls
    BY <1>4, <1>5
  <1>7. made = [x EXCEPT !.calls = Append(x.calls, c)]
    OBVIOUS
  <1> HIDE DEF made, c
  <1>8. IsMade(x, made, c) /\ made.stack = x.stack
    BY <1>3, <1>5, <1>7, MadeIsToo
  <1>9. made.stack \in Seq(1 .. n + 1)
    <2>1. 1 .. n \subseteq 1 .. n + 1
      BY <1>5
    <2> QED BY <1>5, <1>8, <2>1
  <1>10. Makes(x, x', c) /\ TypeInv(x')
    BY <1>3, <1>4, <1>6, <1>8, <1>9, MakesIs
  <1> QED BY <1>1, <1>3, <1>10 DEF Calls_

(* A savepoint is opened (OpenSavepoint).                                   *)
LEMMA OpenSavepointIs ==
    ASSUME TypeInv(x), NEW name \in x.sc.names, OpenSavepoint(name)
    PROVE  Calls_(x, x') /\ TypeInv(x')
  <1> DEFINE c == NewCall("savepoint", FALSE, name, FALSE)
             n == Len(x.calls)
             k == Append(x.stack, n + 1)
             made == [x EXCEPT !.calls = Append(x.calls, c), !.stack = k]
  <1>1. /\ "savepoint" \in CallKinds /\ x.ending = "none" /\ x.begun
        /\ x.pc = "callback" \/ x.sc.unawaited # {}
        /\ n < x.sc.calls
        /\ x' = Enqueue(made, n + 1)
    BY DEF OpenSavepoint, Reachable, CallKinds
  <1>2. x \in States /\ x.sc.calls \in 0 .. MaxCalls /\ n \in Nat
        /\ x.stack \in Seq(1 .. n) /\ MaxCalls \in Nat /\ x.sc.names \subseteq {"a", "b"}
    BY TransactionAssumption, CallsAre DEF TypeInv, States, Scenario, Bounds
  <1>3. Fresh(c) /\ c \in Call /\ c.kind = "savepoint"
    <2>1. name \in Names
      BY <1>2 DEF Names
    <2> QED BY <1>1, <2>1, FreshIs
  <1>4. n < MaxCalls /\ k \in Seq(1 .. n + 1)
    <2>1. 1 .. n \subseteq 1 .. n + 1 /\ n + 1 \in 1 .. n + 1 /\ n < MaxCalls
      BY <1>1, <1>2
    <2>2. x.stack \in Seq(1 .. n + 1)
      BY <1>2, <2>1
    <2> QED BY <2>1, <2>2
  <1>5. k \in Seq(Calls)
    <2>1. 1 .. n + 1 \subseteq Calls
      BY <1>2, <1>4 DEF Calls
    <2> HIDE DEF k
    <2> QED BY <1>4, <2>1, SMTT(30)
  <1>6. made = [x EXCEPT !.calls = Append(x.calls, c), !.stack = k]
    OBVIOUS
  <1> HIDE DEF made, c, k
  <1>7. IsMade(x, made, c) /\ made.stack = k
    <2>1. x \in States /\ c \in Call
      BY <1>2, <1>3
    <2> QED BY <2>1, <1>5, <1>6, MadeIs, ZenonT(60)
  <1>8. Makes(x, x', c) /\ TypeInv(x')
    BY <1>1, <1>3, <1>4, <1>7, MakesIs
  <1> QED BY <1>1, <1>3, <1>8 DEF Calls_

(* The stack after a savepoint verb is a stack.                             *)
LEMMA BelowType ==
    ASSUME NEW S, NEW stack \in Seq(S), NEW i \in S, NEW kind, NEW keep
    PROVE  StackAfter(stack, kind, i, keep) \in Seq(S)
  <1> DEFINE I == {k \in 1 .. Len(stack) : stack[k] = i}
             p == SelectInSeq(stack, LAMBDA e : e = i)
  <1>1. p = IF I # {} THEN Min(I) ELSE 0
    BY DEF SelectInSeq
  <1>2. p \in 0 .. Len(stack)
    <2>1. CASE I # {}
      <3>0. I \subseteq Nat
        OBVIOUS
      <3>1. PICK k \in I : \A j \in I : k <= j
        <4> HIDE DEF I
        <4> QED BY <2>1, <3>0, LeastOne
      <3>2. Min(I) \in I
        BY <3>1 DEF Min
      <3> QED BY <1>1, <2>1, <3>2
    <2> QED BY <1>1, <2>1
  <1> HIDE DEF p, I
  <1>3. p - 1 \in 0 .. Len(stack) \/ p = 0
    BY <1>2
  <1>4. Below(stack, i) = SubSeq(stack, 1, p - 1)
    BY DEF Below, p
  <1>5. Below(stack, i) \in Seq(S)
    <2>1. CASE p = 0
      <3>1. Below(stack, i) = SubSeq(stack, 1, 0 - 1)
        BY <1>4, <2>1
      <3>2. SubSeq(stack, 1, 0 - 1) = <<>>
        OBVIOUS
      <3> QED BY <3>1, <3>2
    <2>2. CASE p # 0
      BY <1>3, <1>4, <2>2, PrefixType
    <2> QED BY <2>1, <2>2
  <1>6. Append(Below(stack, i), i) \in Seq(S)
    BY <1>5
  <1> QED BY <1>5, <1>6 DEF StackAfter

(* A savepoint is released or rolled back to (UseSavepoint).                *)
LEMMA UseSavepointIs ==
    ASSUME TypeInv(x), NEW kind, NEW i \in DOMAIN x.calls, NEW keep \in BOOLEAN,
           UseSavepoint(kind, i, keep)
    PROVE  Calls_(x, x') /\ TypeInv(x')
  <1> DEFINE c == NewCall(kind, FALSE, x.calls[i].name, keep)
             n == Len(x.calls)
             k == StackAfter(x.stack, kind, i, keep)
             made == [x EXCEPT !.calls = Append(x.calls, c), !.stack = k]
  <1>1. /\ kind \in {"release", "rollbackTo"} /\ x.ending = "none" /\ x.begun
        /\ x.pc = "callback" \/ x.sc.unawaited # {}
        /\ n < x.sc.calls
        /\ x' = Enqueue(made, n + 1)
    BY DEF UseSavepoint, Reachable
  <1>2. x \in States /\ x.sc.calls \in 0 .. MaxCalls /\ n \in Nat
        /\ x.stack \in Seq(1 .. n) /\ MaxCalls \in Nat /\ i \in 1 .. n
    BY TransactionAssumption, CallsAre DEF TypeInv, States, Scenario, Bounds
  <1>3. Fresh(c) /\ c \in Call /\ c.kind = kind
    <2>1. x.calls[i].name \in Names /\ kind \in CallKinds
      BY <1>1, <1>2, CallsAre DEF Names, Call, CallKinds
    <2> QED BY <2>1, FreshIs
  <1>4. n < MaxCalls /\ k \in Seq(1 .. n + 1)
    <2>1. 1 .. n \subseteq 1 .. n + 1 /\ i \in 1 .. n + 1 /\ n < MaxCalls
      BY <1>1, <1>2
    <2>2. x.stack \in Seq(1 .. n + 1)
      BY <1>2, <2>1
    <2> QED BY <2>1, <2>2, BelowType
  <1>5. k \in Seq(Calls)
    <2>1. 1 .. n + 1 \subseteq Calls
      BY <1>2, <1>4 DEF Calls
    <2> HIDE DEF k
    <2> QED BY <1>4, <2>1, SMTT(30)
  <1>6. made = [x EXCEPT !.calls = Append(x.calls, c), !.stack = k]
    OBVIOUS
  <1> HIDE DEF made, c, k
  <1>7. IsMade(x, made, c) /\ made.stack = k
    <2>1. x \in States /\ c \in Call
      BY <1>2, <1>3
    <2> QED BY <2>1, <1>5, <1>6, MadeIs, ZenonT(60)
  <1>8. Makes(x, x', c) /\ TypeInv(x')
    BY <1>1, <1>3, <1>4, <1>7, MakesIs
  <1> QED BY <1>1, <1>3, <1>8 DEF Calls_

(* The calls are numbered from 1, within the bound.                         *)
LEMMA CallRange ==
    ASSUME NEW s, TypeInv(s)
    PROVE  /\ s \in States /\ Len(s.calls) \in Nat /\ Len(s.calls) <= MaxCalls
           /\ DOMAIN s.calls = 1 .. Len(s.calls)
           /\ \A i \in DOMAIN s.calls : i <= MaxCalls /\ i # 0
  <1>1. s \in States /\ Len(s.calls) \in Nat /\ Len(s.calls) <= MaxCalls
        /\ DOMAIN s.calls = 1 .. Len(s.calls)
    BY CallsAre DEF TypeInv, Bounds
  <1> QED BY <1>1, TransactionAssumption

(* A generator is pulled, or finds the transaction ended.                   *)
Pulls(s, t, i) ==
    /\ s.calls[i].kind = "gen" /\ s.calls[i].pc = "fresh"
    /\ s.pc = "callback" \/ s.sc.unawaited # {}
    /\ IF s.ending = "none" THEN Enqueues(s, t, i)
       ELSE IsShut(s, t, i) /\ t.closing = s.closing

(* A generator is pulled (Pull).                                            *)
LEMMA PullIs ==
    ASSUME TypeInv(x), NEW i \in DOMAIN x.calls, Pull(i)
    PROVE  Pulls(x, x', i) /\ TypeInv(x')
  <1>1. x \in States /\ i <= MaxCalls
    BY CallRange
  <1>2. /\ x.calls[i].kind = "gen" /\ x.calls[i].pc = "fresh"
        /\ x.pc = "callback" \/ x.sc.unawaited # {}
    BY DEF Pull
  <1>3. CASE x.ending = "none"
    <2>1. x' = Enqueue(x, i)
      BY <1>3 DEF Pull
    <2>2. Enqueues(x, x', i)
      BY <1>1, <2>1, EnqueueIs
    <2> QED BY <1>2, <1>3, <2>2, TypeEnqueues DEF Pulls
  <1>4. CASE x.ending # "none"
    <2>1. x' = [x EXCEPT !.calls[i].pc = "over", !.calls[i].told = "closed"]
      BY <1>4 DEF Pull
    <2>2. x.closing \in SUBSET Calls /\ x = [x EXCEPT !.closing = x.closing]
      BY <1>1 DEF States
    <2>3. x' = [[x EXCEPT !.closing = x.closing]
                   EXCEPT !.calls[i].pc = "over", !.calls[i].told = "closed"]
      BY <2>1, <2>2
    <2> DEFINE o == x.closing
    <2>4. o \in SUBSET Calls /\ x' = Shut(x, i, o)
      BY <2>2, <2>3 DEF Shut
    <2> HIDE DEF o
    <2>5. IsShut(x, x', i) /\ x'.closing = o
      BY <1>1, <2>4, ShutIs
    <2>6. IsShut(x, x', i) /\ x'.closing = x.closing
      BY <2>5 DEF o
    <2> QED BY <1>2, <1>4, <2>6, TypeShut DEF Pulls
  <1> QED BY <1>3, <1>4

(* The turn of a call that waits, and the ways it is given up.              *)
Turns(s, t, i) ==
    /\ s.calls[i].pc = "waiting" /\ s.calls[i].prior = Nobody /\ s.abandoned = Nobody
    /\ IF s.ending = "none" THEN Takes(s, t, i) ELSE IsSettled(s, t, i, "closed")

Rejects(s, t, i) ==
    /\ s.cut
    /\ s.calls[i].pc \in {"waiting", "asking"}
    /\ IsSettled(s, t, i, "closed")

Answers(s, t, i, open) ==
    /\ s.calls[i].pc = "asking" /\ ~s.cut
    /\ IsIdle(s) \/ s.busy.stage # "posted"
    /\ s.calls[i].kind # "read" => open
    /\ Starts(s, t, i, open)

Skips(s, t, i) ==
    /\ s.calls[i].pc = "waiting" /\ s.calls[i].prior = Nobody
    /\ IsSettled(s, t, i, "cut")

(* A waiting call's step (Waiting).                                         *)
LEMMA WaitingIs ==
    ASSUME TypeInv(x), Waiting
    PROVE  /\ \E i \in DOMAIN x.calls :
                 \/ Turns(x, x', i) \/ Rejects(x, x', i) \/ Skips(x, x', i)
                 \/ \E open \in BOOLEAN : Answers(x, x', i, open)
           /\ TypeInv(x')
  <1>1. PICK i \in DOMAIN x.calls :
           Turn(i) \/ Reject(i) \/ SkipBatch(i) \/ \E open \in BOOLEAN : Answer(i, open)
    BY DEF Waiting
  <1>2. x \in States /\ i <= MaxCalls /\ "closed" \in Tellings /\ "cut" \in Tellings
    BY CallRange DEF Tellings
  <1>3. CASE Turn(i)
    <2>1. x' = IF x.ending = "none" THEN Take(x, i) ELSE Settle(x, i, "closed")
      BY <1>3 DEF Turn
    <2>2. IF x.ending = "none" THEN Takes(x, x', i) ELSE IsSettled(x, x', i, "closed")
      BY <1>2, <2>1, TakeIs, SettledIs
    <2>3. Turns(x, x', i)
      BY <1>3, <2>2 DEF Turn, Turns
    <2> QED BY <2>2, <2>3, TypeTakes, TypeSettled
  <1>4. CASE Reject(i)
    <2>1. Rejects(x, x', i)
      BY <1>2, <1>4, SettledIs DEF Reject, Rejects
    <2> QED BY <2>1, TypeSettled DEF Rejects
  <1>5. CASE SkipBatch(i)
    <2>1. Skips(x, x', i)
      BY <1>2, <1>5, SettledIs DEF SkipBatch, Skips
    <2> QED BY <2>1, TypeSettled DEF Skips
  <1>6. CASE \E open \in BOOLEAN : Answer(i, open)
    <2>1. PICK open \in BOOLEAN : Answer(i, open)
      BY <1>6
    <2>2. Answers(x, x', i, open)
      BY <1>2, <2>1, StartIs DEF Answer, Answers
    <2> QED BY <2>2, TypeStarts DEF Answers
  <1> QED BY <1>1, <1>3, <1>4, <1>5, <1>6

(* The signal of one call fires.                                            *)
CutsOwn(s, t, i) ==
    /\ s.calls[i].own
    /\ \/ /\ s.calls[i].pc \in {"waiting", "asking"}
          /\ s.calls[i].pc = "waiting" /\ s.tail = i => "last" \in s.sc.faults
          /\ IsSettled(s, t, i, "cut")
       \/ s.calls[i].pc = "running" /\ s.busy.open /\ IsAbandoned(s, t, i)
       \/ /\ s.calls[i].pc = "running" /\ ~s.busy.open
          /\ \E r \in States : IsStopped(s, r) /\ IsMoved(r, t, i, "stopping")
       \/ s.calls[i].pc = "delivering" /\ IsStopped(s, t)

(* A call's own signal fires (CutOwn).                                      *)
LEMMA CutOwnIs ==
    ASSUME TypeInv(x), NEW i \in DOMAIN x.calls, CutOwn(i),
           x.calls[i].pc \in {"running", "delivering"} => ~IsIdle(x)
    PROVE  CutsOwn(x, x', i) /\ TypeInv(x')
  <1> DEFINE c == x.calls[i]
  <1>1. x \in States /\ i <= MaxCalls /\ "cut" \in Tellings /\ c.own
    BY CallRange DEF Tellings, CutOwn
  <1>2. \/ /\ c.pc \in {"waiting", "asking"}
           /\ c.pc = "waiting" /\ x.tail = i => "last" \in x.sc.faults
           /\ x' = Settle(x, i, "cut")
        \/ /\ c.pc = "running"
           /\ x' = IF x.busy.open THEN Abandon(x, i)
                   ELSE [Stop(x) EXCEPT !.calls[i].pc = "stopping"]
        \/ /\ c.pc = "delivering"
           /\ x' = Stop(x)
    BY DEF CutOwn
  <1>3. CASE /\ c.pc \in {"waiting", "asking"}
             /\ c.pc = "waiting" /\ x.tail = i => "last" \in x.sc.faults
             /\ x' = Settle(x, i, "cut")
    <2>1. IsSettled(x, x', i, "cut")
      BY <1>1, <1>3, SettledIs
    <2> QED BY <1>1, <1>3, <2>1, TypeSettled DEF CutsOwn
  <1>4. CASE c.pc = "running" /\ x.busy.open /\ x' = Abandon(x, i)
    <2>1. IsAbandoned(x, x', i)
      BY <1>1, <1>4, AbandonIs
    <2> QED BY <1>1, <1>4, <2>1, TypeAbandoned DEF CutsOwn
  <1>5. CASE c.pc = "running" /\ ~x.busy.open /\ x' = [Stop(x) EXCEPT !.calls[i].pc = "stopping"]
    <2> DEFINE r == Stop(x)
    <2>1. IsStopped(x, r) /\ r \in States /\ x' = [r EXCEPT !.calls[i].pc = "stopping"]
      BY <1>1, <1>5, StopIs DEF IsStopped
    <2> HIDE DEF r
    <2>2. i \in DOMAIN r.calls /\ "stopping" \in CallPcs
      BY <2>1 DEF IsStopped, SameLine, CallPcs
    <2>3. IsMoved(r, x', i, "stopping")
      BY <2>1, <2>2, MovedIs
    <2>4. TypeInv(r)
      BY <1>5, <2>1, TypeStopped
    <2>5. TypeInv(x')
      BY <2>2, <2>3, <2>4, TypeMoved
    <2> QED BY <1>1, <1>5, <2>1, <2>3, <2>5 DEF CutsOwn
  <1>6. CASE c.pc = "delivering" /\ x' = Stop(x)
    <2>1. IsStopped(x, x') /\ TypeInv(x')
      BY <1>1, <1>6, StopIs, TypeStopped
    <2> QED BY <1>1, <1>6, <2>1 DEF CutsOwn
  <1> QED BY <1>2, <1>3, <1>4, <1>5, <1>6

(* The transaction's signal fires (CutTransaction).                         *)
LEMMA CutTransactionIs ==
    ASSUME TypeInv(x), CutTransaction
    PROVE  ~x.cut /\ x.pc \notin {"publishing", "released"} /\ IsCut(x, x') /\ TypeInv(x')
  <1>1. x \in States /\ x' = Cut(x) /\ ~x.cut /\ x.pc \notin {"publishing", "released"}
    BY DEF CutTransaction, TypeInv
  <1>2. IsCut(x, x')
    BY <1>1, CutIs
  <1> QED BY <1>1, <1>2, TypeCut

(* The count of a generator's write, and its rows.                          *)
Drains(s, t) ==
    /\ s.busy.stage \in {"affected", "delivering"}
    /\ s.busy.stage = "affected" => s.calls[s.busy.call].pc # "running" \/ s.busy.stop
    /\ IsWorked(s, t, s.conn, s.db, "ended", s.busy.failed)

Delivers(s, t) ==
    LET i == s.busy.call IN
    /\ s.busy.stage = "affected"
    /\ s.calls[i].pc = "running" /\ ~s.busy.stop
    /\ \E a \in States, b \in States, d \in States :
          /\ IsWorked(s, a, s.conn, s.db, "delivering", s.busy.failed)
          /\ IsMoved(a, b, i, "delivering")
          /\ IsTold(b, d, i, "ok")
          /\ IsRecorded(d, t, i)
          /\ TypeInv(a)

(* A caller told its result keeps the types.                                *)
LEMMA TypeTold ==
    ASSUME NEW s, NEW t, NEW i \in DOMAIN s.calls, NEW v, TypeInv(s), IsTold(s, t, i, v)
    PROVE  TypeInv(t)
  <1>1. OwnFlight(t)
    BY DEF TypeInv, OwnFlight, IsTold, SamePc, SameBusy, IsIdle
  <1> QED BY <1>1, TypeSame DEF TypeInv, Bounds, IsTold, SameBook

(* The query goes on to its next stage.                                     *)
LEMMA StageIs ==
    ASSUME TypeInv(x), ~IsIdle(x), NEW t, NEW stage \in {"delivering", "ended"},
           t = [x EXCEPT !.busy.stage = stage],
           x.busy.call = 0 => stage = "ended"
    PROVE  IsWorked(x, t, x.conn, x.db, stage, x.busy.failed) /\ TypeInv(t)
  <1> DEFINE b == [x.busy EXCEPT !.stage = stage]
  <1>1. x \in States /\ x.busy \in Messages
    BY IdleIs DEF TypeInv
  <1>2. /\ b.call = x.busy.call /\ b.verb = x.busy.verb /\ b.name = x.busy.name
        /\ b.conclude = x.busy.conclude /\ b.open = x.busy.open
        /\ b.stop = x.busy.stop /\ b.stage = stage /\ b.failed = x.busy.failed
        /\ b \in Messages
    BY <1>1 DEF Messages
  <1>3. t = [x EXCEPT !.busy = b]
    OBVIOUS
  <1> HIDE DEF b
  <1>4. x.conn \in ConnsOf(Len(x.calls)) /\ x.conn \in Conns /\ x.db \in SUBSET Calls
        /\ x.db \in SUBSET (1 .. Len(x.calls))
    BY <1>1, ConnIs, CallRange, ConnsGrow DEF States, TypeInv, Bounds
  <1>5. IsWorked(x, t, x.conn, x.db, stage, x.busy.failed)
    BY <1>1, <1>2, <1>3, <1>4, WorkedIs, ZenonT(60)
  <1> QED BY <1>4, <1>5, TypeWorked

(* The page hears of a generator's rows (HearAffected).                     *)
LEMMA HearAffectedIs ==
    ASSUME TypeInv(x), HearAffected
    PROVE  /\ ~IsIdle(x) /\ x.busy.call \in DOMAIN x.calls
           /\ Drains(x, x') \/ Delivers(x, x')
           /\ TypeInv(x')
  <1> DEFINE i == x.busy.call
  <1>1. ~IsIdle(x) /\ x.busy.stage = "affected" /\ x \in States
        /\ x' = IF x.calls[i].pc = "running" /\ ~x.busy.stop
                THEN Recorded(Told([x EXCEPT !.busy.stage = "delivering",
                                             !.calls[i].pc = "delivering"], i, "ok"), i)
                ELSE [x EXCEPT !.busy.stage = "ended"]
    BY DEF HearAffected, TypeInv
  <1>2. i \in DOMAIN x.calls /\ i # 0 /\ i <= MaxCalls
    <2>1. i \in 0 .. Len(x.calls) /\ i # 0
      BY <1>1 DEF TypeInv, OwnFlight
    <2> QED BY <2>1, CallRange
  <1>3. CASE x.calls[i].pc = "running" /\ ~x.busy.stop
    <2> DEFINE a == [x EXCEPT !.busy.stage = "delivering"]
               b == [a EXCEPT !.calls[i].pc = "delivering"]
               d == Told(b, i, "ok")
    <2>1. IsWorked(x, a, x.conn, x.db, "delivering", x.busy.failed) /\ TypeInv(a)
      BY <1>1, <1>2, StageIs
    <2>2. x' = Recorded(d, i)
      <3>1. [x EXCEPT !.busy.stage = "delivering", !.calls[i].pc = "delivering"] = b
        BY <1>1 DEF States
      <3> HIDE DEF b
      <3> QED BY <1>1, <1>3, <3>1
    <2>3. a \in States /\ i \in DOMAIN a.calls
      BY <1>2, <2>1 DEF TypeInv, IsWorked, SameLine
    <2> HIDE DEF a
    <2>4. IsMoved(a, b, i, "delivering") /\ b \in States /\ i \in DOMAIN b.calls
      <3>1. "delivering" \in CallPcs
        BY DEF CallPcs
      <3>2. b = [a EXCEPT !.calls[i].pc = "delivering"]
        OBVIOUS
      <3> HIDE DEF b
      <3>3. IsMoved(a, b, i, "delivering")
        BY <2>3, <3>1, <3>2, MovedIs
      <3> QED BY <2>3, <3>3 DEF IsMoved
    <2> HIDE DEF b
    <2>5. IsTold(b, d, i, "ok") /\ d \in States /\ i \in DOMAIN d.calls
      BY <2>4, ToldIs DEF Tellings, IsTold
    <2> HIDE DEF d
    <2>6. IsRecorded(d, x', i)
      BY <1>2, <2>2, <2>5, RecordedIs
    <2>7. TypeInv(x')
      <3>1. TypeInv(b)
        BY <2>1, <2>3, <2>4, TypeMoved
      <3>2. TypeInv(d)
        BY <2>4, <2>5, <3>1, TypeTold
      <3> QED BY <2>5, <2>6, <3>2, TypeRecorded
    <2>8. Delivers(x, x')
      BY <1>1, <1>3, <2>1, <2>3, <2>4, <2>5, <2>6 DEF Delivers
    <2> QED BY <1>1, <1>2, <2>7, <2>8
  <1>4. CASE ~(x.calls[i].pc = "running" /\ ~x.busy.stop)
    <2>1. x' = [x EXCEPT !.busy.stage = "ended"]
      BY <1>1, <1>4
    <2>2. IsWorked(x, x', x.conn, x.db, "ended", x.busy.failed) /\ TypeInv(x')
      BY <1>1, <2>1, StageIs
    <2> QED BY <1>1, <1>2, <1>4, <2>2 DEF Drains
  <1> QED BY <1>3, <1>4

(* The generator's caller takes the last row (Consume).                     *)
LEMMA ConsumeIs ==
    ASSUME TypeInv(x), Consume
    PROVE  ~IsIdle(x) /\ x.busy.call \in DOMAIN x.calls /\ Drains(x, x') /\ TypeInv(x')
  <1>1. ~IsIdle(x) /\ x.busy.stage = "delivering" /\ x' = [x EXCEPT !.busy.stage = "ended"]
    BY DEF Consume
  <1>2. IsWorked(x, x', x.conn, x.db, "ended", x.busy.failed) /\ TypeInv(x')
    BY <1>1, StageIs
  <1>3. x.busy.call \in 0 .. Len(x.calls) /\ x.busy.call # 0
    BY <1>1 DEF TypeInv, OwnFlight
  <1> QED BY <1>1, <1>2, <1>3, CallRange DEF Drains

(* The reply to a call's query keeps the types.                             *)
LEMMA HearCallKeeps ==
    ASSUME TypeInv(x), HearCall
    PROVE  TypeInv(x')
  <1> DEFINE i == x.busy.call
  <1>0. ASSUME NEW e, NEW t, TypeInv(e), i \in DOMAIN e.calls, IsRecorded(e, t, i)
        PROVE  TypeInv(t)
    <2> HIDE DEF i
    <2> QED BY <1>0, TypeRecorded
  <1>1. ~IsIdle(x) /\ i \in DOMAIN x.calls /\ i # 0
    BY HearCallIs
  <1>2. ASSUME NEW r, IsReplied(x, r)
        PROVE  TypeInv(r) /\ r.calls = x.calls
    BY <1>1, <1>2, TypeReplied DEF IsReplied, SameLine
  <1>3. ASSUME NEW r, NEW d, TypeInv(r), Parts(r, d) \/ Dies(r, d) \/ d = r
        PROVE  TypeInv(d) /\ d.calls = r.calls
    BY <1>3, TypeCut, TypeDies DEF Parts, Dies, IsCut, SameLine
  <1>4. ASSUME NEW d, NEW e, NEW v, TypeInv(d), i \in DOMAIN d.calls, IsSettled(d, e, i, v)
        PROVE  TypeInv(e) /\ i \in DOMAIN e.calls
    <2>1. TypeInv(e)
      BY <1>4, TypeSettled
    <2> QED BY <1>4, <2>1 DEF IsSettled
  <1>5. CASE HearsLeft(x, x')
    <2>1. PICK r \in States, d \in States : IsReplied(x, r) /\ Parts(r, d) /\ IsFreed(d, x', i)
      BY <1>5 DEF HearsLeft
    <2>2. TypeInv(d) /\ d.calls = x.calls
      BY <1>2, <1>3, <2>1
    <2>3. OwnFlight(x')
      BY <2>1, <2>2 DEF TypeInv, OwnFlight, IsFreed, SamePc, SameBusy, IsIdle, Stepped
    <2>4. 0 \in 0 .. Len(x.calls)
      BY CallsAre DEF TypeInv
    <2>5. /\ x'.tail = d.tail /\ x'.closing = d.closing /\ x'.stack = d.stack
          /\ x'.abandoned = IF d.abandoned = i THEN 0 ELSE d.abandoned
          /\ Len(x'.calls) = Len(d.calls) /\ DOMAIN x'.calls = DOMAIN d.calls
          /\ x' \in States /\ SameData(d, x')
      BY <2>1 DEF IsFreed, SameBook, Stepped, Nobody
    <2>6. /\ d.tail \in 0 .. Len(d.calls) /\ d.abandoned \in 0 .. Len(d.calls)
          /\ d.closing \subseteq DOMAIN d.calls
      BY <2>2 DEF TypeInv, Bounds
    <2> QED BY <2>2, <2>3, <2>4, <2>5, <2>6, TypeSame
  <1>6. CASE HearsStatement(x, x')
    <2>1. PICK r \in States, d \in States, e \in States, v \in {Verdict(x.calls[i], x.busy)} :
          /\ IsReplied(x, r) /\ Parts(r, d) /\ IsSettled(d, e, i, v)
          /\ IsRecorded(e, x', i) \/ x' = e
      BY <1>6 DEF HearsStatement
    <2>2. TypeInv(d) /\ d.calls = x.calls
      BY <1>2, <1>3, <2>1
    <2>3. TypeInv(e) /\ i \in DOMAIN e.calls
      BY <1>1, <1>4, <2>1, <2>2
    <2>4. CASE IsRecorded(e, x', i)
      BY <1>0, <2>3, <2>4
    <2>5. CASE x' = e
      BY <2>3, <2>5
    <2> QED BY <2>1, <2>4, <2>5
  <1>7. CASE HearsRefusal(x, x')
    <2>1. PICK r \in States, d \in States :
          IsReplied(x, r) /\ (Dies(r, d) \/ d = r) /\ IsSettled(d, x', i, "error")
      BY <1>7 DEF HearsRefusal
    <2>2. TypeInv(d) /\ d.calls = x.calls
      BY <1>2, <1>3, <2>1
    <2> QED BY <1>1, <1>4, <2>1, <2>2
  <1>8. CASE HearsHalf(x, x')
    <2>1. PICK r \in States :
          IsReplied(x, r) /\ (IsSettled(r, x', i, "closed") \/ IsDropping(r, x', i))
      BY <1>8 DEF HearsHalf
    <2>2. TypeInv(r) /\ r.calls = x.calls /\ IsIdle(r)
      BY <1>2, <2>1 DEF IsReplied
    <2>3. CASE IsSettled(r, x', i, "closed")
      BY <1>1, <1>4, <2>2, <2>3
    <2>4. CASE IsDropping(r, x', i)
      <3>1. i \in 0 .. Len(x.calls)
        BY <1>1, CallRange
      <3>2. OwnFlight(x')
        BY <1>1, <2>2, <2>4, <3>1 DEF TypeInv, OwnFlight, IsDropping, SamePc, Stepped
      <3> QED BY <2>2, <2>4, <3>2, TypeSame DEF TypeInv, Bounds, IsDropping, SameBook, Stepped
    <2> QED BY <2>1, <2>3, <2>4
  <1>9. CASE HearsControl(x, x')
    <2>1. PICK r \in States, e \in States :
          IsReplied(x, r) /\ IsSettled(r, e, i, "ok") /\ IsRecorded(e, x', i)
      BY <1>9 DEF HearsControl
    <2>2. TypeInv(e) /\ i \in DOMAIN e.calls
      BY <1>1, <1>2, <1>4, <2>1
    <2> QED BY <1>0, <2>1, <2>2
  <1>10. CASE HearsEnding(x, x')
    <2>1. PICK r \in States, e \in States :
          /\ IsReplied(x, r) /\ IsSettled(r, e, i, "ok")
          /\ IsDone(e, x', IF x.calls[i].kind = "commit" THEN "committed"
                           ELSE IF x.ending = "none" THEN "rolled-back" ELSE x.ending)
      BY <1>10 DEF HearsEnding
    <2>2. TypeInv(e) /\ i \in DOMAIN e.calls
      BY <1>1, <1>2, <1>4, <2>1
    <2> QED BY <2>1, <2>2, TypeDone
  <1> QED BY <1>5, <1>6, <1>7, <1>8, <1>9, <1>10, HearCallIs

(* It goes on to p, and nothing else changes.                               *)
Goes(s, t, p) ==
    /\ IsAt(s, t, p)
    /\ t.closing = s.closing /\ t.begun = s.begun
    /\ t.poisoned = s.poisoned /\ t.ending = s.ending

(* The transaction goes on to its next phase.                               *)
LEMMA GoesIs ==
    ASSUME NEW s \in States, NEW p \in Phases,
           NEW t, t = [s EXCEPT !.pc = p]
    PROVE  Goes(s, t, p)
  BY PcIs DEF Goes

(* A phase that sends nothing keeps the types.                              *)
LEMMA TypeOn ==
    ASSUME NEW s, NEW t, NEW p, TypeInv(s), IsAt(s, t, p), s.pc \notin Own, p \notin Own,
           t.closing \subseteq DOMAIN s.calls
    PROVE  TypeInv(t)
  <1>1. OwnFlight(t)
    BY DEF TypeInv, OwnFlight, IsAt, SameBusy, SameLine, IsIdle
  <1> QED BY <1>1, TypeAt DEF TypeInv

(* The next phase keeps the types.                                          *)
LEMMA TypeGoes ==
    ASSUME NEW s, NEW t, NEW p, TypeInv(s), Goes(s, t, p), s.pc \notin Own, p \notin Own
    PROVE  TypeInv(t)
  BY TypeOn DEF TypeInv, Bounds, Goes

(* Between its own queries, only a call's query can be in flight.           *)
LEMMA NotInFlight ==
    ASSUME NEW s, TypeInv(s), s.pc \notin Own
    PROVE  ~IsIdle(s) => s.busy.call \in 1 .. Len(s.calls)
  <1>1. ~IsIdle(s) => s.busy.call # 0 /\ s.busy.call \in 0 .. Len(s.calls)
    BY DEF TypeInv, OwnFlight
  <1> QED BY <1>1, CallRange

(* The lease.                                                               *)
Acquires(s, t) ==
    /\ s.pc = "acquiring"
    /\ IF s.cut THEN Goes(s, t, "released") ELSE IsOwn(s, t, "begin", "begin")

(* The transaction gets its lease, or does not (Acquire).                   *)
LEMMA AcquireIs ==
    ASSUME TypeInv(x), Acquire \/ AcquireRejected
    PROVE  Acquires(x, x') /\ TypeInv(x')
  <1>1. x \in States /\ x.pc = "acquiring"
    BY DEF Acquire, AcquireRejected, TypeInv
  <1>2. CASE Acquire
    <2>1. ~x.cut /\ x' = [Post(x, 0, "begin", Library, FALSE) EXCEPT !.pc = "begin"]
      BY <1>2 DEF Acquire
    <2>2. IsOwn(x, x', "begin", "begin")
      BY <1>1, <2>1, OwnIs DEF Phases
    <2> QED BY <1>1, <2>1, <2>2, TypeOwn DEF Acquires, Own
  <1>3. CASE AcquireRejected
    <2>1. x.cut /\ x' = [x EXCEPT !.pc = "released"] /\ "released" \in Phases
      BY <1>3 DEF AcquireRejected, Phases
    <2>2. Goes(x, x', "released")
      BY <1>1, <2>1, GoesIs
    <2> QED BY <1>1, <2>1, <2>2, TypeGoes DEF Acquires, Own
  <1> QED BY <1>2, <1>3

(* The callback returns, or throws.                                         *)
Returns(s, t) ==
    /\ s.pc = "callback" /\ ~s.cut
    /\ \A i \in DOMAIN s.calls :
          s.calls[i].pc \in {"fresh", "delivering", "left", "over"} \/ s.sc.unawaited # {}
    /\ IsAt(s, t, "closing") /\ t.closing = OpenStatements(s)
    /\ t.begun = s.begun /\ t.poisoned = s.poisoned /\ t.ending = s.ending

(* The callback returns (Return).                                           *)
LEMMA ReturnIs ==
    ASSUME TypeInv(x), Return
    PROVE  Returns(x, x') /\ TypeInv(x')
  <1>1. x \in States /\ x.pc = "callback" /\ ~x.cut
        /\ x' = [x EXCEPT !.pc = "closing", !.closing = OpenStatements(x)]
    BY DEF Return, TypeInv
  <1>2. \A i \in DOMAIN x.calls :
          x.calls[i].pc \in {"fresh", "delivering", "left", "over"} \/ x.sc.unawaited # {}
    BY DEF Return, MayReturn, Unsettled
  <1>3. OpenStatements(x) \in SUBSET Calls
    BY CallRange DEF OpenStatements, Calls
  <1> DEFINE o == OpenStatements(x)
  <1>4. "closing" \in Phases /\ x.ending \in Endings
    BY <1>1 DEF Phases, States
  <1>5. o \in SUBSET Calls /\ x' = [x EXCEPT !.pc = "closing", !.closing = o]
    BY <1>1, <1>3
  <1> HIDE DEF o
  <1>6. /\ IsAt(x, x', "closing") /\ x'.closing = o /\ x'.begun = x.begun
        /\ x'.poisoned = x.poisoned /\ x'.ending = x.ending
    <2>1. x \in States /\ "closing" \in Phases /\ o \in SUBSET Calls
          /\ x' = [x EXCEPT !.pc = "closing", !.closing = o]
      BY <1>1, <1>4, <1>5
    <2>2. x' \in States
      BY <2>1 DEF States
    <2>3. SameSc(x, x') /\ SameLine(x, x') /\ SameBusy(x, x') /\ SameData(x, x')
      BY <2>1 DEF States, SameSc, SameLine, SameBusy, SameData
    <2>4. /\ x'.done = x.done /\ x'.cut = x.cut /\ x'.stack = x.stack /\ x'.pc = "closing"
          /\ x'.closing = o /\ x'.begun = x.begun
          /\ x'.poisoned = x.poisoned /\ x'.ending = x.ending
      BY <2>1 DEF States
    <2> QED BY <2>2, <2>3, <2>4 DEF IsAt
  <1>7. Returns(x, x')
    BY <1>1, <1>2, <1>6 DEF Returns, o
  <1>8. o \subseteq DOMAIN x.calls
    BY OpenAreCalls DEF o
  <1> QED BY <1>1, <1>6, <1>7, <1>8, TypeOn DEF Own

(* The callback throws (Throw).                                             *)
LEMMA ThrowIs ==
    ASSUME TypeInv(x), Throw
    PROVE  x.pc = "callback" /\ Fails_(x, x') /\ TypeInv(x')
  <1>1. x.pc = "callback" /\ x' = Fail(x) /\ x \in States /\ Len(x.calls) <= MaxCalls /\ Bounds(x)
    BY DEF Throw, TypeInv, Bounds
  <1>2. Fails_(x, x')
    BY <1>1, FailIs
  <1>3. ~IsIdle(x) => x.busy.call \in 1 .. Len(x.calls)
    BY <1>1, NotInFlight DEF Own
  <1> QED BY <1>1, <1>2, <1>3, TypeFails

(* A generator left open is closed.                                         *)
Closes(s, t) ==
    /\ s.pc \in {"closing", "unwinding"}
    /\ \E i \in s.closing :
          \/ /\ s.calls[i].pc \in {"left", "over"}
             /\ IsAt(s, t, s.pc) /\ t.closing = s.closing \ {i}
             /\ t.begun = s.begun /\ t.poisoned = s.poisoned /\ t.ending = s.ending
          \/ /\ s.calls[i].pc = "fresh"
             /\ IsShut(s, t, i) /\ t.closing = s.closing \ {i}
          \/ /\ s.calls[i].pc \in {"running", "delivering"} /\ ~s.busy.stop
             /\ s.busy.stage # "ended"
             /\ IsStopped(s, t)

(* One generator left open is closed (CloseOne).                            *)
LEMMA CloseOneIs ==
    ASSUME TypeInv(x), CloseOne,
           \A i \in DOMAIN x.calls : x.calls[i].pc \in {"running", "delivering"} => ~IsIdle(x)
    PROVE  Closes(x, x') /\ TypeInv(x')
  <1> DEFINE i == Min(x.closing)
             o == x.closing \ {i}
             rest == [x EXCEPT !.closing = @ \ {i}]
  <1>1. x \in States /\ x.pc \in {"closing", "unwinding"} /\ x.closing # {} /\ x.closing \subseteq DOMAIN x.calls
        /\ DOMAIN x.calls = 1 .. Len(x.calls) /\ x.pc \in Phases /\ x.ending \in Endings
    BY CallRange DEF CloseOne, TypeInv, Bounds, States
  <1>2. i \in x.closing /\ i \in DOMAIN x.calls
    <2>1. x.closing \subseteq Nat
      BY <1>1
    <2>2. PICK k \in x.closing : \A j \in x.closing : k <= j
      BY <1>1, <2>1, LeastOne
    <2>3. Min(x.closing) \in x.closing
      BY <2>2 DEF Min
    <2> QED BY <1>1, <2>3
  <1>3. o \in SUBSET Calls /\ o \subseteq DOMAIN x.calls /\ rest = [x EXCEPT !.closing = o]
    BY <1>1 DEF States
  <1>4. \/ /\ x.calls[i].pc \in {"left", "over"}
           /\ x' = rest
        \/ /\ x.calls[i].pc = "fresh"
           /\ x' = [rest EXCEPT !.calls[i].pc = "over", !.calls[i].told = "closed"]
        \/ /\ x.calls[i].pc \in {"running", "delivering"}
           /\ x.busy.stage # "ended" /\ ~x.busy.stop
           /\ x' = Stop(x)
    BY DEF CloseOne
  <1>5. CASE x.calls[i].pc \in {"left", "over"} /\ x' = rest
    <2>1. x' = [x EXCEPT !.closing = o]
      BY <1>3, <1>5
    <2> HIDE DEF o, i, rest
    <2>2. /\ IsAt(x, x', x.pc) /\ x'.closing = o /\ x'.begun = x.begun
          /\ x'.poisoned = x.poisoned /\ x'.ending = x.ending
      BY <1>1, <1>3, <2>1, AtClosed
    <2>3. TypeInv(x')
      BY <1>1, <1>3, <2>2, TypeOn DEF Own
    <2> QED BY <1>1, <1>2, <1>5, <2>2, <2>3 DEF Closes, o
  <1>6. CASE /\ x.calls[i].pc = "fresh"
             /\ x' = [rest EXCEPT !.calls[i].pc = "over", !.calls[i].told = "closed"]
    <2>1. x' = Shut(x, i, o)
      <3>1. rest = [x EXCEPT !.closing = o]
        BY <1>3
      <3> HIDE DEF rest, o, i
      <3> QED BY <1>6, <3>1 DEF Shut
    <2> HIDE DEF o, i, rest
    <2>2. IsShut(x, x', i) /\ x'.closing = o
      BY <1>1, <1>2, <1>3, <2>1, ShutIs
    <2>3. o \subseteq x.closing
      BY DEF o
    <2>4. TypeInv(x')
      BY <1>2, <2>2, <2>3, TypeShut
    <2> QED BY <1>1, <1>2, <1>6, <2>2, <2>4 DEF Closes, o
  <1>7. CASE /\ x.calls[i].pc \in {"running", "delivering"}
             /\ x.busy.stage # "ended" /\ ~x.busy.stop
             /\ x' = Stop(x)
    <2> HIDE DEF o, i, rest
    <2>1. ~IsIdle(x)
      BY <1>2, <1>7
    <2>2. IsStopped(x, x') /\ TypeInv(x')
      BY <1>1, <1>7, <2>1, StopIs, TypeStopped
    <2> QED BY <1>1, <1>2, <1>7, <2>2 DEF Closes
  <1> QED BY <1>4, <1>5, <1>6, <1>7

(* The conclusion is next, and goes out.                                    *)
Readies(s, t) ==
    /\ s.pc = "closing" /\ IsIdle(s) /\ s.closing = {}
    /\ Goes(s, t, IF s.done THEN "finishing" ELSE "ready")

(* Every generator left open is closed (Closed).                            *)
LEMMA ClosedIs ==
    ASSUME TypeInv(x), Closed
    PROVE  Readies(x, x') /\ TypeInv(x')
  <1> DEFINE p == IF x.done THEN "finishing" ELSE "ready"
  <1>1. x \in States /\ x.pc = "closing" /\ IsIdle(x) /\ x.closing = {} /\ x' = [x EXCEPT !.pc = p]
    BY DEF Closed, TypeInv
  <1>2. p \in Phases /\ p \notin Own
    BY DEF Phases, Own
  <1> HIDE DEF p
  <1>3. Goes(x, x', p)
    BY <1>1, <1>2, GoesIs
  <1>4. TypeInv(x')
    BY <1>1, <1>2, <1>3, TypeGoes DEF Own
  <1> QED BY <1>1, <1>3, <1>4 DEF Readies, p

Concludes(s, t) ==
    /\ s.pc = "ready" /\ (s.cut \/ s.abandoned = Nobody)
    /\ IF s.cut \/ ~IsIdle(s) \/ s.dead THEN Fails_(s, t)
       ELSE IsOwn(s, t, IF s.autoCommit THEN "commit" ELSE "rollback", "concluding")

(* The transaction concludes of itself (ConcludeItself).                    *)
LEMMA ConcludeItselfIs ==
    ASSUME TypeInv(x), ConcludeItself
    PROVE  Concludes(x, x') /\ TypeInv(x')
  <1>1. /\ x \in States /\ x.pc = "ready" /\ (x.cut \/ x.abandoned = Nobody)
        /\ Len(x.calls) <= MaxCalls /\ Bounds(x) /\ "concluding" \in Phases
        /\ x' = IF x.cut \/ ~IsIdle(x) \/ x.dead THEN Fail(x)
            ELSE IF x.autoCommit
            THEN [Post(x, 0, "commit", Library, FALSE) EXCEPT !.pc = "concluding"]
            ELSE [Post([x EXCEPT !.pending = "none"], 0, "rollback", Library, FALSE)
                     EXCEPT !.pc = "concluding"]
    BY DEF ConcludeItself, TypeInv, Bounds, Phases
  <1>2. CASE x.cut \/ ~IsIdle(x) \/ x.dead
    <2>1. Fails_(x, x')
      BY <1>1, <1>2, FailIs
    <2>2. ~IsIdle(x) => x.busy.call \in 1 .. Len(x.calls)
      BY <1>1, NotInFlight DEF Own
    <2> QED BY <1>1, <1>2, <2>1, <2>2, TypeFails DEF Concludes
  <1>3. CASE ~(x.cut \/ ~IsIdle(x) \/ x.dead) /\ x.autoCommit
    <2>1. x' = [Post(x, 0, "commit", Library, FALSE) EXCEPT !.pc = "concluding"]
      BY <1>1, <1>3
    <2>2. IsOwn(x, x', "commit", "concluding")
      BY <1>1, <2>1, OwnIs
    <2>3. TypeInv(x')
      BY <2>2, TypeOwn DEF Own
    <2> QED BY <1>1, <1>3, <2>2, <2>3 DEF Concludes
  <1>4. CASE ~(x.cut \/ ~IsIdle(x) \/ x.dead) /\ ~x.autoCommit
    <2>1. x' = [Post([x EXCEPT !.pending = "none"], 0, "rollback", Library, FALSE)
                     EXCEPT !.pc = "concluding"]
      BY <1>1, <1>4
    <2>2. IsOwn(x, x', "rollback", "concluding")
      BY <1>1, <2>1, OwnIs
    <2>3. TypeInv(x')
      BY <2>2, TypeOwn DEF Own
    <2> QED BY <1>1, <1>4, <2>2, <2>3 DEF Concludes
  <1> QED BY <1>2, <1>3, <1>4

Unwinds(s, t) ==
    /\ s.pc = "unwinding" /\ IsIdle(s) /\ s.closing = {}
    /\ IF ~OwesRollback(s) THEN Goes(s, t, "finishing")
       ELSE IF s.dead
       THEN /\ IsAt(s, t, "finishing") /\ t.closing = s.closing /\ t.begun = s.begun
            /\ t.poisoned /\ t.ending = s.ending
       ELSE IsOwn(s, t, "rollback", "rolling")

(* The unwinding rolls back if it must (Unwind).                            *)
LEMMA UnwindIs ==
    ASSUME TypeInv(x), Unwind
    PROVE  Unwinds(x, x') /\ TypeInv(x')
  <1>1. /\ x \in States /\ x.pc = "unwinding" /\ IsIdle(x) /\ x.closing = {}
        /\ "finishing" \in Phases /\ "rolling" \in Phases
        /\ x' = IF ~OwesRollback(x) THEN [x EXCEPT !.pc = "finishing"]
            ELSE IF x.dead THEN [x EXCEPT !.pc = "finishing", !.poisoned = TRUE]
            ELSE [Post([x EXCEPT !.pending = "none"], 0, "rollback", Library, FALSE)
                     EXCEPT !.pc = "rolling"]
    BY DEF Unwind, TypeInv, Phases
  <1>2. CASE ~OwesRollback(x)
    <2>1. x' = [x EXCEPT !.pc = "finishing"]
      BY <1>1, <1>2
    <2>2. Goes(x, x', "finishing")
      BY <1>1, <2>1, GoesIs
    <2> QED BY <1>1, <1>2, <2>2, TypeGoes DEF Unwinds, Own
  <1>3. CASE OwesRollback(x) /\ x.dead
    <2>1. x' = [x EXCEPT !.pc = "finishing", !.poisoned = TRUE]
      BY <1>1, <1>3
    <2>2. /\ IsAt(x, x', "finishing") /\ x'.closing = x.closing /\ x'.begun = x.begun
          /\ x'.poisoned /\ x'.ending = x.ending
      <3>1. x' \in States
        BY <1>1, <2>1 DEF States
      <3>2. SameSc(x, x') /\ SameLine(x, x') /\ SameBusy(x, x') /\ SameData(x, x')
        BY <1>1, <2>1 DEF States, SameSc, SameLine, SameBusy, SameData
      <3>3. /\ x'.done = x.done /\ x'.cut = x.cut /\ x'.stack = x.stack
            /\ x'.pc = "finishing" /\ x'.closing = x.closing /\ x'.begun = x.begun
            /\ x'.poisoned /\ x'.ending = x.ending
        BY <1>1, <2>1 DEF States
      <3> QED BY <3>1, <3>2, <3>3 DEF IsAt
    <2>3. TypeInv(x')
      <3>1. x'.closing \subseteq DOMAIN x.calls
        BY <2>2 DEF TypeInv, Bounds
      <3>2. x.pc \notin Own /\ "finishing" \notin Own /\ IsAt(x, x', "finishing")
        BY <1>1, <2>2 DEF Own
      <3> QED BY <3>1, <3>2, TypeOn
    <2> QED BY <1>1, <1>3, <2>2, <2>3 DEF Unwinds
  <1>4. CASE OwesRollback(x) /\ ~x.dead
    <2>1. x' = [Post([x EXCEPT !.pending = "none"], 0, "rollback", Library, FALSE)
                     EXCEPT !.pc = "rolling"]
      BY <1>1, <1>4
    <2>2. IsOwn(x, x', "rollback", "rolling")
      BY <1>1, <2>1, OwnIs
    <2> QED BY <1>1, <1>4, <2>2, TypeOwn DEF Unwinds, Own
  <1> QED BY <1>2, <1>3, <1>4

Finishes(s, t) ==
    /\ s.pc = "finishing"
    /\ IsAt(s, t, "publishing") /\ t.closing = s.closing /\ t.begun = s.begun
    /\ t.poisoned = s.poisoned
    /\ t.ending = IF s.ending = "none" THEN "rolled-back" ELSE s.ending

(* The ending is decided (Finish).                                          *)
LEMMA FinishIs ==
    ASSUME TypeInv(x), Finish
    PROVE  Finishes(x, x') /\ TypeInv(x')
  <1> DEFINE e == IF x.ending = "none" THEN "rolled-back" ELSE x.ending
  <1>1. x \in States /\ x.pc = "finishing" /\ x' = [x EXCEPT !.pc = "publishing", !.ending = e]
    BY DEF Finish, TypeInv
  <1>2. e \in Endings /\ "publishing" \in Phases /\ x.closing \in SUBSET Calls
    BY <1>1 DEF Endings, Phases, States
  <1> HIDE DEF e
  <1>3. /\ IsAt(x, x', "publishing") /\ x'.closing = x.closing /\ x'.begun = x.begun
        /\ x'.poisoned = x.poisoned /\ x'.ending = e
    <2>1. x' \in States
      BY <1>1, <1>2 DEF States
    <2>2. SameSc(x, x') /\ SameLine(x, x') /\ SameBusy(x, x') /\ SameData(x, x')
      BY <1>1 DEF States, SameSc, SameLine, SameBusy, SameData
    <2>3. /\ x'.done = x.done /\ x'.cut = x.cut /\ x'.stack = x.stack /\ x'.pc = "publishing"
          /\ x'.closing = x.closing /\ x'.begun = x.begun
          /\ x'.poisoned = x.poisoned /\ x'.ending = e
      BY <1>1 DEF States
    <2> QED BY <2>1, <2>2, <2>3 DEF IsAt
  <1>4. TypeInv(x')
    <2>1. x'.closing \subseteq DOMAIN x.calls
      BY <1>3 DEF TypeInv, Bounds
    <2>2. x.pc \notin Own /\ "publishing" \notin Own /\ IsAt(x, x', "publishing")
      BY <1>1, <1>3 DEF Own
    <2> QED BY <2>1, <2>2, TypeOn
  <1> QED BY <1>1, <1>3, <1>4 DEF Finishes, e

Releases(s, t) == s.pc = "publishing" /\ IsIdle(s) /\ Goes(s, t, "released")

(* The lease goes back (Release).                                           *)
LEMMA ReleaseIs ==
    ASSUME TypeInv(x), Release
    PROVE  Releases(x, x') /\ TypeInv(x')
  <1>1. x \in States /\ x.pc = "publishing" /\ IsIdle(x) /\ x' = [x EXCEPT !.pc = "released"]
        /\ "released" \in Phases
    BY DEF Release, TypeInv, Phases
  <1>2. Goes(x, x', "released")
    BY <1>1, GoesIs
  <1> QED BY <1>1, <1>2, TypeGoes DEF Releases, Own

(* The replies to its own queries.                                          *)
HearsBegin(s, t) ==
    /\ s.pc = "begin"
    /\ \E r \in States : 
          /\ IsReplied(s, r)
          /\ IF s.busy.failed THEN Fails_(r, t)
             ELSE IF s.cut
             THEN \E u \in States :
                     /\ IsAt(r, u, "begin") /\ u.closing = r.closing /\ u.begun
                     /\ u.poisoned = r.poisoned /\ u.ending = r.ending
                     /\ Fails_(u, t)
             ELSE /\ IsAt(r, t, "callback") /\ t.closing = r.closing /\ t.begun
                  /\ t.poisoned = r.poisoned /\ t.ending = r.ending

HearsConclusion(s, t) ==
    /\ s.pc = "concluding"
    /\ \E r \in States :
          /\ IsReplied(s, r)
          /\ IF s.busy.failed THEN Fails_(r, t)
             ELSE \E d \in States :
                     /\ IsDone(r, d, IF s.busy.verb = "commit" THEN "committed"
                                     ELSE IF s.ending = "none" THEN "rolled-back" ELSE s.ending)
                     /\ Goes(d, t, "finishing")

HearsRollback(s, t) ==
    /\ s.pc = "rolling"
    /\ \E r \in States, d \in States :
          /\ IsReplied(s, r)
          /\ IF s.busy.failed
             THEN /\ IsAt(r, d, "rolling") /\ d.closing = r.closing /\ d.begun = r.begun
                  /\ d.poisoned /\ d.ending = r.ending
             ELSE IsDone(r, d, IF s.ending = "none" THEN "rolled-back" ELSE s.ending)
          /\ Goes(d, t, "finishing")

(* The reply heard leaves every reference to a call in range.               *)
LEMMA BoundsReplied ==
    ASSUME NEW s, NEW r, TypeInv(s), IsReplied(s, r)
    PROVE  /\ Bounds(r) /\ r \in States /\ r.calls = s.calls /\ Len(r.calls) <= MaxCalls
           /\ r.closing \subseteq DOMAIN s.calls
           /\ r.pc = s.pc /\ r.ending = s.ending /\ r.cut = s.cut
           /\ IsIdle(r)
  BY DEF TypeInv, Bounds, IsReplied, SameLine, SameBook, SameData, SamePc, SameEnding

(* What the page does with the reply to a query of its own (HearOwn).       *)
LEMMA HearOwnIs ==
    ASSUME TypeInv(x), HearOwn
    PROVE  /\ ~IsIdle(x) /\ x.busy.call = 0 /\ x.busy.stage = "ended"
           /\ HearsBegin(x, x') \/ HearsConclusion(x, x') \/ HearsRollback(x, x')
           /\ TypeInv(x')
  <1> DEFINE m == x.busy
             r == Replied(x)
  <1>1. ~IsIdle(x) /\ m.call = 0 /\ m.stage = "ended" /\ x \in States
    BY DEF HearOwn, TypeInv
  <1>2. x.pc \in {"begin", "concluding", "rolling"}
    BY <1>1 DEF TypeInv, OwnFlight, Own
  <1>3. IsReplied(x, r)
    BY <1>1, RepliedIs
  <1>4. x' = CASE x.pc = "begin" ->
                        IF m.failed THEN Fail(r)
                        ELSE IF r.cut THEN Fail([r EXCEPT !.begun = TRUE])
                        ELSE [r EXCEPT !.begun = TRUE, !.pc = "callback"]
                 [] x.pc = "concluding" ->
                        IF m.failed THEN Fail(r)
                        ELSE [IF m.verb = "commit" THEN Committed(r) ELSE RolledBack(r)
                                 EXCEPT !.pc = "finishing"]
                 [] x.pc = "rolling" ->
                        [IF m.failed THEN [r EXCEPT !.poisoned = TRUE] ELSE RolledBack(r)
                            EXCEPT !.pc = "finishing"]
    BY DEF HearOwn
  <1> HIDE DEF r
  <1>5. /\ Bounds(r) /\ r \in States /\ r.calls = x.calls /\ Len(r.calls) <= MaxCalls
        /\ r.closing \subseteq DOMAIN x.calls
        /\ r.pc = x.pc /\ r.ending = x.ending /\ r.cut = x.cut
        /\ IsIdle(r)
    BY <1>3, BoundsReplied
  <1>6. ASSUME Fails_(r, x')
        PROVE  TypeInv(x')
    BY <1>5, <1>6, TypeFails
  <1>7. ASSUME NEW d \in States, d.calls = r.calls, d.closing = r.closing, IsIdle(d), Bounds(d),
               x' = [d EXCEPT !.pc = "finishing"]
        PROVE  Goes(d, x', "finishing") /\ TypeInv(x')
    <2>1. "finishing" \in Phases
      BY DEF Phases
    <2>2. Goes(d, x', "finishing")
      BY <1>7, <2>1, GoesIs
    <2>3. OwnFlight(x')
      BY <1>7, <2>2 DEF OwnFlight, Goes, IsAt, SameBusy, IsIdle, Own
    <2>4. TypeInv(x')
      BY <1>5, <1>7, <2>2, <2>3, TypeAt DEF Goes
    <2> QED BY <2>2, <2>4
  <1>8. ASSUME NEW d, NEW e, IsDone(r, d, e)
        PROVE  d \in States /\ d.calls = r.calls /\ d.closing = r.closing /\ IsIdle(d) /\ Bounds(d)
    BY <1>5, <1>8 DEF IsDone, SameLine, SameBook, SameBusy, SameData, Bounds, IsIdle
  <1>9. CASE x.pc = "begin"
    <2>1. x' = IF m.failed THEN Fail(r)
               ELSE IF r.cut THEN Fail([r EXCEPT !.begun = TRUE])
               ELSE [r EXCEPT !.begun = TRUE, !.pc = "callback"]
      BY <1>4, <1>9
    <2>2. CASE m.failed
      <3>1. Fails_(r, x')
        BY <1>5, <2>1, <2>2, FailIs
      <3> QED BY <1>1, <1>3, <1>5, <1>6, <1>9, <2>2, <3>1 DEF HearsBegin
    <2>3. CASE ~m.failed /\ x.cut
      <3> DEFINE u == [r EXCEPT !.begun = TRUE]
      <3>1. u = [r EXCEPT !.begun = TRUE] /\ x' = Fail(u) /\ r.pc \in Phases
        BY <1>5, <2>1, <2>3 DEF States
      <3> HIDE DEF u
      <3>2. /\ IsAt(r, u, "begin") /\ u.closing = r.closing /\ u.begun
            /\ u.poisoned = r.poisoned /\ u.ending = r.ending
        BY <1>5, <1>9, <3>1, AtBegun
      <3>3. /\ u \in States /\ u.calls = r.calls /\ IsIdle(u) /\ Len(u.calls) <= MaxCalls
            /\ Bounds(u)
        BY <1>5, <3>2 DEF IsAt, SameLine, SameBusy, SameData, IsIdle, Bounds
      <3>4. Fails_(u, x')
        BY <3>1, <3>3, FailIs
      <3>5. TypeInv(x')
        BY <3>3, <3>4, TypeFails
      <3>6. HearsBegin(x, x')
        BY <1>3, <1>5, <1>9, <2>3, <3>2, <3>3, <3>4 DEF HearsBegin
      <3> QED BY <1>1, <3>5, <3>6
    <2>4. CASE ~m.failed /\ ~x.cut
      <3>1. x' = [r EXCEPT !.begun = TRUE, !.pc = "callback"] /\ "callback" \in Phases
        BY <1>5, <2>1, <2>4 DEF Phases
      <3>2. /\ IsAt(r, x', "callback") /\ x'.closing = r.closing /\ x'.begun
            /\ x'.poisoned = r.poisoned /\ x'.ending = r.ending
        <4>1. r \in States /\ x' = [r EXCEPT !.begun = TRUE, !.pc = "callback"]
              /\ "callback" \in Phases
          BY <1>5, <3>1
        <4>2. x' \in States
          BY <4>1 DEF States
        <4>3. SameSc(r, x') /\ SameLine(r, x') /\ SameBusy(r, x') /\ SameData(r, x')
          BY <4>1 DEF States, SameSc, SameLine, SameBusy, SameData
        <4>4. /\ x'.done = r.done /\ x'.cut = r.cut /\ x'.stack = r.stack
              /\ x'.pc = "callback" /\ x'.closing = r.closing /\ x'.begun
              /\ x'.poisoned = r.poisoned /\ x'.ending = r.ending
          BY <4>1 DEF States
        <4> QED BY <4>2, <4>3, <4>4 DEF IsAt
      <3>3. OwnFlight(x')
        BY <1>5, <3>2 DEF OwnFlight, IsAt, SameBusy, IsIdle, Own
      <3>4. TypeInv(x')
        BY <1>5, <3>2, <3>3, TypeAt
      <3>5. HearsBegin(x, x')
        BY <1>3, <1>5, <1>9, <2>4, <3>2 DEF HearsBegin
      <3> QED BY <1>1, <3>4, <3>5
    <2> QED BY <2>2, <2>3, <2>4
  <1>10. CASE x.pc = "concluding"
    <2>1. x' = IF m.failed THEN Fail(r)
               ELSE [IF m.verb = "commit" THEN Committed(r) ELSE RolledBack(r)
                                 EXCEPT !.pc = "finishing"]
      BY <1>4, <1>10
    <2>2. CASE m.failed
      <3>1. Fails_(r, x')
        BY <1>5, <2>1, <2>2, FailIs
      <3> QED BY <1>1, <1>3, <1>5, <1>6, <1>10, <2>2, <3>1 DEF HearsConclusion
    <2>3. CASE ~m.failed
      <3> DEFINE d == IF m.verb = "commit" THEN Committed(r) ELSE RolledBack(r)
      <3>1. x' = [d EXCEPT !.pc = "finishing"]
        BY <2>1, <2>3
      <3>2. IsDone(r, d, IF m.verb = "commit" THEN "committed"
                         ELSE IF x.ending = "none" THEN "rolled-back" ELSE x.ending)
        BY <1>5, DoneIs
      <3> HIDE DEF d
      <3>3. d \in States /\ Goes(d, x', "finishing") /\ TypeInv(x')
        BY <1>7, <1>8, <3>1, <3>2
      <3> QED BY <1>1, <1>3, <1>5, <1>10, <2>3, <3>2, <3>3 DEF HearsConclusion
    <2> QED BY <2>2, <2>3
  <1>11. CASE x.pc = "rolling"
    <2> DEFINE d == IF m.failed THEN [r EXCEPT !.poisoned = TRUE] ELSE RolledBack(r)
    <2>1. x' = [d EXCEPT !.pc = "finishing"]
      BY <1>4, <1>11
    <2>2. CASE m.failed
      <3>1. d = [r EXCEPT !.poisoned = TRUE] /\ r.pc \in Phases
        BY <1>5, <2>2 DEF States
      <3> HIDE DEF d
      <3>2. /\ IsAt(r, d, "rolling") /\ d.closing = r.closing /\ d.begun = r.begun
            /\ d.poisoned /\ d.ending = r.ending
        BY <1>5, <1>11, <3>1, AtPoisoned
      <3>3. d \in States /\ d.calls = r.calls /\ IsIdle(d) /\ Bounds(d)
        BY <1>5, <3>2 DEF IsAt, SameLine, SameBusy, SameData, IsIdle, Bounds
      <3>4. Goes(d, x', "finishing") /\ TypeInv(x')
        BY <1>7, <2>1, <3>2, <3>3
      <3> QED BY <1>1, <1>3, <1>5, <1>11, <2>2, <3>2, <3>3, <3>4 DEF HearsRollback
    <2>3. CASE ~m.failed
      <3>1. IsDone(r, d, IF x.ending = "none" THEN "rolled-back" ELSE x.ending)
        BY <1>5, <2>3, DoneIs
      <3> HIDE DEF d
      <3>2. d \in States /\ Goes(d, x', "finishing") /\ TypeInv(x')
        BY <1>7, <1>8, <2>1, <3>1
      <3> QED BY <1>1, <1>3, <1>5, <1>11, <2>3, <3>1, <3>2 DEF HearsRollback
    <2> QED BY <2>2, <2>3
  <1> QED BY <1>2, <1>9, <1>10, <1>11

(* The reply has made the worker idle, and call i is over.                  *)
IsOver(s, t, i) ==
    /\ t \in States
    /\ SameSc(s, t) /\ SameBook(s, t)
    /\ t.pc = s.pc /\ t.begun = s.begun /\ t.poisoned = s.poisoned
    /\ t.dead = s.dead /\ t.conn = s.conn /\ t.db = s.db
    /\ t.pending = s.pending
    /\ IsIdle(t)
    /\ t.said = IF s.dead THEN s.said ELSE IF s.conn.in THEN "in" ELSE "out"
    /\ Len(t.calls) = Len(s.calls)
    /\ DOMAIN t.calls = DOMAIN s.calls
    /\ \A j \in DOMAIN s.calls :
          /\ Kin(t.calls[j], s.calls[j])
          /\ t.calls[j].pc = IF j = i THEN "over" ELSE s.calls[j].pc

(* It hands its place on, and its caller is told v, if nothing before.      *)
IsPassed(s, t, i, v) ==
    /\ t.abandoned = s.abandoned
    /\ t.tail = IF s.tail = i THEN Nobody ELSE s.tail
    /\ \A j \in DOMAIN s.calls :
          /\ t.calls[j].prior = IF s.calls[j].prior = i THEN s.calls[i].prior ELSE s.calls[j].prior
          /\ t.calls[j].told = IF j = i /\ s.calls[j].told = "nothing" THEN v ELSE s.calls[j].told

(* The transaction dies with it when p holds.                               *)
IsEnding(s, t, p) ==
    /\ t.done = s.done
    /\ t.ending = IF s.ending = "none" /\ p THEN "died" ELSE s.ending
    /\ t.cut <=> s.cut \/ (s.ending = "none" /\ p)

(* The page hears that the connection has left the transaction.             *)
Departed(s) == s.begun /\ (IF s.dead THEN s.said = "out" ELSE ~s.conn.in)

OversLeft(s, t, i) ==
    /\ s.calls[i].pc = "left"
    /\ IsOver(s, t, i) /\ IsEnding(s, t, Departed(s))
    /\ t.abandoned = IF s.abandoned = i THEN Nobody ELSE s.abandoned
    /\ t.tail = s.tail
    /\ \A j \in DOMAIN s.calls :
          t.calls[j].prior = s.calls[j].prior /\ t.calls[j].told = s.calls[j].told
    /\ t.ledger = s.ledger

OversStatement(s, t, i) ==
    LET v == Verdict(s.calls[i], s.busy) IN
    /\ s.calls[i].pc # "left" /\ Statement(s.calls[i].kind)
    /\ IsOver(s, t, i) /\ IsPassed(s, t, i, v) /\ IsEnding(s, t, Departed(s))
    /\ t.ledger = IF v = "ok" /\ s.calls[i].told = "nothing"
                  THEN Account(s.ledger, s.calls[i], i) ELSE s.ledger

OversRefusal(s, t, i) ==
    /\ s.calls[i].pc # "left" /\ ~Statement(s.calls[i].kind) /\ s.busy.failed
    /\ IsOver(s, t, i) /\ IsPassed(s, t, i, "error")
    /\ IsEnding(s, t, s.calls[i].kind \in SavepointVerbs)
    /\ t.ledger = s.ledger

OversHalf(s, t, i) ==
    /\ s.calls[i].pc = "running" /\ ~s.busy.failed /\ s.calls[i].kind = "rollbackTo"
    /\ s.ending # "none"
    /\ IsOver(s, t, i) /\ IsPassed(s, t, i, "closed") /\ IsEnding(s, t, FALSE)
    /\ t.ledger = s.ledger

GoesOn(s, t, i) ==
    /\ s.calls[i].pc = "running" /\ ~s.busy.failed
    /\ s.calls[i].kind = "rollbackTo" /\ ~s.calls[i].keep
    /\ s.ending = "none"
    /\ t \in States
    /\ SameSc(s, t) /\ SamePc(s, t) /\ SameBook(s, t) /\ SameData(s, t)
    /\ SameEnding(s, t)
    /\ t.abandoned = s.abandoned /\ t.tail = s.tail
    /\ t.said = IF s.dead THEN s.said ELSE IF s.conn.in THEN "in" ELSE "out"
    /\ t.pending = "none"
    /\ ~IsIdle(t)
    /\ t.busy.call = i /\ t.busy.verb = "release" /\ t.busy.name = s.calls[i].name
    /\ t.busy.conclude = s.pending
    /\ ~t.busy.open /\ ~t.busy.stop
    /\ ~t.busy.failed /\ t.busy.stage = "posted"
    /\ Stepped(s.calls, t.calls, i, "dropping")

OversControl(s, t, i) ==
    /\ s.calls[i].pc # "left" /\ ~s.busy.failed /\ ~Drops(s, s.calls[i])
    /\ s.calls[i].kind \in SavepointVerbs
    /\ IsOver(s, t, i) /\ IsPassed(s, t, i, "ok") /\ IsEnding(s, t, FALSE)
    /\ t.ledger = Account(s.ledger, s.calls[i], i)

OversEnding(s, t, i) ==
    /\ s.calls[i].pc # "left" /\ ~s.busy.failed /\ s.calls[i].kind \in {"commit", "rollback"}
    /\ IsOver(s, t, i) /\ IsPassed(s, t, i, "ok")
    /\ t.done /\ t.cut = s.cut
    /\ t.ending = IF s.calls[i].kind = "commit" THEN "committed"
                  ELSE IF s.ending = "none" THEN "rolled-back" ELSE s.ending
    /\ t.ledger = s.ledger

Hears(s, t) ==
    LET i == s.busy.call IN
    /\ ~IsIdle(s) /\ s.busy.stage = "ended" /\ i \in DOMAIN s.calls
    /\ \/ OversLeft(s, t, i) \/ OversStatement(s, t, i) \/ OversRefusal(s, t, i)
       \/ OversHalf(s, t, i) \/ GoesOn(s, t, i) \/ OversControl(s, t, i)
       \/ OversEnding(s, t, i)

(* The steps a reply takes, one after the other.                            *)
LEMMA RepliedPart ==
    ASSUME NEW s, NEW r, NEW d, IsReplied(s, r), Parts(r, d)
    PROVE  /\ SameSc(s, d) /\ SamePc(s, d) /\ SameBook(s, d) /\ SameLine(s, d) /\ SameData(s, d)
           /\ d.pending = s.pending /\ IsIdle(d)
           /\ d.said = IF s.dead THEN s.said ELSE IF s.conn.in THEN "in" ELSE "out"
           /\ IsEnding(s, d, Departed(s))
  <1>1. /\ SameSc(s, r) /\ SamePc(s, r) /\ SameBook(s, r) /\ SameLine(s, r) /\ SameData(s, r)
        /\ SameEnding(s, r) /\ r.pending = s.pending /\ IsIdle(r)
        /\ r.said = IF s.dead THEN s.said ELSE IF s.conn.in THEN "in" ELSE "out"
    BY DEF IsReplied
  <1>2. Left(r) <=> s.ending = "none" /\ Departed(s)
    BY <1>1 DEF Left, Departed, SamePc, SameEnding
  <1>3. CASE Left(r)
    <2>1. IsCut(r, d)
      BY <1>3 DEF Parts
    <2>2. IsEnding(s, d, Departed(s))
      BY <1>1, <1>2, <1>3, <2>1 DEF IsCut, IsEnding, SameEnding, SamePc
    <2> QED BY <1>1, <2>1, <2>2
            DEF IsCut, SameSc, SamePc, SameBook, SameLine, SameData
  <1>4. CASE ~Left(r)
    <2>1. d = r
      BY <1>4 DEF Parts
    <2>2. IsEnding(s, d, Departed(s))
      BY <1>1, <1>2, <1>4, <2>1 DEF IsEnding, SameEnding, SamePc
    <2> QED BY <1>1, <2>1, <2>2
  <1> QED BY <1>3, <1>4

(* The reply heard, the transaction dead or not: the rest is as it was.     *)
LEMMA RepliedDies ==
    ASSUME NEW s, NEW r, NEW d, NEW p \in BOOLEAN, IsReplied(s, r),
           IF p THEN Dies(r, d) ELSE d = r
    PROVE  /\ SameSc(s, d) /\ SamePc(s, d) /\ SameBook(s, d) /\ SameLine(s, d) /\ SameData(s, d)
           /\ d.pending = s.pending /\ IsIdle(d)
           /\ d.said = IF s.dead THEN s.said ELSE IF s.conn.in THEN "in" ELSE "out"
           /\ IsEnding(s, d, p)
  <1>1. /\ SameSc(s, r) /\ SamePc(s, r) /\ SameBook(s, r) /\ SameLine(s, r) /\ SameData(s, r)
        /\ SameEnding(s, r) /\ r.pending = s.pending /\ IsIdle(r)
        /\ r.said = IF s.dead THEN s.said ELSE IF s.conn.in THEN "in" ELSE "out"
    BY DEF IsReplied
  <1>2. CASE p /\ r.ending = "none"
    <2>1. IsCut(r, d)
      BY <1>2 DEF Dies
    <2>2. IsEnding(s, d, p)
      BY <1>1, <1>2, <2>1 DEF IsCut, IsEnding, SameEnding, SamePc
    <2> QED BY <1>1, <2>1, <2>2
            DEF IsCut, SameSc, SamePc, SameBook, SameLine, SameData
  <1>3. CASE ~(p /\ r.ending = "none")
    <2>1. d = r
      BY <1>3 DEF Dies
    <2>2. IsEnding(s, d, p)
      BY <1>1, <1>3, <2>1 DEF IsEnding, SameEnding, SamePc
    <2> QED BY <1>1, <2>1, <2>2
  <1> QED BY <1>2, <1>3

(* The parts of a call that ends, with its caller told.                     *)
LEMMA PartSettled ==
    ASSUME NEW s, NEW d, NEW e, NEW i, NEW v, NEW p,
           SameSc(s, d), SamePc(s, d), SameBook(s, d), SameLine(s, d), SameData(s, d),
           d.pending = s.pending, IsIdle(d),
           d.said = IF s.dead THEN s.said ELSE IF s.conn.in THEN "in" ELSE "out",
           IsEnding(s, d, p), IsSettled(d, e, i, v)
    PROVE  IsOver(s, e, i) /\ IsPassed(s, e, i, v) /\ IsEnding(s, e, p) /\ e.ledger = s.ledger
  <1>1. IsPassed(s, e, i, v)
    BY DEF IsSettled, IsPassed, SameLine
  <1>2. IsEnding(s, e, p)
    BY DEF IsSettled, IsEnding, SamePc, SameEnding
  <1>3. IsOver(s, e, i) /\ e.ledger = s.ledger
    BY DEF IsSettled, IsOver, SameSc, SamePc, SameBook, SameLine, SameData, SameBusy, IsIdle
  <1> QED BY <1>1, <1>2, <1>3

(* A call that ends, and its entry in the account.                          *)
LEMMA OverRecorded ==
    ASSUME NEW s, NEW e, NEW t, NEW i \in DOMAIN s.calls, NEW v, NEW p, e \in States, s \in States,
           IsOver(s, e, i), IsPassed(s, e, i, v), IsEnding(s, e, p), e.ledger = s.ledger,
           IsRecorded(e, t, i)
    PROVE  /\ IsOver(s, t, i) /\ IsPassed(s, t, i, v) /\ IsEnding(s, t, p)
           /\ t.ledger = Account(s.ledger, s.calls[i], i)
  <1>1. IsPassed(s, t, i, v)
    BY DEF IsRecorded, IsPassed, SameLine
  <1>2. IsEnding(s, t, p)
    BY DEF IsRecorded, IsEnding, SamePc, SameEnding
  <1>3. IsOver(s, t, i)
    BY DEF IsRecorded, IsOver, SameSc, SamePc, SameBook, SameLine, SameBusy, IsIdle
  <1>4. t.ledger = Account(s.ledger, e.calls[i], i)
    BY DEF IsRecorded
  <1>5. /\ e.calls[i].kind = s.calls[i].kind /\ e.calls[i].name = s.calls[i].name
        /\ e.calls[i].keep = s.calls[i].keep
    BY DEF IsOver, Kin
  <1>6. VerbOf(e.calls[i]) = VerbOf(s.calls[i])
    <2>1. e.calls[i] \in Call /\ s.calls[i] \in Call
      BY CallsAre DEF IsOver
    <2> QED BY <1>5, <2>1, VerbIs
  <1>7. Account(s.ledger, e.calls[i], i) = Account(s.ledger, s.calls[i], i)
    BY <1>5, <1>6 DEF Account
  <1> QED BY <1>1, <1>2, <1>3, <1>4, <1>7

(* The reply heard, and the call over.                                      *)
LEMMA RepliedSettled ==
    ASSUME NEW s, NEW r, IsReplied(s, r), NEW e, NEW i, NEW v, IsSettled(r, e, i, v)
    PROVE  IsOver(s, e, i) /\ IsPassed(s, e, i, v) /\ IsEnding(s, e, FALSE) /\ e.ledger = s.ledger
  <1>2. /\ SameSc(s, r) /\ SamePc(s, r) /\ SameBook(s, r) /\ SameLine(s, r) /\ SameData(s, r)
        /\ r.pending = s.pending /\ IsIdle(r)
        /\ r.said = IF s.dead THEN s.said ELSE IF s.conn.in THEN "in" ELSE "out"
    BY DEF IsReplied
  <1>3. IsEnding(s, r, FALSE)
    <2>1. SameEnding(s, r) /\ SamePc(s, r)
      BY DEF IsReplied
    <2> QED BY <2>1 DEF IsEnding, SameEnding, SamePc
  <1> QED BY <1>2, <1>3, PartSettled

(* The page's steps, as one relation.                                       *)
LEMMA HearsIs ==
    ASSUME TypeInv(x), HearCall
    PROVE  Hears(x, x') /\ TypeInv(x')
  <1> DEFINE i == x.busy.call
             c == x.calls[i]
  <1>1. /\ ~IsIdle(x) /\ x.busy.stage = "ended" /\ i \in DOMAIN x.calls /\ x \in States
        /\ \/ HearsLeft(x, x') \/ HearsStatement(x, x') \/ HearsRefusal(x, x')
           \/ HearsHalf(x, x') \/ HearsControl(x, x') \/ HearsEnding(x, x')
    BY HearCallIs DEF TypeInv
  <1>2. ASSUME HearsLeft(x, x') PROVE OversLeft(x, x', i)
    <2>1. PICK r \in States, d \in States : IsReplied(x, r) /\ Parts(r, d) /\ IsFreed(d, x', i)
      BY <1>2 DEF HearsLeft
    <2>2. /\ SameSc(x, d) /\ SamePc(x, d) /\ SameBook(x, d) /\ SameLine(x, d) /\ SameData(x, d)
          /\ d.pending = x.pending /\ IsIdle(d)
          /\ d.said = IF x.dead THEN x.said ELSE IF x.conn.in THEN "in" ELSE "out"
          /\ IsEnding(x, d, Departed(x))
      BY <2>1, RepliedPart
    <2>3. IsEnding(x, x', Departed(x))
      BY <2>1, <2>2 DEF IsFreed, IsEnding, SamePc, SameEnding
    <2>4. IsOver(x, x', i) /\ x'.ledger = x.ledger
      BY <2>1, <2>2
         DEF IsFreed, IsOver, SameSc, SamePc, SameBook, SameLine, SameData, SameBusy, IsIdle, Stepped
    <2>5. /\ x'.abandoned = IF x.abandoned = i THEN Nobody ELSE x.abandoned
          /\ x'.tail = x.tail
          /\ \A j \in DOMAIN x.calls :
                x'.calls[j].prior = x.calls[j].prior /\ x'.calls[j].told = x.calls[j].told
      BY <2>1, <2>2 DEF IsFreed, SameLine, Stepped
    <2>6. c.pc = "left"
      BY <1>2 DEF HearsLeft
    <2> QED BY <2>3, <2>4, <2>5, <2>6 DEF OversLeft
  <1>3. ASSUME HearsStatement(x, x') PROVE OversStatement(x, x', i)
    <2> DEFINE v == Verdict(c, x.busy)
    <2>1. PICK r \in States, d \in States, e \in States :
          /\ IsReplied(x, r) /\ Parts(r, d) /\ IsSettled(d, e, i, v)
          /\ IF v = "ok" /\ c.told = "nothing" THEN IsRecorded(e, x', i) ELSE x' = e
      BY <1>3 DEF HearsStatement
    <2>2. c.pc # "left" /\ Statement(c.kind)
      BY <1>3 DEF HearsStatement
    <2> HIDE DEF v
    <2>3. /\ SameSc(x, d) /\ SamePc(x, d) /\ SameBook(x, d) /\ SameLine(x, d) /\ SameData(x, d)
          /\ d.pending = x.pending /\ IsIdle(d)
          /\ d.said = IF x.dead THEN x.said ELSE IF x.conn.in THEN "in" ELSE "out"
          /\ IsEnding(x, d, Departed(x))
      BY <2>1, RepliedPart
    <2>4. IsOver(x, e, i) /\ IsPassed(x, e, i, v) /\ IsEnding(x, e, Departed(x)) /\ e.ledger = x.ledger
      BY <2>1, <2>3, PartSettled
    <2>5. CASE v = "ok" /\ c.told = "nothing"
      <3>1. IsRecorded(e, x', i)
        BY <2>1, <2>5
      <3>2. /\ IsOver(x, x', i) /\ IsPassed(x, x', i, v) /\ IsEnding(x, x', Departed(x))
            /\ x'.ledger = Account(x.ledger, c, i)
        BY <1>1, <2>4, <3>1, OverRecorded
      <3> QED BY <2>2, <2>5, <3>2 DEF OversStatement, v
    <2>6. CASE ~(v = "ok" /\ c.told = "nothing")
      <3>1. x' = e
        BY <2>1, <2>6
      <3> QED BY <2>2, <2>4, <2>6, <3>1 DEF OversStatement, v
    <2> QED BY <2>5, <2>6
  <1>4. ASSUME HearsRefusal(x, x') PROVE OversRefusal(x, x', i)
    <2> DEFINE p == c.kind \in SavepointVerbs
    <2>1. PICK r \in States, d \in States :
          /\ IsReplied(x, r) /\ (IF p THEN Dies(r, d) ELSE d = r)
          /\ IsSettled(d, x', i, "error")
      BY <1>4 DEF HearsRefusal
    <2>2. c.pc # "left" /\ ~Statement(c.kind) /\ x.busy.failed /\ p \in BOOLEAN
      BY <1>4 DEF HearsRefusal
    <2> HIDE DEF p
    <2>3. /\ SameSc(x, d) /\ SamePc(x, d) /\ SameBook(x, d) /\ SameLine(x, d) /\ SameData(x, d)
          /\ d.pending = x.pending /\ IsIdle(d)
          /\ d.said = IF x.dead THEN x.said ELSE IF x.conn.in THEN "in" ELSE "out"
          /\ IsEnding(x, d, p)
      BY <2>1, <2>2, RepliedDies
    <2>4. IsOver(x, x', i) /\ IsPassed(x, x', i, "error") /\ IsEnding(x, x', p) /\ x'.ledger = x.ledger
      BY <2>1, <2>3, PartSettled
    <2> QED BY <2>2, <2>4 DEF OversRefusal, p
  <1>6. ASSUME HearsHalf(x, x') PROVE OversHalf(x, x', i) \/ GoesOn(x, x', i)
    <2>1. PICK r \in States :
          /\ IsReplied(x, r)
          /\ IF x.ending # "none" THEN IsSettled(r, x', i, "closed") ELSE IsDropping(r, x', i)
      BY <1>6 DEF HearsHalf
    <2>2. ~x.busy.failed /\ c.kind = "rollbackTo" /\ ~c.keep /\ c.pc = "running"
      BY <1>6 DEF HearsHalf, Drops
    <2>3. CASE x.ending # "none"
      <3>1. /\ IsOver(x, x', i) /\ IsPassed(x, x', i, "closed") /\ IsEnding(x, x', FALSE)
            /\ x'.ledger = x.ledger
        BY <2>1, <2>3, RepliedSettled
      <3> QED BY <2>2, <2>3, <3>1 DEF OversHalf
    <2>4. CASE x.ending = "none"
      <3>1. IsDropping(r, x', i)
        BY <2>1, <2>4
      <3>2. /\ SameSc(x, r) /\ SamePc(x, r) /\ SameBook(x, r) /\ SameLine(x, r) /\ SameData(x, r)
            /\ SameEnding(x, r) /\ r.pending = x.pending
            /\ r.said = IF x.dead THEN x.said ELSE IF x.conn.in THEN "in" ELSE "out"
        BY <2>1 DEF IsReplied
      <3>3. GoesOn(x, x', i)
        BY <2>2, <2>4, <3>1, <3>2
           DEF IsDropping, GoesOn, SameSc, SamePc, SameBook, SameLine, SameData, SameEnding
      <3> QED BY <3>3
    <2>5. OversHalf(x, x', i) \/ GoesOn(x, x', i)
      BY <2>3, <2>4
    <2> QED BY <2>5
  <1>7. ASSUME HearsControl(x, x') PROVE OversControl(x, x', i)
    <2>1. PICK r \in States, e \in States :
          IsReplied(x, r) /\ IsSettled(r, e, i, "ok") /\ IsRecorded(e, x', i)
      BY <1>7 DEF HearsControl
    <2>2. IsOver(x, e, i) /\ IsPassed(x, e, i, "ok") /\ IsEnding(x, e, FALSE) /\ e.ledger = x.ledger
      BY <2>1, RepliedSettled
    <2>3. /\ IsOver(x, x', i) /\ IsPassed(x, x', i, "ok") /\ IsEnding(x, x', FALSE)
          /\ x'.ledger = Account(x.ledger, c, i)
      BY <1>1, <2>1, <2>2, OverRecorded, ZenonT(60)
    <2>4. c.pc # "left" /\ ~x.busy.failed /\ ~Drops(x, c) /\ c.kind \in SavepointVerbs
      BY <1>7 DEF HearsControl
    <2> QED BY <2>3, <2>4 DEF OversControl
  <1>8. ASSUME HearsEnding(x, x') PROVE OversEnding(x, x', i)
    <2> DEFINE g == IF c.kind = "commit" THEN "committed"
                    ELSE IF x.ending = "none" THEN "rolled-back" ELSE x.ending
    <2>1. PICK r \in States, e \in States :
          IsReplied(x, r) /\ IsSettled(r, e, i, "ok") /\ IsDone(e, x', g)
      BY <1>8 DEF HearsEnding
    <2>2. c.pc # "left" /\ ~x.busy.failed /\ c.kind \in {"commit", "rollback"}
      BY <1>8 DEF HearsEnding
    <2> HIDE DEF g
    <2>3. IsOver(x, e, i) /\ IsPassed(x, e, i, "ok") /\ IsEnding(x, e, FALSE) /\ e.ledger = x.ledger
      BY <2>1, RepliedSettled
    <2>4. IsPassed(x, x', i, "ok")
      BY <2>1, <2>3 DEF IsDone, IsPassed, SameLine
    <2>5. IsOver(x, x', i) /\ x'.ledger = x.ledger
      BY <2>1, <2>3 DEF IsDone, IsOver, SameSc, SameBook, SameLine, SameBusy, SameData, IsIdle
    <2>6. x'.done /\ (x'.cut = x.cut) /\ x'.ending = g
      <3>1. x'.done /\ x'.cut = e.cut /\ x'.ending = g /\ e \in States /\ x' \in States
        BY <2>1 DEF IsDone
      <3>2. e.cut = x.cut
        BY <1>1, <2>3, <3>1 DEF IsEnding, States
      <3> QED BY <3>1, <3>2
    <2> QED BY <2>2, <2>4, <2>5, <2>6 DEF OversEnding, g
  <1>9. Hears(x, x')
    <2>1. \/ OversLeft(x, x', i) \/ OversStatement(x, x', i) \/ OversRefusal(x, x', i)
          \/ OversHalf(x, x', i) \/ GoesOn(x, x', i) \/ OversControl(x, x', i)
          \/ OversEnding(x, x', i)
      BY <1>1, <1>2, <1>3, <1>4, <1>6, <1>7, <1>8
    <2> QED BY <1>1, <2>1 DEF Hears
  <1> QED BY <1>9, HearCallKeeps

(* A call that has a place in the queue, and one whose query is in flight.  *)
InLine(c) == c.pc \in {"waiting", "asking", "running", "delivering", "stopping",
                       "dropping"}

Working(c) == c.pc \in {"running", "delivering", "stopping", "dropping"}

(* q is the queue: who has a place, in the order of the places.  Only the   *)
(* first may have had its turn.                                             *)
QueueIs(s, q) ==
    /\ \A k, l \in DOMAIN q : q[k] = q[l] => k = l
    /\ \A k \in DOMAIN q : q[k] \in DOMAIN s.calls /\ InLine(s.calls[q[k]])
    /\ \A i \in DOMAIN s.calls : InLine(s.calls[i]) => \E k \in DOMAIN q : q[k] = i
    /\ \A k \in DOMAIN q :
          /\ s.calls[q[k]].prior = IF k = 1 THEN Nobody ELSE q[k - 1]
          /\ k # 1 => s.calls[q[k]].pc = "waiting"
    /\ s.ending = "none" => s.tail = IF Len(q) = 0 THEN Nobody ELSE q[Len(q)]

Queue(s) == \E q \in Seq(Calls) : QueueIs(s, q)

(* Whose query is in flight.                                                *)
Flight(s) ==
    /\ \A i \in DOMAIN s.calls :
          /\ Working(s.calls[i]) \/ s.calls[i].pc = "left" =>
                ~IsIdle(s) /\ s.busy.call = i
          /\ s.calls[i].pc = "left" => s.abandoned = i
          /\ s.calls[i].pc = "asking" =>
                /\ s.abandoned = Nobody
                /\ s.ending # "none" => s.cut
                /\ Asks(s, s.calls[i])
    /\ s.abandoned # Nobody => s.calls[s.abandoned].pc = "left"
    /\ ~IsIdle(s) /\ s.busy.call # 0 =>
          Working(s.calls[s.busy.call]) \/ s.calls[s.busy.call].pc = "left"

(* What the query in flight is.                                             *)
Carries(s) ==
    ~IsIdle(s) =>
        /\ s.busy.call = 0 =>
              /\ ~s.busy.open
              /\ s.busy.verb = "begin" <=> s.pc = "begin"
              /\ s.pc = "rolling" => s.busy.verb = "rollback"
        /\ s.busy.call # 0 =>
              LET c == s.calls[s.busy.call] IN
              /\ s.busy.verb = IF c.pc = "dropping" THEN "release" ELSE VerbOfKind(c.kind)
              /\ s.busy.name = c.name
              /\ s.busy.open => Statement(c.kind) /\ ~s.readOnly
              /\ s.busy.stage \in {"affected", "delivering"} => c.kind = "gen"
              /\ c.pc = "dropping" => c.kind = "rollbackTo" /\ ~c.keep
        /\ s.busy.verb = "begin" => s.busy.conclude = "none"

(* How far the transaction is.                                              *)
Stages(s) ==
    /\ s.cut => s.ending # "none"
    /\ ~s.begun => Len(s.calls) = 0
    /\ s.pc \in {"acquiring", "begin"} => ~s.begun
    /\ s.pc \in {"callback", "closing", "ready", "concluding", "rolling"} => s.begun
    /\ s.pc = "acquiring" => ~s.dead /\ s.pending = "none"
    /\ s.done => s.ending # "none" /\ IsIdle(s) /\ s.begun
    /\ s.pc \in {"ready", "concluding", "rolling"} => ~s.done
    /\ s.pc \in {"unwinding", "rolling", "finishing", "publishing", "released"}
          => s.ending # "none"
    /\ s.pc \in {"ready", "finishing", "publishing", "released"} => IsIdle(s)
    /\ s.ending = "none" =>
          \A i \in DOMAIN s.calls :
              s.calls[i].pc \in {"waiting", "asking", "running"} => s.pc = "callback"

(* Where the connection is, and what the page knows of it.                  *)
Connection(s) ==
    /\ s.dead => ~s.conn.in
    /\ ~s.dead /\ (IsIdle(s) \/ s.busy.stage = "posted") =>
          (s.said = "in" <=> s.conn.in)
    /\ ~s.begun => s.said = "out"
    /\ ~s.begun /\ s.conn.in =>
          ~IsIdle(s) /\ s.busy.verb = "begin" /\ ~s.busy.failed
    /\ s.done => ~s.conn.in
    /\ ~IsIdle(s) =>
          /\ s.dead => s.busy.failed
          /\ s.busy.failed => s.busy.stage = "ended"
          /\ s.busy.stage # "posted" /\ ~s.busy.failed /\ s.busy.verb \in {"commit", "rollback"} =>
                ~s.conn.in
    /\ s.pc \in {"finishing", "publishing", "released"} =>
          ~s.conn.in \/ s.poisoned \/ s.dead

Unbusy(s) == \A i \in DOMAIN s.calls : s.calls[i].told # "busy"

Steady(s) == s.sc.unawaited = {} /\ "last" \notin s.sc.faults

Inv(s) ==
    /\ TypeInv(s) /\ Steady(s)
    /\ Queue(s) /\ Flight(s) /\ Carries(s) /\ Stages(s) /\ Connection(s) /\ Unbusy(s)

(* What the queue says of its members.                                      *)
LEMMA QueueFirst ==
    ASSUME NEW s, TypeInv(s), Queue(s)
    PROVE  /\ \A i \in DOMAIN s.calls :
                 InLine(s.calls[i]) /\ s.calls[i].pc # "waiting" => s.calls[i].prior = Nobody
           /\ \A i \in DOMAIN s.calls, j \in DOMAIN s.calls :
                 /\ InLine(s.calls[i]) /\ s.calls[i].prior = Nobody
                 /\ InLine(s.calls[j]) /\ s.calls[j].prior = Nobody
                 => i = j
           /\ s.ending = "none" /\ s.tail = Nobody =>
                 \A i \in DOMAIN s.calls : ~InLine(s.calls[i])
  <1>1. PICK q \in Seq(Calls) : QueueIs(s, q)
    BY DEF Queue
  <1>2. /\ Len(q) \in Nat /\ DOMAIN q = 1 .. Len(q)
        /\ \A k \in 1 .. Len(q) : q[k] \in Calls
    OBVIOUS
  <1>3. \A k \in 1 .. Len(q) : q[k] # Nobody
    BY <1>2, TransactionAssumption DEF Calls, Nobody
  <1>4. \A k \in DOMAIN q : s.calls[q[k]].prior = Nobody => k = 1
    <2> SUFFICES ASSUME NEW k \in DOMAIN q, s.calls[q[k]].prior = Nobody, k # 1
                 PROVE  FALSE
      OBVIOUS
    <2>1. s.calls[q[k]].prior = q[k - 1]
      BY <1>1 DEF QueueIs
    <2>2. k - 1 \in 1 .. Len(q)
      BY <1>2
    <2> QED BY <1>3, <2>1, <2>2
  <1>5. \A i \in DOMAIN s.calls :
           InLine(s.calls[i]) /\ s.calls[i].pc # "waiting" => s.calls[i].prior = Nobody
    BY <1>1 DEF QueueIs
  <1>6. \A i \in DOMAIN s.calls, j \in DOMAIN s.calls :
           /\ InLine(s.calls[i]) /\ s.calls[i].prior = Nobody
           /\ InLine(s.calls[j]) /\ s.calls[j].prior = Nobody
           => i = j
    BY <1>1, <1>4 DEF QueueIs
  <1>7. s.ending = "none" /\ s.tail = Nobody =>
           \A i \in DOMAIN s.calls : ~InLine(s.calls[i])
    <2> SUFFICES ASSUME s.ending = "none", s.tail = Nobody
                 PROVE  \A i \in DOMAIN s.calls : ~InLine(s.calls[i])
      OBVIOUS
    <2>1. Len(q) = 0
      BY <1>1, <1>2, <1>3 DEF QueueIs
    <2>2. DOMAIN q = {}
      BY <1>2, <2>1
    <2> QED BY <1>1, <2>2 DEF QueueIs
  <1> QED BY <1>5, <1>6, <1>7

(* A step that leaves every place as it is.                                 *)
LEMMA QueueStays ==
    ASSUME NEW s, NEW t, Queue(s),
           DOMAIN t.calls = DOMAIN s.calls,
           \A j \in DOMAIN s.calls :
               /\ InLine(t.calls[j]) <=> InLine(s.calls[j])
               /\ InLine(s.calls[j]) => t.calls[j].prior = s.calls[j].prior
               /\ s.calls[j].pc = "waiting" /\ s.calls[j].prior # Nobody => t.calls[j].pc = "waiting",
           t.ending = "none" => s.ending = "none" /\ t.tail = s.tail
    PROVE  Queue(t)
  <1>1. PICK q \in Seq(Calls) : QueueIs(s, q)
    BY DEF Queue
  <1>2. /\ Len(q) \in Nat /\ DOMAIN q = 1 .. Len(q)
        /\ \A k \in 1 .. Len(q) : q[k] \in Calls
    OBVIOUS
  <1>3. \A k \in 1 .. Len(q) : q[k] # Nobody
    BY <1>2, TransactionAssumption DEF Calls, Nobody
  <1>4. \A k \in DOMAIN q : q[k] \in DOMAIN t.calls /\ InLine(t.calls[q[k]])
    BY <1>1 DEF QueueIs
  <1>5. \A i \in DOMAIN t.calls : InLine(t.calls[i]) => \E k \in DOMAIN q : q[k] = i
    BY <1>1 DEF QueueIs
  <1>6. ASSUME NEW k \in DOMAIN q
        PROVE  /\ t.calls[q[k]].prior = IF k = 1 THEN Nobody ELSE q[k - 1]
               /\ k # 1 => t.calls[q[k]].pc = "waiting"
    <2>1. /\ s.calls[q[k]].prior = IF k = 1 THEN Nobody ELSE q[k - 1]
          /\ k # 1 => s.calls[q[k]].pc = "waiting"
          /\ q[k] \in DOMAIN s.calls /\ InLine(s.calls[q[k]])
      BY <1>1 DEF QueueIs
    <2>2. k # 1 => k - 1 \in 1 .. Len(q)
      BY <1>2
    <2> QED BY <1>3, <2>1, <2>2
  <1>7. QueueIs(t, q)
    BY <1>1, <1>4, <1>5, <1>6 DEF QueueIs
  <1> QED BY <1>7 DEF Queue

(* A call is made, and has no place yet.                                    *)
LEMMA QueueMade ==
    ASSUME NEW s, NEW t, NEW c, TypeInv(s), TypeInv(t), Queue(s), IsMade(s, t, c), Fresh(c)
    PROVE  Queue(t)
  <1>1. PICK q \in Seq(Calls) : QueueIs(s, q)
    BY DEF Queue
  <1>2. /\ s.calls \in Seq(Call) /\ Len(s.calls) \in Nat /\ DOMAIN s.calls = 1 .. Len(s.calls)
    BY CallsAre DEF TypeInv
  <1>3. t.calls = Append(s.calls, c) /\ t.ending = s.ending /\ t.tail = s.tail
    BY DEF IsMade, SameEnding
  <1>4. /\ DOMAIN t.calls = 1 .. Len(s.calls) + 1
        /\ \A j \in DOMAIN s.calls : t.calls[j] = s.calls[j] /\ j \in DOMAIN t.calls
        /\ \A j \in DOMAIN t.calls : j \in DOMAIN s.calls \/ t.calls[j] = c
    BY <1>2, <1>3 DEF Fresh
  <1>5. ~InLine(c)
    BY DEF Fresh, InLine
  <1>6. QueueIs(t, q)
    BY <1>1, <1>3, <1>4, <1>5 DEF QueueIs
  <1> QED BY <1>6 DEF Queue

(* A call takes its place at the end.                                       *)
LEMMA QueuePlaced ==
    ASSUME NEW s, NEW t, NEW i \in DOMAIN s.calls, TypeInv(s), Queue(s), IsPlaced(s, t, i),
           s.ending = "none", ~InLine(s.calls[i])
    PROVE  Queue(t)
  <1>1. PICK q \in Seq(Calls) : QueueIs(s, q)
    BY DEF Queue
  <1>2. /\ Len(q) \in Nat /\ DOMAIN q = 1 .. Len(q)
        /\ \A k \in 1 .. Len(q) : q[k] \in Calls
    OBVIOUS
  <1>3. i \in Calls
    BY CallRange, TransactionAssumption DEF Calls
  <1> DEFINE p == Append(q, i)
  <1>4. /\ p \in Seq(Calls) /\ Len(p) = Len(q) + 1 /\ DOMAIN p = 1 .. Len(q) + 1
        /\ \A k \in 1 .. Len(q) : p[k] = q[k]
        /\ p[Len(q) + 1] = i
    BY <1>2, <1>3
  <1> HIDE DEF p
  <1>5. \A k \in DOMAIN q : q[k] # i
    BY <1>1 DEF QueueIs
  <1>6. /\ DOMAIN t.calls = DOMAIN s.calls /\ t.ending = s.ending /\ t.tail = i
        /\ InLine(t.calls[i]) /\ t.calls[i].prior = s.tail /\ t.calls[i].pc = "waiting"
        /\ \A j \in DOMAIN s.calls : j # i =>
              /\ InLine(t.calls[j]) <=> InLine(s.calls[j])
              /\ t.calls[j].prior = s.calls[j].prior
              /\ t.calls[j].pc = s.calls[j].pc
    BY DEF IsPlaced, SameEnding, InLine
  <1>7. \A k, l \in DOMAIN p : p[k] = p[l] => k = l
    BY <1>1, <1>2, <1>4, <1>5 DEF QueueIs
  <1>8. \A k \in DOMAIN p : p[k] \in DOMAIN t.calls /\ InLine(t.calls[p[k]])
    BY <1>1, <1>2, <1>4, <1>5, <1>6 DEF QueueIs
  <1>9. \A j \in DOMAIN t.calls : InLine(t.calls[j]) => \E k \in DOMAIN p : p[k] = j
    <2> SUFFICES ASSUME NEW j \in DOMAIN t.calls, InLine(t.calls[j])
                 PROVE  \E k \in DOMAIN p : p[k] = j
      OBVIOUS
    <2>1. CASE j = i
      BY <1>2, <1>4, <2>1
    <2>2. CASE j # i
      <3>1. PICK k \in DOMAIN q : q[k] = j
        BY <1>1, <1>6, <2>2 DEF QueueIs
      <3> QED BY <1>2, <1>4, <3>1
    <2> QED BY <2>1, <2>2
  <1>10. ASSUME NEW k \in DOMAIN p
         PROVE  /\ t.calls[p[k]].prior = IF k = 1 THEN Nobody ELSE p[k - 1]
                /\ k # 1 => t.calls[p[k]].pc = "waiting"
    <2>1. CASE k \in DOMAIN q
      <3>1. /\ s.calls[q[k]].prior = IF k = 1 THEN Nobody ELSE q[k - 1]
            /\ k # 1 => s.calls[q[k]].pc = "waiting"
            /\ q[k] \in DOMAIN s.calls
        BY <1>1, <2>1 DEF QueueIs
      <3>2. p[k] = q[k] /\ q[k] # i
        BY <1>2, <1>4, <1>5, <2>1
      <3>3. k # 1 => p[k - 1] = q[k - 1]
        BY <1>2, <1>4, <2>1
      <3> QED BY <1>6, <3>1, <3>2, <3>3
    <2>2. CASE k = Len(q) + 1
      <3>1. s.tail = IF Len(q) = 0 THEN Nobody ELSE q[Len(q)]
        BY <1>1 DEF QueueIs
      <3>2. Len(q) # 0 => p[k - 1] = q[Len(q)]
        BY <1>2, <1>4, <2>2
      <3> QED BY <1>2, <1>4, <1>6, <2>2, <3>1, <3>2
    <2> QED BY <1>2, <1>4, <2>1, <2>2
  <1>11. t.tail = IF Len(p) = 0 THEN Nobody ELSE p[Len(p)]
    BY <1>2, <1>4, <1>6
  <1>12. QueueIs(t, p)
    BY <1>7, <1>8, <1>9, <1>10, <1>11 DEF QueueIs
  <1> QED BY <1>4, <1>12 DEF Queue

(* A call gives its place up: the one after it waits for the one before.    *)
LEMMA QueueLeft ==
    ASSUME NEW s, NEW t, NEW i \in DOMAIN s.calls, TypeInv(s), Queue(s),
           InLine(s.calls[i]), ~InLine(t.calls[i]),
           DOMAIN t.calls = DOMAIN s.calls,
           \A j \in DOMAIN s.calls : j # i =>
               /\ t.calls[j].pc = s.calls[j].pc
               /\ t.calls[j].prior = IF s.calls[j].prior = i THEN s.calls[i].prior
                                     ELSE s.calls[j].prior,
           t.ending = "none" =>
               /\ s.ending = "none"
               /\ t.tail = IF s.tail = i THEN Nobody ELSE s.tail
               /\ s.calls[i].prior = Nobody \/ s.tail # i
    PROVE  Queue(t)
  <1>1. PICK q \in Seq(Calls) : QueueIs(s, q)
    BY DEF Queue
  <1>2. /\ Len(q) \in Nat /\ DOMAIN q = 1 .. Len(q)
        /\ \A k \in 1 .. Len(q) : q[k] \in Calls /\ q[k] # Nobody
    BY TransactionAssumption DEF Calls, Nobody
  <1>3. PICK p \in 1 .. Len(q) : q[p] = i
    BY <1>1, <1>2 DEF QueueIs
  <1> DEFINE n == Len(q) - 1
             r == [k \in 1 .. n |-> IF k < p THEN q[k] ELSE q[k + 1]]
  <1>4. /\ n \in Nat /\ r \in Seq(Calls) /\ Len(r) = n /\ DOMAIN r = 1 .. n
        /\ \A k \in 1 .. n : r[k] = IF k < p THEN q[k] ELSE q[k + 1]
    <2>1. n \in Nat
      BY <1>2, <1>3
    <2>2. \A k \in 1 .. n : (IF k < p THEN q[k] ELSE q[k + 1]) \in Calls
      BY <1>2, <1>3, <2>1
    <2>3. \A k \in 1 .. n : r[k] = IF k < p THEN q[k] ELSE q[k + 1]
      OBVIOUS
    <2>4. r = [k \in 1 .. n |-> r[k]]
      OBVIOUS
    <2> HIDE DEF n, r
    <2>5. \A k \in 1 .. n : r[k] \in Calls
      BY <2>2, <2>3
    <2>6. r \in Seq(Calls) /\ Len(r) = n /\ DOMAIN r = 1 .. n
      BY <2>1, <2>4, <2>5, TypeOfSeq
    <2> QED BY <2>1, <2>3, <2>6
  <1> HIDE DEF r
  <1>5. \A k \in 1 .. Len(q) : k # p => q[k] # i
    BY <1>1, <1>2, <1>3 DEF QueueIs
  <1>6. \A k \in 1 .. n : /\ k < p => k \in 1 .. Len(q) /\ k # p
                          /\ ~(k < p) => k + 1 \in 1 .. Len(q) /\ k + 1 # p
    BY <1>2, <1>3, <1>4
  <1>7. \A k \in 1 .. n : r[k] # i
    BY <1>4, <1>5, <1>6
  <1>8. \A k, l \in DOMAIN r : r[k] = r[l] => k = l
    <2>1. \A k, l \in 1 .. Len(q) : q[k] = q[l] => k = l
      BY <1>1, <1>2 DEF QueueIs
    <2> SUFFICES ASSUME NEW k \in 1 .. n, NEW l \in 1 .. n, r[k] = r[l]
                 PROVE  k = l
      BY <1>4
    <2>2. /\ r[k] = IF k < p THEN q[k] ELSE q[k + 1]
          /\ r[l] = IF l < p THEN q[l] ELSE q[l + 1]
      BY <1>4
    <2>3. k \in Nat /\ l \in Nat /\ p \in Nat
      BY <1>3, <1>4
    <2>4. CASE k < p /\ l < p
      BY <1>6, <2>1, <2>2, <2>4
    <2>5. CASE ~(k < p) /\ ~(l < p)
      <3>1. k + 1 = l + 1
        BY <1>6, <2>1, <2>2, <2>5
      <3> QED BY <2>3, <3>1
    <2>6. CASE k < p /\ ~(l < p)
      <3>1. k = l + 1
        BY <1>6, <2>1, <2>2, <2>6
      <3> QED BY <2>3, <2>6, <3>1
    <2>7. CASE ~(k < p) /\ l < p
      <3>1. k + 1 = l
        BY <1>6, <2>1, <2>2, <2>7
      <3> QED BY <2>3, <2>7, <3>1
    <2> QED BY <2>4, <2>5, <2>6, <2>7
  <1>9. \A j \in DOMAIN s.calls : j # i =>
           (InLine(t.calls[j]) <=> InLine(s.calls[j]))
    BY DEF InLine
  <1>10. \A k \in DOMAIN r : r[k] \in DOMAIN t.calls /\ InLine(t.calls[r[k]])
    <2>1. \A k \in 1 .. Len(q) : q[k] \in DOMAIN s.calls /\ InLine(s.calls[q[k]])
      BY <1>1, <1>2 DEF QueueIs
    <2> QED BY <1>4, <1>6, <1>7, <1>9, <2>1
  <1>11. \A j \in DOMAIN t.calls : InLine(t.calls[j]) => \E k \in DOMAIN r : r[k] = j
    <2> SUFFICES ASSUME NEW j \in DOMAIN t.calls, InLine(t.calls[j])
                 PROVE  \E k \in DOMAIN r : r[k] = j
      OBVIOUS
    <2>1. j # i /\ InLine(s.calls[j])
      BY <1>9
    <2>2. PICK k \in 1 .. Len(q) : q[k] = j
      BY <1>1, <1>2, <2>1 DEF QueueIs
    <2>3. k # p
      BY <1>3, <2>1, <2>2
    <2>4. CASE k < p
      <3>1. k \in 1 .. n /\ r[k] = j
        BY <1>2, <1>3, <1>4, <2>2, <2>4
      <3> QED BY <1>4, <3>1
    <2>5. CASE k > p
      <3>1. k - 1 \in 1 .. n /\ ~(k - 1 < p) /\ (k - 1) + 1 = k
        BY <1>2, <1>3, <2>2, <2>5
      <3>2. r[k - 1] = j
        BY <1>4, <2>2, <3>1
      <3> QED BY <1>4, <3>1, <3>2
    <2> QED BY <1>2, <1>3, <2>2, <2>3, <2>4, <2>5
  <1>12. ASSUME NEW k \in DOMAIN r
         PROVE  /\ t.calls[r[k]].prior = IF k = 1 THEN Nobody ELSE r[k - 1]
                /\ k # 1 => t.calls[r[k]].pc = "waiting"
    <2>1. \A l \in 1 .. Len(q) :
             /\ q[l] \in DOMAIN s.calls
             /\ s.calls[q[l]].prior = IF l = 1 THEN Nobody ELSE q[l - 1]
             /\ l # 1 => s.calls[q[l]].pc = "waiting"
      BY <1>1, <1>2 DEF QueueIs
    <2>2. k \in 1 .. n /\ r[k] # i
      BY <1>4, <1>7
    <2>3. CASE k < p
      <3>1. r[k] = q[k] /\ k \in 1 .. Len(q)
        BY <1>4, <1>6, <2>2, <2>3
      <3>2. k # 1 => r[k - 1] = q[k - 1] /\ q[k - 1] # i
        BY <1>2, <1>3, <1>4, <1>5, <2>2, <2>3
      <3>3. /\ s.calls[q[k]].prior = IF k = 1 THEN Nobody ELSE q[k - 1]
            /\ k # 1 => s.calls[q[k]].pc = "waiting"
            /\ q[k] \in DOMAIN s.calls
        BY <2>1, <3>1
      <3>4. s.calls[q[k]].prior # i
        BY <1>2, <3>1, <3>2, <3>3, CallRange DEF Nobody
      <3>5. t.calls[q[k]].prior = s.calls[q[k]].prior /\ t.calls[q[k]].pc = s.calls[q[k]].pc
        BY <2>2, <3>1, <3>3, <3>4
      <3> QED BY <3>1, <3>2, <3>3, <3>5
    <2>4. CASE k > p
      <3>1. r[k] = q[k + 1] /\ k + 1 \in 1 .. Len(q) /\ k \in 1 .. Len(q) /\ k # p /\ k + 1 # 1
        BY <1>2, <1>3, <1>4, <1>6, <2>2, <2>4
      <3>2. k # 1 /\ r[k - 1] = q[k] /\ q[k] # i
        BY <1>2, <1>3, <1>4, <1>5, <2>2, <2>4, <3>1
      <3>3. s.calls[q[k + 1]].prior = q[k] /\ s.calls[q[k + 1]].pc = "waiting" /\ q[k + 1] \in DOMAIN s.calls
        <4>1. (k + 1) - 1 = k
          BY <2>2
        <4> QED BY <2>1, <3>1, <4>1
      <3> QED BY <2>2, <3>1, <3>2, <3>3
    <2>5. CASE k = p
      <3>1. r[k] = q[p + 1] /\ p + 1 \in 1 .. Len(q) /\ p + 1 # 1
        BY <1>2, <1>3, <1>4, <1>6, <2>2, <2>5
      <3>2. s.calls[q[p + 1]].prior = i /\ s.calls[q[p + 1]].pc = "waiting" /\ q[p + 1] \in DOMAIN s.calls
        <4>1. (p + 1) - 1 = p
          BY <1>3
        <4> QED BY <1>3, <2>1, <3>1, <4>1
      <3>3. t.calls[r[k]].prior = s.calls[i].prior /\ t.calls[r[k]].pc = "waiting"
        BY <2>2, <3>1, <3>2
      <3>4. s.calls[i].prior = IF p = 1 THEN Nobody ELSE q[p - 1]
        BY <1>3, <2>1
      <3>5. p # 1 => r[k - 1] = q[p - 1]
        BY <1>3, <1>4, <2>2, <2>5
      <3> QED BY <2>5, <3>3, <3>4, <3>5
    <2> QED BY <1>3, <2>2, <2>3, <2>4, <2>5
  <1>13. t.ending = "none" => t.tail = IF Len(r) = 0 THEN Nobody ELSE r[Len(r)]
    <2> SUFFICES ASSUME t.ending = "none"
                 PROVE  t.tail = IF Len(r) = 0 THEN Nobody ELSE r[Len(r)]
      OBVIOUS
    <2>1. s.tail = q[Len(q)] /\ Len(q) \in 1 .. Len(q)
      BY <1>1, <1>2, <1>3 DEF QueueIs
    <2>2. CASE p = Len(q)
      <3>1. s.tail = i
        BY <1>3, <2>1, <2>2
      <3>2. s.calls[i].prior = Nobody
        BY <3>1
      <3>3. p = 1
        <4>1. s.calls[q[p]].prior = IF p = 1 THEN Nobody ELSE q[p - 1]
          BY <1>1, <1>2, <1>3 DEF QueueIs
        <4>2. p # 1 => p - 1 \in 1 .. Len(q)
          BY <1>2, <1>3
        <4> QED BY <1>2, <1>3, <3>2, <4>1, <4>2
      <3>4. Len(r) = 0
        BY <1>2, <1>4, <2>2, <3>3
      <3> QED BY <3>1, <3>4
    <2>3. CASE p # Len(q)
      <3>1. s.tail # i
        BY <1>5, <2>1, <2>3
      <3>2. n \in 1 .. n /\ ~(n < p) /\ n + 1 = Len(q)
        <4> DEFINE m == Len(q)
        <4>1. m \in Nat
          BY <1>2
        <4>2. p \in 1 .. m /\ p # m
          BY <1>3, <2>3
        <4> HIDE DEF m
        <4>3. m - 1 \in 1 .. m - 1 /\ ~(m - 1 < p) /\ (m - 1) + 1 = m
          BY <4>1, <4>2
        <4> QED BY <4>3 DEF m
      <3>3. r[n] = q[Len(q)] /\ Len(r) # 0 /\ Len(r) = n
        BY <1>4, <3>2
      <3> QED BY <2>1, <3>1, <3>3
    <2> QED BY <2>2, <2>3
  <1>14. QueueIs(t, r)
    BY <1>8, <1>10, <1>11, <1>12, <1>13 DEF QueueIs
  <1> QED BY <1>4, <1>14 DEF Queue

(* A call is made. *)
LEMMA InvMade ==
    ASSUME NEW s, NEW t, NEW c \in Call, Inv(s), TypeInv(t),
           IsMade(s, t, c), Fresh(c), s.begun
    PROVE  Inv(t)
  <1>1. /\ TypeInv(s) /\ Steady(s) /\ Queue(s) /\ Flight(s) /\ Carries(s) /\ Stages(s)
        /\ Connection(s) /\ Unbusy(s)
    BY DEF Inv
  <1>2. /\ DOMAIN s.calls = 1 .. Len(s.calls) /\ Len(s.calls) \in Nat
        /\ DOMAIN t.calls = 1 .. Len(t.calls) /\ Len(t.calls) \in Nat
        /\ s \in States /\ t \in States
    BY <1>1, CallRange
  <1>r. /\ ~IsIdle(s) /\ s.busy.call # 0 => s.busy.call \in DOMAIN s.calls
        /\ s.abandoned # Nobody => s.abandoned \in DOMAIN s.calls
        /\ ~IsIdle(s) => s.busy.call \in 0 .. Len(s.calls)
        /\ s.pc \in Own <=> ~IsIdle(s) /\ s.busy.call = 0
    BY <1>1, <1>2 DEF TypeInv, OwnFlight, Bounds, Nobody
  <1>a. /\ t.calls = Append(s.calls, c) /\ s.calls \in Seq(Call)
        /\ Len(t.calls) = Len(s.calls) + 1
        /\ \A j \in DOMAIN s.calls : t.calls[j] = s.calls[j] /\ j \in DOMAIN t.calls
        /\ \A j \in DOMAIN t.calls : j \in DOMAIN s.calls \/ t.calls[j] = c
    <2>1. s.calls \in Seq(Call) /\ t.calls = Append(s.calls, c)
      BY <1>1, CallsAre DEF TypeInv, IsMade
    <2> QED BY <1>2, <2>1
  <1>b. /\ ~IsIdle(s) => s.busy.call \in 0 .. Len(s.calls)
        /\ s.abandoned \in 0 .. Len(s.calls)
    BY <1>1 DEF TypeInv, OwnFlight, Bounds
  <1>3. Steady(t)
    BY <1>1, <1>2, <1>r, <1>a, <1>b DEF IsMade, Fresh, SameSc, SamePc, SameEnding, SameBook, SameLine, SameBusy, SameData, Steady
  <1>4. Queue(t)
    BY <1>1, QueueMade
  <1>5. Flight(t)
    <2>1. ASSUME NEW j \in DOMAIN t.calls
          PROVE  Working(t.calls[j]) \/ t.calls[j].pc = "left" =>
                    ~IsIdle(t) /\ t.busy.call = j
      BY <1>1, <1>2, <1>r, <1>a, <1>b DEF IsMade, Fresh, SameSc, SamePc, SameEnding, SameBook, SameLine, SameBusy, SameData, Flight, Working, Asks, Stepped, Kin, SameQuery, IsIdle
    <2>2. ASSUME NEW j \in DOMAIN t.calls, t.calls[j].pc = "left"
          PROVE  t.abandoned = j
      BY <1>1, <1>2, <1>r, <1>a, <1>b, <2>2 DEF IsMade, Fresh, SameSc, SamePc, SameEnding, SameBook, SameLine, SameBusy, SameData, Flight, Working, Asks, Stepped, Kin, SameQuery, IsIdle
    <2>3. ASSUME NEW j \in DOMAIN t.calls, t.calls[j].pc = "asking"
          PROVE  t.abandoned = Nobody /\ (t.ending # "none" => t.cut) /\ Asks(t, t.calls[j])
      BY <1>1, <1>2, <1>r, <1>a, <1>b, <2>3 DEF IsMade, Fresh, SameSc, SamePc, SameEnding, SameBook, SameLine, SameBusy, SameData, Flight, Working, Asks, Stepped, Kin, SameQuery, IsIdle
    <2>4. t.abandoned # Nobody => t.calls[t.abandoned].pc = "left"
      BY <1>1, <1>2, <1>r, <1>a, <1>b DEF IsMade, Fresh, SameSc, SamePc, SameEnding, SameBook, SameLine, SameBusy, SameData, Flight, Working, Asks, Stepped, Kin, SameQuery, IsIdle
    <2>5. ~IsIdle(t) /\ t.busy.call # 0 =>
             Working(t.calls[t.busy.call]) \/ t.calls[t.busy.call].pc = "left"
      BY <1>1, <1>2, <1>r, <1>a, <1>b DEF IsMade, Fresh, SameSc, SamePc, SameEnding, SameBook, SameLine, SameBusy, SameData, Flight, Working, Asks, Stepped, Kin, SameQuery, IsIdle
    <2> QED BY <2>1, <2>2, <2>3, <2>4, <2>5 DEF Flight
  <1>6. Carries(t)
    <2> SUFFICES ASSUME ~IsIdle(t)
                 PROVE  Carries(t)
      BY DEF Carries
    <2>1. t.busy.call = 0 =>
              /\ ~t.busy.open
              /\ t.busy.verb = "begin" <=> t.pc = "begin"
              /\ t.pc = "rolling" => t.busy.verb = "rollback"
      BY <1>1, <1>2, <1>r, <1>a, <1>b DEF IsMade, Fresh, SameSc, SamePc, SameEnding, SameBook, SameLine, SameBusy, SameData, Carries, VerbOfKind, Kin, SameQuery, Stepped, IsIdle
    <2>2. t.busy.call # 0 =>
              /\ t.busy.verb = IF t.calls[t.busy.call].pc = "dropping" THEN "release"
                              ELSE VerbOfKind(t.calls[t.busy.call].kind)
              /\ t.busy.name = t.calls[t.busy.call].name
      BY <1>1, <1>2, <1>r, <1>a, <1>b, SMTT(30) DEF IsMade, Fresh, SameSc, SamePc, SameEnding, SameBook, SameLine, SameBusy, SameData, Carries, VerbOfKind, Kin, SameQuery, Stepped, IsIdle
    <2>3. t.busy.call # 0 =>
              /\ t.busy.open => Statement(t.calls[t.busy.call].kind) /\ ~t.readOnly
              /\ t.busy.stage \in {"affected", "delivering"} => t.calls[t.busy.call].kind = "gen"
              /\ t.calls[t.busy.call].pc = "dropping" =>
                    t.calls[t.busy.call].kind = "rollbackTo" /\ ~t.calls[t.busy.call].keep
      BY <1>1, <1>2, <1>r, <1>a, <1>b, SMTT(30) DEF IsMade, Fresh, SameSc, SamePc, SameEnding, SameBook, SameLine, SameBusy, SameData, Carries, VerbOfKind, Kin, SameQuery, Stepped, IsIdle
    <2>4. t.busy.verb = "begin" => t.busy.conclude = "none"
      BY <1>1, <1>2, <1>r, <1>a, <1>b DEF IsMade, Fresh, SameSc, SamePc, SameEnding, SameBook, SameLine, SameBusy, SameData, Carries, VerbOfKind, Kin, SameQuery, Stepped, IsIdle
    <2> QED BY <2>1, <2>2, <2>3, <2>4 DEF Carries
  <1>7. Stages(t)
    BY <1>1, <1>2, <1>r, <1>a, <1>b DEF IsMade, Fresh, SameSc, SamePc, SameEnding, SameBook, SameLine, SameBusy, SameData, Stages, Stepped, IsIdle
  <1>8. Connection(t)
    BY <1>1, <1>2, <1>r, <1>a, <1>b DEF IsMade, Fresh, SameSc, SamePc, SameEnding, SameBook, SameLine, SameBusy, SameData, Connection, SameQuery, IsIdle, Stepped
  <1>9. Unbusy(t)
    BY <1>1, <1>2, <1>r, <1>a, <1>b DEF IsMade, Fresh, SameSc, SamePc, SameEnding, SameBook, SameLine, SameBusy, SameData, Unbusy, Stepped
  <1> QED BY <1>3, <1>4, <1>5, <1>6, <1>7, <1>8, <1>9 DEF Inv

(* It takes its place. *)
LEMMA InvPlaced ==
    ASSUME NEW s, NEW t, NEW i \in DOMAIN s.calls, Inv(s), TypeInv(t),
           IsPlaced(s, t, i), s.calls[i].pc = "fresh", s.ending = "none", s.pc = "callback"
    PROVE  Inv(t)
  <1>1. /\ TypeInv(s) /\ Steady(s) /\ Queue(s) /\ Flight(s) /\ Carries(s) /\ Stages(s)
        /\ Connection(s) /\ Unbusy(s)
    BY DEF Inv
  <1>2. /\ DOMAIN s.calls = 1 .. Len(s.calls) /\ Len(s.calls) \in Nat
        /\ DOMAIN t.calls = 1 .. Len(t.calls) /\ Len(t.calls) \in Nat
        /\ s \in States /\ t \in States
    BY <1>1, CallRange
  <1>r. /\ ~IsIdle(s) /\ s.busy.call # 0 => s.busy.call \in DOMAIN s.calls
        /\ s.abandoned # Nobody => s.abandoned \in DOMAIN s.calls
        /\ ~IsIdle(s) => s.busy.call \in 0 .. Len(s.calls)
        /\ s.pc \in Own <=> ~IsIdle(s) /\ s.busy.call = 0
    BY <1>1, <1>2 DEF TypeInv, OwnFlight, Bounds, Nobody
  <1>3. Steady(t)
    BY <1>1, <1>2, <1>r DEF IsPlaced, SameSc, SamePc, SameEnding, SameBook, SameLine, SameBusy, SameData, Steady
  <1>4. Queue(t)
    BY <1>1, QueuePlaced DEF InLine
  <1>5. Flight(t)
    <2>1. ASSUME NEW j \in DOMAIN t.calls
          PROVE  Working(t.calls[j]) \/ t.calls[j].pc = "left" =>
                    ~IsIdle(t) /\ t.busy.call = j
      BY <1>1, <1>2, <1>r DEF IsPlaced, SameSc, SamePc, SameEnding, SameBook, SameLine, SameBusy, SameData, Flight, Working, Asks, Stepped, Kin, SameQuery, IsIdle
    <2>2. ASSUME NEW j \in DOMAIN t.calls, t.calls[j].pc = "left"
          PROVE  t.abandoned = j
      BY <1>1, <1>2, <1>r, <2>2 DEF IsPlaced, SameSc, SamePc, SameEnding, SameBook, SameLine, SameBusy, SameData, Flight, Working, Asks, Stepped, Kin, SameQuery, IsIdle
    <2>3. ASSUME NEW j \in DOMAIN t.calls, t.calls[j].pc = "asking"
          PROVE  t.abandoned = Nobody /\ (t.ending # "none" => t.cut) /\ Asks(t, t.calls[j])
      BY <1>1, <1>2, <1>r, <2>3 DEF IsPlaced, SameSc, SamePc, SameEnding, SameBook, SameLine, SameBusy, SameData, Flight, Working, Asks, Stepped, Kin, SameQuery, IsIdle
    <2>4. t.abandoned # Nobody => t.calls[t.abandoned].pc = "left"
      BY <1>1, <1>2, <1>r DEF IsPlaced, SameSc, SamePc, SameEnding, SameBook, SameLine, SameBusy, SameData, Flight, Working, Asks, Stepped, Kin, SameQuery, IsIdle
    <2>5. ~IsIdle(t) /\ t.busy.call # 0 =>
             Working(t.calls[t.busy.call]) \/ t.calls[t.busy.call].pc = "left"
      BY <1>1, <1>2, <1>r DEF IsPlaced, SameSc, SamePc, SameEnding, SameBook, SameLine, SameBusy, SameData, Flight, Working, Asks, Stepped, Kin, SameQuery, IsIdle
    <2> QED BY <2>1, <2>2, <2>3, <2>4, <2>5 DEF Flight
  <1>6. Carries(t)
    <2> SUFFICES ASSUME ~IsIdle(t)
                 PROVE  Carries(t)
      BY DEF Carries
    <2>1. t.busy.call = 0 =>
              /\ ~t.busy.open
              /\ t.busy.verb = "begin" <=> t.pc = "begin"
              /\ t.pc = "rolling" => t.busy.verb = "rollback"
      BY <1>1, <1>2, <1>r DEF IsPlaced, SameSc, SamePc, SameEnding, SameBook, SameLine, SameBusy, SameData, Carries, VerbOfKind, Kin, SameQuery, Stepped, IsIdle
    <2>2. t.busy.call # 0 =>
              /\ t.busy.verb = IF t.calls[t.busy.call].pc = "dropping" THEN "release"
                              ELSE VerbOfKind(t.calls[t.busy.call].kind)
              /\ t.busy.name = t.calls[t.busy.call].name
      BY <1>1, <1>2, <1>r, SMTT(30) DEF IsPlaced, SameSc, SamePc, SameEnding, SameBook, SameLine, SameBusy, SameData, Carries, VerbOfKind, Kin, SameQuery, Stepped, IsIdle
    <2>3. t.busy.call # 0 =>
              /\ t.busy.open => Statement(t.calls[t.busy.call].kind) /\ ~t.readOnly
              /\ t.busy.stage \in {"affected", "delivering"} => t.calls[t.busy.call].kind = "gen"
              /\ t.calls[t.busy.call].pc = "dropping" =>
                    t.calls[t.busy.call].kind = "rollbackTo" /\ ~t.calls[t.busy.call].keep
      BY <1>1, <1>2, <1>r, SMTT(30) DEF IsPlaced, SameSc, SamePc, SameEnding, SameBook, SameLine, SameBusy, SameData, Carries, VerbOfKind, Kin, SameQuery, Stepped, IsIdle
    <2>4. t.busy.verb = "begin" => t.busy.conclude = "none"
      BY <1>1, <1>2, <1>r DEF IsPlaced, SameSc, SamePc, SameEnding, SameBook, SameLine, SameBusy, SameData, Carries, VerbOfKind, Kin, SameQuery, Stepped, IsIdle
    <2> QED BY <2>1, <2>2, <2>3, <2>4 DEF Carries
  <1>7. Stages(t)
    BY <1>1, <1>2, <1>r DEF IsPlaced, SameSc, SamePc, SameEnding, SameBook, SameLine, SameBusy, SameData, Stages, Stepped, IsIdle
  <1>8. Connection(t)
    BY <1>1, <1>2, <1>r DEF IsPlaced, SameSc, SamePc, SameEnding, SameBook, SameLine, SameBusy, SameData, Connection, SameQuery, IsIdle, Stepped
  <1>9. Unbusy(t)
    BY <1>1, <1>2, <1>r DEF IsPlaced, SameSc, SamePc, SameEnding, SameBook, SameLine, SameBusy, SameData, Unbusy, Stepped
  <1> QED BY <1>3, <1>4, <1>5, <1>6, <1>7, <1>8, <1>9 DEF Inv

(* It asks for a verdict. *)
LEMMA InvAsking ==
    ASSUME NEW s, NEW t, NEW i \in DOMAIN s.calls, Inv(s), TypeInv(t),
           IsMoved(s, t, i, "asking"), s.calls[i].pc = "waiting", s.calls[i].prior = Nobody,
           s.ending = "none", s.abandoned = Nobody, Asks(s, s.calls[i])
    PROVE  Inv(t)
  <1>1. /\ TypeInv(s) /\ Steady(s) /\ Queue(s) /\ Flight(s) /\ Carries(s) /\ Stages(s)
        /\ Connection(s) /\ Unbusy(s)
    BY DEF Inv
  <1>2. /\ DOMAIN s.calls = 1 .. Len(s.calls) /\ Len(s.calls) \in Nat
        /\ DOMAIN t.calls = 1 .. Len(t.calls) /\ Len(t.calls) \in Nat
        /\ s \in States /\ t \in States
    BY <1>1, CallRange
  <1>r. /\ ~IsIdle(s) /\ s.busy.call # 0 => s.busy.call \in DOMAIN s.calls
        /\ s.abandoned # Nobody => s.abandoned \in DOMAIN s.calls
        /\ ~IsIdle(s) => s.busy.call \in 0 .. Len(s.calls)
        /\ s.pc \in Own <=> ~IsIdle(s) /\ s.busy.call = 0
    BY <1>1, <1>2 DEF TypeInv, OwnFlight, Bounds, Nobody
  <1>3. Steady(t)
    BY <1>1, <1>2, <1>r DEF IsMoved, SameSc, SamePc, SameEnding, SameBook, SameLine, SameBusy, SameData, Steady
  <1>4. Queue(t)
    BY <1>1, <1>2, <1>r, QueueStays DEF IsMoved, SameSc, SamePc, SameEnding, SameBook, SameLine, SameBusy, SameData, InLine, Stepped
  <1>5. Flight(t)
    <2>1. ASSUME NEW j \in DOMAIN t.calls
          PROVE  Working(t.calls[j]) \/ t.calls[j].pc = "left" =>
                    ~IsIdle(t) /\ t.busy.call = j
      BY <1>1, <1>2, <1>r DEF IsMoved, SameSc, SamePc, SameEnding, SameBook, SameLine, SameBusy, SameData, Flight, Working, Asks, Stepped, Kin, SameQuery, IsIdle
    <2>2. ASSUME NEW j \in DOMAIN t.calls, t.calls[j].pc = "left"
          PROVE  t.abandoned = j
      BY <1>1, <1>2, <1>r, <2>2 DEF IsMoved, SameSc, SamePc, SameEnding, SameBook, SameLine, SameBusy, SameData, Flight, Working, Asks, Stepped, Kin, SameQuery, IsIdle
    <2>3. ASSUME NEW j \in DOMAIN t.calls, t.calls[j].pc = "asking"
          PROVE  t.abandoned = Nobody /\ (t.ending # "none" => t.cut) /\ Asks(t, t.calls[j])
      BY <1>1, <1>2, <1>r, <2>3 DEF IsMoved, SameSc, SamePc, SameEnding, SameBook, SameLine, SameBusy, SameData, Flight, Working, Asks, Stepped, Kin, SameQuery, IsIdle
    <2>4. t.abandoned # Nobody => t.calls[t.abandoned].pc = "left"
      BY <1>1, <1>2, <1>r DEF IsMoved, SameSc, SamePc, SameEnding, SameBook, SameLine, SameBusy, SameData, Flight, Working, Asks, Stepped, Kin, SameQuery, IsIdle
    <2>5. ~IsIdle(t) /\ t.busy.call # 0 =>
             Working(t.calls[t.busy.call]) \/ t.calls[t.busy.call].pc = "left"
      BY <1>1, <1>2, <1>r DEF IsMoved, SameSc, SamePc, SameEnding, SameBook, SameLine, SameBusy, SameData, Flight, Working, Asks, Stepped, Kin, SameQuery, IsIdle
    <2> QED BY <2>1, <2>2, <2>3, <2>4, <2>5 DEF Flight
  <1>6. Carries(t)
    <2> SUFFICES ASSUME ~IsIdle(t)
                 PROVE  Carries(t)
      BY DEF Carries
    <2>1. t.busy.call = 0 =>
              /\ ~t.busy.open
              /\ t.busy.verb = "begin" <=> t.pc = "begin"
              /\ t.pc = "rolling" => t.busy.verb = "rollback"
      BY <1>1, <1>2, <1>r DEF IsMoved, SameSc, SamePc, SameEnding, SameBook, SameLine, SameBusy, SameData, Carries, VerbOfKind, Kin, SameQuery, Stepped, IsIdle
    <2>2. t.busy.call # 0 =>
              /\ t.busy.verb = IF t.calls[t.busy.call].pc = "dropping" THEN "release"
                              ELSE VerbOfKind(t.calls[t.busy.call].kind)
              /\ t.busy.name = t.calls[t.busy.call].name
      BY <1>1, <1>2, <1>r, SMTT(30) DEF IsMoved, SameSc, SamePc, SameEnding, SameBook, SameLine, SameBusy, SameData, Carries, VerbOfKind, Kin, SameQuery, Stepped, IsIdle
    <2>3. t.busy.call # 0 =>
              /\ t.busy.open => Statement(t.calls[t.busy.call].kind) /\ ~t.readOnly
              /\ t.busy.stage \in {"affected", "delivering"} => t.calls[t.busy.call].kind = "gen"
              /\ t.calls[t.busy.call].pc = "dropping" =>
                    t.calls[t.busy.call].kind = "rollbackTo" /\ ~t.calls[t.busy.call].keep
      BY <1>1, <1>2, <1>r, SMTT(30) DEF IsMoved, SameSc, SamePc, SameEnding, SameBook, SameLine, SameBusy, SameData, Carries, VerbOfKind, Kin, SameQuery, Stepped, IsIdle
    <2>4. t.busy.verb = "begin" => t.busy.conclude = "none"
      BY <1>1, <1>2, <1>r DEF IsMoved, SameSc, SamePc, SameEnding, SameBook, SameLine, SameBusy, SameData, Carries, VerbOfKind, Kin, SameQuery, Stepped, IsIdle
    <2> QED BY <2>1, <2>2, <2>3, <2>4 DEF Carries
  <1>7. Stages(t)
    BY <1>1, <1>2, <1>r DEF IsMoved, SameSc, SamePc, SameEnding, SameBook, SameLine, SameBusy, SameData, Stages, Stepped, IsIdle
  <1>8. Connection(t)
    BY <1>1, <1>2, <1>r DEF IsMoved, SameSc, SamePc, SameEnding, SameBook, SameLine, SameBusy, SameData, Connection, SameQuery, IsIdle, Stepped
  <1>9. Unbusy(t)
    BY <1>1, <1>2, <1>r DEF IsMoved, SameSc, SamePc, SameEnding, SameBook, SameLine, SameBusy, SameData, Unbusy, Stepped
  <1> QED BY <1>3, <1>4, <1>5, <1>6, <1>7, <1>8, <1>9 DEF Inv

(* Its query goes out. *)
LEMMA InvRun ==
    ASSUME NEW s, NEW t, NEW i \in DOMAIN s.calls, NEW open \in BOOLEAN, Inv(s), TypeInv(t),
           IsRun(s, t, i, open), s.calls[i].pc \in {"waiting", "asking"}, s.calls[i].prior = Nobody,
           s.ending = "none", s.abandoned = Nobody, IsIdle(s), ~s.dead,
           open => Statement(s.calls[i].kind) /\ ~s.readOnly
    PROVE  Inv(t)
  <1>1. /\ TypeInv(s) /\ Steady(s) /\ Queue(s) /\ Flight(s) /\ Carries(s) /\ Stages(s)
        /\ Connection(s) /\ Unbusy(s)
    BY DEF Inv
  <1>2. /\ DOMAIN s.calls = 1 .. Len(s.calls) /\ Len(s.calls) \in Nat
        /\ DOMAIN t.calls = 1 .. Len(t.calls) /\ Len(t.calls) \in Nat
        /\ s \in States /\ t \in States
    BY <1>1, CallRange
  <1>r. /\ ~IsIdle(s) /\ s.busy.call # 0 => s.busy.call \in DOMAIN s.calls
        /\ s.abandoned # Nobody => s.abandoned \in DOMAIN s.calls
        /\ ~IsIdle(s) => s.busy.call \in 0 .. Len(s.calls)
        /\ s.pc \in Own <=> ~IsIdle(s) /\ s.busy.call = 0
    BY <1>1, <1>2 DEF TypeInv, OwnFlight, Bounds, Nobody
  <1>a. VerbOf(s.calls[i]) = VerbOfKind(s.calls[i].kind) /\ s.calls[i].kind \in CallKinds
    BY <1>2, CallsAre, VerbIs DEF Call
  <1>b. i # 0 /\ t.busy.call = i /\ ~IsIdle(t)
    BY <1>1, CallRange DEF IsRun
  <1>d. t.busy.verb # "begin"
    BY <1>a DEF IsRun, VerbOfKind, CallKinds
  <1>c. \A j \in DOMAIN s.calls : s.calls[j].pc # "asking" \/ j = i
    <2>1. \A j \in DOMAIN s.calls : s.calls[j].pc = "asking" => InLine(s.calls[j])
      BY DEF InLine
    <2>2. InLine(s.calls[i])
      BY DEF InLine
    <2> QED BY <1>1, <2>1, <2>2, QueueFirst
  <1>3. Steady(t)
    BY <1>1, <1>2, <1>r, <1>a, <1>b, <1>d, <1>c DEF IsRun, SameSc, SamePc, SameEnding, SameBook, SameLine, SameBusy, SameData, Steady
  <1>4. Queue(t)
    BY <1>1, <1>2, <1>r, <1>a, <1>b, <1>d, <1>c, QueueStays DEF IsRun, SameSc, SamePc, SameEnding, SameBook, SameLine, SameBusy, SameData, InLine, Stepped
  <1>5. Flight(t)
    <2>1. ASSUME NEW j \in DOMAIN t.calls
          PROVE  Working(t.calls[j]) \/ t.calls[j].pc = "left" =>
                    ~IsIdle(t) /\ t.busy.call = j
      BY <1>1, <1>2, <1>r, <1>a, <1>b, <1>d, <1>c DEF IsRun, SameSc, SamePc, SameEnding, SameBook, SameLine, SameBusy, SameData, Flight, Working, Asks, Stepped, Kin, SameQuery, IsIdle
    <2>2. ASSUME NEW j \in DOMAIN t.calls, t.calls[j].pc = "left"
          PROVE  t.abandoned = j
      BY <1>1, <1>2, <1>r, <1>a, <1>b, <1>d, <1>c, <2>2 DEF IsRun, SameSc, SamePc, SameEnding, SameBook, SameLine, SameBusy, SameData, Flight, Working, Asks, Stepped, Kin, SameQuery, IsIdle
    <2>3. ASSUME NEW j \in DOMAIN t.calls, t.calls[j].pc = "asking"
          PROVE  t.abandoned = Nobody /\ (t.ending # "none" => t.cut) /\ Asks(t, t.calls[j])
      BY <1>1, <1>2, <1>r, <1>a, <1>b, <1>d, <1>c, <2>3 DEF IsRun, SameSc, SamePc, SameEnding, SameBook, SameLine, SameBusy, SameData, Flight, Working, Asks, Stepped, Kin, SameQuery, IsIdle
    <2>4. t.abandoned # Nobody => t.calls[t.abandoned].pc = "left"
      BY <1>1, <1>2, <1>r, <1>a, <1>b, <1>d, <1>c DEF IsRun, SameSc, SamePc, SameEnding, SameBook, SameLine, SameBusy, SameData, Flight, Working, Asks, Stepped, Kin, SameQuery, IsIdle
    <2>5. ~IsIdle(t) /\ t.busy.call # 0 =>
             Working(t.calls[t.busy.call]) \/ t.calls[t.busy.call].pc = "left"
      BY <1>1, <1>2, <1>r, <1>a, <1>b, <1>d, <1>c DEF IsRun, SameSc, SamePc, SameEnding, SameBook, SameLine, SameBusy, SameData, Flight, Working, Asks, Stepped, Kin, SameQuery, IsIdle
    <2> QED BY <2>1, <2>2, <2>3, <2>4, <2>5 DEF Flight
  <1>6. Carries(t)
    <2> SUFFICES ASSUME ~IsIdle(t)
                 PROVE  Carries(t)
      BY DEF Carries
    <2>1. t.busy.call = 0 =>
              /\ ~t.busy.open
              /\ t.busy.verb = "begin" <=> t.pc = "begin"
              /\ t.pc = "rolling" => t.busy.verb = "rollback"
      BY <1>1, <1>2, <1>r, <1>a, <1>b, <1>d, <1>c DEF IsRun, SameSc, SamePc, SameEnding, SameBook, SameLine, SameBusy, SameData, Carries, VerbOfKind, Kin, SameQuery, Stepped, IsIdle
    <2>2. t.busy.call # 0 =>
              /\ t.busy.verb = IF t.calls[t.busy.call].pc = "dropping" THEN "release"
                              ELSE VerbOfKind(t.calls[t.busy.call].kind)
              /\ t.busy.name = t.calls[t.busy.call].name
      BY <1>1, <1>2, <1>r, <1>a, <1>b, <1>d, <1>c, SMTT(30) DEF IsRun, SameSc, SamePc, SameEnding, SameBook, SameLine, SameBusy, SameData, Carries, VerbOfKind, Kin, SameQuery, Stepped, IsIdle
    <2>3. t.busy.call # 0 =>
              /\ t.busy.open => Statement(t.calls[t.busy.call].kind) /\ ~t.readOnly
              /\ t.busy.stage \in {"affected", "delivering"} => t.calls[t.busy.call].kind = "gen"
              /\ t.calls[t.busy.call].pc = "dropping" =>
                    t.calls[t.busy.call].kind = "rollbackTo" /\ ~t.calls[t.busy.call].keep
      BY <1>1, <1>2, <1>r, <1>a, <1>b, <1>d, <1>c, SMTT(30) DEF IsRun, SameSc, SamePc, SameEnding, SameBook, SameLine, SameBusy, SameData, Carries, VerbOfKind, Kin, SameQuery, Stepped, IsIdle
    <2>4. t.busy.verb = "begin" => t.busy.conclude = "none"
      BY <1>1, <1>2, <1>r, <1>a, <1>b, <1>d, <1>c DEF IsRun, SameSc, SamePc, SameEnding, SameBook, SameLine, SameBusy, SameData, Carries, VerbOfKind, Kin, SameQuery, Stepped, IsIdle
    <2> QED BY <2>1, <2>2, <2>3, <2>4 DEF Carries
  <1>7. Stages(t)
    BY <1>1, <1>2, <1>r, <1>a, <1>b, <1>d, <1>c DEF IsRun, SameSc, SamePc, SameEnding, SameBook, SameLine, SameBusy, SameData, Stages, Stepped, IsIdle
  <1>8. Connection(t)
    BY <1>1, <1>2, <1>r, <1>a, <1>b, <1>d, <1>c DEF IsRun, SameSc, SamePc, SameEnding, SameBook, SameLine, SameBusy, SameData, Connection, SameQuery, IsIdle, Stepped
  <1>9. Unbusy(t)
    BY <1>1, <1>2, <1>r, <1>a, <1>b, <1>d, <1>c DEF IsRun, SameSc, SamePc, SameEnding, SameBook, SameLine, SameBusy, SameData, Unbusy, Stepped
  <1> QED BY <1>3, <1>4, <1>5, <1>6, <1>7, <1>8, <1>9 DEF Inv

(* A call that waits, or asks, gives its place up. *)
LEMMA InvGivesUp ==
    ASSUME NEW s, NEW t, NEW i \in DOMAIN s.calls, NEW v \in Tellings, Inv(s), TypeInv(t),
           IsSettled(s, t, i, v), s.calls[i].pc \in {"waiting", "asking"}, v # "busy",
           s.ending # "none" \/ s.calls[i].prior = Nobody \/ s.tail # i
    PROVE  Inv(t)
  <1>1. /\ TypeInv(s) /\ Steady(s) /\ Queue(s) /\ Flight(s) /\ Carries(s) /\ Stages(s)
        /\ Connection(s) /\ Unbusy(s)
    BY DEF Inv
  <1>2. /\ DOMAIN s.calls = 1 .. Len(s.calls) /\ Len(s.calls) \in Nat
        /\ DOMAIN t.calls = 1 .. Len(t.calls) /\ Len(t.calls) \in Nat
        /\ s \in States /\ t \in States
    BY <1>1, CallRange
  <1>r. /\ ~IsIdle(s) /\ s.busy.call # 0 => s.busy.call \in DOMAIN s.calls
        /\ s.abandoned # Nobody => s.abandoned \in DOMAIN s.calls
        /\ ~IsIdle(s) => s.busy.call \in 0 .. Len(s.calls)
        /\ s.pc \in Own <=> ~IsIdle(s) /\ s.busy.call = 0
    BY <1>1, <1>2 DEF TypeInv, OwnFlight, Bounds, Nobody
  <1>3. Steady(t)
    BY <1>1, <1>2, <1>r DEF IsSettled, SameSc, SamePc, SameEnding, SameBook, SameLine, SameBusy, SameData, Steady
  <1>4. Queue(t)
    <2>1. InLine(s.calls[i]) /\ ~InLine(t.calls[i])
      BY DEF InLine, IsSettled
    <2> QED BY <1>1, <1>2, <2>1, QueueLeft DEF IsSettled, SameEnding
  <1>5. Flight(t)
    <2>1. ASSUME NEW j \in DOMAIN t.calls
          PROVE  Working(t.calls[j]) \/ t.calls[j].pc = "left" =>
                    ~IsIdle(t) /\ t.busy.call = j
      BY <1>1, <1>2, <1>r DEF IsSettled, SameSc, SamePc, SameEnding, SameBook, SameLine, SameBusy, SameData, Flight, Working, Asks, Stepped, Kin, SameQuery, IsIdle
    <2>2. ASSUME NEW j \in DOMAIN t.calls, t.calls[j].pc = "left"
          PROVE  t.abandoned = j
      BY <1>1, <1>2, <1>r, <2>2 DEF IsSettled, SameSc, SamePc, SameEnding, SameBook, SameLine, SameBusy, SameData, Flight, Working, Asks, Stepped, Kin, SameQuery, IsIdle
    <2>3. ASSUME NEW j \in DOMAIN t.calls, t.calls[j].pc = "asking"
          PROVE  t.abandoned = Nobody /\ (t.ending # "none" => t.cut) /\ Asks(t, t.calls[j])
      BY <1>1, <1>2, <1>r, <2>3 DEF IsSettled, SameSc, SamePc, SameEnding, SameBook, SameLine, SameBusy, SameData, Flight, Working, Asks, Stepped, Kin, SameQuery, IsIdle
    <2>4. t.abandoned # Nobody => t.calls[t.abandoned].pc = "left"
      BY <1>1, <1>2, <1>r DEF IsSettled, SameSc, SamePc, SameEnding, SameBook, SameLine, SameBusy, SameData, Flight, Working, Asks, Stepped, Kin, SameQuery, IsIdle
    <2>5. ~IsIdle(t) /\ t.busy.call # 0 =>
             Working(t.calls[t.busy.call]) \/ t.calls[t.busy.call].pc = "left"
      BY <1>1, <1>2, <1>r DEF IsSettled, SameSc, SamePc, SameEnding, SameBook, SameLine, SameBusy, SameData, Flight, Working, Asks, Stepped, Kin, SameQuery, IsIdle
    <2> QED BY <2>1, <2>2, <2>3, <2>4, <2>5 DEF Flight
  <1>6. Carries(t)
    <2> SUFFICES ASSUME ~IsIdle(t)
                 PROVE  Carries(t)
      BY DEF Carries
    <2>1. t.busy.call = 0 =>
              /\ ~t.busy.open
              /\ t.busy.verb = "begin" <=> t.pc = "begin"
              /\ t.pc = "rolling" => t.busy.verb = "rollback"
      BY <1>1, <1>2, <1>r DEF IsSettled, SameSc, SamePc, SameEnding, SameBook, SameLine, SameBusy, SameData, Carries, VerbOfKind, Kin, SameQuery, Stepped, IsIdle
    <2>2. t.busy.call # 0 =>
              /\ t.busy.verb = IF t.calls[t.busy.call].pc = "dropping" THEN "release"
                              ELSE VerbOfKind(t.calls[t.busy.call].kind)
              /\ t.busy.name = t.calls[t.busy.call].name
      BY <1>1, <1>2, <1>r, SMTT(30) DEF IsSettled, SameSc, SamePc, SameEnding, SameBook, SameLine, SameBusy, SameData, Carries, VerbOfKind, Kin, SameQuery, Stepped, IsIdle
    <2>3. t.busy.call # 0 =>
              /\ t.busy.open => Statement(t.calls[t.busy.call].kind) /\ ~t.readOnly
              /\ t.busy.stage \in {"affected", "delivering"} => t.calls[t.busy.call].kind = "gen"
              /\ t.calls[t.busy.call].pc = "dropping" =>
                    t.calls[t.busy.call].kind = "rollbackTo" /\ ~t.calls[t.busy.call].keep
      BY <1>1, <1>2, <1>r, SMTT(30) DEF IsSettled, SameSc, SamePc, SameEnding, SameBook, SameLine, SameBusy, SameData, Carries, VerbOfKind, Kin, SameQuery, Stepped, IsIdle
    <2>4. t.busy.verb = "begin" => t.busy.conclude = "none"
      BY <1>1, <1>2, <1>r DEF IsSettled, SameSc, SamePc, SameEnding, SameBook, SameLine, SameBusy, SameData, Carries, VerbOfKind, Kin, SameQuery, Stepped, IsIdle
    <2> QED BY <2>1, <2>2, <2>3, <2>4 DEF Carries
  <1>7. Stages(t)
    BY <1>1, <1>2, <1>r DEF IsSettled, SameSc, SamePc, SameEnding, SameBook, SameLine, SameBusy, SameData, Stages, Stepped, IsIdle
  <1>8. Connection(t)
    BY <1>1, <1>2, <1>r DEF IsSettled, SameSc, SamePc, SameEnding, SameBook, SameLine, SameBusy, SameData, Connection, SameQuery, IsIdle, Stepped
  <1>9. Unbusy(t)
    BY <1>1, <1>2, <1>r DEF IsSettled, SameSc, SamePc, SameEnding, SameBook, SameLine, SameBusy, SameData, Unbusy, Stepped
  <1> QED BY <1>3, <1>4, <1>5, <1>6, <1>7, <1>8, <1>9 DEF Inv

(* The transaction is cut. *)
LEMMA InvCut ==
    ASSUME NEW s, NEW t, Inv(s), TypeInv(t),
           IsCut(s, t)
    PROVE  Inv(t)
  <1>1. /\ TypeInv(s) /\ Steady(s) /\ Queue(s) /\ Flight(s) /\ Carries(s) /\ Stages(s)
        /\ Connection(s) /\ Unbusy(s)
    BY DEF Inv
  <1>2. /\ DOMAIN s.calls = 1 .. Len(s.calls) /\ Len(s.calls) \in Nat
        /\ DOMAIN t.calls = 1 .. Len(t.calls) /\ Len(t.calls) \in Nat
        /\ s \in States /\ t \in States
    BY <1>1, CallRange
  <1>r. /\ ~IsIdle(s) /\ s.busy.call # 0 => s.busy.call \in DOMAIN s.calls
        /\ s.abandoned # Nobody => s.abandoned \in DOMAIN s.calls
        /\ ~IsIdle(s) => s.busy.call \in 0 .. Len(s.calls)
        /\ s.pc \in Own <=> ~IsIdle(s) /\ s.busy.call = 0
    BY <1>1, <1>2 DEF TypeInv, OwnFlight, Bounds, Nobody
  <1>3. Steady(t)
    BY <1>1, <1>2, <1>r DEF IsCut, SameSc, SamePc, SameEnding, SameBook, SameLine, SameBusy, SameData, Steady
  <1>4. Queue(t)
    BY <1>1, <1>2, <1>r, QueueStays DEF IsCut, SameSc, SamePc, SameEnding, SameBook, SameLine, SameBusy, SameData, InLine, Stepped
  <1>5. Flight(t)
    <2>1. ASSUME NEW j \in DOMAIN t.calls
          PROVE  Working(t.calls[j]) \/ t.calls[j].pc = "left" =>
                    ~IsIdle(t) /\ t.busy.call = j
      BY <1>1, <1>2, <1>r DEF IsCut, SameSc, SamePc, SameEnding, SameBook, SameLine, SameBusy, SameData, Flight, Working, Asks, Stepped, Kin, SameQuery, IsIdle
    <2>2. ASSUME NEW j \in DOMAIN t.calls, t.calls[j].pc = "left"
          PROVE  t.abandoned = j
      BY <1>1, <1>2, <1>r, <2>2 DEF IsCut, SameSc, SamePc, SameEnding, SameBook, SameLine, SameBusy, SameData, Flight, Working, Asks, Stepped, Kin, SameQuery, IsIdle
    <2>3. ASSUME NEW j \in DOMAIN t.calls, t.calls[j].pc = "asking"
          PROVE  t.abandoned = Nobody /\ (t.ending # "none" => t.cut) /\ Asks(t, t.calls[j])
      BY <1>1, <1>2, <1>r, <2>3 DEF IsCut, SameSc, SamePc, SameEnding, SameBook, SameLine, SameBusy, SameData, Flight, Working, Asks, Stepped, Kin, SameQuery, IsIdle
    <2>4. t.abandoned # Nobody => t.calls[t.abandoned].pc = "left"
      BY <1>1, <1>2, <1>r DEF IsCut, SameSc, SamePc, SameEnding, SameBook, SameLine, SameBusy, SameData, Flight, Working, Asks, Stepped, Kin, SameQuery, IsIdle
    <2>5. ~IsIdle(t) /\ t.busy.call # 0 =>
             Working(t.calls[t.busy.call]) \/ t.calls[t.busy.call].pc = "left"
      BY <1>1, <1>2, <1>r DEF IsCut, SameSc, SamePc, SameEnding, SameBook, SameLine, SameBusy, SameData, Flight, Working, Asks, Stepped, Kin, SameQuery, IsIdle
    <2> QED BY <2>1, <2>2, <2>3, <2>4, <2>5 DEF Flight
  <1>6. Carries(t)
    <2> SUFFICES ASSUME ~IsIdle(t)
                 PROVE  Carries(t)
      BY DEF Carries
    <2>1. t.busy.call = 0 =>
              /\ ~t.busy.open
              /\ t.busy.verb = "begin" <=> t.pc = "begin"
              /\ t.pc = "rolling" => t.busy.verb = "rollback"
      BY <1>1, <1>2, <1>r DEF IsCut, SameSc, SamePc, SameEnding, SameBook, SameLine, SameBusy, SameData, Carries, VerbOfKind, Kin, SameQuery, Stepped, IsIdle
    <2>2. t.busy.call # 0 =>
              /\ t.busy.verb = IF t.calls[t.busy.call].pc = "dropping" THEN "release"
                              ELSE VerbOfKind(t.calls[t.busy.call].kind)
              /\ t.busy.name = t.calls[t.busy.call].name
      BY <1>1, <1>2, <1>r, SMTT(30) DEF IsCut, SameSc, SamePc, SameEnding, SameBook, SameLine, SameBusy, SameData, Carries, VerbOfKind, Kin, SameQuery, Stepped, IsIdle
    <2>3. t.busy.call # 0 =>
              /\ t.busy.open => Statement(t.calls[t.busy.call].kind) /\ ~t.readOnly
              /\ t.busy.stage \in {"affected", "delivering"} => t.calls[t.busy.call].kind = "gen"
              /\ t.calls[t.busy.call].pc = "dropping" =>
                    t.calls[t.busy.call].kind = "rollbackTo" /\ ~t.calls[t.busy.call].keep
      BY <1>1, <1>2, <1>r, SMTT(30) DEF IsCut, SameSc, SamePc, SameEnding, SameBook, SameLine, SameBusy, SameData, Carries, VerbOfKind, Kin, SameQuery, Stepped, IsIdle
    <2>4. t.busy.verb = "begin" => t.busy.conclude = "none"
      BY <1>1, <1>2, <1>r DEF IsCut, SameSc, SamePc, SameEnding, SameBook, SameLine, SameBusy, SameData, Carries, VerbOfKind, Kin, SameQuery, Stepped, IsIdle
    <2> QED BY <2>1, <2>2, <2>3, <2>4 DEF Carries
  <1>7. Stages(t)
    BY <1>1, <1>2, <1>r DEF IsCut, SameSc, SamePc, SameEnding, SameBook, SameLine, SameBusy, SameData, Stages, Stepped, IsIdle
  <1>8. Connection(t)
    BY <1>1, <1>2, <1>r DEF IsCut, SameSc, SamePc, SameEnding, SameBook, SameLine, SameBusy, SameData, Connection, SameQuery, IsIdle, Stepped
  <1>9. Unbusy(t)
    BY <1>1, <1>2, <1>r DEF IsCut, SameSc, SamePc, SameEnding, SameBook, SameLine, SameBusy, SameData, Unbusy, Stepped
  <1> QED BY <1>3, <1>4, <1>5, <1>6, <1>7, <1>8, <1>9 DEF Inv

(* The invariant, when the transaction dies.                                *)
LEMMA InvDies ==
    ASSUME NEW s, NEW t, Inv(s), Dies(s, t)
    PROVE  Inv(t)
  <1>1. CASE s.ending = "none"
    <2>1. IsCut(s, t)
      BY <1>1 DEF Dies
    <2>2. TypeInv(t)
      BY <2>1, TypeCut DEF Inv
    <2> QED BY <2>1, <2>2, InvCut
  <1>2. CASE s.ending # "none"
    BY <1>2 DEF Dies
  <1> QED BY <1>1, <1>2

(* A stop reaches the query in flight. *)
LEMMA InvStopped ==
    ASSUME NEW s, NEW t, Inv(s), TypeInv(t),
           ~IsIdle(s), IsStopped(s, t)
    PROVE  Inv(t)
  <1>1. /\ TypeInv(s) /\ Steady(s) /\ Queue(s) /\ Flight(s) /\ Carries(s) /\ Stages(s)
        /\ Connection(s) /\ Unbusy(s)
    BY DEF Inv
  <1>2. /\ DOMAIN s.calls = 1 .. Len(s.calls) /\ Len(s.calls) \in Nat
        /\ DOMAIN t.calls = 1 .. Len(t.calls) /\ Len(t.calls) \in Nat
        /\ s \in States /\ t \in States
    BY <1>1, CallRange
  <1>r. /\ ~IsIdle(s) /\ s.busy.call # 0 => s.busy.call \in DOMAIN s.calls
        /\ s.abandoned # Nobody => s.abandoned \in DOMAIN s.calls
        /\ ~IsIdle(s) => s.busy.call \in 0 .. Len(s.calls)
        /\ s.pc \in Own <=> ~IsIdle(s) /\ s.busy.call = 0
    BY <1>1, <1>2 DEF TypeInv, OwnFlight, Bounds, Nobody
  <1>3. Steady(t)
    BY <1>1, <1>2, <1>r DEF IsStopped, SameSc, SamePc, SameEnding, SameBook, SameLine, SameBusy, SameData, Steady
  <1>4. Queue(t)
    BY <1>1, <1>2, <1>r, QueueStays DEF IsStopped, SameSc, SamePc, SameEnding, SameBook, SameLine, SameBusy, SameData, InLine, Stepped
  <1>5. Flight(t)
    <2>1. ASSUME NEW j \in DOMAIN t.calls
          PROVE  Working(t.calls[j]) \/ t.calls[j].pc = "left" =>
                    ~IsIdle(t) /\ t.busy.call = j
      BY <1>1, <1>2, <1>r DEF IsStopped, SameSc, SamePc, SameEnding, SameBook, SameLine, SameBusy, SameData, Flight, Working, Asks, Stepped, Kin, SameQuery, IsIdle
    <2>2. ASSUME NEW j \in DOMAIN t.calls, t.calls[j].pc = "left"
          PROVE  t.abandoned = j
      BY <1>1, <1>2, <1>r, <2>2 DEF IsStopped, SameSc, SamePc, SameEnding, SameBook, SameLine, SameBusy, SameData, Flight, Working, Asks, Stepped, Kin, SameQuery, IsIdle
    <2>3. ASSUME NEW j \in DOMAIN t.calls, t.calls[j].pc = "asking"
          PROVE  t.abandoned = Nobody /\ (t.ending # "none" => t.cut) /\ Asks(t, t.calls[j])
      BY <1>1, <1>2, <1>r, <2>3 DEF IsStopped, SameSc, SamePc, SameEnding, SameBook, SameLine, SameBusy, SameData, Flight, Working, Asks, Stepped, Kin, SameQuery, IsIdle
    <2>4. t.abandoned # Nobody => t.calls[t.abandoned].pc = "left"
      BY <1>1, <1>2, <1>r DEF IsStopped, SameSc, SamePc, SameEnding, SameBook, SameLine, SameBusy, SameData, Flight, Working, Asks, Stepped, Kin, SameQuery, IsIdle
    <2>5. ~IsIdle(t) /\ t.busy.call # 0 =>
             Working(t.calls[t.busy.call]) \/ t.calls[t.busy.call].pc = "left"
      BY <1>1, <1>2, <1>r DEF IsStopped, SameSc, SamePc, SameEnding, SameBook, SameLine, SameBusy, SameData, Flight, Working, Asks, Stepped, Kin, SameQuery, IsIdle
    <2> QED BY <2>1, <2>2, <2>3, <2>4, <2>5 DEF Flight
  <1>6. Carries(t)
    <2> SUFFICES ASSUME ~IsIdle(t)
                 PROVE  Carries(t)
      BY DEF Carries
    <2>1. t.busy.call = 0 =>
              /\ ~t.busy.open
              /\ t.busy.verb = "begin" <=> t.pc = "begin"
              /\ t.pc = "rolling" => t.busy.verb = "rollback"
      BY <1>1, <1>2, <1>r DEF IsStopped, SameSc, SamePc, SameEnding, SameBook, SameLine, SameBusy, SameData, Carries, VerbOfKind, Kin, SameQuery, Stepped, IsIdle
    <2>2. t.busy.call # 0 =>
              /\ t.busy.verb = IF t.calls[t.busy.call].pc = "dropping" THEN "release"
                              ELSE VerbOfKind(t.calls[t.busy.call].kind)
              /\ t.busy.name = t.calls[t.busy.call].name
      BY <1>1, <1>2, <1>r, SMTT(30) DEF IsStopped, SameSc, SamePc, SameEnding, SameBook, SameLine, SameBusy, SameData, Carries, VerbOfKind, Kin, SameQuery, Stepped, IsIdle
    <2>3. t.busy.call # 0 =>
              /\ t.busy.open => Statement(t.calls[t.busy.call].kind) /\ ~t.readOnly
              /\ t.busy.stage \in {"affected", "delivering"} => t.calls[t.busy.call].kind = "gen"
              /\ t.calls[t.busy.call].pc = "dropping" =>
                    t.calls[t.busy.call].kind = "rollbackTo" /\ ~t.calls[t.busy.call].keep
      BY <1>1, <1>2, <1>r, SMTT(30) DEF IsStopped, SameSc, SamePc, SameEnding, SameBook, SameLine, SameBusy, SameData, Carries, VerbOfKind, Kin, SameQuery, Stepped, IsIdle
    <2>4. t.busy.verb = "begin" => t.busy.conclude = "none"
      BY <1>1, <1>2, <1>r DEF IsStopped, SameSc, SamePc, SameEnding, SameBook, SameLine, SameBusy, SameData, Carries, VerbOfKind, Kin, SameQuery, Stepped, IsIdle
    <2> QED BY <2>1, <2>2, <2>3, <2>4 DEF Carries
  <1>7. Stages(t)
    BY <1>1, <1>2, <1>r DEF IsStopped, SameSc, SamePc, SameEnding, SameBook, SameLine, SameBusy, SameData, Stages, Stepped, IsIdle
  <1>8. Connection(t)
    BY <1>1, <1>2, <1>r DEF IsStopped, SameSc, SamePc, SameEnding, SameBook, SameLine, SameBusy, SameData, Connection, SameQuery, IsIdle, Stepped
  <1>9. Unbusy(t)
    BY <1>1, <1>2, <1>r DEF IsStopped, SameSc, SamePc, SameEnding, SameBook, SameLine, SameBusy, SameData, Unbusy, Stepped
  <1> QED BY <1>3, <1>4, <1>5, <1>6, <1>7, <1>8, <1>9 DEF Inv

(* The caller is told when it has stopped. *)
LEMMA InvStopping ==
    ASSUME NEW s, NEW t, NEW i \in DOMAIN s.calls, Inv(s), TypeInv(t),
           IsMoved(s, t, i, "stopping"), s.calls[i].pc = "running"
    PROVE  Inv(t)
  <1>1. /\ TypeInv(s) /\ Steady(s) /\ Queue(s) /\ Flight(s) /\ Carries(s) /\ Stages(s)
        /\ Connection(s) /\ Unbusy(s)
    BY DEF Inv
  <1>2. /\ DOMAIN s.calls = 1 .. Len(s.calls) /\ Len(s.calls) \in Nat
        /\ DOMAIN t.calls = 1 .. Len(t.calls) /\ Len(t.calls) \in Nat
        /\ s \in States /\ t \in States
    BY <1>1, CallRange
  <1>r. /\ ~IsIdle(s) /\ s.busy.call # 0 => s.busy.call \in DOMAIN s.calls
        /\ s.abandoned # Nobody => s.abandoned \in DOMAIN s.calls
        /\ ~IsIdle(s) => s.busy.call \in 0 .. Len(s.calls)
        /\ s.pc \in Own <=> ~IsIdle(s) /\ s.busy.call = 0
    BY <1>1, <1>2 DEF TypeInv, OwnFlight, Bounds, Nobody
  <1>3. Steady(t)
    BY <1>1, <1>2, <1>r DEF IsMoved, SameSc, SamePc, SameEnding, SameBook, SameLine, SameBusy, SameData, Steady
  <1>4. Queue(t)
    BY <1>1, <1>2, <1>r, QueueStays DEF IsMoved, SameSc, SamePc, SameEnding, SameBook, SameLine, SameBusy, SameData, InLine, Stepped
  <1>5. Flight(t)
    <2>1. ASSUME NEW j \in DOMAIN t.calls
          PROVE  Working(t.calls[j]) \/ t.calls[j].pc = "left" =>
                    ~IsIdle(t) /\ t.busy.call = j
      BY <1>1, <1>2, <1>r DEF IsMoved, SameSc, SamePc, SameEnding, SameBook, SameLine, SameBusy, SameData, Flight, Working, Asks, Stepped, Kin, SameQuery, IsIdle
    <2>2. ASSUME NEW j \in DOMAIN t.calls, t.calls[j].pc = "left"
          PROVE  t.abandoned = j
      BY <1>1, <1>2, <1>r, <2>2 DEF IsMoved, SameSc, SamePc, SameEnding, SameBook, SameLine, SameBusy, SameData, Flight, Working, Asks, Stepped, Kin, SameQuery, IsIdle
    <2>3. ASSUME NEW j \in DOMAIN t.calls, t.calls[j].pc = "asking"
          PROVE  t.abandoned = Nobody /\ (t.ending # "none" => t.cut) /\ Asks(t, t.calls[j])
      BY <1>1, <1>2, <1>r, <2>3 DEF IsMoved, SameSc, SamePc, SameEnding, SameBook, SameLine, SameBusy, SameData, Flight, Working, Asks, Stepped, Kin, SameQuery, IsIdle
    <2>4. t.abandoned # Nobody => t.calls[t.abandoned].pc = "left"
      BY <1>1, <1>2, <1>r DEF IsMoved, SameSc, SamePc, SameEnding, SameBook, SameLine, SameBusy, SameData, Flight, Working, Asks, Stepped, Kin, SameQuery, IsIdle
    <2>5. ~IsIdle(t) /\ t.busy.call # 0 =>
             Working(t.calls[t.busy.call]) \/ t.calls[t.busy.call].pc = "left"
      BY <1>1, <1>2, <1>r DEF IsMoved, SameSc, SamePc, SameEnding, SameBook, SameLine, SameBusy, SameData, Flight, Working, Asks, Stepped, Kin, SameQuery, IsIdle
    <2> QED BY <2>1, <2>2, <2>3, <2>4, <2>5 DEF Flight
  <1>6. Carries(t)
    <2> SUFFICES ASSUME ~IsIdle(t)
                 PROVE  Carries(t)
      BY DEF Carries
    <2>1. t.busy.call = 0 =>
              /\ ~t.busy.open
              /\ t.busy.verb = "begin" <=> t.pc = "begin"
              /\ t.pc = "rolling" => t.busy.verb = "rollback"
      BY <1>1, <1>2, <1>r DEF IsMoved, SameSc, SamePc, SameEnding, SameBook, SameLine, SameBusy, SameData, Carries, VerbOfKind, Kin, SameQuery, Stepped, IsIdle
    <2>2. t.busy.call # 0 =>
              /\ t.busy.verb = IF t.calls[t.busy.call].pc = "dropping" THEN "release"
                              ELSE VerbOfKind(t.calls[t.busy.call].kind)
              /\ t.busy.name = t.calls[t.busy.call].name
      BY <1>1, <1>2, <1>r, SMTT(30) DEF IsMoved, SameSc, SamePc, SameEnding, SameBook, SameLine, SameBusy, SameData, Carries, VerbOfKind, Kin, SameQuery, Stepped, IsIdle
    <2>3. t.busy.call # 0 =>
              /\ t.busy.open => Statement(t.calls[t.busy.call].kind) /\ ~t.readOnly
              /\ t.busy.stage \in {"affected", "delivering"} => t.calls[t.busy.call].kind = "gen"
              /\ t.calls[t.busy.call].pc = "dropping" =>
                    t.calls[t.busy.call].kind = "rollbackTo" /\ ~t.calls[t.busy.call].keep
      BY <1>1, <1>2, <1>r, SMTT(30) DEF IsMoved, SameSc, SamePc, SameEnding, SameBook, SameLine, SameBusy, SameData, Carries, VerbOfKind, Kin, SameQuery, Stepped, IsIdle
    <2>4. t.busy.verb = "begin" => t.busy.conclude = "none"
      BY <1>1, <1>2, <1>r DEF IsMoved, SameSc, SamePc, SameEnding, SameBook, SameLine, SameBusy, SameData, Carries, VerbOfKind, Kin, SameQuery, Stepped, IsIdle
    <2> QED BY <2>1, <2>2, <2>3, <2>4 DEF Carries
  <1>7. Stages(t)
    BY <1>1, <1>2, <1>r DEF IsMoved, SameSc, SamePc, SameEnding, SameBook, SameLine, SameBusy, SameData, Stages, Stepped, IsIdle
  <1>8. Connection(t)
    BY <1>1, <1>2, <1>r DEF IsMoved, SameSc, SamePc, SameEnding, SameBook, SameLine, SameBusy, SameData, Connection, SameQuery, IsIdle, Stepped
  <1>9. Unbusy(t)
    BY <1>1, <1>2, <1>r DEF IsMoved, SameSc, SamePc, SameEnding, SameBook, SameLine, SameBusy, SameData, Unbusy, Stepped
  <1> QED BY <1>3, <1>4, <1>5, <1>6, <1>7, <1>8, <1>9 DEF Inv

(* A call is given up by its signal. *)
LEMMA InvAbandoned ==
    ASSUME NEW s, NEW t, NEW i \in DOMAIN s.calls, Inv(s), TypeInv(t),
           IsAbandoned(s, t, i), s.calls[i].pc = "running"
    PROVE  Inv(t)
  <1>1. /\ TypeInv(s) /\ Steady(s) /\ Queue(s) /\ Flight(s) /\ Carries(s) /\ Stages(s)
        /\ Connection(s) /\ Unbusy(s)
    BY DEF Inv
  <1>2. /\ DOMAIN s.calls = 1 .. Len(s.calls) /\ Len(s.calls) \in Nat
        /\ DOMAIN t.calls = 1 .. Len(t.calls) /\ Len(t.calls) \in Nat
        /\ s \in States /\ t \in States
    BY <1>1, CallRange
  <1>r. /\ ~IsIdle(s) /\ s.busy.call # 0 => s.busy.call \in DOMAIN s.calls
        /\ s.abandoned # Nobody => s.abandoned \in DOMAIN s.calls
        /\ ~IsIdle(s) => s.busy.call \in 0 .. Len(s.calls)
        /\ s.pc \in Own <=> ~IsIdle(s) /\ s.busy.call = 0
    BY <1>1, <1>2 DEF TypeInv, OwnFlight, Bounds, Nobody
  <1>a. \A j \in DOMAIN s.calls : s.calls[j].pc # "asking"
    <2>1. \A j \in DOMAIN s.calls : s.calls[j].pc = "asking" => InLine(s.calls[j])
      BY DEF InLine
    <2>2. InLine(s.calls[i])
      BY DEF InLine
    <2> QED BY <1>1, <2>1, <2>2, QueueFirst
  <1>b. i # 0 /\ i # Nobody /\ s.calls[i].prior = Nobody
    <2>1. i # 0
      BY <1>1, CallRange
    <2> QED BY <1>1, <2>1, QueueFirst DEF InLine, Nobody
  <1>3. Steady(t)
    BY <1>1, <1>2, <1>r, <1>a, <1>b DEF IsAbandoned, SameSc, SamePc, SameEnding, SameBook, SameLine, SameBusy, SameData, Steady
  <1>4. Queue(t)
    <2>1. InLine(s.calls[i]) /\ ~InLine(t.calls[i])
      BY DEF InLine, IsAbandoned
    <2> QED BY <1>1, <1>2, <1>b, <2>1, QueueLeft DEF IsAbandoned, SameEnding
  <1>5. Flight(t)
    <2>1. ASSUME NEW j \in DOMAIN t.calls
          PROVE  Working(t.calls[j]) \/ t.calls[j].pc = "left" =>
                    ~IsIdle(t) /\ t.busy.call = j
      BY <1>1, <1>2, <1>r, <1>a, <1>b DEF IsAbandoned, SameSc, SamePc, SameEnding, SameBook, SameLine, SameBusy, SameData, Flight, Working, Asks, Stepped, Kin, SameQuery, IsIdle
    <2>2. ASSUME NEW j \in DOMAIN t.calls, t.calls[j].pc = "left"
          PROVE  t.abandoned = j
      BY <1>1, <1>2, <1>r, <1>a, <1>b, <2>2 DEF IsAbandoned, SameSc, SamePc, SameEnding, SameBook, SameLine, SameBusy, SameData, Flight, Working, Asks, Stepped, Kin, SameQuery, IsIdle
    <2>3. ASSUME NEW j \in DOMAIN t.calls, t.calls[j].pc = "asking"
          PROVE  t.abandoned = Nobody /\ (t.ending # "none" => t.cut) /\ Asks(t, t.calls[j])
      BY <1>1, <1>2, <1>r, <1>a, <1>b, <2>3 DEF IsAbandoned, SameSc, SamePc, SameEnding, SameBook, SameLine, SameBusy, SameData, Flight, Working, Asks, Stepped, Kin, SameQuery, IsIdle
    <2>4. t.abandoned # Nobody => t.calls[t.abandoned].pc = "left"
      BY <1>1, <1>2, <1>r, <1>a, <1>b DEF IsAbandoned, SameSc, SamePc, SameEnding, SameBook, SameLine, SameBusy, SameData, Flight, Working, Asks, Stepped, Kin, SameQuery, IsIdle
    <2>5. ~IsIdle(t) /\ t.busy.call # 0 =>
             Working(t.calls[t.busy.call]) \/ t.calls[t.busy.call].pc = "left"
      BY <1>1, <1>2, <1>r, <1>a, <1>b DEF IsAbandoned, SameSc, SamePc, SameEnding, SameBook, SameLine, SameBusy, SameData, Flight, Working, Asks, Stepped, Kin, SameQuery, IsIdle
    <2> QED BY <2>1, <2>2, <2>3, <2>4, <2>5 DEF Flight
  <1>6. Carries(t)
    <2> SUFFICES ASSUME ~IsIdle(t)
                 PROVE  Carries(t)
      BY DEF Carries
    <2>1. t.busy.call = 0 =>
              /\ ~t.busy.open
              /\ t.busy.verb = "begin" <=> t.pc = "begin"
              /\ t.pc = "rolling" => t.busy.verb = "rollback"
      BY <1>1, <1>2, <1>r, <1>a, <1>b DEF IsAbandoned, SameSc, SamePc, SameEnding, SameBook, SameLine, SameBusy, SameData, Carries, VerbOfKind, Kin, SameQuery, Stepped, IsIdle
    <2>2. t.busy.call # 0 =>
              /\ t.busy.verb = IF t.calls[t.busy.call].pc = "dropping" THEN "release"
                              ELSE VerbOfKind(t.calls[t.busy.call].kind)
              /\ t.busy.name = t.calls[t.busy.call].name
      BY <1>1, <1>2, <1>r, <1>a, <1>b, SMTT(30) DEF IsAbandoned, SameSc, SamePc, SameEnding, SameBook, SameLine, SameBusy, SameData, Carries, VerbOfKind, Kin, SameQuery, Stepped, IsIdle
    <2>3. t.busy.call # 0 =>
              /\ t.busy.open => Statement(t.calls[t.busy.call].kind) /\ ~t.readOnly
              /\ t.busy.stage \in {"affected", "delivering"} => t.calls[t.busy.call].kind = "gen"
              /\ t.calls[t.busy.call].pc = "dropping" =>
                    t.calls[t.busy.call].kind = "rollbackTo" /\ ~t.calls[t.busy.call].keep
      BY <1>1, <1>2, <1>r, <1>a, <1>b, SMTT(30) DEF IsAbandoned, SameSc, SamePc, SameEnding, SameBook, SameLine, SameBusy, SameData, Carries, VerbOfKind, Kin, SameQuery, Stepped, IsIdle
    <2>4. t.busy.verb = "begin" => t.busy.conclude = "none"
      BY <1>1, <1>2, <1>r, <1>a, <1>b DEF IsAbandoned, SameSc, SamePc, SameEnding, SameBook, SameLine, SameBusy, SameData, Carries, VerbOfKind, Kin, SameQuery, Stepped, IsIdle
    <2> QED BY <2>1, <2>2, <2>3, <2>4 DEF Carries
  <1>7. Stages(t)
    BY <1>1, <1>2, <1>r, <1>a, <1>b DEF IsAbandoned, SameSc, SamePc, SameEnding, SameBook, SameLine, SameBusy, SameData, Stages, Stepped, IsIdle
  <1>8. Connection(t)
    BY <1>1, <1>2, <1>r, <1>a, <1>b DEF IsAbandoned, SameSc, SamePc, SameEnding, SameBook, SameLine, SameBusy, SameData, Connection, SameQuery, IsIdle, Stepped
  <1>9. Unbusy(t)
    BY <1>1, <1>2, <1>r, <1>a, <1>b DEF IsAbandoned, SameSc, SamePc, SameEnding, SameBook, SameLine, SameBusy, SameData, Unbusy, Stepped
  <1> QED BY <1>3, <1>4, <1>5, <1>6, <1>7, <1>8, <1>9 DEF Inv

(* A generator that never ran is closed. *)
LEMMA InvShut ==
    ASSUME NEW s, NEW t, NEW i \in DOMAIN s.calls, Inv(s), TypeInv(t),
           IsShut(s, t, i), s.calls[i].pc = "fresh"
    PROVE  Inv(t)
  <1>1. /\ TypeInv(s) /\ Steady(s) /\ Queue(s) /\ Flight(s) /\ Carries(s) /\ Stages(s)
        /\ Connection(s) /\ Unbusy(s)
    BY DEF Inv
  <1>2. /\ DOMAIN s.calls = 1 .. Len(s.calls) /\ Len(s.calls) \in Nat
        /\ DOMAIN t.calls = 1 .. Len(t.calls) /\ Len(t.calls) \in Nat
        /\ s \in States /\ t \in States
    BY <1>1, CallRange
  <1>r. /\ ~IsIdle(s) /\ s.busy.call # 0 => s.busy.call \in DOMAIN s.calls
        /\ s.abandoned # Nobody => s.abandoned \in DOMAIN s.calls
        /\ ~IsIdle(s) => s.busy.call \in 0 .. Len(s.calls)
        /\ s.pc \in Own <=> ~IsIdle(s) /\ s.busy.call = 0
    BY <1>1, <1>2 DEF TypeInv, OwnFlight, Bounds, Nobody
  <1>3. Steady(t)
    BY <1>1, <1>2, <1>r DEF IsShut, SameSc, SamePc, SameEnding, SameBook, SameLine, SameBusy, SameData, Steady
  <1>4. Queue(t)
    BY <1>1, <1>2, <1>r, QueueStays DEF IsShut, SameSc, SamePc, SameEnding, SameBook, SameLine, SameBusy, SameData, InLine, Stepped
  <1>5. Flight(t)
    <2>1. ASSUME NEW j \in DOMAIN t.calls
          PROVE  Working(t.calls[j]) \/ t.calls[j].pc = "left" =>
                    ~IsIdle(t) /\ t.busy.call = j
      BY <1>1, <1>2, <1>r DEF IsShut, SameSc, SamePc, SameEnding, SameBook, SameLine, SameBusy, SameData, Flight, Working, Asks, Stepped, Kin, SameQuery, IsIdle
    <2>2. ASSUME NEW j \in DOMAIN t.calls, t.calls[j].pc = "left"
          PROVE  t.abandoned = j
      BY <1>1, <1>2, <1>r, <2>2 DEF IsShut, SameSc, SamePc, SameEnding, SameBook, SameLine, SameBusy, SameData, Flight, Working, Asks, Stepped, Kin, SameQuery, IsIdle
    <2>3. ASSUME NEW j \in DOMAIN t.calls, t.calls[j].pc = "asking"
          PROVE  t.abandoned = Nobody /\ (t.ending # "none" => t.cut) /\ Asks(t, t.calls[j])
      BY <1>1, <1>2, <1>r, <2>3 DEF IsShut, SameSc, SamePc, SameEnding, SameBook, SameLine, SameBusy, SameData, Flight, Working, Asks, Stepped, Kin, SameQuery, IsIdle
    <2>4. t.abandoned # Nobody => t.calls[t.abandoned].pc = "left"
      BY <1>1, <1>2, <1>r DEF IsShut, SameSc, SamePc, SameEnding, SameBook, SameLine, SameBusy, SameData, Flight, Working, Asks, Stepped, Kin, SameQuery, IsIdle
    <2>5. ~IsIdle(t) /\ t.busy.call # 0 =>
             Working(t.calls[t.busy.call]) \/ t.calls[t.busy.call].pc = "left"
      BY <1>1, <1>2, <1>r DEF IsShut, SameSc, SamePc, SameEnding, SameBook, SameLine, SameBusy, SameData, Flight, Working, Asks, Stepped, Kin, SameQuery, IsIdle
    <2> QED BY <2>1, <2>2, <2>3, <2>4, <2>5 DEF Flight
  <1>6. Carries(t)
    <2> SUFFICES ASSUME ~IsIdle(t)
                 PROVE  Carries(t)
      BY DEF Carries
    <2>1. t.busy.call = 0 =>
              /\ ~t.busy.open
              /\ t.busy.verb = "begin" <=> t.pc = "begin"
              /\ t.pc = "rolling" => t.busy.verb = "rollback"
      BY <1>1, <1>2, <1>r DEF IsShut, SameSc, SamePc, SameEnding, SameBook, SameLine, SameBusy, SameData, Carries, VerbOfKind, Kin, SameQuery, Stepped, IsIdle
    <2>2. t.busy.call # 0 =>
              /\ t.busy.verb = IF t.calls[t.busy.call].pc = "dropping" THEN "release"
                              ELSE VerbOfKind(t.calls[t.busy.call].kind)
              /\ t.busy.name = t.calls[t.busy.call].name
      BY <1>1, <1>2, <1>r, SMTT(30) DEF IsShut, SameSc, SamePc, SameEnding, SameBook, SameLine, SameBusy, SameData, Carries, VerbOfKind, Kin, SameQuery, Stepped, IsIdle
    <2>3. t.busy.call # 0 =>
              /\ t.busy.open => Statement(t.calls[t.busy.call].kind) /\ ~t.readOnly
              /\ t.busy.stage \in {"affected", "delivering"} => t.calls[t.busy.call].kind = "gen"
              /\ t.calls[t.busy.call].pc = "dropping" =>
                    t.calls[t.busy.call].kind = "rollbackTo" /\ ~t.calls[t.busy.call].keep
      BY <1>1, <1>2, <1>r, SMTT(30) DEF IsShut, SameSc, SamePc, SameEnding, SameBook, SameLine, SameBusy, SameData, Carries, VerbOfKind, Kin, SameQuery, Stepped, IsIdle
    <2>4. t.busy.verb = "begin" => t.busy.conclude = "none"
      BY <1>1, <1>2, <1>r DEF IsShut, SameSc, SamePc, SameEnding, SameBook, SameLine, SameBusy, SameData, Carries, VerbOfKind, Kin, SameQuery, Stepped, IsIdle
    <2> QED BY <2>1, <2>2, <2>3, <2>4 DEF Carries
  <1>7. Stages(t)
    BY <1>1, <1>2, <1>r DEF IsShut, SameSc, SamePc, SameEnding, SameBook, SameLine, SameBusy, SameData, Stages, Stepped, IsIdle
  <1>8. Connection(t)
    BY <1>1, <1>2, <1>r DEF IsShut, SameSc, SamePc, SameEnding, SameBook, SameLine, SameBusy, SameData, Connection, SameQuery, IsIdle, Stepped
  <1>9. Unbusy(t)
    BY <1>1, <1>2, <1>r DEF IsShut, SameSc, SamePc, SameEnding, SameBook, SameLine, SameBusy, SameData, Unbusy, Stepped
  <1> QED BY <1>3, <1>4, <1>5, <1>6, <1>7, <1>8, <1>9 DEF Inv

(* Whether the statement leaves the connection in the transaction.          *)
LEMMA RanIn ==
    ASSUME NEW s, TypeInv(s), ~IsIdle(s)
    PROVE  Ran(Begun(s), s.busy).in <=>
              /\ s.busy.verb \notin {"commit", "rollback"}
              /\ s.busy.verb \in {"begin", "savepoint"} \/ s.conn.in \/ s.busy.open
  <1>1. /\ s.busy \in Messages /\ Begun(s) \in ConnsOf(Len(s.calls))
        /\ Begun(s).in <=> s.conn.in \/ s.busy.open
    BY QueryIs
  <1> DEFINE c == Begun(s)
             m == s.busy
  <1>2. c.in \in BOOLEAN
    BY <1>1 DEF ConnsOf
  <1> HIDE DEF c, m
  <1>3. Ran(c, m).in <=> m.verb \notin {"commit", "rollback"} /\ (m.verb \in {"begin", "savepoint"} \/ c.in)
    BY <1>2 DEF Ran
  <1> QED BY <1>1, <1>3 DEF c, m

(* The query succeeds. *)
LEMMA InvSucceeds ==
    ASSUME NEW s, NEW t, NEW db, Inv(s), TypeInv(t),
           ~IsIdle(s), s.busy.stage = "posted",
           IsWorked(s, t, Ran(Begun(s), s.busy), db, Stage(s), s.busy.failed)
    PROVE  Inv(t)
  <1>1. /\ TypeInv(s) /\ Steady(s) /\ Queue(s) /\ Flight(s) /\ Carries(s) /\ Stages(s)
        /\ Connection(s) /\ Unbusy(s)
    BY DEF Inv
  <1>2. /\ DOMAIN s.calls = 1 .. Len(s.calls) /\ Len(s.calls) \in Nat
        /\ DOMAIN t.calls = 1 .. Len(t.calls) /\ Len(t.calls) \in Nat
        /\ s \in States /\ t \in States
    BY <1>1, CallRange
  <1>r. /\ ~IsIdle(s) /\ s.busy.call # 0 => s.busy.call \in DOMAIN s.calls
        /\ s.abandoned # Nobody => s.abandoned \in DOMAIN s.calls
        /\ ~IsIdle(s) => s.busy.call \in 0 .. Len(s.calls)
        /\ s.pc \in Own <=> ~IsIdle(s) /\ s.busy.call = 0
    BY <1>1, <1>2 DEF TypeInv, OwnFlight, Bounds, Nobody
  <1>a. ~s.begun => s.busy.call = 0 /\ s.pc = "begin" /\ s.busy.verb = "begin" /\ ~s.busy.open /\ s.said = "out"
    <2>1. ~s.begun => Len(s.calls) = 0
      BY <1>1 DEF Stages
    <2>2. ~s.begun => s.busy.call = 0 /\ s.pc \in Own
      BY <1>2, <1>r, <2>1
    <2>3. ~s.begun => s.pc = "begin" /\ s.said = "out"
      BY <1>1, <2>2 DEF Stages, Own, Connection
    <2> QED BY <1>1, <2>2, <2>3 DEF Carries
  <1>b. ~s.done /\ s.pc \notin {"ready", "finishing", "publishing", "released"}
    BY <1>1 DEF Stages
  <1>c. t.conn.in <=>
            /\ s.busy.verb \notin {"commit", "rollback"}
            /\ s.busy.verb \in {"begin", "savepoint"} \/ s.conn.in \/ s.busy.open
    BY <1>1, RanIn DEF IsWorked
  <1>d. ~s.dead /\ ~s.busy.failed
    BY <1>1 DEF Connection
  <1>e. VerbOfKind("gen") = "write" /\ s.busy.verb = "begin" => s.busy.call = 0
    <2>1. s.busy.call # 0 => s.calls[s.busy.call].kind \in CallKinds
      BY <1>2, <1>r, CallsAre DEF Call
    <2> QED BY <1>1, <1>r, <2>1 DEF Carries, VerbOfKind, CallKinds
  <1>3. Steady(t)
    BY <1>1, <1>2, <1>r, <1>a, <1>b, <1>c, <1>d, <1>e DEF IsWorked, Stage, SameSc, SamePc, SameEnding, SameBook, SameLine, SameBusy, SameData, Steady
  <1>4. Queue(t)
    BY <1>1, <1>2, <1>r, <1>a, <1>b, <1>c, <1>d, <1>e, QueueStays DEF IsWorked, Stage, SameSc, SamePc, SameEnding, SameBook, SameLine, SameBusy, SameData, InLine, Stepped
  <1>5. Flight(t)
    <2>1. ASSUME NEW j \in DOMAIN t.calls
          PROVE  Working(t.calls[j]) \/ t.calls[j].pc = "left" =>
                    ~IsIdle(t) /\ t.busy.call = j
      BY <1>1, <1>2, <1>r, <1>a, <1>b, <1>c, <1>d, <1>e DEF IsWorked, Stage, SameSc, SamePc, SameEnding, SameBook, SameLine, SameBusy, SameData, Flight, Working, Asks, Stepped, Kin, SameQuery, IsIdle
    <2>2. ASSUME NEW j \in DOMAIN t.calls, t.calls[j].pc = "left"
          PROVE  t.abandoned = j
      BY <1>1, <1>2, <1>r, <1>a, <1>b, <1>c, <1>d, <1>e, <2>2 DEF IsWorked, Stage, SameSc, SamePc, SameEnding, SameBook, SameLine, SameBusy, SameData, Flight, Working, Asks, Stepped, Kin, SameQuery, IsIdle
    <2>3. ASSUME NEW j \in DOMAIN t.calls, t.calls[j].pc = "asking"
          PROVE  t.abandoned = Nobody /\ (t.ending # "none" => t.cut) /\ Asks(t, t.calls[j])
      BY <1>1, <1>2, <1>r, <1>a, <1>b, <1>c, <1>d, <1>e, <2>3 DEF IsWorked, Stage, SameSc, SamePc, SameEnding, SameBook, SameLine, SameBusy, SameData, Flight, Working, Asks, Stepped, Kin, SameQuery, IsIdle
    <2>4. t.abandoned # Nobody => t.calls[t.abandoned].pc = "left"
      BY <1>1, <1>2, <1>r, <1>a, <1>b, <1>c, <1>d, <1>e DEF IsWorked, Stage, SameSc, SamePc, SameEnding, SameBook, SameLine, SameBusy, SameData, Flight, Working, Asks, Stepped, Kin, SameQuery, IsIdle
    <2>5. ~IsIdle(t) /\ t.busy.call # 0 =>
             Working(t.calls[t.busy.call]) \/ t.calls[t.busy.call].pc = "left"
      BY <1>1, <1>2, <1>r, <1>a, <1>b, <1>c, <1>d, <1>e DEF IsWorked, Stage, SameSc, SamePc, SameEnding, SameBook, SameLine, SameBusy, SameData, Flight, Working, Asks, Stepped, Kin, SameQuery, IsIdle
    <2> QED BY <2>1, <2>2, <2>3, <2>4, <2>5 DEF Flight
  <1>6. Carries(t)
    <2> SUFFICES ASSUME ~IsIdle(t)
                 PROVE  Carries(t)
      BY DEF Carries
    <2>1. t.busy.call = 0 =>
              /\ ~t.busy.open
              /\ t.busy.verb = "begin" <=> t.pc = "begin"
              /\ t.pc = "rolling" => t.busy.verb = "rollback"
      BY <1>1, <1>2, <1>r, <1>a, <1>b, <1>c, <1>d, <1>e DEF IsWorked, Stage, SameSc, SamePc, SameEnding, SameBook, SameLine, SameBusy, SameData, Carries, VerbOfKind, Kin, SameQuery, Stepped, IsIdle
    <2>2. t.busy.call # 0 =>
              /\ t.busy.verb = IF t.calls[t.busy.call].pc = "dropping" THEN "release"
                              ELSE VerbOfKind(t.calls[t.busy.call].kind)
              /\ t.busy.name = t.calls[t.busy.call].name
      BY <1>1, <1>2, <1>r, <1>a, <1>b, <1>c, <1>d, <1>e, SMTT(30) DEF IsWorked, Stage, SameSc, SamePc, SameEnding, SameBook, SameLine, SameBusy, SameData, Carries, VerbOfKind, Kin, SameQuery, Stepped, IsIdle
    <2>3. t.busy.call # 0 =>
              /\ t.busy.open => Statement(t.calls[t.busy.call].kind) /\ ~t.readOnly
              /\ t.busy.stage \in {"affected", "delivering"} => t.calls[t.busy.call].kind = "gen"
              /\ t.calls[t.busy.call].pc = "dropping" =>
                    t.calls[t.busy.call].kind = "rollbackTo" /\ ~t.calls[t.busy.call].keep
      BY <1>1, <1>2, <1>r, <1>a, <1>b, <1>c, <1>d, <1>e, SMTT(30) DEF IsWorked, Stage, SameSc, SamePc, SameEnding, SameBook, SameLine, SameBusy, SameData, Carries, VerbOfKind, Kin, SameQuery, Stepped, IsIdle
    <2>4. t.busy.verb = "begin" => t.busy.conclude = "none"
      BY <1>1, <1>2, <1>r, <1>a, <1>b, <1>c, <1>d, <1>e DEF IsWorked, Stage, SameSc, SamePc, SameEnding, SameBook, SameLine, SameBusy, SameData, Carries, VerbOfKind, Kin, SameQuery, Stepped, IsIdle
    <2> QED BY <2>1, <2>2, <2>3, <2>4 DEF Carries
  <1>7. Stages(t)
    BY <1>1, <1>2, <1>r, <1>a, <1>b, <1>c, <1>d, <1>e DEF IsWorked, Stage, SameSc, SamePc, SameEnding, SameBook, SameLine, SameBusy, SameData, Stages, Stepped, IsIdle
  <1>8. Connection(t)
    BY <1>1, <1>2, <1>r, <1>a, <1>b, <1>c, <1>d, <1>e DEF IsWorked, Stage, SameSc, SamePc, SameEnding, SameBook, SameLine, SameBusy, SameData, Connection, SameQuery, IsIdle, Stepped
  <1>9. Unbusy(t)
    BY <1>1, <1>2, <1>r, <1>a, <1>b, <1>c, <1>d, <1>e DEF IsWorked, Stage, SameSc, SamePc, SameEnding, SameBook, SameLine, SameBusy, SameData, Unbusy, Stepped
  <1> QED BY <1>3, <1>4, <1>5, <1>6, <1>7, <1>8, <1>9 DEF Inv

(* It fails, and the transaction stays open. *)
LEMMA InvFails ==
    ASSUME NEW s, NEW t, NEW db, Inv(s), TypeInv(t),
           ~IsIdle(s), s.busy.stage = "posted",
           IsWorked(s, t, Begun(s), db, "ended", TRUE)
    PROVE  Inv(t)
  <1>1. /\ TypeInv(s) /\ Steady(s) /\ Queue(s) /\ Flight(s) /\ Carries(s) /\ Stages(s)
        /\ Connection(s) /\ Unbusy(s)
    BY DEF Inv
  <1>2. /\ DOMAIN s.calls = 1 .. Len(s.calls) /\ Len(s.calls) \in Nat
        /\ DOMAIN t.calls = 1 .. Len(t.calls) /\ Len(t.calls) \in Nat
        /\ s \in States /\ t \in States
    BY <1>1, CallRange
  <1>r. /\ ~IsIdle(s) /\ s.busy.call # 0 => s.busy.call \in DOMAIN s.calls
        /\ s.abandoned # Nobody => s.abandoned \in DOMAIN s.calls
        /\ ~IsIdle(s) => s.busy.call \in 0 .. Len(s.calls)
        /\ s.pc \in Own <=> ~IsIdle(s) /\ s.busy.call = 0
    BY <1>1, <1>2 DEF TypeInv, OwnFlight, Bounds, Nobody
  <1>a. ~s.begun => s.busy.call = 0 /\ s.pc = "begin" /\ s.busy.verb = "begin" /\ ~s.busy.open /\ s.said = "out"
    <2>1. ~s.begun => Len(s.calls) = 0
      BY <1>1 DEF Stages
    <2>2. ~s.begun => s.busy.call = 0 /\ s.pc \in Own
      BY <1>2, <1>r, <2>1
    <2>3. ~s.begun => s.pc = "begin" /\ s.said = "out"
      BY <1>1, <2>2 DEF Stages, Own, Connection
    <2> QED BY <1>1, <2>2, <2>3 DEF Carries
  <1>b. ~s.done /\ s.pc \notin {"ready", "finishing", "publishing", "released"}
    BY <1>1 DEF Stages
  <1>c. t.conn.in <=> s.conn.in \/ s.busy.open
    BY <1>1, QueryIs DEF IsWorked
  <1>d. ~s.dead /\ ~s.busy.failed
    BY <1>1 DEF Connection
  <1>3. Steady(t)
    BY <1>1, <1>2, <1>r, <1>a, <1>b, <1>c, <1>d DEF IsWorked, SameSc, SamePc, SameEnding, SameBook, SameLine, SameBusy, SameData, Steady
  <1>4. Queue(t)
    BY <1>1, <1>2, <1>r, <1>a, <1>b, <1>c, <1>d, QueueStays DEF IsWorked, SameSc, SamePc, SameEnding, SameBook, SameLine, SameBusy, SameData, InLine, Stepped
  <1>5. Flight(t)
    <2>1. ASSUME NEW j \in DOMAIN t.calls
          PROVE  Working(t.calls[j]) \/ t.calls[j].pc = "left" =>
                    ~IsIdle(t) /\ t.busy.call = j
      BY <1>1, <1>2, <1>r, <1>a, <1>b, <1>c, <1>d DEF IsWorked, SameSc, SamePc, SameEnding, SameBook, SameLine, SameBusy, SameData, Flight, Working, Asks, Stepped, Kin, SameQuery, IsIdle
    <2>2. ASSUME NEW j \in DOMAIN t.calls, t.calls[j].pc = "left"
          PROVE  t.abandoned = j
      BY <1>1, <1>2, <1>r, <1>a, <1>b, <1>c, <1>d, <2>2 DEF IsWorked, SameSc, SamePc, SameEnding, SameBook, SameLine, SameBusy, SameData, Flight, Working, Asks, Stepped, Kin, SameQuery, IsIdle
    <2>3. ASSUME NEW j \in DOMAIN t.calls, t.calls[j].pc = "asking"
          PROVE  t.abandoned = Nobody /\ (t.ending # "none" => t.cut) /\ Asks(t, t.calls[j])
      BY <1>1, <1>2, <1>r, <1>a, <1>b, <1>c, <1>d, <2>3 DEF IsWorked, SameSc, SamePc, SameEnding, SameBook, SameLine, SameBusy, SameData, Flight, Working, Asks, Stepped, Kin, SameQuery, IsIdle
    <2>4. t.abandoned # Nobody => t.calls[t.abandoned].pc = "left"
      BY <1>1, <1>2, <1>r, <1>a, <1>b, <1>c, <1>d DEF IsWorked, SameSc, SamePc, SameEnding, SameBook, SameLine, SameBusy, SameData, Flight, Working, Asks, Stepped, Kin, SameQuery, IsIdle
    <2>5. ~IsIdle(t) /\ t.busy.call # 0 =>
             Working(t.calls[t.busy.call]) \/ t.calls[t.busy.call].pc = "left"
      BY <1>1, <1>2, <1>r, <1>a, <1>b, <1>c, <1>d DEF IsWorked, SameSc, SamePc, SameEnding, SameBook, SameLine, SameBusy, SameData, Flight, Working, Asks, Stepped, Kin, SameQuery, IsIdle
    <2> QED BY <2>1, <2>2, <2>3, <2>4, <2>5 DEF Flight
  <1>6. Carries(t)
    <2> SUFFICES ASSUME ~IsIdle(t)
                 PROVE  Carries(t)
      BY DEF Carries
    <2>1. t.busy.call = 0 =>
              /\ ~t.busy.open
              /\ t.busy.verb = "begin" <=> t.pc = "begin"
              /\ t.pc = "rolling" => t.busy.verb = "rollback"
      BY <1>1, <1>2, <1>r, <1>a, <1>b, <1>c, <1>d DEF IsWorked, SameSc, SamePc, SameEnding, SameBook, SameLine, SameBusy, SameData, Carries, VerbOfKind, Kin, SameQuery, Stepped, IsIdle
    <2>2. t.busy.call # 0 =>
              /\ t.busy.verb = IF t.calls[t.busy.call].pc = "dropping" THEN "release"
                              ELSE VerbOfKind(t.calls[t.busy.call].kind)
              /\ t.busy.name = t.calls[t.busy.call].name
      BY <1>1, <1>2, <1>r, <1>a, <1>b, <1>c, <1>d, SMTT(30) DEF IsWorked, SameSc, SamePc, SameEnding, SameBook, SameLine, SameBusy, SameData, Carries, VerbOfKind, Kin, SameQuery, Stepped, IsIdle
    <2>3. t.busy.call # 0 =>
              /\ t.busy.open => Statement(t.calls[t.busy.call].kind) /\ ~t.readOnly
              /\ t.busy.stage \in {"affected", "delivering"} => t.calls[t.busy.call].kind = "gen"
              /\ t.calls[t.busy.call].pc = "dropping" =>
                    t.calls[t.busy.call].kind = "rollbackTo" /\ ~t.calls[t.busy.call].keep
      BY <1>1, <1>2, <1>r, <1>a, <1>b, <1>c, <1>d, SMTT(30) DEF IsWorked, SameSc, SamePc, SameEnding, SameBook, SameLine, SameBusy, SameData, Carries, VerbOfKind, Kin, SameQuery, Stepped, IsIdle
    <2>4. t.busy.verb = "begin" => t.busy.conclude = "none"
      BY <1>1, <1>2, <1>r, <1>a, <1>b, <1>c, <1>d DEF IsWorked, SameSc, SamePc, SameEnding, SameBook, SameLine, SameBusy, SameData, Carries, VerbOfKind, Kin, SameQuery, Stepped, IsIdle
    <2> QED BY <2>1, <2>2, <2>3, <2>4 DEF Carries
  <1>7. Stages(t)
    BY <1>1, <1>2, <1>r, <1>a, <1>b, <1>c, <1>d DEF IsWorked, SameSc, SamePc, SameEnding, SameBook, SameLine, SameBusy, SameData, Stages, Stepped, IsIdle
  <1>8. Connection(t)
    BY <1>1, <1>2, <1>r, <1>a, <1>b, <1>c, <1>d DEF IsWorked, SameSc, SamePc, SameEnding, SameBook, SameLine, SameBusy, SameData, Connection, SameQuery, IsIdle, Stepped
  <1>9. Unbusy(t)
    BY <1>1, <1>2, <1>r, <1>a, <1>b, <1>c, <1>d DEF IsWorked, SameSc, SamePc, SameEnding, SameBook, SameLine, SameBusy, SameData, Unbusy, Stepped
  <1> QED BY <1>3, <1>4, <1>5, <1>6, <1>7, <1>8, <1>9 DEF Inv

(* It fails, and the connection is out of the transaction. *)
LEMMA InvLeaves ==
    ASSUME NEW s, NEW t, NEW db, Inv(s), TypeInv(t),
           ~IsIdle(s), s.busy.stage = "posted",
           IsWorked(s, t, OutOfTransaction, db, "ended", TRUE)
    PROVE  Inv(t)
  <1>1. /\ TypeInv(s) /\ Steady(s) /\ Queue(s) /\ Flight(s) /\ Carries(s) /\ Stages(s)
        /\ Connection(s) /\ Unbusy(s)
    BY DEF Inv
  <1>2. /\ DOMAIN s.calls = 1 .. Len(s.calls) /\ Len(s.calls) \in Nat
        /\ DOMAIN t.calls = 1 .. Len(t.calls) /\ Len(t.calls) \in Nat
        /\ s \in States /\ t \in States
    BY <1>1, CallRange
  <1>r. /\ ~IsIdle(s) /\ s.busy.call # 0 => s.busy.call \in DOMAIN s.calls
        /\ s.abandoned # Nobody => s.abandoned \in DOMAIN s.calls
        /\ ~IsIdle(s) => s.busy.call \in 0 .. Len(s.calls)
        /\ s.pc \in Own <=> ~IsIdle(s) /\ s.busy.call = 0
    BY <1>1, <1>2 DEF TypeInv, OwnFlight, Bounds, Nobody
  <1>a. ~s.begun => s.busy.call = 0 /\ s.pc = "begin" /\ s.busy.verb = "begin" /\ ~s.busy.open /\ s.said = "out"
    <2>1. ~s.begun => Len(s.calls) = 0
      BY <1>1 DEF Stages
    <2>2. ~s.begun => s.busy.call = 0 /\ s.pc \in Own
      BY <1>2, <1>r, <2>1
    <2>3. ~s.begun => s.pc = "begin" /\ s.said = "out"
      BY <1>1, <2>2 DEF Stages, Own, Connection
    <2> QED BY <1>1, <2>2, <2>3 DEF Carries
  <1>b. ~s.done /\ s.pc \notin {"ready", "finishing", "publishing", "released"}
    BY <1>1 DEF Stages
  <1>3. Steady(t)
    BY <1>1, <1>2, <1>r, <1>a, <1>b DEF IsWorked, OutOfTransaction, SameSc, SamePc, SameEnding, SameBook, SameLine, SameBusy, SameData, Steady
  <1>4. Queue(t)
    BY <1>1, <1>2, <1>r, <1>a, <1>b, QueueStays DEF IsWorked, OutOfTransaction, SameSc, SamePc, SameEnding, SameBook, SameLine, SameBusy, SameData, InLine, Stepped
  <1>5. Flight(t)
    <2>1. ASSUME NEW j \in DOMAIN t.calls
          PROVE  Working(t.calls[j]) \/ t.calls[j].pc = "left" =>
                    ~IsIdle(t) /\ t.busy.call = j
      BY <1>1, <1>2, <1>r, <1>a, <1>b DEF IsWorked, OutOfTransaction, SameSc, SamePc, SameEnding, SameBook, SameLine, SameBusy, SameData, Flight, Working, Asks, Stepped, Kin, SameQuery, IsIdle
    <2>2. ASSUME NEW j \in DOMAIN t.calls, t.calls[j].pc = "left"
          PROVE  t.abandoned = j
      BY <1>1, <1>2, <1>r, <1>a, <1>b, <2>2 DEF IsWorked, OutOfTransaction, SameSc, SamePc, SameEnding, SameBook, SameLine, SameBusy, SameData, Flight, Working, Asks, Stepped, Kin, SameQuery, IsIdle
    <2>3. ASSUME NEW j \in DOMAIN t.calls, t.calls[j].pc = "asking"
          PROVE  t.abandoned = Nobody /\ (t.ending # "none" => t.cut) /\ Asks(t, t.calls[j])
      BY <1>1, <1>2, <1>r, <1>a, <1>b, <2>3 DEF IsWorked, OutOfTransaction, SameSc, SamePc, SameEnding, SameBook, SameLine, SameBusy, SameData, Flight, Working, Asks, Stepped, Kin, SameQuery, IsIdle
    <2>4. t.abandoned # Nobody => t.calls[t.abandoned].pc = "left"
      BY <1>1, <1>2, <1>r, <1>a, <1>b DEF IsWorked, OutOfTransaction, SameSc, SamePc, SameEnding, SameBook, SameLine, SameBusy, SameData, Flight, Working, Asks, Stepped, Kin, SameQuery, IsIdle
    <2>5. ~IsIdle(t) /\ t.busy.call # 0 =>
             Working(t.calls[t.busy.call]) \/ t.calls[t.busy.call].pc = "left"
      BY <1>1, <1>2, <1>r, <1>a, <1>b DEF IsWorked, OutOfTransaction, SameSc, SamePc, SameEnding, SameBook, SameLine, SameBusy, SameData, Flight, Working, Asks, Stepped, Kin, SameQuery, IsIdle
    <2> QED BY <2>1, <2>2, <2>3, <2>4, <2>5 DEF Flight
  <1>6. Carries(t)
    <2> SUFFICES ASSUME ~IsIdle(t)
                 PROVE  Carries(t)
      BY DEF Carries
    <2>1. t.busy.call = 0 =>
              /\ ~t.busy.open
              /\ t.busy.verb = "begin" <=> t.pc = "begin"
              /\ t.pc = "rolling" => t.busy.verb = "rollback"
      BY <1>1, <1>2, <1>r, <1>a, <1>b DEF IsWorked, OutOfTransaction, SameSc, SamePc, SameEnding, SameBook, SameLine, SameBusy, SameData, Carries, VerbOfKind, Kin, SameQuery, Stepped, IsIdle
    <2>2. t.busy.call # 0 =>
              /\ t.busy.verb = IF t.calls[t.busy.call].pc = "dropping" THEN "release"
                              ELSE VerbOfKind(t.calls[t.busy.call].kind)
              /\ t.busy.name = t.calls[t.busy.call].name
      BY <1>1, <1>2, <1>r, <1>a, <1>b, SMTT(30) DEF IsWorked, OutOfTransaction, SameSc, SamePc, SameEnding, SameBook, SameLine, SameBusy, SameData, Carries, VerbOfKind, Kin, SameQuery, Stepped, IsIdle
    <2>3. t.busy.call # 0 =>
              /\ t.busy.open => Statement(t.calls[t.busy.call].kind) /\ ~t.readOnly
              /\ t.busy.stage \in {"affected", "delivering"} => t.calls[t.busy.call].kind = "gen"
              /\ t.calls[t.busy.call].pc = "dropping" =>
                    t.calls[t.busy.call].kind = "rollbackTo" /\ ~t.calls[t.busy.call].keep
      BY <1>1, <1>2, <1>r, <1>a, <1>b, SMTT(30) DEF IsWorked, OutOfTransaction, SameSc, SamePc, SameEnding, SameBook, SameLine, SameBusy, SameData, Carries, VerbOfKind, Kin, SameQuery, Stepped, IsIdle
    <2>4. t.busy.verb = "begin" => t.busy.conclude = "none"
      BY <1>1, <1>2, <1>r, <1>a, <1>b DEF IsWorked, OutOfTransaction, SameSc, SamePc, SameEnding, SameBook, SameLine, SameBusy, SameData, Carries, VerbOfKind, Kin, SameQuery, Stepped, IsIdle
    <2> QED BY <2>1, <2>2, <2>3, <2>4 DEF Carries
  <1>7. Stages(t)
    BY <1>1, <1>2, <1>r, <1>a, <1>b DEF IsWorked, OutOfTransaction, SameSc, SamePc, SameEnding, SameBook, SameLine, SameBusy, SameData, Stages, Stepped, IsIdle
  <1>8. Connection(t)
    BY <1>1, <1>2, <1>r, <1>a, <1>b DEF IsWorked, OutOfTransaction, SameSc, SamePc, SameEnding, SameBook, SameLine, SameBusy, SameData, Connection, SameQuery, IsIdle, Stepped
  <1>9. Unbusy(t)
    BY <1>1, <1>2, <1>r, <1>a, <1>b DEF IsWorked, OutOfTransaction, SameSc, SamePc, SameEnding, SameBook, SameLine, SameBusy, SameData, Unbusy, Stepped
  <1> QED BY <1>3, <1>4, <1>5, <1>6, <1>7, <1>8, <1>9 DEF Inv

(* The rows of a generator are over. *)
LEMMA InvDrains ==
    ASSUME NEW s, NEW t, NEW stage \in {"delivering", "ended"}, Inv(s), TypeInv(t),
           ~IsIdle(s), s.busy.stage \in {"affected", "delivering"}, s.busy.call # 0,
           IsWorked(s, t, s.conn, s.db, stage, s.busy.failed)
    PROVE  Inv(t)
  <1>1. /\ TypeInv(s) /\ Steady(s) /\ Queue(s) /\ Flight(s) /\ Carries(s) /\ Stages(s)
        /\ Connection(s) /\ Unbusy(s)
    BY DEF Inv
  <1>2. /\ DOMAIN s.calls = 1 .. Len(s.calls) /\ Len(s.calls) \in Nat
        /\ DOMAIN t.calls = 1 .. Len(t.calls) /\ Len(t.calls) \in Nat
        /\ s \in States /\ t \in States
    BY <1>1, CallRange
  <1>r. /\ ~IsIdle(s) /\ s.busy.call # 0 => s.busy.call \in DOMAIN s.calls
        /\ s.abandoned # Nobody => s.abandoned \in DOMAIN s.calls
        /\ ~IsIdle(s) => s.busy.call \in 0 .. Len(s.calls)
        /\ s.pc \in Own <=> ~IsIdle(s) /\ s.busy.call = 0
    BY <1>1, <1>2 DEF TypeInv, OwnFlight, Bounds, Nobody
  <1>a. ~s.begun => s.busy.call = 0 /\ s.pc = "begin" /\ s.busy.verb = "begin" /\ ~s.busy.open /\ s.said = "out"
    <2>1. ~s.begun => Len(s.calls) = 0
      BY <1>1 DEF Stages
    <2>2. ~s.begun => s.busy.call = 0 /\ s.pc \in Own
      BY <1>2, <1>r, <2>1
    <2>3. ~s.begun => s.pc = "begin" /\ s.said = "out"
      BY <1>1, <2>2 DEF Stages, Own, Connection
    <2> QED BY <1>1, <2>2, <2>3 DEF Carries
  <1>b. ~s.done /\ s.pc \notin {"ready", "finishing", "publishing", "released"}
    BY <1>1 DEF Stages
  <1>3. Steady(t)
    BY <1>1, <1>2, <1>r, <1>a, <1>b DEF IsWorked, SameSc, SamePc, SameEnding, SameBook, SameLine, SameBusy, SameData, Steady
  <1>4. Queue(t)
    BY <1>1, <1>2, <1>r, <1>a, <1>b, QueueStays DEF IsWorked, SameSc, SamePc, SameEnding, SameBook, SameLine, SameBusy, SameData, InLine, Stepped
  <1>5. Flight(t)
    <2>1. ASSUME NEW j \in DOMAIN t.calls
          PROVE  Working(t.calls[j]) \/ t.calls[j].pc = "left" =>
                    ~IsIdle(t) /\ t.busy.call = j
      BY <1>1, <1>2, <1>r, <1>a, <1>b DEF IsWorked, SameSc, SamePc, SameEnding, SameBook, SameLine, SameBusy, SameData, Flight, Working, Asks, Stepped, Kin, SameQuery, IsIdle
    <2>2. ASSUME NEW j \in DOMAIN t.calls, t.calls[j].pc = "left"
          PROVE  t.abandoned = j
      BY <1>1, <1>2, <1>r, <1>a, <1>b, <2>2 DEF IsWorked, SameSc, SamePc, SameEnding, SameBook, SameLine, SameBusy, SameData, Flight, Working, Asks, Stepped, Kin, SameQuery, IsIdle
    <2>3. ASSUME NEW j \in DOMAIN t.calls, t.calls[j].pc = "asking"
          PROVE  t.abandoned = Nobody /\ (t.ending # "none" => t.cut) /\ Asks(t, t.calls[j])
      BY <1>1, <1>2, <1>r, <1>a, <1>b, <2>3 DEF IsWorked, SameSc, SamePc, SameEnding, SameBook, SameLine, SameBusy, SameData, Flight, Working, Asks, Stepped, Kin, SameQuery, IsIdle
    <2>4. t.abandoned # Nobody => t.calls[t.abandoned].pc = "left"
      BY <1>1, <1>2, <1>r, <1>a, <1>b DEF IsWorked, SameSc, SamePc, SameEnding, SameBook, SameLine, SameBusy, SameData, Flight, Working, Asks, Stepped, Kin, SameQuery, IsIdle
    <2>5. ~IsIdle(t) /\ t.busy.call # 0 =>
             Working(t.calls[t.busy.call]) \/ t.calls[t.busy.call].pc = "left"
      BY <1>1, <1>2, <1>r, <1>a, <1>b DEF IsWorked, SameSc, SamePc, SameEnding, SameBook, SameLine, SameBusy, SameData, Flight, Working, Asks, Stepped, Kin, SameQuery, IsIdle
    <2> QED BY <2>1, <2>2, <2>3, <2>4, <2>5 DEF Flight
  <1>6. Carries(t)
    <2> SUFFICES ASSUME ~IsIdle(t)
                 PROVE  Carries(t)
      BY DEF Carries
    <2>1. t.busy.call = 0 =>
              /\ ~t.busy.open
              /\ t.busy.verb = "begin" <=> t.pc = "begin"
              /\ t.pc = "rolling" => t.busy.verb = "rollback"
      BY <1>1, <1>2, <1>r, <1>a, <1>b DEF IsWorked, SameSc, SamePc, SameEnding, SameBook, SameLine, SameBusy, SameData, Carries, VerbOfKind, Kin, SameQuery, Stepped, IsIdle
    <2>2. t.busy.call # 0 =>
              /\ t.busy.verb = IF t.calls[t.busy.call].pc = "dropping" THEN "release"
                              ELSE VerbOfKind(t.calls[t.busy.call].kind)
              /\ t.busy.name = t.calls[t.busy.call].name
      BY <1>1, <1>2, <1>r, <1>a, <1>b, SMTT(30) DEF IsWorked, SameSc, SamePc, SameEnding, SameBook, SameLine, SameBusy, SameData, Carries, VerbOfKind, Kin, SameQuery, Stepped, IsIdle
    <2>3. t.busy.call # 0 =>
              /\ t.busy.open => Statement(t.calls[t.busy.call].kind) /\ ~t.readOnly
              /\ t.busy.stage \in {"affected", "delivering"} => t.calls[t.busy.call].kind = "gen"
              /\ t.calls[t.busy.call].pc = "dropping" =>
                    t.calls[t.busy.call].kind = "rollbackTo" /\ ~t.calls[t.busy.call].keep
      BY <1>1, <1>2, <1>r, <1>a, <1>b, SMTT(30) DEF IsWorked, SameSc, SamePc, SameEnding, SameBook, SameLine, SameBusy, SameData, Carries, VerbOfKind, Kin, SameQuery, Stepped, IsIdle
    <2>4. t.busy.verb = "begin" => t.busy.conclude = "none"
      BY <1>1, <1>2, <1>r, <1>a, <1>b DEF IsWorked, SameSc, SamePc, SameEnding, SameBook, SameLine, SameBusy, SameData, Carries, VerbOfKind, Kin, SameQuery, Stepped, IsIdle
    <2> QED BY <2>1, <2>2, <2>3, <2>4 DEF Carries
  <1>7. Stages(t)
    BY <1>1, <1>2, <1>r, <1>a, <1>b DEF IsWorked, SameSc, SamePc, SameEnding, SameBook, SameLine, SameBusy, SameData, Stages, Stepped, IsIdle
  <1>8. Connection(t)
    BY <1>1, <1>2, <1>r, <1>a, <1>b DEF IsWorked, SameSc, SamePc, SameEnding, SameBook, SameLine, SameBusy, SameData, Connection, SameQuery, IsIdle, Stepped
  <1>9. Unbusy(t)
    BY <1>1, <1>2, <1>r, <1>a, <1>b DEF IsWorked, SameSc, SamePc, SameEnding, SameBook, SameLine, SameBusy, SameData, Unbusy, Stepped
  <1> QED BY <1>3, <1>4, <1>5, <1>6, <1>7, <1>8, <1>9 DEF Inv

(* The worker dies. *)
LEMMA InvCrashed ==
    ASSUME NEW s, NEW t, Inv(s), TypeInv(t),
           ~s.dead, s.pc # "acquiring", IsCrashed(s, t)
    PROVE  Inv(t)
  <1>1. /\ TypeInv(s) /\ Steady(s) /\ Queue(s) /\ Flight(s) /\ Carries(s) /\ Stages(s)
        /\ Connection(s) /\ Unbusy(s)
    BY DEF Inv
  <1>2. /\ DOMAIN s.calls = 1 .. Len(s.calls) /\ Len(s.calls) \in Nat
        /\ DOMAIN t.calls = 1 .. Len(t.calls) /\ Len(t.calls) \in Nat
        /\ s \in States /\ t \in States
    BY <1>1, CallRange
  <1>r. /\ ~IsIdle(s) /\ s.busy.call # 0 => s.busy.call \in DOMAIN s.calls
        /\ s.abandoned # Nobody => s.abandoned \in DOMAIN s.calls
        /\ ~IsIdle(s) => s.busy.call \in 0 .. Len(s.calls)
        /\ s.pc \in Own <=> ~IsIdle(s) /\ s.busy.call = 0
    BY <1>1, <1>2 DEF TypeInv, OwnFlight, Bounds, Nobody
  <1>3. Steady(t)
    BY <1>1, <1>2, <1>r DEF IsCrashed, Ended, OutOfTransaction, SameSc, SamePc, SameEnding, SameBook, SameLine, SameBusy, SameData, Steady
  <1>4. Queue(t)
    BY <1>1, <1>2, <1>r, QueueStays DEF IsCrashed, Ended, OutOfTransaction, SameSc, SamePc, SameEnding, SameBook, SameLine, SameBusy, SameData, InLine, Stepped
  <1>5. Flight(t)
    <2>1. ASSUME NEW j \in DOMAIN t.calls
          PROVE  Working(t.calls[j]) \/ t.calls[j].pc = "left" =>
                    ~IsIdle(t) /\ t.busy.call = j
      BY <1>1, <1>2, <1>r DEF IsCrashed, Ended, OutOfTransaction, SameSc, SamePc, SameEnding, SameBook, SameLine, SameBusy, SameData, Flight, Working, Asks, Stepped, Kin, SameQuery, IsIdle
    <2>2. ASSUME NEW j \in DOMAIN t.calls, t.calls[j].pc = "left"
          PROVE  t.abandoned = j
      BY <1>1, <1>2, <1>r, <2>2 DEF IsCrashed, Ended, OutOfTransaction, SameSc, SamePc, SameEnding, SameBook, SameLine, SameBusy, SameData, Flight, Working, Asks, Stepped, Kin, SameQuery, IsIdle
    <2>3. ASSUME NEW j \in DOMAIN t.calls, t.calls[j].pc = "asking"
          PROVE  t.abandoned = Nobody /\ (t.ending # "none" => t.cut) /\ Asks(t, t.calls[j])
      BY <1>1, <1>2, <1>r, <2>3 DEF IsCrashed, Ended, OutOfTransaction, SameSc, SamePc, SameEnding, SameBook, SameLine, SameBusy, SameData, Flight, Working, Asks, Stepped, Kin, SameQuery, IsIdle
    <2>4. t.abandoned # Nobody => t.calls[t.abandoned].pc = "left"
      BY <1>1, <1>2, <1>r DEF IsCrashed, Ended, OutOfTransaction, SameSc, SamePc, SameEnding, SameBook, SameLine, SameBusy, SameData, Flight, Working, Asks, Stepped, Kin, SameQuery, IsIdle
    <2>5. ~IsIdle(t) /\ t.busy.call # 0 =>
             Working(t.calls[t.busy.call]) \/ t.calls[t.busy.call].pc = "left"
      BY <1>1, <1>2, <1>r DEF IsCrashed, Ended, OutOfTransaction, SameSc, SamePc, SameEnding, SameBook, SameLine, SameBusy, SameData, Flight, Working, Asks, Stepped, Kin, SameQuery, IsIdle
    <2> QED BY <2>1, <2>2, <2>3, <2>4, <2>5 DEF Flight
  <1>6. Carries(t)
    <2> SUFFICES ASSUME ~IsIdle(t)
                 PROVE  Carries(t)
      BY DEF Carries
    <2>1. t.busy.call = 0 =>
              /\ ~t.busy.open
              /\ t.busy.verb = "begin" <=> t.pc = "begin"
              /\ t.pc = "rolling" => t.busy.verb = "rollback"
      BY <1>1, <1>2, <1>r DEF IsCrashed, Ended, OutOfTransaction, SameSc, SamePc, SameEnding, SameBook, SameLine, SameBusy, SameData, Carries, VerbOfKind, Kin, SameQuery, Stepped, IsIdle
    <2>2. t.busy.call # 0 =>
              /\ t.busy.verb = IF t.calls[t.busy.call].pc = "dropping" THEN "release"
                              ELSE VerbOfKind(t.calls[t.busy.call].kind)
              /\ t.busy.name = t.calls[t.busy.call].name
      BY <1>1, <1>2, <1>r, SMTT(30) DEF IsCrashed, Ended, OutOfTransaction, SameSc, SamePc, SameEnding, SameBook, SameLine, SameBusy, SameData, Carries, VerbOfKind, Kin, SameQuery, Stepped, IsIdle
    <2>3. t.busy.call # 0 =>
              /\ t.busy.open => Statement(t.calls[t.busy.call].kind) /\ ~t.readOnly
              /\ t.busy.stage \in {"affected", "delivering"} => t.calls[t.busy.call].kind = "gen"
              /\ t.calls[t.busy.call].pc = "dropping" =>
                    t.calls[t.busy.call].kind = "rollbackTo" /\ ~t.calls[t.busy.call].keep
      BY <1>1, <1>2, <1>r, SMTT(30) DEF IsCrashed, Ended, OutOfTransaction, SameSc, SamePc, SameEnding, SameBook, SameLine, SameBusy, SameData, Carries, VerbOfKind, Kin, SameQuery, Stepped, IsIdle
    <2>4. t.busy.verb = "begin" => t.busy.conclude = "none"
      BY <1>1, <1>2, <1>r DEF IsCrashed, Ended, OutOfTransaction, SameSc, SamePc, SameEnding, SameBook, SameLine, SameBusy, SameData, Carries, VerbOfKind, Kin, SameQuery, Stepped, IsIdle
    <2> QED BY <2>1, <2>2, <2>3, <2>4 DEF Carries
  <1>7. Stages(t)
    BY <1>1, <1>2, <1>r DEF IsCrashed, Ended, OutOfTransaction, SameSc, SamePc, SameEnding, SameBook, SameLine, SameBusy, SameData, Stages, Stepped, IsIdle
  <1>8. Connection(t)
    BY <1>1, <1>2, <1>r DEF IsCrashed, Ended, OutOfTransaction, SameSc, SamePc, SameEnding, SameBook, SameLine, SameBusy, SameData, Connection, SameQuery, IsIdle, Stepped
  <1>9. Unbusy(t)
    BY <1>1, <1>2, <1>r DEF IsCrashed, Ended, OutOfTransaction, SameSc, SamePc, SameEnding, SameBook, SameLine, SameBusy, SameData, Unbusy, Stepped
  <1> QED BY <1>3, <1>4, <1>5, <1>6, <1>7, <1>8, <1>9 DEF Inv

(* The rows of a generator are delivered. *)
LEMMA InvDelivering ==
    ASSUME NEW s, NEW t, NEW i \in DOMAIN s.calls, Inv(s), TypeInv(t),
           IsMoved(s, t, i, "delivering"), s.calls[i].pc = "running"
    PROVE  Inv(t)
  <1>1. /\ TypeInv(s) /\ Steady(s) /\ Queue(s) /\ Flight(s) /\ Carries(s) /\ Stages(s)
        /\ Connection(s) /\ Unbusy(s)
    BY DEF Inv
  <1>2. /\ DOMAIN s.calls = 1 .. Len(s.calls) /\ Len(s.calls) \in Nat
        /\ DOMAIN t.calls = 1 .. Len(t.calls) /\ Len(t.calls) \in Nat
        /\ s \in States /\ t \in States
    BY <1>1, CallRange
  <1>r. /\ ~IsIdle(s) /\ s.busy.call # 0 => s.busy.call \in DOMAIN s.calls
        /\ s.abandoned # Nobody => s.abandoned \in DOMAIN s.calls
        /\ ~IsIdle(s) => s.busy.call \in 0 .. Len(s.calls)
        /\ s.pc \in Own <=> ~IsIdle(s) /\ s.busy.call = 0
    BY <1>1, <1>2 DEF TypeInv, OwnFlight, Bounds, Nobody
  <1>3. Steady(t)
    BY <1>1, <1>2, <1>r DEF IsMoved, SameSc, SamePc, SameEnding, SameBook, SameLine, SameBusy, SameData, Steady
  <1>4. Queue(t)
    BY <1>1, <1>2, <1>r, QueueStays DEF IsMoved, SameSc, SamePc, SameEnding, SameBook, SameLine, SameBusy, SameData, InLine, Stepped
  <1>5. Flight(t)
    <2>1. ASSUME NEW j \in DOMAIN t.calls
          PROVE  Working(t.calls[j]) \/ t.calls[j].pc = "left" =>
                    ~IsIdle(t) /\ t.busy.call = j
      BY <1>1, <1>2, <1>r DEF IsMoved, SameSc, SamePc, SameEnding, SameBook, SameLine, SameBusy, SameData, Flight, Working, Asks, Stepped, Kin, SameQuery, IsIdle
    <2>2. ASSUME NEW j \in DOMAIN t.calls, t.calls[j].pc = "left"
          PROVE  t.abandoned = j
      BY <1>1, <1>2, <1>r, <2>2 DEF IsMoved, SameSc, SamePc, SameEnding, SameBook, SameLine, SameBusy, SameData, Flight, Working, Asks, Stepped, Kin, SameQuery, IsIdle
    <2>3. ASSUME NEW j \in DOMAIN t.calls, t.calls[j].pc = "asking"
          PROVE  t.abandoned = Nobody /\ (t.ending # "none" => t.cut) /\ Asks(t, t.calls[j])
      BY <1>1, <1>2, <1>r, <2>3 DEF IsMoved, SameSc, SamePc, SameEnding, SameBook, SameLine, SameBusy, SameData, Flight, Working, Asks, Stepped, Kin, SameQuery, IsIdle
    <2>4. t.abandoned # Nobody => t.calls[t.abandoned].pc = "left"
      BY <1>1, <1>2, <1>r DEF IsMoved, SameSc, SamePc, SameEnding, SameBook, SameLine, SameBusy, SameData, Flight, Working, Asks, Stepped, Kin, SameQuery, IsIdle
    <2>5. ~IsIdle(t) /\ t.busy.call # 0 =>
             Working(t.calls[t.busy.call]) \/ t.calls[t.busy.call].pc = "left"
      BY <1>1, <1>2, <1>r DEF IsMoved, SameSc, SamePc, SameEnding, SameBook, SameLine, SameBusy, SameData, Flight, Working, Asks, Stepped, Kin, SameQuery, IsIdle
    <2> QED BY <2>1, <2>2, <2>3, <2>4, <2>5 DEF Flight
  <1>6. Carries(t)
    <2> SUFFICES ASSUME ~IsIdle(t)
                 PROVE  Carries(t)
      BY DEF Carries
    <2>1. t.busy.call = 0 =>
              /\ ~t.busy.open
              /\ t.busy.verb = "begin" <=> t.pc = "begin"
              /\ t.pc = "rolling" => t.busy.verb = "rollback"
      BY <1>1, <1>2, <1>r DEF IsMoved, SameSc, SamePc, SameEnding, SameBook, SameLine, SameBusy, SameData, Carries, VerbOfKind, Kin, SameQuery, Stepped, IsIdle
    <2>2. t.busy.call # 0 =>
              /\ t.busy.verb = IF t.calls[t.busy.call].pc = "dropping" THEN "release"
                              ELSE VerbOfKind(t.calls[t.busy.call].kind)
              /\ t.busy.name = t.calls[t.busy.call].name
      BY <1>1, <1>2, <1>r, SMTT(30) DEF IsMoved, SameSc, SamePc, SameEnding, SameBook, SameLine, SameBusy, SameData, Carries, VerbOfKind, Kin, SameQuery, Stepped, IsIdle
    <2>3. t.busy.call # 0 =>
              /\ t.busy.open => Statement(t.calls[t.busy.call].kind) /\ ~t.readOnly
              /\ t.busy.stage \in {"affected", "delivering"} => t.calls[t.busy.call].kind = "gen"
              /\ t.calls[t.busy.call].pc = "dropping" =>
                    t.calls[t.busy.call].kind = "rollbackTo" /\ ~t.calls[t.busy.call].keep
      BY <1>1, <1>2, <1>r, SMTT(30) DEF IsMoved, SameSc, SamePc, SameEnding, SameBook, SameLine, SameBusy, SameData, Carries, VerbOfKind, Kin, SameQuery, Stepped, IsIdle
    <2>4. t.busy.verb = "begin" => t.busy.conclude = "none"
      BY <1>1, <1>2, <1>r DEF IsMoved, SameSc, SamePc, SameEnding, SameBook, SameLine, SameBusy, SameData, Carries, VerbOfKind, Kin, SameQuery, Stepped, IsIdle
    <2> QED BY <2>1, <2>2, <2>3, <2>4 DEF Carries
  <1>7. Stages(t)
    BY <1>1, <1>2, <1>r DEF IsMoved, SameSc, SamePc, SameEnding, SameBook, SameLine, SameBusy, SameData, Stages, Stepped, IsIdle
  <1>8. Connection(t)
    BY <1>1, <1>2, <1>r DEF IsMoved, SameSc, SamePc, SameEnding, SameBook, SameLine, SameBusy, SameData, Connection, SameQuery, IsIdle, Stepped
  <1>9. Unbusy(t)
    BY <1>1, <1>2, <1>r DEF IsMoved, SameSc, SamePc, SameEnding, SameBook, SameLine, SameBusy, SameData, Unbusy, Stepped
  <1> QED BY <1>3, <1>4, <1>5, <1>6, <1>7, <1>8, <1>9 DEF Inv

(* Its caller is told. *)
LEMMA InvTold ==
    ASSUME NEW s, NEW t, NEW i \in DOMAIN s.calls, Inv(s), TypeInv(t),
           IsTold(s, t, i, "ok")
    PROVE  Inv(t)
  <1>1. /\ TypeInv(s) /\ Steady(s) /\ Queue(s) /\ Flight(s) /\ Carries(s) /\ Stages(s)
        /\ Connection(s) /\ Unbusy(s)
    BY DEF Inv
  <1>2. /\ DOMAIN s.calls = 1 .. Len(s.calls) /\ Len(s.calls) \in Nat
        /\ DOMAIN t.calls = 1 .. Len(t.calls) /\ Len(t.calls) \in Nat
        /\ s \in States /\ t \in States
    BY <1>1, CallRange
  <1>r. /\ ~IsIdle(s) /\ s.busy.call # 0 => s.busy.call \in DOMAIN s.calls
        /\ s.abandoned # Nobody => s.abandoned \in DOMAIN s.calls
        /\ ~IsIdle(s) => s.busy.call \in 0 .. Len(s.calls)
        /\ s.pc \in Own <=> ~IsIdle(s) /\ s.busy.call = 0
    BY <1>1, <1>2 DEF TypeInv, OwnFlight, Bounds, Nobody
  <1>3. Steady(t)
    BY <1>1, <1>2, <1>r DEF IsTold, SameSc, SamePc, SameEnding, SameBook, SameLine, SameBusy, SameData, Steady
  <1>4. Queue(t)
    BY <1>1, <1>2, <1>r, QueueStays DEF IsTold, SameSc, SamePc, SameEnding, SameBook, SameLine, SameBusy, SameData, InLine, Stepped
  <1>5. Flight(t)
    <2>1. ASSUME NEW j \in DOMAIN t.calls
          PROVE  Working(t.calls[j]) \/ t.calls[j].pc = "left" =>
                    ~IsIdle(t) /\ t.busy.call = j
      BY <1>1, <1>2, <1>r DEF IsTold, SameSc, SamePc, SameEnding, SameBook, SameLine, SameBusy, SameData, Flight, Working, Asks, Stepped, Kin, SameQuery, IsIdle
    <2>2. ASSUME NEW j \in DOMAIN t.calls, t.calls[j].pc = "left"
          PROVE  t.abandoned = j
      BY <1>1, <1>2, <1>r, <2>2 DEF IsTold, SameSc, SamePc, SameEnding, SameBook, SameLine, SameBusy, SameData, Flight, Working, Asks, Stepped, Kin, SameQuery, IsIdle
    <2>3. ASSUME NEW j \in DOMAIN t.calls, t.calls[j].pc = "asking"
          PROVE  t.abandoned = Nobody /\ (t.ending # "none" => t.cut) /\ Asks(t, t.calls[j])
      BY <1>1, <1>2, <1>r, <2>3 DEF IsTold, SameSc, SamePc, SameEnding, SameBook, SameLine, SameBusy, SameData, Flight, Working, Asks, Stepped, Kin, SameQuery, IsIdle
    <2>4. t.abandoned # Nobody => t.calls[t.abandoned].pc = "left"
      BY <1>1, <1>2, <1>r DEF IsTold, SameSc, SamePc, SameEnding, SameBook, SameLine, SameBusy, SameData, Flight, Working, Asks, Stepped, Kin, SameQuery, IsIdle
    <2>5. ~IsIdle(t) /\ t.busy.call # 0 =>
             Working(t.calls[t.busy.call]) \/ t.calls[t.busy.call].pc = "left"
      BY <1>1, <1>2, <1>r DEF IsTold, SameSc, SamePc, SameEnding, SameBook, SameLine, SameBusy, SameData, Flight, Working, Asks, Stepped, Kin, SameQuery, IsIdle
    <2> QED BY <2>1, <2>2, <2>3, <2>4, <2>5 DEF Flight
  <1>6. Carries(t)
    <2> SUFFICES ASSUME ~IsIdle(t)
                 PROVE  Carries(t)
      BY DEF Carries
    <2>1. t.busy.call = 0 =>
              /\ ~t.busy.open
              /\ t.busy.verb = "begin" <=> t.pc = "begin"
              /\ t.pc = "rolling" => t.busy.verb = "rollback"
      BY <1>1, <1>2, <1>r DEF IsTold, SameSc, SamePc, SameEnding, SameBook, SameLine, SameBusy, SameData, Carries, VerbOfKind, Kin, SameQuery, Stepped, IsIdle
    <2>2. t.busy.call # 0 =>
              /\ t.busy.verb = IF t.calls[t.busy.call].pc = "dropping" THEN "release"
                              ELSE VerbOfKind(t.calls[t.busy.call].kind)
              /\ t.busy.name = t.calls[t.busy.call].name
      BY <1>1, <1>2, <1>r, SMTT(30) DEF IsTold, SameSc, SamePc, SameEnding, SameBook, SameLine, SameBusy, SameData, Carries, VerbOfKind, Kin, SameQuery, Stepped, IsIdle
    <2>3. t.busy.call # 0 =>
              /\ t.busy.open => Statement(t.calls[t.busy.call].kind) /\ ~t.readOnly
              /\ t.busy.stage \in {"affected", "delivering"} => t.calls[t.busy.call].kind = "gen"
              /\ t.calls[t.busy.call].pc = "dropping" =>
                    t.calls[t.busy.call].kind = "rollbackTo" /\ ~t.calls[t.busy.call].keep
      BY <1>1, <1>2, <1>r, SMTT(30) DEF IsTold, SameSc, SamePc, SameEnding, SameBook, SameLine, SameBusy, SameData, Carries, VerbOfKind, Kin, SameQuery, Stepped, IsIdle
    <2>4. t.busy.verb = "begin" => t.busy.conclude = "none"
      BY <1>1, <1>2, <1>r DEF IsTold, SameSc, SamePc, SameEnding, SameBook, SameLine, SameBusy, SameData, Carries, VerbOfKind, Kin, SameQuery, Stepped, IsIdle
    <2> QED BY <2>1, <2>2, <2>3, <2>4 DEF Carries
  <1>7. Stages(t)
    BY <1>1, <1>2, <1>r DEF IsTold, SameSc, SamePc, SameEnding, SameBook, SameLine, SameBusy, SameData, Stages, Stepped, IsIdle
  <1>8. Connection(t)
    BY <1>1, <1>2, <1>r DEF IsTold, SameSc, SamePc, SameEnding, SameBook, SameLine, SameBusy, SameData, Connection, SameQuery, IsIdle, Stepped
  <1>9. Unbusy(t)
    BY <1>1, <1>2, <1>r DEF IsTold, SameSc, SamePc, SameEnding, SameBook, SameLine, SameBusy, SameData, Unbusy, Stepped
  <1> QED BY <1>3, <1>4, <1>5, <1>6, <1>7, <1>8, <1>9 DEF Inv

(* The account has it. *)
LEMMA InvRecorded ==
    ASSUME NEW s, NEW t, NEW i \in DOMAIN s.calls, Inv(s), TypeInv(t),
           IsRecorded(s, t, i)
    PROVE  Inv(t)
  <1>1. /\ TypeInv(s) /\ Steady(s) /\ Queue(s) /\ Flight(s) /\ Carries(s) /\ Stages(s)
        /\ Connection(s) /\ Unbusy(s)
    BY DEF Inv
  <1>2. /\ DOMAIN s.calls = 1 .. Len(s.calls) /\ Len(s.calls) \in Nat
        /\ DOMAIN t.calls = 1 .. Len(t.calls) /\ Len(t.calls) \in Nat
        /\ s \in States /\ t \in States
    BY <1>1, CallRange
  <1>r. /\ ~IsIdle(s) /\ s.busy.call # 0 => s.busy.call \in DOMAIN s.calls
        /\ s.abandoned # Nobody => s.abandoned \in DOMAIN s.calls
        /\ ~IsIdle(s) => s.busy.call \in 0 .. Len(s.calls)
        /\ s.pc \in Own <=> ~IsIdle(s) /\ s.busy.call = 0
    BY <1>1, <1>2 DEF TypeInv, OwnFlight, Bounds, Nobody
  <1>3. Steady(t)
    BY <1>1, <1>2, <1>r DEF IsRecorded, SameSc, SamePc, SameEnding, SameBook, SameLine, SameBusy, SameData, Steady
  <1>4. Queue(t)
    BY <1>1, <1>2, <1>r, QueueStays DEF IsRecorded, SameSc, SamePc, SameEnding, SameBook, SameLine, SameBusy, SameData, InLine, Stepped
  <1>5. Flight(t)
    <2>1. ASSUME NEW j \in DOMAIN t.calls
          PROVE  Working(t.calls[j]) \/ t.calls[j].pc = "left" =>
                    ~IsIdle(t) /\ t.busy.call = j
      BY <1>1, <1>2, <1>r DEF IsRecorded, SameSc, SamePc, SameEnding, SameBook, SameLine, SameBusy, SameData, Flight, Working, Asks, Stepped, Kin, SameQuery, IsIdle
    <2>2. ASSUME NEW j \in DOMAIN t.calls, t.calls[j].pc = "left"
          PROVE  t.abandoned = j
      BY <1>1, <1>2, <1>r, <2>2 DEF IsRecorded, SameSc, SamePc, SameEnding, SameBook, SameLine, SameBusy, SameData, Flight, Working, Asks, Stepped, Kin, SameQuery, IsIdle
    <2>3. ASSUME NEW j \in DOMAIN t.calls, t.calls[j].pc = "asking"
          PROVE  t.abandoned = Nobody /\ (t.ending # "none" => t.cut) /\ Asks(t, t.calls[j])
      BY <1>1, <1>2, <1>r, <2>3 DEF IsRecorded, SameSc, SamePc, SameEnding, SameBook, SameLine, SameBusy, SameData, Flight, Working, Asks, Stepped, Kin, SameQuery, IsIdle
    <2>4. t.abandoned # Nobody => t.calls[t.abandoned].pc = "left"
      BY <1>1, <1>2, <1>r DEF IsRecorded, SameSc, SamePc, SameEnding, SameBook, SameLine, SameBusy, SameData, Flight, Working, Asks, Stepped, Kin, SameQuery, IsIdle
    <2>5. ~IsIdle(t) /\ t.busy.call # 0 =>
             Working(t.calls[t.busy.call]) \/ t.calls[t.busy.call].pc = "left"
      BY <1>1, <1>2, <1>r DEF IsRecorded, SameSc, SamePc, SameEnding, SameBook, SameLine, SameBusy, SameData, Flight, Working, Asks, Stepped, Kin, SameQuery, IsIdle
    <2> QED BY <2>1, <2>2, <2>3, <2>4, <2>5 DEF Flight
  <1>6. Carries(t)
    <2> SUFFICES ASSUME ~IsIdle(t)
                 PROVE  Carries(t)
      BY DEF Carries
    <2>1. t.busy.call = 0 =>
              /\ ~t.busy.open
              /\ t.busy.verb = "begin" <=> t.pc = "begin"
              /\ t.pc = "rolling" => t.busy.verb = "rollback"
      BY <1>1, <1>2, <1>r DEF IsRecorded, SameSc, SamePc, SameEnding, SameBook, SameLine, SameBusy, SameData, Carries, VerbOfKind, Kin, SameQuery, Stepped, IsIdle
    <2>2. t.busy.call # 0 =>
              /\ t.busy.verb = IF t.calls[t.busy.call].pc = "dropping" THEN "release"
                              ELSE VerbOfKind(t.calls[t.busy.call].kind)
              /\ t.busy.name = t.calls[t.busy.call].name
      BY <1>1, <1>2, <1>r, SMTT(30) DEF IsRecorded, SameSc, SamePc, SameEnding, SameBook, SameLine, SameBusy, SameData, Carries, VerbOfKind, Kin, SameQuery, Stepped, IsIdle
    <2>3. t.busy.call # 0 =>
              /\ t.busy.open => Statement(t.calls[t.busy.call].kind) /\ ~t.readOnly
              /\ t.busy.stage \in {"affected", "delivering"} => t.calls[t.busy.call].kind = "gen"
              /\ t.calls[t.busy.call].pc = "dropping" =>
                    t.calls[t.busy.call].kind = "rollbackTo" /\ ~t.calls[t.busy.call].keep
      BY <1>1, <1>2, <1>r, SMTT(30) DEF IsRecorded, SameSc, SamePc, SameEnding, SameBook, SameLine, SameBusy, SameData, Carries, VerbOfKind, Kin, SameQuery, Stepped, IsIdle
    <2>4. t.busy.verb = "begin" => t.busy.conclude = "none"
      BY <1>1, <1>2, <1>r DEF IsRecorded, SameSc, SamePc, SameEnding, SameBook, SameLine, SameBusy, SameData, Carries, VerbOfKind, Kin, SameQuery, Stepped, IsIdle
    <2> QED BY <2>1, <2>2, <2>3, <2>4 DEF Carries
  <1>7. Stages(t)
    BY <1>1, <1>2, <1>r DEF IsRecorded, SameSc, SamePc, SameEnding, SameBook, SameLine, SameBusy, SameData, Stages, Stepped, IsIdle
  <1>8. Connection(t)
    BY <1>1, <1>2, <1>r DEF IsRecorded, SameSc, SamePc, SameEnding, SameBook, SameLine, SameBusy, SameData, Connection, SameQuery, IsIdle, Stepped
  <1>9. Unbusy(t)
    BY <1>1, <1>2, <1>r DEF IsRecorded, SameSc, SamePc, SameEnding, SameBook, SameLine, SameBusy, SameData, Unbusy, Stepped
  <1> QED BY <1>3, <1>4, <1>5, <1>6, <1>7, <1>8, <1>9 DEF Inv

(* A call that was given up is over. *)
LEMMA InvOverLeft ==
    ASSUME NEW s, NEW t, NEW i \in DOMAIN s.calls, Inv(s), TypeInv(t),
           ~IsIdle(s), i = s.busy.call, s.busy.stage = "ended", OversLeft(s, t, i)
    PROVE  Inv(t)
  <1>1. /\ TypeInv(s) /\ Steady(s) /\ Queue(s) /\ Flight(s) /\ Carries(s) /\ Stages(s)
        /\ Connection(s) /\ Unbusy(s)
    BY DEF Inv
  <1>2. /\ DOMAIN s.calls = 1 .. Len(s.calls) /\ Len(s.calls) \in Nat
        /\ DOMAIN t.calls = 1 .. Len(t.calls) /\ Len(t.calls) \in Nat
        /\ s \in States /\ t \in States
    BY <1>1, CallRange
  <1>r. /\ ~IsIdle(s) /\ s.busy.call # 0 => s.busy.call \in DOMAIN s.calls
        /\ s.abandoned # Nobody => s.abandoned \in DOMAIN s.calls
        /\ ~IsIdle(s) => s.busy.call \in 0 .. Len(s.calls)
        /\ s.pc \in Own <=> ~IsIdle(s) /\ s.busy.call = 0
    BY <1>1, <1>2 DEF TypeInv, OwnFlight, Bounds, Nobody
  <1>a. /\ ~s.done /\ s.pc \notin {"ready", "finishing", "publishing", "released", "acquiring"}
        /\ s.pc \notin Own /\ s.begun /\ i \in DOMAIN s.calls /\ i # 0 /\ i # Nobody
    <2>1. i # 0 /\ i \in DOMAIN s.calls /\ s.pc \notin Own
      BY <1>1, <1>2, <1>r, CallRange
    <2>2. s.begun
      <3>1. Len(s.calls) # 0
        BY <1>2, <2>1
      <3> QED BY <1>1, <3>1 DEF Stages
    <2> QED BY <1>1, <2>1, <2>2 DEF Stages, Nobody
  <1>3. Steady(t)
    BY <1>1, <1>2, <1>r, <1>a DEF OversLeft, IsOver, IsEnding, SameSc, SamePc, SameEnding, SameBook, SameLine, SameBusy, SameData, Steady
  <1>4. Queue(t)
    BY <1>1, <1>2, <1>r, <1>a, QueueStays DEF OversLeft, IsOver, IsEnding, SameSc, SamePc, SameEnding, SameBook, SameLine, SameBusy, SameData, InLine, Stepped
  <1>5. Flight(t)
    <2>1. ASSUME NEW j \in DOMAIN t.calls
          PROVE  Working(t.calls[j]) \/ t.calls[j].pc = "left" =>
                    ~IsIdle(t) /\ t.busy.call = j
      BY <1>1, <1>2, <1>r, <1>a DEF OversLeft, IsOver, IsEnding, SameSc, SamePc, SameEnding, SameBook, SameLine, SameBusy, SameData, Flight, Working, Asks, Stepped, Kin, SameQuery, IsIdle
    <2>2. ASSUME NEW j \in DOMAIN t.calls, t.calls[j].pc = "left"
          PROVE  t.abandoned = j
      BY <1>1, <1>2, <1>r, <1>a, <2>2 DEF OversLeft, IsOver, IsEnding, SameSc, SamePc, SameEnding, SameBook, SameLine, SameBusy, SameData, Flight, Working, Asks, Stepped, Kin, SameQuery, IsIdle
    <2>3. ASSUME NEW j \in DOMAIN t.calls, t.calls[j].pc = "asking"
          PROVE  t.abandoned = Nobody /\ (t.ending # "none" => t.cut) /\ Asks(t, t.calls[j])
      BY <1>1, <1>2, <1>r, <1>a, <2>3 DEF OversLeft, IsOver, IsEnding, SameSc, SamePc, SameEnding, SameBook, SameLine, SameBusy, SameData, Flight, Working, Asks, Stepped, Kin, SameQuery, IsIdle
    <2>4. t.abandoned # Nobody => t.calls[t.abandoned].pc = "left"
      BY <1>1, <1>2, <1>r, <1>a DEF OversLeft, IsOver, IsEnding, SameSc, SamePc, SameEnding, SameBook, SameLine, SameBusy, SameData, Flight, Working, Asks, Stepped, Kin, SameQuery, IsIdle
    <2>5. ~IsIdle(t) /\ t.busy.call # 0 =>
             Working(t.calls[t.busy.call]) \/ t.calls[t.busy.call].pc = "left"
      BY <1>1, <1>2, <1>r, <1>a DEF OversLeft, IsOver, IsEnding, SameSc, SamePc, SameEnding, SameBook, SameLine, SameBusy, SameData, Flight, Working, Asks, Stepped, Kin, SameQuery, IsIdle
    <2> QED BY <2>1, <2>2, <2>3, <2>4, <2>5 DEF Flight
  <1>6. Carries(t)
    <2> SUFFICES ASSUME ~IsIdle(t)
                 PROVE  Carries(t)
      BY DEF Carries
    <2>1. t.busy.call = 0 =>
              /\ ~t.busy.open
              /\ t.busy.verb = "begin" <=> t.pc = "begin"
              /\ t.pc = "rolling" => t.busy.verb = "rollback"
      BY <1>1, <1>2, <1>r, <1>a DEF OversLeft, IsOver, IsEnding, SameSc, SamePc, SameEnding, SameBook, SameLine, SameBusy, SameData, Carries, VerbOfKind, Kin, SameQuery, Stepped, IsIdle
    <2>2. t.busy.call # 0 =>
              /\ t.busy.verb = IF t.calls[t.busy.call].pc = "dropping" THEN "release"
                              ELSE VerbOfKind(t.calls[t.busy.call].kind)
              /\ t.busy.name = t.calls[t.busy.call].name
      BY <1>1, <1>2, <1>r, <1>a, SMTT(30) DEF OversLeft, IsOver, IsEnding, SameSc, SamePc, SameEnding, SameBook, SameLine, SameBusy, SameData, Carries, VerbOfKind, Kin, SameQuery, Stepped, IsIdle
    <2>3. t.busy.call # 0 =>
              /\ t.busy.open => Statement(t.calls[t.busy.call].kind) /\ ~t.readOnly
              /\ t.busy.stage \in {"affected", "delivering"} => t.calls[t.busy.call].kind = "gen"
              /\ t.calls[t.busy.call].pc = "dropping" =>
                    t.calls[t.busy.call].kind = "rollbackTo" /\ ~t.calls[t.busy.call].keep
      BY <1>1, <1>2, <1>r, <1>a, SMTT(30) DEF OversLeft, IsOver, IsEnding, SameSc, SamePc, SameEnding, SameBook, SameLine, SameBusy, SameData, Carries, VerbOfKind, Kin, SameQuery, Stepped, IsIdle
    <2>4. t.busy.verb = "begin" => t.busy.conclude = "none"
      BY <1>1, <1>2, <1>r, <1>a DEF OversLeft, IsOver, IsEnding, SameSc, SamePc, SameEnding, SameBook, SameLine, SameBusy, SameData, Carries, VerbOfKind, Kin, SameQuery, Stepped, IsIdle
    <2> QED BY <2>1, <2>2, <2>3, <2>4 DEF Carries
  <1>7. Stages(t)
    BY <1>1, <1>2, <1>r, <1>a DEF OversLeft, IsOver, IsEnding, SameSc, SamePc, SameEnding, SameBook, SameLine, SameBusy, SameData, Stages, Stepped, IsIdle
  <1>8. Connection(t)
    BY <1>1, <1>2, <1>r, <1>a DEF OversLeft, IsOver, IsEnding, SameSc, SamePc, SameEnding, SameBook, SameLine, SameBusy, SameData, Connection, SameQuery, IsIdle, Stepped
  <1>9. Unbusy(t)
    BY <1>1, <1>2, <1>r, <1>a DEF OversLeft, IsOver, IsEnding, SameSc, SamePc, SameEnding, SameBook, SameLine, SameBusy, SameData, Unbusy, Stepped
  <1> QED BY <1>3, <1>4, <1>5, <1>6, <1>7, <1>8, <1>9 DEF Inv

(* A call is over, and hands its place on. *)
LEMMA InvOver ==
    ASSUME NEW s, NEW t, NEW i \in DOMAIN s.calls, NEW v \in Tellings, NEW p \in BOOLEAN, Inv(s), TypeInv(t),
           ~IsIdle(s), i = s.busy.call, s.busy.stage = "ended",
           s.calls[i].pc # "left", v # "busy",
           IsOver(s, t, i), IsPassed(s, t, i, v), IsEnding(s, t, p)
    PROVE  Inv(t)
  <1>1. /\ TypeInv(s) /\ Steady(s) /\ Queue(s) /\ Flight(s) /\ Carries(s) /\ Stages(s)
        /\ Connection(s) /\ Unbusy(s)
    BY DEF Inv
  <1>2. /\ DOMAIN s.calls = 1 .. Len(s.calls) /\ Len(s.calls) \in Nat
        /\ DOMAIN t.calls = 1 .. Len(t.calls) /\ Len(t.calls) \in Nat
        /\ s \in States /\ t \in States
    BY <1>1, CallRange
  <1>r. /\ ~IsIdle(s) /\ s.busy.call # 0 => s.busy.call \in DOMAIN s.calls
        /\ s.abandoned # Nobody => s.abandoned \in DOMAIN s.calls
        /\ ~IsIdle(s) => s.busy.call \in 0 .. Len(s.calls)
        /\ s.pc \in Own <=> ~IsIdle(s) /\ s.busy.call = 0
    BY <1>1, <1>2 DEF TypeInv, OwnFlight, Bounds, Nobody
  <1>a. /\ ~s.done /\ s.pc \notin {"ready", "finishing", "publishing", "released", "acquiring"}
        /\ s.pc \notin Own /\ s.begun /\ i \in DOMAIN s.calls /\ i # 0 /\ i # Nobody
    <2>1. i # 0 /\ i \in DOMAIN s.calls /\ s.pc \notin Own
      BY <1>1, <1>2, <1>r, CallRange
    <2>2. s.begun
      <3>1. Len(s.calls) # 0
        BY <1>2, <2>1
      <3> QED BY <1>1, <3>1 DEF Stages
    <2> QED BY <1>1, <2>1, <2>2 DEF Stages, Nobody
  <1>b. /\ s.abandoned = Nobody /\ InLine(s.calls[i]) /\ s.calls[i].prior = Nobody
        /\ \A j \in DOMAIN s.calls : s.calls[j].pc # "asking"
    <2>1. Working(s.calls[i]) /\ s.abandoned = Nobody
      BY <1>1, <1>r, <1>a DEF Flight
    <2>2. InLine(s.calls[i]) /\ s.calls[i].pc # "waiting" /\ s.calls[i].pc # "asking"
      BY <2>1 DEF Working, InLine
    <2>3. s.calls[i].prior = Nobody
      BY <1>1, <1>a, <2>2, QueueFirst
    <2>4. ASSUME NEW j \in DOMAIN s.calls, s.calls[j].pc = "asking"
          PROVE  FALSE
      <3>1. InLine(s.calls[j]) /\ s.calls[j].prior = Nobody
        BY <1>1, <2>4, QueueFirst DEF InLine
      <3>2. j = i
        BY <1>1, <1>a, <2>2, <2>3, <3>1, QueueFirst
      <3> QED BY <2>2, <2>4, <3>2
    <2> QED BY <2>1, <2>2, <2>3, <2>4
  <1>3. Steady(t)
    BY <1>1, <1>2, <1>r, <1>a, <1>b DEF IsOver, IsPassed, IsEnding, SameSc, SamePc, SameEnding, SameBook, SameLine, SameBusy, SameData, Steady
  <1>4. Queue(t)
    <2>1. ~InLine(t.calls[i])
      <3>1. t.calls[i].pc = "over"
        BY <1>a DEF IsOver, IsEnding
      <3> QED BY <3>1 DEF InLine
    <2>2. DOMAIN t.calls = DOMAIN s.calls
      BY DEF IsOver, IsEnding
    <2>3. ASSUME NEW j \in DOMAIN s.calls, j # i
          PROVE  /\ t.calls[j].pc = s.calls[j].pc
                 /\ t.calls[j].prior = IF s.calls[j].prior = i THEN s.calls[i].prior
                                       ELSE s.calls[j].prior
      BY <2>3 DEF IsOver, IsPassed, IsEnding
    <2>4. t.ending = "none" =>
             /\ s.ending = "none"
             /\ t.tail = IF s.tail = i THEN Nobody ELSE s.tail
      BY DEF IsPassed, IsEnding
    <2> QED BY <1>1, <1>a, <1>b, <2>1, <2>2, <2>3, <2>4, QueueLeft
  <1>5. Flight(t)
    <2>1. ASSUME NEW j \in DOMAIN t.calls
          PROVE  Working(t.calls[j]) \/ t.calls[j].pc = "left" =>
                    ~IsIdle(t) /\ t.busy.call = j
      BY <1>1, <1>2, <1>r, <1>a, <1>b DEF IsOver, IsPassed, IsEnding, SameSc, SamePc, SameEnding, SameBook, SameLine, SameBusy, SameData, Flight, Working, Asks, Stepped, Kin, SameQuery, IsIdle
    <2>2. ASSUME NEW j \in DOMAIN t.calls, t.calls[j].pc = "left"
          PROVE  t.abandoned = j
      BY <1>1, <1>2, <1>r, <1>a, <1>b, <2>2 DEF IsOver, IsPassed, IsEnding, SameSc, SamePc, SameEnding, SameBook, SameLine, SameBusy, SameData, Flight, Working, Asks, Stepped, Kin, SameQuery, IsIdle
    <2>3. ASSUME NEW j \in DOMAIN t.calls, t.calls[j].pc = "asking"
          PROVE  t.abandoned = Nobody /\ (t.ending # "none" => t.cut) /\ Asks(t, t.calls[j])
      BY <1>1, <1>2, <1>r, <1>a, <1>b, <2>3 DEF IsOver, IsPassed, IsEnding, SameSc, SamePc, SameEnding, SameBook, SameLine, SameBusy, SameData, Flight, Working, Asks, Stepped, Kin, SameQuery, IsIdle
    <2>4. t.abandoned # Nobody => t.calls[t.abandoned].pc = "left"
      BY <1>1, <1>2, <1>r, <1>a, <1>b DEF IsOver, IsPassed, IsEnding, SameSc, SamePc, SameEnding, SameBook, SameLine, SameBusy, SameData, Flight, Working, Asks, Stepped, Kin, SameQuery, IsIdle
    <2>5. ~IsIdle(t) /\ t.busy.call # 0 =>
             Working(t.calls[t.busy.call]) \/ t.calls[t.busy.call].pc = "left"
      BY <1>1, <1>2, <1>r, <1>a, <1>b DEF IsOver, IsPassed, IsEnding, SameSc, SamePc, SameEnding, SameBook, SameLine, SameBusy, SameData, Flight, Working, Asks, Stepped, Kin, SameQuery, IsIdle
    <2> QED BY <2>1, <2>2, <2>3, <2>4, <2>5 DEF Flight
  <1>6. Carries(t)
    <2> SUFFICES ASSUME ~IsIdle(t)
                 PROVE  Carries(t)
      BY DEF Carries
    <2>1. t.busy.call = 0 =>
              /\ ~t.busy.open
              /\ t.busy.verb = "begin" <=> t.pc = "begin"
              /\ t.pc = "rolling" => t.busy.verb = "rollback"
      BY <1>1, <1>2, <1>r, <1>a, <1>b DEF IsOver, IsPassed, IsEnding, SameSc, SamePc, SameEnding, SameBook, SameLine, SameBusy, SameData, Carries, VerbOfKind, Kin, SameQuery, Stepped, IsIdle
    <2>2. t.busy.call # 0 =>
              /\ t.busy.verb = IF t.calls[t.busy.call].pc = "dropping" THEN "release"
                              ELSE VerbOfKind(t.calls[t.busy.call].kind)
              /\ t.busy.name = t.calls[t.busy.call].name
      BY <1>1, <1>2, <1>r, <1>a, <1>b, SMTT(30) DEF IsOver, IsPassed, IsEnding, SameSc, SamePc, SameEnding, SameBook, SameLine, SameBusy, SameData, Carries, VerbOfKind, Kin, SameQuery, Stepped, IsIdle
    <2>3. t.busy.call # 0 =>
              /\ t.busy.open => Statement(t.calls[t.busy.call].kind) /\ ~t.readOnly
              /\ t.busy.stage \in {"affected", "delivering"} => t.calls[t.busy.call].kind = "gen"
              /\ t.calls[t.busy.call].pc = "dropping" =>
                    t.calls[t.busy.call].kind = "rollbackTo" /\ ~t.calls[t.busy.call].keep
      BY <1>1, <1>2, <1>r, <1>a, <1>b, SMTT(30) DEF IsOver, IsPassed, IsEnding, SameSc, SamePc, SameEnding, SameBook, SameLine, SameBusy, SameData, Carries, VerbOfKind, Kin, SameQuery, Stepped, IsIdle
    <2>4. t.busy.verb = "begin" => t.busy.conclude = "none"
      BY <1>1, <1>2, <1>r, <1>a, <1>b DEF IsOver, IsPassed, IsEnding, SameSc, SamePc, SameEnding, SameBook, SameLine, SameBusy, SameData, Carries, VerbOfKind, Kin, SameQuery, Stepped, IsIdle
    <2> QED BY <2>1, <2>2, <2>3, <2>4 DEF Carries
  <1>7. Stages(t)
    BY <1>1, <1>2, <1>r, <1>a, <1>b DEF IsOver, IsPassed, IsEnding, SameSc, SamePc, SameEnding, SameBook, SameLine, SameBusy, SameData, Stages, Stepped, IsIdle
  <1>8. Connection(t)
    BY <1>1, <1>2, <1>r, <1>a, <1>b DEF IsOver, IsPassed, IsEnding, SameSc, SamePc, SameEnding, SameBook, SameLine, SameBusy, SameData, Connection, SameQuery, IsIdle, Stepped
  <1>9. Unbusy(t)
    BY <1>1, <1>2, <1>r, <1>a, <1>b DEF IsOver, IsPassed, IsEnding, SameSc, SamePc, SameEnding, SameBook, SameLine, SameBusy, SameData, Unbusy, Stepped
  <1> QED BY <1>3, <1>4, <1>5, <1>6, <1>7, <1>8, <1>9 DEF Inv

(* The callback concludes the transaction itself. *)
LEMMA InvOverEnding ==
    ASSUME NEW s, NEW t, NEW i \in DOMAIN s.calls, Inv(s), TypeInv(t),
           ~IsIdle(s), i = s.busy.call, s.busy.stage = "ended", OversEnding(s, t, i)
    PROVE  Inv(t)
  <1>1. /\ TypeInv(s) /\ Steady(s) /\ Queue(s) /\ Flight(s) /\ Carries(s) /\ Stages(s)
        /\ Connection(s) /\ Unbusy(s)
    BY DEF Inv
  <1>2. /\ DOMAIN s.calls = 1 .. Len(s.calls) /\ Len(s.calls) \in Nat
        /\ DOMAIN t.calls = 1 .. Len(t.calls) /\ Len(t.calls) \in Nat
        /\ s \in States /\ t \in States
    BY <1>1, CallRange
  <1>r. /\ ~IsIdle(s) /\ s.busy.call # 0 => s.busy.call \in DOMAIN s.calls
        /\ s.abandoned # Nobody => s.abandoned \in DOMAIN s.calls
        /\ ~IsIdle(s) => s.busy.call \in 0 .. Len(s.calls)
        /\ s.pc \in Own <=> ~IsIdle(s) /\ s.busy.call = 0
    BY <1>1, <1>2 DEF TypeInv, OwnFlight, Bounds, Nobody
  <1>a. /\ ~s.done /\ s.pc \notin {"ready", "finishing", "publishing", "released", "acquiring"}
        /\ s.pc \notin Own /\ s.begun /\ i \in DOMAIN s.calls /\ i # 0 /\ i # Nobody
    <2>1. i # 0 /\ i \in DOMAIN s.calls /\ s.pc \notin Own
      BY <1>1, <1>2, <1>r, CallRange
    <2>2. s.begun
      <3>1. Len(s.calls) # 0
        BY <1>2, <2>1
      <3> QED BY <1>1, <3>1 DEF Stages
    <2> QED BY <1>1, <2>1, <2>2 DEF Stages, Nobody
  <1>c. s.calls[i].pc # "left" /\ ~s.busy.failed /\ s.busy.verb \in {"commit", "rollback"}
    <2>1. s.calls[i].kind \in {"commit", "rollback"} /\ s.calls[i].pc # "left" /\ ~s.busy.failed
      BY DEF OversEnding
    <2>2. s.calls[i].pc # "dropping"
      BY <1>1, <1>r, <1>a, <2>1 DEF Carries
    <2>3. s.busy.verb = VerbOfKind(s.calls[i].kind)
      BY <1>1, <1>r, <1>a, <2>2 DEF Carries
    <2> QED BY <2>1, <2>3 DEF VerbOfKind
  <1>b. /\ s.abandoned = Nobody /\ InLine(s.calls[i]) /\ s.calls[i].prior = Nobody
        /\ \A j \in DOMAIN s.calls : s.calls[j].pc # "asking"
    <2>1. Working(s.calls[i]) /\ s.abandoned = Nobody
      BY <1>1, <1>r, <1>a, <1>c DEF Flight
    <2>2. InLine(s.calls[i]) /\ s.calls[i].pc # "waiting" /\ s.calls[i].pc # "asking"
      BY <2>1 DEF Working, InLine
    <2>3. s.calls[i].prior = Nobody
      BY <1>1, <1>a, <2>2, QueueFirst
    <2>4. ASSUME NEW j \in DOMAIN s.calls, s.calls[j].pc = "asking"
          PROVE  FALSE
      <3>1. InLine(s.calls[j]) /\ s.calls[j].prior = Nobody
        BY <1>1, <2>4, QueueFirst DEF InLine
      <3>2. j = i
        BY <1>1, <1>a, <2>2, <2>3, <3>1, QueueFirst
      <3> QED BY <2>2, <2>4, <3>2
    <2> QED BY <2>1, <2>2, <2>3, <2>4
  <1>3. Steady(t)
    BY <1>1, <1>2, <1>r, <1>a, <1>c, <1>b DEF OversEnding, IsOver, IsPassed, SameSc, SamePc, SameEnding, SameBook, SameLine, SameBusy, SameData, Steady
  <1>4. Queue(t)
    <2>1. ~InLine(t.calls[i])
      <3>1. t.calls[i].pc = "over"
        BY <1>a DEF IsOver, OversEnding
      <3> QED BY <3>1 DEF InLine
    <2>2. DOMAIN t.calls = DOMAIN s.calls
      BY DEF IsOver, OversEnding
    <2>3. ASSUME NEW j \in DOMAIN s.calls, j # i
          PROVE  /\ t.calls[j].pc = s.calls[j].pc
                 /\ t.calls[j].prior = IF s.calls[j].prior = i THEN s.calls[i].prior
                                       ELSE s.calls[j].prior
      BY <2>3 DEF IsOver, IsPassed, OversEnding
    <2>4. t.ending = "none" =>
             /\ s.ending = "none"
             /\ t.tail = IF s.tail = i THEN Nobody ELSE s.tail
      BY DEF IsPassed, OversEnding
    <2> QED BY <1>1, <1>a, <1>b, <2>1, <2>2, <2>3, <2>4, QueueLeft
  <1>5. Flight(t)
    <2>1. ASSUME NEW j \in DOMAIN t.calls
          PROVE  Working(t.calls[j]) \/ t.calls[j].pc = "left" =>
                    ~IsIdle(t) /\ t.busy.call = j
      BY <1>1, <1>2, <1>r, <1>a, <1>c, <1>b DEF OversEnding, IsOver, IsPassed, SameSc, SamePc, SameEnding, SameBook, SameLine, SameBusy, SameData, Flight, Working, Asks, Stepped, Kin, SameQuery, IsIdle
    <2>2. ASSUME NEW j \in DOMAIN t.calls, t.calls[j].pc = "left"
          PROVE  t.abandoned = j
      BY <1>1, <1>2, <1>r, <1>a, <1>c, <1>b, <2>2 DEF OversEnding, IsOver, IsPassed, SameSc, SamePc, SameEnding, SameBook, SameLine, SameBusy, SameData, Flight, Working, Asks, Stepped, Kin, SameQuery, IsIdle
    <2>3. ASSUME NEW j \in DOMAIN t.calls, t.calls[j].pc = "asking"
          PROVE  t.abandoned = Nobody /\ (t.ending # "none" => t.cut) /\ Asks(t, t.calls[j])
      BY <1>1, <1>2, <1>r, <1>a, <1>c, <1>b, <2>3 DEF OversEnding, IsOver, IsPassed, SameSc, SamePc, SameEnding, SameBook, SameLine, SameBusy, SameData, Flight, Working, Asks, Stepped, Kin, SameQuery, IsIdle
    <2>4. t.abandoned # Nobody => t.calls[t.abandoned].pc = "left"
      BY <1>1, <1>2, <1>r, <1>a, <1>c, <1>b DEF OversEnding, IsOver, IsPassed, SameSc, SamePc, SameEnding, SameBook, SameLine, SameBusy, SameData, Flight, Working, Asks, Stepped, Kin, SameQuery, IsIdle
    <2>5. ~IsIdle(t) /\ t.busy.call # 0 =>
             Working(t.calls[t.busy.call]) \/ t.calls[t.busy.call].pc = "left"
      BY <1>1, <1>2, <1>r, <1>a, <1>c, <1>b DEF OversEnding, IsOver, IsPassed, SameSc, SamePc, SameEnding, SameBook, SameLine, SameBusy, SameData, Flight, Working, Asks, Stepped, Kin, SameQuery, IsIdle
    <2> QED BY <2>1, <2>2, <2>3, <2>4, <2>5 DEF Flight
  <1>6. Carries(t)
    <2> SUFFICES ASSUME ~IsIdle(t)
                 PROVE  Carries(t)
      BY DEF Carries
    <2>1. t.busy.call = 0 =>
              /\ ~t.busy.open
              /\ t.busy.verb = "begin" <=> t.pc = "begin"
              /\ t.pc = "rolling" => t.busy.verb = "rollback"
      BY <1>1, <1>2, <1>r, <1>a, <1>c, <1>b DEF OversEnding, IsOver, IsPassed, SameSc, SamePc, SameEnding, SameBook, SameLine, SameBusy, SameData, Carries, VerbOfKind, Kin, SameQuery, Stepped, IsIdle
    <2>2. t.busy.call # 0 =>
              /\ t.busy.verb = IF t.calls[t.busy.call].pc = "dropping" THEN "release"
                              ELSE VerbOfKind(t.calls[t.busy.call].kind)
              /\ t.busy.name = t.calls[t.busy.call].name
      BY <1>1, <1>2, <1>r, <1>a, <1>c, <1>b, SMTT(30) DEF OversEnding, IsOver, IsPassed, SameSc, SamePc, SameEnding, SameBook, SameLine, SameBusy, SameData, Carries, VerbOfKind, Kin, SameQuery, Stepped, IsIdle
    <2>3. t.busy.call # 0 =>
              /\ t.busy.open => Statement(t.calls[t.busy.call].kind) /\ ~t.readOnly
              /\ t.busy.stage \in {"affected", "delivering"} => t.calls[t.busy.call].kind = "gen"
              /\ t.calls[t.busy.call].pc = "dropping" =>
                    t.calls[t.busy.call].kind = "rollbackTo" /\ ~t.calls[t.busy.call].keep
      BY <1>1, <1>2, <1>r, <1>a, <1>c, <1>b, SMTT(30) DEF OversEnding, IsOver, IsPassed, SameSc, SamePc, SameEnding, SameBook, SameLine, SameBusy, SameData, Carries, VerbOfKind, Kin, SameQuery, Stepped, IsIdle
    <2>4. t.busy.verb = "begin" => t.busy.conclude = "none"
      BY <1>1, <1>2, <1>r, <1>a, <1>c, <1>b DEF OversEnding, IsOver, IsPassed, SameSc, SamePc, SameEnding, SameBook, SameLine, SameBusy, SameData, Carries, VerbOfKind, Kin, SameQuery, Stepped, IsIdle
    <2> QED BY <2>1, <2>2, <2>3, <2>4 DEF Carries
  <1>7. Stages(t)
    <2>1. t.ending # "none"
      BY DEF OversEnding
    <2>2. IsIdle(t) /\ t.pc = s.pc /\ t.begun /\ s.pc \notin {"ready", "concluding", "rolling", "acquiring", "begin"}
      BY <1>a DEF OversEnding, IsOver, Own
    <2> QED BY <2>1, <2>2 DEF Stages
  <1>8. Connection(t)
    BY <1>1, <1>2, <1>r, <1>a, <1>c, <1>b DEF OversEnding, IsOver, IsPassed, SameSc, SamePc, SameEnding, SameBook, SameLine, SameBusy, SameData, Connection, SameQuery, IsIdle, Stepped
  <1>9. Unbusy(t)
    BY <1>1, <1>2, <1>r, <1>a, <1>c, <1>b DEF OversEnding, IsOver, IsPassed, SameSc, SamePc, SameEnding, SameBook, SameLine, SameBusy, SameData, Unbusy, Stepped
  <1> QED BY <1>3, <1>4, <1>5, <1>6, <1>7, <1>8, <1>9 DEF Inv

(* A rollback to a savepoint goes on to release it. *)
LEMMA InvGoesOn ==
    ASSUME NEW s, NEW t, NEW i \in DOMAIN s.calls, Inv(s), TypeInv(t),
           ~IsIdle(s), i = s.busy.call, s.busy.stage = "ended", GoesOn(s, t, i)
    PROVE  Inv(t)
  <1>1. /\ TypeInv(s) /\ Steady(s) /\ Queue(s) /\ Flight(s) /\ Carries(s) /\ Stages(s)
        /\ Connection(s) /\ Unbusy(s)
    BY DEF Inv
  <1>2. /\ DOMAIN s.calls = 1 .. Len(s.calls) /\ Len(s.calls) \in Nat
        /\ DOMAIN t.calls = 1 .. Len(t.calls) /\ Len(t.calls) \in Nat
        /\ s \in States /\ t \in States
    BY <1>1, CallRange
  <1>r. /\ ~IsIdle(s) /\ s.busy.call # 0 => s.busy.call \in DOMAIN s.calls
        /\ s.abandoned # Nobody => s.abandoned \in DOMAIN s.calls
        /\ ~IsIdle(s) => s.busy.call \in 0 .. Len(s.calls)
        /\ s.pc \in Own <=> ~IsIdle(s) /\ s.busy.call = 0
    BY <1>1, <1>2 DEF TypeInv, OwnFlight, Bounds, Nobody
  <1>a. /\ ~s.done /\ s.pc \notin {"ready", "finishing", "publishing", "released", "acquiring"}
        /\ s.pc \notin Own /\ s.begun /\ i \in DOMAIN s.calls /\ i # 0 /\ i # Nobody
    <2>1. i # 0 /\ i \in DOMAIN s.calls /\ s.pc \notin Own
      BY <1>1, <1>2, <1>r, CallRange
    <2>2. s.begun
      <3>1. Len(s.calls) # 0
        BY <1>2, <2>1
      <3> QED BY <1>1, <3>1 DEF Stages
    <2> QED BY <1>1, <2>1, <2>2 DEF Stages, Nobody
  <1>b. \A j \in DOMAIN t.calls : t.calls[j].pc \in {"waiting", "asking", "running"} => s.calls[j].pc = t.calls[j].pc /\ j \in DOMAIN s.calls
    BY DEF GoesOn, Stepped
  <1>c. /\ t.ending = s.ending /\ (t.cut <=> s.cut) /\ t.pc = s.pc /\ (t.begun <=> s.begun)
        /\ (t.done <=> s.done) /\ (t.dead <=> s.dead) /\ Len(t.calls) = Len(s.calls)
    BY DEF GoesOn, Stepped, SameEnding, SamePc, SameData
  <1>3. Steady(t)
    BY <1>1, <1>2, <1>r, <1>a, <1>b, <1>c DEF GoesOn, SameSc, SamePc, SameEnding, SameBook, SameLine, SameBusy, SameData, Steady
  <1>4. Queue(t)
    BY <1>1, <1>2, <1>r, <1>a, <1>b, <1>c, QueueStays DEF GoesOn, SameSc, SamePc, SameEnding, SameBook, SameLine, SameBusy, SameData, InLine, Stepped
  <1>5. Flight(t)
    <2>1. ASSUME NEW j \in DOMAIN t.calls
          PROVE  Working(t.calls[j]) \/ t.calls[j].pc = "left" =>
                    ~IsIdle(t) /\ t.busy.call = j
      BY <1>1, <1>2, <1>r, <1>a, <1>b, <1>c DEF GoesOn, SameSc, SamePc, SameEnding, SameBook, SameLine, SameBusy, SameData, Flight, Working, Asks, Stepped, Kin, SameQuery, IsIdle
    <2>2. ASSUME NEW j \in DOMAIN t.calls, t.calls[j].pc = "left"
          PROVE  t.abandoned = j
      BY <1>1, <1>2, <1>r, <1>a, <1>b, <1>c, <2>2 DEF GoesOn, SameSc, SamePc, SameEnding, SameBook, SameLine, SameBusy, SameData, Flight, Working, Asks, Stepped, Kin, SameQuery, IsIdle
    <2>3. ASSUME NEW j \in DOMAIN t.calls, t.calls[j].pc = "asking"
          PROVE  t.abandoned = Nobody /\ (t.ending # "none" => t.cut) /\ Asks(t, t.calls[j])
      BY <1>1, <1>2, <1>r, <1>a, <1>b, <1>c, <2>3 DEF GoesOn, SameSc, SamePc, SameEnding, SameBook, SameLine, SameBusy, SameData, Flight, Working, Asks, Stepped, Kin, SameQuery, IsIdle
    <2>4. t.abandoned # Nobody => t.calls[t.abandoned].pc = "left"
      BY <1>1, <1>2, <1>r, <1>a, <1>b, <1>c DEF GoesOn, SameSc, SamePc, SameEnding, SameBook, SameLine, SameBusy, SameData, Flight, Working, Asks, Stepped, Kin, SameQuery, IsIdle
    <2>5. ~IsIdle(t) /\ t.busy.call # 0 =>
             Working(t.calls[t.busy.call]) \/ t.calls[t.busy.call].pc = "left"
      BY <1>1, <1>2, <1>r, <1>a, <1>b, <1>c DEF GoesOn, SameSc, SamePc, SameEnding, SameBook, SameLine, SameBusy, SameData, Flight, Working, Asks, Stepped, Kin, SameQuery, IsIdle
    <2> QED BY <2>1, <2>2, <2>3, <2>4, <2>5 DEF Flight
  <1>6. Carries(t)
    <2> SUFFICES ASSUME ~IsIdle(t)
                 PROVE  Carries(t)
      BY DEF Carries
    <2>1. t.busy.call = 0 =>
              /\ ~t.busy.open
              /\ t.busy.verb = "begin" <=> t.pc = "begin"
              /\ t.pc = "rolling" => t.busy.verb = "rollback"
      BY <1>1, <1>2, <1>r, <1>a, <1>b, <1>c DEF GoesOn, SameSc, SamePc, SameEnding, SameBook, SameLine, SameBusy, SameData, Carries, VerbOfKind, Kin, SameQuery, Stepped, IsIdle
    <2>2. t.busy.call # 0 =>
              /\ t.busy.verb = IF t.calls[t.busy.call].pc = "dropping" THEN "release"
                              ELSE VerbOfKind(t.calls[t.busy.call].kind)
              /\ t.busy.name = t.calls[t.busy.call].name
      BY <1>1, <1>2, <1>r, <1>a, <1>b, <1>c, SMTT(30) DEF GoesOn, SameSc, SamePc, SameEnding, SameBook, SameLine, SameBusy, SameData, Carries, VerbOfKind, Kin, SameQuery, Stepped, IsIdle
    <2>3. t.busy.call # 0 =>
              /\ t.busy.open => Statement(t.calls[t.busy.call].kind) /\ ~t.readOnly
              /\ t.busy.stage \in {"affected", "delivering"} => t.calls[t.busy.call].kind = "gen"
              /\ t.calls[t.busy.call].pc = "dropping" =>
                    t.calls[t.busy.call].kind = "rollbackTo" /\ ~t.calls[t.busy.call].keep
      BY <1>1, <1>2, <1>r, <1>a, <1>b, <1>c, SMTT(30) DEF GoesOn, SameSc, SamePc, SameEnding, SameBook, SameLine, SameBusy, SameData, Carries, VerbOfKind, Kin, SameQuery, Stepped, IsIdle
    <2>4. t.busy.verb = "begin" => t.busy.conclude = "none"
      BY <1>1, <1>2, <1>r, <1>a, <1>b, <1>c DEF GoesOn, SameSc, SamePc, SameEnding, SameBook, SameLine, SameBusy, SameData, Carries, VerbOfKind, Kin, SameQuery, Stepped, IsIdle
    <2> QED BY <2>1, <2>2, <2>3, <2>4 DEF Carries
  <1>7. Stages(t)
    BY <1>1, <1>2, <1>a, <1>b, <1>c DEF Stages
  <1>8. Connection(t)
    BY <1>1, <1>2, <1>r, <1>a, <1>b, <1>c DEF GoesOn, SameSc, SamePc, SameEnding, SameBook, SameLine, SameBusy, SameData, Connection, SameQuery, IsIdle, Stepped
  <1>9. Unbusy(t)
    BY <1>1, <1>2, <1>r, <1>a, <1>b, <1>c DEF GoesOn, SameSc, SamePc, SameEnding, SameBook, SameLine, SameBusy, SameData, Unbusy, Stepped
  <1> QED BY <1>3, <1>4, <1>5, <1>6, <1>7, <1>8, <1>9 DEF Inv

(* The reply to a call's query.                                             *)
LEMMA InvHears ==
    ASSUME NEW s, NEW t, Inv(s), TypeInv(t), Hears(s, t)
    PROVE  Inv(t)
  <1> DEFINE i == s.busy.call
  <1>1. /\ ~IsIdle(s) /\ s.busy.stage = "ended" /\ i \in DOMAIN s.calls
        /\ \/ OversLeft(s, t, i) \/ OversStatement(s, t, i) \/ OversRefusal(s, t, i)
           \/ OversHalf(s, t, i) \/ GoesOn(s, t, i) \/ OversControl(s, t, i)
           \/ OversEnding(s, t, i)
    BY DEF Hears
  <1>2. CASE OversLeft(s, t, i)
    BY <1>1, <1>2, InvOverLeft
  <1>3. CASE OversStatement(s, t, i)
    <2> DEFINE v == Verdict(s.calls[i], s.busy)
               p == Departed(s)
    <2>1. v \in Tellings /\ v # "busy"
      BY DEF Verdict, Tellings
    <2>2. p \in BOOLEAN
      <3>1. s \in States
        BY DEF Inv, TypeInv
      <3> QED BY <3>1 DEF Departed, States
    <2>3. s.calls[i].pc # "left" /\ IsOver(s, t, i) /\ IsPassed(s, t, i, v) /\ IsEnding(s, t, p)
      BY <1>3 DEF OversStatement
    <2> HIDE DEF v, p
    <2> QED BY <1>1, <2>1, <2>2, <2>3, InvOver
  <1>4. CASE OversRefusal(s, t, i)
    <2> DEFINE p == s.calls[i].kind \in SavepointVerbs
    <2>1. p \in BOOLEAN /\ "error" \in Tellings
      BY DEF Tellings
    <2>2. s.calls[i].pc # "left" /\ IsOver(s, t, i) /\ IsPassed(s, t, i, "error") /\ IsEnding(s, t, p)
      BY <1>4 DEF OversRefusal
    <2> HIDE DEF p
    <2> QED BY <1>1, <2>1, <2>2, InvOver
  <1>5. CASE OversHalf(s, t, i)
    <2>1. s.calls[i].pc # "left" /\ IsOver(s, t, i) /\ IsPassed(s, t, i, "closed") /\ IsEnding(s, t, FALSE)
      BY <1>5 DEF OversHalf
    <2> QED BY <1>1, <2>1, InvOver DEF Tellings
  <1>6. CASE GoesOn(s, t, i)
    BY <1>1, <1>6, InvGoesOn
  <1>7. CASE OversControl(s, t, i)
    <2>1. s.calls[i].pc # "left" /\ IsOver(s, t, i) /\ IsPassed(s, t, i, "ok") /\ IsEnding(s, t, FALSE)
      BY <1>7 DEF OversControl
    <2> QED BY <1>1, <2>1, InvOver DEF Tellings
  <1>8. CASE OversEnding(s, t, i)
    BY <1>1, <1>8, InvOverEnding
  <1> QED BY <1>1, <1>2, <1>3, <1>4, <1>5, <1>6, <1>7, <1>8

(* The transaction goes on to p. *)
LEMMA InvAt ==
    ASSUME NEW s, NEW t, NEW p \in {"closing", "ready", "unwinding", "finishing", "publishing", "released"}, Inv(s), TypeInv(t),
           IsAt(s, t, p), s.pc \notin Own,
           t.begun = s.begun, s.poisoned => t.poisoned,
           t.ending = s.ending,
           s.begun \/ (s.pc = "acquiring" /\ p = "released") \/ p \notin {"closing", "ready"},
           p = "ready" => IsIdle(s) /\ ~s.done,
           p \in {"unwinding", "finishing", "publishing", "released"} => t.ending # "none",
           p \in {"finishing", "publishing", "released"} =>
               IsIdle(s) /\ (~s.conn.in \/ t.poisoned \/ s.dead),
           p \in {"closing", "ready"} /\ s.ending = "none" =>
               \A j \in DOMAIN s.calls : s.calls[j].pc \notin {"waiting", "asking", "running"}
    PROVE  Inv(t)
  <1>1. /\ TypeInv(s) /\ Steady(s) /\ Queue(s) /\ Flight(s) /\ Carries(s) /\ Stages(s)
        /\ Connection(s) /\ Unbusy(s)
    BY DEF Inv
  <1>2. /\ DOMAIN s.calls = 1 .. Len(s.calls) /\ Len(s.calls) \in Nat
        /\ DOMAIN t.calls = 1 .. Len(t.calls) /\ Len(t.calls) \in Nat
        /\ s \in States /\ t \in States
    BY <1>1, CallRange
  <1>r. /\ ~IsIdle(s) /\ s.busy.call # 0 => s.busy.call \in DOMAIN s.calls
        /\ s.abandoned # Nobody => s.abandoned \in DOMAIN s.calls
        /\ ~IsIdle(s) => s.busy.call \in 0 .. Len(s.calls)
        /\ s.pc \in Own <=> ~IsIdle(s) /\ s.busy.call = 0
    BY <1>1, <1>2 DEF TypeInv, OwnFlight, Bounds, Nobody
  <1>a. /\ t.pc = p /\ (t.done <=> s.done) /\ (t.cut <=> s.cut) /\ (t.dead <=> s.dead)
        /\ (IsIdle(t) <=> IsIdle(s)) /\ t.conn = s.conn /\ t.pending = s.pending
    BY <1>2 DEF IsAt, SameBusy, SameData, IsIdle, States
  <1>3. Steady(t)
    BY <1>1, <1>2, <1>r, <1>a DEF IsAt, SameSc, SamePc, SameEnding, SameBook, SameLine, SameBusy, SameData, Steady
  <1>4. Queue(t)
    BY <1>1, <1>2, <1>r, <1>a, QueueStays DEF IsAt, SameSc, SamePc, SameEnding, SameBook, SameLine, SameBusy, SameData, InLine, Stepped
  <1>5. Flight(t)
    <2>1. ASSUME NEW j \in DOMAIN t.calls
          PROVE  Working(t.calls[j]) \/ t.calls[j].pc = "left" =>
                    ~IsIdle(t) /\ t.busy.call = j
      BY <1>1, <1>2, <1>r, <1>a DEF IsAt, SameSc, SamePc, SameEnding, SameBook, SameLine, SameBusy, SameData, Flight, Working, Asks, Stepped, Kin, SameQuery, IsIdle
    <2>2. ASSUME NEW j \in DOMAIN t.calls, t.calls[j].pc = "left"
          PROVE  t.abandoned = j
      BY <1>1, <1>2, <1>r, <1>a, <2>2 DEF IsAt, SameSc, SamePc, SameEnding, SameBook, SameLine, SameBusy, SameData, Flight, Working, Asks, Stepped, Kin, SameQuery, IsIdle
    <2>3. ASSUME NEW j \in DOMAIN t.calls, t.calls[j].pc = "asking"
          PROVE  t.abandoned = Nobody /\ (t.ending # "none" => t.cut) /\ Asks(t, t.calls[j])
      BY <1>1, <1>2, <1>r, <1>a, <2>3 DEF IsAt, SameSc, SamePc, SameEnding, SameBook, SameLine, SameBusy, SameData, Flight, Working, Asks, Stepped, Kin, SameQuery, IsIdle
    <2>4. t.abandoned # Nobody => t.calls[t.abandoned].pc = "left"
      BY <1>1, <1>2, <1>r, <1>a DEF IsAt, SameSc, SamePc, SameEnding, SameBook, SameLine, SameBusy, SameData, Flight, Working, Asks, Stepped, Kin, SameQuery, IsIdle
    <2>5. ~IsIdle(t) /\ t.busy.call # 0 =>
             Working(t.calls[t.busy.call]) \/ t.calls[t.busy.call].pc = "left"
      BY <1>1, <1>2, <1>r, <1>a DEF IsAt, SameSc, SamePc, SameEnding, SameBook, SameLine, SameBusy, SameData, Flight, Working, Asks, Stepped, Kin, SameQuery, IsIdle
    <2> QED BY <2>1, <2>2, <2>3, <2>4, <2>5 DEF Flight
  <1>6. Carries(t)
    <2> SUFFICES ASSUME ~IsIdle(t)
                 PROVE  Carries(t)
      BY DEF Carries
    <2>1. t.busy.call = 0 =>
              /\ ~t.busy.open
              /\ t.busy.verb = "begin" <=> t.pc = "begin"
              /\ t.pc = "rolling" => t.busy.verb = "rollback"
      BY <1>1, <1>2, <1>r, <1>a DEF IsAt, SameSc, SamePc, SameEnding, SameBook, SameLine, SameBusy, SameData, Carries, VerbOfKind, Kin, SameQuery, Stepped, IsIdle
    <2>2. t.busy.call # 0 =>
              /\ t.busy.verb = IF t.calls[t.busy.call].pc = "dropping" THEN "release"
                              ELSE VerbOfKind(t.calls[t.busy.call].kind)
              /\ t.busy.name = t.calls[t.busy.call].name
      BY <1>1, <1>2, <1>r, <1>a, SMTT(30) DEF IsAt, SameSc, SamePc, SameEnding, SameBook, SameLine, SameBusy, SameData, Carries, VerbOfKind, Kin, SameQuery, Stepped, IsIdle
    <2>3. t.busy.call # 0 =>
              /\ t.busy.open => Statement(t.calls[t.busy.call].kind) /\ ~t.readOnly
              /\ t.busy.stage \in {"affected", "delivering"} => t.calls[t.busy.call].kind = "gen"
              /\ t.calls[t.busy.call].pc = "dropping" =>
                    t.calls[t.busy.call].kind = "rollbackTo" /\ ~t.calls[t.busy.call].keep
      BY <1>1, <1>2, <1>r, <1>a, SMTT(30) DEF IsAt, SameSc, SamePc, SameEnding, SameBook, SameLine, SameBusy, SameData, Carries, VerbOfKind, Kin, SameQuery, Stepped, IsIdle
    <2>4. t.busy.verb = "begin" => t.busy.conclude = "none"
      BY <1>1, <1>2, <1>r, <1>a DEF IsAt, SameSc, SamePc, SameEnding, SameBook, SameLine, SameBusy, SameData, Carries, VerbOfKind, Kin, SameQuery, Stepped, IsIdle
    <2> QED BY <2>1, <2>2, <2>3, <2>4 DEF Carries
  <1>7. Stages(t)
    BY <1>1, <1>2, <1>r, <1>a DEF IsAt, SameSc, SamePc, SameEnding, SameBook, SameLine, SameBusy, SameData, Stages, Stepped, IsIdle
  <1>8. Connection(t)
    BY <1>1, <1>2, <1>r, <1>a DEF IsAt, SameSc, SamePc, SameEnding, SameBook, SameLine, SameBusy, SameData, Connection, SameQuery, IsIdle, Stepped
  <1>9. Unbusy(t)
    BY <1>1, <1>2, <1>r, <1>a DEF IsAt, SameSc, SamePc, SameEnding, SameBook, SameLine, SameBusy, SameData, Unbusy, Stepped
  <1> QED BY <1>3, <1>4, <1>5, <1>6, <1>7, <1>8, <1>9 DEF Inv

(* Its own BEGIN, COMMIT or ROLLBACK goes out. *)
LEMMA InvOwn ==
    ASSUME NEW s, NEW t, NEW verb, NEW p \in Own, Inv(s), TypeInv(t),
           IsOwn(s, t, verb, p), IsIdle(s), ~s.dead,
           \/ verb = "begin" /\ p = "begin" /\ s.pc = "acquiring"
           \/ verb \in {"commit", "rollback"} /\ p = "concluding" /\ s.pc = "ready"
           \/ verb = "rollback" /\ p = "rolling" /\ s.begun /\ ~s.done /\ s.ending # "none"
    PROVE  Inv(t)
  <1>1. /\ TypeInv(s) /\ Steady(s) /\ Queue(s) /\ Flight(s) /\ Carries(s) /\ Stages(s)
        /\ Connection(s) /\ Unbusy(s)
    BY DEF Inv
  <1>2. /\ DOMAIN s.calls = 1 .. Len(s.calls) /\ Len(s.calls) \in Nat
        /\ DOMAIN t.calls = 1 .. Len(t.calls) /\ Len(t.calls) \in Nat
        /\ s \in States /\ t \in States
    BY <1>1, CallRange
  <1>r. /\ ~IsIdle(s) /\ s.busy.call # 0 => s.busy.call \in DOMAIN s.calls
        /\ s.abandoned # Nobody => s.abandoned \in DOMAIN s.calls
        /\ ~IsIdle(s) => s.busy.call \in 0 .. Len(s.calls)
        /\ s.pc \in Own <=> ~IsIdle(s) /\ s.busy.call = 0
    BY <1>1, <1>2 DEF TypeInv, OwnFlight, Bounds, Nobody
  <1>a. /\ t.pc = p /\ p \in {"begin", "concluding", "rolling"} /\ ~s.done
        /\ p # "begin" => s.begun /\ verb # "begin"
        /\ p = "begin" => ~s.begun /\ verb = "begin" /\ s.pending = "none" /\ ~s.conn.in
    BY <1>1 DEF IsOwn, Own, Stages, Connection
  <1>b. p # "concluding" => s.ending # "none" \/ Len(s.calls) = 0
    BY <1>1 DEF Stages
  <1>3. Steady(t)
    BY <1>1, <1>2, <1>r, <1>a, <1>b DEF IsOwn, SameSc, SamePc, SameEnding, SameBook, SameLine, SameBusy, SameData, Steady
  <1>4. Queue(t)
    BY <1>1, <1>2, <1>r, <1>a, <1>b, QueueStays DEF IsOwn, SameSc, SamePc, SameEnding, SameBook, SameLine, SameBusy, SameData, InLine, Stepped
  <1>5. Flight(t)
    <2>1. ASSUME NEW j \in DOMAIN t.calls
          PROVE  Working(t.calls[j]) \/ t.calls[j].pc = "left" =>
                    ~IsIdle(t) /\ t.busy.call = j
      BY <1>1, <1>2, <1>r, <1>a, <1>b DEF IsOwn, SameSc, SamePc, SameEnding, SameBook, SameLine, SameBusy, SameData, Flight, Working, Asks, Stepped, Kin, SameQuery, IsIdle
    <2>2. ASSUME NEW j \in DOMAIN t.calls, t.calls[j].pc = "left"
          PROVE  t.abandoned = j
      BY <1>1, <1>2, <1>r, <1>a, <1>b, <2>2 DEF IsOwn, SameSc, SamePc, SameEnding, SameBook, SameLine, SameBusy, SameData, Flight, Working, Asks, Stepped, Kin, SameQuery, IsIdle
    <2>3. ASSUME NEW j \in DOMAIN t.calls, t.calls[j].pc = "asking"
          PROVE  t.abandoned = Nobody /\ (t.ending # "none" => t.cut) /\ Asks(t, t.calls[j])
      BY <1>1, <1>2, <1>r, <1>a, <1>b, <2>3 DEF IsOwn, SameSc, SamePc, SameEnding, SameBook, SameLine, SameBusy, SameData, Flight, Working, Asks, Stepped, Kin, SameQuery, IsIdle
    <2>4. t.abandoned # Nobody => t.calls[t.abandoned].pc = "left"
      BY <1>1, <1>2, <1>r, <1>a, <1>b DEF IsOwn, SameSc, SamePc, SameEnding, SameBook, SameLine, SameBusy, SameData, Flight, Working, Asks, Stepped, Kin, SameQuery, IsIdle
    <2>5. ~IsIdle(t) /\ t.busy.call # 0 =>
             Working(t.calls[t.busy.call]) \/ t.calls[t.busy.call].pc = "left"
      BY <1>1, <1>2, <1>r, <1>a, <1>b DEF IsOwn, SameSc, SamePc, SameEnding, SameBook, SameLine, SameBusy, SameData, Flight, Working, Asks, Stepped, Kin, SameQuery, IsIdle
    <2> QED BY <2>1, <2>2, <2>3, <2>4, <2>5 DEF Flight
  <1>6. Carries(t)
    <2> SUFFICES ASSUME ~IsIdle(t)
                 PROVE  Carries(t)
      BY DEF Carries
    <2>1. t.busy.call = 0 =>
              /\ ~t.busy.open
              /\ t.busy.verb = "begin" <=> t.pc = "begin"
              /\ t.pc = "rolling" => t.busy.verb = "rollback"
      BY <1>1, <1>2, <1>r, <1>a, <1>b DEF IsOwn, SameSc, SamePc, SameEnding, SameBook, SameLine, SameBusy, SameData, Carries, VerbOfKind, Kin, SameQuery, Stepped, IsIdle
    <2>2. t.busy.call # 0 =>
              /\ t.busy.verb = IF t.calls[t.busy.call].pc = "dropping" THEN "release"
                              ELSE VerbOfKind(t.calls[t.busy.call].kind)
              /\ t.busy.name = t.calls[t.busy.call].name
      BY <1>1, <1>2, <1>r, <1>a, <1>b, SMTT(30) DEF IsOwn, SameSc, SamePc, SameEnding, SameBook, SameLine, SameBusy, SameData, Carries, VerbOfKind, Kin, SameQuery, Stepped, IsIdle
    <2>3. t.busy.call # 0 =>
              /\ t.busy.open => Statement(t.calls[t.busy.call].kind) /\ ~t.readOnly
              /\ t.busy.stage \in {"affected", "delivering"} => t.calls[t.busy.call].kind = "gen"
              /\ t.calls[t.busy.call].pc = "dropping" =>
                    t.calls[t.busy.call].kind = "rollbackTo" /\ ~t.calls[t.busy.call].keep
      BY <1>1, <1>2, <1>r, <1>a, <1>b, SMTT(30) DEF IsOwn, SameSc, SamePc, SameEnding, SameBook, SameLine, SameBusy, SameData, Carries, VerbOfKind, Kin, SameQuery, Stepped, IsIdle
    <2>4. t.busy.verb = "begin" => t.busy.conclude = "none"
      BY <1>1, <1>2, <1>r, <1>a, <1>b DEF IsOwn, SameSc, SamePc, SameEnding, SameBook, SameLine, SameBusy, SameData, Carries, VerbOfKind, Kin, SameQuery, Stepped, IsIdle
    <2> QED BY <2>1, <2>2, <2>3, <2>4 DEF Carries
  <1>7. Stages(t)
    BY <1>1, <1>2, <1>r, <1>a, <1>b DEF IsOwn, SameSc, SamePc, SameEnding, SameBook, SameLine, SameBusy, SameData, Stages, Stepped, IsIdle
  <1>8. Connection(t)
    BY <1>1, <1>2, <1>r, <1>a, <1>b DEF IsOwn, SameSc, SamePc, SameEnding, SameBook, SameLine, SameBusy, SameData, Connection, SameQuery, IsIdle, Stepped
  <1>9. Unbusy(t)
    BY <1>1, <1>2, <1>r, <1>a, <1>b DEF IsOwn, SameSc, SamePc, SameEnding, SameBook, SameLine, SameBusy, SameData, Unbusy, Stepped
  <1> QED BY <1>3, <1>4, <1>5, <1>6, <1>7, <1>8, <1>9 DEF Inv

(* The transaction fails.                                                   *)
LEMMA InvFailsOn ==
    ASSUME NEW s, NEW t, Inv(s), TypeInv(t), Fails_(s, t), s.pc \in {"callback", "ready"}
    PROVE  Inv(t)
  <1>1. PICK r \in States :
           /\ Dies(s, r)
           /\ t \in States
           /\ SameSc(r, t) /\ SameEnding(r, t) /\ SameLine(r, t) /\ SameBusy(r, t) /\ SameData(r, t)
           /\ t.begun = r.begun /\ t.done = r.done /\ t.poisoned = r.poisoned /\ t.stack = r.stack
           /\ t.pc = "unwinding" /\ t.closing = OpenStatements(s)
    BY DEF Fails_
  <1>2. Inv(r)
    BY <1>1, InvDies
  <1>3. r.ending # "none" /\ r.pc = s.pc
    BY <1>1 DEF Dies, IsCut, SamePc
  <1>4. IsAt(r, t, "unwinding")
    BY <1>1 DEF IsAt, SameEnding
  <1>5. t.ending = r.ending
    BY <1>1 DEF SameEnding
  <1>6. r.pc \notin Own
    BY <1>3 DEF Own
  <1>7. t.begun = r.begun /\ (r.poisoned => t.poisoned) /\ TypeInv(t)
    BY <1>1
  <1>8. "unwinding" \in {"closing", "ready", "unwinding", "finishing", "publishing", "released"}
    OBVIOUS
  <1> QED BY <1>2, <1>3, <1>4, <1>5, <1>6, <1>7, <1>8, InvAt

(* What the reply to a query of its own leaves alone.                       *)
OwnOver(s, t) ==
    /\ t \in States
    /\ SameSc(s, t) /\ SameLine(s, t) /\ SameData(s, t)
    /\ t.stack = s.stack /\ t.pending = s.pending
    /\ IsIdle(t)
    /\ t.said = IF s.dead THEN s.said ELSE IF s.conn.in THEN "in" ELSE "out"

(* It has ended: cut, and is to be unwound.                                 *)
Unwinding(s, t) ==
    /\ t.pc = "unwinding" /\ (t.cut <=> s.cut \/ s.ending = "none") /\ t.ending # "none"
    /\ t.ending = IF s.ending = "none" THEN "died" ELSE s.ending
    /\ (t.done <=> s.done) /\ (t.poisoned <=> s.poisoned)

OversBegin(s, t) ==
    /\ s.pc = "begin" /\ OwnOver(s, t)
    /\ \/ s.busy.failed /\ (t.begun <=> s.begun) /\ Unwinding(s, t)
       \/ ~s.busy.failed /\ t.begun /\ Unwinding(s, t)
       \/ /\ ~s.busy.failed /\ ~s.cut /\ t.begun /\ t.pc = "callback"
          /\ SameEnding(s, t) /\ (t.done <=> s.done) /\ (t.poisoned <=> s.poisoned)

OversConclusion(s, t) ==
    /\ s.pc = "concluding" /\ OwnOver(s, t) /\ (t.begun <=> s.begun)
    /\ \/ s.busy.failed /\ Unwinding(s, t)
       \/ /\ ~s.busy.failed /\ t.pc = "finishing" /\ t.done /\ (t.cut <=> s.cut)
          /\ (t.poisoned <=> s.poisoned)
          /\ t.ending = IF s.busy.verb = "commit" THEN "committed"
                        ELSE IF s.ending = "none" THEN "rolled-back" ELSE s.ending

OversRollback(s, t) ==
    /\ s.pc = "rolling" /\ OwnOver(s, t) /\ (t.begun <=> s.begun)
    /\ t.pc = "finishing" /\ (t.cut <=> s.cut)
    /\ \/ s.busy.failed /\ t.poisoned /\ (t.done <=> s.done) /\ t.ending = s.ending
       \/ /\ ~s.busy.failed /\ t.done
          /\ t.ending = IF s.ending = "none" THEN "rolled-back" ELSE s.ending

(* A reply that begins the unwinding.                                       *)
LEMMA UnwindingIs ==
    ASSUME NEW s, NEW r \in States, NEW t, IsReplied(s, r), Fails_(r, t), s \in States
    PROVE  OwnOver(s, t) /\ Unwinding(s, t) /\ (t.begun <=> s.begun)
  <1>1. PICK d \in States :
           /\ Dies(r, d)
           /\ t \in States
           /\ SameSc(d, t) /\ SameEnding(d, t) /\ SameLine(d, t) /\ SameBusy(d, t) /\ SameData(d, t)
           /\ t.begun = d.begun /\ t.done = d.done /\ t.poisoned = d.poisoned /\ t.stack = d.stack
           /\ t.pc = "unwinding" /\ t.closing = OpenStatements(r)
    BY DEF Fails_
  <1>2. /\ SameSc(r, d) /\ SamePc(r, d) /\ SameBook(r, d) /\ SameLine(r, d) /\ SameData(r, d)
        /\ d.pending = r.pending /\ d.said = r.said /\ (IsIdle(d) <=> IsIdle(r))
    BY <1>1 DEF Dies, IsCut, SameSc, SamePc, SameBook, SameLine, SameData
  <1>3. OwnOver(s, t)
    BY <1>1, <1>2 DEF IsReplied, OwnOver, SameSc, SamePc, SameBook, SameLine, SameData, SameBusy, IsIdle
  <1>4. (d.cut <=> r.cut \/ r.ending = "none") /\ d.ending # "none" /\ d.ending = IF r.ending = "none" THEN "died" ELSE r.ending
    BY <1>1 DEF Dies, IsCut, States
  <1>5. /\ r.ending = s.ending /\ r.cut = s.cut /\ r.done = s.done /\ r.poisoned = s.poisoned
        /\ r.begun = s.begun /\ d.done = r.done /\ d.poisoned = r.poisoned /\ d.begun = r.begun
        /\ t.cut = d.cut /\ t.ending = d.ending /\ t.pc = "unwinding"
    BY <1>1, <1>2 DEF IsReplied, SamePc, SameEnding
  <1>6. t.cut <=> s.cut \/ s.ending = "none"
    BY <1>4, <1>5
  <1>7. (t.done <=> s.done) /\ (t.poisoned <=> s.poisoned) /\ (t.begun <=> s.begun)
    BY <1>1, <1>5
  <1> QED BY <1>3, <1>4, <1>5, <1>6, <1>7 DEF Unwinding

(* The reply to BEGIN.                                                      *)
LEMMA OversBeginIs ==
    ASSUME NEW s \in States, NEW t, HearsBegin(s, t)
    PROVE  OversBegin(s, t)
  <1>1. PICK r \in States :
          /\ IsReplied(s, r)
          /\ IF s.busy.failed THEN Fails_(r, t)
             ELSE IF s.cut
             THEN \E u \in States :
                     /\ IsAt(r, u, "begin") /\ u.closing = r.closing /\ u.begun
                     /\ u.poisoned = r.poisoned /\ u.ending = r.ending
                     /\ Fails_(u, t)
             ELSE /\ IsAt(r, t, "callback") /\ t.closing = r.closing /\ t.begun
                  /\ t.poisoned = r.poisoned /\ t.ending = r.ending
    BY DEF HearsBegin
  <1>2. s.pc = "begin"
    BY DEF HearsBegin
  <1>3. CASE s.busy.failed
    <2>1. Fails_(r, t)
      BY <1>1, <1>3
    <2>2. OwnOver(s, t) /\ Unwinding(s, t) /\ (t.begun <=> s.begun)
      BY <1>1, <2>1, UnwindingIs
    <2> QED BY <1>2, <1>3, <2>2 DEF OversBegin
  <1>4. CASE ~s.busy.failed /\ s.cut
    <2>1. PICK u \in States :
             /\ IsAt(r, u, "begin") /\ u.closing = r.closing /\ u.begun
             /\ u.poisoned = r.poisoned /\ u.ending = r.ending
             /\ Fails_(u, t)
      BY <1>1, <1>4
    <2>2. PICK d \in States :
             /\ Dies(u, d)
             /\ t \in States
             /\ SameSc(d, t) /\ SameEnding(d, t) /\ SameLine(d, t) /\ SameBusy(d, t) /\ SameData(d, t)
             /\ t.begun = d.begun /\ t.done = d.done /\ t.poisoned = d.poisoned /\ t.stack = d.stack
             /\ t.pc = "unwinding" /\ t.closing = OpenStatements(u)
      BY <2>1 DEF Fails_
    <2>3. /\ SameSc(u, d) /\ SamePc(u, d) /\ SameBook(u, d) /\ SameLine(u, d) /\ SameData(u, d)
          /\ d.pending = u.pending /\ d.said = u.said /\ (IsIdle(d) <=> IsIdle(u))
      BY <2>2 DEF Dies, IsCut, SameSc, SamePc, SameBook, SameLine, SameData
    <2>4. IsIdle(u)
      BY <1>1, <2>1 DEF IsReplied, IsAt, SameBusy, IsIdle
    <2>5. OwnOver(s, t)
      BY <1>1, <2>1, <2>2, <2>3, <2>4
         DEF IsReplied, IsAt, OwnOver, SameSc, SamePc, SameBook, SameLine, SameData, SameBusy, IsIdle
    <2>6. (d.cut <=> u.cut \/ u.ending = "none") /\ d.ending # "none" /\ d.ending = IF u.ending = "none" THEN "died" ELSE u.ending
      BY <2>2 DEF Dies, IsCut, States
    <2>7. /\ u.ending = s.ending /\ u.cut = s.cut /\ u.done = s.done /\ u.poisoned = s.poisoned
          /\ u.begun /\ d.done = u.done /\ d.poisoned = u.poisoned /\ d.begun = u.begun
          /\ t.cut = d.cut /\ t.ending = d.ending
      BY <1>1, <2>1, <2>2, <2>3 DEF IsReplied, IsAt, SamePc, SameEnding
    <2>8. (t.cut <=> s.cut \/ s.ending = "none") /\ (t.done <=> s.done)
          /\ (t.poisoned <=> s.poisoned)
      BY <2>2, <2>6, <2>7
    <2>9. Unwinding(s, t)
      BY <2>2, <2>6, <2>7, <2>8 DEF Unwinding
    <2>10. t.begun
      BY <2>2, <2>7
    <2> QED BY <1>2, <1>4, <2>5, <2>9, <2>10 DEF OversBegin
  <1>5. CASE ~s.busy.failed /\ ~s.cut
    <2>1. /\ IsAt(r, t, "callback") /\ t.closing = r.closing /\ t.begun
          /\ t.poisoned = r.poisoned /\ t.ending = r.ending
      BY <1>1, <1>5
    <2>2. OwnOver(s, t)
      BY <1>1, <2>1
         DEF IsReplied, IsAt, OwnOver, SameSc, SamePc, SameBook, SameLine, SameData, SameBusy, IsIdle
    <2>3. SameEnding(s, t) /\ t.done = s.done /\ t.poisoned = s.poisoned /\ t.pc = "callback"
      BY <1>1, <2>1 DEF IsReplied, IsAt, SamePc, SameEnding
    <2> QED BY <1>2, <1>5, <2>1, <2>2, <2>3 DEF OversBegin
  <1> QED BY <1>3, <1>4, <1>5

(* The reply to the library's COMMIT or ROLLBACK.                           *)
LEMMA OversConclusionIs ==
    ASSUME NEW s \in States, NEW t, HearsConclusion(s, t)
    PROVE  OversConclusion(s, t)
  <1> DEFINE g == IF s.busy.verb = "commit" THEN "committed"
                  ELSE IF s.ending = "none" THEN "rolled-back" ELSE s.ending
  <1>1. PICK r \in States :
          /\ IsReplied(s, r)
          /\ IF s.busy.failed THEN Fails_(r, t)
             ELSE \E d \in States : IsDone(r, d, g) /\ Goes(d, t, "finishing")
    BY DEF HearsConclusion
  <1>2. s.pc = "concluding"
    BY DEF HearsConclusion
  <1> HIDE DEF g
  <1>3. CASE s.busy.failed
    <2>1. Fails_(r, t)
      BY <1>1, <1>3
    <2>2. OwnOver(s, t) /\ Unwinding(s, t) /\ (t.begun <=> s.begun)
      BY <1>1, <2>1, UnwindingIs
    <2> QED BY <1>2, <1>3, <2>2 DEF OversConclusion
  <1>4. CASE ~s.busy.failed
    <2>1. PICK d \in States : IsDone(r, d, g) /\ Goes(d, t, "finishing")
      BY <1>1, <1>4
    <2>2. OwnOver(s, t)
      BY <1>1, <2>1
         DEF IsReplied, IsDone, Goes, IsAt, OwnOver, SameSc, SamePc, SameBook, SameLine, SameData,
             SameBusy, IsIdle
    <2>3. /\ t.done /\ t.cut = s.cut /\ t.poisoned = s.poisoned /\ t.begun = s.begun
          /\ t.ending = g /\ t.pc = "finishing"
      <3>1. /\ d.done /\ d.cut = r.cut /\ d.poisoned = r.poisoned /\ d.begun = r.begun /\ d.ending = g
            /\ t.done = d.done /\ t.cut = d.cut /\ t.poisoned = d.poisoned /\ t.begun = d.begun
            /\ t.ending = d.ending /\ t.pc = "finishing"
            /\ r.cut = s.cut /\ r.poisoned = s.poisoned /\ r.begun = s.begun
        BY <1>1, <2>1 DEF IsDone, Goes, IsAt, IsReplied, SamePc, SameEnding
      <3> QED BY <3>1
    <2>4. (t.cut <=> s.cut) /\ (t.poisoned <=> s.poisoned) /\ (t.begun <=> s.begun)
      BY <2>3
    <2> QED BY <1>2, <1>4, <2>2, <2>3, <2>4 DEF OversConclusion, g
  <1> QED BY <1>3, <1>4

(* The reply to the unwinding's ROLLBACK.                                   *)
LEMMA OversRollbackIs ==
    ASSUME NEW s \in States, NEW t, HearsRollback(s, t)
    PROVE  OversRollback(s, t)
  <1> DEFINE g == IF s.ending = "none" THEN "rolled-back" ELSE s.ending
  <1>1. PICK r \in States, d \in States :
          /\ IsReplied(s, r)
          /\ IF s.busy.failed
             THEN /\ IsAt(r, d, "rolling") /\ d.closing = r.closing /\ d.begun = r.begun
                  /\ d.poisoned /\ d.ending = r.ending
             ELSE IsDone(r, d, g)
          /\ Goes(d, t, "finishing")
    BY DEF HearsRollback
  <1>2. s.pc = "rolling"
    BY DEF HearsRollback
  <1> HIDE DEF g
  <1>3. CASE s.busy.failed
    <2>1. /\ IsAt(r, d, "rolling") /\ d.closing = r.closing /\ d.begun = r.begun
          /\ d.poisoned /\ d.ending = r.ending
      BY <1>1, <1>3
    <2>2. OwnOver(s, t)
      BY <1>1, <2>1
         DEF IsReplied, Goes, IsAt, OwnOver, SameSc, SamePc, SameBook, SameLine, SameData,
             SameBusy, IsIdle
    <2>3. /\ d.done = s.done /\ d.cut = s.cut /\ d.begun = s.begun /\ d.ending = s.ending
      BY <1>1, <2>1 DEF IsReplied, IsAt, SamePc, SameEnding
    <2>4. /\ t.done = d.done /\ t.cut = d.cut /\ t.poisoned = d.poisoned /\ t.begun = d.begun
          /\ t.ending = d.ending /\ t.pc = "finishing"
      BY <1>1 DEF Goes, IsAt
    <2>5. (t.cut <=> s.cut) /\ (t.begun <=> s.begun) /\ (t.done <=> s.done) /\ t.poisoned
      BY <2>1, <2>3, <2>4
    <2>6. t.ending = s.ending
      BY <2>3, <2>4
    <2> QED BY <1>2, <1>3, <2>2, <2>4, <2>5, <2>6 DEF OversRollback
  <1>4. CASE ~s.busy.failed
    <2>1. IsDone(r, d, g)
      BY <1>1, <1>4
    <2>2. OwnOver(s, t)
      BY <1>1, <2>1
         DEF IsReplied, IsDone, Goes, IsAt, OwnOver, SameSc, SamePc, SameBook, SameLine, SameData,
             SameBusy, IsIdle
    <2>3. /\ d.done /\ d.cut = s.cut /\ d.begun = s.begun /\ d.ending = g
      BY <1>1, <2>1 DEF IsReplied, IsDone, SamePc, SameEnding
    <2>4. /\ t.done = d.done /\ t.cut = d.cut /\ t.begun = d.begun
          /\ t.ending = d.ending /\ t.pc = "finishing"
      BY <1>1 DEF Goes, IsAt
    <2>5. (t.cut <=> s.cut) /\ (t.begun <=> s.begun) /\ t.done
      BY <2>3, <2>4
    <2>6. t.ending = g
      BY <2>3, <2>4
    <2> QED BY <1>2, <1>4, <2>2, <2>4, <2>5, <2>6 DEF OversRollback, g
  <1> QED BY <1>3, <1>4

(* The reply to BEGIN. *)
LEMMA InvOversBegin ==
    ASSUME NEW s, NEW t, Inv(s), TypeInv(t),
           ~IsIdle(s), s.busy.stage = "ended", OversBegin(s, t)
    PROVE  Inv(t)
  <1>1. /\ TypeInv(s) /\ Steady(s) /\ Queue(s) /\ Flight(s) /\ Carries(s) /\ Stages(s)
        /\ Connection(s) /\ Unbusy(s)
    BY DEF Inv
  <1>2. /\ DOMAIN s.calls = 1 .. Len(s.calls) /\ Len(s.calls) \in Nat
        /\ DOMAIN t.calls = 1 .. Len(t.calls) /\ Len(t.calls) \in Nat
        /\ s \in States /\ t \in States
    BY <1>1, CallRange
  <1>r. /\ ~IsIdle(s) /\ s.busy.call # 0 => s.busy.call \in DOMAIN s.calls
        /\ s.abandoned # Nobody => s.abandoned \in DOMAIN s.calls
        /\ ~IsIdle(s) => s.busy.call \in 0 .. Len(s.calls)
        /\ s.pc \in Own <=> ~IsIdle(s) /\ s.busy.call = 0
    BY <1>1, <1>2 DEF TypeInv, OwnFlight, Bounds, Nobody
  <1>a. ~s.done /\ s.busy.call = 0 /\ Len(t.calls) = Len(s.calls)
    BY <1>1 DEF Stages, TypeInv, OwnFlight, Own, OwnOver, SameLine, OversBegin
  <1>3. Steady(t)
    BY <1>1, <1>2, <1>r, <1>a DEF OversBegin, OwnOver, Unwinding, SameSc, SamePc, SameEnding, SameBook, SameLine, SameBusy, SameData, Steady
  <1>4. Queue(t)
    BY <1>1, <1>2, <1>r, <1>a, QueueStays DEF OversBegin, OwnOver, Unwinding, SameSc, SamePc, SameEnding, SameBook, SameLine, SameBusy, SameData, InLine, Stepped
  <1>5. Flight(t)
    <2>1. ASSUME NEW j \in DOMAIN t.calls
          PROVE  Working(t.calls[j]) \/ t.calls[j].pc = "left" =>
                    ~IsIdle(t) /\ t.busy.call = j
      BY <1>1, <1>2, <1>r, <1>a DEF OversBegin, OwnOver, Unwinding, SameSc, SamePc, SameEnding, SameBook, SameLine, SameBusy, SameData, Flight, Working, Asks, Stepped, Kin, SameQuery, IsIdle
    <2>2. ASSUME NEW j \in DOMAIN t.calls, t.calls[j].pc = "left"
          PROVE  t.abandoned = j
      BY <1>1, <1>2, <1>r, <1>a, <2>2 DEF OversBegin, OwnOver, Unwinding, SameSc, SamePc, SameEnding, SameBook, SameLine, SameBusy, SameData, Flight, Working, Asks, Stepped, Kin, SameQuery, IsIdle
    <2>3. ASSUME NEW j \in DOMAIN t.calls, t.calls[j].pc = "asking"
          PROVE  t.abandoned = Nobody /\ (t.ending # "none" => t.cut) /\ Asks(t, t.calls[j])
      BY <1>1, <1>2, <1>r, <1>a, <2>3 DEF OversBegin, OwnOver, Unwinding, SameSc, SamePc, SameEnding, SameBook, SameLine, SameBusy, SameData, Flight, Working, Asks, Stepped, Kin, SameQuery, IsIdle
    <2>4. t.abandoned # Nobody => t.calls[t.abandoned].pc = "left"
      BY <1>1, <1>2, <1>r, <1>a DEF OversBegin, OwnOver, Unwinding, SameSc, SamePc, SameEnding, SameBook, SameLine, SameBusy, SameData, Flight, Working, Asks, Stepped, Kin, SameQuery, IsIdle
    <2>5. ~IsIdle(t) /\ t.busy.call # 0 =>
             Working(t.calls[t.busy.call]) \/ t.calls[t.busy.call].pc = "left"
      BY <1>1, <1>2, <1>r, <1>a DEF OversBegin, OwnOver, Unwinding, SameSc, SamePc, SameEnding, SameBook, SameLine, SameBusy, SameData, Flight, Working, Asks, Stepped, Kin, SameQuery, IsIdle
    <2> QED BY <2>1, <2>2, <2>3, <2>4, <2>5 DEF Flight
  <1>6. Carries(t)
    <2> SUFFICES ASSUME ~IsIdle(t)
                 PROVE  Carries(t)
      BY DEF Carries
    <2>1. t.busy.call = 0 =>
              /\ ~t.busy.open
              /\ t.busy.verb = "begin" <=> t.pc = "begin"
              /\ t.pc = "rolling" => t.busy.verb = "rollback"
      BY <1>1, <1>2, <1>r, <1>a DEF OversBegin, OwnOver, Unwinding, SameSc, SamePc, SameEnding, SameBook, SameLine, SameBusy, SameData, Carries, VerbOfKind, Kin, SameQuery, Stepped, IsIdle
    <2>2. t.busy.call # 0 =>
              /\ t.busy.verb = IF t.calls[t.busy.call].pc = "dropping" THEN "release"
                              ELSE VerbOfKind(t.calls[t.busy.call].kind)
              /\ t.busy.name = t.calls[t.busy.call].name
      BY <1>1, <1>2, <1>r, <1>a, SMTT(30) DEF OversBegin, OwnOver, Unwinding, SameSc, SamePc, SameEnding, SameBook, SameLine, SameBusy, SameData, Carries, VerbOfKind, Kin, SameQuery, Stepped, IsIdle
    <2>3. t.busy.call # 0 =>
              /\ t.busy.open => Statement(t.calls[t.busy.call].kind) /\ ~t.readOnly
              /\ t.busy.stage \in {"affected", "delivering"} => t.calls[t.busy.call].kind = "gen"
              /\ t.calls[t.busy.call].pc = "dropping" =>
                    t.calls[t.busy.call].kind = "rollbackTo" /\ ~t.calls[t.busy.call].keep
      BY <1>1, <1>2, <1>r, <1>a, SMTT(30) DEF OversBegin, OwnOver, Unwinding, SameSc, SamePc, SameEnding, SameBook, SameLine, SameBusy, SameData, Carries, VerbOfKind, Kin, SameQuery, Stepped, IsIdle
    <2>4. t.busy.verb = "begin" => t.busy.conclude = "none"
      BY <1>1, <1>2, <1>r, <1>a DEF OversBegin, OwnOver, Unwinding, SameSc, SamePc, SameEnding, SameBook, SameLine, SameBusy, SameData, Carries, VerbOfKind, Kin, SameQuery, Stepped, IsIdle
    <2> QED BY <2>1, <2>2, <2>3, <2>4 DEF Carries
  <1>7. Stages(t)
    BY <1>1, <1>2, <1>r, <1>a DEF OversBegin, OwnOver, Unwinding, SameSc, SamePc, SameEnding, SameBook, SameLine, SameBusy, SameData, Stages, Stepped, IsIdle
  <1>8. Connection(t)
    BY <1>1, <1>2, <1>r, <1>a DEF OversBegin, OwnOver, Unwinding, SameSc, SamePc, SameEnding, SameBook, SameLine, SameBusy, SameData, Connection, SameQuery, IsIdle, Stepped
  <1>9. Unbusy(t)
    BY <1>1, <1>2, <1>r, <1>a DEF OversBegin, OwnOver, Unwinding, SameSc, SamePc, SameEnding, SameBook, SameLine, SameBusy, SameData, Unbusy, Stepped
  <1> QED BY <1>3, <1>4, <1>5, <1>6, <1>7, <1>8, <1>9 DEF Inv

(* The reply to the COMMIT or ROLLBACK that ends it. *)
LEMMA InvOversConclusion ==
    ASSUME NEW s, NEW t, Inv(s), TypeInv(t),
           ~IsIdle(s), s.busy.stage = "ended", OversConclusion(s, t)
    PROVE  Inv(t)
  <1>1. /\ TypeInv(s) /\ Steady(s) /\ Queue(s) /\ Flight(s) /\ Carries(s) /\ Stages(s)
        /\ Connection(s) /\ Unbusy(s)
    BY DEF Inv
  <1>2. /\ DOMAIN s.calls = 1 .. Len(s.calls) /\ Len(s.calls) \in Nat
        /\ DOMAIN t.calls = 1 .. Len(t.calls) /\ Len(t.calls) \in Nat
        /\ s \in States /\ t \in States
    BY <1>1, CallRange
  <1>r. /\ ~IsIdle(s) /\ s.busy.call # 0 => s.busy.call \in DOMAIN s.calls
        /\ s.abandoned # Nobody => s.abandoned \in DOMAIN s.calls
        /\ ~IsIdle(s) => s.busy.call \in 0 .. Len(s.calls)
        /\ s.pc \in Own <=> ~IsIdle(s) /\ s.busy.call = 0
    BY <1>1, <1>2 DEF TypeInv, OwnFlight, Bounds, Nobody
  <1>a. ~s.done /\ s.busy.call = 0 /\ Len(t.calls) = Len(s.calls)
    BY <1>1 DEF Stages, TypeInv, OwnFlight, Own, OwnOver, SameLine, OversConclusion
  <1>b. /\ \A j \in DOMAIN s.calls : s.calls[j].pc = "asking" => t.cut
        /\ t.calls = s.calls /\ t.abandoned = s.abandoned /\ t.readOnly = s.readOnly
    <2>1. ASSUME NEW j \in DOMAIN s.calls, s.calls[j].pc = "asking"
          PROVE  s.cut
      BY <1>1, <2>1 DEF Stages, Flight, OversConclusion
    <2>2. s.cut => t.cut
      BY DEF OversConclusion, Unwinding
    <2> QED BY <2>1, <2>2 DEF OversConclusion, OwnOver, SameLine, SameSc
  <1>c. s.begun /\ t.begun /\ (~s.busy.failed => ~s.conn.in)
    <2>1. s.pc \in {"concluding", "rolling"}
      BY DEF OversConclusion
    <2>2. s.begun /\ s.busy.verb \in {"commit", "rollback"}
      BY <1>1, <1>a, <2>1 DEF Stages, Carries, TypeInv, OwnFlight
    <2>3. ~s.busy.failed => ~s.conn.in
      BY <1>1, <2>2 DEF Connection
    <2> QED BY <2>2, <2>3 DEF OversConclusion
  <1>d. /\ t.conn = s.conn /\ (t.dead <=> s.dead) /\ IsIdle(t)
        /\ t.said = IF s.dead THEN s.said ELSE IF s.conn.in THEN "in" ELSE "out"
        /\ t.pc \in {"unwinding", "finishing"} /\ (t.pc = "finishing" => ~s.busy.failed \/ t.poisoned)
        /\ (t.done => ~s.busy.failed)
    <2>1. OwnOver(s, t) /\ t.pc \in {"unwinding", "finishing"} /\ (t.pc = "finishing" => ~s.busy.failed \/ t.poisoned)
          /\ (t.done => ~s.busy.failed)
      BY <1>a DEF OversConclusion, Unwinding
    <2> QED BY <2>1 DEF OwnOver, SameData
  <1>3. Steady(t)
    BY <1>1, <1>2, <1>r, <1>a, <1>b, <1>c, <1>d DEF OversConclusion, OwnOver, Unwinding, SameSc, SamePc, SameEnding, SameBook, SameLine, SameBusy, SameData, Steady
  <1>4. Queue(t)
    BY <1>1, <1>2, <1>r, <1>a, <1>b, <1>c, <1>d, QueueStays DEF OversConclusion, OwnOver, Unwinding, SameSc, SamePc, SameEnding, SameBook, SameLine, SameBusy, SameData, InLine, Stepped
  <1>5. Flight(t)
    <2>1. ASSUME NEW j \in DOMAIN t.calls
          PROVE  Working(t.calls[j]) \/ t.calls[j].pc = "left" =>
                    ~IsIdle(t) /\ t.busy.call = j
      BY <1>1, <1>2, <1>r, <1>a, <1>b, <1>c, <1>d DEF OversConclusion, OwnOver, Unwinding, SameSc, SamePc, SameEnding, SameBook, SameLine, SameBusy, SameData, Flight, Working, Asks, Stepped, Kin, SameQuery, IsIdle
    <2>2. ASSUME NEW j \in DOMAIN t.calls, t.calls[j].pc = "left"
          PROVE  t.abandoned = j
      BY <1>1, <1>2, <1>r, <1>a, <1>b, <1>c, <1>d, <2>2 DEF OversConclusion, OwnOver, Unwinding, SameSc, SamePc, SameEnding, SameBook, SameLine, SameBusy, SameData, Flight, Working, Asks, Stepped, Kin, SameQuery, IsIdle
    <2>3. ASSUME NEW j \in DOMAIN t.calls, t.calls[j].pc = "asking"
          PROVE  t.abandoned = Nobody /\ (t.ending # "none" => t.cut) /\ Asks(t, t.calls[j])
      BY <1>1, <1>2, <1>r, <1>a, <1>b, <1>c, <1>d, <2>3 DEF OversConclusion, OwnOver, Unwinding, SameSc, SamePc, SameEnding, SameBook, SameLine, SameBusy, SameData, Flight, Working, Asks, Stepped, Kin, SameQuery, IsIdle
    <2>4. t.abandoned # Nobody => t.calls[t.abandoned].pc = "left"
      BY <1>1, <1>2, <1>r, <1>a, <1>b, <1>c, <1>d DEF OversConclusion, OwnOver, Unwinding, SameSc, SamePc, SameEnding, SameBook, SameLine, SameBusy, SameData, Flight, Working, Asks, Stepped, Kin, SameQuery, IsIdle
    <2>5. ~IsIdle(t) /\ t.busy.call # 0 =>
             Working(t.calls[t.busy.call]) \/ t.calls[t.busy.call].pc = "left"
      BY <1>1, <1>2, <1>r, <1>a, <1>b, <1>c, <1>d DEF OversConclusion, OwnOver, Unwinding, SameSc, SamePc, SameEnding, SameBook, SameLine, SameBusy, SameData, Flight, Working, Asks, Stepped, Kin, SameQuery, IsIdle
    <2> QED BY <2>1, <2>2, <2>3, <2>4, <2>5 DEF Flight
  <1>6. Carries(t)
    <2> SUFFICES ASSUME ~IsIdle(t)
                 PROVE  Carries(t)
      BY DEF Carries
    <2>1. t.busy.call = 0 =>
              /\ ~t.busy.open
              /\ t.busy.verb = "begin" <=> t.pc = "begin"
              /\ t.pc = "rolling" => t.busy.verb = "rollback"
      BY <1>1, <1>2, <1>r, <1>a, <1>b, <1>c, <1>d DEF OversConclusion, OwnOver, Unwinding, SameSc, SamePc, SameEnding, SameBook, SameLine, SameBusy, SameData, Carries, VerbOfKind, Kin, SameQuery, Stepped, IsIdle
    <2>2. t.busy.call # 0 =>
              /\ t.busy.verb = IF t.calls[t.busy.call].pc = "dropping" THEN "release"
                              ELSE VerbOfKind(t.calls[t.busy.call].kind)
              /\ t.busy.name = t.calls[t.busy.call].name
      BY <1>1, <1>2, <1>r, <1>a, <1>b, <1>c, <1>d, SMTT(30) DEF OversConclusion, OwnOver, Unwinding, SameSc, SamePc, SameEnding, SameBook, SameLine, SameBusy, SameData, Carries, VerbOfKind, Kin, SameQuery, Stepped, IsIdle
    <2>3. t.busy.call # 0 =>
              /\ t.busy.open => Statement(t.calls[t.busy.call].kind) /\ ~t.readOnly
              /\ t.busy.stage \in {"affected", "delivering"} => t.calls[t.busy.call].kind = "gen"
              /\ t.calls[t.busy.call].pc = "dropping" =>
                    t.calls[t.busy.call].kind = "rollbackTo" /\ ~t.calls[t.busy.call].keep
      BY <1>1, <1>2, <1>r, <1>a, <1>b, <1>c, <1>d, SMTT(30) DEF OversConclusion, OwnOver, Unwinding, SameSc, SamePc, SameEnding, SameBook, SameLine, SameBusy, SameData, Carries, VerbOfKind, Kin, SameQuery, Stepped, IsIdle
    <2>4. t.busy.verb = "begin" => t.busy.conclude = "none"
      BY <1>1, <1>2, <1>r, <1>a, <1>b, <1>c, <1>d DEF OversConclusion, OwnOver, Unwinding, SameSc, SamePc, SameEnding, SameBook, SameLine, SameBusy, SameData, Carries, VerbOfKind, Kin, SameQuery, Stepped, IsIdle
    <2> QED BY <2>1, <2>2, <2>3, <2>4 DEF Carries
  <1>7. Stages(t)
    BY <1>1, <1>2, <1>r, <1>a, <1>b, <1>c, <1>d DEF OversConclusion, OwnOver, Unwinding, SameSc, SamePc, SameEnding, SameBook, SameLine, SameBusy, SameData, Stages, Stepped, IsIdle
  <1>8. Connection(t)
    <2>1. t.dead => ~t.conn.in
      <3>1. s.dead => ~s.conn.in
        BY <1>1 DEF Connection
      <3> QED BY <1>d, <3>1
    <2>2. t.pc \in {"finishing", "publishing", "released"} => ~t.conn.in \/ t.poisoned
      BY <1>c, <1>d
    <2>3. t.done => ~t.conn.in
      BY <1>c, <1>d
    <2>4. ~t.dead => (t.said = "in" <=> t.conn.in)
      BY <1>d
    <2>5. t.begun /\ IsIdle(t)
      BY <1>c, <1>d
    <2> QED BY <2>1, <2>2, <2>3, <2>4, <2>5 DEF Connection
  <1>9. Unbusy(t)
    BY <1>1, <1>2, <1>r, <1>a, <1>b, <1>c, <1>d DEF OversConclusion, OwnOver, Unwinding, SameSc, SamePc, SameEnding, SameBook, SameLine, SameBusy, SameData, Unbusy, Stepped
  <1> QED BY <1>3, <1>4, <1>5, <1>6, <1>7, <1>8, <1>9 DEF Inv

(* The reply to the ROLLBACK after an error. *)
LEMMA InvOversRollback ==
    ASSUME NEW s, NEW t, Inv(s), TypeInv(t),
           ~IsIdle(s), s.busy.stage = "ended", OversRollback(s, t)
    PROVE  Inv(t)
  <1>1. /\ TypeInv(s) /\ Steady(s) /\ Queue(s) /\ Flight(s) /\ Carries(s) /\ Stages(s)
        /\ Connection(s) /\ Unbusy(s)
    BY DEF Inv
  <1>2. /\ DOMAIN s.calls = 1 .. Len(s.calls) /\ Len(s.calls) \in Nat
        /\ DOMAIN t.calls = 1 .. Len(t.calls) /\ Len(t.calls) \in Nat
        /\ s \in States /\ t \in States
    BY <1>1, CallRange
  <1>r. /\ ~IsIdle(s) /\ s.busy.call # 0 => s.busy.call \in DOMAIN s.calls
        /\ s.abandoned # Nobody => s.abandoned \in DOMAIN s.calls
        /\ ~IsIdle(s) => s.busy.call \in 0 .. Len(s.calls)
        /\ s.pc \in Own <=> ~IsIdle(s) /\ s.busy.call = 0
    BY <1>1, <1>2 DEF TypeInv, OwnFlight, Bounds, Nobody
  <1>a. ~s.done /\ s.busy.call = 0 /\ Len(t.calls) = Len(s.calls)
    BY <1>1 DEF Stages, TypeInv, OwnFlight, Own, OwnOver, SameLine, OversRollback
  <1>b. /\ \A j \in DOMAIN s.calls : s.calls[j].pc = "asking" => t.cut
        /\ t.calls = s.calls /\ t.abandoned = s.abandoned /\ t.readOnly = s.readOnly
    <2>1. ASSUME NEW j \in DOMAIN s.calls, s.calls[j].pc = "asking"
          PROVE  s.cut
      BY <1>1, <2>1 DEF Stages, Flight, OversRollback
    <2>2. s.cut => t.cut
      BY DEF OversRollback, Unwinding
    <2> QED BY <2>1, <2>2 DEF OversRollback, OwnOver, SameLine, SameSc
  <1>c. s.begun /\ t.begun /\ (~s.busy.failed => ~s.conn.in)
    <2>1. s.pc \in {"concluding", "rolling"}
      BY DEF OversRollback
    <2>2. s.begun /\ s.busy.verb \in {"commit", "rollback"}
      BY <1>1, <1>a, <2>1 DEF Stages, Carries, TypeInv, OwnFlight
    <2>3. ~s.busy.failed => ~s.conn.in
      BY <1>1, <2>2 DEF Connection
    <2> QED BY <2>2, <2>3 DEF OversRollback
  <1>d. /\ t.conn = s.conn /\ (t.dead <=> s.dead) /\ IsIdle(t)
        /\ t.said = IF s.dead THEN s.said ELSE IF s.conn.in THEN "in" ELSE "out"
        /\ t.pc \in {"unwinding", "finishing"} /\ (t.pc = "finishing" => ~s.busy.failed \/ t.poisoned)
        /\ (t.done => ~s.busy.failed)
    <2>1. OwnOver(s, t) /\ t.pc \in {"unwinding", "finishing"} /\ (t.pc = "finishing" => ~s.busy.failed \/ t.poisoned)
          /\ (t.done => ~s.busy.failed)
      BY <1>a DEF OversRollback, Unwinding
    <2> QED BY <2>1 DEF OwnOver, SameData
  <1>3. Steady(t)
    BY <1>1, <1>2, <1>r, <1>a, <1>b, <1>c, <1>d DEF OversRollback, OwnOver, Unwinding, SameSc, SamePc, SameEnding, SameBook, SameLine, SameBusy, SameData, Steady
  <1>4. Queue(t)
    BY <1>1, <1>2, <1>r, <1>a, <1>b, <1>c, <1>d, QueueStays DEF OversRollback, OwnOver, Unwinding, SameSc, SamePc, SameEnding, SameBook, SameLine, SameBusy, SameData, InLine, Stepped
  <1>5. Flight(t)
    <2>1. ASSUME NEW j \in DOMAIN t.calls
          PROVE  Working(t.calls[j]) \/ t.calls[j].pc = "left" =>
                    ~IsIdle(t) /\ t.busy.call = j
      BY <1>1, <1>2, <1>r, <1>a, <1>b, <1>c, <1>d DEF OversRollback, OwnOver, Unwinding, SameSc, SamePc, SameEnding, SameBook, SameLine, SameBusy, SameData, Flight, Working, Asks, Stepped, Kin, SameQuery, IsIdle
    <2>2. ASSUME NEW j \in DOMAIN t.calls, t.calls[j].pc = "left"
          PROVE  t.abandoned = j
      BY <1>1, <1>2, <1>r, <1>a, <1>b, <1>c, <1>d, <2>2 DEF OversRollback, OwnOver, Unwinding, SameSc, SamePc, SameEnding, SameBook, SameLine, SameBusy, SameData, Flight, Working, Asks, Stepped, Kin, SameQuery, IsIdle
    <2>3. ASSUME NEW j \in DOMAIN t.calls, t.calls[j].pc = "asking"
          PROVE  t.abandoned = Nobody /\ (t.ending # "none" => t.cut) /\ Asks(t, t.calls[j])
      BY <1>1, <1>2, <1>r, <1>a, <1>b, <1>c, <1>d, <2>3 DEF OversRollback, OwnOver, Unwinding, SameSc, SamePc, SameEnding, SameBook, SameLine, SameBusy, SameData, Flight, Working, Asks, Stepped, Kin, SameQuery, IsIdle
    <2>4. t.abandoned # Nobody => t.calls[t.abandoned].pc = "left"
      BY <1>1, <1>2, <1>r, <1>a, <1>b, <1>c, <1>d DEF OversRollback, OwnOver, Unwinding, SameSc, SamePc, SameEnding, SameBook, SameLine, SameBusy, SameData, Flight, Working, Asks, Stepped, Kin, SameQuery, IsIdle
    <2>5. ~IsIdle(t) /\ t.busy.call # 0 =>
             Working(t.calls[t.busy.call]) \/ t.calls[t.busy.call].pc = "left"
      BY <1>1, <1>2, <1>r, <1>a, <1>b, <1>c, <1>d DEF OversRollback, OwnOver, Unwinding, SameSc, SamePc, SameEnding, SameBook, SameLine, SameBusy, SameData, Flight, Working, Asks, Stepped, Kin, SameQuery, IsIdle
    <2> QED BY <2>1, <2>2, <2>3, <2>4, <2>5 DEF Flight
  <1>6. Carries(t)
    <2> SUFFICES ASSUME ~IsIdle(t)
                 PROVE  Carries(t)
      BY DEF Carries
    <2>1. t.busy.call = 0 =>
              /\ ~t.busy.open
              /\ t.busy.verb = "begin" <=> t.pc = "begin"
              /\ t.pc = "rolling" => t.busy.verb = "rollback"
      BY <1>1, <1>2, <1>r, <1>a, <1>b, <1>c, <1>d DEF OversRollback, OwnOver, Unwinding, SameSc, SamePc, SameEnding, SameBook, SameLine, SameBusy, SameData, Carries, VerbOfKind, Kin, SameQuery, Stepped, IsIdle
    <2>2. t.busy.call # 0 =>
              /\ t.busy.verb = IF t.calls[t.busy.call].pc = "dropping" THEN "release"
                              ELSE VerbOfKind(t.calls[t.busy.call].kind)
              /\ t.busy.name = t.calls[t.busy.call].name
      BY <1>1, <1>2, <1>r, <1>a, <1>b, <1>c, <1>d, SMTT(30) DEF OversRollback, OwnOver, Unwinding, SameSc, SamePc, SameEnding, SameBook, SameLine, SameBusy, SameData, Carries, VerbOfKind, Kin, SameQuery, Stepped, IsIdle
    <2>3. t.busy.call # 0 =>
              /\ t.busy.open => Statement(t.calls[t.busy.call].kind) /\ ~t.readOnly
              /\ t.busy.stage \in {"affected", "delivering"} => t.calls[t.busy.call].kind = "gen"
              /\ t.calls[t.busy.call].pc = "dropping" =>
                    t.calls[t.busy.call].kind = "rollbackTo" /\ ~t.calls[t.busy.call].keep
      BY <1>1, <1>2, <1>r, <1>a, <1>b, <1>c, <1>d, SMTT(30) DEF OversRollback, OwnOver, Unwinding, SameSc, SamePc, SameEnding, SameBook, SameLine, SameBusy, SameData, Carries, VerbOfKind, Kin, SameQuery, Stepped, IsIdle
    <2>4. t.busy.verb = "begin" => t.busy.conclude = "none"
      BY <1>1, <1>2, <1>r, <1>a, <1>b, <1>c, <1>d DEF OversRollback, OwnOver, Unwinding, SameSc, SamePc, SameEnding, SameBook, SameLine, SameBusy, SameData, Carries, VerbOfKind, Kin, SameQuery, Stepped, IsIdle
    <2> QED BY <2>1, <2>2, <2>3, <2>4 DEF Carries
  <1>7. Stages(t)
    BY <1>1, <1>2, <1>r, <1>a, <1>b, <1>c, <1>d DEF OversRollback, OwnOver, Unwinding, SameSc, SamePc, SameEnding, SameBook, SameLine, SameBusy, SameData, Stages, Stepped, IsIdle
  <1>8. Connection(t)
    <2>1. t.dead => ~t.conn.in
      <3>1. s.dead => ~s.conn.in
        BY <1>1 DEF Connection
      <3> QED BY <1>d, <3>1
    <2>2. t.pc \in {"finishing", "publishing", "released"} => ~t.conn.in \/ t.poisoned
      BY <1>c, <1>d
    <2>3. t.done => ~t.conn.in
      BY <1>c, <1>d
    <2>4. ~t.dead => (t.said = "in" <=> t.conn.in)
      BY <1>d
    <2>5. t.begun /\ IsIdle(t)
      BY <1>c, <1>d
    <2> QED BY <2>1, <2>2, <2>3, <2>4, <2>5 DEF Connection
  <1>9. Unbusy(t)
    BY <1>1, <1>2, <1>r, <1>a, <1>b, <1>c, <1>d DEF OversRollback, OwnOver, Unwinding, SameSc, SamePc, SameEnding, SameBook, SameLine, SameBusy, SameData, Unbusy, Stepped
  <1> QED BY <1>3, <1>4, <1>5, <1>6, <1>7, <1>8, <1>9 DEF Inv

(* The invariant, when the transaction goes on.                             *)
LEMMA InvGoes ==
    ASSUME NEW s, NEW t, Inv(s), TypeInv(t),
           Goes(s, t, t.pc), t.pc \in {"ready", "finishing", "publishing", "released"},
           s.pc \notin Own,
           s.begun \/ t.pc # "ready",
           t.pc = "ready" => IsIdle(s) /\ ~s.done /\ s.pc = "closing",
           t.pc \in {"finishing", "publishing", "released"} =>
               s.ending # "none" /\ IsIdle(s) /\ (~s.conn.in \/ s.poisoned \/ s.dead)
    PROVE  Inv(t)
  <1> DEFINE p == t.pc
  <1>1. IsAt(s, t, p) /\ t.begun = s.begun /\ t.poisoned = s.poisoned /\ t.ending = s.ending
    BY DEF Goes
  <1>2. p \in {"closing", "ready", "unwinding", "finishing", "publishing", "released"}
    OBVIOUS
  <1>3. p \in {"closing", "ready"} /\ s.ending = "none" =>
           \A j \in DOMAIN s.calls : s.calls[j].pc \notin {"waiting", "asking", "running"}
    BY DEF Inv, Stages
  <1>4. s.begun \/ (s.pc = "acquiring" /\ p = "released") \/ p \notin {"closing", "ready"}
    OBVIOUS
  <1>5. p \in {"unwinding", "finishing", "publishing", "released"} => t.ending # "none"
    BY <1>1
  <1>6. p \in {"finishing", "publishing", "released"} =>
           IsIdle(s) /\ (~s.conn.in \/ t.poisoned \/ s.dead)
    BY <1>1
  <1>7. p = "ready" => IsIdle(s) /\ ~s.done
    OBVIOUS
  <1>8. s.poisoned => t.poisoned
    BY <1>1
  <1> HIDE DEF p
  <1> QED BY <1>1, <1>2, <1>3, <1>4, <1>5, <1>6, <1>7, <1>8, InvAt

(* The invariant, when the lease is granted or refused.                     *)
LEMMA InvAcquires ==
    ASSUME NEW s, NEW t, Inv(s), TypeInv(t), Acquires(s, t)
    PROVE  Inv(t)
  <1>1. /\ s.pc = "acquiring" /\ s.pc \notin Own /\ TypeInv(s) /\ IsIdle(s) /\ ~s.dead /\ ~s.conn.in
    <2>1. s.pc = "acquiring" /\ s.pc \notin Own /\ TypeInv(s) /\ ~s.begun /\ Len(s.calls) = 0 /\ ~s.dead
      BY DEF Acquires, Own, Inv, Stages
    <2>2. IsIdle(s)
      <3>1. ~IsIdle(s) => s.busy.call \in 1 .. Len(s.calls)
        BY <2>1, NotInFlight
      <3> QED BY <2>1, <3>1
    <2>3. ~s.conn.in
      BY <2>1, <2>2 DEF Inv, Connection
    <2> QED BY <2>1, <2>2, <2>3
  <1>2. CASE s.cut
    <2>1. Goes(s, t, "released") /\ t.pc = "released" /\ s.ending # "none"
      BY <1>2 DEF Acquires, Goes, IsAt, Inv, Stages
    <2>2. Goes(s, t, t.pc)
      BY <2>1
    <2> QED BY <1>1, <2>1, <2>2, InvGoes
  <1>3. CASE ~s.cut
    <2>1. IsOwn(s, t, "begin", "begin")
      BY <1>3 DEF Acquires
    <2>2. "begin" \in Own
      BY DEF Own
    <2> QED BY <1>1, <2>1, <2>2, InvOwn
  <1> QED BY <1>2, <1>3

(* The invariant, when the callback returns.                                *)
LEMMA InvReturns ==
    ASSUME NEW s, NEW t, Inv(s), TypeInv(t), Returns(s, t)
    PROVE  Inv(t)
  <1>1. /\ s.pc = "callback" /\ s.pc \notin Own /\ s.begun /\ s.sc.unawaited = {}
    BY DEF Returns, Own, Inv, Stages, Steady
  <1>2. /\ IsAt(s, t, "closing")
        /\ t.begun = s.begun /\ t.poisoned = s.poisoned /\ t.ending = s.ending
        /\ \A i \in DOMAIN s.calls :
              s.calls[i].pc \in {"fresh", "delivering", "left", "over"} \/ s.sc.unawaited # {}
    BY DEF Returns
  <1>3. \A j \in DOMAIN s.calls : s.calls[j].pc \notin {"waiting", "asking", "running"}
    BY <1>1, <1>2
  <1>4. s.poisoned => t.poisoned
    BY <1>2
  <1>5. "closing" \in {"closing", "ready", "unwinding", "finishing", "publishing", "released"}
    OBVIOUS
  <1> QED BY <1>1, <1>2, <1>3, <1>4, <1>5, InvAt

(* The invariant, when a generator left open is closed.                     *)
LEMMA InvCloses ==
    ASSUME NEW s, NEW t, Inv(s), TypeInv(t), Closes(s, t)
    PROVE  Inv(t)
  <1>1. /\ s.pc \in {"closing", "unwinding"} /\ s.pc \notin Own
        /\ s.closing \subseteq DOMAIN s.calls
        /\ s.pc = "closing" => s.begun
        /\ s.pc = "unwinding" => s.ending # "none"
        /\ s.pc = "closing" /\ s.ending = "none" =>
              \A j \in DOMAIN s.calls : s.calls[j].pc \notin {"waiting", "asking", "running"}
    <2>1. s.pc \in {"closing", "unwinding"}
      BY DEF Closes
    <2> QED BY <2>1 DEF Own, Inv, TypeInv, Bounds, Stages
  <1>2. PICK i \in s.closing :
          \/ /\ s.calls[i].pc \in {"left", "over"}
             /\ IsAt(s, t, s.pc) /\ t.closing = s.closing \ {i}
             /\ t.begun = s.begun /\ t.poisoned = s.poisoned /\ t.ending = s.ending
          \/ /\ s.calls[i].pc = "fresh"
             /\ IsShut(s, t, i) /\ t.closing = s.closing \ {i}
          \/ /\ s.calls[i].pc \in {"running", "delivering"} /\ ~s.busy.stop
             /\ s.busy.stage # "ended"
             /\ IsStopped(s, t)
    BY DEF Closes
  <1>3. i \in DOMAIN s.calls
    BY <1>1
  <1>4. CASE /\ IsAt(s, t, s.pc)
             /\ t.begun = s.begun /\ t.poisoned = s.poisoned /\ t.ending = s.ending
    <2>1. s.poisoned => t.poisoned
      BY <1>4
    <2>2. s.pc \in {"closing", "ready", "unwinding", "finishing", "publishing", "released"}
      BY <1>1
    <2> DEFINE p == s.pc
    <2>3. /\ p \in {"closing", "unwinding"} /\ (p = "closing" => s.begun)
          /\ (p = "unwinding" => s.ending # "none")
          /\ (p \in {"closing", "ready"} /\ s.ending = "none" =>
                 \A j \in DOMAIN s.calls : s.calls[j].pc \notin {"waiting", "asking", "running"})
      BY <1>1
    <2>4. IsAt(s, t, p) /\ s.pc \notin Own
      BY <1>1, <1>4
    <2> HIDE DEF p
    <2> QED BY <1>4, <2>1, <2>3, <2>4, InvAt
  <1>5. CASE s.calls[i].pc = "fresh" /\ IsShut(s, t, i)
    BY <1>3, <1>5, InvShut
  <1>6. CASE s.calls[i].pc \in {"running", "delivering"} /\ IsStopped(s, t)
    <2>1. ~IsIdle(s)
      BY <1>3, <1>6 DEF Inv, Flight, Working
    <2> QED BY <1>6, <2>1, InvStopped
  <1> QED BY <1>2, <1>4, <1>5, <1>6

(* The invariant, when every generator is closed.                           *)
LEMMA InvReadies ==
    ASSUME NEW s, NEW t, Inv(s), TypeInv(t), Readies(s, t)
    PROVE  Inv(t)
  <1>1. /\ s.pc = "closing" /\ s.pc \notin Own /\ IsIdle(s) /\ s.begun
        /\ s.done => s.ending # "none" /\ ~s.conn.in
    BY DEF Readies, Own, Inv, Stages, Connection
  <1>2. t.pc = IF s.done THEN "finishing" ELSE "ready"
    BY DEF Readies, Goes, IsAt
  <1>3. Goes(s, t, t.pc)
    BY <1>2 DEF Readies
  <1>4. CASE s.done
    BY <1>1, <1>2, <1>3, <1>4, InvGoes
  <1>5. CASE ~s.done
    BY <1>1, <1>2, <1>3, <1>5, InvGoes
  <1> QED BY <1>4, <1>5

(* The invariant, when the transaction concludes of itself.                 *)
LEMMA InvConcludes ==
    ASSUME NEW s, NEW t, Inv(s), TypeInv(t), Concludes(s, t)
    PROVE  Inv(t)
  <1>1. s.pc = "ready"
    BY DEF Concludes
  <1>2. CASE s.cut \/ ~IsIdle(s) \/ s.dead
    <2>1. Fails_(s, t)
      BY <1>2 DEF Concludes
    <2> QED BY <1>1, <2>1, InvFailsOn
  <1>3. CASE ~(s.cut \/ ~IsIdle(s) \/ s.dead)
    <2> DEFINE verb == IF s.autoCommit THEN "commit" ELSE "rollback"
    <2>1. IsOwn(s, t, verb, "concluding")
      BY <1>3 DEF Concludes
    <2>2. "concluding" \in Own /\ verb \in {"commit", "rollback"}
      BY DEF Own
    <2> HIDE DEF verb
    <2> QED BY <1>1, <1>3, <2>1, <2>2, InvOwn
  <1> QED BY <1>2, <1>3

(* The invariant, when the unwinding rolls back or need not.                *)
LEMMA InvUnwinds ==
    ASSUME NEW s, NEW t, Inv(s), TypeInv(t), Unwinds(s, t)
    PROVE  Inv(t)
  <1>1. s.pc = "unwinding" /\ s.pc \notin Own /\ IsIdle(s) /\ s.ending # "none"
    BY DEF Unwinds, Own, Inv, Stages
  <1>2. CASE ~OwesRollback(s)
    <2>1. Goes(s, t, "finishing") /\ t.pc = "finishing"
      BY <1>2 DEF Unwinds, Goes, IsAt
    <2>2. ~s.conn.in \/ s.dead
      BY <1>1, <1>2 DEF OwesRollback, Inv, Connection
    <2>3. Goes(s, t, t.pc)
      BY <2>1
    <2> QED BY <1>1, <2>1, <2>2, <2>3, InvGoes
  <1>3. CASE OwesRollback(s) /\ s.dead
    <2>1. /\ IsAt(s, t, "finishing") /\ t.begun = s.begun /\ t.poisoned /\ t.ending = s.ending
      BY <1>3 DEF Unwinds
    <2>2. "finishing" \in {"closing", "ready", "unwinding", "finishing", "publishing", "released"}
      OBVIOUS
    <2> QED BY <1>1, <1>3, <2>1, <2>2, InvAt
  <1>4. CASE OwesRollback(s) /\ ~s.dead
    <2>1. IsOwn(s, t, "rollback", "rolling")
      BY <1>4 DEF Unwinds
    <2>2. "rolling" \in Own /\ s.begun /\ ~s.done
      BY <1>4 DEF Own, OwesRollback
    <2> QED BY <1>1, <1>4, <2>1, <2>2, InvOwn
  <1> QED BY <1>2, <1>3, <1>4

(* The invariant, when the ending is decided.                               *)
LEMMA InvFinishes ==
    ASSUME NEW s, NEW t, Inv(s), TypeInv(t), Finishes(s, t)
    PROVE  Inv(t)
  <1>1. /\ s.pc = "finishing" /\ s.pc \notin Own /\ IsIdle(s) /\ s.ending # "none"
        /\ ~s.conn.in \/ s.poisoned \/ s.dead
    BY DEF Finishes, Own, Inv, Stages, Connection
  <1>2. Goes(s, t, "publishing") /\ t.pc = "publishing"
    BY <1>1 DEF Finishes, Goes, IsAt
  <1>3. Goes(s, t, t.pc)
    BY <1>2
  <1> QED BY <1>1, <1>2, <1>3, InvGoes

(* The invariant, when the lease goes back.                                 *)
LEMMA InvReleases ==
    ASSUME NEW s, NEW t, Inv(s), TypeInv(t), Releases(s, t)
    PROVE  Inv(t)
  <1>1. /\ s.pc = "publishing" /\ s.pc \notin Own /\ IsIdle(s) /\ s.ending # "none"
        /\ ~s.conn.in \/ s.poisoned \/ s.dead
    BY DEF Releases, Own, Inv, Stages, Connection
  <1>2. Goes(s, t, "released") /\ t.pc = "released"
    BY DEF Releases, Goes, IsAt
  <1>3. Goes(s, t, t.pc)
    BY <1>2
  <1> QED BY <1>1, <1>2, <1>3, InvGoes

(* The invariant, when the page hears the reply to a query of its own.      *)
LEMMA InvHearsOwn ==
    ASSUME NEW s, NEW t, Inv(s), TypeInv(t), ~IsIdle(s), s.busy.stage = "ended",
           HearsBegin(s, t) \/ HearsConclusion(s, t) \/ HearsRollback(s, t)
    PROVE  Inv(t)
  <1>1. s \in States
    BY DEF Inv, TypeInv
  <1>2. OversBegin(s, t) \/ OversConclusion(s, t) \/ OversRollback(s, t)
    BY <1>1, OversBeginIs, OversConclusionIs, OversRollbackIs
  <1> QED BY <1>2, InvOversBegin, InvOversConclusion, InvOversRollback

(* Whose turn it is.                                                        *)
Next_(s, i) ==
    /\ s.calls[i].pc \in {"waiting", "asking"} /\ s.calls[i].prior = Nobody
    /\ s.ending = "none" /\ s.abandoned = Nobody

(* Nothing is in flight when a call's turn comes.                           *)
LEMMA TurnIsIdle ==
    ASSUME NEW s, NEW i \in DOMAIN s.calls, Inv(s), Next_(s, i)
    PROVE  IsIdle(s)
  <1> SUFFICES ASSUME ~IsIdle(s)
               PROVE  FALSE
    OBVIOUS
  <1>1. TypeInv(s) /\ Queue(s) /\ Flight(s) /\ Stages(s)
    BY DEF Inv
  <1>2. s.pc \notin Own
    BY <1>1 DEF Stages, Next_, Own
  <1>3. s.busy.call \in 1 .. Len(s.calls)
    BY <1>1, <1>2, NotInFlight
  <1> DEFINE j == s.busy.call
  <1>4. j \in DOMAIN s.calls /\ j # 0
    BY <1>1, <1>3, CallRange
  <1>5. Working(s.calls[j]) \/ s.calls[j].pc = "left"
    BY <1>1, <1>4 DEF Flight
  <1>6. s.calls[j].pc # "left"
    <2>1. s.calls[j].pc = "left" => s.abandoned = j
      BY <1>1, <1>4 DEF Flight
    <2> QED BY <1>4, <2>1 DEF Next_, Nobody
  <1>7. InLine(s.calls[j]) /\ s.calls[j].pc \notin {"waiting", "asking"}
    BY <1>5, <1>6 DEF Working, InLine
  <1>8. s.calls[j].prior = Nobody
    BY <1>1, <1>4, <1>7, QueueFirst
  <1>9. InLine(s.calls[i]) /\ s.calls[i].prior = Nobody
    BY DEF Next_, InLine
  <1>10. i = j
    BY <1>1, <1>4, <1>7, <1>8, <1>9, QueueFirst
  <1> QED BY <1>7, <1>10 DEF Next_

(* What becomes of it then: its query goes out, or the worker is dead.      *)
Refused(s, t, i) ==
    /\ s.dead
    /\ \E r \in States : (r = s \/ Dies(s, r)) /\ IsSettled(r, t, i, "error")

(* A call starts only with the worker idle.                                 *)
LEMMA StartsOnce ==
    ASSUME NEW s, NEW t, NEW i \in DOMAIN s.calls, NEW open \in BOOLEAN, Inv(s), Next_(s, i),
           Starts(s, t, i, open)
    PROVE  IsIdle(s) /\ (Refused(s, t, i) \/ (~s.dead /\ IsRun(s, t, i, open)))
  <1>1. IsIdle(s)
    BY TurnIsIdle
  <1> QED BY <1>1 DEF Starts, Refused

(* The invariant, when a call is refused at its turn.                       *)
LEMMA InvRefused ==
    ASSUME NEW s, NEW t, NEW i \in DOMAIN s.calls, Inv(s), Next_(s, i), Refused(s, t, i)
    PROVE  Inv(t)
  <1>1. PICK r \in States : (r = s \/ Dies(s, r)) /\ IsSettled(r, t, i, "error")
    BY DEF Refused
  <1>2. Inv(r)
    BY <1>1, InvDies
  <1>3. r.calls = s.calls
    BY <1>1 DEF Dies, IsCut, SameLine
  <1>4. /\ i \in DOMAIN r.calls /\ r.calls[i].pc \in {"waiting", "asking"}
        /\ r.calls[i].prior = Nobody
    BY <1>3 DEF Next_
  <1>5. TypeInv(t)
    BY <1>1, <1>2, <1>4, TypeSettled DEF Inv
  <1>6. "error" \in Tellings
    BY DEF Tellings
  <1> QED BY <1>1, <1>2, <1>4, <1>5, <1>6, InvGivesUp

(* The invariant, when a call starts.                                       *)
LEMMA InvStarts ==
    ASSUME NEW s, NEW t, NEW i \in DOMAIN s.calls, NEW open \in BOOLEAN, Inv(s), Next_(s, i),
           open => Statement(s.calls[i].kind) /\ ~s.readOnly,
           Starts(s, t, i, open)
    PROVE  Inv(t)
  <1>1. IsIdle(s) /\ (Refused(s, t, i) \/ (~s.dead /\ IsRun(s, t, i, open)))
    BY StartsOnce
  <1>2. TypeInv(t)
    BY TypeStarts DEF Inv
  <1>3. CASE Refused(s, t, i)
    BY <1>3, InvRefused
  <1>4. CASE ~s.dead /\ IsRun(s, t, i, open)
    BY <1>1, <1>2, <1>4, InvRun DEF Next_
  <1> QED BY <1>1, <1>3, <1>4

(* The invariant, at a call's turn.                                         *)
LEMMA InvTakes ==
    ASSUME NEW s, NEW t, NEW i \in DOMAIN s.calls, Inv(s), Next_(s, i),
           s.calls[i].pc = "waiting", Takes(s, t, i)
    PROVE  Inv(t)
  <1>1. TypeInv(t)
    BY TypeTakes DEF Inv
  <1>2. CASE Asks(s, s.calls[i])
    <2>1. IsMoved(s, t, i, "asking")
      BY <1>2 DEF Takes
    <2> QED BY <1>1, <1>2, <2>1, InvAsking DEF Next_
  <1>3. CASE ~Asks(s, s.calls[i])
    <2> DEFINE open == s.calls[i].own /\ ~s.readOnly /\ s.calls[i].kind = "batch"
    <2>1. Starts(s, t, i, open)
      BY <1>3 DEF Takes
    <2>2. open \in BOOLEAN /\ (open => Statement(s.calls[i].kind) /\ ~s.readOnly)
      BY DEF Statement
    <2> HIDE DEF open
    <2> QED BY <2>1, <2>2, InvStarts
  <1> QED BY <1>2, <1>3

(* The invariant, when a call joins the queue.                              *)
LEMMA InvEnqueues ==
    ASSUME NEW s, NEW t, NEW i \in DOMAIN s.calls, Inv(s), s.calls[i].pc = "fresh",
           s.ending = "none", s.pc = "callback", Enqueues(s, t, i)
    PROVE  Inv(t)
  <1>1. PICK r \in States :
           /\ IsPlaced(s, r, i)
           /\ IF s.tail = Nobody /\ s.abandoned = Nobody THEN Takes(r, t, i) ELSE t = r
    BY DEF Enqueues
  <1>2. TypeInv(r)
    BY <1>1, TypePlaced DEF Inv
  <1>3. Inv(r)
    BY <1>1, <1>2, InvPlaced
  <1>4. CASE s.tail = Nobody /\ s.abandoned = Nobody
    <2>1. Takes(r, t, i)
      BY <1>1, <1>4
    <2>2. i \in DOMAIN r.calls /\ Next_(r, i) /\ r.calls[i].pc = "waiting"
      BY <1>1, <1>4 DEF IsPlaced, Next_, SameEnding
    <2> QED BY <1>3, <2>1, <2>2, InvTakes
  <1>5. CASE ~(s.tail = Nobody /\ s.abandoned = Nobody)
    BY <1>1, <1>3, <1>5
  <1> QED BY <1>4, <1>5

(* The invariant, when the callback makes a call.                           *)
LEMMA InvCalls ==
    ASSUME NEW s, NEW t, Inv(s), Calls_(s, t)
    PROVE  Inv(t)
  <1>1. /\ s.begun /\ s.ending = "none" /\ s.pc = "callback"
    BY DEF Calls_, Inv, Steady
  <1>2. PICK c \in Call : Fresh(c) /\ Makes(s, t, c)
    BY DEF Calls_
  <1>3. PICK r \in States :
           /\ IsMade(s, r, c) /\ TypeInv(r)
           /\ IF c.kind = "gen" THEN t = r ELSE Enqueues(r, t, Len(s.calls) + 1)
    BY <1>2 DEF Makes
  <1>4. Inv(r)
    BY <1>1, <1>2, <1>3, InvMade
  <1>5. /\ r.ending = "none" /\ r.pc = "callback" /\ r.calls = Append(s.calls, c)
    BY <1>1, <1>3 DEF IsMade, SameEnding, SamePc
  <1>6. Len(s.calls) + 1 \in DOMAIN r.calls /\ r.calls[Len(s.calls) + 1].pc = "fresh"
    <2>1. s.calls \in Seq(Call) /\ Len(s.calls) \in Nat
      BY CallsAre DEF Inv, TypeInv
    <2>2. c.pc = "fresh"
      BY <1>2 DEF Fresh
    <2> QED BY <1>5, <2>1, <2>2
  <1>7. CASE c.kind = "gen"
    BY <1>3, <1>4, <1>7
  <1>8. CASE c.kind # "gen"
    BY <1>3, <1>4, <1>5, <1>6, <1>8, InvEnqueues
  <1> QED BY <1>7, <1>8

(* The invariant, when a generator is pulled.                               *)
LEMMA InvPulls ==
    ASSUME NEW s, NEW t, NEW i \in DOMAIN s.calls, Inv(s), TypeInv(t), Pulls(s, t, i)
    PROVE  Inv(t)
  <1>1. s.pc = "callback" /\ s.calls[i].pc = "fresh"
    BY DEF Pulls, Inv, Steady
  <1>2. CASE s.ending = "none"
    <2>1. Enqueues(s, t, i)
      BY <1>2 DEF Pulls
    <2> QED BY <1>1, <1>2, <2>1, InvEnqueues
  <1>3. CASE s.ending # "none"
    <2>1. IsShut(s, t, i)
      BY <1>3 DEF Pulls
    <2> QED BY <1>1, <2>1, InvShut
  <1> QED BY <1>2, <1>3

(* The invariant, when a waiting call goes on.                              *)
LEMMA InvWaits ==
    ASSUME NEW s, NEW t, NEW i \in DOMAIN s.calls, Inv(s), TypeInv(t),
           \/ Turns(s, t, i) \/ Rejects(s, t, i) \/ Skips(s, t, i)
           \/ \E open \in BOOLEAN : Answers(s, t, i, open)
    PROVE  Inv(t)
  <1>0. "closed" \in Tellings /\ "cut" \in Tellings
    BY DEF Tellings
  <1>1. CASE Turns(s, t, i)
    <2>1. CASE s.ending = "none"
      <3>1. Next_(s, i) /\ Takes(s, t, i) /\ s.calls[i].pc = "waiting"
        BY <1>1, <2>1 DEF Turns, Next_
      <3> QED BY <3>1, InvTakes
    <2>2. CASE s.ending # "none"
      <3>1. IsSettled(s, t, i, "closed") /\ s.calls[i].pc = "waiting"
        BY <1>1, <2>2 DEF Turns
      <3> QED BY <1>0, <2>2, <3>1, InvGivesUp
    <2> QED BY <2>1, <2>2
  <1>2. CASE Rejects(s, t, i)
    <2>1. s.ending # "none"
      BY <1>2 DEF Rejects, Inv, Stages
    <2> QED BY <1>0, <1>2, <2>1, InvGivesUp DEF Rejects
  <1>3. CASE Skips(s, t, i)
    BY <1>0, <1>3, InvGivesUp DEF Skips
  <1>4. CASE \E open \in BOOLEAN : Answers(s, t, i, open)
    <2>1. PICK open \in BOOLEAN : Answers(s, t, i, open)
      BY <1>4
    <2>2. s.calls[i].pc = "asking" /\ ~s.cut /\ Starts(s, t, i, open)
      BY <2>1 DEF Answers
    <2>3. s.abandoned = Nobody /\ s.ending = "none" /\ Asks(s, s.calls[i])
      BY <2>2 DEF Inv, Flight
    <2>4. s.calls[i].prior = Nobody
      BY <2>2, QueueFirst DEF Inv, InLine
    <2>5. Statement(s.calls[i].kind) /\ ~s.readOnly
      BY <2>3 DEF Asks, Statement
    <2> QED BY <2>2, <2>3, <2>4, <2>5, InvStarts DEF Next_
  <1> QED BY <1>1, <1>2, <1>3, <1>4

(* The invariant, when a call's own signal fires.                           *)
LEMMA InvCutsOwn ==
    ASSUME NEW s, NEW t, NEW i \in DOMAIN s.calls, Inv(s), TypeInv(t), CutsOwn(s, t, i)
    PROVE  Inv(t)
  <1>1. CASE /\ s.calls[i].pc \in {"waiting", "asking"}
             /\ s.calls[i].pc = "waiting" /\ s.tail = i => "last" \in s.sc.faults
             /\ IsSettled(s, t, i, "cut")
    <2>1. "cut" \in Tellings
      BY DEF Tellings
    <2>2. "last" \notin s.sc.faults
      BY DEF Inv, Steady
    <2>3. s.calls[i].pc = "asking" => s.calls[i].prior = Nobody
      BY QueueFirst DEF Inv, InLine
    <2>4. s.calls[i].prior = Nobody \/ s.tail # i
      BY <1>1, <2>2, <2>3
    <2> QED BY <1>1, <2>1, <2>4, InvGivesUp
  <1>2. CASE s.calls[i].pc = "running" /\ IsAbandoned(s, t, i)
    BY <1>2, InvAbandoned
  <1>3. CASE s.calls[i].pc \in {"running", "delivering"} /\ IsStopped(s, t)
    <2>1. ~IsIdle(s)
      BY <1>3 DEF Inv, Flight, Working
    <2> QED BY <1>3, <2>1, InvStopped
  <1>4. CASE /\ s.calls[i].pc = "running"
             /\ \E r \in States : IsStopped(s, r) /\ IsMoved(r, t, i, "stopping")
    <2>1. PICK r \in States : IsStopped(s, r) /\ IsMoved(r, t, i, "stopping")
      BY <1>4
    <2>2. ~IsIdle(s)
      BY <1>4 DEF Inv, Flight, Working
    <2>3. TypeInv(r)
      BY <2>1, <2>2, TypeStopped DEF Inv
    <2>4. Inv(r)
      BY <2>1, <2>2, <2>3, InvStopped
    <2>5. i \in DOMAIN r.calls /\ r.calls[i].pc = "running"
      BY <1>4, <2>1 DEF IsStopped, SameLine
    <2> QED BY <2>1, <2>4, <2>5, InvStopping
  <1> QED BY <1>1, <1>2, <1>3, <1>4 DEF CutsOwn

(* The invariant, when a generator's rows are delivered.                    *)
LEMMA InvDelivers ==
    ASSUME NEW s, NEW t, Inv(s), TypeInv(t), ~IsIdle(s), s.busy.call \in DOMAIN s.calls,
           Delivers(s, t)
    PROVE  Inv(t)
  <1> DEFINE i == s.busy.call
  <1>1. PICK a \in States, b \in States, d \in States :
          /\ IsWorked(s, a, s.conn, s.db, "delivering", s.busy.failed)
          /\ IsMoved(a, b, i, "delivering")
          /\ IsTold(b, d, i, "ok")
          /\ IsRecorded(d, t, i)
          /\ TypeInv(a)
    BY DEF Delivers
  <1>2. s.busy.stage = "affected" /\ s.calls[i].pc = "running" /\ i # 0
    BY CallRange DEF Delivers, Inv
  <1>3. Inv(a)
    BY <1>1, <1>2, InvDrains
  <1>4. i \in DOMAIN a.calls /\ a.calls[i].pc = "running"
    BY <1>1, <1>2 DEF IsWorked, SameLine
  <1>5. TypeInv(b)
    BY <1>1, <1>4, TypeMoved
  <1>6. Inv(b) /\ i \in DOMAIN b.calls
    BY <1>1, <1>3, <1>4, <1>5, InvDelivering DEF IsMoved
  <1>7. TypeInv(d)
    BY <1>1, <1>5, <1>6, TypeTold
  <1>8. Inv(d) /\ i \in DOMAIN d.calls
    BY <1>1, <1>6, <1>7, InvTold DEF IsTold
  <1> QED BY <1>1, <1>8, InvRecorded

(* The three ways the worker is done with a query.                          *)
Succeeded(s, t) ==
    /\ ~IsIdle(s) /\ s.busy.stage = "posted"
    /\ PreludeFits(s.conn, s.busy)
    /\ s.busy.verb = "begin" => ~Begun(s).in
    /\ s.busy.verb \in {"commit", "rollback"} => Begun(s).in
    /\ s.busy.verb \in {"release", "rollbackTo"} => HasMark(Begun(s).log, s.busy.name)
    /\ s.busy.verb = "write" => ~s.readOnly
    /\ IsWorked(s, t, Ran(Begun(s), s.busy), s.db \cup Written(Begun(s), s.busy),
                Stage(s), s.busy.failed)

Failed(s, t) ==
    /\ ~IsIdle(s) /\ s.busy.stage = "posted"
    /\ PreludeFits(s.conn, s.busy)
    /\ s.busy.verb = "rollback" /\ s.busy.call # 0 =>
          "explicit" \in s.sc.faults \/ ~Begun(s).in
    /\ IsWorked(s, t, Begun(s), s.db, "ended", TRUE)

Departs(s, t) ==
    /\ ~IsIdle(s) /\ s.busy.stage = "posted"
    /\ s.busy.verb = "commit" /\ s.busy.call # 0 => "explicit" \in s.sc.faults
    /\ s.busy.verb \in {"write", "commit"} \/ s.busy.conclude # "none"
    /\ IsWorked(s, t, OutOfTransaction, s.db, "ended", TRUE)

(* The worker's steps, as one relation.                                     *)
LEMMA WorkerIs ==
    ASSUME TypeInv(x), Worker
    PROVE  (Succeeded(x, x') \/ Failed(x, x') \/ Departs(x, x')) /\ TypeInv(x')
  <1>1. CASE Succeeds
    <2>1. /\ Posted
          /\ PreludeFits(x.conn, x.busy) /\ Fits(Begun(x), x.busy)
          /\ IsWorked(x, x', Ran(Begun(x), x.busy), x.db \cup Written(Begun(x), x.busy),
                      Stage(x), x.busy.failed)
          /\ TypeInv(x')
      BY <1>1, SucceedsIs
    <2> DEFINE c == Begun(x)
    <2>2. /\ x.busy.verb = "begin" => ~c.in
          /\ x.busy.verb \in {"commit", "rollback"} => c.in
          /\ x.busy.verb \in {"release", "rollbackTo"} => HasMark(c.log, x.busy.name)
          /\ x.busy.verb = "write" => ~x.readOnly
      <3>1. Fits(c, x.busy)
        BY <2>1
      <3> HIDE DEF c
      <3> QED BY <3>1 DEF Fits
    <2> QED BY <2>1, <2>2 DEF Succeeded, Posted
  <1>2. CASE Fails
    <2>1. /\ Posted
          /\ PreludeFits(x.conn, x.busy)
          /\ x.busy.verb = "rollback" /\ x.busy.call # 0 =>
                "explicit" \in x.sc.faults \/ ~Fits(Begun(x), x.busy)
          /\ IsWorked(x, x', Begun(x), x.db, "ended", TRUE)
          /\ TypeInv(x')
      BY <1>2, FailsIs
    <2> DEFINE c == Begun(x)
    <2>2. x.busy.verb = "rollback" /\ c.in => Fits(c, x.busy)
      <3> HIDE DEF c
      <3> QED BY DEF Fits
    <2> QED BY <2>1, <2>2 DEF Failed, Posted
  <1>3. CASE Leaves
    <2>1. ~PreludeFits(x.conn, x.busy) => x.busy.conclude # "none"
      BY DEF PreludeFits
    <2> QED BY <1>3, <2>1, LeavesIs DEF Departs, Posted
  <1> QED BY <1>1, <1>2, <1>3 DEF Worker

(* A step of the system.                                                    *)
Acts(s, t) ==
    \/ Calls_(s, t)
    \/ \E i \in DOMAIN s.calls : Pulls(s, t, i)
    \/ Returns(s, t)
    \/ s.pc = "callback" /\ Fails_(s, t)
    \/ ~s.cut /\ s.pc \notin {"publishing", "released"} /\ IsCut(s, t)
    \/ \E i \in DOMAIN s.calls : CutsOwn(s, t, i)
    \/ \E i \in DOMAIN s.calls :
          \/ Turns(s, t, i) \/ Rejects(s, t, i) \/ Skips(s, t, i)
          \/ \E open \in BOOLEAN : Answers(s, t, i, open)
    \/ Succeeded(s, t) \/ Failed(s, t) \/ Departs(s, t)
    \/ ~s.dead /\ s.pc \notin {"acquiring", "released"} /\ IsCrashed(s, t)
    \/ Hears(s, t)
    \/ /\ ~IsIdle(s) /\ s.busy.call \in DOMAIN s.calls
       /\ Drains(s, t) \/ Delivers(s, t)
    \/ /\ ~IsIdle(s) /\ s.busy.call = 0 /\ s.busy.stage = "ended"
       /\ HearsBegin(s, t) \/ HearsConclusion(s, t) \/ HearsRollback(s, t)
    \/ Acquires(s, t) \/ Closes(s, t) \/ Readies(s, t) \/ Concludes(s, t)
    \/ Unwinds(s, t) \/ Finishes(s, t) \/ Releases(s, t)

(* Every step of the specification, as one relation.                        *)
LEMMA NextActs ==
    ASSUME Inv(x), Next
    PROVE  Acts(x, x') /\ TypeInv(x')
  <1>1. /\ TypeInv(x)
        /\ \A i \in DOMAIN x.calls : x.calls[i].pc \in {"running", "delivering"} => ~IsIdle(x)
    BY DEF Inv, Flight, Working
  <1>2. CASE Callback
    <2>1. CASE \E kind \in x.sc.kinds : \E own \in {FALSE, "call" \in x.sc.signals} : Issue(kind, own)
      <3>1. PICK kind \in x.sc.kinds, own \in {FALSE, "call" \in x.sc.signals} : Issue(kind, own)
        BY <2>1
      <3>2. ("call" \in x.sc.signals) \in BOOLEAN
        OBVIOUS
      <3>3. own = FALSE \/ own = ("call" \in x.sc.signals)
        OBVIOUS
      <3>4. own \in BOOLEAN
        BY <3>2, <3>3
      <3> QED BY <1>1, <3>1, <3>4, IssueIs DEF Acts
    <2>2. CASE \E kind \in x.sc.kinds : Conclude(kind)
      BY <1>1, <2>2, ConcludeIs DEF Acts
    <2>3. CASE \E kind \in x.sc.kinds : \E i \in DOMAIN x.calls, keep \in BOOLEAN :
                   UseSavepoint(kind, i, keep)
      <3>1. PICK kind \in x.sc.kinds, i \in DOMAIN x.calls, keep \in BOOLEAN : UseSavepoint(kind, i, keep)
        BY <2>3
      <3> QED BY <1>1, <3>1, UseSavepointIs DEF Acts
    <2>4. CASE \E n \in x.sc.names : OpenSavepoint(n)
      BY <1>1, <2>4, OpenSavepointIs DEF Acts
    <2>5. CASE \E i \in DOMAIN x.calls : Pull(i)
      BY <1>1, <2>5, PullIs DEF Acts
    <2>6. CASE Consume
      BY <1>1, <2>6, ConsumeIs DEF Acts
    <2>7. CASE Return
      BY <1>1, <2>7, ReturnIs DEF Acts
    <2>8. CASE Throw
      BY <1>1, <2>8, ThrowIs DEF Acts
    <2> QED BY <1>2, <2>1, <2>2, <2>3, <2>4, <2>5, <2>6, <2>7, <2>8 DEF Callback
  <1>3. CASE Signals
    <2>1. CASE CutTransaction
      BY <1>1, <2>1, CutTransactionIs DEF Acts
    <2>2. CASE \E i \in DOMAIN x.calls : CutOwn(i)
      <3>1. PICK i \in DOMAIN x.calls : CutOwn(i)
        BY <2>2
      <3>2. CutsOwn(x, x', i) /\ TypeInv(x')
        BY <1>1, <3>1, CutOwnIs
      <3> QED BY <3>2 DEF Acts
    <2> QED BY <1>3, <2>1, <2>2 DEF Signals
  <1>4. CASE Waiting
    BY <1>1, <1>4, WaitingIs DEF Acts
  <1>5. CASE Worker
    BY <1>1, <1>5, WorkerIs DEF Acts
  <1>6. CASE Crash
    BY <1>1, <1>6, CrashIs DEF Acts
  <1>7. CASE Page
    <2>1. CASE HearCall
      BY <1>1, <2>1, HearsIs DEF Acts
    <2>2. CASE HearAffected
      BY <1>1, <2>2, HearAffectedIs DEF Acts
    <2>3. CASE HearOwn
      BY <1>1, <2>3, HearOwnIs DEF Acts
    <2> QED BY <1>7, <2>1, <2>2, <2>3 DEF Page
  <1>8. CASE Itself
    <2>1. CASE Acquire \/ AcquireRejected
      BY <1>1, <2>1, AcquireIs DEF Acts
    <2>2. CASE CloseOne
      BY <1>1, <2>2, CloseOneIs DEF Acts
    <2>3. CASE Closed
      BY <1>1, <2>3, ClosedIs DEF Acts
    <2>4. CASE ConcludeItself
      BY <1>1, <2>4, ConcludeItselfIs DEF Acts
    <2>5. CASE Unwind
      BY <1>1, <2>5, UnwindIs DEF Acts
    <2>6. CASE Finish
      BY <1>1, <2>6, FinishIs DEF Acts
    <2>7. CASE Release
      BY <1>1, <2>7, ReleaseIs DEF Acts
    <2> QED BY <1>8, <2>1, <2>2, <2>3, <2>4, <2>5, <2>6, <2>7 DEF Itself
  <1> QED BY <1>2, <1>3, <1>4, <1>5, <1>6, <1>7, <1>8 DEF Next

(* Every step preserves the invariant.                                      *)
LEMMA InvActs ==
    ASSUME NEW s, NEW t, Inv(s), TypeInv(t), Acts(s, t)
    PROVE  Inv(t)
  <1>1. CASE Calls_(s, t)
    BY <1>1, InvCalls
  <1>2. CASE \E i \in DOMAIN s.calls : Pulls(s, t, i)
    BY <1>2, InvPulls
  <1>3. CASE Returns(s, t)
    BY <1>3, InvReturns
  <1>4. CASE s.pc = "callback" /\ Fails_(s, t)
    BY <1>4, InvFailsOn
  <1>5. CASE IsCut(s, t)
    BY <1>5, InvCut
  <1>6. CASE \E i \in DOMAIN s.calls : CutsOwn(s, t, i)
    BY <1>6, InvCutsOwn
  <1>7. CASE \E i \in DOMAIN s.calls :
                \/ Turns(s, t, i) \/ Rejects(s, t, i) \/ Skips(s, t, i)
                \/ \E open \in BOOLEAN : Answers(s, t, i, open)
    BY <1>7, InvWaits
  <1>8. CASE Succeeded(s, t)
    BY <1>8, InvSucceeds DEF Succeeded
  <1>9. CASE Failed(s, t)
    BY <1>9, InvFails DEF Failed
  <1>10. CASE Departs(s, t)
    BY <1>10, InvLeaves DEF Departs
  <1>11. CASE ~s.dead /\ s.pc \notin {"acquiring", "released"} /\ IsCrashed(s, t)
    BY <1>11, InvCrashed
  <1>12. CASE Hears(s, t)
    BY <1>12, InvHears
  <1>13. CASE ~IsIdle(s) /\ s.busy.call \in DOMAIN s.calls /\ Drains(s, t)
    <2>1. s.busy.call # 0 /\ s.busy.stage \in {"affected", "delivering"}
      BY <1>13, CallRange DEF Inv, Drains
    <2>2. IsWorked(s, t, s.conn, s.db, "ended", s.busy.failed)
      BY <1>13 DEF Drains
    <2> QED BY <1>13, <2>1, <2>2, InvDrains
  <1>14. CASE ~IsIdle(s) /\ s.busy.call \in DOMAIN s.calls /\ Delivers(s, t)
    BY <1>14, InvDelivers
  <1>15. CASE /\ ~IsIdle(s) /\ s.busy.stage = "ended"
              /\ HearsBegin(s, t) \/ HearsConclusion(s, t) \/ HearsRollback(s, t)
    BY <1>15, InvHearsOwn
  <1>16. CASE \/ Acquires(s, t) \/ Closes(s, t) \/ Readies(s, t) \/ Concludes(s, t)
              \/ Unwinds(s, t) \/ Finishes(s, t) \/ Releases(s, t)
    BY <1>16, InvAcquires, InvCloses, InvReadies, InvConcludes, InvUnwinds, InvFinishes, InvReleases
  <1> QED BY <1>1, <1>2, <1>3, <1>4, <1>5, <1>6, <1>7, <1>8, <1>9, <1>10, <1>11, <1>12, <1>13,
             <1>14, <1>15, <1>16 DEF Acts

(* The callback's calls are settled when it returns, and the last of the    *)
(* queue does not give its place up.                                        *)
Awaited == \A sc \in Scenarios : sc.unawaited = {} /\ "last" \notin sc.faults

(* The invariant holds at the start.                                        *)
LEMMA InvInit ==
    ASSUME Awaited, Init
    PROVE  Inv(x)
  <1>1. PICK sc \in Scenarios :
        x = [sc |-> sc, pc |-> "acquiring", readOnly |-> sc.mode = "readOnly",
             autoCommit |-> sc.mode # "manual", ending |-> "none", cut |-> FALSE,
             begun |-> FALSE, done |-> FALSE, poisoned |-> FALSE,
             pending |-> "none", abandoned |-> Nobody, tail |-> Nobody,
             calls |-> <<>>, stack |-> <<>>, closing |-> {},
             busy |-> Idle, said |-> "out", dead |-> FALSE,
             conn |-> [in |-> FALSE, log |-> <<>>], db |-> {},
             ledger |-> <<>>]
    BY DEF Init
  <1>2. /\ x.sc = sc /\ x.pc = "acquiring" /\ x.ending = "none" /\ ~x.cut /\ ~x.begun /\ ~x.done
        /\ x.pending = "none" /\ x.abandoned = Nobody /\ x.tail = Nobody /\ x.calls = <<>>
        /\ x.stack = <<>> /\ x.closing = {} /\ x.busy = Idle /\ x.said = "out" /\ ~x.dead
        /\ ~x.conn.in /\ x.conn.log = <<>> /\ x.db = {} /\ x.ledger = <<>>
    BY <1>1
  <1>3. x \in States
    <2>1. 0 \in 0 .. MaxCalls
      BY TransactionAssumption
    <2>2. <<>> \in Seq(Call) /\ <<>> \in Seq(Calls) /\ <<>> \in Seq(Entries)
      OBVIOUS
    <2>3. [in |-> FALSE, log |-> <<>>] \in [in : BOOLEAN, log : Seq(Entries)]
      BY <2>2
    <2>4. {} \in SUBSET Calls /\ Idle \in Messages \cup {Idle}
      OBVIOUS
    <2>5. "acquiring" \in Phases /\ "none" \in Endings
      BY DEF Phases, Endings
    <2>6. (sc.mode = "readOnly") \in BOOLEAN /\ (sc.mode # "manual") \in BOOLEAN
      OBVIOUS
    <2> DEFINE b == Idle
               c == [in |-> FALSE, log |-> <<>>]
               u == <<>>
               e == {}
               ro == (sc.mode = "readOnly")
               ac == (sc.mode # "manual")
    <2>7. /\ x = [sc |-> sc, pc |-> "acquiring", readOnly |-> ro,
             autoCommit |-> ac, ending |-> "none", cut |-> FALSE,
             begun |-> FALSE, done |-> FALSE, poisoned |-> FALSE,
             pending |-> "none", abandoned |-> 0, tail |-> 0,
             calls |-> u, stack |-> u, closing |-> e,
             busy |-> b, said |-> "out", dead |-> FALSE,
             conn |-> c, db |-> e,
             ledger |-> u]
          /\ b \in Messages \cup {Idle} /\ c \in [in : BOOLEAN, log : Seq(Entries)]
          /\ u \in Seq(Call) /\ u \in Seq(Calls) /\ u \in Seq(Entries)
          /\ e \in SUBSET Calls /\ ro \in BOOLEAN /\ ac \in BOOLEAN
      BY <1>1, <2>2, <2>3, <2>4, <2>6 DEF Nobody
    <2> HIDE DEF b, c, u, e, ro, ac
    <2> QED BY <2>1, <2>5, <2>7 DEF States
  <1>4. Len(x.calls) = 0 /\ DOMAIN x.calls = {}
    BY <1>2
  <1>5. IsIdle(x)
    BY <1>2 DEF IsIdle
  <1>6. TypeInv(x)
    <2>1. /\ Len(x.calls) <= MaxCalls /\ x.tail \in 0 .. Len(x.calls)
          /\ x.abandoned \in 0 .. Len(x.calls)
      BY <1>2, <1>4, TransactionAssumption DEF Nobody
    <2>2. /\ x.closing \subseteq DOMAIN x.calls /\ x.stack \in Seq(DOMAIN x.calls)
          /\ x.db \subseteq DOMAIN x.calls
          /\ x.conn.log \in Seq(EntriesOf(Len(x.calls)))
          /\ x.ledger \in Seq(EntriesOf(Len(x.calls)))
      BY <1>2
    <2> QED BY <1>2, <1>3, <1>5, <2>1, <2>2 DEF TypeInv, Bounds, OwnFlight, Own
  <1>7. Steady(x)
    BY <1>2 DEF Steady, Awaited
  <1>8. Queue(x)
    <2>1. <<>> \in Seq(Calls) /\ QueueIs(x, <<>>)
      BY <1>2, <1>4 DEF QueueIs
    <2> QED BY <2>1 DEF Queue
  <1>9. Flight(x) /\ Carries(x) /\ Stages(x) /\ Unbusy(x)
    BY <1>2, <1>4, <1>5 DEF Flight, Carries, Stages, Unbusy
  <1>10. Connection(x)
    BY <1>2, <1>5 DEF Connection
  <1> QED BY <1>6, <1>7, <1>8, <1>9, <1>10 DEF Inv

(* A step of the specification preserves the invariant.                     *)
LEMMA InvNext ==
    ASSUME Inv(x), [Next]_x
    PROVE  Inv(x)'
  <1>1. CASE Next
    <2>1. Acts(x, x') /\ TypeInv(x')
      BY <1>1, NextActs
    <2>2. Inv(x')
      BY <2>1, InvActs
    <2> QED BY <2>2
  <1>2. CASE UNCHANGED x
    BY <1>2
  <1> QED BY <1>1, <1>2

(* The invariant of the transaction, its queue and its connection.          *)
LEMMA InvHolds == ASSUME Awaited PROVE Spec => []Inv(x)
  <1>1. Init => Inv(x)
    BY InvInit
  <1>2. Inv(x) /\ [Next]_x => Inv(x)'
    BY InvNext
  <1> QED BY <1>1, <1>2, PTL DEF Spec

(* The types the proofs use imply the type invariant.                       *)
LEMMA TypeInvIsType ==
    ASSUME TypeInv(x)
    PROVE  TypeOK
  <1>1. Bounds(x) /\ x \in States /\ Len(x.calls) \in Nat /\ DOMAIN x.calls = 1 .. Len(x.calls)
    BY CallsAre DEF TypeInv
  <1>2. ToSet(x.stack) \subseteq DOMAIN x.calls
    BY <1>1 DEF Bounds, ToSet
  <1>3. {x.tail, x.abandoned} \subseteq {Nobody} \cup DOMAIN x.calls
    BY <1>1 DEF Bounds, Nobody
  <1> QED BY <1>1, <1>2, <1>3 DEF TypeOK, Bounds

(* The closure of transaction(), the worker and the file stay within their  *)
(* types, and what refers to a call refers to one that was made.            *)
THEOREM TransactionTypes == ASSUME Awaited PROVE Spec => []TypeOK
  <1>1. Inv(x) => TypeOK
    BY TypeInvIsType DEF Inv
  <1> QED BY <1>1, InvHolds, PTL

(* A connection goes back to the pool outside any transaction, or its       *)
(* worker is given up (transaction.ts, onPoisoned).                         *)
THEOREM ConnectionComesBackClean == ASSUME Awaited PROVE Spec => []NeverReturnedOpen
  <1>1. Inv(x) => NeverReturnedOpen
    BY DEF Inv, Connection, NeverReturnedOpen
  <1> QED BY <1>1, InvHolds, PTL

(* The calls of one transaction wait for each other: none meets the pool's  *)
(* reuse guard.                                                             *)
THEOREM CallsNeverCollide == ASSUME Awaited PROVE Spec => []NeverBusy
  <1>1. Inv(x) => NeverBusy
    BY DEF Inv, Unbusy, NeverBusy
  <1> QED BY <1>1, InvHolds, PTL

=============================================================================
