-------------------------- MODULE AtomicityProofs --------------------------
(***************************************************************************)
(* Proofs about Transaction, on the invariant of TransactionProofs: that    *)
(* the connection's journal is the account of what callers were told, that  *)
(* endings are told truthfully, and that transaction() implements AtomicTx. *)
(***************************************************************************)
EXTENDS TransactionProofs

(* Nothing has no writes, and one write is its own.                         *)
LEMMA WritesNone == Writes(<<>>) = <<>>
  <1>1. <<>> \in Seq({1}) /\ Len(<<>>) = 0
    OBVIOUS
  <1>2. PICK u \in WritesUpTo(<<>>, {1}, 0) : TRUE
    BY <1>1, WritesExist
  <1>3. u[0] = <<>>
    BY DEF WritesUpTo
  <1> QED
    BY <1>1, <1>2, <1>3, WritesAreLast

(* The writes of a journal of one write.                                    *)
LEMMA WritesOne ==
    ASSUME NEW S, NEW log \in Seq(S), Len(log) = 1, IsEffect(log[1])
    PROVE  Writes(log) = <<log[1]>>
  <1>1. PICK u \in WritesUpTo(log, S, 1) : TRUE
    BY WritesExist
  <1>2. u[0] = <<>> /\ u[1] = Append(u[0], log[1])
    <2>1. u[0] = <<>> /\ \A k \in 1 .. 1 :
              u[k] = IF IsEffect(log[k]) THEN Append(u[k - 1], log[k]) ELSE u[k - 1]
      BY DEF WritesUpTo
    <2>2. 1 \in 1 .. 1 /\ 1 - 1 = 0
      OBVIOUS
    <2> QED
      BY <2>1, <2>2
  <1>3. Append(<<>>, log[1]) = <<log[1]>>
    OBVIOUS
  <1> QED
    BY <1>1, <1>2, <1>3, WritesAreLast

(* The mark just taken is the last one.                                     *)
LEMMA MarkAtEnd ==
    ASSUME NEW S, NEW log \in Seq(S), NEW n, NEW k \in 1 .. Len(log),
           log[k] = Mark(n), \A j \in k + 1 .. Len(log) : log[j] # Mark(n)
    PROVE  MarkAt(log, n) = k
  <1> DEFINE I == {i \in 1 .. Len(log) : log[i] = Mark(n)}
  <1>1. MarkAt(log, n) = IF I # {} THEN Max(I) ELSE 0
    BY DEF MarkAt, SelectLastInSeq
  <1>2. k \in I
    OBVIOUS
  <1>3. \A j \in I : j <= k
    OBVIOUS
  <1>4. Max(I) \in I /\ \A j \in I : Max(I) >= j
    <2>1. \E i \in I : \A j \in I : i >= j
      BY <1>2, <1>3
    <2> HIDE DEF I
    <2> QED BY <2>1 DEF Max
  <1>5. Max(I) = k
    <2>1. Max(I) >= k /\ Max(I) <= k /\ Max(I) \in Int
      BY <1>2, <1>3, <1>4
    <2> HIDE DEF I
    <2> QED BY <2>1
  <1> QED BY <1>1, <1>2, <1>5

(* A savepoint with nothing after it: rolled back to, and released.         *)
LEMMA MarkedLast ==
    ASSUME NEW S, NEW log \in Seq(S), NEW n, Mark(n) \in S
    PROVE  /\ RolledBackTo(Append(log, Mark(n)), n) = Append(log, Mark(n))
           /\ Released(Append(log, Mark(n)), n) = log
  <1> DEFINE a == Append(log, Mark(n))
             l == Len(log)
  <1>1. a \in Seq(S) /\ Len(a) = l + 1 /\ a[l + 1] = Mark(n) /\ l \in Nat
        /\ \A j \in 1 .. l : a[j] = log[j]
    OBVIOUS
  <1> HIDE DEF a
  <1>2. MarkAt(a, n) = l + 1
    BY <1>1, MarkAtEnd
  <1>3. SubSeq(a, 1, l + 1) = a
    BY <1>1
  <1>4. SubSeq(a, 1, l) = log
    BY <1>1
  <1>5. SubSeq(a, l + 2, l + 1) = <<>>
    BY <1>1
  <1>6. log \o <<>> = log
    OBVIOUS
  <1>7. (l + 1) - 1 = l /\ (l + 1) + 1 = l + 2
    OBVIOUS
  <1>8. RolledBackTo(a, n) = a
    BY <1>2, <1>3 DEF RolledBackTo
  <1>9. Released(a, n) = log
    BY <1>1, <1>2, <1>4, <1>5, <1>6, <1>7, WritesNone DEF Released
  <1> QED BY <1>8, <1>9 DEF a

(* A savepoint with one write after it.                                     *)
LEMMA MarkedWrite ==
    ASSUME NEW S, NEW log \in Seq(S), NEW n, NEW e \in S, Mark(n) \in S, IsEffect(e)
    PROVE  /\ RolledBackTo(Append(Append(log, Mark(n)), e), n) = Append(log, Mark(n))
           /\ Released(Append(Append(log, Mark(n)), e), n) = Append(log, e)
  <1> DEFINE b == Append(log, Mark(n))
             a == Append(b, e)
             l == Len(log)
  <1>0. e # Mark(n)
    BY DEF IsEffect, Mark
  <1>1. /\ a \in Seq(S) /\ Len(a) = l + 2 /\ a[l + 1] = Mark(n) /\ a[l + 2] = e /\ l \in Nat
        /\ \A j \in 1 .. l : a[j] = log[j]
        /\ b \in Seq(S) /\ Len(b) = l + 1 /\ \A j \in 1 .. l + 1 : a[j] = b[j]
    OBVIOUS
  <1> HIDE DEF a, b
  <1>2. MarkAt(a, n) = l + 1
    BY <1>0, <1>1, MarkAtEnd
  <1>3. SubSeq(a, 1, l + 1) = b
    BY <1>1
  <1>4. SubSeq(a, 1, l) = log
    BY <1>1
  <1>5. Writes(SubSeq(a, l + 2, l + 2)) = <<e>>
    <2> DEFINE z == SubSeq(a, l + 2, l + 2)
    <2>1. z = [i \in 1 .. 1 |-> a[i + (l + 1)]]
      BY <1>1
    <2>2. z \in Seq(S) /\ Len(z) = 1
      BY <1>1
    <2>3. z[1] = e
      <3>1. 1 + (l + 1) = l + 2
        BY <1>1
      <3> QED BY <1>1, <2>1, <3>1
    <2> HIDE DEF z
    <2>4. Writes(z) = <<z[1]>>
      BY <2>2, <2>3, WritesOne
    <2> QED BY <2>3, <2>4 DEF z
  <1>6. log \o <<e>> = Append(log, e)
    OBVIOUS
  <1>7. (l + 1) - 1 = l /\ (l + 1) + 1 = l + 2
    OBVIOUS
  <1>8. RolledBackTo(a, n) = b
    BY <1>2, <1>3 DEF RolledBackTo
  <1>9. Released(a, n) = Append(log, e)
    BY <1>1, <1>2, <1>4, <1>5, <1>6, <1>7 DEF Released
  <1> QED BY <1>8, <1>9 DEF a, b

(* The stage of the call whose query is in flight.                          *)
Part(s) == IF s.busy.call = 0 THEN "none" ELSE s.calls[s.busy.call].pc

(* What the next message owes the savepoint of the query in flight.         *)
Owed(s) ==
    ~IsIdle(s) =>
        /\ s.pending = IF ~s.busy.open THEN "none"
                       ELSE IF Part(s) = "left" THEN "undo" ELSE "release"
        /\ s.busy.verb = "rollback" => s.busy.conclude = "none"
        /\ Part(s) = "left" => s.busy.open

(* Every ending is heard of, so that a statement may count on its           *)
(* transaction.                                                             *)
Within(s) ==
    /\ s.ending # "none" => s.cut \/ s.done \/ s.pc \in {"publishing", "released"}
    /\ s.begun /\ s.ending = "none" /\ ~s.dead /\ IsIdle(s) => s.conn.in
    /\ ~IsIdle(s) =>
          /\ s.busy.stage = "posted" => (s.conn.in <=> s.busy.verb # "begin")
          /\ s.busy.stage # "posted" /\ ~s.busy.failed =>
                (s.conn.in <=> s.busy.verb \notin {"commit", "rollback"})
          /\ s.busy.call # 0 /\ s.busy.stage # "posted" /\ ~s.dead =>
                /\ s.busy.verb = "rollback" => ~s.busy.failed
                /\ s.busy.verb = "commit" /\ s.busy.failed => s.conn.in

(* What the caller of the query in flight was told, and whether the write   *)
(* may have been given up.                                                  *)
Promises(s) ==
    /\ \A i \in DOMAIN s.calls :
          /\ s.calls[i].pc \in {"fresh", "waiting", "asking", "running", "stopping", "dropping"}
                => s.calls[i].told = "nothing"
          /\ s.calls[i].pc = "delivering" => s.calls[i].told = "ok"
          /\ s.calls[i].own \/ s.calls[i].pc = "stopping" => Statement(s.calls[i].kind)
    /\ ~IsIdle(s) /\ s.busy.call # 0 =>
          /\ Part(s) = "delivering" => s.busy.stage \in {"delivering", "ended"} /\ s.busy.verb = "write"
          /\ s.busy.stage = "delivering" => Part(s) = "delivering"
          /\ s.busy.verb = "write" /\ s.readOnly => s.busy.stage = "posted" \/ s.busy.failed
          /\ s.busy.verb = "write" /\ ~s.readOnly =>
                /\ Part(s) # "stopping"
                /\ Part(s) = "running" /\ s.calls[s.busy.call].own => s.busy.open
                /\ Part(s) = "running" /\ s.busy.stop => s.ending # "none"

Base(log, open) == IF open THEN Append(log, Mark(Library)) ELSE log

(* What the journal is once query m has run on account l, when its call is  *)
(* at p.                                                                    *)
After(l, m, p) ==
    IF m.failed \/ m.verb \in {"read", "begin"} THEN Base(l, m.open)
    ELSE IF m.verb = "write"
    THEN Append(Base(IF p = "delivering" THEN Front(l) ELSE l, m.open), Effect(m.call))
    ELSE IF m.verb = "savepoint" THEN Append(l, Mark(m.name))
    ELSE IF m.verb = "rollbackTo" THEN RolledBackTo(l, m.name)
    ELSE Released(IF p = "dropping" THEN RolledBackTo(l, m.name) ELSE l, m.name)

(* The journal and the account, while query m is in flight.                 *)
Agrees(log, l, m, p) ==
    /\ m.stage = "posted" =>
          IF p = "dropping" THEN m.conclude = "none" /\ log = RolledBackTo(l, m.name)
                            ELSE Concluded(log, m.conclude) = l
    /\ m.stage # "posted" => (m.failed /\ p = "dropping") \/ log = After(l, m, p)
    /\ p = "delivering" => l # <<>> /\ l[Len(l)] = Effect(m.call)

Live(s) ==
    /\ s.conn.in
    /\ s.ending = "none" \/ (~IsIdle(s) /\ s.busy.verb = "commit")
    /\ ~IsIdle(s) => s.busy.verb # "rollback"

(* The journal is the account, but for the conclusion that is owed.         *)
Journal(s) ==
    Live(s) =>
        /\ IsIdle(s) => Concluded(s.conn.log, s.pending) = s.ledger
        /\ ~IsIdle(s) => Agrees(s.conn.log, s.ledger, s.busy, Part(s))

(* The file is as it was until the COMMIT, and then holds the account.      *)
Committing(s) == ~IsIdle(s) /\ s.busy.verb = "commit" /\ s.busy.stage = "ended" /\ ~s.busy.failed

File(s) ==
    /\ ~s.begun => s.ledger = <<>>
    /\ ~s.begun \/ s.conn.in => s.db = {}
    /\ s.db # {} => s.dead \/ s.ending = "committed" \/ Committing(s)
    /\ Committing(s) => s.db = Effects(s.ledger)
    /\ s.ending = "committed" => s.done /\ s.db = Effects(s.ledger)

(* Statements of the callback are heard of when they end the transaction.   *)
More(s) ==
    /\ "explicit" \notin s.sc.faults
    /\ Owed(s) /\ Within(s) /\ Promises(s) /\ Journal(s) /\ File(s)

(* What the conclusion that is owed makes of the journal.                   *)
LEMMA ConcludedBase ==
    ASSUME NEW n \in Nat, NEW l \in Seq(EntriesOf(n)), NEW i \in 1 .. n, NEW open \in BOOLEAN,
           NEW p, p = IF open THEN "release" ELSE "none"
    PROVE  /\ Concluded(Base(l, open), p) = l
           /\ open => Concluded(Base(l, open), "undo") = l
           /\ Concluded(Append(Base(l, open), Effect(i)), p) = Append(l, Effect(i))
           /\ open => Concluded(Append(Base(l, open), Effect(i)), "undo") = l
  <1> DEFINE e == Effect(i)
             m == Mark(Library)
             S == EntriesOf(n)
  <1>1. e \in S /\ m \in S /\ IsEffect(e)
    BY EntryIs DEF Names
  <1>2. CASE open
    <2>1. Base(l, open) = Append(l, m) /\ p = "release"
      BY <1>2 DEF Base
    <2>2. /\ RolledBackTo(Append(l, m), Library) = Append(l, m)
          /\ Released(Append(l, m), Library) = l
      BY <1>1, MarkedLast
    <2>3. /\ RolledBackTo(Append(Append(l, m), e), Library) = Append(l, m)
          /\ Released(Append(Append(l, m), e), Library) = Append(l, e)
      BY <1>1, MarkedWrite
    <2> QED BY <2>1, <2>2, <2>3 DEF Concluded
  <1>3. CASE ~open
    BY <1>3 DEF Base, Concluded
  <1> QED BY <1>2, <1>3

(* A step that leaves the journal, the account and the query as they are.   *)
LEMMA JournalStays ==
    ASSUME NEW s, NEW t, Journal(s), Live(t) => Live(s),
           t.conn = s.conn, t.ledger = s.ledger,
           IsIdle(t) <=> IsIdle(s),
           IsIdle(s) => t.pending = s.pending,
           ~IsIdle(s) =>
               /\ SameQuery(t.busy, s.busy)
               /\ t.busy.stage = "posted" <=> s.busy.stage = "posted"
               /\ Part(t) = "delivering" <=> Part(s) = "delivering"
               /\ Part(t) = "dropping" <=> Part(s) = "dropping"
    PROVE  Journal(t)
  <1> SUFFICES ASSUME Live(t)
               PROVE  Journal(t)
    BY DEF Journal
  <1>1. /\ IsIdle(s) => Concluded(s.conn.log, s.pending) = s.ledger
        /\ ~IsIdle(s) => Agrees(s.conn.log, s.ledger, s.busy, Part(s))
    BY DEF Journal
  <1>2. CASE IsIdle(s)
    BY <1>1, <1>2 DEF Journal
  <1>3. CASE ~IsIdle(s)
    <2>1. After(t.ledger, t.busy, Part(t)) = After(s.ledger, s.busy, Part(s))
      BY <1>3 DEF After, SameQuery
    <2>2. Agrees(t.conn.log, t.ledger, t.busy, Part(t))
      BY <1>1, <1>3, <2>1 DEF Agrees, SameQuery
    <2> QED BY <1>3, <2>2 DEF Journal
  <1> QED BY <1>2, <1>3

(* A step that leaves the file and the account as they are.                 *)
LEMMA FileStays ==
    ASSUME NEW s, NEW t, File(s),
           t.db = s.db, t.ledger = s.ledger, ~t.begun => ~s.begun, t.conn.in => s.conn.in,
           s.dead => t.dead, s.done => t.done,
           t.ending = "committed" <=> s.ending = "committed",
           Committing(t) <=> Committing(s)
    PROVE  File(t)
  BY DEF File

(* A call is made. *)
LEMMA MoreMade ==
    ASSUME NEW s, NEW t, NEW c \in Call, Inv(s), Inv(t), More(s),
           IsMade(s, t, c), Fresh(c), s.begun
    PROVE  More(t)
  <1>1. Owed(s) /\ Within(s) /\ Promises(s) /\ Journal(s) /\ File(s) /\ "explicit" \notin s.sc.faults
    BY DEF More
  <1>2. /\ DOMAIN s.calls = 1 .. Len(s.calls) /\ Len(s.calls) \in Nat
        /\ DOMAIN t.calls = 1 .. Len(t.calls) /\ Len(t.calls) \in Nat
        /\ s \in States /\ t \in States
        /\ TypeInv(s) /\ TypeInv(t)
    BY CallRange DEF Inv
  <1>r. /\ ~IsIdle(s) /\ s.busy.call # 0 => s.busy.call \in DOMAIN s.calls
        /\ ~IsIdle(t) /\ t.busy.call # 0 => t.busy.call \in DOMAIN t.calls
    BY <1>2, SMTT(30) DEF TypeInv, OwnFlight, Bounds, Nobody
  <1>a. /\ \A j \in DOMAIN s.calls : t.calls[j] = s.calls[j] /\ j \in DOMAIN t.calls
        /\ \A j \in DOMAIN t.calls : j \in DOMAIN s.calls \/ t.calls[j] = c
    <2>1. s.calls \in Seq(Call) /\ t.calls = Append(s.calls, c)
      BY <1>2, CallsAre DEF IsMade
    <2> QED BY <1>2, <2>1
  <1>b. ~IsIdle(s) => t.busy = s.busy /\ Part(t) = Part(s)
    BY <1>2, <1>r, <1>a DEF IsMade, SameBusy, Part
  <1>3. Owed(t)
    BY <1>1, <1>2, <1>r, <1>a, <1>b DEF IsMade, Fresh, SameSc, SamePc, SameEnding, SameBook, SameLine, SameBusy, SameData, Owed, Part, IsIdle, SameQuery, Stepped
  <1>4. Within(t)
    BY <1>1, <1>2, <1>r, <1>a, <1>b DEF IsMade, Fresh, SameSc, SamePc, SameEnding, SameBook, SameLine, SameBusy, SameData, Within, IsIdle, SameQuery, Stepped
  <1>5. Promises(t)
    <2>1. \A j \in DOMAIN t.calls :
          /\ t.calls[j].pc \in {"fresh", "waiting", "asking", "running", "stopping", "dropping"}
                => t.calls[j].told = "nothing"
          /\ t.calls[j].pc = "delivering" => t.calls[j].told = "ok"
          /\ t.calls[j].own \/ t.calls[j].pc = "stopping" => Statement(t.calls[j].kind)
      BY <1>1, <1>2, <1>r, <1>a, <1>b DEF IsMade, Fresh, SameSc, SamePc, SameEnding, SameBook, SameLine, SameBusy, SameData, Promises, Part, Kin, IsIdle, SameQuery, Stepped
    <2>2. ~IsIdle(t) /\ t.busy.call # 0 =>
          /\ Part(t) = "delivering" => t.busy.stage \in {"delivering", "ended"} /\ t.busy.verb = "write"
          /\ t.busy.stage = "delivering" => Part(t) = "delivering"
          /\ t.busy.verb = "write" /\ t.readOnly => t.busy.stage = "posted" \/ t.busy.failed
      BY <1>1, <1>2, <1>r, <1>a, <1>b DEF IsMade, Fresh, SameSc, SamePc, SameEnding, SameBook, SameLine, SameBusy, SameData, Promises, Part, Kin, IsIdle, SameQuery, Stepped
    <2>3. ~IsIdle(t) /\ t.busy.call # 0 /\ t.busy.verb = "write" /\ ~t.readOnly =>
                /\ Part(t) # "stopping"
                /\ Part(t) = "running" /\ t.calls[t.busy.call].own => t.busy.open
                /\ Part(t) = "running" /\ t.busy.stop => t.ending # "none"
      BY <1>1, <1>2, <1>r, <1>a, <1>b DEF IsMade, Fresh, SameSc, SamePc, SameEnding, SameBook, SameLine, SameBusy, SameData, Promises, Part, Kin, IsIdle, SameQuery, Stepped
    <2> QED BY <2>1, <2>2, <2>3 DEF Promises
  <1>6. Journal(t)
    <2>1. Live(t) => Live(s)
      BY <1>1, <1>2, <1>r, <1>a, <1>b DEF IsMade, Fresh, SameSc, SamePc, SameEnding, SameBook, SameLine, SameBusy, SameData, Live, IsIdle, SameQuery
    <2>2. ~IsIdle(s) =>
               /\ SameQuery(t.busy, s.busy)
               /\ t.busy.stage = "posted" <=> s.busy.stage = "posted"
               /\ Part(t) = "delivering" <=> Part(s) = "delivering"
               /\ Part(t) = "dropping" <=> Part(s) = "dropping"
      BY <1>1, <1>2, <1>r, <1>a, <1>b DEF IsMade, Fresh, SameSc, SamePc, SameEnding, SameBook, SameLine, SameBusy, SameData, SameQuery, Part, IsIdle, Stepped
    <2>3. /\ t.conn = s.conn /\ t.ledger = s.ledger
          /\ IsIdle(t) <=> IsIdle(s)
          /\ IsIdle(s) => t.pending = s.pending
      BY <1>1, <1>2, <1>r, <1>a, <1>b DEF IsMade, Fresh, SameSc, SamePc, SameEnding, SameBook, SameLine, SameBusy, SameData, IsIdle
    <2> QED BY <1>1, <2>1, <2>2, <2>3, JournalStays
  <1>7. File(t)
    <2>1. Committing(t) <=> Committing(s)
      BY <1>1, <1>2, <1>r, <1>a, <1>b DEF IsMade, Fresh, SameSc, SamePc, SameEnding, SameBook, SameLine, SameBusy, SameData, Committing, IsIdle, SameQuery
    <2>2. /\ t.db = s.db /\ t.ledger = s.ledger /\ t.conn = s.conn
          /\ ~t.begun => ~s.begun
          /\ s.dead => t.dead
          /\ s.done => t.done
          /\ t.ending = "committed" <=> s.ending = "committed"
      BY <1>1, <1>2, <1>r, <1>a, <1>b DEF IsMade, Fresh, SameSc, SamePc, SameEnding, SameBook, SameLine, SameBusy, SameData
    <2> QED BY <1>1, <2>1, <2>2, FileStays
  <1>8. "explicit" \notin t.sc.faults
    BY <1>1 DEF IsMade, Fresh, SameSc, SamePc, SameEnding, SameBook, SameLine, SameBusy, SameData
  <1> QED BY <1>3, <1>4, <1>5, <1>6, <1>7, <1>8 DEF More

(* It takes its place. *)
LEMMA MorePlaced ==
    ASSUME NEW s, NEW t, NEW i \in DOMAIN s.calls, Inv(s), Inv(t), More(s),
           IsPlaced(s, t, i), s.calls[i].pc = "fresh"
    PROVE  More(t)
  <1>1. Owed(s) /\ Within(s) /\ Promises(s) /\ Journal(s) /\ File(s) /\ "explicit" \notin s.sc.faults
    BY DEF More
  <1>2. /\ DOMAIN s.calls = 1 .. Len(s.calls) /\ Len(s.calls) \in Nat
        /\ DOMAIN t.calls = 1 .. Len(t.calls) /\ Len(t.calls) \in Nat
        /\ s \in States /\ t \in States
        /\ TypeInv(s) /\ TypeInv(t)
    BY CallRange DEF Inv
  <1>r. /\ ~IsIdle(s) /\ s.busy.call # 0 => s.busy.call \in DOMAIN s.calls
        /\ ~IsIdle(t) /\ t.busy.call # 0 => t.busy.call \in DOMAIN t.calls
    BY <1>2, SMTT(30) DEF TypeInv, OwnFlight, Bounds, Nobody
  <1>3. Owed(t)
    BY <1>1, <1>2, <1>r DEF IsPlaced, SameSc, SamePc, SameEnding, SameBook, SameLine, SameBusy, SameData, Owed, Part, IsIdle, SameQuery, Stepped
  <1>4. Within(t)
    BY <1>1, <1>2, <1>r DEF IsPlaced, SameSc, SamePc, SameEnding, SameBook, SameLine, SameBusy, SameData, Within, IsIdle, SameQuery, Stepped
  <1>5. Promises(t)
    <2>1. \A j \in DOMAIN t.calls :
          /\ t.calls[j].pc \in {"fresh", "waiting", "asking", "running", "stopping", "dropping"}
                => t.calls[j].told = "nothing"
          /\ t.calls[j].pc = "delivering" => t.calls[j].told = "ok"
          /\ t.calls[j].own \/ t.calls[j].pc = "stopping" => Statement(t.calls[j].kind)
      BY <1>1, <1>2, <1>r DEF IsPlaced, SameSc, SamePc, SameEnding, SameBook, SameLine, SameBusy, SameData, Promises, Part, Kin, IsIdle, SameQuery, Stepped
    <2>2. ~IsIdle(t) /\ t.busy.call # 0 =>
          /\ Part(t) = "delivering" => t.busy.stage \in {"delivering", "ended"} /\ t.busy.verb = "write"
          /\ t.busy.stage = "delivering" => Part(t) = "delivering"
          /\ t.busy.verb = "write" /\ t.readOnly => t.busy.stage = "posted" \/ t.busy.failed
      BY <1>1, <1>2, <1>r DEF IsPlaced, SameSc, SamePc, SameEnding, SameBook, SameLine, SameBusy, SameData, Promises, Part, Kin, IsIdle, SameQuery, Stepped
    <2>3. ~IsIdle(t) /\ t.busy.call # 0 /\ t.busy.verb = "write" /\ ~t.readOnly =>
                /\ Part(t) # "stopping"
                /\ Part(t) = "running" /\ t.calls[t.busy.call].own => t.busy.open
                /\ Part(t) = "running" /\ t.busy.stop => t.ending # "none"
      BY <1>1, <1>2, <1>r DEF IsPlaced, SameSc, SamePc, SameEnding, SameBook, SameLine, SameBusy, SameData, Promises, Part, Kin, IsIdle, SameQuery, Stepped
    <2> QED BY <2>1, <2>2, <2>3 DEF Promises
  <1>6. Journal(t)
    <2>1. Live(t) => Live(s)
      BY <1>1, <1>2, <1>r DEF IsPlaced, SameSc, SamePc, SameEnding, SameBook, SameLine, SameBusy, SameData, Live, IsIdle, SameQuery
    <2>2. ~IsIdle(s) =>
               /\ SameQuery(t.busy, s.busy)
               /\ t.busy.stage = "posted" <=> s.busy.stage = "posted"
               /\ Part(t) = "delivering" <=> Part(s) = "delivering"
               /\ Part(t) = "dropping" <=> Part(s) = "dropping"
      BY <1>1, <1>2, <1>r DEF IsPlaced, SameSc, SamePc, SameEnding, SameBook, SameLine, SameBusy, SameData, SameQuery, Part, IsIdle, Stepped
    <2>3. /\ t.conn = s.conn /\ t.ledger = s.ledger
          /\ IsIdle(t) <=> IsIdle(s)
          /\ IsIdle(s) => t.pending = s.pending
      BY <1>1, <1>2, <1>r DEF IsPlaced, SameSc, SamePc, SameEnding, SameBook, SameLine, SameBusy, SameData, IsIdle
    <2> QED BY <1>1, <2>1, <2>2, <2>3, JournalStays
  <1>7. File(t)
    <2>1. Committing(t) <=> Committing(s)
      BY <1>1, <1>2, <1>r DEF IsPlaced, SameSc, SamePc, SameEnding, SameBook, SameLine, SameBusy, SameData, Committing, IsIdle, SameQuery
    <2>2. /\ t.db = s.db /\ t.ledger = s.ledger /\ t.conn = s.conn
          /\ ~t.begun => ~s.begun
          /\ s.dead => t.dead
          /\ s.done => t.done
          /\ t.ending = "committed" <=> s.ending = "committed"
      BY <1>1, <1>2, <1>r DEF IsPlaced, SameSc, SamePc, SameEnding, SameBook, SameLine, SameBusy, SameData
    <2> QED BY <1>1, <2>1, <2>2, FileStays
  <1>8. "explicit" \notin t.sc.faults
    BY <1>1 DEF IsPlaced, SameSc, SamePc, SameEnding, SameBook, SameLine, SameBusy, SameData
  <1> QED BY <1>3, <1>4, <1>5, <1>6, <1>7, <1>8 DEF More

(* It asks for a verdict. *)
LEMMA MoreAsking ==
    ASSUME NEW s, NEW t, NEW i \in DOMAIN s.calls, Inv(s), Inv(t), More(s),
           IsMoved(s, t, i, "asking"), s.calls[i].pc = "waiting"
    PROVE  More(t)
  <1>1. Owed(s) /\ Within(s) /\ Promises(s) /\ Journal(s) /\ File(s) /\ "explicit" \notin s.sc.faults
    BY DEF More
  <1>2. /\ DOMAIN s.calls = 1 .. Len(s.calls) /\ Len(s.calls) \in Nat
        /\ DOMAIN t.calls = 1 .. Len(t.calls) /\ Len(t.calls) \in Nat
        /\ s \in States /\ t \in States
        /\ TypeInv(s) /\ TypeInv(t)
    BY CallRange DEF Inv
  <1>r. /\ ~IsIdle(s) /\ s.busy.call # 0 => s.busy.call \in DOMAIN s.calls
        /\ ~IsIdle(t) /\ t.busy.call # 0 => t.busy.call \in DOMAIN t.calls
    BY <1>2, SMTT(30) DEF TypeInv, OwnFlight, Bounds, Nobody
  <1>3. Owed(t)
    BY <1>1, <1>2, <1>r DEF IsMoved, SameSc, SamePc, SameEnding, SameBook, SameLine, SameBusy, SameData, Owed, Part, IsIdle, SameQuery, Stepped
  <1>4. Within(t)
    BY <1>1, <1>2, <1>r DEF IsMoved, SameSc, SamePc, SameEnding, SameBook, SameLine, SameBusy, SameData, Within, IsIdle, SameQuery, Stepped
  <1>5. Promises(t)
    <2>1. \A j \in DOMAIN t.calls :
          /\ t.calls[j].pc \in {"fresh", "waiting", "asking", "running", "stopping", "dropping"}
                => t.calls[j].told = "nothing"
          /\ t.calls[j].pc = "delivering" => t.calls[j].told = "ok"
          /\ t.calls[j].own \/ t.calls[j].pc = "stopping" => Statement(t.calls[j].kind)
      BY <1>1, <1>2, <1>r DEF IsMoved, SameSc, SamePc, SameEnding, SameBook, SameLine, SameBusy, SameData, Promises, Part, Kin, IsIdle, SameQuery, Stepped
    <2>2. ~IsIdle(t) /\ t.busy.call # 0 =>
          /\ Part(t) = "delivering" => t.busy.stage \in {"delivering", "ended"} /\ t.busy.verb = "write"
          /\ t.busy.stage = "delivering" => Part(t) = "delivering"
          /\ t.busy.verb = "write" /\ t.readOnly => t.busy.stage = "posted" \/ t.busy.failed
      BY <1>1, <1>2, <1>r DEF IsMoved, SameSc, SamePc, SameEnding, SameBook, SameLine, SameBusy, SameData, Promises, Part, Kin, IsIdle, SameQuery, Stepped
    <2>3. ~IsIdle(t) /\ t.busy.call # 0 /\ t.busy.verb = "write" /\ ~t.readOnly =>
                /\ Part(t) # "stopping"
                /\ Part(t) = "running" /\ t.calls[t.busy.call].own => t.busy.open
                /\ Part(t) = "running" /\ t.busy.stop => t.ending # "none"
      BY <1>1, <1>2, <1>r DEF IsMoved, SameSc, SamePc, SameEnding, SameBook, SameLine, SameBusy, SameData, Promises, Part, Kin, IsIdle, SameQuery, Stepped
    <2> QED BY <2>1, <2>2, <2>3 DEF Promises
  <1>6. Journal(t)
    <2>1. Live(t) => Live(s)
      BY <1>1, <1>2, <1>r DEF IsMoved, SameSc, SamePc, SameEnding, SameBook, SameLine, SameBusy, SameData, Live, IsIdle, SameQuery
    <2>2. ~IsIdle(s) =>
               /\ SameQuery(t.busy, s.busy)
               /\ t.busy.stage = "posted" <=> s.busy.stage = "posted"
               /\ Part(t) = "delivering" <=> Part(s) = "delivering"
               /\ Part(t) = "dropping" <=> Part(s) = "dropping"
      BY <1>1, <1>2, <1>r DEF IsMoved, SameSc, SamePc, SameEnding, SameBook, SameLine, SameBusy, SameData, SameQuery, Part, IsIdle, Stepped
    <2>3. /\ t.conn = s.conn /\ t.ledger = s.ledger
          /\ IsIdle(t) <=> IsIdle(s)
          /\ IsIdle(s) => t.pending = s.pending
      BY <1>1, <1>2, <1>r DEF IsMoved, SameSc, SamePc, SameEnding, SameBook, SameLine, SameBusy, SameData, IsIdle
    <2> QED BY <1>1, <2>1, <2>2, <2>3, JournalStays
  <1>7. File(t)
    <2>1. Committing(t) <=> Committing(s)
      BY <1>1, <1>2, <1>r DEF IsMoved, SameSc, SamePc, SameEnding, SameBook, SameLine, SameBusy, SameData, Committing, IsIdle, SameQuery
    <2>2. /\ t.db = s.db /\ t.ledger = s.ledger /\ t.conn = s.conn
          /\ ~t.begun => ~s.begun
          /\ s.dead => t.dead
          /\ s.done => t.done
          /\ t.ending = "committed" <=> s.ending = "committed"
      BY <1>1, <1>2, <1>r DEF IsMoved, SameSc, SamePc, SameEnding, SameBook, SameLine, SameBusy, SameData
    <2> QED BY <1>1, <2>1, <2>2, FileStays
  <1>8. "explicit" \notin t.sc.faults
    BY <1>1 DEF IsMoved, SameSc, SamePc, SameEnding, SameBook, SameLine, SameBusy, SameData
  <1> QED BY <1>3, <1>4, <1>5, <1>6, <1>7, <1>8 DEF More

(* A call that waits, or asks, gives its place up. *)
LEMMA MoreGivesUp ==
    ASSUME NEW s, NEW t, NEW i \in DOMAIN s.calls, NEW v, Inv(s), Inv(t), More(s),
           IsSettled(s, t, i, v), s.calls[i].pc \in {"waiting", "asking"}
    PROVE  More(t)
  <1>1. Owed(s) /\ Within(s) /\ Promises(s) /\ Journal(s) /\ File(s) /\ "explicit" \notin s.sc.faults
    BY DEF More
  <1>2. /\ DOMAIN s.calls = 1 .. Len(s.calls) /\ Len(s.calls) \in Nat
        /\ DOMAIN t.calls = 1 .. Len(t.calls) /\ Len(t.calls) \in Nat
        /\ s \in States /\ t \in States
        /\ TypeInv(s) /\ TypeInv(t)
    BY CallRange DEF Inv
  <1>r. /\ ~IsIdle(s) /\ s.busy.call # 0 => s.busy.call \in DOMAIN s.calls
        /\ ~IsIdle(t) /\ t.busy.call # 0 => t.busy.call \in DOMAIN t.calls
    BY <1>2, SMTT(30) DEF TypeInv, OwnFlight, Bounds, Nobody
  <1>a. ~IsIdle(s) /\ s.busy.call # 0 =>
           s.busy.call # i /\ (Working(s.calls[s.busy.call]) \/ s.calls[s.busy.call].pc = "left")
    BY DEF Inv, Flight, Working
  <1>3. Owed(t)
    BY <1>1, <1>2, <1>r, <1>a DEF IsSettled, SameSc, SamePc, SameEnding, SameBook, SameLine, SameBusy, SameData, Owed, Part, IsIdle, SameQuery, Stepped
  <1>4. Within(t)
    BY <1>1, <1>2, <1>r, <1>a DEF IsSettled, SameSc, SamePc, SameEnding, SameBook, SameLine, SameBusy, SameData, Within, IsIdle, SameQuery, Stepped
  <1>5. Promises(t)
    <2>1. \A j \in DOMAIN t.calls :
          /\ t.calls[j].pc \in {"fresh", "waiting", "asking", "running", "stopping", "dropping"}
                => t.calls[j].told = "nothing"
          /\ t.calls[j].pc = "delivering" => t.calls[j].told = "ok"
          /\ t.calls[j].own \/ t.calls[j].pc = "stopping" => Statement(t.calls[j].kind)
      BY <1>1, <1>2, <1>r, <1>a DEF IsSettled, SameSc, SamePc, SameEnding, SameBook, SameLine, SameBusy, SameData, Promises, Part, Kin, IsIdle, SameQuery, Stepped
    <2>2. ~IsIdle(t) /\ t.busy.call # 0 =>
          /\ Part(t) = "delivering" => t.busy.stage \in {"delivering", "ended"} /\ t.busy.verb = "write"
          /\ t.busy.stage = "delivering" => Part(t) = "delivering"
          /\ t.busy.verb = "write" /\ t.readOnly => t.busy.stage = "posted" \/ t.busy.failed
      BY <1>1, <1>2, <1>r, <1>a DEF IsSettled, SameSc, SamePc, SameEnding, SameBook, SameLine, SameBusy, SameData, Promises, Part, Kin, IsIdle, SameQuery, Stepped
    <2>3. ~IsIdle(t) /\ t.busy.call # 0 /\ t.busy.verb = "write" /\ ~t.readOnly =>
                /\ Part(t) # "stopping"
                /\ Part(t) = "running" /\ t.calls[t.busy.call].own => t.busy.open
                /\ Part(t) = "running" /\ t.busy.stop => t.ending # "none"
      BY <1>1, <1>2, <1>r, <1>a DEF IsSettled, SameSc, SamePc, SameEnding, SameBook, SameLine, SameBusy, SameData, Promises, Part, Kin, IsIdle, SameQuery, Stepped
    <2> QED BY <2>1, <2>2, <2>3 DEF Promises
  <1>6. Journal(t)
    <2>1. Live(t) => Live(s)
      BY <1>1, <1>2, <1>r, <1>a DEF IsSettled, SameSc, SamePc, SameEnding, SameBook, SameLine, SameBusy, SameData, Live, IsIdle, SameQuery
    <2>2. ~IsIdle(s) =>
               /\ SameQuery(t.busy, s.busy)
               /\ t.busy.stage = "posted" <=> s.busy.stage = "posted"
               /\ Part(t) = "delivering" <=> Part(s) = "delivering"
               /\ Part(t) = "dropping" <=> Part(s) = "dropping"
      BY <1>1, <1>2, <1>r, <1>a DEF IsSettled, SameSc, SamePc, SameEnding, SameBook, SameLine, SameBusy, SameData, SameQuery, Part, IsIdle, Stepped
    <2>3. /\ t.conn = s.conn /\ t.ledger = s.ledger
          /\ IsIdle(t) <=> IsIdle(s)
          /\ IsIdle(s) => t.pending = s.pending
      BY <1>1, <1>2, <1>r, <1>a DEF IsSettled, SameSc, SamePc, SameEnding, SameBook, SameLine, SameBusy, SameData, IsIdle
    <2> QED BY <1>1, <2>1, <2>2, <2>3, JournalStays
  <1>7. File(t)
    <2>1. Committing(t) <=> Committing(s)
      BY <1>1, <1>2, <1>r, <1>a DEF IsSettled, SameSc, SamePc, SameEnding, SameBook, SameLine, SameBusy, SameData, Committing, IsIdle, SameQuery
    <2>2. /\ t.db = s.db /\ t.ledger = s.ledger /\ t.conn = s.conn
          /\ ~t.begun => ~s.begun
          /\ s.dead => t.dead
          /\ s.done => t.done
          /\ t.ending = "committed" <=> s.ending = "committed"
      BY <1>1, <1>2, <1>r, <1>a DEF IsSettled, SameSc, SamePc, SameEnding, SameBook, SameLine, SameBusy, SameData
    <2> QED BY <1>1, <2>1, <2>2, FileStays
  <1>8. "explicit" \notin t.sc.faults
    BY <1>1 DEF IsSettled, SameSc, SamePc, SameEnding, SameBook, SameLine, SameBusy, SameData
  <1> QED BY <1>3, <1>4, <1>5, <1>6, <1>7, <1>8 DEF More

(* The transaction is cut. *)
LEMMA MoreCut ==
    ASSUME NEW s, NEW t, Inv(s), Inv(t), More(s),
           IsCut(s, t)
    PROVE  More(t)
  <1>1. Owed(s) /\ Within(s) /\ Promises(s) /\ Journal(s) /\ File(s) /\ "explicit" \notin s.sc.faults
    BY DEF More
  <1>2. /\ DOMAIN s.calls = 1 .. Len(s.calls) /\ Len(s.calls) \in Nat
        /\ DOMAIN t.calls = 1 .. Len(t.calls) /\ Len(t.calls) \in Nat
        /\ s \in States /\ t \in States
        /\ TypeInv(s) /\ TypeInv(t)
    BY CallRange DEF Inv
  <1>r. /\ ~IsIdle(s) /\ s.busy.call # 0 => s.busy.call \in DOMAIN s.calls
        /\ ~IsIdle(t) /\ t.busy.call # 0 => t.busy.call \in DOMAIN t.calls
    BY <1>2, SMTT(30) DEF TypeInv, OwnFlight, Bounds, Nobody
  <1>z. ~IsIdle(s) /\ s.busy.stage = "delivering" => s.busy.verb # "commit"
    BY <1>1, <1>2 DEF Promises, TypeInv, OwnFlight
  <1>3. Owed(t)
    BY <1>1, <1>2, <1>r, <1>z DEF IsCut, SameSc, SamePc, SameEnding, SameBook, SameLine, SameBusy, SameData, Owed, Part, IsIdle, SameQuery, Stepped
  <1>4. Within(t)
    BY <1>1, <1>2, <1>r, <1>z DEF IsCut, SameSc, SamePc, SameEnding, SameBook, SameLine, SameBusy, SameData, Within, IsIdle, SameQuery, Stepped
  <1>5. Promises(t)
    <2>1. \A j \in DOMAIN t.calls :
          /\ t.calls[j].pc \in {"fresh", "waiting", "asking", "running", "stopping", "dropping"}
                => t.calls[j].told = "nothing"
          /\ t.calls[j].pc = "delivering" => t.calls[j].told = "ok"
          /\ t.calls[j].own \/ t.calls[j].pc = "stopping" => Statement(t.calls[j].kind)
      BY <1>1, <1>2, <1>r, <1>z DEF IsCut, SameSc, SamePc, SameEnding, SameBook, SameLine, SameBusy, SameData, Promises, Part, Kin, IsIdle, SameQuery, Stepped
    <2>2. ~IsIdle(t) /\ t.busy.call # 0 =>
          /\ Part(t) = "delivering" => t.busy.stage \in {"delivering", "ended"} /\ t.busy.verb = "write"
          /\ t.busy.stage = "delivering" => Part(t) = "delivering"
          /\ t.busy.verb = "write" /\ t.readOnly => t.busy.stage = "posted" \/ t.busy.failed
      BY <1>1, <1>2, <1>r, <1>z DEF IsCut, SameSc, SamePc, SameEnding, SameBook, SameLine, SameBusy, SameData, Promises, Part, Kin, IsIdle, SameQuery, Stepped
    <2>3. ~IsIdle(t) /\ t.busy.call # 0 /\ t.busy.verb = "write" /\ ~t.readOnly =>
                /\ Part(t) # "stopping"
                /\ Part(t) = "running" /\ t.calls[t.busy.call].own => t.busy.open
                /\ Part(t) = "running" /\ t.busy.stop => t.ending # "none"
      BY <1>1, <1>2, <1>r, <1>z DEF IsCut, SameSc, SamePc, SameEnding, SameBook, SameLine, SameBusy, SameData, Promises, Part, Kin, IsIdle, SameQuery, Stepped
    <2> QED BY <2>1, <2>2, <2>3 DEF Promises
  <1>6. Journal(t)
    <2>1. Live(t) => Live(s)
      BY <1>1, <1>2, <1>r, <1>z DEF IsCut, SameSc, SamePc, SameEnding, SameBook, SameLine, SameBusy, SameData, Live, IsIdle, SameQuery
    <2>2. ~IsIdle(s) =>
               /\ SameQuery(t.busy, s.busy)
               /\ t.busy.stage = "posted" <=> s.busy.stage = "posted"
               /\ Part(t) = "delivering" <=> Part(s) = "delivering"
               /\ Part(t) = "dropping" <=> Part(s) = "dropping"
      BY <1>1, <1>2, <1>r, <1>z DEF IsCut, SameSc, SamePc, SameEnding, SameBook, SameLine, SameBusy, SameData, SameQuery, Part, IsIdle, Stepped
    <2>3. /\ t.conn = s.conn /\ t.ledger = s.ledger
          /\ IsIdle(t) <=> IsIdle(s)
          /\ IsIdle(s) => t.pending = s.pending
      BY <1>1, <1>2, <1>r, <1>z DEF IsCut, SameSc, SamePc, SameEnding, SameBook, SameLine, SameBusy, SameData, IsIdle
    <2> QED BY <1>1, <2>1, <2>2, <2>3, JournalStays
  <1>7. File(t)
    <2>1. Committing(t) <=> Committing(s)
      BY <1>1, <1>2, <1>r, <1>z DEF IsCut, SameSc, SamePc, SameEnding, SameBook, SameLine, SameBusy, SameData, Committing, IsIdle, SameQuery
    <2>2. /\ t.db = s.db /\ t.ledger = s.ledger /\ t.conn = s.conn
          /\ ~t.begun => ~s.begun
          /\ s.dead => t.dead
          /\ s.done => t.done
          /\ t.ending = "committed" <=> s.ending = "committed"
      BY <1>1, <1>2, <1>r, <1>z DEF IsCut, SameSc, SamePc, SameEnding, SameBook, SameLine, SameBusy, SameData
    <2> QED BY <1>1, <2>1, <2>2, FileStays
  <1>8. "explicit" \notin t.sc.faults
    BY <1>1 DEF IsCut, SameSc, SamePc, SameEnding, SameBook, SameLine, SameBusy, SameData
  <1> QED BY <1>3, <1>4, <1>5, <1>6, <1>7, <1>8 DEF More

(* What is owed and promised, when the transaction dies.                    *)
LEMMA MoreDies ==
    ASSUME NEW s, NEW t, Inv(s), More(s), Dies(s, t)
    PROVE  More(t)
  <1>1. CASE s.ending = "none"
    <2>1. IsCut(s, t)
      BY <1>1 DEF Dies
    <2> QED BY <2>1, InvDies, MoreCut
  <1>2. CASE s.ending # "none"
    BY <1>2 DEF Dies
  <1> QED BY <1>1, <1>2

(* A stop reaches the query in flight. *)
LEMMA MoreStopped ==
    ASSUME NEW s, NEW t, Inv(s), Inv(t), More(s),
           ~IsIdle(s), s.busy.call # 0, IsStopped(s, t),
           \/ s.busy.verb # "write" \/ s.readOnly \/ Part(s) # "running" \/ s.ending # "none"
    PROVE  More(t)
  <1>1. Owed(s) /\ Within(s) /\ Promises(s) /\ Journal(s) /\ File(s) /\ "explicit" \notin s.sc.faults
    BY DEF More
  <1>2. /\ DOMAIN s.calls = 1 .. Len(s.calls) /\ Len(s.calls) \in Nat
        /\ DOMAIN t.calls = 1 .. Len(t.calls) /\ Len(t.calls) \in Nat
        /\ s \in States /\ t \in States
        /\ TypeInv(s) /\ TypeInv(t)
    BY CallRange DEF Inv
  <1>r. /\ ~IsIdle(s) /\ s.busy.call # 0 => s.busy.call \in DOMAIN s.calls
        /\ ~IsIdle(t) /\ t.busy.call # 0 => t.busy.call \in DOMAIN t.calls
    BY <1>2, SMTT(30) DEF TypeInv, OwnFlight, Bounds, Nobody
  <1>z. ~IsIdle(s) /\ s.busy.stage = "delivering" => s.busy.verb # "commit"
    BY <1>1, <1>2 DEF Promises, TypeInv, OwnFlight
  <1>3. Owed(t)
    BY <1>1, <1>2, <1>r, <1>z DEF IsStopped, SameSc, SamePc, SameEnding, SameBook, SameLine, SameBusy, SameData, Owed, Part, IsIdle, SameQuery, Stepped
  <1>4. Within(t)
    BY <1>1, <1>2, <1>r, <1>z DEF IsStopped, SameSc, SamePc, SameEnding, SameBook, SameLine, SameBusy, SameData, Within, IsIdle, SameQuery, Stepped
  <1>5. Promises(t)
    <2>1. \A j \in DOMAIN t.calls :
          /\ t.calls[j].pc \in {"fresh", "waiting", "asking", "running", "stopping", "dropping"}
                => t.calls[j].told = "nothing"
          /\ t.calls[j].pc = "delivering" => t.calls[j].told = "ok"
          /\ t.calls[j].own \/ t.calls[j].pc = "stopping" => Statement(t.calls[j].kind)
      BY <1>1, <1>2, <1>r, <1>z DEF IsStopped, SameSc, SamePc, SameEnding, SameBook, SameLine, SameBusy, SameData, Promises, Part, Kin, IsIdle, SameQuery, Stepped
    <2>2. ~IsIdle(t) /\ t.busy.call # 0 =>
          /\ Part(t) = "delivering" => t.busy.stage \in {"delivering", "ended"} /\ t.busy.verb = "write"
          /\ t.busy.stage = "delivering" => Part(t) = "delivering"
          /\ t.busy.verb = "write" /\ t.readOnly => t.busy.stage = "posted" \/ t.busy.failed
      BY <1>1, <1>2, <1>r, <1>z DEF IsStopped, SameSc, SamePc, SameEnding, SameBook, SameLine, SameBusy, SameData, Promises, Part, Kin, IsIdle, SameQuery, Stepped
    <2>3. ~IsIdle(t) /\ t.busy.call # 0 /\ t.busy.verb = "write" /\ ~t.readOnly =>
                /\ Part(t) # "stopping"
                /\ Part(t) = "running" /\ t.calls[t.busy.call].own => t.busy.open
                /\ Part(t) = "running" /\ t.busy.stop => t.ending # "none"
      BY <1>1, <1>2, <1>r, <1>z DEF IsStopped, SameSc, SamePc, SameEnding, SameBook, SameLine, SameBusy, SameData, Promises, Part, Kin, IsIdle, SameQuery, Stepped
    <2> QED BY <2>1, <2>2, <2>3 DEF Promises
  <1>6. Journal(t)
    <2>1. Live(t) => Live(s)
      BY <1>1, <1>2, <1>r, <1>z DEF IsStopped, SameSc, SamePc, SameEnding, SameBook, SameLine, SameBusy, SameData, Live, IsIdle, SameQuery
    <2>2. ~IsIdle(s) =>
               /\ SameQuery(t.busy, s.busy)
               /\ t.busy.stage = "posted" <=> s.busy.stage = "posted"
               /\ Part(t) = "delivering" <=> Part(s) = "delivering"
               /\ Part(t) = "dropping" <=> Part(s) = "dropping"
      BY <1>1, <1>2, <1>r, <1>z DEF IsStopped, SameSc, SamePc, SameEnding, SameBook, SameLine, SameBusy, SameData, SameQuery, Part, IsIdle, Stepped
    <2>3. /\ t.conn = s.conn /\ t.ledger = s.ledger
          /\ IsIdle(t) <=> IsIdle(s)
          /\ IsIdle(s) => t.pending = s.pending
      BY <1>1, <1>2, <1>r, <1>z DEF IsStopped, SameSc, SamePc, SameEnding, SameBook, SameLine, SameBusy, SameData, IsIdle
    <2> QED BY <1>1, <2>1, <2>2, <2>3, JournalStays
  <1>7. File(t)
    <2>1. Committing(t) <=> Committing(s)
      BY <1>1, <1>2, <1>r, <1>z DEF IsStopped, SameSc, SamePc, SameEnding, SameBook, SameLine, SameBusy, SameData, Committing, IsIdle, SameQuery
    <2>2. /\ t.db = s.db /\ t.ledger = s.ledger /\ t.conn = s.conn
          /\ ~t.begun => ~s.begun
          /\ s.dead => t.dead
          /\ s.done => t.done
          /\ t.ending = "committed" <=> s.ending = "committed"
      BY <1>1, <1>2, <1>r, <1>z DEF IsStopped, SameSc, SamePc, SameEnding, SameBook, SameLine, SameBusy, SameData
    <2> QED BY <1>1, <2>1, <2>2, FileStays
  <1>8. "explicit" \notin t.sc.faults
    BY <1>1 DEF IsStopped, SameSc, SamePc, SameEnding, SameBook, SameLine, SameBusy, SameData
  <1> QED BY <1>3, <1>4, <1>5, <1>6, <1>7, <1>8 DEF More

(* The caller is told when it has stopped. *)
LEMMA MoreStopping ==
    ASSUME NEW s, NEW t, NEW i \in DOMAIN s.calls, Inv(s), Inv(t), More(s),
           IsMoved(s, t, i, "stopping"), s.calls[i].pc = "running", s.calls[i].own,
           s.busy.verb # "write" \/ s.readOnly
    PROVE  More(t)
  <1>1. Owed(s) /\ Within(s) /\ Promises(s) /\ Journal(s) /\ File(s) /\ "explicit" \notin s.sc.faults
    BY DEF More
  <1>2. /\ DOMAIN s.calls = 1 .. Len(s.calls) /\ Len(s.calls) \in Nat
        /\ DOMAIN t.calls = 1 .. Len(t.calls) /\ Len(t.calls) \in Nat
        /\ s \in States /\ t \in States
        /\ TypeInv(s) /\ TypeInv(t)
    BY CallRange DEF Inv
  <1>r. /\ ~IsIdle(s) /\ s.busy.call # 0 => s.busy.call \in DOMAIN s.calls
        /\ ~IsIdle(t) /\ t.busy.call # 0 => t.busy.call \in DOMAIN t.calls
    BY <1>2, SMTT(30) DEF TypeInv, OwnFlight, Bounds, Nobody
  <1>3. Owed(t)
    BY <1>1, <1>2, <1>r DEF IsMoved, SameSc, SamePc, SameEnding, SameBook, SameLine, SameBusy, SameData, Owed, Part, IsIdle, SameQuery, Stepped
  <1>4. Within(t)
    BY <1>1, <1>2, <1>r DEF IsMoved, SameSc, SamePc, SameEnding, SameBook, SameLine, SameBusy, SameData, Within, IsIdle, SameQuery, Stepped
  <1>5. Promises(t)
    <2>1. \A j \in DOMAIN t.calls :
          /\ t.calls[j].pc \in {"fresh", "waiting", "asking", "running", "stopping", "dropping"}
                => t.calls[j].told = "nothing"
          /\ t.calls[j].pc = "delivering" => t.calls[j].told = "ok"
          /\ t.calls[j].own \/ t.calls[j].pc = "stopping" => Statement(t.calls[j].kind)
      BY <1>1, <1>2, <1>r DEF IsMoved, SameSc, SamePc, SameEnding, SameBook, SameLine, SameBusy, SameData, Promises, Part, Kin, IsIdle, SameQuery, Stepped
    <2>2. ~IsIdle(t) /\ t.busy.call # 0 =>
          /\ Part(t) = "delivering" => t.busy.stage \in {"delivering", "ended"} /\ t.busy.verb = "write"
          /\ t.busy.stage = "delivering" => Part(t) = "delivering"
          /\ t.busy.verb = "write" /\ t.readOnly => t.busy.stage = "posted" \/ t.busy.failed
      BY <1>1, <1>2, <1>r DEF IsMoved, SameSc, SamePc, SameEnding, SameBook, SameLine, SameBusy, SameData, Promises, Part, Kin, IsIdle, SameQuery, Stepped
    <2>3. ~IsIdle(t) /\ t.busy.call # 0 /\ t.busy.verb = "write" /\ ~t.readOnly =>
                /\ Part(t) # "stopping"
                /\ Part(t) = "running" /\ t.calls[t.busy.call].own => t.busy.open
                /\ Part(t) = "running" /\ t.busy.stop => t.ending # "none"
      BY <1>1, <1>2, <1>r DEF IsMoved, SameSc, SamePc, SameEnding, SameBook, SameLine, SameBusy, SameData, Promises, Part, Kin, IsIdle, SameQuery, Stepped
    <2> QED BY <2>1, <2>2, <2>3 DEF Promises
  <1>6. Journal(t)
    <2>1. Live(t) => Live(s)
      BY <1>1, <1>2, <1>r DEF IsMoved, SameSc, SamePc, SameEnding, SameBook, SameLine, SameBusy, SameData, Live, IsIdle, SameQuery
    <2>2. ~IsIdle(s) =>
               /\ SameQuery(t.busy, s.busy)
               /\ t.busy.stage = "posted" <=> s.busy.stage = "posted"
               /\ Part(t) = "delivering" <=> Part(s) = "delivering"
               /\ Part(t) = "dropping" <=> Part(s) = "dropping"
      BY <1>1, <1>2, <1>r DEF IsMoved, SameSc, SamePc, SameEnding, SameBook, SameLine, SameBusy, SameData, SameQuery, Part, IsIdle, Stepped
    <2>3. /\ t.conn = s.conn /\ t.ledger = s.ledger
          /\ IsIdle(t) <=> IsIdle(s)
          /\ IsIdle(s) => t.pending = s.pending
      BY <1>1, <1>2, <1>r DEF IsMoved, SameSc, SamePc, SameEnding, SameBook, SameLine, SameBusy, SameData, IsIdle
    <2> QED BY <1>1, <2>1, <2>2, <2>3, JournalStays
  <1>7. File(t)
    <2>1. Committing(t) <=> Committing(s)
      BY <1>1, <1>2, <1>r DEF IsMoved, SameSc, SamePc, SameEnding, SameBook, SameLine, SameBusy, SameData, Committing, IsIdle, SameQuery
    <2>2. /\ t.db = s.db /\ t.ledger = s.ledger /\ t.conn = s.conn
          /\ ~t.begun => ~s.begun
          /\ s.dead => t.dead
          /\ s.done => t.done
          /\ t.ending = "committed" <=> s.ending = "committed"
      BY <1>1, <1>2, <1>r DEF IsMoved, SameSc, SamePc, SameEnding, SameBook, SameLine, SameBusy, SameData
    <2> QED BY <1>1, <2>1, <2>2, FileStays
  <1>8. "explicit" \notin t.sc.faults
    BY <1>1 DEF IsMoved, SameSc, SamePc, SameEnding, SameBook, SameLine, SameBusy, SameData
  <1> QED BY <1>3, <1>4, <1>5, <1>6, <1>7, <1>8 DEF More

(* A call is given up by its signal. *)
LEMMA MoreAbandoned ==
    ASSUME NEW s, NEW t, NEW i \in DOMAIN s.calls, Inv(s), Inv(t), More(s),
           IsAbandoned(s, t, i), s.calls[i].pc = "running", s.busy.open
    PROVE  More(t)
  <1>1. Owed(s) /\ Within(s) /\ Promises(s) /\ Journal(s) /\ File(s) /\ "explicit" \notin s.sc.faults
    BY DEF More
  <1>2. /\ DOMAIN s.calls = 1 .. Len(s.calls) /\ Len(s.calls) \in Nat
        /\ DOMAIN t.calls = 1 .. Len(t.calls) /\ Len(t.calls) \in Nat
        /\ s \in States /\ t \in States
        /\ TypeInv(s) /\ TypeInv(t)
    BY CallRange DEF Inv
  <1>r. /\ ~IsIdle(s) /\ s.busy.call # 0 => s.busy.call \in DOMAIN s.calls
        /\ ~IsIdle(t) /\ t.busy.call # 0 => t.busy.call \in DOMAIN t.calls
    BY <1>2, SMTT(30) DEF TypeInv, OwnFlight, Bounds, Nobody
  <1>a. ~IsIdle(s) /\ s.busy.call = i /\ i # 0
    BY CallRange DEF Inv, Flight, Working
  <1>3. Owed(t)
    BY <1>1, <1>2, <1>r, <1>a DEF IsAbandoned, SameSc, SamePc, SameEnding, SameBook, SameLine, SameBusy, SameData, Owed, Part, IsIdle, SameQuery, Stepped
  <1>4. Within(t)
    BY <1>1, <1>2, <1>r, <1>a DEF IsAbandoned, SameSc, SamePc, SameEnding, SameBook, SameLine, SameBusy, SameData, Within, IsIdle, SameQuery, Stepped
  <1>5. Promises(t)
    <2>1. \A j \in DOMAIN t.calls :
          /\ t.calls[j].pc \in {"fresh", "waiting", "asking", "running", "stopping", "dropping"}
                => t.calls[j].told = "nothing"
          /\ t.calls[j].pc = "delivering" => t.calls[j].told = "ok"
          /\ t.calls[j].own \/ t.calls[j].pc = "stopping" => Statement(t.calls[j].kind)
      BY <1>1, <1>2, <1>r, <1>a DEF IsAbandoned, SameSc, SamePc, SameEnding, SameBook, SameLine, SameBusy, SameData, Promises, Part, Kin, IsIdle, SameQuery, Stepped
    <2>2. ~IsIdle(t) /\ t.busy.call # 0 =>
          /\ Part(t) = "delivering" => t.busy.stage \in {"delivering", "ended"} /\ t.busy.verb = "write"
          /\ t.busy.stage = "delivering" => Part(t) = "delivering"
          /\ t.busy.verb = "write" /\ t.readOnly => t.busy.stage = "posted" \/ t.busy.failed
      BY <1>1, <1>2, <1>r, <1>a DEF IsAbandoned, SameSc, SamePc, SameEnding, SameBook, SameLine, SameBusy, SameData, Promises, Part, Kin, IsIdle, SameQuery, Stepped
    <2>3. ~IsIdle(t) /\ t.busy.call # 0 /\ t.busy.verb = "write" /\ ~t.readOnly =>
                /\ Part(t) # "stopping"
                /\ Part(t) = "running" /\ t.calls[t.busy.call].own => t.busy.open
                /\ Part(t) = "running" /\ t.busy.stop => t.ending # "none"
      BY <1>1, <1>2, <1>r, <1>a DEF IsAbandoned, SameSc, SamePc, SameEnding, SameBook, SameLine, SameBusy, SameData, Promises, Part, Kin, IsIdle, SameQuery, Stepped
    <2> QED BY <2>1, <2>2, <2>3 DEF Promises
  <1>6. Journal(t)
    <2>1. Live(t) => Live(s)
      BY <1>1, <1>2, <1>r, <1>a DEF IsAbandoned, SameSc, SamePc, SameEnding, SameBook, SameLine, SameBusy, SameData, Live, IsIdle, SameQuery
    <2>2. ~IsIdle(s) =>
               /\ SameQuery(t.busy, s.busy)
               /\ t.busy.stage = "posted" <=> s.busy.stage = "posted"
               /\ Part(t) = "delivering" <=> Part(s) = "delivering"
               /\ Part(t) = "dropping" <=> Part(s) = "dropping"
      BY <1>1, <1>2, <1>r, <1>a DEF IsAbandoned, SameSc, SamePc, SameEnding, SameBook, SameLine, SameBusy, SameData, SameQuery, Part, IsIdle, Stepped
    <2>3. /\ t.conn = s.conn /\ t.ledger = s.ledger
          /\ IsIdle(t) <=> IsIdle(s)
          /\ IsIdle(s) => t.pending = s.pending
      BY <1>1, <1>2, <1>r, <1>a DEF IsAbandoned, SameSc, SamePc, SameEnding, SameBook, SameLine, SameBusy, SameData, IsIdle
    <2> QED BY <1>1, <2>1, <2>2, <2>3, JournalStays
  <1>7. File(t)
    <2>1. Committing(t) <=> Committing(s)
      BY <1>1, <1>2, <1>r, <1>a DEF IsAbandoned, SameSc, SamePc, SameEnding, SameBook, SameLine, SameBusy, SameData, Committing, IsIdle, SameQuery
    <2>2. /\ t.db = s.db /\ t.ledger = s.ledger /\ t.conn = s.conn
          /\ ~t.begun => ~s.begun
          /\ s.dead => t.dead
          /\ s.done => t.done
          /\ t.ending = "committed" <=> s.ending = "committed"
      BY <1>1, <1>2, <1>r, <1>a DEF IsAbandoned, SameSc, SamePc, SameEnding, SameBook, SameLine, SameBusy, SameData
    <2> QED BY <1>1, <2>1, <2>2, FileStays
  <1>8. "explicit" \notin t.sc.faults
    BY <1>1 DEF IsAbandoned, SameSc, SamePc, SameEnding, SameBook, SameLine, SameBusy, SameData
  <1> QED BY <1>3, <1>4, <1>5, <1>6, <1>7, <1>8 DEF More

(* A generator that never ran is closed. *)
LEMMA MoreShut ==
    ASSUME NEW s, NEW t, NEW i \in DOMAIN s.calls, Inv(s), Inv(t), More(s),
           IsShut(s, t, i), s.calls[i].pc = "fresh"
    PROVE  More(t)
  <1>1. Owed(s) /\ Within(s) /\ Promises(s) /\ Journal(s) /\ File(s) /\ "explicit" \notin s.sc.faults
    BY DEF More
  <1>2. /\ DOMAIN s.calls = 1 .. Len(s.calls) /\ Len(s.calls) \in Nat
        /\ DOMAIN t.calls = 1 .. Len(t.calls) /\ Len(t.calls) \in Nat
        /\ s \in States /\ t \in States
        /\ TypeInv(s) /\ TypeInv(t)
    BY CallRange DEF Inv
  <1>r. /\ ~IsIdle(s) /\ s.busy.call # 0 => s.busy.call \in DOMAIN s.calls
        /\ ~IsIdle(t) /\ t.busy.call # 0 => t.busy.call \in DOMAIN t.calls
    BY <1>2, SMTT(30) DEF TypeInv, OwnFlight, Bounds, Nobody
  <1>a. ~IsIdle(s) /\ s.busy.call # 0 => s.busy.call # i
    BY DEF Inv, Flight, Working
  <1>3. Owed(t)
    BY <1>1, <1>2, <1>r, <1>a DEF IsShut, SameSc, SamePc, SameEnding, SameBook, SameLine, SameBusy, SameData, Owed, Part, IsIdle, SameQuery, Stepped
  <1>4. Within(t)
    BY <1>1, <1>2, <1>r, <1>a DEF IsShut, SameSc, SamePc, SameEnding, SameBook, SameLine, SameBusy, SameData, Within, IsIdle, SameQuery, Stepped
  <1>5. Promises(t)
    <2>1. \A j \in DOMAIN t.calls :
          /\ t.calls[j].pc \in {"fresh", "waiting", "asking", "running", "stopping", "dropping"}
                => t.calls[j].told = "nothing"
          /\ t.calls[j].pc = "delivering" => t.calls[j].told = "ok"
          /\ t.calls[j].own \/ t.calls[j].pc = "stopping" => Statement(t.calls[j].kind)
      BY <1>1, <1>2, <1>r, <1>a DEF IsShut, SameSc, SamePc, SameEnding, SameBook, SameLine, SameBusy, SameData, Promises, Part, Kin, IsIdle, SameQuery, Stepped
    <2>2. ~IsIdle(t) /\ t.busy.call # 0 =>
          /\ Part(t) = "delivering" => t.busy.stage \in {"delivering", "ended"} /\ t.busy.verb = "write"
          /\ t.busy.stage = "delivering" => Part(t) = "delivering"
          /\ t.busy.verb = "write" /\ t.readOnly => t.busy.stage = "posted" \/ t.busy.failed
      BY <1>1, <1>2, <1>r, <1>a DEF IsShut, SameSc, SamePc, SameEnding, SameBook, SameLine, SameBusy, SameData, Promises, Part, Kin, IsIdle, SameQuery, Stepped
    <2>3. ~IsIdle(t) /\ t.busy.call # 0 /\ t.busy.verb = "write" /\ ~t.readOnly =>
                /\ Part(t) # "stopping"
                /\ Part(t) = "running" /\ t.calls[t.busy.call].own => t.busy.open
                /\ Part(t) = "running" /\ t.busy.stop => t.ending # "none"
      BY <1>1, <1>2, <1>r, <1>a DEF IsShut, SameSc, SamePc, SameEnding, SameBook, SameLine, SameBusy, SameData, Promises, Part, Kin, IsIdle, SameQuery, Stepped
    <2> QED BY <2>1, <2>2, <2>3 DEF Promises
  <1>6. Journal(t)
    <2>1. Live(t) => Live(s)
      BY <1>1, <1>2, <1>r, <1>a DEF IsShut, SameSc, SamePc, SameEnding, SameBook, SameLine, SameBusy, SameData, Live, IsIdle, SameQuery
    <2>2. ~IsIdle(s) =>
               /\ SameQuery(t.busy, s.busy)
               /\ t.busy.stage = "posted" <=> s.busy.stage = "posted"
               /\ Part(t) = "delivering" <=> Part(s) = "delivering"
               /\ Part(t) = "dropping" <=> Part(s) = "dropping"
      BY <1>1, <1>2, <1>r, <1>a DEF IsShut, SameSc, SamePc, SameEnding, SameBook, SameLine, SameBusy, SameData, SameQuery, Part, IsIdle, Stepped
    <2>3. /\ t.conn = s.conn /\ t.ledger = s.ledger
          /\ IsIdle(t) <=> IsIdle(s)
          /\ IsIdle(s) => t.pending = s.pending
      BY <1>1, <1>2, <1>r, <1>a DEF IsShut, SameSc, SamePc, SameEnding, SameBook, SameLine, SameBusy, SameData, IsIdle
    <2> QED BY <1>1, <2>1, <2>2, <2>3, JournalStays
  <1>7. File(t)
    <2>1. Committing(t) <=> Committing(s)
      BY <1>1, <1>2, <1>r, <1>a DEF IsShut, SameSc, SamePc, SameEnding, SameBook, SameLine, SameBusy, SameData, Committing, IsIdle, SameQuery
    <2>2. /\ t.db = s.db /\ t.ledger = s.ledger /\ t.conn = s.conn
          /\ ~t.begun => ~s.begun
          /\ s.dead => t.dead
          /\ s.done => t.done
          /\ t.ending = "committed" <=> s.ending = "committed"
      BY <1>1, <1>2, <1>r, <1>a DEF IsShut, SameSc, SamePc, SameEnding, SameBook, SameLine, SameBusy, SameData
    <2> QED BY <1>1, <2>1, <2>2, FileStays
  <1>8. "explicit" \notin t.sc.faults
    BY <1>1 DEF IsShut, SameSc, SamePc, SameEnding, SameBook, SameLine, SameBusy, SameData
  <1> QED BY <1>3, <1>4, <1>5, <1>6, <1>7, <1>8 DEF More

(* What is known of the query in flight.                                    *)
LEMMA InFlight ==
    ASSUME NEW s, Inv(s), More(s), ~IsIdle(s)
    PROVE  /\ s.busy \in Messages /\ s.busy.call \in 0 .. Len(s.calls)
           /\ s.busy.verb = "begin" \/ ~s.begun => s.ledger = <<>> /\ s.busy.conclude = "none"
           /\ s.busy.verb = "begin" \/ ~s.begun =>
                  s.busy.call = 0 /\ s.busy.verb = "begin" /\ ~s.begun
           /\ s.busy.verb \notin {"read", "write"} => ~s.busy.open
           /\ s.busy.verb = "write" => s.busy.call # 0
           /\ Part(s) = "dropping" => s.busy.verb = "release" /\ s.busy.call # 0
           /\ s.busy.stage = "posted" => Part(s) # "delivering" /\ ~s.busy.failed /\ ~s.dead
           /\ s.busy.stage \in {"affected", "delivering"} => s.busy.verb = "write"
           /\ s.busy.open => ~s.readOnly
           /\ ~s.done /\ s.ending # "committed"
  <1>1. /\ TypeInv(s) /\ Carries(s) /\ Stages(s) /\ Connection(s) /\ Promises(s) /\ File(s) /\ OwnFlight(s)
    BY DEF Inv, More, TypeInv
  <1>2. /\ s.busy \in Messages /\ s.busy.call \in 0 .. Len(s.calls)
        /\ s.busy.call # 0 => s.busy.call \in DOMAIN s.calls /\ s.calls[s.busy.call] \in Call
    BY <1>1, QueryIs, CallRange, CallsAre
  <1>3. s.busy.call # 0 => s.calls[s.busy.call].kind \in CallKinds
    BY <1>2 DEF Call
  <1>4. s.busy.call = 0 => ~s.busy.open /\ s.busy.stage \in {"posted", "ended"} /\ s.pc \in Own
                            /\ s.busy.verb \in {"begin", "commit", "rollback"}
    BY <1>1 DEF Carries, OwnFlight
  <1>5. s.busy.call # 0 =>
           /\ s.busy.verb = IF Part(s) = "dropping" THEN "release"
                             ELSE VerbOfKind(s.calls[s.busy.call].kind)
           /\ s.busy.open => Statement(s.calls[s.busy.call].kind) /\ ~s.readOnly
           /\ s.busy.stage \in {"affected", "delivering"} => s.calls[s.busy.call].kind = "gen"
           /\ Part(s) = "dropping" => s.calls[s.busy.call].kind = "rollbackTo"
    BY <1>1, <1>2 DEF Carries, Part
  <1>6. s.busy.verb # "begin" \/ s.busy.call = 0
    BY <1>3, <1>5 DEF VerbOfKind, CallKinds
  <1>7. ~s.begun => s.busy.call = 0 /\ s.busy.verb = "begin" /\ s.ledger = <<>>
    <2>1. ~s.begun => s.busy.call = 0
      BY <1>1, <1>2, CallRange DEF Stages
    <2>2. ~s.begun => s.pc = "begin"
      BY <1>1, <1>4, <2>1 DEF Stages, Own
    <2> QED BY <1>1, <2>1, <2>2 DEF Carries, File
  <1>8. s.busy.verb = "begin" => ~s.begun /\ s.busy.conclude = "none"
    BY <1>1, <1>6 DEF Carries, Stages
  <1>9. s.busy.verb \notin {"read", "write"} => ~s.busy.open
    BY <1>3, <1>4, <1>5 DEF VerbOfKind, Statement
  <1>10. /\ s.busy.verb = "write" => s.busy.call # 0
         /\ Part(s) = "dropping" => s.busy.verb = "release" /\ s.busy.call # 0
    BY <1>4, <1>5 DEF Part
  <1>11. s.busy.stage \in {"affected", "delivering"} => s.busy.verb = "write"
    BY <1>4, <1>5 DEF VerbOfKind
  <1>12. s.busy.stage = "posted" => Part(s) # "delivering" /\ ~s.busy.failed /\ ~s.dead
    <2>1. s.busy.stage = "posted" => ~s.busy.failed /\ ~s.dead
      BY <1>1 DEF Connection
    <2>2. s.busy.stage = "posted" => Part(s) # "delivering"
      BY <1>1, <1>4, <1>10 DEF Promises, Part
    <2> QED BY <2>1, <2>2
  <1>13. ~s.done /\ s.ending # "committed"
    BY <1>1 DEF Stages, File
  <1> QED BY <1>2, <1>4, <1>5, <1>6, <1>7, <1>8, <1>9, <1>10, <1>11, <1>12, <1>13

(* A statement that runs does to the journal what its call will do to the   *)
(* account.                                                                 *)
LEMMA RanAfter ==
    ASSUME NEW m, NEW conn, NEW l, NEW p, conn.in, ~m.failed, p # "delivering",
           m.verb \in {"read", "write", "savepoint", "release", "rollbackTo"},
           m.verb \notin {"read", "write"} => ~m.open,
           p = "dropping" => m.verb = "release" /\ conn.log = RolledBackTo(l, m.name),
           p # "dropping" => conn.log = Base(l, m.open)
    PROVE  Ran(conn, m).log = After(l, m, p)
  <1>1. m.verb \notin {"read", "write"} => Base(l, m.open) = l
    BY DEF Base
  <1>2. CASE m.verb \in {"read", "write"}
    BY <1>2 DEF Ran, After
  <1>3. CASE m.verb \in {"savepoint", "release", "rollbackTo"}
    BY <1>1, <1>3 DEF Ran, After
  <1> QED BY <1>2, <1>3

(* Its query goes out. *)
LEMMA MoreRun ==
    ASSUME NEW s, NEW t, NEW i \in DOMAIN s.calls, NEW open \in BOOLEAN, Inv(s), Inv(t), More(s),
           IsRun(s, t, i, open), s.calls[i].pc \in {"waiting", "asking"},
           s.ending = "none", IsIdle(s), ~s.dead,
           s.calls[i].own /\ ~s.readOnly /\ VerbOfKind(s.calls[i].kind) = "write" => open
    PROVE  More(t)
  <1>1. Owed(s) /\ Within(s) /\ Promises(s) /\ Journal(s) /\ File(s) /\ "explicit" \notin s.sc.faults
    BY DEF More
  <1>2. /\ DOMAIN s.calls = 1 .. Len(s.calls) /\ Len(s.calls) \in Nat
        /\ DOMAIN t.calls = 1 .. Len(t.calls) /\ Len(t.calls) \in Nat
        /\ s \in States /\ t \in States
        /\ TypeInv(s) /\ TypeInv(t)
    BY CallRange DEF Inv
  <1>r. /\ ~IsIdle(s) /\ s.busy.call # 0 => s.busy.call \in DOMAIN s.calls
        /\ ~IsIdle(t) /\ t.busy.call # 0 => t.busy.call \in DOMAIN t.calls
    BY <1>2, SMTT(30) DEF TypeInv, OwnFlight, Bounds, Nobody
  <1>a. VerbOf(s.calls[i]) = VerbOfKind(s.calls[i].kind) /\ s.calls[i].kind \in CallKinds
    BY <1>2, CallsAre, VerbIs DEF Call
  <1>b. i # 0 /\ t.busy.call = i /\ ~IsIdle(t)
    BY <1>2, CallRange DEF IsRun
  <1>c. Part(t) = "running" /\ t.calls[i].pc = "running"
    BY <1>2, <1>b DEF IsRun, Stepped, Part
  <1>d. s.begun /\ s.conn.in
    <2>1. s.begun
      BY <1>2 DEF Inv, Stages
    <2> QED BY <1>1, <2>1 DEF Within
  <1>e. t.busy.verb # "begin"
    BY <1>a DEF IsRun, VerbOfKind, CallKinds
  <1>f. t.busy.verb = "rollback" <=> s.calls[i].kind = "rollback"
    BY <1>a DEF IsRun, VerbOfKind, CallKinds
  <1>g. Committing(t) <=> Committing(s)
    BY DEF IsRun, Committing
  <1>3. Owed(t)
    BY <1>1, <1>2, <1>r, <1>a, <1>b, <1>c, <1>d, <1>e, <1>f, <1>g DEF IsRun, SameSc, SamePc, SameEnding, SameBook, SameLine, SameBusy, SameData, Owed, Part, IsIdle, SameQuery, Stepped
  <1>4. Within(t)
    BY <1>1, <1>2, <1>r, <1>a, <1>b, <1>c, <1>d, <1>e, <1>f, <1>g DEF IsRun, SameSc, SamePc, SameEnding, SameBook, SameLine, SameBusy, SameData, Within, IsIdle, SameQuery, Stepped
  <1>5. Promises(t)
    <2>1. \A j \in DOMAIN t.calls :
          /\ t.calls[j].pc \in {"fresh", "waiting", "asking", "running", "stopping", "dropping"}
                => t.calls[j].told = "nothing"
          /\ t.calls[j].pc = "delivering" => t.calls[j].told = "ok"
          /\ t.calls[j].own \/ t.calls[j].pc = "stopping" => Statement(t.calls[j].kind)
      BY <1>1, <1>2, <1>r, <1>a, <1>b, <1>c, <1>d, <1>e, <1>f, <1>g DEF IsRun, SameSc, SamePc, SameEnding, SameBook, SameLine, SameBusy, SameData, Promises, Part, Kin, IsIdle, SameQuery, Stepped
    <2>2. ~IsIdle(t) /\ t.busy.call # 0 =>
          /\ Part(t) = "delivering" => t.busy.stage \in {"delivering", "ended"} /\ t.busy.verb = "write"
          /\ t.busy.stage = "delivering" => Part(t) = "delivering"
          /\ t.busy.verb = "write" /\ t.readOnly => t.busy.stage = "posted" \/ t.busy.failed
      BY <1>1, <1>2, <1>r, <1>a, <1>b, <1>c, <1>d, <1>e, <1>f, <1>g DEF IsRun, SameSc, SamePc, SameEnding, SameBook, SameLine, SameBusy, SameData, Promises, Part, Kin, IsIdle, SameQuery, Stepped
    <2>3. ~IsIdle(t) /\ t.busy.call # 0 /\ t.busy.verb = "write" /\ ~t.readOnly =>
                /\ Part(t) # "stopping"
                /\ Part(t) = "running" /\ t.calls[t.busy.call].own => t.busy.open
                /\ Part(t) = "running" /\ t.busy.stop => t.ending # "none"
      BY <1>1, <1>2, <1>r, <1>a, <1>b, <1>c, <1>d, <1>e, <1>f, <1>g DEF IsRun, SameSc, SamePc, SameEnding, SameBook, SameLine, SameBusy, SameData, Promises, Part, Kin, IsIdle, SameQuery, Stepped
    <2> QED BY <2>1, <2>2, <2>3 DEF Promises
  <1>6. Journal(t)
    <2> SUFFICES ASSUME Live(t)
                 PROVE  Journal(t)
      BY DEF Journal
    <2>1. s.calls[i].kind # "rollback"
      BY <1>b, <1>f DEF Live
    <2>2. Concluded(s.conn.log, s.pending) = s.ledger
      BY <1>1, <1>d DEF Journal, Live
    <2>3. /\ t.busy.stage = "posted" /\ t.busy.conclude = s.pending
          /\ t.conn = s.conn /\ t.ledger = s.ledger
      BY <2>1 DEF IsRun, SameData
    <2>4. Agrees(t.conn.log, t.ledger, t.busy, Part(t))
      BY <1>c, <2>2, <2>3 DEF Agrees
    <2> QED BY <1>b, <2>4 DEF Journal
  <1>7. File(t)
    BY <1>1, <1>g, FileStays DEF IsRun, SameData, SamePc, SameEnding
  <1>8. "explicit" \notin t.sc.faults
    BY <1>1 DEF IsRun, SameSc, SamePc, SameEnding, SameBook, SameLine, SameBusy, SameData
  <1> QED BY <1>3, <1>4, <1>5, <1>6, <1>7, <1>8 DEF More

(* Its own BEGIN, COMMIT or ROLLBACK goes out. *)
LEMMA MoreOwn ==
    ASSUME NEW s, NEW t, NEW verb, NEW p, Inv(s), Inv(t), More(s),
           IsOwn(s, t, verb, p), IsIdle(s), ~s.dead,
           \/ verb = "begin" /\ p = "begin" /\ s.pc = "acquiring"
           \/ verb \in {"commit", "rollback"} /\ p = "concluding" /\ s.pc = "ready" /\ ~s.cut
           \/ verb = "rollback" /\ p = "rolling" /\ s.begun /\ ~s.done /\ s.ending # "none" /\ s.said # "out" /\ s.pc = "unwinding"
    PROVE  More(t)
  <1>1. Owed(s) /\ Within(s) /\ Promises(s) /\ Journal(s) /\ File(s) /\ "explicit" \notin s.sc.faults
    BY DEF More
  <1>2. /\ DOMAIN s.calls = 1 .. Len(s.calls) /\ Len(s.calls) \in Nat
        /\ DOMAIN t.calls = 1 .. Len(t.calls) /\ Len(t.calls) \in Nat
        /\ s \in States /\ t \in States
        /\ TypeInv(s) /\ TypeInv(t)
    BY CallRange DEF Inv
  <1>r. /\ ~IsIdle(s) /\ s.busy.call # 0 => s.busy.call \in DOMAIN s.calls
        /\ ~IsIdle(t) /\ t.busy.call # 0 => t.busy.call \in DOMAIN t.calls
    BY <1>2, SMTT(30) DEF TypeInv, OwnFlight, Bounds, Nobody
  <1>a. ~IsIdle(t) /\ t.busy.call = 0 /\ t.busy.verb = verb /\ Part(t) = "none"
    BY DEF IsOwn, Part
  <1>b. verb # "begin" => s.begun /\ ~s.done
    BY DEF Inv, Stages
  <1>c. verb = "commit" => s.ending = "none"
    BY <1>1, <1>b DEF Within
  <1>d. s.conn.in <=> verb # "begin"
    <2>1. verb = "begin" => ~s.begun
      BY DEF Inv, Stages
    <2>2. s.said = "in" <=> s.conn.in
      BY DEF Inv, Connection
    <2>3. ~s.begun => s.said = "out"
      BY DEF Inv, Connection
    <2>4. s.pc = "ready" /\ verb # "begin" => s.ending = "none"
      BY <1>1, <1>b DEF Within
    <2>5. s.begun /\ s.ending = "none" => s.conn.in
      BY <1>1 DEF Within
    <2>6. verb # "begin" => s.conn.in
      <3>1. CASE s.pc = "ready"
        BY <1>b, <2>4, <2>5, <3>1
      <3>2. CASE s.said # "out"
        <4>1. s.said \in {"in", "out"}
          BY <1>2 DEF States
        <4> QED BY <2>2, <3>2, <4>1
      <3> QED BY <3>1, <3>2
    <2> QED BY <2>1, <2>2, <2>3, <2>6
  <1>g. Committing(t) <=> Committing(s)
    BY DEF IsOwn, Committing
  <1>3. Owed(t)
    BY <1>1, <1>2, <1>r, <1>a, <1>b, <1>c, <1>d, <1>g DEF IsOwn, SameSc, SamePc, SameEnding, SameBook, SameLine, SameBusy, SameData, Owed, Part, IsIdle, SameQuery, Stepped
  <1>4. Within(t)
    BY <1>1, <1>2, <1>r, <1>a, <1>b, <1>c, <1>d, <1>g DEF IsOwn, SameSc, SamePc, SameEnding, SameBook, SameLine, SameBusy, SameData, Within, IsIdle, SameQuery, Stepped
  <1>5. Promises(t)
    <2>1. \A j \in DOMAIN t.calls :
          /\ t.calls[j].pc \in {"fresh", "waiting", "asking", "running", "stopping", "dropping"}
                => t.calls[j].told = "nothing"
          /\ t.calls[j].pc = "delivering" => t.calls[j].told = "ok"
          /\ t.calls[j].own \/ t.calls[j].pc = "stopping" => Statement(t.calls[j].kind)
      BY <1>1, <1>2, <1>r, <1>a, <1>b, <1>c, <1>d, <1>g DEF IsOwn, SameSc, SamePc, SameEnding, SameBook, SameLine, SameBusy, SameData, Promises, Part, Kin, IsIdle, SameQuery, Stepped
    <2>2. ~IsIdle(t) /\ t.busy.call # 0 =>
          /\ Part(t) = "delivering" => t.busy.stage \in {"delivering", "ended"} /\ t.busy.verb = "write"
          /\ t.busy.stage = "delivering" => Part(t) = "delivering"
          /\ t.busy.verb = "write" /\ t.readOnly => t.busy.stage = "posted" \/ t.busy.failed
      BY <1>1, <1>2, <1>r, <1>a, <1>b, <1>c, <1>d, <1>g DEF IsOwn, SameSc, SamePc, SameEnding, SameBook, SameLine, SameBusy, SameData, Promises, Part, Kin, IsIdle, SameQuery, Stepped
    <2>3. ~IsIdle(t) /\ t.busy.call # 0 /\ t.busy.verb = "write" /\ ~t.readOnly =>
                /\ Part(t) # "stopping"
                /\ Part(t) = "running" /\ t.calls[t.busy.call].own => t.busy.open
                /\ Part(t) = "running" /\ t.busy.stop => t.ending # "none"
      BY <1>1, <1>2, <1>r, <1>a, <1>b, <1>c, <1>d, <1>g DEF IsOwn, SameSc, SamePc, SameEnding, SameBook, SameLine, SameBusy, SameData, Promises, Part, Kin, IsIdle, SameQuery, Stepped
    <2> QED BY <2>1, <2>2, <2>3 DEF Promises
  <1>6. Journal(t)
    <2> SUFFICES ASSUME Live(t)
                 PROVE  Journal(t)
      BY DEF Journal
    <2>1. t.conn = s.conn /\ t.ledger = s.ledger
      BY DEF IsOwn, SameData
    <2>2. verb = "commit"
      <3>1. verb # "rollback"
        BY <1>a DEF Live
      <3>2. verb # "begin"
        BY <1>d, <2>1 DEF Live
      <3> QED BY <3>1, <3>2
    <2>3. Concluded(s.conn.log, s.pending) = s.ledger
      BY <1>1, <1>c, <1>d, <2>2 DEF Journal, Live
    <2>4. t.busy.stage = "posted" /\ t.busy.conclude = s.pending
      BY <2>2 DEF IsOwn
    <2>5. Agrees(t.conn.log, t.ledger, t.busy, Part(t))
      BY <1>a, <2>1, <2>3, <2>4 DEF Agrees
    <2> QED BY <1>a, <2>5 DEF Journal
  <1>7. File(t)
    BY <1>1, <1>g, FileStays DEF IsOwn, SameData, SameEnding
  <1>8. "explicit" \notin t.sc.faults
    BY <1>1 DEF IsOwn, SameSc, SamePc, SameEnding, SameBook, SameLine, SameBusy, SameData
  <1> QED BY <1>3, <1>4, <1>5, <1>6, <1>7, <1>8 DEF More

(* The prelude has concluded the write before, so the journal is the        *)
(* account, and its own mark.                                               *)
LEMMA BegunIs ==
    ASSUME NEW s, Inv(s), More(s), ~IsIdle(s), s.busy.stage = "posted"
    PROVE  /\ Begun(s).in <=> s.busy.verb # "begin"
           /\ s.conn.in <=> s.busy.verb # "begin"
           /\ Live(s) /\ Part(s) # "dropping" => Begun(s).log = Base(s.ledger, s.busy.open)
           /\ Live(s) /\ Part(s) = "dropping" => Begun(s).log = RolledBackTo(s.ledger, s.busy.name)
           /\ s.db = {}
  <1>1. /\ TypeInv(s) /\ Within(s) /\ Journal(s) /\ File(s)
    BY DEF Inv, More
  <1>2. /\ Begun(s).in <=> s.conn.in \/ s.busy.open
        /\ Begun(s).log = Base(Concluded(s.conn.log, s.busy.conclude), s.busy.open)
    BY <1>1, QueryIs DEF Base
  <1>3. /\ s.conn.in <=> s.busy.verb # "begin"
        /\ s.busy.verb = "begin" => ~s.busy.open /\ ~s.begun
        /\ Part(s) = "dropping" => ~s.busy.open
    BY <1>1, InFlight DEF Within
  <1>4. Live(s) => Agrees(s.conn.log, s.ledger, s.busy, Part(s))
    BY <1>1 DEF Journal
  <1>5. Live(s) /\ Part(s) = "dropping" => Begun(s).log = RolledBackTo(s.ledger, s.busy.name)
    <2>1. Concluded(s.conn.log, "none") = s.conn.log
      BY DEF Concluded
    <2> QED BY <1>2, <1>3, <1>4, <2>1 DEF Agrees, Base
  <1>6. Live(s) /\ Part(s) # "dropping" => Begun(s).log = Base(s.ledger, s.busy.open)
    BY <1>2, <1>4 DEF Agrees
  <1>7. s.db = {}
    BY <1>1, <1>3 DEF File
  <1> QED BY <1>2, <1>3, <1>5, <1>6, <1>7

(* The query succeeds. *)
LEMMA MoreSucceeds ==
    ASSUME NEW s, NEW t, Inv(s), Inv(t), More(s),
           ~IsIdle(s), s.busy.stage = "posted",
           s.busy.verb = "write" => ~s.readOnly,
           IsWorked(s, t, Ran(Begun(s), s.busy), s.db \cup Written(Begun(s), s.busy),
                    Stage(s), s.busy.failed)
    PROVE  More(t)
  <1>1. Owed(s) /\ Within(s) /\ Promises(s) /\ Journal(s) /\ File(s) /\ "explicit" \notin s.sc.faults
    BY DEF More
  <1>2. /\ DOMAIN s.calls = 1 .. Len(s.calls) /\ Len(s.calls) \in Nat
        /\ DOMAIN t.calls = 1 .. Len(t.calls) /\ Len(t.calls) \in Nat
        /\ s \in States /\ t \in States
        /\ TypeInv(s) /\ TypeInv(t)
    BY CallRange DEF Inv
  <1>r. /\ ~IsIdle(s) /\ s.busy.call # 0 => s.busy.call \in DOMAIN s.calls
        /\ ~IsIdle(t) /\ t.busy.call # 0 => t.busy.call \in DOMAIN t.calls
    BY <1>2, SMTT(30) DEF TypeInv, OwnFlight, Bounds, Nobody
  <1>a. ~IsIdle(t) /\ Part(t) = Part(s) /\ t.busy.call = s.busy.call
    BY DEF IsWorked, SameLine, Part
  <1>b. /\ s.conn.in <=> s.busy.verb # "begin"
        /\ Begun(s).in <=> s.busy.verb # "begin"
        /\ s.db = {}
    BY BegunIs
  <1>c. /\ s.busy.verb = "begin" \/ ~s.begun => s.ledger = <<>> /\ ~s.busy.open /\ s.busy.call = 0
        /\ s.busy.verb = "begin" <=> ~s.begun
        /\ s.busy.verb = "write" => s.busy.call # 0
        /\ Part(s) # "delivering" /\ ~s.busy.failed
        /\ ~s.done /\ s.ending # "committed"
    BY InFlight
  <1>d. t.conn.in <=> s.busy.verb \notin {"commit", "rollback"}
    <2>1. t.conn = Ran(Begun(s), s.busy)
      BY DEF IsWorked
    <2> QED BY <1>2, <1>b, <2>1, RanIn
  <1>e. t.db = IF s.busy.verb = "commit" THEN Effects(Begun(s).log) ELSE {}
    <2>1. t.db = s.db \cup Written(Begun(s), s.busy)
      BY DEF IsWorked
    <2> DEFINE c == Begun(s)
               m == s.busy
    <2>2. /\ m \in Messages /\ m.call \in 0 .. Len(s.calls) /\ c \in ConnsOf(Len(s.calls))
          /\ m.verb = "write" => m.call # 0
          /\ c.in <=> m.verb # "begin"
      BY <1>2, <1>b, QueryIs
    <2>3. Written(c, m) = IF m.verb = "commit" THEN Effects(c.log) ELSE {}
      <3> HIDE DEF c, m
      <3> QED BY <1>2, <2>2, WrittenIs
    <2> QED BY <1>b, <2>1, <2>3
  <1>f. /\ t.busy.stage = IF s.busy.verb = "write" /\ s.calls[s.busy.call].kind = "gen"
                          THEN "affected" ELSE "ended"
        /\ ~t.busy.failed
    BY <1>c DEF IsWorked, Stage
  <1>3. Owed(t)
    BY <1>1, <1>2, <1>r, <1>a, <1>b, <1>c, <1>d, <1>e, <1>f DEF IsWorked, SameSc, SamePc, SameEnding, SameBook, SameLine, SameBusy, SameData, Owed, Part, IsIdle, SameQuery, Stepped
  <1>4. Within(t)
    BY <1>1, <1>2, <1>r, <1>a, <1>b, <1>c, <1>d, <1>e, <1>f DEF IsWorked, SameSc, SamePc, SameEnding, SameBook, SameLine, SameBusy, SameData, Within, IsIdle, SameQuery, Stepped
  <1>5. Promises(t)
    <2>1. \A j \in DOMAIN t.calls :
          /\ t.calls[j].pc \in {"fresh", "waiting", "asking", "running", "stopping", "dropping"}
                => t.calls[j].told = "nothing"
          /\ t.calls[j].pc = "delivering" => t.calls[j].told = "ok"
          /\ t.calls[j].own \/ t.calls[j].pc = "stopping" => Statement(t.calls[j].kind)
      BY <1>1, <1>2, <1>r, <1>a, <1>b, <1>c, <1>d, <1>e, <1>f DEF IsWorked, SameSc, SamePc, SameEnding, SameBook, SameLine, SameBusy, SameData, Promises, Part, Kin, IsIdle, SameQuery, Stepped
    <2>2. ~IsIdle(t) /\ t.busy.call # 0 =>
          /\ Part(t) = "delivering" => t.busy.stage \in {"delivering", "ended"} /\ t.busy.verb = "write"
          /\ t.busy.stage = "delivering" => Part(t) = "delivering"
          /\ t.busy.verb = "write" /\ t.readOnly => t.busy.stage = "posted" \/ t.busy.failed
      BY <1>1, <1>2, <1>r, <1>a, <1>b, <1>c, <1>d, <1>e, <1>f DEF IsWorked, SameSc, SamePc, SameEnding, SameBook, SameLine, SameBusy, SameData, Promises, Part, Kin, IsIdle, SameQuery, Stepped
    <2>3. ~IsIdle(t) /\ t.busy.call # 0 /\ t.busy.verb = "write" /\ ~t.readOnly =>
                /\ Part(t) # "stopping"
                /\ Part(t) = "running" /\ t.calls[t.busy.call].own => t.busy.open
                /\ Part(t) = "running" /\ t.busy.stop => t.ending # "none"
      BY <1>1, <1>2, <1>r, <1>a, <1>b, <1>c, <1>d, <1>e, <1>f DEF IsWorked, SameSc, SamePc, SameEnding, SameBook, SameLine, SameBusy, SameData, Promises, Part, Kin, IsIdle, SameQuery, Stepped
    <2> QED BY <2>1, <2>2, <2>3 DEF Promises
  <1>6. Journal(t)
    <2> SUFFICES ASSUME Live(t)
                 PROVE  Agrees(t.conn.log, t.ledger, t.busy, Part(t))
      BY <1>a DEF Journal
    <2> DEFINE m == s.busy
               c == Begun(s)
    <2>1. m.verb \in {"begin", "read", "write", "savepoint", "release", "rollbackTo"}
      <3>1. m \in Messages
        BY InFlight
      <3> QED BY <1>d, <3>1 DEF Live, Messages
    <2>2. t.conn.log = Ran(c, m).log /\ t.ledger = s.ledger
      BY DEF IsWorked
    <2>3. After(t.ledger, t.busy, Part(t)) = After(s.ledger, m, Part(s))
      BY <1>a, <2>2 DEF IsWorked, After
    <2>4. Ran(c, m).log = After(s.ledger, m, Part(s))
      <3>1. CASE m.verb = "begin"
        BY <1>c, <3>1 DEF Ran, After, Base
      <3>2. CASE m.verb # "begin"
        <4>1. Live(s)
          BY <1>a, <1>b, <2>1, <3>2 DEF Live, IsWorked, SameEnding
        <4>2. /\ Part(s) # "dropping" => c.log = Base(s.ledger, m.open)
              /\ Part(s) = "dropping" => c.log = RolledBackTo(s.ledger, m.name)
          BY <4>1, BegunIs
        <4>3. /\ m.verb \notin {"read", "write"} => ~m.open
              /\ Part(s) = "dropping" => m.verb = "release"
              /\ c.in
          BY <1>b, <3>2, InFlight
        <4> HIDE DEF m, c
        <4>4. ~m.failed /\ Part(s) # "delivering"
          BY <1>c DEF m
        <4>5. m.verb \in {"read", "write", "savepoint", "release", "rollbackTo"}
          BY <2>1, <3>2
        <4> QED BY <4>2, <4>3, <4>4, <4>5, RanAfter
      <3> QED BY <3>1, <3>2
    <2>5. t.busy.stage # "posted" /\ Part(t) # "delivering"
      BY <1>a, <1>c, <1>f
    <2> QED BY <2>2, <2>3, <2>4, <2>5 DEF Agrees
  <1>7. File(t)
    <2>1. /\ t.ledger = s.ledger /\ t.begun = s.begun /\ t.ending = s.ending
          /\ t.busy.verb = s.busy.verb
      BY DEF IsWorked, SamePc, SameEnding
    <2>2. Committing(t) <=> s.busy.verb = "commit"
      BY <1>a, <1>f, <2>1 DEF Committing
    <2>3. s.busy.verb = "commit" => Begun(s).log = s.ledger
      <3> SUFFICES ASSUME s.busy.verb = "commit"
                   PROVE  Begun(s).log = s.ledger
        OBVIOUS
      <3>1. Live(s) /\ ~s.busy.open /\ Part(s) # "dropping"
        BY <1>b, InFlight DEF Live
      <3> QED BY <3>1, BegunIs DEF Base
    <2>4. t.db # {} => s.busy.verb = "commit"
      BY <1>e
    <2>5. ~t.begun \/ t.conn.in => t.db = {}
      BY <1>c, <1>d, <2>1, <2>4
    <2> QED BY <1>c, <1>e, <2>1, <2>2, <2>3, <2>4, <2>5 DEF File
  <1>8. "explicit" \notin t.sc.faults
    BY <1>1 DEF IsWorked, SameSc, SamePc, SameEnding, SameBook, SameLine, SameBusy, SameData
  <1> QED BY <1>3, <1>4, <1>5, <1>6, <1>7, <1>8 DEF More

(* It fails, and the transaction stays open. *)
LEMMA MoreFails ==
    ASSUME NEW s, NEW t, Inv(s), Inv(t), More(s),
           ~IsIdle(s), s.busy.stage = "posted",
           s.busy.verb = "rollback" /\ s.busy.call # 0 => ~Begun(s).in,
           IsWorked(s, t, Begun(s), s.db, "ended", TRUE)
    PROVE  More(t)
  <1>1. Owed(s) /\ Within(s) /\ Promises(s) /\ Journal(s) /\ File(s) /\ "explicit" \notin s.sc.faults
    BY DEF More
  <1>2. /\ DOMAIN s.calls = 1 .. Len(s.calls) /\ Len(s.calls) \in Nat
        /\ DOMAIN t.calls = 1 .. Len(t.calls) /\ Len(t.calls) \in Nat
        /\ s \in States /\ t \in States
        /\ TypeInv(s) /\ TypeInv(t)
    BY CallRange DEF Inv
  <1>r. /\ ~IsIdle(s) /\ s.busy.call # 0 => s.busy.call \in DOMAIN s.calls
        /\ ~IsIdle(t) /\ t.busy.call # 0 => t.busy.call \in DOMAIN t.calls
    BY <1>2, SMTT(30) DEF TypeInv, OwnFlight, Bounds, Nobody
  <1>a. ~IsIdle(t) /\ Part(t) = Part(s) /\ t.busy.call = s.busy.call
    BY DEF IsWorked, SameLine, Part
  <1>b. /\ s.conn.in <=> s.busy.verb # "begin"
        /\ Begun(s).in <=> s.busy.verb # "begin"
        /\ s.db = {}
    BY BegunIs
  <1>c. /\ s.busy.verb = "begin" \/ ~s.begun => s.ledger = <<>> /\ ~s.busy.open /\ s.busy.call = 0
        /\ s.busy.verb = "begin" <=> ~s.begun
        /\ s.busy.verb = "write" => s.busy.call # 0
        /\ Part(s) # "delivering" /\ ~s.busy.failed
        /\ ~s.done /\ s.ending # "committed"
    BY InFlight
  <1>3. Owed(t)
    BY <1>1, <1>2, <1>r, <1>a, <1>b, <1>c DEF IsWorked, SameSc, SamePc, SameEnding, SameBook, SameLine, SameBusy, SameData, Owed, Part, IsIdle, SameQuery, Stepped
  <1>4. Within(t)
    BY <1>1, <1>2, <1>r, <1>a, <1>b, <1>c DEF IsWorked, SameSc, SamePc, SameEnding, SameBook, SameLine, SameBusy, SameData, Within, IsIdle, SameQuery, Stepped
  <1>5. Promises(t)
    <2>1. \A j \in DOMAIN t.calls :
          /\ t.calls[j].pc \in {"fresh", "waiting", "asking", "running", "stopping", "dropping"}
                => t.calls[j].told = "nothing"
          /\ t.calls[j].pc = "delivering" => t.calls[j].told = "ok"
          /\ t.calls[j].own \/ t.calls[j].pc = "stopping" => Statement(t.calls[j].kind)
      BY <1>1, <1>2, <1>r, <1>a, <1>b, <1>c DEF IsWorked, SameSc, SamePc, SameEnding, SameBook, SameLine, SameBusy, SameData, Promises, Part, Kin, IsIdle, SameQuery, Stepped
    <2>2. ~IsIdle(t) /\ t.busy.call # 0 =>
          /\ Part(t) = "delivering" => t.busy.stage \in {"delivering", "ended"} /\ t.busy.verb = "write"
          /\ t.busy.stage = "delivering" => Part(t) = "delivering"
          /\ t.busy.verb = "write" /\ t.readOnly => t.busy.stage = "posted" \/ t.busy.failed
      BY <1>1, <1>2, <1>r, <1>a, <1>b, <1>c DEF IsWorked, SameSc, SamePc, SameEnding, SameBook, SameLine, SameBusy, SameData, Promises, Part, Kin, IsIdle, SameQuery, Stepped
    <2>3. ~IsIdle(t) /\ t.busy.call # 0 /\ t.busy.verb = "write" /\ ~t.readOnly =>
                /\ Part(t) # "stopping"
                /\ Part(t) = "running" /\ t.calls[t.busy.call].own => t.busy.open
                /\ Part(t) = "running" /\ t.busy.stop => t.ending # "none"
      BY <1>1, <1>2, <1>r, <1>a, <1>b, <1>c DEF IsWorked, SameSc, SamePc, SameEnding, SameBook, SameLine, SameBusy, SameData, Promises, Part, Kin, IsIdle, SameQuery, Stepped
    <2> QED BY <2>1, <2>2, <2>3 DEF Promises
  <1>6. Journal(t)
    <2> SUFFICES ASSUME Live(t)
                 PROVE  Agrees(t.conn.log, t.ledger, t.busy, Part(t))
      BY <1>a DEF Journal
    <2>1. t.conn = Begun(s) /\ t.ledger = s.ledger /\ t.busy.failed /\ t.busy.open = s.busy.open
          /\ t.busy.stage = "ended" /\ t.busy.verb = s.busy.verb /\ t.ending = s.ending
      BY DEF IsWorked, SameEnding
    <2>2. Live(s)
      BY <1>a, <1>b, <2>1 DEF Live
    <2>3. Part(s) # "dropping" => t.conn.log = Base(t.ledger, t.busy.open)
      BY <2>1, <2>2, BegunIs
    <2> QED BY <1>a, <1>c, <2>1, <2>3 DEF Agrees, After
  <1>7. File(t)
    <2>1. /\ t.db = s.db /\ t.ledger = s.ledger /\ t.begun = s.begun /\ t.ending = s.ending
          /\ t.busy.failed
      BY DEF IsWorked, SamePc, SameEnding
    <2> QED BY <1>1, <1>b, <1>c, <2>1 DEF File, Committing
  <1>8. "explicit" \notin t.sc.faults
    BY <1>1 DEF IsWorked, SameSc, SamePc, SameEnding, SameBook, SameLine, SameBusy, SameData
  <1> QED BY <1>3, <1>4, <1>5, <1>6, <1>7, <1>8 DEF More

(* It fails, and the connection is out of the transaction. *)
LEMMA MoreLeaves ==
    ASSUME NEW s, NEW t, Inv(s), Inv(t), More(s),
           ~IsIdle(s), s.busy.stage = "posted",
           s.busy.verb = "commit" => s.busy.call = 0,
           s.busy.verb = "rollback" => s.busy.conclude # "none",
           IsWorked(s, t, OutOfTransaction, s.db, "ended", TRUE)
    PROVE  More(t)
  <1>1. Owed(s) /\ Within(s) /\ Promises(s) /\ Journal(s) /\ File(s) /\ "explicit" \notin s.sc.faults
    BY DEF More
  <1>2. /\ DOMAIN s.calls = 1 .. Len(s.calls) /\ Len(s.calls) \in Nat
        /\ DOMAIN t.calls = 1 .. Len(t.calls) /\ Len(t.calls) \in Nat
        /\ s \in States /\ t \in States
        /\ TypeInv(s) /\ TypeInv(t)
    BY CallRange DEF Inv
  <1>r. /\ ~IsIdle(s) /\ s.busy.call # 0 => s.busy.call \in DOMAIN s.calls
        /\ ~IsIdle(t) /\ t.busy.call # 0 => t.busy.call \in DOMAIN t.calls
    BY <1>2, SMTT(30) DEF TypeInv, OwnFlight, Bounds, Nobody
  <1>a. ~IsIdle(t) /\ Part(t) = Part(s) /\ t.busy.call = s.busy.call
    BY DEF IsWorked, SameLine, Part
  <1>b. /\ s.conn.in <=> s.busy.verb # "begin"
        /\ Begun(s).in <=> s.busy.verb # "begin"
        /\ s.db = {}
    BY BegunIs
  <1>c. /\ s.busy.verb = "begin" \/ ~s.begun => s.ledger = <<>> /\ ~s.busy.open /\ s.busy.call = 0
        /\ s.busy.verb = "begin" <=> ~s.begun
        /\ s.busy.verb = "write" => s.busy.call # 0
        /\ Part(s) # "delivering" /\ ~s.busy.failed
        /\ ~s.done /\ s.ending # "committed"
    BY InFlight
  <1>d. ~t.conn.in /\ s.busy.verb # "rollback"
    BY <1>1 DEF IsWorked, OutOfTransaction, Owed
  <1>3. Owed(t)
    BY <1>1, <1>2, <1>r, <1>a, <1>b, <1>c, <1>d DEF IsWorked, SameSc, SamePc, SameEnding, SameBook, SameLine, SameBusy, SameData, Owed, Part, IsIdle, SameQuery, Stepped
  <1>4. Within(t)
    BY <1>1, <1>2, <1>r, <1>a, <1>b, <1>c, <1>d DEF IsWorked, SameSc, SamePc, SameEnding, SameBook, SameLine, SameBusy, SameData, Within, IsIdle, SameQuery, Stepped
  <1>5. Promises(t)
    <2>1. \A j \in DOMAIN t.calls :
          /\ t.calls[j].pc \in {"fresh", "waiting", "asking", "running", "stopping", "dropping"}
                => t.calls[j].told = "nothing"
          /\ t.calls[j].pc = "delivering" => t.calls[j].told = "ok"
          /\ t.calls[j].own \/ t.calls[j].pc = "stopping" => Statement(t.calls[j].kind)
      BY <1>1, <1>2, <1>r, <1>a, <1>b, <1>c, <1>d DEF IsWorked, SameSc, SamePc, SameEnding, SameBook, SameLine, SameBusy, SameData, Promises, Part, Kin, IsIdle, SameQuery, Stepped
    <2>2. ~IsIdle(t) /\ t.busy.call # 0 =>
          /\ Part(t) = "delivering" => t.busy.stage \in {"delivering", "ended"} /\ t.busy.verb = "write"
          /\ t.busy.stage = "delivering" => Part(t) = "delivering"
          /\ t.busy.verb = "write" /\ t.readOnly => t.busy.stage = "posted" \/ t.busy.failed
      BY <1>1, <1>2, <1>r, <1>a, <1>b, <1>c, <1>d DEF IsWorked, SameSc, SamePc, SameEnding, SameBook, SameLine, SameBusy, SameData, Promises, Part, Kin, IsIdle, SameQuery, Stepped
    <2>3. ~IsIdle(t) /\ t.busy.call # 0 /\ t.busy.verb = "write" /\ ~t.readOnly =>
                /\ Part(t) # "stopping"
                /\ Part(t) = "running" /\ t.calls[t.busy.call].own => t.busy.open
                /\ Part(t) = "running" /\ t.busy.stop => t.ending # "none"
      BY <1>1, <1>2, <1>r, <1>a, <1>b, <1>c, <1>d DEF IsWorked, SameSc, SamePc, SameEnding, SameBook, SameLine, SameBusy, SameData, Promises, Part, Kin, IsIdle, SameQuery, Stepped
    <2> QED BY <2>1, <2>2, <2>3 DEF Promises
  <1>6. Journal(t)
    BY <1>d DEF Journal, Live
  <1>7. File(t)
    <2>1. /\ t.db = s.db /\ t.ledger = s.ledger /\ t.begun = s.begun /\ t.ending = s.ending
          /\ t.busy.failed
      BY DEF IsWorked, SamePc, SameEnding
    <2> QED BY <1>1, <1>b, <1>c, <2>1 DEF File, Committing
  <1>8. "explicit" \notin t.sc.faults
    BY <1>1 DEF IsWorked, SameSc, SamePc, SameEnding, SameBook, SameLine, SameBusy, SameData
  <1> QED BY <1>3, <1>4, <1>5, <1>6, <1>7, <1>8 DEF More

(* The rows of a generator are over. *)
LEMMA MoreDrains ==
    ASSUME NEW s, NEW t, Inv(s), Inv(t), More(s),
           ~IsIdle(s), s.busy.stage \in {"affected", "delivering"}, s.busy.call # 0,
           IsWorked(s, t, s.conn, s.db, "ended", s.busy.failed)
    PROVE  More(t)
  <1>1. Owed(s) /\ Within(s) /\ Promises(s) /\ Journal(s) /\ File(s) /\ "explicit" \notin s.sc.faults
    BY DEF More
  <1>2. /\ DOMAIN s.calls = 1 .. Len(s.calls) /\ Len(s.calls) \in Nat
        /\ DOMAIN t.calls = 1 .. Len(t.calls) /\ Len(t.calls) \in Nat
        /\ s \in States /\ t \in States
        /\ TypeInv(s) /\ TypeInv(t)
    BY CallRange DEF Inv
  <1>r. /\ ~IsIdle(s) /\ s.busy.call # 0 => s.busy.call \in DOMAIN s.calls
        /\ ~IsIdle(t) /\ t.busy.call # 0 => t.busy.call \in DOMAIN t.calls
    BY <1>2, SMTT(30) DEF TypeInv, OwnFlight, Bounds, Nobody
  <1>a. ~IsIdle(t) /\ Part(t) = Part(s) /\ s.busy.verb = "write" /\ t.busy.call = s.busy.call
    BY InFlight DEF IsWorked, SameLine, Part
  <1>3. Owed(t)
    BY <1>1, <1>2, <1>r, <1>a DEF IsWorked, SameSc, SamePc, SameEnding, SameBook, SameLine, SameBusy, SameData, Owed, Part, IsIdle, SameQuery, Stepped
  <1>4. Within(t)
    BY <1>1, <1>2, <1>r, <1>a DEF IsWorked, SameSc, SamePc, SameEnding, SameBook, SameLine, SameBusy, SameData, Within, IsIdle, SameQuery, Stepped
  <1>5. Promises(t)
    <2>1. \A j \in DOMAIN t.calls :
          /\ t.calls[j].pc \in {"fresh", "waiting", "asking", "running", "stopping", "dropping"}
                => t.calls[j].told = "nothing"
          /\ t.calls[j].pc = "delivering" => t.calls[j].told = "ok"
          /\ t.calls[j].own \/ t.calls[j].pc = "stopping" => Statement(t.calls[j].kind)
      BY <1>1, <1>2, <1>r, <1>a DEF IsWorked, SameSc, SamePc, SameEnding, SameBook, SameLine, SameBusy, SameData, Promises, Part, Kin, IsIdle, SameQuery, Stepped
    <2>2. ~IsIdle(t) /\ t.busy.call # 0 =>
          /\ Part(t) = "delivering" => t.busy.stage \in {"delivering", "ended"} /\ t.busy.verb = "write"
          /\ t.busy.stage = "delivering" => Part(t) = "delivering"
          /\ t.busy.verb = "write" /\ t.readOnly => t.busy.stage = "posted" \/ t.busy.failed
      BY <1>1, <1>2, <1>r, <1>a DEF IsWorked, SameSc, SamePc, SameEnding, SameBook, SameLine, SameBusy, SameData, Promises, Part, Kin, IsIdle, SameQuery, Stepped
    <2>3. ~IsIdle(t) /\ t.busy.call # 0 /\ t.busy.verb = "write" /\ ~t.readOnly =>
                /\ Part(t) # "stopping"
                /\ Part(t) = "running" /\ t.calls[t.busy.call].own => t.busy.open
                /\ Part(t) = "running" /\ t.busy.stop => t.ending # "none"
      BY <1>1, <1>2, <1>r, <1>a DEF IsWorked, SameSc, SamePc, SameEnding, SameBook, SameLine, SameBusy, SameData, Promises, Part, Kin, IsIdle, SameQuery, Stepped
    <2> QED BY <2>1, <2>2, <2>3 DEF Promises
  <1>6. Journal(t)
    <2>1. Live(t) => Live(s)
      BY <1>1, <1>2, <1>r, <1>a DEF IsWorked, SameSc, SamePc, SameEnding, SameBook, SameLine, SameBusy, SameData, Live, IsIdle, SameQuery
    <2>2. ~IsIdle(s) =>
               /\ SameQuery(t.busy, s.busy)
               /\ t.busy.stage = "posted" <=> s.busy.stage = "posted"
               /\ Part(t) = "delivering" <=> Part(s) = "delivering"
               /\ Part(t) = "dropping" <=> Part(s) = "dropping"
      BY <1>1, <1>2, <1>r, <1>a DEF IsWorked, SameSc, SamePc, SameEnding, SameBook, SameLine, SameBusy, SameData, SameQuery, Part, IsIdle, Stepped
    <2>3. /\ t.conn = s.conn /\ t.ledger = s.ledger
          /\ IsIdle(t) <=> IsIdle(s)
          /\ IsIdle(s) => t.pending = s.pending
      BY <1>1, <1>2, <1>r, <1>a DEF IsWorked, SameSc, SamePc, SameEnding, SameBook, SameLine, SameBusy, SameData, IsIdle
    <2> QED BY <1>1, <2>1, <2>2, <2>3, JournalStays
  <1>7. File(t)
    <2>1. Committing(t) <=> Committing(s)
      BY <1>1, <1>2, <1>r, <1>a DEF IsWorked, SameSc, SamePc, SameEnding, SameBook, SameLine, SameBusy, SameData, Committing, IsIdle, SameQuery
    <2>2. /\ t.db = s.db /\ t.ledger = s.ledger /\ t.conn = s.conn
          /\ ~t.begun => ~s.begun
          /\ s.dead => t.dead
          /\ s.done => t.done
          /\ t.ending = "committed" <=> s.ending = "committed"
      BY <1>1, <1>2, <1>r, <1>a DEF IsWorked, SameSc, SamePc, SameEnding, SameBook, SameLine, SameBusy, SameData
    <2> QED BY <1>1, <2>1, <2>2, FileStays
  <1>8. "explicit" \notin t.sc.faults
    BY <1>1 DEF IsWorked, SameSc, SamePc, SameEnding, SameBook, SameLine, SameBusy, SameData
  <1> QED BY <1>3, <1>4, <1>5, <1>6, <1>7, <1>8 DEF More

(* The worker dies. *)
LEMMA MoreCrashed ==
    ASSUME NEW s, NEW t, Inv(s), Inv(t), More(s),
           IsCrashed(s, t)
    PROVE  More(t)
  <1>1. Owed(s) /\ Within(s) /\ Promises(s) /\ Journal(s) /\ File(s) /\ "explicit" \notin s.sc.faults
    BY DEF More
  <1>2. /\ DOMAIN s.calls = 1 .. Len(s.calls) /\ Len(s.calls) \in Nat
        /\ DOMAIN t.calls = 1 .. Len(t.calls) /\ Len(t.calls) \in Nat
        /\ s \in States /\ t \in States
        /\ TypeInv(s) /\ TypeInv(t)
    BY CallRange DEF Inv
  <1>r. /\ ~IsIdle(s) /\ s.busy.call # 0 => s.busy.call \in DOMAIN s.calls
        /\ ~IsIdle(t) /\ t.busy.call # 0 => t.busy.call \in DOMAIN t.calls
    BY <1>2, SMTT(30) DEF TypeInv, OwnFlight, Bounds, Nobody
  <1>a. /\ ~t.conn.in /\ t.dead
        /\ ~IsIdle(s) => /\ t.busy.call = s.busy.call /\ Part(t) = Part(s) /\ t.busy.stage = "ended"
                         /\ t.busy.verb = s.busy.verb /\ t.busy.open = s.busy.open /\ t.busy.failed
                         /\ t.busy.conclude = s.busy.conclude /\ t.busy.stop = s.busy.stop
    BY DEF IsCrashed, OutOfTransaction, Ended, SameLine, Part
  <1>3. Owed(t)
    BY <1>1, <1>2, <1>r, <1>a DEF IsCrashed, SameSc, SamePc, SameEnding, SameBook, SameLine, SameBusy, SameData, Owed, Part, IsIdle, SameQuery, Stepped
  <1>4. Within(t)
    BY <1>1, <1>2, <1>r, <1>a DEF IsCrashed, SameSc, SamePc, SameEnding, SameBook, SameLine, SameBusy, SameData, Within, IsIdle, SameQuery, Stepped
  <1>5. Promises(t)
    <2>1. \A j \in DOMAIN t.calls :
          /\ t.calls[j].pc \in {"fresh", "waiting", "asking", "running", "stopping", "dropping"}
                => t.calls[j].told = "nothing"
          /\ t.calls[j].pc = "delivering" => t.calls[j].told = "ok"
          /\ t.calls[j].own \/ t.calls[j].pc = "stopping" => Statement(t.calls[j].kind)
      BY <1>1, <1>2, <1>r, <1>a DEF IsCrashed, SameSc, SamePc, SameEnding, SameBook, SameLine, SameBusy, SameData, Promises, Part, Kin, IsIdle, SameQuery, Stepped
    <2>2. ~IsIdle(t) /\ t.busy.call # 0 =>
          /\ Part(t) = "delivering" => t.busy.stage \in {"delivering", "ended"} /\ t.busy.verb = "write"
          /\ t.busy.stage = "delivering" => Part(t) = "delivering"
          /\ t.busy.verb = "write" /\ t.readOnly => t.busy.stage = "posted" \/ t.busy.failed
      BY <1>1, <1>2, <1>r, <1>a DEF IsCrashed, SameSc, SamePc, SameEnding, SameBook, SameLine, SameBusy, SameData, Promises, Part, Kin, IsIdle, SameQuery, Stepped
    <2>3. ~IsIdle(t) /\ t.busy.call # 0 /\ t.busy.verb = "write" /\ ~t.readOnly =>
                /\ Part(t) # "stopping"
                /\ Part(t) = "running" /\ t.calls[t.busy.call].own => t.busy.open
                /\ Part(t) = "running" /\ t.busy.stop => t.ending # "none"
      BY <1>1, <1>2, <1>r, <1>a DEF IsCrashed, SameSc, SamePc, SameEnding, SameBook, SameLine, SameBusy, SameData, Promises, Part, Kin, IsIdle, SameQuery, Stepped
    <2> QED BY <2>1, <2>2, <2>3 DEF Promises
  <1>6. Journal(t)
    BY <1>a DEF Journal, Live
  <1>7. File(t)
    <2>1. /\ t.db = s.db /\ t.ledger = s.ledger /\ t.begun = s.begun /\ t.ending = s.ending
          /\ t.done = s.done /\ (IsIdle(t) <=> IsIdle(s))
      BY DEF IsCrashed, SamePc, SameEnding
    <2> QED BY <1>1, <1>a, <2>1 DEF File, Committing
  <1>8. "explicit" \notin t.sc.faults
    BY <1>1 DEF IsCrashed, SameSc, SamePc, SameEnding, SameBook, SameLine, SameBusy, SameData
  <1> QED BY <1>3, <1>4, <1>5, <1>6, <1>7, <1>8 DEF More

(* What is known of the call whose query is over.                           *)
LEMMA Ending ==
    ASSUME NEW s, NEW i \in DOMAIN s.calls, Inv(s), More(s), ~IsIdle(s), i = s.busy.call,
           s.busy.stage = "ended"
    PROVE  LET c == s.calls[i]
               m == s.busy
           IN
           /\ c \in Call /\ c.kind \in CallKinds /\ Part(s) = c.pc /\ i \in 1 .. Len(s.calls)
           /\ i # 0 /\ Len(s.calls) \in Nat /\ s.ledger \in Seq(EntriesOf(Len(s.calls)))
           /\ VerbOf(c) = VerbOfKind(c.kind)
           /\ Working(c) \/ c.pc = "left"
           /\ m.verb = (IF c.pc = "dropping" THEN "release" ELSE VerbOfKind(c.kind))
           /\ m.name = c.name /\ m.call = i
           /\ m.open => Statement(c.kind) /\ ~s.readOnly
           /\ c.pc = "dropping" => c.kind = "rollbackTo" /\ ~c.keep
           /\ c.pc = "stopping" => Statement(c.kind)
           /\ c.pc \in {"running", "stopping", "dropping"} => c.told = "nothing"
           /\ c.pc = "delivering" => c.told = "ok" /\ m.verb = "write"
           /\ s.pending = IF ~m.open THEN "none" ELSE IF c.pc = "left" THEN "undo" ELSE "release"
           /\ c.pc = "left" => m.open
           /\ m.verb = "write" /\ s.readOnly => m.failed
           /\ m.verb = "write" /\ ~s.readOnly =>
                 /\ c.pc # "stopping"
                 /\ c.pc = "running" /\ m.stop => s.ending # "none"
           /\ s.begun /\ ~s.done /\ s.ending # "committed"
           /\ (m.verb = "commit" /\ ~m.failed) <=> Committing(s)
           /\ s.conn.in /\ s.ending = "none" /\ m.verb # "rollback" =>
                 /\ (m.failed /\ c.pc = "dropping") \/ s.conn.log = After(s.ledger, m, c.pc)
                 /\ c.pc = "delivering" => s.ledger # <<>> /\ s.ledger[Len(s.ledger)] = Effect(i)
           /\ ~m.failed /\ m.verb \notin {"commit", "rollback"} => s.conn.in
           /\ ~s.dead /\ m.verb = "rollback" => ~m.failed
           /\ ~s.dead /\ m.verb = "commit" /\ m.failed => s.conn.in
  <1> DEFINE c == s.calls[i]
             m == s.busy
  <1>1. /\ TypeInv(s) /\ Carries(s) /\ Flight(s) /\ Owed(s) /\ Within(s) /\ Promises(s) /\ Journal(s)
    BY DEF Inv, More
  <1>2. /\ c \in Call /\ i \in 1 .. Len(s.calls) /\ i # 0 /\ Len(s.calls) \in Nat
        /\ s.ledger \in Seq(EntriesOf(Len(s.calls)))
    BY <1>1, CallRange, CallsAre DEF TypeInv, Bounds
  <1>3. c.kind \in CallKinds /\ VerbOf(c) = VerbOfKind(c.kind) /\ Part(s) = c.pc
    BY <1>2, VerbIs DEF Call, Part
  <1>4. Working(c) \/ c.pc = "left"
    BY <1>1, <1>2 DEF Flight
  <1>5. /\ m.verb = (IF c.pc = "dropping" THEN "release" ELSE VerbOfKind(c.kind))
        /\ m.name = c.name /\ m.call = i
        /\ m.open => Statement(c.kind) /\ ~s.readOnly
        /\ c.pc = "dropping" => c.kind = "rollbackTo" /\ ~c.keep
    BY <1>1, <1>2 DEF Carries
  <1>6. /\ s.pending = IF ~m.open THEN "none" ELSE IF c.pc = "left" THEN "undo" ELSE "release"
        /\ c.pc = "left" => m.open
    BY <1>1, <1>3 DEF Owed
  <1>7. /\ c.pc = "stopping" => Statement(c.kind)
        /\ c.pc \in {"running", "stopping", "dropping"} => c.told = "nothing"
        /\ c.pc = "delivering" => c.told = "ok" /\ m.verb = "write"
        /\ m.verb = "write" /\ s.readOnly => m.failed
        /\ m.verb = "write" /\ ~s.readOnly =>
              /\ c.pc # "stopping"
              /\ c.pc = "running" /\ m.stop => s.ending # "none"
    BY <1>1, <1>2, <1>3 DEF Promises
  <1>8. s.begun /\ ~s.done /\ s.ending # "committed"
    BY <1>2, InFlight
  <1>9. (m.verb = "commit" /\ ~m.failed) <=> Committing(s)
    BY DEF Committing
  <1>10. s.conn.in /\ s.ending = "none" /\ m.verb # "rollback" =>
                 /\ (m.failed /\ c.pc = "dropping") \/ s.conn.log = After(s.ledger, m, c.pc)
                 /\ c.pc = "delivering" => s.ledger # <<>> /\ s.ledger[Len(s.ledger)] = Effect(i)
    <2> SUFFICES ASSUME s.conn.in, s.ending = "none", m.verb # "rollback"
                 PROVE  Agrees(s.conn.log, s.ledger, m, c.pc)
      BY <1>5 DEF Agrees
    <2> QED BY <1>1, <1>3 DEF Journal, Live
  <1>11. /\ ~m.failed /\ m.verb \notin {"commit", "rollback"} => s.conn.in
         /\ ~s.dead /\ m.verb = "rollback" => ~m.failed
         /\ ~s.dead /\ m.verb = "commit" /\ m.failed => s.conn.in
    BY <1>1, <1>2 DEF Within
  <1> QED BY <1>2, <1>3, <1>4, <1>5, <1>6, <1>7, <1>8, <1>9, <1>10, <1>11

(* A call is over: what is owed makes the journal the account.              *)
LEMMA MoreOver ==
    ASSUME NEW s, NEW t, NEW i \in DOMAIN s.calls, Inv(s), Inv(t), More(s),
           ~IsIdle(s), i = s.busy.call, s.busy.stage = "ended", IsOver(s, t, i),
           \A j \in DOMAIN s.calls : j # i => t.calls[j].told = s.calls[j].told,
           t.ending = "none" \/ t.cut \/ t.done,
           t.ending = "committed" <=> s.busy.verb = "commit" /\ ~s.busy.failed,
           t.ending = "committed" => t.done /\ t.ledger = s.ledger,
           t.ending = "none" => s.ending = "none" /\ (~s.dead => s.conn.in),
           t.ending = "none" /\ s.conn.in => Concluded(s.conn.log, s.pending) = t.ledger
    PROVE  More(t)
  <1>1. Owed(s) /\ Within(s) /\ Promises(s) /\ Journal(s) /\ File(s) /\ "explicit" \notin s.sc.faults
    BY DEF More
  <1>2. /\ IsIdle(t) /\ t.begun = s.begun /\ t.dead = s.dead /\ t.conn = s.conn /\ t.db = s.db
        /\ t.pending = s.pending /\ t.sc = s.sc
        /\ DOMAIN t.calls = DOMAIN s.calls
        /\ \A j \in DOMAIN s.calls :
              /\ Kin(t.calls[j], s.calls[j])
              /\ t.calls[j].pc = IF j = i THEN "over" ELSE s.calls[j].pc
    BY DEF IsOver, SameSc
  <1>3. /\ s.begun /\ ~s.done /\ s.ending # "committed"
        /\ (s.busy.verb = "commit" /\ ~s.busy.failed) <=> Committing(s)
    BY Ending
  <1>4. Owed(t)
    BY <1>2 DEF Owed
  <1>5. Within(t)
    BY <1>2 DEF Within
  <1>6. Promises(t)
    <2>1. \A j \in DOMAIN t.calls :
          /\ t.calls[j].pc \in {"fresh", "waiting", "asking", "running", "stopping", "dropping"}
                => t.calls[j].told = "nothing"
          /\ t.calls[j].pc = "delivering" => t.calls[j].told = "ok"
          /\ t.calls[j].own \/ t.calls[j].pc = "stopping" => Statement(t.calls[j].kind)
      BY <1>1, <1>2 DEF Promises, Kin
    <2> QED BY <1>2, <2>1 DEF Promises
  <1>7. Journal(t)
    BY <1>2 DEF Journal, Live
  <1>8. File(t)
    <2>1. ~Committing(t)
      BY <1>2 DEF Committing
    <2> QED BY <1>1, <1>2, <1>3, <2>1 DEF File
  <1> QED BY <1>1, <1>2, <1>4, <1>5, <1>6, <1>7, <1>8 DEF More

(* The end of a query whose write was given up: it is undone.               *)
LEMMA MoreOverLeft ==
    ASSUME NEW s, NEW t, NEW i \in DOMAIN s.calls, Inv(s), Inv(t), More(s),
           ~IsIdle(s), i = s.busy.call, s.busy.stage = "ended", OversLeft(s, t, i)
    PROVE  More(t)
  <1> DEFINE c == s.calls[i]
             l == s.ledger
             m == s.busy
  <1>1. /\ IsOver(s, t, i) /\ IsEnding(s, t, Departed(s)) /\ t.ledger = s.ledger /\ c.pc = "left"
        /\ \A j \in DOMAIN s.calls : t.calls[j].told = s.calls[j].told
    BY DEF OversLeft
  <1>2. /\ c.kind \in CallKinds /\ m.open /\ s.pending = "undo" /\ Statement(c.kind)
        /\ m.verb = VerbOfKind(c.kind) /\ m.call = i /\ s.begun /\ s.ending # "committed"
        /\ i \in 1 .. Len(s.calls) /\ Len(s.calls) \in Nat /\ l \in Seq(EntriesOf(Len(s.calls)))
        /\ s.conn.in /\ s.ending = "none" /\ m.verb # "rollback" => s.conn.log = After(l, m, c.pc)
    BY <1>1, Ending
  <1>3. m.verb \in {"read", "write"}
    BY <1>2 DEF Statement, VerbOfKind
  <1>4. t.ending # "committed" /\ (t.ending = "none" \/ t.cut \/ t.done)
    <2>1. s.ending # "none" => s.cut \/ s.done \/ s.pc \in {"publishing", "released"}
      BY DEF More, Within
    <2>2. s.pc \notin {"publishing", "released"}
      BY DEF Inv, Stages
    <2> QED BY <1>1, <1>2, <2>1, <2>2 DEF IsEnding
  <1>5. t.ending = "none" => s.ending = "none" /\ (~s.dead => s.conn.in)
    BY <1>1, <1>2 DEF IsEnding, Departed
  <1>6. t.ending = "none" /\ s.conn.in => Concluded(s.conn.log, s.pending) = t.ledger
    <2> SUFFICES ASSUME t.ending = "none", s.conn.in
                 PROVE  Concluded(s.conn.log, "undo") = l
      BY <1>1, <1>2
    <2>1. s.conn.log = Base(l, TRUE) \/ s.conn.log = Append(Base(l, TRUE), Effect(i))
      BY <1>1, <1>2, <1>3, <1>5 DEF After
    <2> HIDE DEF l
    <2> QED BY <1>2, <2>1, ConcludedBase
  <1> QED BY <1>1, <1>3, <1>4, <1>5, <1>6, MoreOver

(* The last write of an account.                                            *)
LEMMA FrontIs ==
    ASSUME NEW S, NEW l \in Seq(S)
    PROVE  /\ \A e \in S : Front(Append(l, e)) = l /\ Append(l, e) # <<>>
                           /\ Append(l, e)[Len(Append(l, e))] = e
           /\ l # <<>> => Front(l) \in Seq(S) /\ l = Append(Front(l), l[Len(l)])
  BY DEF Front

(* The end of a statement.                                                  *)
LEMMA MoreOverStatement ==
    ASSUME NEW s, NEW t, NEW i \in DOMAIN s.calls, Inv(s), Inv(t), More(s),
           ~IsIdle(s), i = s.busy.call, s.busy.stage = "ended", OversStatement(s, t, i)
    PROVE  More(t)
  <1> DEFINE c == s.calls[i]
             l == s.ledger
             m == s.busy
             v == Verdict(c, m)
             e == Effect(i)
  <1>1. /\ IsOver(s, t, i) /\ IsEnding(s, t, Departed(s)) /\ c.pc # "left" /\ Statement(c.kind)
        /\ \A j \in DOMAIN s.calls : j # i => t.calls[j].told = s.calls[j].told
        /\ t.ledger = IF v = "ok" /\ c.told = "nothing" THEN Account(l, c, i) ELSE l
    BY DEF OversStatement, IsPassed
  <1>2. /\ c.kind \in CallKinds /\ s.pending = (IF m.open THEN "release" ELSE "none")
        /\ VerbOf(c) = VerbOfKind(c.kind) /\ Working(c) /\ m \in Messages
        /\ c.pc # "dropping" /\ m.verb = VerbOfKind(c.kind) /\ m.call = i /\ s.begun
        /\ s.ending # "committed"
        /\ c.pc \in {"running", "stopping", "dropping"} => c.told = "nothing"
        /\ c.pc = "delivering" => c.told = "ok" /\ m.verb = "write"
        /\ m.verb = "write" /\ s.readOnly => m.failed
        /\ m.verb = "write" /\ ~s.readOnly =>
                 /\ c.pc # "stopping"
                 /\ c.pc = "running" /\ m.stop => s.ending # "none"
        /\ i \in 1 .. Len(s.calls) /\ Len(s.calls) \in Nat /\ l \in Seq(EntriesOf(Len(s.calls)))
        /\ s.conn.in /\ s.ending = "none" /\ m.verb # "rollback" =>
              /\ s.conn.log = After(l, m, c.pc)
              /\ c.pc = "delivering" => l # <<>> /\ l[Len(l)] = e
    <2>1. c.pc # "dropping"
      BY <1>1, Ending DEF Statement
    <2>2. /\ c.kind \in CallKinds /\ i \in 1 .. Len(s.calls) /\ Len(s.calls) \in Nat
          /\ l \in Seq(EntriesOf(Len(s.calls))) /\ VerbOf(c) = VerbOfKind(c.kind)
          /\ Working(c) \/ c.pc = "left"
          /\ m.verb = (IF c.pc = "dropping" THEN "release" ELSE VerbOfKind(c.kind))
          /\ m.call = i
          /\ c.pc \in {"running", "stopping", "dropping"} => c.told = "nothing"
          /\ c.pc = "delivering" => c.told = "ok" /\ m.verb = "write"
          /\ s.pending = IF ~m.open THEN "none" ELSE IF c.pc = "left" THEN "undo" ELSE "release"
      BY Ending
    <2>3. /\ m.verb = "write" /\ s.readOnly => m.failed
          /\ m.verb = "write" /\ ~s.readOnly =>
                /\ c.pc # "stopping"
                /\ c.pc = "running" /\ m.stop => s.ending # "none"
          /\ s.begun /\ s.ending # "committed"
      BY Ending
    <2>4. s.conn.in /\ s.ending = "none" /\ m.verb # "rollback" =>
              /\ (m.failed /\ c.pc = "dropping") \/ s.conn.log = After(l, m, c.pc)
              /\ c.pc = "delivering" => l # <<>> /\ l[Len(l)] = e
      BY Ending
    <2>5. m \in Messages
      BY InFlight
    <2> HIDE DEF c, l, m, e
    <2> QED BY <1>1, <2>1, <2>2, <2>3, <2>4, <2>5
  <1>3. m.verb \in {"read", "write"} /\ (m.verb = "read" <=> c.kind = "read")
    BY <1>1 , <1>2 DEF Statement, VerbOfKind
  <1>4. t.ending # "committed" /\ (t.ending = "none" \/ t.cut \/ t.done)
    <2>1. s.ending # "none" => s.cut \/ s.done \/ s.pc \in {"publishing", "released"}
      BY DEF More, Within
    <2>2. s.pc \notin {"publishing", "released"}
      BY DEF Inv, Stages
    <2> QED BY <1>1, <1>2, <2>1, <2>2 DEF IsEnding
  <1>5. t.ending = "none" => s.ending = "none" /\ (~s.dead => s.conn.in)
    BY <1>1, <1>2 DEF IsEnding, Departed
  <1>6. t.ending = "none" /\ s.conn.in => Concluded(s.conn.log, s.pending) = t.ledger
    <2> SUFFICES ASSUME t.ending = "none", s.conn.in
                 PROVE  Concluded(s.conn.log, s.pending) = t.ledger
      OBVIOUS
    <2>1. s.conn.log = After(l, m, c.pc) /\ s.ending = "none"
          /\ (c.pc = "delivering" => l # <<>> /\ l[Len(l)] = e)
      BY <1>2, <1>3, <1>5
    <2>2. m.open \in BOOLEAN /\ e \in EntriesOf(Len(s.calls))
      BY <1>2, EntryIs DEF Messages, Names
    <2>3. Account(l, c, i) = IF m.verb = "read" THEN l ELSE Append(l, e)
      BY <1>2, <1>3 DEF Account, VerbOfKind
    <2>4. CASE m.verb = "read" \/ m.failed
      <3>1. s.conn.log = Base(l, m.open)
        BY <2>1, <2>4 DEF After
      <3>2. t.ledger = l
        <4>1. m.verb # "read" => v # "ok"
          BY <2>4 DEF Verdict
        <4> QED BY <1>1, <2>3, <4>1
      <3> HIDE DEF l
      <3> QED BY <1>2, <2>2, <3>1, <3>2, ConcludedBase
    <2>5. CASE m.verb = "write" /\ ~m.failed /\ c.pc = "running"
      <3>1. s.conn.log = Append(Base(l, m.open), e)
        BY <1>2, <2>1, <2>5 DEF After
      <3>2. v = "ok" /\ c.told = "nothing"
        BY <1>2, <2>1, <2>5 DEF Verdict
      <3>3. t.ledger = Append(l, e)
        BY <1>1, <2>3, <2>5, <3>2
      <3> HIDE DEF l
      <3> QED BY <1>2, <2>2, <3>1, <3>3, ConcludedBase
    <2>6. CASE m.verb = "write" /\ ~m.failed /\ c.pc = "delivering"
      <3>1. s.conn.log = Append(Base(Front(l), m.open), e)
        BY <1>2, <2>1, <2>6 DEF After
      <3>2. t.ledger = l
        BY <1>1, <1>2, <2>6
      <3> HIDE DEF l
      <3>3. Front(l) \in Seq(EntriesOf(Len(s.calls))) /\ l = Append(Front(l), e)
        BY <1>2, <2>1, <2>6, FrontIs
      <3> DEFINE k == Front(l)
                 p == s.pending
                 o == m.open
                 n == Len(s.calls)
      <3>4. k \in Seq(EntriesOf(n)) /\ n \in Nat /\ i \in 1 .. n /\ o \in BOOLEAN
            /\ p = (IF o THEN "release" ELSE "none")
        BY <1>2, <2>2, <3>3
      <3>5. Concluded(Append(Base(k, o), Effect(i)), p) = Append(k, Effect(i))
        <4> HIDE DEF k, p, o, n
        <4> QED BY <3>4, ConcludedBase
      <3> QED BY <3>1, <3>2, <3>3, <3>5
    <2>7. m.verb = "write" /\ ~m.failed => c.pc \in {"running", "delivering"}
      BY <1>2 DEF Working
    <2> QED BY <1>3, <2>4, <2>5, <2>6, <2>7
  <1> QED BY <1>1, <1>3, <1>4, <1>5, <1>6, MoreOver

(* The end of a control verb that failed.                                   *)
LEMMA MoreOverRefusal ==
    ASSUME NEW s, NEW t, NEW i \in DOMAIN s.calls, Inv(s), Inv(t), More(s),
           ~IsIdle(s), i = s.busy.call, s.busy.stage = "ended", OversRefusal(s, t, i)
    PROVE  More(t)
  <1> DEFINE c == s.calls[i]
             l == s.ledger
             m == s.busy
  <1>1. /\ IsOver(s, t, i) /\ IsEnding(s, t, c.kind \in SavepointVerbs) /\ c.pc # "left"
        /\ ~Statement(c.kind) /\ m.failed /\ t.ledger = l
        /\ \A j \in DOMAIN s.calls : j # i => t.calls[j].told = s.calls[j].told
    BY DEF OversRefusal, IsPassed
  <1>2. /\ c.kind \in CallKinds /\ ~m.open /\ s.pending = "none"
        /\ m.verb = (IF c.pc = "dropping" THEN "release" ELSE VerbOfKind(c.kind))
        /\ c.pc = "dropping" => c.kind = "rollbackTo"
        /\ s.ending # "committed"
        /\ s.conn.in /\ s.ending = "none" /\ m.verb # "rollback" =>
              c.pc = "dropping" \/ s.conn.log = After(l, m, c.pc)
        /\ ~s.dead => m.verb # "rollback"
        /\ ~s.dead /\ m.verb = "commit" => s.conn.in
        /\ s.conn.in => ~s.dead
    <2>1. s.conn.in => ~s.dead
      BY DEF Inv, Connection
    <2> QED BY <1>1, <2>1, Ending
  <1>3. /\ c.kind \notin SavepointVerbs => c.kind \in {"commit", "rollback"} /\ m.verb = c.kind
        /\ c.kind \in SavepointVerbs => m.verb # "commit"
    BY <1>1, <1>2 DEF SavepointVerbs, Statement, CallKinds, VerbOfKind
  <1>4. t.ending # "committed" /\ (t.ending = "none" \/ t.cut \/ t.done)
    <2>1. s.ending # "none" => s.cut \/ s.done \/ s.pc \in {"publishing", "released"}
      BY DEF More, Within
    <2>2. s.pc \notin {"publishing", "released"}
      BY DEF Inv, Stages
    <2> QED BY <1>1, <1>2, <2>1, <2>2 DEF IsEnding
  <1>5. t.ending = "none" => s.ending = "none" /\ c.kind \notin SavepointVerbs
    BY <1>1 DEF IsEnding
  <1>6. t.ending = "none" => (~s.dead => s.conn.in)
    BY <1>2, <1>3, <1>5
  <1>7. t.ending = "none" /\ s.conn.in => Concluded(s.conn.log, s.pending) = t.ledger
    <2> SUFFICES ASSUME t.ending = "none", s.conn.in
                 PROVE  Concluded(s.conn.log, "none") = l
      BY <1>1, <1>2
    <2>1. s.conn.log = After(l, m, c.pc)
      BY <1>2, <1>3, <1>5 DEF SavepointVerbs
    <2> QED BY <1>1, <1>2, <2>1 DEF After, Base, Concluded
  <1> QED BY <1>1, <1>4, <1>5, <1>6, <1>7, MoreOver

(* The transaction ended between the two halves of a rollback to a          *)
(* savepoint.                                                               *)
LEMMA MoreOverHalf ==
    ASSUME NEW s, NEW t, NEW i \in DOMAIN s.calls, Inv(s), Inv(t), More(s),
           ~IsIdle(s), i = s.busy.call, s.busy.stage = "ended", OversHalf(s, t, i)
    PROVE  More(t)
  <1>1. /\ IsOver(s, t, i) /\ IsEnding(s, t, FALSE) /\ s.ending # "none"
        /\ s.calls[i].kind = "rollbackTo" /\ s.calls[i].pc = "running"
        /\ \A j \in DOMAIN s.calls : j # i => t.calls[j].told = s.calls[j].told
    BY DEF OversHalf, IsPassed
  <1>2. s.ending # "committed" /\ s.busy.verb = "rollbackTo"
    BY <1>1, Ending DEF VerbOfKind
  <1>3. t.ending # "committed" /\ t.ending # "none" /\ (t.cut \/ t.done)
    <2>1. s.ending # "none" => s.cut \/ s.done \/ s.pc \in {"publishing", "released"}
      BY DEF More, Within
    <2>2. s.pc \notin {"publishing", "released"}
      BY DEF Inv, Stages
    <2> QED BY <1>1, <1>2, <2>1, <2>2 DEF IsEnding
  <1> QED BY <1>1, <1>2, <1>3, MoreOver

(* The end of a savepoint verb.                                             *)
LEMMA MoreOverControl ==
    ASSUME NEW s, NEW t, NEW i \in DOMAIN s.calls, Inv(s), Inv(t), More(s),
           ~IsIdle(s), i = s.busy.call, s.busy.stage = "ended", OversControl(s, t, i)
    PROVE  More(t)
  <1> DEFINE c == s.calls[i]
             l == s.ledger
             m == s.busy
  <1>1. /\ IsOver(s, t, i) /\ IsEnding(s, t, FALSE) /\ c.pc # "left" /\ ~m.failed
        /\ c.kind \in SavepointVerbs /\ ~Drops(s, c) /\ t.ledger = Account(l, c, i)
        /\ \A j \in DOMAIN s.calls : j # i => t.calls[j].told = s.calls[j].told
    BY DEF OversControl, IsPassed
  <1>2. /\ c \in Call /\ ~m.open /\ s.pending = "none" /\ VerbOf(c) = VerbOfKind(c.kind)
        /\ m.verb = (IF c.pc = "dropping" THEN "release" ELSE VerbOfKind(c.kind))
        /\ c.pc = "dropping" => c.kind = "rollbackTo" /\ ~c.keep
        /\ c.pc \in {"running", "dropping"}
        /\ s.ending # "committed" /\ m.name = c.name
        /\ m.verb \notin {"commit", "rollback", "write", "read"}
        /\ s.conn.in /\ (s.ending = "none" => s.conn.log = After(l, m, c.pc))
    <2>1. /\ ~Statement(c.kind) /\ c.kind \in {"savepoint", "release", "rollbackTo"}
          /\ VerbOfKind(c.kind) = c.kind
      BY <1>1 DEF SavepointVerbs, Statement, VerbOfKind
    <2>2. m.verb \notin {"commit", "rollback", "write", "read"}
      BY <2>1, Ending
    <2>3. c.pc \in {"running", "dropping"}
      <3>1. (Working(c) \/ c.pc = "left") /\ c.pc # "delivering" /\ c.pc # "stopping"
        BY <2>1, <2>2, Ending
      <3> QED BY <1>1, <3>1 DEF Working
    <2> QED BY <1>1, <2>1, <2>2, <2>3, Ending
  <1>4. t.ending # "committed" /\ (t.ending = "none" \/ t.cut \/ t.done)
    <2>1. s.ending # "none" => s.cut \/ s.done \/ s.pc \in {"publishing", "released"}
      BY DEF More, Within
    <2>2. s.pc \notin {"publishing", "released"}
      BY DEF Inv, Stages
    <2> QED BY <1>1, <1>2, <2>1, <2>2 DEF IsEnding
  <1>5. t.ending = "none" => s.ending = "none"
    BY <1>1 DEF IsEnding
  <1>6. t.ending = "none" => Concluded(s.conn.log, s.pending) = t.ledger
    <2> SUFFICES ASSUME t.ending = "none"
                 PROVE  s.conn.log = Account(l, c, i)
      BY <1>1, <1>2 DEF Concluded
    <2>1. s.conn.log = After(l, m, c.pc)
      BY <1>2, <1>5
    <2>2. CASE c.kind = "savepoint"
      BY <1>1, <1>2, <2>1, <2>2 DEF After, Account, VerbOfKind
    <2>3. CASE c.kind = "release"
      BY <1>1, <1>2, <2>1, <2>3 DEF After, Account, VerbOfKind
    <2>4. CASE c.kind = "rollbackTo" /\ c.pc = "running"
      <3>1. c.keep
        BY <1>1, <2>4 DEF Drops
      <3> QED BY <1>1, <1>2, <2>1, <2>4, <3>1 DEF After, Account, VerbOfKind
    <2>5. CASE c.kind = "rollbackTo" /\ c.pc = "dropping"
      BY <1>1, <1>2, <2>1, <2>5 DEF After, Account, VerbOfKind
    <2> QED BY <1>1, <1>2, <2>2, <2>3, <2>4, <2>5 DEF SavepointVerbs
  <1> QED BY <1>1, <1>2, <1>4, <1>5, <1>6, MoreOver

(* The callback concludes the transaction itself.                           *)
LEMMA MoreOverEnding ==
    ASSUME NEW s, NEW t, NEW i \in DOMAIN s.calls, Inv(s), Inv(t), More(s),
           ~IsIdle(s), i = s.busy.call, s.busy.stage = "ended", OversEnding(s, t, i)
    PROVE  More(t)
  <1>1. /\ IsOver(s, t, i) /\ ~s.busy.failed /\ t.done /\ t.ledger = s.ledger
        /\ s.calls[i].kind \in {"commit", "rollback"}
        /\ t.ending = IF s.calls[i].kind = "commit" THEN "committed"
                      ELSE IF s.ending = "none" THEN "rolled-back" ELSE s.ending
        /\ \A j \in DOMAIN s.calls : j # i => t.calls[j].told = s.calls[j].told
    BY DEF OversEnding, IsPassed
  <1>2. s.ending # "committed" /\ s.busy.verb = s.calls[i].kind
    BY <1>1, Ending DEF VerbOfKind
  <1> QED BY <1>1, <1>2, MoreOver

(* A rollback to a savepoint goes on to release it. *)
LEMMA MoreGoesOn ==
    ASSUME NEW s, NEW t, NEW i \in DOMAIN s.calls, Inv(s), Inv(t), More(s),
           ~IsIdle(s), i = s.busy.call, s.busy.stage = "ended", GoesOn(s, t, i)
    PROVE  More(t)
  <1>1. Owed(s) /\ Within(s) /\ Promises(s) /\ Journal(s) /\ File(s) /\ "explicit" \notin s.sc.faults
    BY DEF More
  <1>2. /\ DOMAIN s.calls = 1 .. Len(s.calls) /\ Len(s.calls) \in Nat
        /\ DOMAIN t.calls = 1 .. Len(t.calls) /\ Len(t.calls) \in Nat
        /\ s \in States /\ t \in States
        /\ TypeInv(s) /\ TypeInv(t)
    BY CallRange DEF Inv
  <1>r. /\ ~IsIdle(s) /\ s.busy.call # 0 => s.busy.call \in DOMAIN s.calls
        /\ ~IsIdle(t) /\ t.busy.call # 0 => t.busy.call \in DOMAIN t.calls
    BY <1>2, SMTT(30) DEF TypeInv, OwnFlight, Bounds, Nobody
  <1>a. /\ s.pending = "none" /\ s.conn.in /\ s.begun /\ ~s.done /\ s.ending = "none"
        /\ s.calls[i].told = "nothing" /\ ~s.dead
        /\ s.conn.log = RolledBackTo(s.ledger, s.calls[i].name)
    <2>1. /\ s.calls[i].kind = "rollbackTo" /\ s.calls[i].pc = "running" /\ ~s.busy.failed
          /\ s.ending = "none"
      BY DEF GoesOn
    <2>2. s.busy.verb = "rollbackTo" /\ ~s.busy.open /\ s.busy.name = s.calls[i].name
      BY <2>1, Ending DEF VerbOfKind, Statement
    <2>3. s.conn.in /\ ~s.dead
      <3>1. s.conn.in
        BY <2>1, <2>2, Ending
      <3> QED BY <3>1 DEF Inv, Connection
    <2>4. s.conn.log = After(s.ledger, s.busy, "running")
      BY <2>1, <2>2, <2>3, Ending
    <2>5. s.conn.log = RolledBackTo(s.ledger, s.calls[i].name)
      BY <2>1, <2>2, <2>4 DEF After
    <2> QED BY <2>1, <2>2, <2>3, <2>5, Ending
  <1>b. Part(t) = "dropping" /\ ~IsIdle(t) /\ i # 0
    BY <1>2 DEF GoesOn, Part, Stepped
  <1>3. Owed(t)
    BY <1>1, <1>2, <1>r, <1>a, <1>b DEF GoesOn, SameSc, SamePc, SameEnding, SameBook, SameLine, SameBusy, SameData, Owed, Part, IsIdle, SameQuery, Stepped
  <1>4. Within(t)
    BY <1>1, <1>2, <1>r, <1>a, <1>b DEF GoesOn, SameSc, SamePc, SameEnding, SameBook, SameLine, SameBusy, SameData, Within, IsIdle, SameQuery, Stepped
  <1>5. Promises(t)
    <2>1. \A j \in DOMAIN t.calls :
          /\ t.calls[j].pc \in {"fresh", "waiting", "asking", "running", "stopping", "dropping"}
                => t.calls[j].told = "nothing"
          /\ t.calls[j].pc = "delivering" => t.calls[j].told = "ok"
          /\ t.calls[j].own \/ t.calls[j].pc = "stopping" => Statement(t.calls[j].kind)
      BY <1>1, <1>2, <1>r, <1>a, <1>b DEF GoesOn, SameSc, SamePc, SameEnding, SameBook, SameLine, SameBusy, SameData, Promises, Part, Kin, IsIdle, SameQuery, Stepped
    <2>2. ~IsIdle(t) /\ t.busy.call # 0 =>
          /\ Part(t) = "delivering" => t.busy.stage \in {"delivering", "ended"} /\ t.busy.verb = "write"
          /\ t.busy.stage = "delivering" => Part(t) = "delivering"
          /\ t.busy.verb = "write" /\ t.readOnly => t.busy.stage = "posted" \/ t.busy.failed
      BY <1>1, <1>2, <1>r, <1>a, <1>b DEF GoesOn, SameSc, SamePc, SameEnding, SameBook, SameLine, SameBusy, SameData, Promises, Part, Kin, IsIdle, SameQuery, Stepped
    <2>3. ~IsIdle(t) /\ t.busy.call # 0 /\ t.busy.verb = "write" /\ ~t.readOnly =>
                /\ Part(t) # "stopping"
                /\ Part(t) = "running" /\ t.calls[t.busy.call].own => t.busy.open
                /\ Part(t) = "running" /\ t.busy.stop => t.ending # "none"
      BY <1>1, <1>2, <1>r, <1>a, <1>b DEF GoesOn, SameSc, SamePc, SameEnding, SameBook, SameLine, SameBusy, SameData, Promises, Part, Kin, IsIdle, SameQuery, Stepped
    <2> QED BY <2>1, <2>2, <2>3 DEF Promises
  <1>6. Journal(t)
    <2>1. Agrees(t.conn.log, t.ledger, t.busy, Part(t))
      BY <1>a, <1>b DEF GoesOn, SameData, Agrees
    <2> QED BY <1>b, <2>1 DEF Journal
  <1>7. File(t)
    <2>1. Committing(t) <=> Committing(s)
      <3>1. s.calls[i].kind = "rollbackTo" /\ s.calls[i].pc = "running"
        BY DEF GoesOn
      <3>2. s.busy.verb = "rollbackTo"
        BY <3>1, Ending DEF VerbOfKind
      <3> QED BY <3>2 DEF GoesOn, Committing
    <2> QED BY <1>1, <2>1, FileStays DEF GoesOn, SameData, SamePc, SameEnding
  <1>8. "explicit" \notin t.sc.faults
    BY <1>1 DEF GoesOn, SameSc, SamePc, SameEnding, SameBook, SameLine, SameBusy, SameData
  <1> QED BY <1>3, <1>4, <1>5, <1>6, <1>7, <1>8 DEF More

(* A write in the account.                                                  *)
LEMMA AccountOfWrite ==
    ASSUME NEW l, NEW c, NEW i, VerbOf(c) = "write", c.kind = "gen"
    PROVE  Account(l, c, i) = Append(l, Effect(i))
  BY DEF Account

(* What the account gains when a generator's write is counted.              *)
LEMMA DeliversIs ==
    ASSUME NEW s, NEW t, Inv(s), ~IsIdle(s), s.busy.call \in DOMAIN s.calls, Delivers(s, t)
    PROVE  LET i == s.busy.call IN
           /\ t \in States
           /\ SameSc(s, t) /\ SamePc(s, t) /\ SameEnding(s, t) /\ SameBook(s, t)
           /\ t.pending = s.pending /\ t.dead = s.dead /\ t.conn = s.conn /\ t.db = s.db
           /\ t.ledger = Append(s.ledger, Effect(i))
           /\ ~IsIdle(t) /\ SameQuery(t.busy, s.busy)
           /\ t.busy.stop = s.busy.stop /\ t.busy.stage = "delivering"
           /\ DOMAIN t.calls = DOMAIN s.calls
           /\ \A j \in DOMAIN s.calls :
                 /\ Kin(t.calls[j], s.calls[j])
                 /\ t.calls[j].pc = IF j = i THEN "delivering" ELSE s.calls[j].pc
                 /\ t.calls[j].told = IF j = i /\ s.calls[j].told = "nothing" THEN "ok"
                                      ELSE s.calls[j].told
           /\ s.calls[i].pc = "running" /\ s.busy.stage = "affected" /\ ~s.busy.stop
  <1> DEFINE i == s.busy.call
  <1>1. PICK a \in States, b \in States, d \in States :
          /\ IsWorked(s, a, s.conn, s.db, "delivering", s.busy.failed)
          /\ IsMoved(a, b, i, "delivering")
          /\ IsTold(b, d, i, "ok")
          /\ IsRecorded(d, t, i)
    BY DEF Delivers
  <1>2. s.busy.stage = "affected" /\ s.calls[i].pc = "running" /\ ~s.busy.stop
    BY DEF Delivers
  <1>3. /\ t \in States
        /\ SameSc(s, t) /\ SamePc(s, t) /\ SameEnding(s, t) /\ SameBook(s, t)
        /\ t.pending = s.pending /\ t.dead = s.dead /\ t.conn = s.conn /\ t.db = s.db
    BY <1>1 DEF IsWorked, IsMoved, IsTold, IsRecorded, SameSc, SamePc, SameEnding, SameBook,
                SameBusy, SameData
  <1>4. t.busy = a.busy /\ d.ledger = s.ledger
    BY <1>1 DEF IsWorked, IsMoved, IsTold, IsRecorded, SameBusy, SameData
  <1>5. ~IsIdle(t) /\ SameQuery(t.busy, s.busy) /\ t.busy.stop = s.busy.stop
        /\ t.busy.stage = "delivering"
    <2>1. ~IsIdle(a) /\ SameQuery(a.busy, s.busy) /\ a.busy.stop = s.busy.stop
          /\ a.busy.stage = "delivering"
      BY <1>1 DEF IsWorked, SameQuery
    <2> QED BY <1>4, <2>1 DEF IsIdle
  <1>6. a.calls = s.calls
    BY <1>1 DEF IsWorked, SameLine
  <1>7. t.calls = d.calls
    BY <1>1 DEF IsRecorded, SameLine
  <1>8. DOMAIN t.calls = DOMAIN s.calls
        /\ \A j \in DOMAIN s.calls :
              /\ Kin(t.calls[j], s.calls[j])
              /\ t.calls[j].pc = IF j = i THEN "delivering" ELSE s.calls[j].pc
              /\ t.calls[j].told = IF j = i /\ s.calls[j].told = "nothing" THEN "ok"
                                   ELSE s.calls[j].told
    BY <1>1, <1>6, <1>7 DEF IsMoved, IsTold, Kin
  <1>9. t.ledger = Append(s.ledger, Effect(i))
    <2>1. t.ledger = Account(s.ledger, d.calls[i], i)
      BY <1>1, <1>4 DEF IsRecorded
    <2>2. d.calls[i].kind = "gen" /\ d.calls[i] \in Call
      <3>1. s.calls[i].kind = "gen"
        BY <1>2, CallRange DEF Inv, Carries
      <3> QED BY <1>1, <1>7, <1>8, <3>1, CallsAre DEF Kin, IsTold
    <2>3. VerbOf(d.calls[i]) = "write"
      BY <2>2, VerbIs DEF VerbOfKind
    <2> QED BY <2>1, <2>2, <2>3, AccountOfWrite
  <1> QED BY <1>2, <1>3, <1>5, <1>8, <1>9

(* The rows of a generator are delivered, and its write is in the account. *)
LEMMA MoreDelivers ==
    ASSUME NEW s, NEW t, Inv(s), Inv(t), More(s),
           ~IsIdle(s), s.busy.call \in DOMAIN s.calls, Delivers(s, t)
    PROVE  More(t)
  <1>1. Owed(s) /\ Within(s) /\ Promises(s) /\ Journal(s) /\ File(s) /\ "explicit" \notin s.sc.faults
    BY DEF More
  <1>2. /\ DOMAIN s.calls = 1 .. Len(s.calls) /\ Len(s.calls) \in Nat
        /\ DOMAIN t.calls = 1 .. Len(t.calls) /\ Len(t.calls) \in Nat
        /\ s \in States /\ t \in States
        /\ TypeInv(s) /\ TypeInv(t)
    BY CallRange DEF Inv
  <1>r. /\ ~IsIdle(s) /\ s.busy.call # 0 => s.busy.call \in DOMAIN s.calls
        /\ ~IsIdle(t) /\ t.busy.call # 0 => t.busy.call \in DOMAIN t.calls
    BY <1>2, SMTT(30) DEF TypeInv, OwnFlight, Bounds, Nobody
  <1> DEFINE i == s.busy.call
             m == s.busy
  <1>a. /\ t \in States
        /\ SameSc(s, t) /\ SamePc(s, t) /\ SameEnding(s, t)
        /\ t.pending = s.pending /\ t.dead = s.dead /\ t.conn = s.conn /\ t.db = s.db
        /\ t.ledger = Append(s.ledger, Effect(i))
        /\ ~IsIdle(t) /\ SameQuery(t.busy, m)
        /\ t.busy.stop = m.stop /\ t.busy.stage = "delivering"
        /\ DOMAIN t.calls = DOMAIN s.calls
        /\ s.calls[i].pc = "running" /\ m.stage = "affected" /\ ~m.stop
    BY DeliversIs
  <1>b. \A j \in DOMAIN s.calls :
              /\ Kin(t.calls[j], s.calls[j])
              /\ t.calls[j].pc = IF j = i THEN "delivering" ELSE s.calls[j].pc
              /\ t.calls[j].told = IF j = i /\ s.calls[j].told = "nothing" THEN "ok"
                                   ELSE s.calls[j].told
    BY DeliversIs
  <1>c. /\ i # 0 /\ Part(s) = "running" /\ Part(t) = "delivering" /\ t.busy.call = i
        /\ t.busy.open = m.open /\ t.busy.verb = m.verb /\ ~t.busy.failed
    <2>1. i # 0 /\ ~m.failed
      BY <1>2, <1>a DEF Inv, Connection
    <2> QED BY <1>a, <1>b, <2>1 DEF Part, SameQuery
  <1>d. m.verb = "write" /\ s.begun /\ s.ending # "committed" /\ ~m.failed
        /\ (m.verb = "begin" \/ ~s.begun => m.call = 0)
    <2>1. m.verb = "write" /\ s.ending # "committed"
      BY <1>a, InFlight
    <2>2. s.begun
      BY <1>c, InFlight
    <2>3. ~m.failed
      BY <1>a DEF Inv, Connection
    <2> QED BY <1>c, <2>1, <2>2, <2>3
  <1>3. Owed(t)
    BY <1>1, <1>a, <1>c DEF Owed, SameQuery
  <1>4. Within(t)
    BY <1>1, <1>a, <1>c, <1>d DEF Within, SameQuery, SameEnding, SamePc
  <1>5. Promises(t)
    <2>1. \A j \in DOMAIN t.calls :
          /\ t.calls[j].pc \in {"fresh", "waiting", "asking", "running", "stopping", "dropping"}
                => t.calls[j].told = "nothing"
          /\ t.calls[j].pc = "delivering" => t.calls[j].told = "ok"
          /\ t.calls[j].own \/ t.calls[j].pc = "stopping" => Statement(t.calls[j].kind)
      BY <1>1, <1>a, <1>b DEF Promises, Kin
    <2>2. s.busy.verb = "write" /\ s.readOnly => s.busy.stage = "posted" \/ s.busy.failed
      BY <1>1, <1>c DEF Promises
    <2> QED BY <1>a, <1>c, <1>d, <2>1, <2>2 DEF Promises, SameSc
  <1>6. Journal(t)
    <2> SUFFICES ASSUME Live(t)
                 PROVE  Agrees(t.conn.log, t.ledger, t.busy, Part(t))
      BY <1>a DEF Journal
    <2> DEFINE l == s.ledger
               e == Effect(i)
    <2>1. Live(s)
      BY <1>a, <1>c, <1>d DEF Live, SameEnding
    <2>2. s.conn.log = After(l, m, "running")
      BY <1>1, <1>a, <1>c, <2>1 DEF Journal, Agrees
    <2>3. s.conn.log = Append(Base(l, m.open), e)
      BY <1>d, <2>2 DEF After
    <2>4. /\ Front(Append(l, e)) = l /\ Append(l, e) # <<>>
          /\ Append(l, e)[Len(Append(l, e))] = e
      <3>1. l \in Seq(EntriesOf(Len(s.calls))) /\ e \in EntriesOf(Len(s.calls))
        BY <1>2, EntryIs DEF TypeInv, Bounds, Names
      <3> DEFINE S == EntriesOf(Len(s.calls))
      <3>2. l \in Seq(S) /\ e \in S
        BY <3>1
      <3> HIDE DEF l, e, S
      <3>3. \A f \in S : Front(Append(l, f)) = l /\ Append(l, f) # <<>>
                         /\ Append(l, f)[Len(Append(l, f))] = f
        BY <3>2, FrontIs
      <3> QED BY <3>2, <3>3
    <2>5. t.busy.call = m.call /\ t.ledger = Append(l, e)
      BY <1>a, <1>c
    <2>6. After(t.ledger, t.busy, "delivering") = Append(Base(l, m.open), e)
      BY <1>c, <1>d, <2>4, <2>5 DEF After
    <2> QED BY <1>a, <1>c, <2>3, <2>4, <2>5, <2>6 DEF Agrees
  <1>7. File(t)
    <2>1. ~Committing(t) /\ ~Committing(s)
      BY <1>a, <1>c, <1>d DEF Committing
    <2> QED BY <1>1, <1>a, <1>d, <2>1 DEF File, SamePc, SameEnding
  <1>8. "explicit" \notin t.sc.faults
    BY <1>1, <1>a DEF SameSc, SamePc, SameEnding, SameBook, SameLine, SameBusy, SameData
  <1> QED BY <1>3, <1>4, <1>5, <1>6, <1>7, <1>8 DEF More

(* The reply to a call's query.                                             *)
LEMMA MoreHears ==
    ASSUME NEW s, NEW t, Inv(s), Inv(t), More(s), Hears(s, t)
    PROVE  More(t)
  BY MoreOverLeft, MoreOverStatement, MoreOverRefusal, MoreOverHalf, MoreGoesOn, MoreOverControl,
     MoreOverEnding DEF Hears

(* The transaction goes on to p. *)
LEMMA MoreAt ==
    ASSUME NEW s, NEW t, NEW p, Inv(s), Inv(t), More(s),
           IsAt(s, t, p), s.pc \notin Own,
           t.begun = s.begun, t.ending = s.ending,
           s.pc \in {"publishing", "released"} => p \in {"publishing", "released"}
    PROVE  More(t)
  <1>1. Owed(s) /\ Within(s) /\ Promises(s) /\ Journal(s) /\ File(s) /\ "explicit" \notin s.sc.faults
    BY DEF More
  <1>2. /\ DOMAIN s.calls = 1 .. Len(s.calls) /\ Len(s.calls) \in Nat
        /\ DOMAIN t.calls = 1 .. Len(t.calls) /\ Len(t.calls) \in Nat
        /\ s \in States /\ t \in States
        /\ TypeInv(s) /\ TypeInv(t)
    BY CallRange DEF Inv
  <1>r. /\ ~IsIdle(s) /\ s.busy.call # 0 => s.busy.call \in DOMAIN s.calls
        /\ ~IsIdle(t) /\ t.busy.call # 0 => t.busy.call \in DOMAIN t.calls
    BY <1>2, SMTT(30) DEF TypeInv, OwnFlight, Bounds, Nobody
  <1>a. /\ t.busy = s.busy /\ t.calls = s.calls /\ (IsIdle(t) <=> IsIdle(s)) /\ Part(t) = Part(s)
    BY DEF IsAt, SameBusy, SameLine, IsIdle, Part
  <1>3. Owed(t)
    BY <1>1, <1>2, <1>r, <1>a DEF IsAt, SameSc, SamePc, SameEnding, SameBook, SameLine, SameBusy, SameData, Owed, Part, IsIdle, SameQuery, Stepped
  <1>4. Within(t)
    BY <1>1, <1>2, <1>r, <1>a DEF IsAt, SameSc, SamePc, SameEnding, SameBook, SameLine, SameBusy, SameData, Within, IsIdle, SameQuery, Stepped
  <1>5. Promises(t)
    <2>1. \A j \in DOMAIN t.calls :
          /\ t.calls[j].pc \in {"fresh", "waiting", "asking", "running", "stopping", "dropping"}
                => t.calls[j].told = "nothing"
          /\ t.calls[j].pc = "delivering" => t.calls[j].told = "ok"
          /\ t.calls[j].own \/ t.calls[j].pc = "stopping" => Statement(t.calls[j].kind)
      BY <1>1, <1>2, <1>r, <1>a DEF IsAt, SameSc, SamePc, SameEnding, SameBook, SameLine, SameBusy, SameData, Promises, Part, Kin, IsIdle, SameQuery, Stepped
    <2>2. ~IsIdle(t) /\ t.busy.call # 0 =>
          /\ Part(t) = "delivering" => t.busy.stage \in {"delivering", "ended"} /\ t.busy.verb = "write"
          /\ t.busy.stage = "delivering" => Part(t) = "delivering"
          /\ t.busy.verb = "write" /\ t.readOnly => t.busy.stage = "posted" \/ t.busy.failed
      BY <1>1, <1>2, <1>r, <1>a DEF IsAt, SameSc, SamePc, SameEnding, SameBook, SameLine, SameBusy, SameData, Promises, Part, Kin, IsIdle, SameQuery, Stepped
    <2>3. ~IsIdle(t) /\ t.busy.call # 0 /\ t.busy.verb = "write" /\ ~t.readOnly =>
                /\ Part(t) # "stopping"
                /\ Part(t) = "running" /\ t.calls[t.busy.call].own => t.busy.open
                /\ Part(t) = "running" /\ t.busy.stop => t.ending # "none"
      BY <1>1, <1>2, <1>r, <1>a DEF IsAt, SameSc, SamePc, SameEnding, SameBook, SameLine, SameBusy, SameData, Promises, Part, Kin, IsIdle, SameQuery, Stepped
    <2> QED BY <2>1, <2>2, <2>3 DEF Promises
  <1>6. Journal(t)
    <2>1. Live(t) => Live(s)
      BY <1>1, <1>2, <1>r, <1>a DEF IsAt, SameSc, SamePc, SameEnding, SameBook, SameLine, SameBusy, SameData, Live, IsIdle, SameQuery
    <2>2. ~IsIdle(s) =>
               /\ SameQuery(t.busy, s.busy)
               /\ t.busy.stage = "posted" <=> s.busy.stage = "posted"
               /\ Part(t) = "delivering" <=> Part(s) = "delivering"
               /\ Part(t) = "dropping" <=> Part(s) = "dropping"
      BY <1>1, <1>2, <1>r, <1>a DEF IsAt, SameSc, SamePc, SameEnding, SameBook, SameLine, SameBusy, SameData, SameQuery, Part, IsIdle, Stepped
    <2>3. /\ t.conn = s.conn /\ t.ledger = s.ledger
          /\ IsIdle(t) <=> IsIdle(s)
          /\ IsIdle(s) => t.pending = s.pending
      BY <1>1, <1>2, <1>r, <1>a DEF IsAt, SameSc, SamePc, SameEnding, SameBook, SameLine, SameBusy, SameData, IsIdle
    <2> QED BY <1>1, <2>1, <2>2, <2>3, JournalStays
  <1>7. File(t)
    <2>1. Committing(t) <=> Committing(s)
      BY <1>1, <1>2, <1>r, <1>a DEF IsAt, SameSc, SamePc, SameEnding, SameBook, SameLine, SameBusy, SameData, Committing, IsIdle, SameQuery
    <2>2. /\ t.db = s.db /\ t.ledger = s.ledger /\ t.conn = s.conn
          /\ ~t.begun => ~s.begun
          /\ s.dead => t.dead
          /\ s.done => t.done
          /\ t.ending = "committed" <=> s.ending = "committed"
      BY <1>1, <1>2, <1>r, <1>a DEF IsAt, SameSc, SamePc, SameEnding, SameBook, SameLine, SameBusy, SameData
    <2> QED BY <1>1, <2>1, <2>2, FileStays
  <1>8. "explicit" \notin t.sc.faults
    BY <1>1 DEF IsAt, SameSc, SamePc, SameEnding, SameBook, SameLine, SameBusy, SameData
  <1> QED BY <1>3, <1>4, <1>5, <1>6, <1>7, <1>8 DEF More

(* The transaction fails.                                                   *)
LEMMA MoreFailsOn ==
    ASSUME NEW s, NEW t, Inv(s), Inv(t), More(s), Fails_(s, t), s.pc \in {"callback", "ready"}
    PROVE  More(t)
  <1>1. PICK r \in States :
           /\ Dies(s, r)
           /\ t \in States
           /\ SameSc(r, t) /\ SameEnding(r, t) /\ SameLine(r, t) /\ SameBusy(r, t) /\ SameData(r, t)
           /\ t.begun = r.begun /\ t.done = r.done /\ t.poisoned = r.poisoned /\ t.stack = r.stack
           /\ t.pc = "unwinding"
    BY DEF Fails_
  <1>2. Inv(r) /\ More(r)
    BY <1>1, InvDies, MoreDies
  <1>3. r.pc = s.pc /\ r.pc \notin Own
    BY <1>1 DEF Dies, IsCut, SamePc, Own
  <1>4. IsAt(r, t, "unwinding") /\ t.ending = r.ending
    BY <1>1 DEF IsAt, SameEnding
  <1>5. r.pc \notin {"publishing", "released"} /\ t.begun = r.begun
    BY <1>1, <1>3
  <1> QED BY <1>2, <1>3, <1>4, <1>5, MoreAt

(* A query of the transaction's own is over.                                *)
LEMMA MoreOwnOver ==
    ASSUME NEW s, NEW t, Inv(s), Inv(t), More(s), ~IsIdle(s), s.busy.call = 0,
           s.busy.stage = "ended", OwnOver(s, t),
           t.ending = "none" \/ t.cut \/ t.done,
           t.ending = "committed" <=> s.busy.verb = "commit" /\ ~s.busy.failed,
           t.ending = "committed" => t.done,
           t.ending = "none" => s.conn.in /\ t.begun /\ s.ledger = <<>> /\ s.conn.log = <<>>,
           s.pending = "none",
           ~t.begun => ~s.begun
    PROVE  More(t)
  <1>1. Owed(s) /\ Within(s) /\ Promises(s) /\ Journal(s) /\ File(s) /\ "explicit" \notin s.sc.faults
    BY DEF More
  <1>2. /\ IsIdle(t) /\ t.dead = s.dead /\ t.conn = s.conn /\ t.db = s.db /\ t.ledger = s.ledger
        /\ t.pending = s.pending /\ t.sc = s.sc /\ t.calls = s.calls
    BY DEF OwnOver, SameSc, SameLine, SameData
  <1>3. /\ ~s.done /\ s.ending # "committed"
        /\ (s.busy.verb = "commit" /\ ~s.busy.failed) <=> Committing(s)
    BY InFlight DEF Committing
  <1>4. Owed(t)
    BY <1>2 DEF Owed
  <1>5. Within(t)
    BY <1>2 DEF Within
  <1>6. Promises(t)
    BY <1>1, <1>2 DEF Promises
  <1>7. Journal(t)
    BY <1>2 DEF Journal, Live, Concluded
  <1>8. File(t)
    <2>1. ~Committing(t)
      BY <1>2 DEF Committing
    <2> QED BY <1>1, <1>2, <1>3, <2>1 DEF File
  <1> QED BY <1>1, <1>2, <1>4, <1>5, <1>6, <1>7, <1>8 DEF More

(* The reply to BEGIN.                                                      *)
LEMMA MoreOversBegin ==
    ASSUME NEW s, NEW t, Inv(s), Inv(t), More(s), ~IsIdle(s), s.busy.call = 0,
           s.busy.stage = "ended", OversBegin(s, t)
    PROVE  More(t)
  <1>1. Owed(s) /\ Within(s) /\ Journal(s) /\ Carries(s) /\ Stages(s)
    BY DEF More, Inv
  <1>2. /\ s.busy.verb = "begin" /\ OwnOver(s, t) /\ s.pc = "begin" /\ ~s.begun /\ ~s.busy.open
        /\ s.pending = "none" /\ s.ledger = <<>> /\ ~s.done /\ s.ending # "committed"
    BY <1>1, InFlight DEF OversBegin, Carries, Stages, Owed
  <1>3. s.ending = "none" \/ s.cut
    BY <1>1, <1>2 DEF Within
  <1>4. t.ending = "none" => s.ending = "none" /\ ~s.busy.failed /\ t.begun
    BY DEF OversBegin, Unwinding, SameEnding
  <1>5. t.ending = "none" \/ t.cut
    BY <1>3 DEF OversBegin, Unwinding, SameEnding
  <1>6. t.ending # "committed"
    BY <1>2 DEF OversBegin, Unwinding, SameEnding
  <1>7. t.ending = "none" => s.conn.in /\ s.conn.log = <<>>
    <2> SUFFICES ASSUME t.ending = "none"
                 PROVE  s.conn.in /\ s.conn.log = <<>>
      OBVIOUS
    <2>1. s.conn.in
      BY <1>1, <1>2, <1>4 DEF Within
    <2>2. s.conn.log = After(s.ledger, s.busy, Part(s)) /\ Part(s) = "none"
      BY <1>1, <1>2, <1>4, <2>1 DEF Journal, Live, Agrees, Part
    <2> QED BY <1>2, <2>1, <2>2 DEF After, Base
  <1> QED BY <1>2, <1>4, <1>5, <1>6, <1>7, MoreOwnOver

(* The reply to the COMMIT or ROLLBACK that ends it.                        *)
LEMMA MoreOversConclusion ==
    ASSUME NEW s, NEW t, Inv(s), Inv(t), More(s), ~IsIdle(s), s.busy.call = 0,
           s.busy.stage = "ended", OversConclusion(s, t)
    PROVE  More(t)
  <1>1. Owed(s) /\ Within(s) /\ Carries(s) /\ Stages(s)
    BY DEF More, Inv
  <1>2. /\ OwnOver(s, t) /\ s.pc = "concluding" /\ ~s.busy.open
        /\ s.pending = "none" /\ ~s.done /\ s.ending # "committed" /\ (t.begun <=> s.begun)
    BY <1>1, InFlight DEF OversConclusion, Carries, Stages, Owed
  <1>3. s.ending = "none" \/ s.cut
    BY <1>1, <1>2 DEF Within
  <1>4. t.ending # "none" /\ (t.cut \/ t.done)
    BY <1>3 DEF OversConclusion, Unwinding
  <1>5. /\ t.ending = "committed" <=> s.busy.verb = "commit" /\ ~s.busy.failed
        /\ t.ending = "committed" => t.done
    BY <1>2 DEF OversConclusion, Unwinding
  <1> QED BY <1>2, <1>4, <1>5, MoreOwnOver

(* The reply to the ROLLBACK after an error.                                *)
LEMMA MoreOversRollback ==
    ASSUME NEW s, NEW t, Inv(s), Inv(t), More(s), ~IsIdle(s), s.busy.call = 0,
           s.busy.stage = "ended", OversRollback(s, t)
    PROVE  More(t)
  <1>1. Owed(s) /\ Within(s) /\ Carries(s) /\ Stages(s)
    BY DEF More, Inv
  <1>2. /\ OwnOver(s, t) /\ s.pc = "rolling" /\ ~s.busy.open /\ s.busy.verb = "rollback"
        /\ s.pending = "none" /\ ~s.done /\ s.ending # "committed" /\ (t.begun <=> s.begun)
        /\ s.ending # "none"
    BY <1>1, InFlight DEF OversRollback, Carries, Stages, Owed
  <1>3. s.cut
    BY <1>1, <1>2 DEF Within
  <1>4. t.ending = s.ending /\ t.cut
    BY <1>2, <1>3 DEF OversRollback
  <1> QED BY <1>2, <1>4, MoreOwnOver

(* A call's query goes out, or its worker is dead.                          *)
LEMMA MoreStarts ==
    ASSUME NEW s, NEW t, NEW i \in DOMAIN s.calls, NEW open \in BOOLEAN, Inv(s), Inv(t), More(s),
           Next_(s, i), Starts(s, t, i, open),
           s.calls[i].own /\ ~s.readOnly /\ VerbOfKind(s.calls[i].kind) = "write" => open
    PROVE  More(t)
  <1>1. IsIdle(s) /\ (Refused(s, t, i) \/ (~s.dead /\ IsRun(s, t, i, open)))
    BY StartsOnce
  <1>2. CASE Refused(s, t, i)
    <2>1. PICK r \in States : (r = s \/ Dies(s, r)) /\ IsSettled(r, t, i, "error")
      BY <1>2 DEF Refused
    <2>2. Inv(r) /\ More(r)
      BY <2>1, InvDies, MoreDies
    <2>3. r.calls = s.calls
      BY <2>1 DEF Dies, IsCut, SameLine
    <2>4. i \in DOMAIN r.calls /\ r.calls[i].pc \in {"waiting", "asking"}
      BY <2>3 DEF Next_
    <2> QED BY <2>1, <2>2, <2>4, MoreGivesUp
  <1>3. CASE ~s.dead /\ IsRun(s, t, i, open)
    <2>1. s.calls[i].pc \in {"waiting", "asking"} /\ s.ending = "none"
      BY DEF Next_
    <2> QED BY <1>1, <1>3, <2>1, MoreRun
  <1> QED BY <1>1, <1>2, <1>3

(* Its turn has come.                                                       *)
LEMMA MoreTakes ==
    ASSUME NEW s, NEW t, NEW i \in DOMAIN s.calls, Inv(s), Inv(t), More(s), Next_(s, i),
           s.calls[i].pc = "waiting", Takes(s, t, i)
    PROVE  More(t)
  <1>1. CASE Asks(s, s.calls[i])
    <2>1. IsMoved(s, t, i, "asking")
      BY <1>1 DEF Takes
    <2> QED BY <2>1, MoreAsking
  <1>2. CASE ~Asks(s, s.calls[i])
    <2> DEFINE open == s.calls[i].own /\ ~s.readOnly /\ s.calls[i].kind = "batch"
    <2>1. Starts(s, t, i, open) /\ open \in BOOLEAN
      BY <1>2 DEF Takes
    <2>2. s.calls[i].own /\ ~s.readOnly /\ VerbOfKind(s.calls[i].kind) = "write" => open
      BY <1>2 DEF Asks, VerbOfKind
    <2> HIDE DEF open
    <2> QED BY <2>1, <2>2, MoreStarts
  <1> QED BY <1>1, <1>2

(* It joins the queue.                                                      *)
LEMMA MoreEnqueues ==
    ASSUME NEW s, NEW t, NEW i \in DOMAIN s.calls, Inv(s), Inv(t), More(s),
           s.calls[i].pc = "fresh", s.ending = "none", s.pc = "callback", Enqueues(s, t, i)
    PROVE  More(t)
  <1>1. PICK r \in States :
           /\ IsPlaced(s, r, i)
           /\ IF s.tail = Nobody /\ s.abandoned = Nobody THEN Takes(r, t, i) ELSE t = r
    BY DEF Enqueues
  <1>2. TypeInv(r)
    BY <1>1, TypePlaced DEF Inv
  <1>3. Inv(r) /\ More(r)
    <2>1. Inv(r)
      BY <1>1, <1>2, InvPlaced
    <2> QED BY <1>1, <2>1, MorePlaced
  <1>4. CASE s.tail = Nobody /\ s.abandoned = Nobody
    <2>1. Takes(r, t, i)
      BY <1>1, <1>4
    <2>2. i \in DOMAIN r.calls /\ Next_(r, i) /\ r.calls[i].pc = "waiting"
      BY <1>1, <1>4 DEF IsPlaced, Next_, SameEnding
    <2> QED BY <1>3, <2>1, <2>2, MoreTakes
  <1>5. CASE ~(s.tail = Nobody /\ s.abandoned = Nobody)
    BY <1>1, <1>3, <1>5
  <1> QED BY <1>4, <1>5

(* A method of the handle is called.                                        *)
LEMMA MoreCalls ==
    ASSUME NEW s, NEW t, Inv(s), Inv(t), More(s), Calls_(s, t)
    PROVE  More(t)
  <1>1. /\ s.begun /\ s.ending = "none" /\ s.pc = "callback"
    BY DEF Calls_, Inv, Steady
  <1>2. PICK c \in Call : Fresh(c) /\ Makes(s, t, c)
    BY DEF Calls_
  <1>3. PICK r \in States :
           /\ IsMade(s, r, c) /\ TypeInv(r)
           /\ IF c.kind = "gen" THEN t = r ELSE Enqueues(r, t, Len(s.calls) + 1)
    BY <1>2 DEF Makes
  <1>4. Inv(r) /\ More(r)
    <2>1. Inv(r)
      BY <1>1, <1>2, <1>3, InvMade
    <2> QED BY <1>1, <1>2, <1>3, <2>1, MoreMade
  <1>5. /\ r.ending = "none" /\ r.pc = "callback" /\ r.calls = Append(s.calls, c)
    BY <1>1, <1>3 DEF IsMade, SameEnding, SamePc
  <1>6. Len(s.calls) + 1 \in DOMAIN r.calls /\ r.calls[Len(s.calls) + 1].pc = "fresh"
    <2>1. s.calls \in Seq(Call) /\ Len(s.calls) \in Nat
      BY CallsAre DEF Inv, TypeInv
    <2>2. c.pc = "fresh"
      BY <1>2 DEF Fresh
    <2> QED BY <1>5, <2>1, <2>2
  <1>7. CASE c.kind = "gen"
    BY <1>3, <1>4, <1>7
  <1>8. CASE c.kind # "gen"
    BY <1>3, <1>4, <1>5, <1>6, <1>8, MoreEnqueues
  <1> QED BY <1>7, <1>8

(* A generator is pulled.                                                   *)
LEMMA MorePulls ==
    ASSUME NEW s, NEW t, NEW i \in DOMAIN s.calls, Inv(s), Inv(t), More(s), Pulls(s, t, i)
    PROVE  More(t)
  <1>1. s.pc = "callback" /\ s.calls[i].pc = "fresh"
    BY DEF Pulls, Inv, Steady
  <1>2. CASE s.ending = "none"
    <2>1. Enqueues(s, t, i)
      BY <1>2 DEF Pulls
    <2> QED BY <1>1, <1>2, <2>1, MoreEnqueues
  <1>3. CASE s.ending # "none"
    <2>1. IsShut(s, t, i)
      BY <1>3 DEF Pulls
    <2> QED BY <1>1, <2>1, MoreShut
  <1> QED BY <1>2, <1>3

(* A call waits, and its wait ends.                                         *)
LEMMA MoreWaits ==
    ASSUME NEW s, NEW t, NEW i \in DOMAIN s.calls, Inv(s), Inv(t), More(s),
           \/ Turns(s, t, i) \/ Rejects(s, t, i) \/ Skips(s, t, i)
           \/ \E open \in BOOLEAN : Answers(s, t, i, open)
    PROVE  More(t)
  <1>1. CASE Turns(s, t, i) /\ s.ending = "none"
    <2>1. Next_(s, i) /\ Takes(s, t, i) /\ s.calls[i].pc = "waiting"
      BY <1>1 DEF Turns, Next_
    <2> QED BY <2>1, MoreTakes
  <1>2. CASE \E v : IsSettled(s, t, i, v) /\ s.calls[i].pc \in {"waiting", "asking"}
    BY <1>2, MoreGivesUp
  <1>3. CASE Turns(s, t, i) /\ s.ending # "none"
    BY <1>2, <1>3 DEF Turns
  <1>4. CASE Rejects(s, t, i)
    BY <1>2, <1>4 DEF Rejects
  <1>5. CASE Skips(s, t, i)
    BY <1>2, <1>5 DEF Skips
  <1>6. CASE \E open \in BOOLEAN : Answers(s, t, i, open)
    <2>1. PICK open \in BOOLEAN : Answers(s, t, i, open)
      BY <1>6
    <2>2. s.calls[i].pc = "asking" /\ ~s.cut /\ Starts(s, t, i, open)
          /\ (s.calls[i].kind # "read" => open)
      BY <2>1 DEF Answers
    <2>3. s.abandoned = Nobody /\ s.ending = "none"
      BY <2>2 DEF Inv, Flight
    <2>4. s.calls[i].prior = Nobody
      BY <2>2, QueueFirst DEF Inv, InLine
    <2>5. VerbOfKind(s.calls[i].kind) = "write" => s.calls[i].kind # "read"
      BY DEF VerbOfKind
    <2>6. Next_(s, i)
      BY <2>2, <2>3, <2>4 DEF Next_
    <2> QED BY <2>2, <2>5, <2>6, MoreStarts
  <1> QED BY <1>1, <1>3, <1>4, <1>5, <1>6

(* The query in flight is the one of the call that runs.                    *)
LEMMA RunningIs ==
    ASSUME NEW s, NEW i \in DOMAIN s.calls, Inv(s), Working(s.calls[i])
    PROVE  ~IsIdle(s) /\ s.busy.call = i /\ i # 0 /\ Part(s) = s.calls[i].pc
  <1>1. ~IsIdle(s) /\ s.busy.call = i /\ i # 0
    BY CallRange DEF Inv, Flight
  <1> QED BY <1>1 DEF Part

(* The signal of one call fires.                                            *)
LEMMA MoreCutsOwn ==
    ASSUME NEW s, NEW t, NEW i \in DOMAIN s.calls, Inv(s), Inv(t), More(s), CutsOwn(s, t, i)
    PROVE  More(t)
  <1>1. CASE s.calls[i].pc \in {"waiting", "asking"} /\ IsSettled(s, t, i, "cut")
    BY <1>1, MoreGivesUp
  <1>2. CASE s.calls[i].pc = "running" /\ s.busy.open /\ IsAbandoned(s, t, i)
    BY <1>2, MoreAbandoned
  <1>3. CASE s.calls[i].pc = "delivering" /\ IsStopped(s, t)
    <2>1. ~IsIdle(s) /\ s.busy.call # 0 /\ Part(s) # "running"
      BY <1>3, RunningIs DEF Working
    <2> QED BY <1>3, <2>1, MoreStopped
  <1>4. CASE /\ s.calls[i].own /\ s.calls[i].pc = "running" /\ ~s.busy.open
             /\ \E r \in States : IsStopped(s, r) /\ IsMoved(r, t, i, "stopping")
    <2>1. PICK r \in States : IsStopped(s, r) /\ IsMoved(r, t, i, "stopping")
      BY <1>4
    <2>2. ~IsIdle(s) /\ s.busy.call = i /\ i # 0 /\ Part(s) = "running"
      BY <1>4, RunningIs DEF Working
    <2>3. s.busy.verb # "write" \/ s.readOnly
      BY <1>4, <2>2 DEF More, Promises
    <2>4. TypeInv(r)
      BY <2>1, <2>2, TypeStopped DEF Inv
    <2>5. Inv(r) /\ More(r)
      <3>1. Inv(r)
        BY <2>1, <2>2, <2>4, InvStopped
      <3> QED BY <2>1, <2>2, <2>3, <3>1, MoreStopped
    <2>6. /\ i \in DOMAIN r.calls /\ r.calls[i].pc = "running" /\ r.calls[i].own
          /\ r.busy.verb # "write" \/ r.readOnly
      BY <1>4, <2>1, <2>3 DEF IsStopped, SameLine, SameQuery, SameSc
    <2> QED BY <2>1, <2>5, <2>6, MoreStopping
  <1> QED BY <1>1, <1>2, <1>3, <1>4 DEF CutsOwn

(* A generator left open is closed.                                         *)
LEMMA MoreCloses ==
    ASSUME NEW s, NEW t, Inv(s), Inv(t), More(s), Closes(s, t)
    PROVE  More(t)
  <1>1. /\ s.pc \in {"closing", "unwinding"} /\ s.pc \notin Own
        /\ s.closing \subseteq DOMAIN s.calls
        /\ s.pc = "unwinding" => s.ending # "none"
        /\ s.pc = "closing" /\ s.ending = "none" =>
              \A j \in DOMAIN s.calls : s.calls[j].pc # "running"
    <2>1. s.pc \in {"closing", "unwinding"}
      BY DEF Closes
    <2> QED BY <2>1 DEF Own, Inv, TypeInv, Bounds, Stages
  <1>2. PICK i \in s.closing :
          \/ /\ s.calls[i].pc \in {"left", "over"}
             /\ IsAt(s, t, s.pc) /\ t.closing = s.closing \ {i}
             /\ t.begun = s.begun /\ t.poisoned = s.poisoned /\ t.ending = s.ending
          \/ /\ s.calls[i].pc = "fresh"
             /\ IsShut(s, t, i) /\ t.closing = s.closing \ {i}
          \/ /\ s.calls[i].pc \in {"running", "delivering"} /\ ~s.busy.stop
             /\ s.busy.stage # "ended"
             /\ IsStopped(s, t)
    BY DEF Closes
  <1>3. i \in DOMAIN s.calls
    BY <1>1
  <1>4. CASE IsAt(s, t, s.pc) /\ t.begun = s.begun /\ t.ending = s.ending
    <2> DEFINE p == s.pc
    <2>1. IsAt(s, t, p) /\ (s.pc \in {"publishing", "released"} => p \in {"publishing", "released"})
      BY <1>4
    <2> HIDE DEF p
    <2> QED BY <1>1, <1>4, <2>1, MoreAt
  <1>5. CASE s.calls[i].pc = "fresh" /\ IsShut(s, t, i)
    BY <1>3, <1>5, MoreShut
  <1>6. CASE s.calls[i].pc \in {"running", "delivering"} /\ IsStopped(s, t)
    <2>1. ~IsIdle(s) /\ s.busy.call # 0 /\ Part(s) = s.calls[i].pc
      BY <1>3, <1>6, RunningIs DEF Working
    <2>2. Part(s) # "running" \/ s.ending # "none"
      BY <1>1, <1>3, <2>1
    <2> QED BY <1>6, <2>1, <2>2, MoreStopped
  <1> QED BY <1>2, <1>4, <1>5, <1>6

(* The other steps of the transaction itself.                               *)
LEMMA MoreItself ==
    ASSUME NEW s, NEW t, Inv(s), Inv(t), More(s),
           \/ Acquires(s, t) \/ Returns(s, t) \/ Readies(s, t) \/ Concludes(s, t)
           \/ Unwinds(s, t) \/ Finishes(s, t) \/ Releases(s, t)
    PROVE  More(t)
  <1> DEFINE q == s.pc
  <1>1. CASE \E p : /\ IsAt(s, t, p) /\ t.begun = s.begun /\ t.ending = s.ending
                    /\ s.pc \notin Own
                    /\ s.pc \in {"publishing", "released"} => p \in {"publishing", "released"}
    BY <1>1, MoreAt
  <1>2. CASE Acquires(s, t)
    <2>1. s.pc = "acquiring" /\ s.pc \notin Own
      BY <1>2 DEF Acquires, Own
    <2>2. CASE s.cut
      BY <1>1, <1>2, <2>1, <2>2 DEF Acquires, Goes
    <2>3. CASE ~s.cut
      <3>1. IsOwn(s, t, "begin", "begin")
        BY <1>2, <2>3 DEF Acquires
      <3>2. IsIdle(s) /\ ~s.dead
        <4>1. TypeInv(s) /\ Len(s.calls) = 0 /\ ~s.dead
          BY <2>1 DEF Inv, Stages
        <4>2. ~IsIdle(s) => s.busy.call \in 1 .. Len(s.calls)
          BY <2>1, <4>1, NotInFlight
        <4> QED BY <4>1, <4>2
      <3> QED BY <2>1, <3>1, <3>2, MoreOwn
    <2> QED BY <2>2, <2>3
  <1>3. CASE Returns(s, t)
    BY <1>1, <1>3 DEF Returns, Own
  <1>4. CASE Readies(s, t)
    BY <1>1, <1>4 DEF Readies, Goes, Own
  <1>5. CASE Concludes(s, t)
    <2>1. s.pc = "ready"
      BY <1>5 DEF Concludes
    <2>2. CASE s.cut \/ ~IsIdle(s) \/ s.dead
      <3>1. Fails_(s, t)
        BY <1>5, <2>2 DEF Concludes
      <3> QED BY <2>1, <3>1, MoreFailsOn
    <2>3. CASE ~(s.cut \/ ~IsIdle(s) \/ s.dead)
      <3> DEFINE verb == IF s.autoCommit THEN "commit" ELSE "rollback"
      <3>1. IsOwn(s, t, verb, "concluding") /\ verb \in {"commit", "rollback"}
        BY <1>5, <2>3 DEF Concludes
      <3> HIDE DEF verb
      <3> QED BY <2>1, <2>3, <3>1, MoreOwn
    <2> QED BY <2>2, <2>3
  <1>6. CASE Unwinds(s, t)
    <2>1. s.pc = "unwinding" /\ s.pc \notin Own /\ IsIdle(s) /\ s.ending # "none"
      BY <1>6 DEF Unwinds, Own, Inv, Stages
    <2>2. CASE ~OwesRollback(s)
      BY <1>1, <1>6, <2>1, <2>2 DEF Unwinds, Goes
    <2>3. CASE OwesRollback(s) /\ s.dead
      BY <1>1, <1>6, <2>1, <2>3 DEF Unwinds
    <2>4. CASE OwesRollback(s) /\ ~s.dead
      <3>1. IsOwn(s, t, "rollback", "rolling") /\ s.begun /\ ~s.done /\ s.said # "out"
        BY <1>6, <2>4 DEF Unwinds, OwesRollback
      <3> QED BY <2>1, <2>4, <3>1, MoreOwn
    <2> QED BY <2>2, <2>3, <2>4
  <1>7. CASE Finishes(s, t)
    <2>1. s.pc = "finishing" /\ s.ending # "none" /\ s.pc \notin Own
      BY <1>7 DEF Finishes, Inv, Stages, Own
    <2> QED BY <1>1, <1>7, <2>1 DEF Finishes
  <1>8. CASE Releases(s, t)
    BY <1>1, <1>8 DEF Releases, Goes, Own
  <1> QED BY <1>2, <1>3, <1>4, <1>5, <1>6, <1>7, <1>8

(* The worker answers, or the page hears of it.                             *)
LEMMA MoreWorks ==
    ASSUME NEW s, NEW t, Inv(s), Inv(t), More(s),
           \/ Succeeded(s, t) \/ Failed(s, t) \/ Departs(s, t)
           \/ /\ ~IsIdle(s) /\ s.busy.call \in DOMAIN s.calls
              /\ Drains(s, t) \/ Delivers(s, t)
           \/ /\ ~IsIdle(s) /\ s.busy.call = 0 /\ s.busy.stage = "ended"
              /\ HearsBegin(s, t) \/ HearsConclusion(s, t) \/ HearsRollback(s, t)
    PROVE  More(t)
  <1>0. "explicit" \notin s.sc.faults
    BY DEF More
  <1>1. CASE Succeeded(s, t)
    BY <1>1, MoreSucceeds DEF Succeeded
  <1>2. CASE Failed(s, t)
    BY <1>0, <1>2, MoreFails DEF Failed
  <1>3. CASE Departs(s, t)
    <2>1. /\ ~IsIdle(s) /\ s.busy.stage = "posted"
          /\ s.busy.verb = "commit" => s.busy.call = 0
          /\ s.busy.verb = "rollback" => s.busy.conclude # "none"
          /\ IsWorked(s, t, OutOfTransaction, s.db, "ended", TRUE)
      BY <1>0, <1>3 DEF Departs
    <2> QED BY <2>1, MoreLeaves
  <1>4. CASE ~IsIdle(s) /\ s.busy.call \in DOMAIN s.calls /\ Drains(s, t)
    <2>1. s.busy.call # 0 /\ s.busy.stage \in {"affected", "delivering"}
      BY <1>4, CallRange DEF Inv, Drains
    <2>2. IsWorked(s, t, s.conn, s.db, "ended", s.busy.failed)
      BY <1>4 DEF Drains
    <2> QED BY <1>4, <2>1, <2>2, MoreDrains
  <1>5. CASE ~IsIdle(s) /\ s.busy.call \in DOMAIN s.calls /\ Delivers(s, t)
    BY <1>5, MoreDelivers
  <1>6. CASE /\ ~IsIdle(s) /\ s.busy.call = 0 /\ s.busy.stage = "ended"
             /\ HearsBegin(s, t) \/ HearsConclusion(s, t) \/ HearsRollback(s, t)
    <2>1. s \in States
      BY DEF Inv, TypeInv
    <2>2. OversBegin(s, t) \/ OversConclusion(s, t) \/ OversRollback(s, t)
      BY <1>6, <2>1, OversBeginIs, OversConclusionIs, OversRollbackIs
    <2> QED BY <1>6, <2>2, MoreOversBegin, MoreOversConclusion, MoreOversRollback
  <1> QED BY <1>1, <1>2, <1>3, <1>4, <1>5, <1>6

(* Every step keeps what is owed and promised, and the journal true.        *)
LEMMA MoreActs ==
    ASSUME NEW s, NEW t, Inv(s), Inv(t), More(s), Acts(s, t)
    PROVE  More(t)
  <1>1. CASE Calls_(s, t)
    BY <1>1, MoreCalls
  <1>2. CASE \E i \in DOMAIN s.calls : Pulls(s, t, i)
    BY <1>2, MorePulls
  <1>3. CASE s.pc = "callback" /\ Fails_(s, t)
    BY <1>3, MoreFailsOn
  <1>4. CASE IsCut(s, t)
    BY <1>4, MoreCut
  <1>5. CASE \E i \in DOMAIN s.calls : CutsOwn(s, t, i)
    BY <1>5, MoreCutsOwn
  <1>6. CASE \E i \in DOMAIN s.calls :
                \/ Turns(s, t, i) \/ Rejects(s, t, i) \/ Skips(s, t, i)
                \/ \E open \in BOOLEAN : Answers(s, t, i, open)
    BY <1>6, MoreWaits
  <1>7. CASE IsCrashed(s, t)
    BY <1>7, MoreCrashed
  <1>8. CASE Hears(s, t)
    BY <1>8, MoreHears
  <1>9. CASE \/ Succeeded(s, t) \/ Failed(s, t) \/ Departs(s, t)
             \/ /\ ~IsIdle(s) /\ s.busy.call \in DOMAIN s.calls
                /\ Drains(s, t) \/ Delivers(s, t)
             \/ /\ ~IsIdle(s) /\ s.busy.call = 0 /\ s.busy.stage = "ended"
                /\ HearsBegin(s, t) \/ HearsConclusion(s, t) \/ HearsRollback(s, t)
    BY <1>9, MoreWorks
  <1>10. CASE Closes(s, t)
    BY <1>10, MoreCloses
  <1>11. CASE \/ Acquires(s, t) \/ Returns(s, t) \/ Readies(s, t) \/ Concludes(s, t)
              \/ Unwinds(s, t) \/ Finishes(s, t) \/ Releases(s, t)
    BY <1>11, MoreItself
  <1> QED BY <1>1, <1>2, <1>3, <1>4, <1>5, <1>6, <1>7, <1>8, <1>9, <1>10, <1>11 DEF Acts

(* An explicit commit() or rollback() that SQLite refuses leaves the        *)
(* transaction open; the instance has none.                                 *)
Heard == \A sc \in Scenarios : "explicit" \notin sc.faults

(* Nothing is owed or promised at the start.                                *)
LEMMA MoreInit ==
    ASSUME Heard, Init
    PROVE  More(x)
  <1>1. PICK sc \in Scenarios :
        x = [sc |-> sc, pc |-> "acquiring", readOnly |-> sc.mode = "readOnly",
             autoCommit |-> sc.mode # "manual", ending |-> "none", cut |-> FALSE,
             begun |-> FALSE, done |-> FALSE, poisoned |-> FALSE,
             pending |-> "none", abandoned |-> Nobody, tail |-> Nobody,
             calls |-> <<>>, stack |-> <<>>, closing |-> {},
             busy |-> Idle, said |-> "out", dead |-> FALSE,
             conn |-> [in |-> FALSE, log |-> <<>>], db |-> {},
             ledger |-> <<>>]
    BY DEF Init
  <1>2. /\ x.sc = sc /\ x.ending = "none" /\ ~x.begun /\ x.calls = <<>>
        /\ x.busy = Idle /\ ~x.conn.in /\ x.db = {} /\ x.ledger = <<>>
    BY <1>1
  <1>3. DOMAIN x.calls = {} /\ IsIdle(x)
    BY <1>2 DEF IsIdle
  <1>4. "explicit" \notin x.sc.faults
    BY <1>2 DEF Heard
  <1>5. Owed(x) /\ Promises(x)
    BY <1>3 DEF Owed, Promises
  <1>6. Within(x)
    BY <1>2, <1>3 DEF Within
  <1>7. Journal(x)
    BY <1>2 DEF Journal, Live
  <1>8. File(x)
    BY <1>2, <1>3 DEF File, Committing
  <1> QED BY <1>4, <1>5, <1>6, <1>7, <1>8 DEF More

(* A step of the specification preserves both invariants.                   *)
LEMMA MoreNext ==
    ASSUME Inv(x), More(x), [Next]_x
    PROVE  Inv(x)' /\ More(x)'
  <1>1. Inv(x)'
    BY InvNext
  <1>2. CASE Next
    <2>1. Acts(x, x') /\ Inv(x')
      BY <1>1, <1>2, NextActs
    <2>2. More(x')
      BY <2>1, MoreActs
    <2> QED BY <1>1, <2>2
  <1>3. CASE UNCHANGED x
    BY <1>1, <1>3
  <1> QED BY <1>2, <1>3

(* The journal, the account and the file agree in every state.              *)
LEMMA MoreHolds == ASSUME Awaited, Heard PROVE Spec => [](Inv(x) /\ More(x))
  <1>1. Init => Inv(x) /\ More(x)
    BY InvInit, MoreInit
  <1>2. Inv(x) /\ More(x) /\ [Next]_x => Inv(x)' /\ More(x)'
    BY MoreNext
  <1> QED BY <1>1, <1>2, PTL DEF Spec

(* What the handle says of its ending is what became of the data: a         *)
(* transaction that says "committed" has left in the file exactly the       *)
(* writes of its account, and any other has left the file as it was, unless *)
(* its worker died before the reply to COMMIT (transaction.ts, `ending`).   *)
THEOREM EndingIsTruthful == ASSUME Awaited, Heard PROVE Spec => []EndingTruthful
  <1>1. Inv(x) /\ More(x) => EndingTruthful
    <2> SUFFICES ASSUME Inv(x), More(x), x.pc = "released"
                 PROVE  EndingTruthful
      BY DEF EndingTruthful
    <2>1. IsIdle(x) /\ x.ending # "none"
      BY DEF Inv, Stages
    <2>2. x.db # {} /\ ~x.dead => x.ending = "committed"
      BY <2>1 DEF More, File, Committing
    <2>3. x.ending = "committed" => x.db = Effects(x.ledger)
      BY DEF More, File
    <2> QED BY <2>1, <2>2, <2>3 DEF EndingTruthful
  <1> QED BY <1>1, MoreHolds, PTL

(* A query that goes out is one of the transaction's own, or of a call of a *)
(* transaction that has not ended.                                          *)
Posts(s, t) ==
    t.busy.stage = "posted" => s.busy.stage = "posted" \/ t.busy.call = 0 \/ s.ending = "none"

(* Only these steps send a query; the others leave the worker as it is, or  *)
(* bring its query to an end.                                               *)
LEMMA PostsNothing ==
    ASSUME NEW s, NEW t, ~IsIdle(t) => t.busy.stage = s.busy.stage \/ t.busy.stage # "posted"
    PROVE  Posts(s, t)
  <1>1. Idle.stage # "posted"
    BY DEF Idle
  <1> QED BY <1>1 DEF Posts, IsIdle

(* With the query in flight as it was, nothing is sent.                     *)
LEMMA PostsKept ==
    ASSUME NEW s, NEW t, t.busy = s.busy
    PROVE  Posts(s, t)
  BY DEF Posts

(* A call sends its query at its turn, before the transaction has ended.    *)
LEMMA PostsTakes ==
    ASSUME NEW s, NEW t, NEW i \in DOMAIN s.calls, s.ending = "none"
    PROVE  Posts(s, t)
  BY DEF Posts

(* The start of the unwinding sends nothing.                                *)
LEMMA PostsFails ==
    ASSUME NEW s, NEW t, Inv(s), Fails_(s, t)
    PROVE  Posts(s, t)
  <1>1. PICK r \in States : Dies(s, r) /\ t.busy = r.busy
    BY DEF Fails_, SameBusy
  <1>2. r = s \/ IsCut(s, r)
    BY <1>1 DEF Dies
  <1> QED BY <1>1, <1>2, PostsNothing, PostsKept DEF IsCut, IsIdle

(* No step sends a query of a call of a transaction that has ended.         *)
LEMMA PostsActs ==
    ASSUME NEW s, NEW t, Inv(s), Inv(t), Acts(s, t)
    PROVE  Posts(s, t)
  <1>0. \A i \in DOMAIN s.calls : s.calls[i].pc = "asking" /\ ~s.cut => s.ending = "none"
    BY DEF Inv, Flight
  <1>q. \A i, v : IsSettled(s, t, i, v) => Posts(s, t)
    BY PostsKept DEF IsSettled, SameBusy
  <1>p. \A p : IsAt(s, t, p) => Posts(s, t)
    BY PostsKept DEF IsAt, SameBusy
  <1>1. CASE Calls_(s, t) \/ s.ending = "none"
    BY <1>1 DEF Calls_, Posts
  <1>2. CASE \E i \in DOMAIN s.calls : Pulls(s, t, i)
    BY <1>1, <1>2, PostsKept DEF Pulls, IsShut, SameBusy
  <1>3. CASE Returns(s, t)
    BY <1>3, <1>p DEF Returns
  <1>4. CASE s.pc = "callback" /\ Fails_(s, t)
    BY <1>4, PostsFails
  <1>5. CASE IsCut(s, t)
    BY <1>5, PostsNothing DEF IsCut
  <1>6. CASE \E i \in DOMAIN s.calls : CutsOwn(s, t, i)
    <2>1. PICK i \in DOMAIN s.calls : CutsOwn(s, t, i)
      BY <1>6
    <2>2. CASE IsAbandoned(s, t, i)
      BY <2>2, PostsKept DEF IsAbandoned
    <2>3. CASE IsStopped(s, t)
      BY <2>3, PostsNothing DEF IsStopped
    <2>4. CASE \E r \in States : IsStopped(s, r) /\ IsMoved(r, t, i, "stopping")
      BY <2>4, PostsNothing DEF IsStopped, IsMoved, SameBusy, IsIdle
    <2> QED BY <2>1, <2>2, <2>3, <2>4, <1>q DEF CutsOwn
  <1>7. CASE \E i \in DOMAIN s.calls :
                \/ Turns(s, t, i) \/ Rejects(s, t, i) \/ Skips(s, t, i)
                \/ \E open \in BOOLEAN : Answers(s, t, i, open)
    <2>1. PICK i \in DOMAIN s.calls :
                \/ Turns(s, t, i) \/ Rejects(s, t, i) \/ Skips(s, t, i)
                \/ \E open \in BOOLEAN : Answers(s, t, i, open)
      BY <1>7
    <2>2. s.ending = "none" \/ IsSettled(s, t, i, "closed") \/ IsSettled(s, t, i, "cut")
      BY <2>1, <1>0 DEF Turns, Rejects, Skips, Answers
    <2> QED BY <2>2, <1>1, <1>q
  <1>8. CASE \E conn, db, stage, failed :
                s.busy.stage = "posted" /\ IsWorked(s, t, conn, db, stage, failed)
    BY <1>8 DEF Posts
  <1>9. CASE Succeeded(s, t) \/ Failed(s, t) \/ Departs(s, t)
    BY <1>9 DEF Succeeded, Failed, Departs, Posts
  <1>10. CASE IsCrashed(s, t)
    BY <1>10, PostsNothing DEF IsCrashed, Ended
  <1>11. CASE Hears(s, t)
    <2>1. IsIdle(t) \/ s.ending = "none"
      BY <1>11 DEF Hears, OversLeft, OversStatement, OversRefusal, OversHalf, OversControl, OversEnding,
                   GoesOn, IsOver
    <2> QED BY <2>1, <1>1, PostsNothing
  <1>12. CASE ~IsIdle(s) /\ s.busy.call \in DOMAIN s.calls /\ Drains(s, t)
    BY <1>12, PostsNothing DEF Drains, IsWorked
  <1>13. CASE ~IsIdle(s) /\ s.busy.call \in DOMAIN s.calls /\ Delivers(s, t)
    BY <1>13, DeliversIs, PostsNothing
  <1>14. CASE /\ ~IsIdle(s) /\ s.busy.call = 0 /\ s.busy.stage = "ended"
              /\ HearsBegin(s, t) \/ HearsConclusion(s, t) \/ HearsRollback(s, t)
    <2>1. s \in States
      BY DEF Inv, TypeInv
    <2>2. OversBegin(s, t) \/ OversConclusion(s, t) \/ OversRollback(s, t)
      BY <1>14, <2>1, OversBeginIs, OversConclusionIs, OversRollbackIs
    <2>3. IsIdle(t)
      BY <2>2 DEF OversBegin, OversConclusion, OversRollback, OwnOver
    <2> QED BY <2>3, PostsNothing
  <1>15. CASE \E verb, p : IsOwn(s, t, verb, p)
    BY <1>15 DEF IsOwn, Posts
  <1>16. CASE Closes(s, t)
    BY <1>16, <1>p, PostsKept, PostsNothing DEF Closes, IsShut, SameBusy, IsStopped
  <1>17. CASE Acquires(s, t) \/ Readies(s, t) \/ Concludes(s, t) \/ Unwinds(s, t)
              \/ Finishes(s, t) \/ Releases(s, t)
    BY <1>17, <1>15, <1>p, PostsFails DEF Acquires, Readies, Concludes, Unwinds, Finishes, Releases, Goes
  <1> QED BY <1>1, <1>2, <1>3, <1>4, <1>5, <1>6, <1>7, <1>9, <1>10, <1>11, <1>12, <1>13, <1>14,
             <1>16, <1>17 DEF Acts

(* Once the transaction has ended, no call of its handle reaches the        *)
(* worker, which may be serving somebody else (transaction.ts, the comment  *)
(* on `ending`).                                                            *)
THEOREM NothingIsSentAfterTheEnding == ASSUME Awaited PROVE Spec => NothingAfterEnding
  <1>1. Inv(x) /\ Inv(x)' /\ [Next]_x =>
           [x.busy.stage # "posted" /\ x'.busy.stage = "posted"
               => x'.busy.call = 0 \/ x.ending = "none"]_x
    <2> SUFFICES ASSUME Inv(x), Inv(x)', Next
                 PROVE  x.busy.stage # "posted" /\ x'.busy.stage = "posted"
                            => x'.busy.call = 0 \/ x.ending = "none"
      OBVIOUS
    <2>1. Acts(x, x') /\ Inv(x')
      BY NextActs
    <2>2. Posts(x, x')
      BY <2>1, PostsActs
    <2> QED BY <2>2 DEF Posts
  <1> QED BY <1>1, InvHolds, PTL DEF Spec, NothingAfterEnding

(* What AtomicTx sees of a call, and of the connection.                     *)
VerbAsked(c) ==
    IF c.kind # "rollbackTo" THEN VerbOfKind(c.kind) ELSE IF c.keep THEN "undo" ELSE "drop"

None == [verb |-> "none", name |-> "none"]

AskOf(s, i) ==
    IF i \notin DOMAIN s.calls \/ s.calls[i].kind \in {"read", "commit", "rollback"}
    THEN None
    ELSE [name |-> s.calls[i].name, verb |-> VerbAsked(s.calls[i])]

TellOf(s, i) ==
    IF i \notin DOMAIN s.calls \/ s.calls[i].kind \in {"read", "commit", "rollback"}
    THEN "nothing" ELSE s.calls[i].told

Over(s) == s.pc \notin {"acquiring", "begin"} /\ ~s.conn.in

(* The account after what was asked for.                                    *)
EnteredIn(l, a, i) ==
    IF a.verb = "write" THEN Append(l, Effect(i))
    ELSE IF a.verb = "savepoint" THEN Append(l, Mark(a.name))
    ELSE IF a.verb = "release" THEN Released(l, a.name)
    ELSE IF a.verb = "undo" THEN RolledBackTo(l, a.name)
    ELSE Released(RolledBackTo(l, a.name), a.name)

(* A step of AtomicTx.                                                      *)
Alike(s, t, i) == AskOf(t, i) = AskOf(s, i) /\ TellOf(t, i) = TellOf(s, i)

Apart(s, t, i) == \A j \in Calls : j # i => Alike(s, t, j)

Still(s, t) == t.ledger = s.ledger /\ t.db = s.db /\ (Over(t) <=> Over(s))

Asked(s, t, i) ==
    /\ Still(s, t) /\ AskOf(s, i) = None
    /\ AskOf(t, i).verb \in {"write", "savepoint", "release", "undo", "drop"}
    /\ TellOf(t, i) \in {TellOf(s, i), "busy", "error"}

Refused_(s, t, i) ==
    /\ Still(s, t) /\ AskOf(t, i) = AskOf(s, i)
    /\ TellOf(s, i) = "nothing" /\ TellOf(t, i) \in {"error", "busy", "cut", "closed"}

Granted(s, t, i) ==
    /\ ~Over(s) /\ ~Over(t) /\ AskOf(s, i) # None /\ AskOf(t, i) = AskOf(s, i)
    /\ TellOf(s, i) = "nothing" /\ TellOf(t, i) = "ok"
    /\ t.ledger = EnteredIn(s.ledger, AskOf(s, i), i) /\ t.db = s.db

Ended_(s, t) ==
    /\ ~Over(s) /\ Over(t) /\ t.ledger = s.ledger
    /\ t.db = s.db \/ t.db = Effects(s.ledger)

Mapped(s, t) ==
    \/ Apart(s, t, 0) /\ (Still(s, t) \/ Ended_(s, t))
    \/ \E i \in Calls : /\ Apart(s, t, i)
                        /\ Asked(s, t, i) \/ Refused_(s, t, i) \/ Granted(s, t, i)

(* The calls are as they were, and nobody is told anything, but for i.      *)
Hushed(s, t) ==
    /\ DOMAIN t.calls = DOMAIN s.calls
    /\ \A j \in DOMAIN s.calls : Kin(t.calls[j], s.calls[j]) /\ t.calls[j].told = s.calls[j].told

Speaks(s, t, i, v) ==
    /\ DOMAIN t.calls = DOMAIN s.calls
    /\ \A j \in DOMAIN s.calls :
          /\ Kin(t.calls[j], s.calls[j])
          /\ j # i => t.calls[j].told = s.calls[j].told
    /\ t.calls[i].told = IF s.calls[i].told = "nothing" THEN v ELSE s.calls[i].told

(* A call asks for the same for as long as it is the same call.             *)
LEMMA AsksTheSame ==
    ASSUME NEW s, NEW t, NEW i, DOMAIN t.calls = DOMAIN s.calls,
           i \in DOMAIN s.calls => Kin(t.calls[i], s.calls[i])
    PROVE  /\ AskOf(t, i) = AskOf(s, i)
           /\ i \in DOMAIN s.calls /\ t.calls[i].told = s.calls[i].told => TellOf(t, i) = TellOf(s, i)
           /\ i \notin DOMAIN s.calls => TellOf(t, i) = TellOf(s, i)
  <1>1. CASE i \notin DOMAIN s.calls
    BY <1>1 DEF AskOf, TellOf
  <1>2. CASE i \in DOMAIN s.calls
    <2>1. VerbAsked(t.calls[i]) = VerbAsked(s.calls[i])
      BY <1>2 DEF VerbAsked, Kin
    <2> QED BY <1>2, <2>1 DEF AskOf, TellOf, Kin
  <1> QED BY <1>1, <1>2

(* What a call asks for is known by its kind.                               *)
LEMMA AskIs ==
    ASSUME NEW s, NEW i \in DOMAIN s.calls, s.calls[i] \in Call
    PROVE  LET k == s.calls[i].kind IN
           /\ AskOf(s, i) = None <=> k \in {"read", "commit", "rollback"}
           /\ k \notin {"read", "commit", "rollback"} =>
                 /\ AskOf(s, i).verb \in {"write", "savepoint", "release", "undo", "drop"}
                 /\ AskOf(s, i).verb = VerbAsked(s.calls[i]) /\ AskOf(s, i).name = s.calls[i].name
                 /\ TellOf(s, i) = s.calls[i].told
           /\ k \in {"read", "commit", "rollback"} => TellOf(s, i) = "nothing"
  <1> DEFINE c == s.calls[i]
  <1>1. c.kind \in CallKinds
    BY DEF Call
  <1>2. c.kind \notin {"read", "commit", "rollback"} =>
           VerbAsked(c) \in {"write", "savepoint", "release", "undo", "drop"}
    BY <1>1 DEF CallKinds, VerbAsked, VerbOfKind
  <1> HIDE DEF c
  <1>3. CASE c.kind \in {"read", "commit", "rollback"}
    BY <1>3 DEF c, AskOf, TellOf
  <1>4. CASE c.kind \notin {"read", "commit", "rollback"}
    <2>1. AskOf(s, i) = [name |-> c.name, verb |-> VerbAsked(c)] /\ TellOf(s, i) = c.told
      BY <1>4 DEF c, AskOf, TellOf
    <2>2. AskOf(s, i).verb = VerbAsked(c) /\ AskOf(s, i).name = c.name
      BY <2>1
    <2>3. AskOf(s, i) # None
      <3>1. None.verb = "none"
        BY DEF None
      <3> QED BY <1>2, <1>4, <2>2, <3>1
    <2> QED BY <1>2, <1>4, <2>1, <2>2, <2>3 DEF c
  <1> QED BY <1>3, <1>4 DEF c

(* The account after a read, and after anything else that succeeds.         *)
LEMMA AccountOfRead ==
    ASSUME NEW l, NEW c, NEW i, c.kind = "read", VerbOf(c) # "write"
    PROVE  Account(l, c, i) = l
  BY DEF Account

(* The account after a success is AtomicTx's.                               *)
LEMMA AccountIsEntered ==
    ASSUME NEW l, NEW c \in Call, NEW a, NEW i,
           c.kind \notin {"read", "commit", "rollback"},
           a.verb = VerbAsked(c), a.name = c.name
    PROVE  Account(l, c, i) = EnteredIn(l, a, i)
  <1>1. c.kind \in CallKinds /\ VerbOf(c) = VerbOfKind(c.kind) /\ c.keep \in BOOLEAN
    BY VerbIs DEF Call
  <1>2. CASE c.kind \in {"write", "gen", "batch"}
    <2>1. a.verb = "write" /\ VerbOf(c) = "write"
      BY <1>1, <1>2 DEF VerbAsked, VerbOfKind
    <2> QED BY <1>2, <2>1 DEF Account, EnteredIn
  <1>3. CASE c.kind = "savepoint"
    <2>1. a.verb = "savepoint" /\ VerbOf(c) = "savepoint"
      BY <1>1, <1>3 DEF VerbAsked, VerbOfKind
    <2> QED BY <1>3, <2>1 DEF Account, EnteredIn
  <1>4. CASE c.kind = "release"
    <2>1. a.verb = "release" /\ VerbOf(c) = "release"
      BY <1>1, <1>4 DEF VerbAsked, VerbOfKind
    <2> QED BY <1>4, <2>1 DEF Account, EnteredIn
  <1>5. CASE c.kind = "rollbackTo"
    <2>1. a.verb = (IF c.keep THEN "undo" ELSE "drop") /\ VerbOf(c) = "rollbackTo"
      BY <1>1, <1>5 DEF VerbAsked, VerbOfKind
    <2> QED BY <1>1, <1>5, <2>1 DEF Account, EnteredIn
  <1> QED BY <1>1, <1>2, <1>3, <1>4, <1>5 DEF CallKinds

(* Nothing is said: whatever else happens is about no call.                 *)
LEMMA HushedApart ==
    ASSUME NEW s, NEW t, Hushed(s, t)
    PROVE  Apart(s, t, 0)
  BY AsksTheSame DEF Apart, Alike, Hushed

(* Nobody is told anything: a stutter, or the end.                          *)
LEMMA MapStill ==
    ASSUME NEW s, NEW t, Hushed(s, t), Still(s, t) \/ Ended_(s, t)
    PROVE  Mapped(s, t)
  BY HushedApart DEF Mapped

(* Somebody is told that the call did not succeed.                          *)
LEMMA MapRefuses ==
    ASSUME NEW s, NEW t, NEW i \in DOMAIN s.calls, Inv(s),
           NEW v \in {"error", "cut", "closed"}, Speaks(s, t, i, v), Still(s, t)
    PROVE  Mapped(s, t)
  <1>1. s.calls[i] \in Call /\ i \in Calls /\ i # 0
    BY CallRange, CallsAre DEF Inv, TypeInv, Calls
  <1>2. Apart(s, t, i) /\ AskOf(t, i) = AskOf(s, i)
    BY AsksTheSame DEF Apart, Alike, Speaks
  <1>3. CASE Alike(s, t, i)
    BY <1>2, <1>3 DEF Apart, Mapped
  <1>4. CASE ~Alike(s, t, i)
    <2>1. s.calls[i].kind \notin {"read", "commit", "rollback"}
      BY <1>2, <1>4 DEF TellOf, Alike, Speaks, Kin
    <2>2. TellOf(s, i) = s.calls[i].told /\ TellOf(t, i) = t.calls[i].told
      BY <2>1 DEF TellOf, Speaks, Kin
    <2>3. s.calls[i].told = "nothing" /\ t.calls[i].told = v
      BY <1>2, <1>4, <2>2 DEF Alike, Speaks
    <2> QED BY <1>1, <1>2, <2>2, <2>3 DEF Mapped, Refused_
  <1> QED BY <1>3, <1>4

(* Somebody is told "ok", and what was asked for is in the account.         *)
LEMMA MapGrants ==
    ASSUME NEW s, NEW t, NEW i \in DOMAIN s.calls, Inv(s), Speaks(s, t, i, "ok"),
           s.calls[i].told = "nothing", s.calls[i].kind \notin {"commit", "rollback"},
           t.ledger = Account(s.ledger, s.calls[i], i), t.db = s.db, ~Over(s), ~Over(t)
    PROVE  Mapped(s, t)
  <1>1. s.calls[i] \in Call /\ i \in Calls /\ i # 0
    BY CallRange, CallsAre DEF Inv, TypeInv, Calls
  <1>2. Apart(s, t, i) /\ AskOf(t, i) = AskOf(s, i)
    BY AsksTheSame DEF Apart, Alike, Speaks
  <1> DEFINE c == s.calls[i]
  <1>3. c.kind \in CallKinds /\ VerbOf(c) = VerbOfKind(c.kind) /\ c \in Call
    BY <1>1, VerbIs DEF Call
  <1>4. CASE c.kind = "read"
    <2>1. TellOf(t, i) = TellOf(s, i)
      BY <1>4 DEF TellOf, Speaks, Kin
    <2>2. t.ledger = s.ledger
      <3>1. VerbOf(c) # "write"
        BY <1>3, <1>4 DEF VerbOfKind
      <3> QED BY <1>4, <3>1, AccountOfRead
    <2> QED BY <1>2, <2>1, <2>2 DEF Apart, Alike, Mapped, Still
  <1>5. CASE c.kind # "read"
    <2>1. /\ AskOf(s, i) # None /\ AskOf(s, i).verb = VerbAsked(c) /\ AskOf(s, i).name = c.name
          /\ TellOf(s, i) = "nothing"
      BY <1>1, <1>5, AskIs
    <2>2. TellOf(t, i) = "ok"
      BY <1>5 DEF TellOf, Speaks, Kin
    <2>3. Account(s.ledger, c, i) = EnteredIn(s.ledger, AskOf(s, i), i)
      BY <1>3, <1>5, <2>1, AccountIsEntered
    <2> QED BY <1>1, <1>2, <2>1, <2>2, <2>3 DEF Mapped, Granted
  <1> QED BY <1>4, <1>5

(* The connection is out of the transaction, with the account or without.   *)
LEMMA MapEnds ==
    ASSUME NEW s, NEW t, Hushed(s, t), t.ledger = s.ledger, ~t.conn.in, t.pc = s.pc,
           \/ t.db = s.db
           \/ t.db = Effects(s.ledger) /\ s.conn.in /\ s.pc \notin {"acquiring", "begin"}
    PROVE  Mapped(s, t)
  BY MapStill DEF Still, Ended_, Over

(* A call is made.                                                          *)
LEMMA MapAsks ==
    ASSUME NEW s, NEW t, NEW c \in Call, Inv(s), TypeInv(t), Still(s, t),
           c.told = "nothing",
           DOMAIN t.calls = 1 .. Len(s.calls) + 1,
           \A j \in DOMAIN s.calls :
               Kin(t.calls[j], s.calls[j]) /\ t.calls[j].told = s.calls[j].told,
           Kin(t.calls[Len(s.calls) + 1], c),
           t.calls[Len(s.calls) + 1].told \in {"nothing", "error"}
    PROVE  Mapped(s, t)
  <1> DEFINE i == Len(s.calls) + 1
  <1>1. /\ Len(s.calls) \in Nat /\ DOMAIN s.calls = 1 .. Len(s.calls)
        /\ i \in DOMAIN t.calls /\ i \notin DOMAIN s.calls /\ i # 0
        /\ DOMAIN t.calls = DOMAIN s.calls \cup {i}
    <2>1. Len(s.calls) \in Nat /\ DOMAIN s.calls = 1 .. Len(s.calls)
      BY CallRange DEF Inv
    <2> QED BY <2>1
  <1>2. i \in Calls /\ t.calls[i] \in Call
    BY <1>1, CallRange, CallsAre DEF TypeInv, Calls
  <1>3. Apart(s, t, i)
    <2> SUFFICES ASSUME NEW j \in Calls, j # i
                 PROVE  Alike(s, t, j)
      BY DEF Apart
    <2>1. CASE j \in DOMAIN s.calls
      <3>1. VerbAsked(t.calls[j]) = VerbAsked(s.calls[j])
        BY <2>1 DEF VerbAsked, Kin
      <3> QED BY <1>1, <2>1, <3>1 DEF Alike, AskOf, TellOf, Kin
    <2>2. CASE j \notin DOMAIN s.calls
      BY <1>1, <2>2 DEF Alike, AskOf, TellOf
    <2> QED BY <2>1, <2>2
  <1>4. AskOf(s, i) = None /\ TellOf(s, i) = "nothing"
    BY <1>1 DEF AskOf, TellOf
  <1>5. CASE t.calls[i].kind \in {"read", "commit", "rollback"}
    <2>1. Alike(s, t, i)
      BY <1>4, <1>5 DEF Alike, AskOf, TellOf
    <2> QED BY <1>3, <2>1 DEF Apart, Mapped
  <1>6. CASE t.calls[i].kind \notin {"read", "commit", "rollback"}
    <2>1. /\ AskOf(t, i).verb \in {"write", "savepoint", "release", "undo", "drop"}
          /\ TellOf(t, i) \in {"nothing", "error"}
      BY <1>1, <1>2, <1>6, AskIs
    <2> QED BY <1>2, <1>3, <1>4, <2>1 DEF Mapped, Asked
  <1> QED BY <1>5, <1>6

(* Neither the phase nor the data changes.                                  *)
LEMMA StillIs ==
    ASSUME NEW s, NEW t, t.pc = s.pc, t.ledger = s.ledger, t.db = s.db, t.conn = s.conn
    PROVE  Still(s, t)
  BY DEF Still, Over

(* The phase and the data stay.                                             *)
LEMMA SameStill ==
    ASSUME NEW s, NEW t, SamePc(s, t), SameData(s, t)
    PROVE  Still(s, t)
  BY StillIs DEF SamePc, SameData

(* The calls stay.                                                          *)
LEMMA SameHushed ==
    ASSUME NEW s, NEW t, t.calls = s.calls
    PROVE  Hushed(s, t)
  BY DEF Hushed, Kin

(* A call is over, and its caller is told.                                  *)
LEMMA SettledSpeaks ==
    ASSUME NEW s, NEW t, NEW i \in DOMAIN s.calls, NEW v, IsSettled(s, t, i, v)
    PROVE  Speaks(s, t, i, v) /\ Still(s, t)
  BY SameStill DEF IsSettled, Speaks

(* A call is over without success: AtomicTx refuses it.                     *)
LEMMA MapSettled ==
    ASSUME NEW s, NEW t, NEW i \in DOMAIN s.calls, NEW v \in {"error", "cut", "closed"}, Inv(s),
           IsSettled(s, t, i, v)
    PROVE  Mapped(s, t)
  BY SettledSpeaks, MapRefuses

(* A call that goes on tells nobody anything.                               *)
LEMMA MovedHushed ==
    ASSUME NEW s, NEW t, NEW i, NEW p, IsMoved(s, t, i, p) \/ IsPlaced(s, t, i)
    PROVE  Hushed(s, t) /\ Still(s, t)
  BY SameStill DEF IsMoved, IsPlaced, Hushed

(* A signal, a stop and a death tell nobody anything.                       *)
LEMMA CutHushed ==
    ASSUME NEW s, NEW t, IsCut(s, t) \/ IsStopped(s, t) \/ Dies(s, t)
    PROVE  Hushed(s, t) /\ Still(s, t)
  <1>1. t = s \/ (t.calls = s.calls /\ SamePc(s, t) /\ SameData(s, t))
    BY DEF IsCut, IsStopped, Dies, SameLine
  <1>2. t = s => Hushed(s, t) /\ Still(s, t)
    BY SameHushed, StillIs
  <1> QED BY <1>1, <1>2, SameHushed, SameStill

(* What a call's turn makes of it.                                          *)
Turned(s, t, i) == Still(s, t) /\ (Hushed(s, t) \/ Speaks(s, t, i, "error"))

(* A call's start is a stutter, or a refusal.                               *)
LEMMA StartsTurned ==
    ASSUME NEW s, NEW t, NEW i \in DOMAIN s.calls, NEW open \in BOOLEAN, Inv(s), Next_(s, i),
           Starts(s, t, i, open)
    PROVE  Turned(s, t, i)
  <1>1. Refused(s, t, i) \/ IsRun(s, t, i, open)
    BY StartsOnce
  <1>2. CASE IsRun(s, t, i, open)
    <2>1. Hushed(s, t)
      BY <1>2 DEF IsRun, Stepped, Hushed
    <2>2. Still(s, t)
      BY <1>2, SameStill DEF IsRun
    <2> QED BY <2>1, <2>2 DEF Turned
  <1>3. CASE Refused(s, t, i)
    <2>1. PICK r \in States : (r = s \/ Dies(s, r)) /\ IsSettled(r, t, i, "error")
      BY <1>3 DEF Refused
    <2>2. r.calls = s.calls /\ Still(s, r)
      <3>1. Dies(s, r) => r.calls = s.calls /\ Still(s, r)
        BY CutHushed DEF Dies, IsCut, SameLine
      <3>2. r = s => Still(s, r)
        BY StillIs
      <3> QED BY <2>1, <3>1, <3>2
    <2>3. Speaks(r, t, i, "error") /\ Still(r, t)
      BY <2>1, <2>2, SettledSpeaks
    <2> QED BY <2>2, <2>3 DEF Turned, Speaks, Still
  <1> QED BY <1>1, <1>2, <1>3

(* A call's turn is a stutter, or a refusal.                                *)
LEMMA TakesTurned ==
    ASSUME NEW s, NEW t, NEW i \in DOMAIN s.calls, Inv(s), Next_(s, i), Takes(s, t, i)
    PROVE  Turned(s, t, i)
  <1>1. CASE Asks(s, s.calls[i])
    BY <1>1, MovedHushed DEF Takes, Turned
  <1>2. CASE ~Asks(s, s.calls[i])
    <2> DEFINE open == s.calls[i].own /\ ~s.readOnly /\ s.calls[i].kind = "batch"
    <2>1. Starts(s, t, i, open) /\ open \in BOOLEAN
      BY <1>2 DEF Takes
    <2> HIDE DEF open
    <2> QED BY <2>1, StartsTurned
  <1> QED BY <1>1, <1>2

(* Joining the queue is a stutter, or a refusal.                            *)
LEMMA EnqueuesTurned ==
    ASSUME NEW s, NEW t, NEW i \in DOMAIN s.calls, Inv(s),
           s.calls[i].pc = "fresh", s.ending = "none", s.pc = "callback", Enqueues(s, t, i)
    PROVE  Turned(s, t, i)
  <1>1. PICK r \in States :
           /\ IsPlaced(s, r, i)
           /\ IF s.tail = Nobody /\ s.abandoned = Nobody THEN Takes(r, t, i) ELSE t = r
    BY DEF Enqueues
  <1>2. TypeInv(r)
    BY <1>1, TypePlaced DEF Inv
  <1>3. Inv(r)
    BY <1>1, <1>2, InvPlaced
  <1>4. Hushed(s, r) /\ Still(s, r)
    BY <1>1, MovedHushed
  <1>5. CASE s.tail = Nobody /\ s.abandoned = Nobody
    <2>1. Takes(r, t, i)
      BY <1>1, <1>5
    <2>2. i \in DOMAIN r.calls /\ Next_(r, i)
      BY <1>1, <1>5 DEF IsPlaced, Next_, SameEnding
    <2>3. Turned(r, t, i)
      BY <1>3, <2>1, <2>2, TakesTurned
    <2>4. Still(s, t)
      BY <1>4, <2>3 DEF Still, Turned
    <2>5. CASE Hushed(r, t)
      BY <1>4, <2>4, <2>5 DEF Turned, Hushed, Kin
    <2>6. CASE Speaks(r, t, i, "error")
      <3>1. Speaks(s, t, i, "error")
        BY <1>4, <2>6 DEF Speaks, Hushed, Kin
      <3> QED BY <2>4, <3>1 DEF Turned
    <2> QED BY <2>3, <2>5, <2>6 DEF Turned
  <1>6. CASE ~(s.tail = Nobody /\ s.abandoned = Nobody)
    <2>1. t = r
      BY <1>1, <1>6
    <2> QED BY <1>4, <2>1 DEF Turned
  <1> QED BY <1>5, <1>6

(* A call's turn, as a step of AtomicTx.                                    *)
LEMMA MapTurned ==
    ASSUME NEW s, NEW t, NEW i \in DOMAIN s.calls, Inv(s), Turned(s, t, i)
    PROVE  Mapped(s, t)
  BY MapStill, MapRefuses DEF Turned

(* A call made is asked for in AtomicTx, and may be refused at once.        *)
LEMMA MapCalls ==
    ASSUME NEW s, NEW t, Inv(s), Inv(t), Calls_(s, t)
    PROVE  Mapped(s, t)
  <1>1. /\ s.begun /\ s.ending = "none" /\ s.pc = "callback"
    BY DEF Calls_, Inv, Steady
  <1>2. PICK c \in Call : Fresh(c) /\ Makes(s, t, c)
    BY DEF Calls_
  <1>3. PICK r \in States :
           /\ IsMade(s, r, c) /\ TypeInv(r)
           /\ IF c.kind = "gen" THEN t = r ELSE Enqueues(r, t, Len(s.calls) + 1)
    BY <1>2 DEF Makes
  <1>4. Inv(r)
    BY <1>1, <1>2, <1>3, InvMade
  <1> DEFINE i == Len(s.calls) + 1
  <1>5. /\ r.ending = "none" /\ r.pc = "callback" /\ r.calls = Append(s.calls, c)
    BY <1>1, <1>3 DEF IsMade, SameEnding, SamePc
  <1>6. /\ DOMAIN r.calls = 1 .. i /\ r.calls[i] = c
        /\ \A j \in DOMAIN s.calls : r.calls[j] = s.calls[j] /\ j # i /\ j \in DOMAIN r.calls
        /\ i \in DOMAIN r.calls
    <2>1. s.calls \in Seq(Call) /\ Len(s.calls) \in Nat /\ DOMAIN s.calls = 1 .. Len(s.calls)
      BY CallsAre DEF Inv, TypeInv
    <2> QED BY <1>5, <2>1
  <1>7. c.pc = "fresh" /\ c.told = "nothing"
    BY <1>2 DEF Fresh
  <1>8. Still(s, r)
    BY <1>3, SameStill DEF IsMade
  <1> HIDE DEF i
  <1>9. Turned(r, t, i)
    <2>1. CASE c.kind = "gen"
      <3>1. t = r
        BY <1>3, <2>1
      <3>2. Hushed(r, t) /\ Still(r, t)
        BY <3>1, SameHushed, StillIs
      <3> QED BY <3>2 DEF Turned
    <2>2. CASE c.kind # "gen"
      <3>1. Enqueues(r, t, i)
        BY <1>3, <2>2 DEF i
      <3> QED BY <1>4, <1>5, <1>6, <1>7, <3>1, EnqueuesTurned
    <2> QED BY <2>1, <2>2
  <1>10. /\ DOMAIN t.calls = 1 .. i
         /\ \A j \in DOMAIN s.calls : Kin(t.calls[j], s.calls[j]) /\ t.calls[j].told = s.calls[j].told
         /\ Kin(t.calls[i], c) /\ t.calls[i].told \in {"nothing", "error"}
    BY <1>6, <1>7, <1>9 DEF Turned, Hushed, Speaks
  <1>11. Still(s, t)
    BY <1>8, <1>9 DEF Turned, Still
  <1> QED BY <1>7, <1>10, <1>11, MapAsks DEF i, Inv

(* A generator never pulled is refused when it is shut.                     *)
LEMMA MapShut ==
    ASSUME NEW s, NEW t, NEW i \in DOMAIN s.calls, Inv(s), More(s), IsShut(s, t, i),
           s.calls[i].pc = "fresh"
    PROVE  Mapped(s, t)
  <1>1. s.calls[i].told = "nothing"
    BY DEF More, Promises
  <1>2. Speaks(s, t, i, "closed")
    BY <1>1 DEF IsShut, Speaks
  <1>3. Still(s, t)
    BY SameStill DEF IsShut
  <1> QED BY <1>2, <1>3, MapRefuses

(* A waiting call goes on, or is refused.                                   *)
LEMMA MapWaits ==
    ASSUME NEW s, NEW t, NEW i \in DOMAIN s.calls, Inv(s),
           \/ Turns(s, t, i) \/ Rejects(s, t, i) \/ Skips(s, t, i)
           \/ \E open \in BOOLEAN : Answers(s, t, i, open)
    PROVE  Mapped(s, t)
  <1>1. CASE IsSettled(s, t, i, "closed") \/ IsSettled(s, t, i, "cut")
    BY <1>1, MapSettled
  <1>2. CASE Turns(s, t, i) /\ s.ending = "none"
    <2>1. Next_(s, i) /\ Takes(s, t, i)
      BY <1>2 DEF Turns, Next_
    <2> QED BY <2>1, TakesTurned, MapTurned
  <1>3. CASE \E open \in BOOLEAN : Answers(s, t, i, open)
    <2>1. PICK open \in BOOLEAN : Answers(s, t, i, open)
      BY <1>3
    <2>2. s.calls[i].pc = "asking" /\ ~s.cut /\ Starts(s, t, i, open)
      BY <2>1 DEF Answers
    <2>3. s.abandoned = Nobody /\ s.ending = "none"
      BY <2>2 DEF Inv, Flight
    <2>4. s.calls[i].prior = Nobody
      BY <2>2, QueueFirst DEF Inv, InLine
    <2>5. Next_(s, i)
      BY <2>2, <2>3, <2>4 DEF Next_
    <2> QED BY <2>2, <2>5, StartsTurned, MapTurned
  <1> QED BY <1>1, <1>2, <1>3 DEF Turns, Rejects, Skips

(* A call given up by its own signal is refused.                            *)
LEMMA MapCutsOwn ==
    ASSUME NEW s, NEW t, NEW i \in DOMAIN s.calls, Inv(s), CutsOwn(s, t, i)
    PROVE  Mapped(s, t)
  <1>1. CASE IsSettled(s, t, i, "cut")
    BY <1>1, MapSettled
  <1>2. CASE IsAbandoned(s, t, i)
    <2>1. Speaks(s, t, i, "cut")
      BY <1>2 DEF IsAbandoned, Speaks
    <2>2. Still(s, t)
      BY <1>2, SameStill DEF IsAbandoned
    <2> QED BY <2>1, <2>2, MapRefuses
  <1>3. CASE IsStopped(s, t)
    BY <1>3, CutHushed, MapStill
  <1>4. CASE \E r \in States : IsStopped(s, r) /\ IsMoved(r, t, i, "stopping")
    <2>1. PICK r \in States : IsStopped(s, r) /\ IsMoved(r, t, i, "stopping")
      BY <1>4
    <2>2. Hushed(s, r) /\ Still(s, r)
      BY <2>1, CutHushed
    <2>3. Hushed(r, t) /\ Still(r, t)
      BY <2>1, MovedHushed
    <2>4. Hushed(s, t) /\ Still(s, t)
      BY <2>2, <2>3 DEF Hushed, Still, Kin
    <2> QED BY <2>4, MapStill
  <1> QED BY <1>1, <1>2, <1>3, <1>4 DEF CutsOwn

(* The start of the unwinding tells nobody anything.                        *)
LEMMA FailsHushed ==
    ASSUME NEW s, NEW t, Fails_(s, t)
    PROVE  t.calls = s.calls /\ t.ledger = s.ledger /\ t.db = s.db /\ t.conn = s.conn /\ t.pc = "unwinding"
  <1>1. PICK r \in States :
          /\ Dies(s, r) /\ SameLine(r, t) /\ SameData(r, t) /\ t.pc = "unwinding"
    BY DEF Fails_
  <1>2. r = s \/ (SameLine(s, r) /\ SameData(s, r))
    BY <1>1 DEF Dies, IsCut
  <1> QED BY <1>1, <1>2 DEF SameLine, SameData

(* The worker tells nobody anything by itself.                              *)
LEMMA WorkedHushed ==
    ASSUME NEW s, NEW t, NEW conn, NEW db, NEW stage, NEW failed,
           IsWorked(s, t, conn, db, stage, failed)
    PROVE  /\ Hushed(s, t) /\ t.pc = s.pc /\ t.ledger = s.ledger /\ t.conn = conn /\ t.db = db
  BY SameHushed DEF IsWorked, SameLine, SamePc

(* Only a COMMIT writes the file when the transaction is open.              *)
LEMMA CommitWrites ==
    ASSUME NEW conn, NEW m, m.verb = "commit"
    PROVE  Written(conn, m) = Effects(conn.log)
  BY DEF Written

(* Nothing else is written while the transaction is open.                   *)
LEMMA NothingWritten ==
    ASSUME NEW conn, NEW m, m.verb # "commit", conn.in \/ m.verb # "write"
    PROVE  Written(conn, m) = {}
  <1>1. ~(m.verb = "write" /\ ~conn.in)
    OBVIOUS
  <1> QED BY <1>1, Zenon DEF Written

(* A query that succeeds ends the transaction when it is a COMMIT or a      *)
(* ROLLBACK, and is not seen otherwise.                                     *)
LEMMA MapSucceeds ==
    ASSUME NEW s, NEW t, Inv(s), More(s), Succeeded(s, t)
    PROVE  Mapped(s, t)
  <1> DEFINE m == s.busy
             conn == Ran(Begun(s), m)
             db == s.db \cup Written(Begun(s), m)
  <1>1. ~IsIdle(s) /\ m.stage = "posted" /\ IsWorked(s, t, conn, db, Stage(s), m.failed)
    BY DEF Succeeded
  <1>2. Hushed(s, t) /\ t.pc = s.pc /\ t.ledger = s.ledger /\ t.conn = conn /\ t.db = db
    BY <1>1, WorkedHushed
  <1>3. /\ Begun(s).in <=> m.verb # "begin"
        /\ s.conn.in <=> m.verb # "begin"
        /\ Live(s) /\ Part(s) # "dropping" => Begun(s).log = Base(s.ledger, m.open)
        /\ s.db = {}
    BY <1>1, BegunIs
  <1>4. m.verb = "commit" => ~m.open /\ Part(s) # "dropping" /\ s.pc \notin {"acquiring", "begin"}
    <2>1. /\ m.verb \notin {"read", "write"} => ~m.open
          /\ Part(s) = "dropping" => m.verb = "release"
          /\ m.verb = "begin" \/ ~s.begun => m.verb = "begin"
      BY <1>1, InFlight
    <2> QED BY <2>1 DEF Inv, Stages
  <1>5. m.verb = "commit" => Begun(s).log = s.ledger
    BY <1>1, <1>3, <1>4 DEF Live, Base
  <1>6. db = IF m.verb = "commit" THEN Effects(s.ledger) ELSE {}
    <2> DEFINE b == Begun(s)
    <2>1. m.verb = "commit" => Written(b, m) = Effects(b.log)
      BY CommitWrites
    <2>2. m.verb # "commit" => Written(b, m) = {}
      BY <1>3, NothingWritten
    <2> QED BY <1>3, <1>5, <2>1, <2>2
  <1>7. conn.in <=> m.verb \notin {"commit", "rollback"}
    <2> DEFINE b == Begun(s)
    <2> HIDE DEF b, m
    <2> QED BY <1>3 DEF Ran, b
  <1>8. CASE m.verb \in {"commit", "rollback"}
    BY <1>2, <1>3, <1>4, <1>6, <1>7, <1>8, MapEnds
  <1>9. CASE m.verb = "begin"
    <2>1. s.pc = "begin"
      BY <1>1, <1>9, InFlight DEF Inv, Carries
    <2>2. Still(s, t)
      BY <1>2, <1>3, <1>6, <1>9, <2>1 DEF Still, Over
    <2> QED BY <1>2, <2>2, MapStill
  <1>10. CASE m.verb \notin {"begin", "commit", "rollback"}
    <2>1. Still(s, t)
      BY <1>2, <1>3, <1>6, <1>7, <1>10 DEF Still, Over
    <2> QED BY <1>2, <2>1, MapStill
  <1> QED BY <1>8, <1>9, <1>10

(* One that fails leaves the transaction open, or ends it.                  *)
LEMMA MapFails ==
    ASSUME NEW s, NEW t, Inv(s), More(s), Failed(s, t) \/ Departs(s, t)
    PROVE  Mapped(s, t)
  <1>1. ~IsIdle(s) /\ s.busy.stage = "posted"
    BY DEF Failed, Departs
  <1>2. CASE Failed(s, t)
    <2>1. Hushed(s, t) /\ t.pc = s.pc /\ t.ledger = s.ledger /\ t.conn = Begun(s) /\ t.db = s.db
      <3>1. IsWorked(s, t, Begun(s), s.db, "ended", TRUE)
        BY <1>2 DEF Failed
      <3> QED BY <3>1, SameHushed DEF IsWorked, SameLine, SamePc
    <2>2. Begun(s).in <=> s.conn.in
      BY <1>1, BegunIs
    <2>3. Still(s, t)
      BY <2>1, <2>2 DEF Still, Over
    <2> QED BY <2>1, <2>3, MapStill
  <1>3. CASE Departs(s, t)
    <2>1. Hushed(s, t) /\ t.pc = s.pc /\ t.ledger = s.ledger /\ t.conn = OutOfTransaction /\ t.db = s.db
      <3>1. IsWorked(s, t, OutOfTransaction, s.db, "ended", TRUE)
        BY <1>3 DEF Departs
      <3> QED BY <3>1, SameHushed DEF IsWorked, SameLine, SamePc
    <2> QED BY <2>1, MapEnds DEF OutOfTransaction
  <1> QED BY <1>2, <1>3

(* The worker's death ends the transaction without effect.                  *)
LEMMA MapCrashed ==
    ASSUME NEW s, NEW t, IsCrashed(s, t)
    PROVE  Mapped(s, t)
  <1>1. Hushed(s, t) /\ t.pc = s.pc /\ t.ledger = s.ledger /\ ~t.conn.in /\ t.db = s.db
    BY SameHushed DEF IsCrashed, SameLine, SamePc, OutOfTransaction
  <1> QED BY <1>1, MapEnds

(* The rows of a generator: its write is counted, or nobody is told.        *)
LEMMA MapRows ==
    ASSUME NEW s, NEW t, Inv(s), More(s), ~IsIdle(s), s.busy.call \in DOMAIN s.calls,
           Drains(s, t) \/ Delivers(s, t)
    PROVE  Mapped(s, t)
  <1>1. CASE Drains(s, t)
    <2>1. Hushed(s, t) /\ t.pc = s.pc /\ t.ledger = s.ledger /\ t.conn = s.conn /\ t.db = s.db
      BY <1>1, WorkedHushed DEF Drains
    <2> QED BY <2>1, StillIs, MapStill
  <1>2. CASE Delivers(s, t)
    <2> DEFINE i == s.busy.call
    <2>1. /\ SamePc(s, t) /\ t.conn = s.conn /\ t.db = s.db
          /\ t.ledger = Append(s.ledger, Effect(i))
          /\ DOMAIN t.calls = DOMAIN s.calls
          /\ \A j \in DOMAIN s.calls :
                /\ Kin(t.calls[j], s.calls[j])
                /\ t.calls[j].told = IF j = i /\ s.calls[j].told = "nothing" THEN "ok"
                                     ELSE s.calls[j].told
          /\ s.calls[i].pc = "running" /\ s.busy.stage = "affected" /\ ~s.busy.stop
      BY <1>2, DeliversIs
    <2>2. Speaks(s, t, i, "ok")
      BY <2>1 DEF Speaks
    <2>3. s.calls[i].told = "nothing"
      BY <2>1 DEF More, Promises
    <2>4. s.calls[i].kind = "gen" /\ i # 0 /\ s.calls[i] \in Call
      BY <2>1, CallRange, CallsAre DEF Inv, TypeInv, Carries
    <2>5. Account(s.ledger, s.calls[i], i) = Append(s.ledger, Effect(i))
      <3>1. VerbOf(s.calls[i]) = "write"
        BY <2>4, VerbIs DEF VerbOfKind
      <3> QED BY <2>4, <3>1, AccountOfWrite
    <2>6. ~Over(s)
      <3>1. ~s.busy.failed /\ s.busy.verb = "write"
        BY <2>1, InFlight DEF Inv, Connection
      <3>2. s.conn.in
        BY <2>1, <3>1 DEF More, Within
      <3> QED BY <3>2 DEF Over
    <2>7. ~Over(t)
      BY <2>1, <2>6 DEF Over, SamePc
    <2> QED BY <2>1, <2>2, <2>3, <2>4, <2>5, <2>6, <2>7, MapGrants
  <1> QED BY <1>1, <1>2

(* A call is over: what its caller is told.                                 *)
LEMMA MapOver ==
    ASSUME NEW s, NEW t, NEW i \in DOMAIN s.calls, NEW v \in {"ok", "error", "cut", "closed"},
           Inv(s), More(s),
           ~IsIdle(s), i = s.busy.call, s.busy.stage = "ended",
           IsOver(s, t, i), IsPassed(s, t, i, v),
           v = "ok" => ~s.busy.failed,
           t.ledger = IF v = "ok" /\ s.calls[i].told = "nothing"
                         /\ s.calls[i].kind \notin {"commit", "rollback"}
                      THEN Account(s.ledger, s.calls[i], i) ELSE s.ledger
    PROVE  Mapped(s, t)
  <1>1. Speaks(s, t, i, v) /\ t.pc = s.pc /\ t.conn = s.conn /\ t.db = s.db
    BY DEF Speaks, IsOver, IsPassed
  <1>2. CASE s.calls[i].told # "nothing" \/ v # "ok"
    <2>1. Still(s, t)
      BY <1>1, <1>2, StillIs
    <2>2. CASE v # "ok"
      BY <1>1, <2>1, <2>2, MapRefuses
    <2>3. CASE s.calls[i].told # "nothing"
      <3>1. Hushed(s, t)
        BY <1>1, <2>3 DEF Hushed, Speaks
      <3> QED BY <2>1, <3>1, MapStill
    <2> QED BY <1>2, <2>2, <2>3
  <1>3. CASE s.calls[i].told = "nothing" /\ v = "ok" /\ s.calls[i].kind \in {"commit", "rollback"}
    <2>1. Apart(s, t, i)
      BY <1>1, AsksTheSame DEF Apart, Alike, Speaks
    <2>2. Alike(s, t, i)
      <3>1. AskOf(t, i) = AskOf(s, i)
        BY <1>1, AsksTheSame DEF Speaks
      <3> QED BY <1>1, <1>3, <3>1 DEF Alike, TellOf, Speaks, Kin
    <2>3. Still(s, t)
      BY <1>1, <1>3, StillIs
    <2> QED BY <2>1, <2>2, <2>3 DEF Apart, Mapped
  <1>4. CASE s.calls[i].told = "nothing" /\ v = "ok" /\ s.calls[i].kind \notin {"commit", "rollback"}
    <2>1. ~Over(s)
      <3>1. s.busy.verb = (IF s.calls[i].pc = "dropping" THEN "release" ELSE VerbOfKind(s.calls[i].kind))
        BY Ending
      <3>2. s.busy.verb \notin {"commit", "rollback"}
        BY <1>4, <3>1 DEF VerbOfKind
      <3>3. s.conn.in
        BY <1>4, <3>2 DEF More, Within
      <3> QED BY <3>3 DEF Over
    <2>2. ~Over(t)
      BY <1>1, <2>1 DEF Over
    <2> QED BY <1>1, <1>4, <2>1, <2>2, MapGrants
  <1> QED BY <1>2, <1>3, <1>4

(* The page's steps: a success is entered when its caller hears of it.      *)
LEMMA MapHears ==
    ASSUME NEW s, NEW t, Inv(s), More(s), Hears(s, t)
    PROVE  Mapped(s, t)
  <1> DEFINE i == s.busy.call
  <1>1. ~IsIdle(s) /\ s.busy.stage = "ended" /\ i \in DOMAIN s.calls
    BY DEF Hears
  <1>2. CASE OversLeft(s, t, i)
    <2>1. Hushed(s, t)
      BY <1>2 DEF OversLeft, IsOver, Hushed
    <2>2. Still(s, t)
      BY <1>2, StillIs DEF OversLeft, IsOver
    <2> QED BY <2>1, <2>2, MapStill
  <1>3. CASE OversStatement(s, t, i)
    <2> DEFINE v == Verdict(s.calls[i], s.busy)
    <2>1. v \in {"ok", "error", "cut", "closed"} /\ (v = "ok" => ~s.busy.failed)
      BY DEF Verdict
    <2>2. s.calls[i].kind \notin {"commit", "rollback"}
      BY <1>3 DEF OversStatement, Statement
    <2>3. /\ IsOver(s, t, i) /\ IsPassed(s, t, i, v)
          /\ t.ledger = IF v = "ok" /\ s.calls[i].told = "nothing"
                        THEN Account(s.ledger, s.calls[i], i) ELSE s.ledger
      BY <1>3 DEF OversStatement
    <2> HIDE DEF v
    <2> QED BY <1>1, <2>1, <2>2, <2>3, MapOver
  <1>4. CASE OversRefusal(s, t, i)
    BY <1>1, <1>4, MapOver DEF OversRefusal
  <1>5. CASE OversHalf(s, t, i)
    BY <1>1, <1>5, MapOver DEF OversHalf
  <1>6. CASE GoesOn(s, t, i)
    <2>1. Hushed(s, t)
      BY <1>6 DEF GoesOn, Stepped, Hushed
    <2>2. Still(s, t)
      BY <1>6, SameStill DEF GoesOn
    <2> QED BY <2>1, <2>2, MapStill
  <1>7. CASE OversControl(s, t, i)
    <2>1. s.calls[i].told = "nothing" /\ s.calls[i].kind \notin {"commit", "rollback"}
      <3>1. s.calls[i].pc \in {"running", "stopping", "dropping"} => s.calls[i].told = "nothing"
        BY <1>1, Ending
      <3>2. s.calls[i].pc \in {"running", "delivering", "stopping", "dropping"}
        BY <1>1, <1>7, Ending DEF OversControl, Working
      <3>3. s.calls[i].pc # "delivering"
        <4>1. s.calls[i].pc = "delivering" => s.busy.verb = "write"
          BY <1>1, Ending
        <4>2. s.busy.verb = (IF s.calls[i].pc = "dropping" THEN "release" ELSE VerbOfKind(s.calls[i].kind))
          BY <1>1, Ending
        <4> QED BY <1>7, <4>1, <4>2 DEF OversControl, VerbOfKind, SavepointVerbs
      <3> QED BY <1>7, <3>1, <3>2, <3>3 DEF OversControl, SavepointVerbs
    <2> QED BY <1>1, <1>7, <2>1, MapOver DEF OversControl
  <1>8. CASE OversEnding(s, t, i)
    BY <1>1, <1>8, MapOver DEF OversEnding
  <1> QED BY <1>2, <1>3, <1>4, <1>5, <1>6, <1>7, <1>8 DEF Hears

(* The transaction's own steps: the calls and the data stay.                *)
LEMMA MapOn ==
    ASSUME NEW s, NEW t, t.calls = s.calls, t.ledger = s.ledger, t.db = s.db, t.conn = s.conn,
           s.pc \in {"acquiring", "begin"} \/ t.pc \notin {"acquiring", "begin"}
    PROVE  Mapped(s, t)
  <1>1. Hushed(s, t)
    BY SameHushed
  <1>2. Still(s, t) \/ Ended_(s, t)
    BY DEF Still, Ended_, Over
  <1> QED BY <1>1, <1>2, MapStill

(* The replies to the transaction's own queries are stutters.               *)
LEMMA MapHearsOwn ==
    ASSUME NEW s, NEW t, Inv(s), HearsBegin(s, t) \/ HearsConclusion(s, t) \/ HearsRollback(s, t)
    PROVE  Mapped(s, t)
  <1>1. s \in States
    BY DEF Inv, TypeInv
  <1>2. OversBegin(s, t) \/ OversConclusion(s, t) \/ OversRollback(s, t)
    BY <1>1, OversBeginIs, OversConclusionIs, OversRollbackIs
  <1>3. OwnOver(s, t) /\ t.pc \notin {"acquiring", "begin"}
    BY <1>2 DEF OversBegin, OversConclusion, OversRollback, Unwinding
  <1> QED BY <1>3, MapOn DEF OwnOver, SameLine, SameData

(* The transaction's own steps are stutters, or refuse a generator.         *)
LEMMA MapItself ==
    ASSUME NEW s, NEW t, Inv(s), More(s),
           \/ Acquires(s, t) \/ Returns(s, t) \/ Closes(s, t) \/ Readies(s, t) \/ Concludes(s, t)
           \/ Unwinds(s, t) \/ Finishes(s, t) \/ Releases(s, t)
    PROVE  Mapped(s, t)
  <1>1. CASE \E p : IsAt(s, t, p) /\ p \notin {"acquiring", "begin"}
    BY <1>1, MapOn DEF IsAt, SameLine, SameData
  <1>2. CASE \E verb, p : IsOwn(s, t, verb, p) /\ (p # "begin" \/ s.pc = "acquiring") /\ p # "acquiring"
    BY <1>2, MapOn DEF IsOwn, SameLine, SameData
  <1>3. CASE Fails_(s, t)
    BY <1>3, FailsHushed, MapOn
  <1>4. CASE Acquires(s, t)
    BY <1>1, <1>2, <1>4 DEF Acquires, Goes
  <1>5. CASE Returns(s, t) \/ Finishes(s, t) \/ Releases(s, t) \/ Readies(s, t)
    BY <1>1, <1>5 DEF Returns, Finishes, Releases, Readies, Goes
  <1>6. CASE Concludes(s, t)
    BY <1>2, <1>3, <1>6 DEF Concludes
  <1>7. CASE Unwinds(s, t)
    BY <1>1, <1>2, <1>7 DEF Unwinds, Goes
  <1>8. CASE Closes(s, t)
    <2>1. s.closing \subseteq DOMAIN s.calls /\ s.pc \in {"closing", "unwinding"}
      BY <1>8 DEF Closes, Inv, TypeInv, Bounds
    <2>2. PICK i \in s.closing :
            \/ IsAt(s, t, s.pc)
            \/ s.calls[i].pc = "fresh" /\ IsShut(s, t, i)
            \/ IsStopped(s, t)
      BY <1>8 DEF Closes
    <2>3. CASE IsAt(s, t, s.pc)
      BY <1>1, <2>1, <2>3
    <2>4. CASE s.calls[i].pc = "fresh" /\ IsShut(s, t, i)
      BY <2>1, <2>4, MapShut
    <2>5. CASE IsStopped(s, t)
      BY <2>5, CutHushed, MapStill
    <2> QED BY <2>2, <2>3, <2>4, <2>5
  <1> QED BY <1>4, <1>5, <1>6, <1>7, <1>8

(* A generator pulled is a stutter, or refused.                             *)
LEMMA MapPulls ==
    ASSUME NEW s, NEW t, NEW i \in DOMAIN s.calls, Inv(s), More(s), Pulls(s, t, i)
    PROVE  Mapped(s, t)
  <1>1. s.pc = "callback" /\ s.calls[i].pc = "fresh"
    BY DEF Pulls, Inv, Steady
  <1>2. CASE s.ending = "none"
    <2>1. Enqueues(s, t, i)
      BY <1>2 DEF Pulls
    <2> QED BY <1>1, <1>2, <2>1, EnqueuesTurned, MapTurned
  <1>3. CASE s.ending # "none"
    <2>1. IsShut(s, t, i)
      BY <1>3 DEF Pulls
    <2> QED BY <1>1, <2>1, MapShut
  <1> QED BY <1>2, <1>3

(* Every step is a step of AtomicTx, or a stutter.                          *)
LEMMA MapActs ==
    ASSUME NEW s, NEW t, Inv(s), Inv(t), More(s), Acts(s, t)
    PROVE  Mapped(s, t)
  <1>1. CASE Calls_(s, t)
    BY <1>1, MapCalls
  <1>2. CASE \E i \in DOMAIN s.calls : Pulls(s, t, i)
    BY <1>2, MapPulls
  <1>3. CASE Fails_(s, t)
    BY <1>3, FailsHushed, MapOn
  <1>4. CASE IsCut(s, t)
    BY <1>4, CutHushed, MapStill
  <1>5. CASE \E i \in DOMAIN s.calls : CutsOwn(s, t, i)
    BY <1>5, MapCutsOwn
  <1>6. CASE \E i \in DOMAIN s.calls :
                \/ Turns(s, t, i) \/ Rejects(s, t, i) \/ Skips(s, t, i)
                \/ \E open \in BOOLEAN : Answers(s, t, i, open)
    BY <1>6, MapWaits
  <1>7. CASE Succeeded(s, t) \/ Failed(s, t) \/ Departs(s, t)
    BY <1>7, MapSucceeds, MapFails
  <1>8. CASE IsCrashed(s, t)
    BY <1>8, MapCrashed
  <1>9. CASE Hears(s, t)
    BY <1>9, MapHears
  <1>10. CASE ~IsIdle(s) /\ s.busy.call \in DOMAIN s.calls /\ (Drains(s, t) \/ Delivers(s, t))
    BY <1>10, MapRows
  <1>11. CASE HearsBegin(s, t) \/ HearsConclusion(s, t) \/ HearsRollback(s, t)
    BY <1>11, MapHearsOwn
  <1>12. CASE \/ Acquires(s, t) \/ Returns(s, t) \/ Closes(s, t) \/ Readies(s, t) \/ Concludes(s, t)
              \/ Unwinds(s, t) \/ Finishes(s, t) \/ Releases(s, t)
    BY <1>12, MapItself
  <1> QED BY <1>1, <1>2, <1>3, <1>4, <1>5, <1>6, <1>7, <1>8, <1>9, <1>10, <1>11, <1>12 DEF Acts

(* AtomicTx writes its account with the same operators.                     *)
LEMMA SameEntries ==
    ASSUME NEW l, NEW n, NEW i
    PROVE  /\ Abstract!Effect(i) = Effect(i) /\ Abstract!Mark(n) = Mark(n)
           /\ Abstract!Effects(l) = Effects(l)
  BY DEF Abstract!Effect, Effect, Abstract!Mark, Mark, Abstract!Effects, Effects, Abstract!IsEffect, IsEffect

(* The mark a name addresses is the same.                                   *)
LEMMA SameMarkAt ==
    ASSUME NEW l, NEW n
    PROVE  Abstract!MarkAt(l, n) = MarkAt(l, n)
  BY DEF Abstract!MarkAt, MarkAt, Abstract!Mark, Mark, Abstract!SelectLastInSeq, SelectLastInSeq,
         Max, Abstract!Max

(* The writes of a journal are the same.                                    *)
LEMMA SameWrites ==
    ASSUME NEW l
    PROVE  Abstract!Writes(l) = Writes(l)
  BY DEF Abstract!Writes, Writes, Abstract!IsEffect, IsEffect

(* What a rollback to a mark and a release leave is the same.               *)
LEMMA SameUndo ==
    ASSUME NEW l, NEW n
    PROVE  /\ Abstract!RolledBackTo(l, n) = RolledBackTo(l, n)
           /\ Abstract!Released(l, n) = Released(l, n)
  BY SameMarkAt, SameWrites DEF Abstract!RolledBackTo, RolledBackTo, Abstract!Released, Released

(* The mapping of Atomic, by what a call asks for and what it was told.     *)
LEMMA VerbCase ==
    ASSUME NEW c \in Call
    PROVE  VerbAsked(c) = CASE VerbOf(c) = "write"               -> "write"
                            [] c.kind = "rollbackTo" /\ c.keep   -> "undo"
                            [] c.kind = "rollbackTo" /\ ~c.keep  -> "drop"
                            [] OTHER                             -> c.kind
  <1>1. c.kind \in CallKinds /\ c.keep \in BOOLEAN /\ VerbOf(c) = VerbOfKind(c.kind)
    BY VerbIs DEF Call
  <1>2. CASE c.kind \in {"write", "gen", "batch"}
    BY <1>1, <1>2 DEF VerbAsked, VerbOfKind
  <1>3. CASE c.kind = "rollbackTo" /\ c.keep
    BY <1>1, <1>3 DEF VerbAsked, VerbOfKind
  <1>4. CASE c.kind = "rollbackTo" /\ ~c.keep
    BY <1>1, <1>4 DEF VerbAsked, VerbOfKind
  <1>5. CASE c.kind \in {"read", "savepoint", "release", "commit", "rollback"}
    BY <1>1, <1>5 DEF VerbAsked, VerbOfKind
  <1> QED BY <1>1, <1>2, <1>3, <1>4, <1>5 DEF CallKinds

(* The mapping, in the state a step starts from.                            *)
LEMMA AskedIs ==
    ASSUME TypeInv(x)
    PROVE  \A i \in Calls : AskedOf(i) = AskOf(x, i) /\ ToldOf(i) = TellOf(x, i)
  <1> SUFFICES ASSUME NEW i \in Calls
               PROVE  AskedOf(i) = AskOf(x, i) /\ ToldOf(i) = TellOf(x, i)
    OBVIOUS
  <1>1. CASE i \notin DOMAIN x.calls \/ x.calls[i].kind \in {"read", "commit", "rollback"}
    BY <1>1 DEF AskedOf, ToldOf, AskOf, TellOf, None
  <1>2. CASE ~(i \notin DOMAIN x.calls \/ x.calls[i].kind \in {"read", "commit", "rollback"})
    <2>1. x.calls[i] \in Call
      BY <1>2, CallsAre DEF TypeInv
    <2>2. AskedOf(i) = [name |-> x.calls[i].name, verb |-> VerbAsked(x.calls[i])]
      BY <1>2, <2>1, VerbCase, Zenon DEF AskedOf
    <2>3. AskedOf(i) = AskOf(x, i)
      BY <1>2, <2>2 DEF AskOf
    <2>4. AskOf(x, i).verb \in {"write", "savepoint", "release", "undo", "drop"}
          /\ TellOf(x, i) = x.calls[i].told
      BY <1>2, <2>1, AskIs
    <2> QED BY <2>3, <2>4 DEF ToldOf
  <1> QED BY <1>1, <1>2

(* The mapping, in the state it ends in.                                    *)
LEMMA AskedNext ==
    ASSUME TypeInv(x')
    PROVE  \A i \in Calls : AskedOf(i)' = AskOf(x', i) /\ ToldOf(i)' = TellOf(x', i)
  <1> SUFFICES ASSUME NEW i \in Calls
               PROVE  AskedOf(i)' = AskOf(x', i) /\ ToldOf(i)' = TellOf(x', i)
    OBVIOUS
  <1>1. CASE i \notin DOMAIN x'.calls \/ x'.calls[i].kind \in {"read", "commit", "rollback"}
    BY <1>1 DEF AskedOf, ToldOf, AskOf, TellOf, None
  <1>2. CASE ~(i \notin DOMAIN x'.calls \/ x'.calls[i].kind \in {"read", "commit", "rollback"})
    <2>1. x'.calls[i] \in Call
      BY <1>2, CallsAre DEF TypeInv
    <2>2. AskedOf(i)' = [name |-> x'.calls[i].name, verb |-> VerbAsked(x'.calls[i])]
      BY <1>2, <2>1, VerbCase, Zenon DEF AskedOf
    <2>3. AskedOf(i)' = AskOf(x', i)
      BY <1>2, <2>2 DEF AskOf
    <2>4. AskOf(x', i).verb \in {"write", "savepoint", "release", "undo", "drop"}
          /\ TellOf(x', i) = x'.calls[i].told
      BY <1>2, <2>1, AskIs
    <2> QED BY <2>3, <2>4 DEF ToldOf
  <1> QED BY <1>1, <1>2

(* Only the entry of call i changes.                                        *)
LEMMA OnlyOne ==
    ASSUME NEW f, NEW g, NEW i \in Calls, f = [j \in Calls |-> f[j]], g = [j \in Calls |-> g[j]],
           \A j \in Calls : j # i => g[j] = f[j]
    PROVE  g = [f EXCEPT ![i] = g[i]]
  OBVIOUS

AskedMap == [i \in Calls |-> AskedOf(i)]
ToldMap == [i \in Calls |-> ToldOf(i)]

(* What a step of the transaction is to AtomicTx.                           *)
LEMMA MappedSteps ==
    ASSUME TypeInv(x), TypeInv(x'), Mapped(x, x')
    PROVE  [Abstract!Next]_(Abstract!vars)
  <1>1. /\ AskedMap = [i \in Calls |-> AskedMap[i]] /\ AskedMap' = [i \in Calls |-> AskedMap'[i]]
        /\ ToldMap = [i \in Calls |-> ToldMap[i]] /\ ToldMap' = [i \in Calls |-> ToldMap'[i]]
    BY DEF AskedMap, ToldMap
  <1>2. \A i \in Calls : /\ AskedMap[i] = AskOf(x, i) /\ AskedMap'[i] = AskOf(x', i)
                         /\ ToldMap[i] = TellOf(x, i) /\ ToldMap'[i] = TellOf(x', i)
    BY AskedIs, AskedNext DEF AskedMap, ToldMap
  <1>3. CASE Apart(x, x', 0) /\ (Still(x, x') \/ Ended_(x, x'))
    <2>1. AskedMap' = AskedMap /\ ToldMap' = ToldMap
      <3>1. \A i \in Calls : i # 0
        BY TransactionAssumption DEF Calls
      <3>2. \A i \in Calls : AskedMap'[i] = AskedMap[i] /\ ToldMap'[i] = ToldMap[i]
        BY <1>2, <1>3, <3>1 DEF Apart, Alike
      <3> QED BY <1>1, <3>2
    <2>2. CASE Still(x, x')
      BY <2>1, <2>2 DEF Abstract!vars, Still, Over, AskedMap, ToldMap
    <2>3. CASE Ended_(x, x')
      <3>1. Abstract!Abort \/ Abstract!Commit
        <4>1. /\ ~(x.pc \notin {"acquiring", "begin"} /\ ~x.conn.in)
              /\ x'.pc \notin {"acquiring", "begin"} /\ ~x'.conn.in
              /\ x'.ledger = x.ledger
              /\ x'.db = x.db \/ x'.db = Effects(x.ledger)
          BY <2>3 DEF Ended_, Over
        <4>2. (x'.pc \notin {"acquiring", "begin"} /\ ~x'.conn.in) = TRUE
          BY <4>1
        <4>3. CASE x'.db = x.db
          BY <2>1, <4>1, <4>2, <4>3, Zenon DEF Abstract!Abort, AskedMap, ToldMap
        <4>4. CASE x'.db = Effects(x.ledger)
          BY <2>1, <4>1, <4>2, <4>4, SameEntries, Zenon DEF Abstract!Commit, AskedMap, ToldMap
        <4> QED BY <4>1, <4>3, <4>4
      <3> QED BY <3>1 DEF Abstract!Next
    <2> QED BY <1>3, <2>2, <2>3
  <1>4. ASSUME NEW i \in Calls, Apart(x, x', i),
               Asked(x, x', i) \/ Refused_(x, x', i) \/ Granted(x, x', i)
        PROVE  [Abstract!Next]_(Abstract!vars)
    <2>1. /\ AskedMap' = [AskedMap EXCEPT ![i] = AskedMap'[i]]
          /\ ToldMap' = [ToldMap EXCEPT ![i] = ToldMap'[i]]
      <3>1. \A j \in Calls : j # i => AskedMap'[j] = AskedMap[j] /\ ToldMap'[j] = ToldMap[j]
        BY <1>2, <1>4 DEF Apart, Alike
      <3> QED BY <1>1, <3>1
    <2>2. /\ AskedMap[i] = AskOf(x, i) /\ AskedMap'[i] = AskOf(x', i)
          /\ ToldMap[i] = TellOf(x, i) /\ ToldMap'[i] = TellOf(x', i)
      BY <1>2
    <2>3. CASE Asked(x, x', i)
      <3>1. ToldMap' \in {ToldMap, [ToldMap EXCEPT ![i] = "busy"], [ToldMap EXCEPT ![i] = "error"]}
        BY <1>1, <2>1, <2>2, <2>3 DEF Asked
      <3>2. Abstract!Ask(i)
        BY <2>1, <2>2, <2>3, <3>1 DEF Abstract!Ask, Abstract!Nothing, Asked, Still, Over, None, AskedMap, ToldMap
      <3> QED BY <3>2 DEF Abstract!Next
    <2>4. CASE Refused_(x, x', i)
      <3>1. AskedMap' = AskedMap
        BY <1>1, <2>1, <2>2, <2>4 DEF Refused_
      <3>2. ToldMap[i] = "nothing" /\ \E v \in {"error", "busy", "cut", "closed"} :
                ToldMap' = [ToldMap EXCEPT ![i] = v]
        BY <2>1, <2>2, <2>4 DEF Refused_
      <3>3. Abstract!Refuse(i)
        BY <2>4, <3>1, <3>2 DEF Abstract!Refuse, Abstract!Answered, Refused_, Still, Over, AskedMap, ToldMap
      <3> QED BY <3>3 DEF Abstract!Next
    <2>5. CASE Granted(x, x', i)
      <3>1. AskedMap' = AskedMap
        BY <1>1, <2>1, <2>2, <2>5 DEF Granted
      <3>2. ToldMap[i] = "nothing" /\ ToldMap' = [ToldMap EXCEPT ![i] = "ok"]
        BY <2>1, <2>2, <2>5 DEF Granted
      <3>3. Abstract!Entered(i) = EnteredIn(x.ledger, AskOf(x, i), i)
        <4>1. AskOf(x, i).verb \in {"write", "savepoint", "release", "undo", "drop"}
          <5>1. i \in DOMAIN x.calls
            BY <2>5 DEF Granted, AskOf
          <5> QED BY <2>5, <5>1, CallsAre, AskIs DEF Granted, TypeInv
        <4>2. [j \in Calls |-> AskedOf(j)][i] = AskOf(x, i)
          BY <2>2 DEF AskedMap
        <4>3. CASE AskOf(x, i).verb = "write"
          BY <4>2, <4>3, SameEntries, SameUndo DEF Abstract!Entered, EnteredIn
        <4>4. CASE AskOf(x, i).verb = "savepoint"
          BY <4>2, <4>4, SameEntries, SameUndo DEF Abstract!Entered, EnteredIn
        <4>5. CASE AskOf(x, i).verb = "release"
          BY <4>2, <4>5, SameEntries, SameUndo DEF Abstract!Entered, EnteredIn
        <4>6. CASE AskOf(x, i).verb = "undo"
          BY <4>2, <4>6, SameEntries, SameUndo DEF Abstract!Entered, EnteredIn
        <4>7. CASE AskOf(x, i).verb = "drop"
          BY <4>2, <4>7, SameEntries, SameUndo DEF Abstract!Entered, EnteredIn
        <4> QED BY <4>1, <4>3, <4>4, <4>5, <4>6, <4>7
      <3>4. Abstract!Succeed(i)
        BY <2>2, <2>5, <3>1, <3>2, <3>3
           DEF Abstract!Succeed, Abstract!Nothing, Abstract!Answered, Granted, Over, None, AskedMap, ToldMap
      <3> QED BY <3>4 DEF Abstract!Next
    <2> QED BY <1>4, <2>3, <2>4, <2>5
  <1> QED BY <1>3, <1>4 DEF Mapped

(* The transaction starts as AtomicTx does.                                 *)
LEMMA MappedInit ==
    ASSUME Init
    PROVE  Abstract!Init
  <1>1. /\ x.pc = "acquiring" /\ x.calls = <<>> /\ x.db = {} /\ x.ledger = <<>>
    BY DEF Init
  <1>2. \A i \in Calls : i \notin DOMAIN x.calls
    BY <1>1
  <1>3. \A i \in Calls : AskedOf(i) = Abstract!Nothing
    BY <1>2 DEF AskedOf, Abstract!Nothing
  <1>4. \A i \in Calls : ToldOf(i) = "nothing"
    BY <1>3 DEF ToldOf, Abstract!Nothing
  <1> QED BY <1>1, <1>3, <1>4 DEF Abstract!Init

(* transaction() implements AtomicTx: the file changes once, at a COMMIT,   *)
(* and to exactly the writes whose callers were told "ok" and that no       *)
(* rollback to a savepoint took back.                                       *)
THEOREM TransactionIsAtomic == ASSUME Awaited, Heard PROVE Spec => Atomic
  <1>1. Init => Abstract!Init
    BY MappedInit
  <1>2. (Inv(x) /\ More(x)) /\ [Next]_x => [Abstract!Next]_(Abstract!vars)
    <2> SUFFICES ASSUME Inv(x), More(x), [Next]_x
                 PROVE  [Abstract!Next]_(Abstract!vars)
      OBVIOUS
    <2>1. Inv(x)'
      BY InvNext
    <2>2. CASE Next
      <3>1. Acts(x, x') /\ Inv(x')
        BY <2>1, <2>2, NextActs
      <3>2. Mapped(x, x')
        BY <3>1, MapActs
      <3> QED BY <3>1, <3>2, MappedSteps DEF Inv
    <2>3. CASE UNCHANGED x
      BY <2>3 DEF Abstract!vars, AskedOf, ToldOf
    <2> QED BY <2>2, <2>3
  <1> QED BY <1>1, <1>2, MoreHolds, PTL DEF Spec, Atomic, Abstract!Spec

=============================================================================
