----------------------------- MODULE Savepoints -----------------------------
(***************************************************************************)
(* The journal of an open SQLite transaction as its savepoints see it: the   *)
(* writes made so far, in order, with a mark where each open savepoint was   *)
(* taken.  SQLite itself is not under src/; this is what savepoints.ts, the  *)
(* savepoint prelude of worker.ts and transaction.ts rely on.                *)
(***************************************************************************)
EXTENDS Integers, Sequences, SequencesExt

(* A write is known by its call, a mark by its savepoint's name.            *)
Effect(s) == [call |-> s, name |-> ""]
Mark(n)   == [call |-> 0, name |-> n]

IsMark(e)   == e.call = 0
IsEffect(e) == e.call # 0

Effects(log) == {log[i].call : i \in {j \in DOMAIN log : IsEffect(log[j])}}

(* The savepoint a name addresses is the latest one opened under it.        *)
MarkAt(log, n) == SelectLastInSeq(log, LAMBDA e : e = Mark(n))

HasMark(log, n) == MarkAt(log, n) # 0

(* ROLLBACK TO n: everything after the mark is undone; the mark stays.      *)
RolledBackTo(log, n) == SubSeq(log, 1, MarkAt(log, n))

(* The writes of a journal without its marks.                               *)
Writes(log) ==
    LET upto[k \in 0 .. Len(log)] ==
            IF k = 0 THEN <<>>
            ELSE IF IsEffect(log[k]) THEN Append(upto[k - 1], log[k]) ELSE upto[k - 1]
    IN  upto[Len(log)]

(* RELEASE n: the mark goes with those above it; the writes stay.           *)
Released(log, n) ==
    SubSeq(log, 1, MarkAt(log, n) - 1)
        \o Writes(SubSeq(log, MarkAt(log, n) + 1, Len(log)))

=============================================================================
