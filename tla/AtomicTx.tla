------------------------------ MODULE AtomicTx ------------------------------
(***************************************************************************)
(* What transaction() promises the code that calls it (transaction.ts): an  *)
(* account of the writes and savepoints whose callers were told they        *)
(* succeeded, which a commit makes the database's contents, whole, or which *)
(* has no effect at all.  A call told anything but "ok" leaves no trace in  *)
(* the account: its own signal gave it up, it failed, or it was refused.    *)
(***************************************************************************)
EXTENDS Savepoints

CONSTANT Calls      \* the identities of the calls

VARIABLES
    asked,          \* what each call asks for: a verb and a savepoint's name
    told,           \* what its promise has said so far
    ledger,         \* the account: writes and savepoint marks, in order
    db,             \* the writes that are in the database file
    over            \* the connection is no longer in the transaction

vars == <<asked, told, ledger, db, over>>

Nothing == [verb |-> "none", name |-> "none"]

Init ==
    /\ asked = [s \in Calls |-> Nothing]
    /\ told = [s \in Calls |-> "nothing"]
    /\ ledger = <<>>
    /\ db = {}
    /\ over = FALSE

(* The account after what call s asked for.                                 *)
Entered(s) ==
    LET n == asked[s].name IN
    CASE asked[s].verb = "write"     -> Append(ledger, Effect(s))
      [] asked[s].verb = "savepoint" -> Append(ledger, Mark(n))
      [] asked[s].verb = "release"   -> Released(ledger, n)
      [] asked[s].verb = "undo"      -> RolledBackTo(ledger, n)
      [] asked[s].verb = "drop"      -> Released(RolledBackTo(ledger, n), n)

Answered(s, v) ==
    /\ told[s] = "nothing"
    /\ told' = [told EXCEPT ![s] = v]

(* A call is made; it may be refused at once, or end the transaction.       *)
Ask(s) ==
    /\ asked[s] = Nothing
    /\ asked'[s].verb \in {"write", "savepoint", "release", "undo", "drop"}
    /\ asked' = [asked EXCEPT ![s] = asked'[s]]
    /\ told' \in {told, [told EXCEPT ![s] = "busy"], [told EXCEPT ![s] = "error"]}
    /\ UNCHANGED <<ledger, db, over>>

(* A write or a savepoint verb succeeds: it is in the account from now on.  *)
Succeed(s) ==
    /\ ~over
    /\ asked[s] # Nothing
    /\ Answered(s, "ok")
    /\ ledger' = Entered(s)
    /\ UNCHANGED <<asked, db, over>>

(* A call fails, is refused or is given up: it never happened.              *)
Refuse(s) ==
    /\ \E v \in {"error", "busy", "cut", "closed"} : Answered(s, v)
    /\ UNCHANGED <<asked, ledger, db, over>>

(* The whole account, at once.                                              *)
Commit ==
    /\ ~over
    /\ over' = TRUE
    /\ db' = Effects(ledger)
    /\ UNCHANGED <<asked, ledger, told>>

(* None of it: a rollback, or SQLite or the browser ending the transaction. *)
Abort ==
    /\ ~over
    /\ over' = TRUE
    /\ UNCHANGED <<asked, ledger, told, db>>

Next == (\E s \in Calls : Ask(s) \/ Succeed(s) \/ Refuse(s)) \/ Commit \/ Abort

Spec == Init /\ [][Next]_vars

=============================================================================
