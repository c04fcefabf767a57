----------------------------- MODULE Statements -----------------------------
(***************************************************************************)
(* The prepared statements of one worker (worker.ts, statement-cache.ts,     *)
(* classify.ts).                                                             *)
(*                                                                         *)
(* A query keeps its statement in a cache bounded in entries and in bytes.   *)
(* A verdict prepares a text without running it, and may do so while a       *)
(* query waits for a credit.  An evicted statement is finalised by whoever   *)
(* inserted; its address may then be given to another.  The worker also      *)
(* refuses: a write in a query sent as a read, transaction control in a      *)
(* caller's query, a string of two statements.  Some pragmas act when they   *)
(* are prepared, so the authorizer answers IGNORE to them where they must    *)
(* not act, and the statement that results does nothing.                     *)
(*                                                                         *)
(* Between two awaits of the worker only the mutex keeps the others out: a   *)
(* step is what happens from one wait for the mutex, for a credit or for a   *)
(* prepare to the next.                                                      *)
(***************************************************************************)
EXTENDS Integers, Sequences, FiniteSets, SequencesExt

CONSTANTS
    Texts,          \* the SQL texts
    Modes,          \* how queries are sent
    Verdicts,       \* the verdicts that may be asked for at once
    Handles,        \* the addresses of statements
    NoHandle,       \* no address
    Weights,        \* what a statement may weigh
    MaxEntries,     \* the cache's bounds
    MaxBytes

(* Texts: "select" reads; "ensure" (CREATE TABLE IF NOT EXISTS) reads while *)
(* the table exists; "setting" is a pragma that acts at its prepare; "two"  *)
(* is a read followed by such a pragma; "begin" stands for BEGIN and        *)
(* COMMIT.  Modes: "read" carries refuseWrite, "plain" nothing, "control"   *)
(* is the library's own, "uncached" keeps nothing.                          *)
ASSUME StatementsAssumption ==
    /\ Texts \subseteq {"select", "ensure", "setting", "two", "begin"}
    /\ Modes \subseteq {"read", "plain", "control", "uncached"}
    /\ {"query", "close"} \cap Verdicts = {}
    /\ NoHandle \notin Handles
    /\ Weights \subseteq Nat
    /\ MaxEntries \in Nat /\ MaxBytes \in Nat

VARIABLES
    cache,          \* the entries, least recently used first, and the total
    live,           \* the statements prepared and not finalised, by address
    mutex,          \* who holds SQLite, and who waits for it
    query,          \* the query in flight
    verdicts,       \* the verdicts asked for
    conn,           \* the connection: its schema, its transaction, its end
    harm            \* what was done that should not have been

statementsVars == <<cache, live, mutex, query, verdicts, conn, harm>>

-----------------------------------------------------------------------------
(***************************************************************************)
(* Classification (classify.ts)                                            *)
(***************************************************************************)

(* What SQLite reports of a prepared statement: "set" is a pragma given a   *)
(* value it does not merely inspect, "bare" one that writes without any.    *)
Facts(text, table) ==
    [explain  |-> FALSE,
     pragma   |-> IF text = "setting" THEN "set" ELSE "none",
     attach   |-> FALSE,
     readonly |-> text # "ensure" \/ table]

Classify(f) ==
    CASE f.explain                                      -> "read"
      [] ~f.explain /\ f.pragma \in {"set", "bare"}     -> "write"
      [] ~f.explain /\ f.pragma \in {"look", "inspect"} -> "read"
      [] ~f.explain /\ f.pragma = "none" /\ f.attach    -> "write"
      [] OTHER -> IF f.readonly THEN "read" ELSE "write"

KindOf(p) == Classify(Facts(p.text, p.table))

-----------------------------------------------------------------------------
(***************************************************************************)
(* The cache (createStatementCache)                                        *)
(***************************************************************************)

Find(c, text) == {c.entries[i] : i \in {j \in DOMAIN c.entries : c.entries[j].text = text}}

Weight(entries) ==
    LET sum[n \in 0 .. Len(entries)] ==
            IF n = 0 THEN 0 ELSE sum[n - 1] + entries[n].weight
    IN  sum[Len(entries)]

Has(c, text) == \E i \in DOMAIN c.entries : c.entries[i].text = text
IndexOf(c, text) == CHOOSE i \in DOMAIN c.entries : c.entries[i].text = text

(* drop: out of the map and of the total.                                   *)
Drop(c, text) ==
    IF ~Has(c, text) THEN c
    ELSE [entries |-> RemoveAt(c.entries, IndexOf(c, text)),
          total   |-> c.total - c.entries[IndexOf(c, text)].weight]

(* get: the entry becomes the most recently used.                           *)
Use(c, text) ==
    IF ~Has(c, text) THEN c
    ELSE [entries |-> Append(RemoveAt(c.entries, IndexOf(c, text)),
                             c.entries[IndexOf(c, text)]),
          total   |-> c.total]

(* The n oldest entries are evicted.                                        *)
Evict(c, n) ==
    [entries |-> SubSeq(c.entries, n + 1, Len(c.entries)),
     total   |-> c.total - Weight(SubSeq(c.entries, 1, n))]

(* Mutant: the incoming entry is added to the one it replaces.              *)
Insert_Added(c, text, handle, weight) ==
    LET dropped == [Drop(c, text) EXCEPT !.total = c.total]
        n == Min({k \in 0 .. Len(dropped.entries) :
                      \/ k = Len(dropped.entries)
                      \/ Evict(dropped, k).total < MaxBytes})
        room == Evict(dropped, n)
        grown == [entries |-> Append(room.entries, [text |-> text, handle |-> handle,
                                                    weight |-> weight]),
                  total   |-> room.total + weight]
    IN Evict(grown, Max({0, Len(grown.entries) - MaxEntries}))

(* insert: the same key is replaced, then the oldest go while the total     *)
(* before the insertion is at the bound, then those beyond maxEntries.      *)
Insert(c, text, handle, weight) ==
    LET dropped == Drop(c, text)
        n == Min({k \in 0 .. Len(dropped.entries) :
                      \/ k = Len(dropped.entries)
                      \/ Evict(dropped, k).total < MaxBytes})
        room == Evict(dropped, n)
        grown == [entries |-> Append(room.entries, [text |-> text, handle |-> handle,
                                                    weight |-> weight]),
                  total   |-> room.total + weight]
    IN Evict(grown, Max({0, Len(grown.entries) - MaxEntries}))

Filed(c) == {c.entries[i].handle : i \in DOMAIN c.entries}

-----------------------------------------------------------------------------
(***************************************************************************)
(* State                                                                   *)
(***************************************************************************)

NoQuery == [pc |-> "idle", handle |-> NoHandle]
NoVerdict == [pc |-> "idle", handle |-> NoHandle]

StatementsTypeOK ==
    /\ cache.entries \in Seq([text : Texts, handle : Handles, weight : Weights])
    /\ cache.total \in Nat
    /\ DOMAIN live \subseteq Handles
    /\ \A h \in DOMAIN live :
          live[h] \in [text : Texts, table : BOOLEAN, hollow : BOOLEAN]
    /\ mutex \in Seq({"query", "close"} \cup Verdicts)
    /\ query.pc \in {"idle", "waiting", "first", "credit", "back"}
    /\ query.handle \in Handles \cup {NoHandle}
    /\ \A v \in Verdicts :
          /\ verdicts[v].pc \in {"idle", "waiting", "compiled"}
          /\ verdicts[v].handle \in Handles \cup {NoHandle}
    /\ conn \in [table : BOOLEAN, in : BOOLEAN, closing : BOOLEAN, closed : BOOLEAN]

StatementsInit ==
    /\ cache = [entries |-> <<>>, total |-> 0]
    /\ live = <<>>
    /\ mutex = <<>>
    /\ query = NoQuery
    /\ verdicts = [v \in Verdicts |-> NoVerdict]
    /\ conn = [table |-> FALSE, in |-> FALSE, closing |-> FALSE, closed |-> FALSE]
    /\ harm = {}

(* holdSqlite and releaseSqlite: the holder is the head of the line.        *)
Holds(who)    == mutex # <<>> /\ Head(mutex) = who
Hold(who)     == mutex' = Append(mutex, who)
ReleaseSqlite == mutex' = Tail(mutex)

(* A prepare takes any address that is free, perhaps one used before.       *)
Free == Handles \ DOMAIN live

With(h, program) == [g \in DOMAIN live \cup {h} |-> IF g = h THEN program ELSE live[g]]

Without(handles) == [g \in DOMAIN live \ handles |-> live[g]]

(* A text is compiled.  A pragma acts unless it is guarded against.         *)
Program(text, guarded) ==
    [text |-> text, table |-> conn.table, hollow |-> text = "setting" /\ guarded]

-----------------------------------------------------------------------------
(***************************************************************************)
(* A query                                                                 *)
(***************************************************************************)

(* The message arrives.  One query at a time: pool.ts sees to it.           *)
Receive(text, mode) ==
    /\ query.pc = "idle"
    /\ ~conn.closing
    /\ mode = "control" => text = "begin"
    /\ query' = [pc |-> "waiting", text |-> text, mode |-> mode, handle |-> NoHandle,
                 stopped |-> FALSE]
    /\ Hold("query")
    /\ UNCHANGED <<cache, live, verdicts, conn, harm>>

(* The reply goes out: the query is over, and gives the mutex up.           *)
Reply == query' = NoQuery /\ ReleaseSqlite

(* Mutant: nobody finalises what the cache evicts.                          *)
File_Unfinalised(text, handle, program) ==
    \E weight \in Weights :
        /\ cache' = Insert(cache, text, handle, weight)
        /\ live' = With(handle, program)

(* A statement is filed, and those the cache evicts are finalised.          *)
File(text, handle, program) ==
    \E weight \in Weights :
        LET inserted == Insert(cache, text, handle, weight)
            evicted == (Filed(Drop(cache, text)) \cup {handle}) \ Filed(inserted)
        IN  /\ cache' = inserted
            /\ live' = [h \in (DOMAIN live \cup {handle}) \ evicted |->
                            IF h = handle THEN program ELSE live[h]]

(* A statement is finalised, and the cache forgets its text.                *)
Discard(text, handle) ==
    /\ cache' = Drop(cache, text)
    /\ live' = Without({handle})

(* A query is done with its statement: finalised when it is not to be kept, *)
(* otherwise reset and filed, or finalised and forgotten after an error.    *)
Settle(text, handle, program, failed) ==
    LET kept == query.mode # "uncached" /\ ~program.hollow IN
    CASE ~kept           -> cache' = cache /\ live' = Without({handle})
      [] kept /\ failed  -> Discard(text, handle)
      [] kept /\ ~failed -> File(text, handle, program)

(* The cache is asked, unless the query is uncached.                        *)
Hit(text, mode) == IF mode = "uncached" THEN {} ELSE Find(cache, text)

(* Control is refused to callers: by the authorizer when the text is        *)
(* compiled, by controlSql when it is in the cache.                         *)
DeniedControl(text, mode) == text = "begin" /\ mode # "control"

Refuses(mode, program) == mode = "read" /\ KindOf(program) = "write"

(* The query's turn, and its text in the cache.                             *)
TakeCached ==
    /\ query.pc = "waiting"
    /\ Holds("query")
    /\ \E e \in Hit(query.text, query.mode) :
           \/ /\ DeniedControl(query.text, query.mode)
              /\ cache' = Use(cache, query.text)
              /\ Reply
              /\ UNCHANGED live
           \/ /\ ~DeniedControl(query.text, query.mode)
              /\ Refuses(query.mode, live[e.handle])
              /\ File(query.text, e.handle, live[e.handle])
              /\ Reply
           \/ /\ ~DeniedControl(query.text, query.mode)
              /\ ~Refuses(query.mode, live[e.handle])
              /\ cache' = Use(cache, query.text)
              /\ query' = [query EXCEPT !.pc = "first", !.handle = e.handle]
              /\ UNCHANGED <<live, mutex>>
    /\ UNCHANGED <<verdicts, conn, harm>>

(* refuseMore: nothing of a string that holds two statements is run.        *)
HoldsMore(text) == text = "two"

(* The query's turn, and its text to compile.  A refused one is kept, a     *)
(* string of two statements is not.                                         *)
Compile ==
    LET text == query.text
        mode == query.mode
        p == Program(text, mode = "read")
    IN  /\ query.pc = "waiting"
        /\ Holds("query")
        /\ Hit(text, mode) = {}
        /\ UNCHANGED <<verdicts, conn, harm>>
        /\ \/ /\ DeniedControl(text, mode) \/ HoldsMore(text)
              /\ Reply
              /\ UNCHANGED <<cache, live>>
           \/ /\ ~DeniedControl(text, mode) /\ ~HoldsMore(text)
              /\ \E h \in Free :
                     IF Refuses(mode, p)
                     THEN Reply /\ Settle(text, h, p, FALSE)
                     ELSE /\ query' = [query EXCEPT !.pc = "first", !.handle = h]
                          /\ live' = With(h, p)
                          /\ UNCHANGED <<cache, mutex>>

(* The step's outcome: a chunk of rows, or the end.                         *)
Yields(p) ==
    /\ query.text = "select"
    /\ query' = [query EXCEPT !.pc = "credit"]
    /\ live' = With(query.handle, p)
    /\ ReleaseSqlite
    /\ UNCHANGED cache

Over(p, failed) == Settle(query.text, query.handle, p, failed) /\ Reply

(* Mutant: nothing guards the step of a statement that must not write.      *)
StepDenied_Never(p) == FALSE

(* guardingStep: the authorizer denies what a re-preparation would write.   *)
StepDenied(p) == Refuses(query.mode, p)

(* The first step.  SQLite compiles again a statement whose schema has      *)
(* changed since.                                                           *)
FirstStep ==
    LET p == [live[query.handle] EXCEPT !.table = conn.table]
        wrong == CASE query.mode = "read" /\ KindOf(p) = "write"     -> {"wrote"}
                   [] query.mode # "control" /\ query.text = "begin" -> {"control"}
                   [] query.mode # "read" /\ p.hollow                -> {"nothing"}
                   [] OTHER                                          -> {}
    IN  /\ query.pc = "first"
        /\ UNCHANGED verdicts
        /\ \/ /\ Over(p, TRUE)
              /\ UNCHANGED <<conn, harm>>
           \/ /\ ~StepDenied(p)
              /\ harm' = harm \cup wrong
              /\ conn' = [conn EXCEPT !.table = @ \/ query.text = "ensure",
                                      !.in = IF query.text = "begin" THEN ~@ ELSE @]
              /\ Yields(p) \/ Over(p, FALSE)

(* A credit, or a stop, wakes the query, which waits for the mutex again.   *)
Credit ==
    /\ query.pc = "credit"
    /\ query' = [query EXCEPT !.pc = "back"]
    /\ Hold("query")
    /\ UNCHANGED <<cache, live, verdicts, conn, harm>>

(* The next steps: a statement that was stopped ends cleanly.               *)
NextStep ==
    LET p == live[query.handle] IN
    /\ query.pc = "back"
    /\ Holds("query")
    /\ \/ Over(p, FALSE)
       \/ ~query.stopped /\ (Yields(p) \/ Over(p, TRUE))
    /\ UNCHANGED <<verdicts, conn, harm>>

Stop ==
    /\ query.pc # "idle"
    /\ ~query.stopped
    /\ query' = [query EXCEPT !.stopped = TRUE]
    /\ UNCHANGED <<cache, live, mutex, verdicts, conn, harm>>

-----------------------------------------------------------------------------
(***************************************************************************)
(* A verdict                                                               *)
(***************************************************************************)

AskVerdict(v, text) ==
    /\ verdicts[v].pc = "idle"
    /\ ~conn.closing
    /\ verdicts' = [verdicts EXCEPT ![v] = [pc |-> "waiting", text |-> text,
                                            handle |-> NoHandle, keep |-> FALSE]]
    /\ Hold(v)
    /\ UNCHANGED <<cache, live, query, conn, harm>>

Answer(v) == verdicts' = [verdicts EXCEPT ![v] = NoVerdict] /\ ReleaseSqlite

(* Mutant: a verdict files its statement while a query is in flight.        *)
MayKeep_Always == ~conn.in

(* Filed only where nothing can be using a cached statement.                *)
MayKeep == query.pc = "idle" /\ ~conn.in

(* The verdict's turn.  In a transaction the cache is not believed.         *)
TakeVerdict(v) ==
    LET text == verdicts[v].text
        hit == IF conn.in THEN {} ELSE Find(cache, text)
        p == Program(text, TRUE)
    IN  /\ verdicts[v].pc = "waiting"
        /\ Holds(v)
        /\ UNCHANGED <<query, conn, harm>>
        /\ \/ /\ conn.closing
              /\ Answer(v)
              /\ UNCHANGED <<cache, live>>
           \/ /\ ~conn.closing
              /\ hit # {}
              /\ cache' = Use(cache, text)
              /\ Answer(v)
              /\ UNCHANGED live
           \/ /\ ~conn.closing
              /\ hit = {}
              /\ text = "begin" \/ HoldsMore(text)
              /\ Answer(v)
              /\ UNCHANGED <<cache, live>>
           \/ /\ ~conn.closing
              /\ hit = {}
              /\ text # "begin" /\ ~HoldsMore(text)
              /\ \E h \in Free :
                     /\ live' = With(h, p)
                     /\ verdicts' = [verdicts EXCEPT ![v].pc = "compiled",
                                                     ![v].handle = h, ![v].keep = MayKeep]
              /\ UNCHANGED <<cache, mutex>>

(* The prepare is over: the statement is filed, or finalised.               *)
EndVerdict(v) ==
    LET d == verdicts[v] IN
    /\ d.pc = "compiled"
    /\ IF d.keep /\ ~live[d.handle].hollow
       THEN File(d.text, d.handle, live[d.handle])
       ELSE cache' = cache /\ live' = Without({d.handle})
    /\ Answer(v)
    /\ UNCHANGED <<query, conn, harm>>

-----------------------------------------------------------------------------
(***************************************************************************)
(* The end, and the others                                                 *)
(***************************************************************************)

Close ==
    /\ ~conn.closing
    /\ conn' = [conn EXCEPT !.closing = TRUE]
    /\ query' = IF query.pc = "idle" THEN query ELSE [query EXCEPT !.stopped = TRUE]
    /\ UNCHANGED <<cache, live, mutex, verdicts, harm>>

(* idleUntilQueryEnds, then the mutex: a verdict may be mid-prepare.        *)
CloseWaits ==
    /\ conn.closing
    /\ ~conn.closed
    /\ query.pc = "idle"
    /\ ~Contains(mutex, "close")
    /\ Hold("close")
    /\ UNCHANGED <<cache, live, query, verdicts, conn, harm>>

(* drain: what the cache holds is finalised, and the connection closed.     *)
CloseEnds ==
    /\ Holds("close")
    /\ live' = Without(Filed(cache))
    /\ cache' = [entries |-> <<>>, total |-> 0]
    /\ conn' = [conn EXCEPT !.closed = TRUE]
    /\ ReleaseSqlite
    /\ UNCHANGED <<query, verdicts, harm>>

(* Another connection creates or drops the table.                           *)
Change ==
    /\ conn' = [conn EXCEPT !.table = ~@]
    /\ UNCHANGED <<cache, live, mutex, query, verdicts, harm>>

StatementsNext ==
    \/ \E text \in Texts, mode \in Modes : Receive(text, mode)
    \/ TakeCached \/ Compile \/ FirstStep \/ Credit \/ NextStep \/ Stop
    \/ \E v \in Verdicts :
           \/ \E text \in Texts : AskVerdict(v, text)
           \/ TakeVerdict(v) \/ EndVerdict(v)
    \/ Close \/ CloseWaits \/ CloseEnds
    \/ Change

StatementsSpec == StatementsInit /\ [][StatementsNext]_statementsVars

-----------------------------------------------------------------------------
(***************************************************************************)
(* Properties                                                              *)
(***************************************************************************)

(* The statement a query is stepping, and every statement in the cache, is  *)
(* one nobody has finalised: neither a verdict's insertion nor the query's  *)
(* own reply destroys a statement that will be stepped again.               *)
InUseIsLive ==
    /\ query.handle # NoHandle => query.handle \in DOMAIN live
    /\ Filed(cache) \subseteq DOMAIN live
    /\ \A i, j \in DOMAIN cache.entries :
           cache.entries[i].handle = cache.entries[j].handle => i = j

(* Every statement alive is in the cache or in somebody's hands, so that    *)
(* close() leaves none: SQLite refuses to close a connection that has one.  *)
NothingLeaks ==
    /\ DOMAIN live \subseteq Filed(cache) \cup {query.handle}
                          \cup {verdicts[v].handle : v \in Verdicts}
    /\ conn.closed => DOMAIN live = {}

(* The account of the cache is right, and both bounds hold: the bytes may   *)
(* be overshot by one statement only (the rule of insert).                  *)
WithinBudget ==
    /\ cache.total = Weight(cache.entries)
    /\ Len(cache.entries) <= MaxEntries
    /\ cache.entries # <<>> =>
           \E i \in DOMAIN cache.entries :
               cache.total - cache.entries[i].weight < Max({1, MaxBytes})

(* A query does what its text says and its mode allows, whatever the cache  *)
(* holds: one that refuses writes writes nothing even when the schema turns *)
(* its statement into a write between its prepare and its step; a caller's  *)
(* BEGIN is never run; a pragma prepared so as not to act is never what a   *)
(* later write runs.                                                        *)
RunsAsAsked == harm = {}

=============================================================================
