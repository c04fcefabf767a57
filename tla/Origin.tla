------------------------------- MODULE Origin -------------------------------
(* What the tabs of one origin do to one database besides querying it:      *)
(* clients open and close it, and deleteDatabase removes it. They meet only *)
(* in two Web Locks, bsq:conn (held by a client for its lifetime, by a      *)
(* deletion exclusively) and bsq:init (held around an open and around a     *)
(* deletion), and in the files. A tab may die at any step; the browser then *)
(* releases its locks and ends its workers.  EpochsProofs extends this      *)
(* module with Epochs, whence the names of the specification.               *)
EXTENDS Naturals, Sequences, FiniteSets

CONSTANTS
    Clients,        \* clients, each constructed at most once
    Deletions,      \* calls of deleteDatabase, each made at most once
    VFSs,           \* what VFS_CAPABILITIES declares: [connection, storage]
    Faults          \* of "tab", "remove", "jDelete"

ASSUME OriginAssumption ==
    /\ Clients \cap Deletions = {}
    /\ VFSs \subseteq [connection : {"shared", "exclusive"},
                        storage : {"folder", "vfs"}]
    /\ Faults \subseteq {"tab", "remove", "jDelete"}

VARIABLES
    env,            \* the VFS. "exclusive" is exclusiveConnection; where the
                    \* storage is a "folder" its OPFS entries are the database
    client,         \* per client: its page, its bsq:conn request, its worker
    deletion,       \* per deletion: where it is, and what it was told
    files,          \* the OPFS entries (or the VFS's) that exist
    held            \* a worker that was ended has not let its files go yet

originVars == <<env, client, deletion, files, held>>

(* One sidecar stands for -journal, -wal and the VFS's own extra suffixes.  *)
Parts == {"main", "sidecar"}

(* The order in which a deletion removes the parts.                         *)
(* Mutant: the files go in the order of DATABASE_FILE_SUFFIXES, main first. *)
RemovalOrder_MainFirst(storage) == <<"main", "sidecar">>
RemovalOrder(storage) ==
    IF storage = "folder" THEN <<"sidecar", "main">> ELSE <<"main", "sidecar">>

ClientState ==
    [page : {"none", "live", "closing", "ended", "gone"},
     conn : {"none", "asked", "granted", "refused", "released"},
     worker : {"none", "booting", "waiting", "opening", "open", "gone"}]

DeletionState ==
    [at : {"none", "asked", "conn", "probe", "remove", "answer", "release",
           "done", "dead"},
     next : 1 .. 3,
     told : {"none", "busy", "not found", "error", "timeout", "deleted"},
     unseen : BOOLEAN]

OriginTypeOK ==
    /\ env \in VFSs
    /\ client \in [Clients -> ClientState]
    /\ deletion \in [Deletions -> DeletionState]
    /\ files \in SUBSET Parts
    /\ held \in BOOLEAN

(* A deletion that is over: what its caller was told is the caller's now.   *)
Over(at) == [at |-> at, next |-> 1, told |-> "none", unseen |-> FALSE]

OriginInit ==
    /\ env \in VFSs
    /\ client = [c \in Clients |->
          [page |-> "none", conn |-> "none", worker |-> "none"]]
    /\ deletion = [d \in Deletions |-> Over("none")]
    /\ files \in {{}, {"main"}, {"main", "sidecar"}}
    /\ held = FALSE

-----------------------------------------------------------------------------
(* The Web Locks manager, external: who holds and who waits.                *)

ConnHolders ==
    {c \in Clients : client[c].conn = "granted"}
        \cup {d \in Deletions :
                deletion[d].at \in {"conn", "probe", "remove", "answer", "release"}}

ConnAlone == ConnHolders \cap Deletions # {}

InitHolders ==
    {c \in Clients : client[c].worker = "opening"}
        \cup {d \in Deletions : deletion[d].at \in {"probe", "remove", "answer"}}

InitWaits == \E c \in Clients : client[c].worker = "waiting"

(* A request with ifAvailable is granted at once or never.                  *)
ConnAvailable ==
    /\ ConnHolders = {}
    /\ \A c \in Clients : client[c].conn # "asked"

InitAvailable == InitHolders = {} /\ ~InitWaits

-----------------------------------------------------------------------------
(* The files of a VFS that takes its whole directory exclusively. A worker  *)
(* ended inside a statement gives its Web Locks back before its handles.    *)

HasFiles(worker) == worker \in {"waiting", "opening", "open"}

MayLeaveHeld(had) ==
    IF had /\ env.connection = "exclusive" THEN held' \in {held, TRUE}
                                           ELSE held' = held

LetGo ==
    /\ held
    /\ held' = FALSE
    /\ UNCHANGED <<env, client, deletion, files>>

(* createVfsInstance: one that finds the files held tries again, within a   *)
(* budget that outlasts what a dead worker keeps.                           *)
Acquirable == ~held

-----------------------------------------------------------------------------
(* Clients.                                                                 *)

(* createSQLiteClient: the connection lock is asked for and, unless the VFS *)
(* is exclusive, the workers start without waiting for the answer.          *)
Construct(c) ==
    /\ client[c].page = "none"
    /\ client' = [client EXCEPT ![c] =
          [page |-> "live", conn |-> "asked",
           worker |-> IF env.connection = "shared" THEN "booting" ELSE "none"]]
    /\ UNCHANGED <<env, deletion, files, held>>

(* The manager answers a shared request once no deletion holds the name.    *)
GrantShared(c) ==
    /\ env.connection = "shared" /\ client[c].conn = "asked"
    /\ ~ConnAlone
    /\ client' = [client EXCEPT ![c].conn = "granted"]
    /\ UNCHANGED <<env, deletion, files, held>>

(* The manager answers an exclusive request at once; granted to a live      *)
(* client it starts the workers, refused it fails the client.               *)
AnswerExclusive(c) ==
    /\ env.connection = "exclusive" /\ client[c].conn = "asked"
    /\ LET free == ConnHolders = {}
       IN client' = [client EXCEPT
            ![c].conn = IF free THEN "granted" ELSE "refused",
            ![c].worker = IF free /\ client[c].page = "live" THEN "booting" ELSE @]
    /\ UNCHANGED <<env, deletion, files, held>>

(* A worker has loaded its build, created its VFS, and asks for bsq:init.   *)
Boot(c) ==
    /\ client[c].worker = "booting"
    /\ Acquirable
    /\ client' = [client EXCEPT ![c].worker = "waiting"]
    /\ UNCHANGED <<env, deletion, files, held>>

(* bsq:init is granted: open_v2 and the pragmas run under it.               *)
EnterOpen(c) ==
    /\ client[c].worker = "waiting"
    /\ InitHolders = {}
    /\ client' = [client EXCEPT ![c].worker = "opening"]
    /\ UNCHANGED <<env, deletion, files, held>>

(* open_v2 creates the main file where there is none.                       *)
Open(c) ==
    /\ client[c].worker = "opening"
    /\ client' = [client EXCEPT ![c].worker = "open"]
    /\ files' = files \cup {"main"}
    /\ UNCHANGED <<env, deletion, held>>

(* Statements wait for the lock as well as for a worker. What they do to    *)
(* the sidecars is SQLite's: a journal comes with a write and goes with it. *)
Serve(c) ==
    /\ client[c].worker = "open"
    /\ client[c].conn = "granted"
    /\ client[c].page \in {"live", "closing"}
    /\ \/ files' = files \cup Parts
       \/ "main" \in files /\ files' = files \ {"sidecar"}
    /\ UNCHANGED <<env, client, deletion, held>>

(* close(): what is running drains, boundedly ...                           *)
Close(c) ==
    /\ client[c].page = "live"
    /\ client' = [client EXCEPT ![c].page = "closing"]
    /\ UNCHANGED <<env, deletion, files, held>>

(* ... then the workers are closed and terminated ...                       *)
EndWorkers(c) ==
    /\ client[c].page = "closing"
    /\ client' = [client EXCEPT
          ![c].page = "ended",
          ![c].worker = IF @ = "none" THEN @ ELSE "gone"]
    /\ MayLeaveHeld(HasFiles(client[c].worker))
    /\ UNCHANGED <<env, deletion, files>>

(* ... and the lock is released, once its request has been answered.        *)
(* Mutant: close() releases the lock without waiting for its workers.       *)
CloseReleases_Early(c) ==
    /\ client[c].page \in {"closing", "ended"}
    /\ client[c].conn = "granted"
    /\ client' = [client EXCEPT ![c].conn = "released"]
    /\ UNCHANGED <<env, deletion, files, held>>

CloseReleases(c) ==
    /\ client[c].page = "ended"
    /\ client[c].conn # "asked"
    /\ client' = [client EXCEPT
          ![c].page = "gone", ![c].worker = "gone", ![c].conn = "released"]
    /\ UNCHANGED <<env, deletion, files, held>>

(* A tab dies without closing: its files stay as they are.                  *)
ClientTabDies(c) ==
    /\ "tab" \in Faults
    /\ client[c].page \in {"live", "closing", "ended"}
    /\ client' = [client EXCEPT ![c] =
          [page |-> "gone", conn |-> "released", worker |-> "gone"]]
    /\ MayLeaveHeld(HasFiles(client[c].worker))
    /\ UNCHANGED <<env, deletion, files>>

-----------------------------------------------------------------------------
(* deleteDatabase.                                                          *)

CallDelete(d) ==
    /\ deletion[d].at = "none"
    /\ deletion' = [deletion EXCEPT ![d].at = "asked"]
    /\ UNCHANGED <<env, client, files, held>>

(* bsq:conn exclusively, if available: DATABASE_IN_USE otherwise.           *)
TakeConn(d) ==
    /\ deletion[d].at = "asked"
    /\ deletion' = [deletion EXCEPT ![d] =
          IF ConnAvailable THEN [@ EXCEPT !.at = "conn"]
                           ELSE Over("done")]
    /\ UNCHANGED <<env, client, files, held>>

(* bsq:init, if available, and the worker is started; BUSY otherwise.       *)
TakeInit(d) ==
    /\ deletion[d].at = "conn"
    /\ deletion' = [deletion EXCEPT ![d] =
          IF InitAvailable THEN [@ EXCEPT !.at = "probe"]
                           ELSE [@ EXCEPT !.at = "release", !.told = "busy"]]
    /\ UNCHANGED <<env, client, files, held>>

(* The worker's presence test: absence is an answer, not a success.         *)
Probe(d) ==
    /\ deletion[d].at = "probe"
    /\ Acquirable
    /\ deletion' = [deletion EXCEPT ![d] =
          IF "main" \in files THEN [@ EXCEPT !.at = "remove"]
                              ELSE [@ EXCEPT !.at = "answer", !.told = "not found"]]
    /\ UNCHANGED <<env, client, files, held>>

(* One part is removed, a missing one counting as removed; after the last   *)
(* the worker answers "deleted".                                            *)
Advance(r) ==
    IF r.next = Len(RemovalOrder(env.storage))
    THEN [r EXCEPT !.at = "answer", !.next = @ + 1, !.told = "deleted"]
    ELSE [r EXCEPT !.next = @ + 1]

Remove(d) ==
    /\ deletion[d].at = "remove"
    /\ files' = files \ {RemovalOrder(env.storage)[deletion[d].next]}
    /\ deletion' = [deletion EXCEPT ![d] = Advance(@)]
    /\ UNCHANGED <<env, client, held>>

(* The presence test or a removal throws, or the worker crashes: the page   *)
(* is told, and nothing more is removed.                                    *)
(* Mutant: a removal that throws is taken for one of a missing entry.       *)
RemoveFails_Ignored(d) ==
    /\ deletion[d].at = "remove"
    /\ "remove" \in Faults
    /\ deletion' = [deletion EXCEPT ![d] = Advance(@)]
    /\ UNCHANGED <<env, client, files, held>>

RemoveFails(d) ==
    /\ deletion[d].at \in {"probe", "remove"}
    /\ "remove" \in Faults
    /\ deletion' = [deletion EXCEPT ![d].at = "answer", ![d].told = "error"]
    /\ MayLeaveHeld(deletion[d].at = "remove")
    /\ UNCHANGED <<env, client, files>>

(* jDelete reports a failure by what it returns, which nobody reads.        *)
JDeleteFails(d) ==
    /\ deletion[d].at = "remove"
    /\ env.storage = "vfs" /\ "jDelete" \in Faults
    /\ deletion' = [deletion EXCEPT ![d] = [Advance(@) EXCEPT !.unseen = TRUE]]
    /\ UNCHANGED <<env, client, files, held>>

(* DELETE_TIMEOUT, short or long beside the worker's steps: the page gives  *)
(* up, and terminates the worker.                                           *)
Timeout(d) ==
    /\ deletion[d].at \in {"probe", "remove"}
    /\ deletion' = [deletion EXCEPT ![d].at = "answer", ![d].told = "timeout"]
    /\ MayLeaveHeld(deletion[d].at = "remove")
    /\ UNCHANGED <<env, client, files>>

(* The worker is terminated, and tryWithLock gives bsq:init back ...        *)
Settle(d) ==
    /\ deletion[d].at = "answer"
    /\ deletion' = [deletion EXCEPT ![d].at = "release"]
    /\ UNCHANGED <<env, client, files, held>>

(* ... then the finally block gives bsq:conn back, whatever was told.       *)
(* Mutant: bsq:conn is given back after a success only.                     *)
ReleaseConn_OnSuccess(d) ==
    /\ deletion[d].at = "release"
    /\ deletion[d].told = "deleted"
    /\ deletion' = [deletion EXCEPT ![d].at = "done"]
    /\ UNCHANGED <<env, client, files, held>>

ReleaseConn(d) ==
    /\ deletion[d].at = "release"
    /\ deletion' = [deletion EXCEPT ![d] = Over("done")]
    /\ UNCHANGED <<env, client, files, held>>

DeletionTabDies(d) ==
    /\ "tab" \in Faults
    /\ deletion[d].at \notin {"none", "done", "dead"}
    /\ deletion' = [deletion EXCEPT ![d] = Over("dead")]
    /\ MayLeaveHeld(deletion[d].at = "remove")
    /\ UNCHANGED <<env, client, files>>

-----------------------------------------------------------------------------

Runs(c) ==
    \/ GrantShared(c) \/ AnswerExclusive(c) \/ Boot(c) \/ EnterOpen(c)
    \/ Open(c) \/ EndWorkers(c) \/ CloseReleases(c)

(* What the page does, its timer included, and what its worker does.        *)
Deletes(d) ==
    TakeConn(d) \/ TakeInit(d) \/ Timeout(d) \/ Settle(d) \/ ReleaseConn(d)

Removes(d) == Probe(d) \/ Remove(d) \/ RemoveFails(d) \/ JDeleteFails(d)

OriginNext ==
    \/ \E c \in Clients : Construct(c) \/ Runs(c) \/ Serve(c) \/ Close(c)
                             \/ ClientTabDies(c)
    \/ \E d \in Deletions : CallDelete(d) \/ Deletes(d) \/ Removes(d)
                               \/ DeletionTabDies(d)
    \/ LetGo

OriginSpec == OriginInit /\ [][OriginNext]_originVars

(* The lock manager answers, a client's workers go on booting, close()      *)
(* drains boundedly, and a deletion's page goes on, its timer included. A   *)
(* deletion's worker may hang; nobody has to open, close or delete. A dead  *)
(* worker's files come free.                                                *)
OriginFairSpec ==
    /\ OriginSpec
    /\ \A c \in Clients : WF_originVars(Runs(c))
    /\ \A d \in Deletions : WF_originVars(Deletes(d))
    /\ WF_originVars(LetGo)

-----------------------------------------------------------------------------

Removing(d) == deletion[d].at \in {"probe", "remove"}

(* While a deletion looks for the files and removes them, no worker of a    *)
(* client that was ever given the connection lock is alive, and none opens: *)
(* close() ends the workers before it lets the lock go. Where the VFS takes *)
(* its files exclusively, no two clients' workers live at once either: what *)
(* createVfsInstance waits for is dead, and waiting for it ends.            *)
ConnectedIsNeverDeleted ==
    /\ \A d \in Deletions : Removing(d) =>
          \A c \in Clients :
              /\ client[c].worker = "open" =>
                    env.connection = "shared" /\ client[c].conn = "asked"
              /\ client[c].worker # "opening"
    /\ env.connection = "exclusive" =>
          \A b, c \in Clients :
              client[b].worker \notin {"none", "gone"}
              /\ client[c].worker \notin {"none", "gone"} => b = c

(* A deletion that stopped half-way can be retried: as long as a sidecar is *)
(* left, the main file the presence test reads is there too, so the next    *)
(* deleteDatabase does not answer DATABASE_NOT_FOUND over it.               *)
RetryFindsTheRest ==
    env.storage = "folder" /\ "sidecar" \in files => "main" \in files

(* deleteDatabase resolves only over a database that is gone, sidecar       *)
(* included, whatever failed, was retried or ran beside it - unless a       *)
(* jDelete of its own failed, which it does not see.                        *)
DeletedIsGone ==
    [][\A d \in Deletions :
         deletion'[d].told = "deleted" /\ deletion[d].told # "deleted" =>
             files' = {} \/ deletion'[d].unseen]_originVars

(* No two of them wait for each other for ever: every deletion is answered, *)
(* and every client that stays gets its answer about the lock and, unless   *)
(* refused, a worker.                                                       *)
EveryoneIsAnswered ==
    /\ \A d \in Deletions :
          deletion[d].at = "asked" ~> deletion[d].at \in {"done", "dead"}
    /\ \A c \in Clients :
          client[c].page = "live" ~>
              \/ client[c].page \in {"closing", "ended", "gone"}
              \/ client[c].conn = "refused"
              \/ client[c].conn = "granted" /\ client[c].worker = "open"
    /\ \A c \in Clients : client[c].page = "closing" ~> client[c].page = "gone"

(* A database that is open is not deleted (client.ts on bsq:init: workers   *)
(* are "held at open_v2 by bsq:init, which the delete holds too").          *)
DeletesNothingOpen ==
    \A d \in Deletions : Removing(d) =>
        \A c \in Clients : client[c].worker # "open"
=============================================================================
