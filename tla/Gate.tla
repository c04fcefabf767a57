-------------------------------- MODULE Gate --------------------------------
(***************************************************************************)
(* The readiness gate of scheduler.ts, with the client's onFirstSettle      *)
(* callback (client.ts) that it calls synchronously.                        *)
(*                                                                         *)
(* A gate is a value: the operators below take a gate and return the gate   *)
(* that settleGateSlot leaves behind.  Scheduler and Lifecycle both keep    *)
(* one in a variable.                                                       *)
(***************************************************************************)
EXTENDS Integers

CONSTANT PoolSize           \* opts.poolSize: the slots the client spawns

ASSUME PoolSizeAssumption == PoolSize \in Nat \ {0}

Slots == 0 .. PoolSize - 1

GateStates == {"closed", "open", "rejected"}

Gates == [settled  : SUBSET Slots,   \* settledSlots
          opened   : SUBSET Slots,   \* firstSettleOpened
          declined : SUBSET Slots,   \* declinedSlots
          fired    : BOOLEAN,        \* firstSettleFired
          state    : GateStates]     \* gateOpen, and how gateDeferred settled

ClosedGate == [settled |-> {}, opened |-> {}, declined |-> {},
               fired |-> FALSE, state |-> "closed"]

(***************************************************************************)
(* The slots onFirstSettle is told have failed: settled, and neither opened *)
(* nor declined.                                                            *)
(***************************************************************************)
Failed(g) == g.settled \ (g.opened \cup g.declined)

Recorded(g, i, how) ==
    [g EXCEPT !.settled  = @ \cup {i},
              !.opened   = IF how = "opened"   THEN @ \cup {i} ELSE @,
              !.declined = IF how = "declined" THEN @ \cup {i} ELSE @]

(***************************************************************************)
(* The client's verdict on the first round.  Nothing opened: the client     *)
(* fails, and shutdown() rejects the gate.  Otherwise every failed slot is  *)
(* re-armed for the one retry round, and the gate stays closed until those  *)
(* slots settle again.                                                      *)
(***************************************************************************)
FirstSettle(g) ==
    IF g.opened = {}
    THEN [g EXCEPT !.fired = TRUE, !.state = "rejected"]
    ELSE [g EXCEPT !.fired   = TRUE,
                   !.settled = @ \ Failed(g),
                   !.state   = IF Failed(g) = {} THEN "open" ELSE "closed"]

SettleGateSlot(g, i, how) ==
    LET r == Recorded(g, i, how) IN
    IF g.state # "closed" \/ i \in g.settled THEN g
    ELSE IF r.settled # Slots THEN r
    ELSE IF r.fired THEN [r EXCEPT !.state = "open"]
    ELSE FirstSettle(r)

(***************************************************************************)
(* The slots re-armed, and respawned by the same callback, between gate g   *)
(* and the gate h that settling one more slot left.                         *)
(***************************************************************************)
Rearmed(g, h) == IF h.fired /\ ~g.fired THEN Slots \ h.settled ELSE {}

(* shutdown(): a gate still closed is rejected; an open one stays open.     *)
RejectGate(g) == [g EXCEPT !.state = IF @ = "closed" THEN "rejected" ELSE @]
=============================================================================
