---------------------------- MODULE EpochsProofs ----------------------------
(***************************************************************************)
(* What the tabs of one origin guarantee each other, for any number of them. *)
(* First Epochs: read-your-writes, from the barrier, the bump and the       *)
(* markers of epochs.ts together.  Then Origin: what the two locks of a     *)
(* database guarantee clients and deletions, on every kind of VFS and under *)
(* every fault: the client that is connected keeps its files, and a         *)
(* deletion that stopped or succeeded leaves them as the next caller        *)
(* expects.  The two share no state.                                        *)
(***************************************************************************)
EXTENDS Epochs, Origin, WellFoundedInduction, TLAPS

-----------------------------------------------------------------------------
(* The epoch a tab learns from the origin.                                  *)

(* A set of naturals that is bounded has a greatest element.                *)
LEMMA BoundedHasMax ==
    ASSUME NEW S, S \subseteq Nat, S # {}, NEW N \in Nat, \A n \in S : n <= N
    PROVE  Max(S) \in S /\ \A n \in S : n <= Max(S)
  <1> DEFINE T == {k \in Nat : \E n \in S : k + n = N}
  <1>1. T \subseteq Nat /\ T # {}
    <2>1. PICK n \in S : TRUE
      OBVIOUS
    <2>2. N - n \in Nat /\ (N - n) + n = N
      BY <2>1
    <2> QED
      BY <2>1, <2>2
  <1>2. PICK k \in T : \A j \in T : ~(<<j, k>> \in OpToRel(<, Nat))
    <2> HIDE DEF T
    <2> QED
      BY <1>1, WFMin, NatLessThanWellFounded
  <1>3. PICK x \in S : k + x = N
    OBVIOUS
  <1>4. \A n \in S : x >= n
    <2> SUFFICES ASSUME NEW n \in S, n > x PROVE FALSE
      BY <1>3
    <2>1. N - n \in T /\ N - n < k
      BY <1>3
    <2> QED
      BY <1>1, <1>2, <2>1 DEF OpToRel
  <1>5. /\ Max(S) \in S
        /\ \A n \in S : Max(S) >= n
    BY <1>3, <1>4 DEF Max
  <1> QED
    BY <1>5

(* The origin's epoch is the highest of its markers, or 0.                  *)
LEMMA MaxEpochIs ==
    ASSUME NEW kept \in [Realms -> SUBSET Nat], NEW N \in Nat,
           \A r \in Realms : \A m \in kept[r] : m <= N
    PROVE  /\ MaxEpochIn(kept) \in Nat
           /\ \A r \in Realms : \A m \in kept[r] : m <= MaxEpochIn(kept)
           /\ MaxEpochIn(kept) = 0 \/ \E r \in Realms : MaxEpochIn(kept) \in kept[r]
  <1> DEFINE S == {0} \cup UNION {kept[r] : r \in Realms}
  <1>1. S \subseteq Nat /\ S # {} /\ \A n \in S : n <= N
    OBVIOUS
  <1>2. Max(S) \in S /\ \A n \in S : n <= Max(S)
    <2> HIDE DEF S
    <2> QED
      BY <1>1, BoundedHasMax
  <1>3. \A r \in Realms : \A m \in kept[r] : m \in S
    OBVIOUS
  <1> QED
    BY <1>2, <1>3 DEF MaxEpochIn

-----------------------------------------------------------------------------
(* The invariant.                                                           *)

OriginEpoch == MaxEpochIn(markers)

(* The shapes of the state, without the bounds on what may be called.       *)
OpShape ==
    [pc : {"idle", "locking", "asking", "answered", "barrier", "absorbed",
           "running", "wrote", "publishing", "held", "published",
           "releasing", "gone"},
     kind : {"read", "write", "abandoned"},
     target : Nat, origin : Nat, next : Nat, made : Nat, owed : SUBSET Nat]

Shape ==
    /\ log \in Seq(Realms)
    /\ cell \in [Realms -> Nat]
    /\ markers \in [Realms -> SUBSET Nat]
    /\ op \in [Workers -> OpShape]
    /\ seen \in [Workers -> Nat \cup {-1}]
    /\ view \in [Workers -> SUBSET Nat]
    /\ done \in SUBSET Nat

(* A write holds the lock from before it asks for the origin's epoch until  *)
(* its lease is back, and only a write gets past its statement.             *)
WritersHoldTheLock ==
    \A w \in Workers :
        /\ op[w].kind = "write" /\ op[w].pc \notin {"idle", "locking", "gone"} =>
              lock = w
        /\ PastStatement(w) => op[w].kind = "write"

(* What names a commit names one that was made.                             *)
CommitsExist ==
    /\ done \subseteq DOMAIN log
    /\ \A w \in Workers :
          /\ view[w] \subseteq DOMAIN log
          /\ op[w].owed \subseteq done
          /\ ~PastStatement(w) => op[w].made = 0
          /\ op[w].made # 0 => op[w].made \in DOMAIN log /\ log[op[w].made] = RealmOf(w)

(* A realm's markers are epochs its cell has reached, and the one it is     *)
(* about to publish is the highest.                                         *)
MarkersFollowCell ==
    /\ \E N \in Nat : /\ \A r \in Realms : cell[r] <= N
                      /\ \A w \in Workers : op[w].origin <= N
    /\ \A r \in Realms : \A m \in markers[r] : m <= cell[r]
    /\ \A w \in Workers :
          /\ op[w].pc \in {"publishing", "held", "published"} =>
                op[w].next <= cell[RealmOf(w)]
          /\ op[w].pc \in {"publishing", "held"} =>
                \A m \in markers[RealmOf(w)] : m <= op[w].next
          /\ At(w, "held") => op[w].next \in markers[RealmOf(w)]

DoneIn(r) == {c \in done : log[c] = r}

(* A connection that claims to have seen epoch n.                           *)
Claims(v, n) == seen[v] >= n \/ (At(v, "absorbed") /\ op[v].target >= n)

(* Within a realm the cell alone does: nobody has seen or aims at an epoch  *)
(* it has not reached, ...                                                  *)
NobodyIsAhead ==
    \A v \in Workers :
        /\ seen[v] <= cell[RealmOf(v)]
        /\ op[v].pc \in {"barrier", "absorbed", "running", "wrote"} =>
              op[v].target <= cell[RealmOf(v)]
        /\ At(v, "wrote") /\ op[v].made # 0 /\ seen[v] >= 0 => op[v].made \in view[v]

(* ... who claims its epoch has the commits that were resolved here, ...    *)
ClaimsCoverDone ==
    \A v \in Workers :
        Claims(v, cell[RealmOf(v)]) => DoneIn(RealmOf(v)) \subseteq view[v]

(* ... and who claims the epoch of a write has its commit.                  *)
ClaimsCoverWrites ==
    \A v, x \in Workers :
        /\ op[x].pc \in {"publishing", "held", "published"}
        /\ RealmOf(x) = RealmOf(v) /\ op[x].made # 0
        /\ Claims(v, op[x].next)
        => op[x].made \in view[v]

(* What an operation is owed, its connection has once the barrier has run   *)
(* or was found needless.                                                   *)
OwedHere ==
    \A w \in Workers :
        /\ At(w, "absorbed") => op[w].owed \subseteq view[w]
        /\ At(w, "running") =>
              {c \in op[w].owed : log[c] = RealmOf(w)} \subseteq view[w]

WithinRealm == NobodyIsAhead /\ ClaimsCoverDone /\ ClaimsCoverWrites /\ OwedHere

(* Where only workers die, the origin's epoch leads: a cell is ahead of it  *)
(* only while its own write publishes, ...                                  *)
CellsFollowOrigin ==
    /\ late = {}
    /\ \A r \in Realms :
          \/ cell[r] <= OriginEpoch
          \/ \E x \in Workers : RealmOf(x) = r /\ At(x, "publishing")
    /\ \A w \in Workers :
          /\ op[w].origin <= OriginEpoch
          /\ At(w, "publishing") => /\ op[w].next = OriginEpoch + 1
                                    /\ cell[RealmOf(w)] = OriginEpoch + 1
          /\ op[w].pc \in {"held", "published"} => op[w].next = OriginEpoch

(* ... and a write aims at it.                                              *)
WritesAimAtOrigin ==
    \A w \in Workers :
        op[w].kind = "write" =>
            /\ op[w].pc \in {"answered", "barrier", "absorbed", "running"} =>
                  op[w].origin = OriginEpoch
            /\ op[w].pc \in {"barrier", "absorbed", "running", "wrote"} =>
                  op[w].target = OriginEpoch

(* An epoch of v's that covers every commit there is, its own write aside.  *)
Latest(v, n) ==
    /\ n >= OriginEpoch
    /\ \A x \in Workers : /\ At(x, "publishing") => n >= op[x].next
                          /\ At(x, "wrote") => x = v

(* Then who is at the latest epoch has every commit, ...                    *)
LatestSeesAll ==
    \A v \in Workers :
        /\ Latest(v, seen[v]) => view[v] = DOMAIN log
        /\ At(v, "absorbed") /\ Latest(v, op[v].target) => view[v] = DOMAIN log

(* ... who claims the origin's has every resolved one, ...                  *)
ClaimsSeeDone == \A v \in Workers : Claims(v, OriginEpoch) => done \subseteq view[v]

(* ... and what an operation is owed, its connection has.                   *)
OwedAnywhere ==
    \A w \in Workers :
        /\ At(w, "answered") /\ seen[w] >= op[w].origin => op[w].owed \subseteq view[w]
        /\ At(w, "running") => op[w].owed \subseteq view[w]

AcrossRealms ==
    /\ CellsFollowOrigin /\ WritesAimAtOrigin
    /\ LatestSeesAll /\ ClaimsSeeDone /\ OwedAnywhere

IInv ==
    /\ Shape /\ WritersHoldTheLock /\ CommitsExist /\ MarkersFollowCell
    /\ WithinRealm /\ (OnlyCrashes => AcrossRealms)

-----------------------------------------------------------------------------
(* Facts about the state's parts.                                           *)

LEMMA WorkersAreSomebody ==
    \A w \in Workers : RealmOf(w) \in Realms /\ w # Nobody
  BY DEF Workers, RealmOf, Nobody

LEMMA OneMoreCommit ==
    ASSUME log \in Seq(Realms), NEW r \in Realms
    PROVE  /\ Append(log, r) \in Seq(Realms)
           /\ Len(log) + 1 \in Nat \ {0} /\ Len(log) + 1 \notin DOMAIN log
           /\ DOMAIN log \subseteq Nat \ {0}
           /\ DOMAIN Append(log, r) = DOMAIN log \cup {Len(log) + 1}
           /\ \A c \in DOMAIN log : Append(log, r)[c] = log[c]
           /\ Append(log, r)[Len(log) + 1] = r
  OBVIOUS

(* The origin's epoch, now.                                                 *)
LEMMA EpochIs ==
    ASSUME Shape, MarkersFollowCell
    PROVE  /\ OriginEpoch \in Nat
           /\ \A r \in Realms : \A m \in markers[r] : m <= OriginEpoch
           /\ OriginEpoch = 0 \/ \E r \in Realms : OriginEpoch \in markers[r]
  <1>1. PICK N \in Nat : \A r \in Realms : cell[r] <= N
    BY DEF MarkersFollowCell
  <1>2. \A r \in Realms : \A m \in markers[r] : m <= N
    BY <1>1 DEF Shape, MarkersFollowCell
  <1>3. markers \in [Realms -> SUBSET Nat]
    BY DEF Shape
  <1> QED
    BY <1>1, <1>2, <1>3, MaxEpochIs DEF OriginEpoch

LEMMA InitHolds == Init => IInv
  <1> SUFFICES ASSUME Init PROVE IInv
    OBVIOUS
  <1>0. /\ log = <<>> /\ done = {} /\ late = {} /\ log \in Seq(Realms) /\ DOMAIN log = {}
        /\ cell = [r \in Realms |-> 0] /\ markers = [r \in Realms |-> {}]
        /\ op \in [Workers -> OpShape]
        /\ seen = [w \in Workers |-> -1] /\ view = [w \in Workers |-> {}]
        /\ \A w \in Workers : /\ op[w].pc \in {"idle", "gone"} /\ op[w].kind = "read"
                              /\ op[w].made = 0 /\ op[w].owed = {} /\ op[w].origin = 0
                              /\ RealmOf(w) \in Realms
    BY WorkersAreSomebody DEF Init, Idle, OpShape
  <1>1. OriginEpoch \in Nat
    BY <1>0, MaxEpochIs DEF OriginEpoch
  <1>2. Shape
    BY <1>0 DEF Shape
  <1>3. WritersHoldTheLock /\ CommitsExist
    BY <1>0 DEF WritersHoldTheLock, CommitsExist, PastStatement
  <1>4. MarkersFollowCell
    BY <1>0 DEF MarkersFollowCell, At
  <1>5. WithinRealm
    BY <1>0 DEF WithinRealm, NobodyIsAhead, ClaimsCoverDone, ClaimsCoverWrites,
                OwedHere, Claims, DoneIn, At
  <1>6. CellsFollowOrigin /\ WritesAimAtOrigin
    BY <1>0, <1>1 DEF CellsFollowOrigin, WritesAimAtOrigin, At
  <1>7. LatestSeesAll /\ ClaimsSeeDone /\ OwedAnywhere
    BY <1>0, <1>1 DEF LatestSeesAll, ClaimsSeeDone, OwedAnywhere, Latest, Claims, At
  <1> QED
    BY <1>2, <1>3, <1>4, <1>5, <1>6, <1>7 DEF IInv, AcrossRealms

(* How an operation changes: one worker's goes on ...                       *)

Steps == {"idle", "locking", "asking", "answered", "barrier", "absorbed", "running",
          "wrote", "publishing", "held", "published", "releasing", "gone"}

OnlyOf(w) ==
    /\ op' \in [Workers -> OpShape]
    /\ \A x \in Workers \ {w} : op'[x] = op[x]

Moves(w, step) ==
    /\ OnlyOf(w)
    /\ op'[w].pc = step
    /\ op'[w].kind = op[w].kind /\ op'[w].target = op[w].target
    /\ op'[w].origin = op[w].origin /\ op'[w].next = op[w].next
    /\ op'[w].made = op[w].made /\ op'[w].owed = op[w].owed

(* ... or is over.                                                          *)
Returns(w) ==
    /\ OnlyOf(w)
    /\ op'[w].pc = "idle" /\ op'[w].kind = "read" /\ op'[w].target = 0
    /\ op'[w].origin = 0 /\ op'[w].next = 0 /\ op'[w].made = 0 /\ op'[w].owed = {}

LEMMA OpChanges ==
    ASSUME Shape, NEW w \in Workers, NEW o \in OpShape, op' = [op EXCEPT ![w] = o]
    PROVE  OnlyOf(w) /\ op'[w] = o
  BY DEF Shape, OnlyOf

LEMMA GotoIs ==
    ASSUME Shape, NEW w \in Workers, NEW step \in Steps, Goto(w, step)
    PROVE  Moves(w, step)
  <1>1. op[w] \in OpShape
    BY DEF Shape
  <1>2. [op[w] EXCEPT !.pc = step] \in OpShape
    BY <1>1 DEF OpShape, Steps
  <1>3. op' = [op EXCEPT ![w] = [op[w] EXCEPT !.pc = step]]
    BY DEF Goto
  <1>4. OnlyOf(w) /\ op'[w] = [op[w] EXCEPT !.pc = step]
    BY <1>2, <1>3, OpChanges
  <1> QED
    BY <1>1, <1>4 DEF Moves, OpShape

LEMMA ReturnIs ==
    ASSUME Shape, NEW w \in Workers, Return(w)
    PROVE  Returns(w)
  <1>1. Idle \in OpShape
    BY DEF Idle, OpShape
  <1>2. OnlyOf(w) /\ op'[w] = Idle
    BY <1>1, OpChanges DEF Return
  <1> QED
    BY <1>2 DEF Returns, Idle

LEMMA CallIs ==
    ASSUME Shape, NEW w \in Workers, NEW k \in {"read", "write"}, Call(w, k)
    PROVE  /\ op[w].pc = "idle"
           /\ UNCHANGED <<log, done, cell, markers, lock, seen, view, late>>
           /\ OnlyOf(w)
           /\ op'[w].pc = (IF k = "write" THEN "locking" ELSE "asking")
           /\ op'[w].kind = k /\ op'[w].owed = done /\ op'[w].target = 0
           /\ op'[w].origin = 0 /\ op'[w].next = 0 /\ op'[w].made = 0
  <1> DEFINE o == [Idle EXCEPT !.pc = IF k = "write" THEN "locking" ELSE "asking",
                               !.kind = k, !.owed = done]
  <1>1. o \in OpShape
    BY DEF Idle, OpShape, Shape
  <1>2. OnlyOf(w) /\ op'[w] = o
    BY <1>1, OpChanges DEF Call
  <1>z. op[w].pc = "idle" /\ UNCHANGED <<log, done, cell, markers, lock, seen, view, late>>
    BY DEF Call, fileVars, realmVars, At
  <1> QED
    BY <1>2, <1>z DEF Idle

LEMMA AskOriginIs ==
    ASSUME Shape, OriginEpoch \in Nat, NEW w \in Workers, AskOrigin(w)
    PROVE  /\ op[w].pc = "asking"
           /\ UNCHANGED <<log, done, cell, markers, lock, seen, view, late>>
           /\ OnlyOf(w)
           /\ op'[w].pc = "answered" /\ op'[w].origin = OriginEpoch
           /\ op'[w].kind = op[w].kind /\ op'[w].target = op[w].target
           /\ op'[w].next = op[w].next
           /\ op'[w].made = op[w].made /\ op'[w].owed = op[w].owed
  <1> DEFINE o == [op[w] EXCEPT !.origin = OriginEpoch, !.pc = "answered"]
  <1>1. o \in OpShape /\ op[w] \in OpShape
    BY DEF OpShape, Shape
  <1>2. op' = [op EXCEPT ![w] = o]
    BY DEF AskOrigin, OriginEpoch
  <1>3. OnlyOf(w) /\ op'[w] = o
    BY <1>1, <1>2, OpChanges
  <1>z. op[w].pc = "asking" /\ UNCHANGED <<log, done, cell, markers, lock, seen, view, late>>
    BY DEF AskOrigin, fileVars, realmVars, At
  <1> QED
    BY <1>1, <1>3, <1>z DEF OpShape

(* The barrier aims at the cell's epoch, the origin's taken in; whoever has *)
(* left meanwhile only returns.                                             *)
LEMMA AimBarrierIs ==
    ASSUME Shape, NEW w \in Workers, AimBarrier(w)
    PROVE  /\ op[w].pc = "answered"
           /\ UNCHANGED <<log, done, markers, lock, seen, view, late>>
           /\ OnlyOf(w)
           /\ cell' \in [Realms -> Nat]
           /\ cell'[RealmOf(w)] >= cell[RealmOf(w)]
           /\ cell'[RealmOf(w)] >= op[w].origin
           /\ cell'[RealmOf(w)] \in {cell[RealmOf(w)], op[w].origin}
           /\ \A r \in Realms \ {RealmOf(w)} : cell'[r] = cell[r]
           /\ \/ Returns(w)
              \/ /\ op'[w].target = cell'[RealmOf(w)]
                 /\ op'[w].kind = op[w].kind /\ op'[w].origin = op[w].origin
                 /\ op'[w].next = op[w].next /\ op'[w].made = op[w].made
                 /\ op'[w].owed = op[w].owed
                 /\ \/ op'[w].pc = "barrier"
                    \/ op'[w].pc = "running" /\ seen[w] >= cell'[RealmOf(w)]
  <1> DEFINE r == RealmOf(w)
             t == RaisedTo(cell[r], op[w].origin)
             aimed == [op[w] EXCEPT !.target = t, !.pc = "barrier"]
             ran == [op[w] EXCEPT !.target = t, !.pc = "running"]
  <1>1. /\ r \in Realms /\ op[w] \in OpShape /\ op[w].origin \in Nat /\ cell[r] \in Nat
        /\ seen[w] \in Nat \cup {-1}
    BY WorkersAreSomebody DEF Shape, OpShape
  <1>2. t \in Nat /\ t >= cell[r] /\ t >= op[w].origin /\ t \in {cell[r], op[w].origin}
    BY <1>1 DEF RaisedTo
  <1>3. cell' = [cell EXCEPT ![r] = t]
    BY DEF AimBarrier
  <1>4. aimed \in OpShape /\ ran \in OpShape /\ Idle \in OpShape
    BY <1>1, <1>2 DEF OpShape, Idle
  <1>5. cell' \in [Realms -> Nat] /\ cell'[r] = t /\ \A q \in Realms \ {r} : cell'[q] = cell[q]
    BY <1>1, <1>2, <1>3 DEF Shape
  <1>z. op[w].pc = "answered" /\ UNCHANGED <<log, done, markers, lock, seen, view, late>>
    BY DEF AimBarrier, fileVars, realmVars, At
  <1>6. \/ op' = [op EXCEPT ![w] = aimed]
        \/ op' = [op EXCEPT ![w] = Idle]
        \/ op' = [op EXCEPT ![w] = ran] /\ ~(seen[w] < t)
    <2>1. PastBarrier(aimed) \in {Idle, ran}
      BY <1>1 DEF PastBarrier, OpShape
    <2> QED
      BY <2>1 DEF AimBarrier, NeedsBarrier
  <1>7. CASE op' = [op EXCEPT ![w] = aimed]
    <2>1. OnlyOf(w) /\ op'[w] = aimed
      BY <1>4, <1>7, OpChanges
    <2>2. /\ op'[w].target = t /\ op'[w].pc = "barrier" /\ op'[w].kind = op[w].kind
          /\ op'[w].origin = op[w].origin /\ op'[w].next = op[w].next
          /\ op'[w].made = op[w].made /\ op'[w].owed = op[w].owed
      BY <1>1, <2>1 DEF OpShape
    <2> QED
      BY <1>2, <1>5, <1>z, <2>1, <2>2
  <1>8. CASE op' = [op EXCEPT ![w] = Idle]
    <2>1. Returns(w) /\ OnlyOf(w)
      BY <1>8, ReturnIs DEF Return, Returns
    <2> QED
      BY <1>2, <1>5, <1>z, <2>1
  <1>9. CASE op' = [op EXCEPT ![w] = ran] /\ ~(seen[w] < t)
    <2>1. OnlyOf(w) /\ op'[w] = ran
      BY <1>4, <1>9, OpChanges
    <2>2. /\ op'[w].target = t /\ op'[w].pc = "running" /\ op'[w].kind = op[w].kind
          /\ op'[w].origin = op[w].origin /\ op'[w].next = op[w].next
          /\ op'[w].made = op[w].made /\ op'[w].owed = op[w].owed
      BY <1>1, <2>1 DEF OpShape
    <2>3. seen[w] >= t
      BY <1>1, <1>2, <1>9
    <2> QED
      BY <1>2, <1>5, <1>z, <2>1, <2>2, <2>3
  <1> QED
    BY <1>6, <1>7, <1>8, <1>9

LEMMA EndBarrierIs ==
    ASSUME Shape, NEW w \in Workers, EndBarrier(w)
    PROVE  /\ op[w].pc = "absorbed"
           /\ UNCHANGED <<log, done, cell, markers, lock, view, late>>
           /\ Returns(w) \/ Moves(w, "running")
           /\ seen' \in [Workers -> Nat \cup {-1}] /\ seen'[w] = op[w].target
           /\ \A x \in Workers \ {w} : seen'[x] = seen[x]
  <1>1. op[w] \in OpShape /\ op[w].target \in Nat
    BY DEF Shape, OpShape
  <1>2. \/ op' = [op EXCEPT ![w] = Idle]
        \/ op' = [op EXCEPT ![w].pc = "running"]
    BY DEF EndBarrier, PastBarrier
  <1>3. Returns(w) \/ Moves(w, "running")
    BY <1>2, ReturnIs, GotoIs DEF Return, Goto, Steps
  <1>z. op[w].pc = "absorbed" /\ UNCHANGED <<log, done, cell, markers, lock, view, late>>
    BY DEF EndBarrier, fileVars, realmVars, At
  <1> QED
    BY <1>1, <1>3, <1>z DEF EndBarrier, Absorbed, Shape

LEMMA AbandonIs ==
    ASSUME Shape, NEW w \in Workers, AbandonBarrier(w)
    PROVE  /\ op[w].pc \in {"asking", "answered", "barrier", "absorbed"}
           /\ UNCHANGED <<log, done, cell, markers, seen, view, late>>
           /\ OnlyOf(w)
           /\ op'[w].pc = op[w].pc /\ op'[w].kind = "abandoned"
           /\ op'[w].target = op[w].target /\ op'[w].origin = op[w].origin
           /\ op'[w].next = op[w].next
           /\ op'[w].made = op[w].made /\ op'[w].owed = op[w].owed
  <1> DEFINE o == [op[w] EXCEPT !.kind = "abandoned"]
  <1>1. o \in OpShape /\ op[w] \in OpShape
    BY DEF OpShape, Shape
  <1>2. OnlyOf(w) /\ op'[w] = o
    BY <1>1, OpChanges DEF AbandonBarrier
  <1>z. op[w].pc \in {"asking", "answered", "barrier", "absorbed"} /\ UNCHANGED <<log, done, cell, markers, seen, view, late>>
    BY DEF AbandonBarrier, fileVars, realmVars, At
  <1> QED
    BY <1>1, <1>2, <1>z DEF OpShape

LEMMA WriteIs ==
    ASSUME Shape, NEW w \in Workers, Write(w)
    PROVE  /\ op[w].pc = "running" /\ op[w].kind = "write"
           /\ UNCHANGED <<done, cell, markers, lock, seen, late>>
           /\ log' = Append(log, RealmOf(w))
           /\ view' \in [Workers -> SUBSET Nat] /\ view'[w] = view[w] \cup {Len(log) + 1}
           /\ \A x \in Workers \ {w} : view'[x] = view[x]
           /\ OnlyOf(w)
           /\ op'[w].pc = "wrote" /\ op'[w].made = Len(log) + 1
           /\ op'[w].kind = op[w].kind /\ op'[w].target = op[w].target
           /\ op'[w].origin = op[w].origin /\ op'[w].next = op[w].next
           /\ op'[w].owed = op[w].owed
  <1> DEFINE n == Len(log) + 1
             o == [op[w] EXCEPT !.pc = "wrote", !.made = n]
  <1>0. op[w] \in OpShape /\ n \in Nat
    BY DEF Shape
  <1>1. o \in OpShape /\ op[w] \in OpShape
    <2> HIDE DEF n
    <2> QED
      BY <1>0 DEF OpShape
  <1>2. OnlyOf(w) /\ op'[w] = o
    <2>1. op' = [op EXCEPT ![w] = o]
      BY DEF Write
    <2> QED
      BY <1>1, <2>1, OpChanges
  <1>3. op'[w].made = n
    BY <1>1, <1>2 DEF OpShape
  <1>4. /\ op'[w].pc = "wrote" /\ op'[w].kind = op[w].kind
        /\ op'[w].target = op[w].target /\ op'[w].origin = op[w].origin
        /\ op'[w].next = op[w].next /\ op'[w].owed = op[w].owed
    <2> HIDE DEF n
    <2> QED
      BY <1>1, <1>2 DEF OpShape
  <1>5. /\ op[w].pc = "running" /\ op[w].kind = "write"
        /\ UNCHANGED <<done, cell, markers, lock, seen, late>>
        /\ log' = Append(log, RealmOf(w))
        /\ view' = [view EXCEPT ![w] = @ \cup {n}]
    BY DEF Write, Committed, At, realmVars
  <1>6. /\ view' \in [Workers -> SUBSET Nat] /\ view'[w] = view[w] \cup {n}
        /\ \A x \in Workers \ {w} : view'[x] = view[x]
    <2> HIDE DEF n
    <2> QED
      BY <1>0, <1>5 DEF Shape
  <1> QED
    BY <1>2, <1>3, <1>4, <1>5, <1>6

(* A commit of a write that was aborted.                                    *)
LEMMA LateCommitIs ==
    ASSUME Shape, NEW w \in Workers, LateCommit(w)
    PROVE  /\ w \in late
           /\ UNCHANGED <<done, cell, markers, lock, op, seen>>
           /\ late' = late \ {w}
           /\ log' = Append(log, RealmOf(w))
           /\ view' \in [Workers -> SUBSET Nat] /\ view'[w] = view[w] \cup {Len(log) + 1}
           /\ \A x \in Workers \ {w} : view'[x] = view[x]
  <1> DEFINE n == Len(log) + 1
  <1>0. n \in Nat
    BY DEF Shape
  <1>1. /\ w \in late
        /\ UNCHANGED <<done, cell, markers, lock, op, seen>>
        /\ late' = late \ {w}
        /\ log' = Append(log, RealmOf(w))
        /\ view' = [view EXCEPT ![w] = @ \cup {n}]
    BY DEF LateCommit, Committed, realmVars
  <1>2. /\ view' \in [Workers -> SUBSET Nat] /\ view'[w] = view[w] \cup {n}
        /\ \A x \in Workers \ {w} : view'[x] = view[x]
    <2> HIDE DEF n
    <2> QED
      BY <1>0, <1>1 DEF Shape
  <1> QED
    BY <1>1, <1>2

(* The bump; a worker that was current for the very epoch before stays it.  *)
LEMMA AfterWriteIs ==
    ASSUME Shape, NEW w \in Workers, AfterWrite(w)
    PROVE  /\ op[w].pc = "wrote"
           /\ UNCHANGED <<log, done, markers, lock, view, late>>
           /\ OnlyOf(w)
           /\ op'[w].pc = "publishing" /\ op'[w].next = cell[RealmOf(w)] + 1
           /\ op'[w].kind = op[w].kind /\ op'[w].target = op[w].target
           /\ op'[w].origin = op[w].origin /\ op'[w].made = op[w].made
           /\ op'[w].owed = op[w].owed
           /\ cell' \in [Realms -> Nat] /\ cell'[RealmOf(w)] = cell[RealmOf(w)] + 1
           /\ \A r \in Realms \ {RealmOf(w)} : cell'[r] = cell[r]
           /\ seen' \in [Workers -> Nat \cup {-1}]
           /\ \A x \in Workers \ {w} : seen'[x] = seen[x]
           /\ \/ seen'[w] = seen[w]
              \/ /\ seen'[w] = cell[RealmOf(w)] + 1
                 /\ seen[w] = cell[RealmOf(w)] /\ seen[w] = op[w].target
  <1> DEFINE r == RealmOf(w)
             n == cell[r] + 1
             o == [op[w] EXCEPT !.pc = "publishing", !.next = n]
  <1>1. /\ r \in Realms /\ op[w] \in OpShape /\ op[w].target \in Nat /\ cell[r] \in Nat
        /\ seen[w] \in Nat \cup {-1}
    BY WorkersAreSomebody DEF Shape, OpShape
  <1>2. o \in OpShape
    <2>1. n \in Nat
      BY <1>1
    <2> HIDE DEF n
    <2> QED
      BY <1>1, <2>1 DEF OpShape
  <1>3. /\ op' = [op EXCEPT ![w] = o] /\ cell' = [cell EXCEPT ![r] = n]
        /\ seen' = [seen EXCEPT ![w] = AdvanceSeen(seen[w], op[w].target, n)]
    BY DEF AfterWrite, Bumped
  <1>4. OnlyOf(w) /\ op'[w] = o
    BY <1>2, <1>3, OpChanges
  <1>5. \/ AdvanceSeen(seen[w], op[w].target, n) = seen[w]
        \/ /\ AdvanceSeen(seen[w], op[w].target, n) = n
           /\ seen[w] = op[w].target /\ seen[w] = cell[r]
    BY <1>1 DEF AdvanceSeen
  <1>6. /\ op'[w].pc = "publishing" /\ op'[w].next = n
        /\ op'[w].kind = op[w].kind /\ op'[w].target = op[w].target
        /\ op'[w].origin = op[w].origin /\ op'[w].made = op[w].made
        /\ op'[w].owed = op[w].owed
    BY <1>1, <1>4 DEF OpShape
  <1>7. /\ cell' \in [Realms -> Nat] /\ cell'[r] = n
        /\ \A q \in Realms \ {r} : cell'[q] = cell[q]
    BY <1>1, <1>3 DEF Shape
  <1>8. /\ seen' \in [Workers -> Nat \cup {-1}]
        /\ \A x \in Workers \ {w} : seen'[x] = seen[x]
        /\ seen'[w] = AdvanceSeen(seen[w], op[w].target, n)
    BY <1>1, <1>3, <1>5 DEF Shape
  <1>z. op[w].pc = "wrote" /\ UNCHANGED <<log, done, markers, lock, view, late>>
    BY DEF AfterWrite, fileVars, realmVars, At
  <1> QED
    BY <1>4, <1>5, <1>6, <1>7, <1>8, <1>z

(* A worker that dies has seen nothing; what becomes of its operation       *)
(* depends on how far it was.                                               *)
LEMMA CrashIs ==
    ASSUME Shape, NEW w \in Workers, Crash(w)
    PROVE  /\ seen' \in [Workers -> Nat \cup {-1}] /\ seen'[w] = -1
           /\ view' \in [Workers -> SUBSET Nat] /\ view'[w] = {}
           /\ \A x \in Workers \ {w} : seen'[x] = seen[x] /\ view'[x] = view[x]
           /\ late' \subseteq late
           /\ UNCHANGED <<done, cell, markers>>
           /\ \/ /\ At(w, "running") /\ op[w].kind = "write"
                 /\ log' \in {log, Append(log, RealmOf(w))}
                 /\ Moves(w, "wrote") /\ lock' = lock
              \/ PastStatement(w) /\ UNCHANGED <<log, op, lock>>
              \/ /\ ~PastStatement(w) /\ Returns(w) /\ log' = log
                 /\ lock' = Unlocked(w)
  <1>1. /\ seen' \in [Workers -> Nat \cup {-1}] /\ seen'[w] = -1
        /\ view' \in [Workers -> SUBSET Nat] /\ view'[w] = {}
        /\ \A x \in Workers \ {w} : seen'[x] = seen[x] /\ view'[x] = view[x]
    BY DEF Crash, Shape
  <1>2. late' \subseteq late /\ UNCHANGED <<done, cell, markers>>
    BY DEF Crash, realmVars
  <1>3. Goto(w, "wrote") => Moves(w, "wrote")
    BY GotoIs DEF Steps
  <1>4. Return(w) => Returns(w)
    BY ReturnIs
  <1> QED
    BY <1>1, <1>2, <1>3, <1>4 DEF Crash, InStatement

LEMMA RealmDiesIs ==
    ASSUME Shape, NEW r \in Realms, RealmDies(r)
    PROVE  /\ op' \in [Workers -> OpShape]
           /\ \A w \in Workers : RealmOf(w) # r =>
                 op'[w] = op[w] /\ seen'[w] = seen[w] /\ view'[w] = view[w]
           /\ \A w \in Workers : RealmOf(w) = r =>
                 /\ op'[w].pc = "gone" /\ op'[w].kind = "read" /\ op'[w].target = 0
                 /\ op'[w].origin = 0 /\ op'[w].next = 0 /\ op'[w].made = 0
                 /\ op'[w].owed = {} /\ seen'[w] = -1 /\ view'[w] = {}
           /\ seen' \in [Workers -> Nat \cup {-1}] /\ view' \in [Workers -> SUBSET Nat]
           /\ cell' = [cell EXCEPT ![r] = 0] /\ markers' = [markers EXCEPT ![r] = {}]
           /\ \A w \in Workers : RealmOf(w) # r /\ lock = w => lock' = w
           /\ UNCHANGED <<log, done>>
  <1>1. [Idle EXCEPT !.pc = "gone"] \in OpShape
    BY DEF Idle, OpShape
  <1> QED
    BY <1>1 DEF RealmDies, Shape, fileVars, Idle

-----------------------------------------------------------------------------
(* Every step keeps the shapes ...                                          *)
LEMMA ShapeStep ==
    ASSUME Shape, MarkersFollowCell, CommitsExist, [Next]_vars
    PROVE  Shape'
  <1>0. /\ \A w \in Workers : RealmOf(w) \in Realms /\ op[w] \in OpShape
        /\ \A r \in Realms : Append(log, r) \in Seq(Realms)
        /\ log \in Seq(Realms) /\ OriginEpoch \in Nat
    BY WorkersAreSomebody, OneMoreCommit, EpochIs DEF Shape
  <1>1. ASSUME NEW w \in Workers, NEW t \in {"read", "write"}, Call(w, t)
        PROVE  Shape'
    BY <1>0, <1>1, CallIs
    DEF Moves, Returns, OnlyOf, At, fileVars, realmVars, Shape, OpShape
  <1>2. ASSUME NEW w \in Workers, LockWrite(w) PROVE Shape'
    BY <1>0, <1>2, GotoIs
    DEF LockWrite, Steps, Moves, Returns, OnlyOf, At, fileVars, realmVars, Shape,
        OpShape
  <1>3. ASSUME NEW w \in Workers, AskOrigin(w) PROVE Shape'
    BY <1>0, <1>3, AskOriginIs
    DEF Moves, Returns, OnlyOf, At, fileVars, realmVars, Shape, OpShape
  <1>4. ASSUME NEW w \in Workers, AimBarrier(w) PROVE Shape'
    BY <1>0, <1>4, AimBarrierIs
    DEF Moves, Returns, OnlyOf, At, fileVars, realmVars, Shape, OpShape
  <1>5. ASSUME NEW w \in Workers, RunBarrier(w) PROVE Shape'
    BY SMTT(30), <1>0, <1>5, GotoIs
    DEF RunBarrier, Steps, Moves, Returns, OnlyOf, At, fileVars, realmVars, Shape,
        OpShape
  <1>6. ASSUME NEW w \in Workers, EndBarrier(w) PROVE Shape'
    BY <1>0, <1>6, EndBarrierIs
    DEF Moves, Returns, OnlyOf, At, fileVars, realmVars, Shape, OpShape
  <1>7. ASSUME NEW w \in Workers, AbandonBarrier(w) PROVE Shape'
    BY <1>0, <1>7, AbandonIs
    DEF AbandonBarrier, Unlocked, Moves, Returns, OnlyOf, At, fileVars, realmVars,
        Shape, OpShape
  <1>8. ASSUME NEW w \in Workers, GiveUp(w) PROVE Shape'
    BY <1>0, <1>8, ReturnIs
    DEF GiveUp, Unlocked, Moves, Returns, OnlyOf, At, fileVars, realmVars, Shape,
        OpShape
  <1>9. ASSUME NEW w \in Workers, Read(w) PROVE Shape'
    BY <1>0, <1>9, ReturnIs
    DEF Read, Moves, Returns, OnlyOf, At, fileVars, realmVars, Shape, OpShape
  <1>10. ASSUME NEW w \in Workers, Write(w) PROVE Shape'
    <2>1. log' \in Seq(Realms)
      BY <1>0, <1>10, WriteIs
    <2>2. /\ op' \in [Workers -> OpShape] /\ view' \in [Workers -> SUBSET Nat]
          /\ seen' \in [Workers -> Nat \cup {-1}] /\ UNCHANGED <<done, cell, markers>>
      BY <1>10, WriteIs DEF Shape, Moves, Returns, OnlyOf
    <2> QED
      BY <2>1, <2>2 DEF Shape
  <1>11. ASSUME NEW w \in Workers, FailWrite(w) PROVE Shape'
    BY <1>0, <1>11, GotoIs
    DEF FailWrite, Steps, Moves, Returns, OnlyOf, At, fileVars, realmVars, Shape,
        OpShape
  <1>12. ASSUME NEW w \in Workers, LateCommit(w) PROVE Shape'
    <2>1. log' \in Seq(Realms)
      BY <1>0, <1>12, LateCommitIs
    <2>2. /\ op' \in [Workers -> OpShape] /\ view' \in [Workers -> SUBSET Nat]
          /\ seen' \in [Workers -> Nat \cup {-1}] /\ UNCHANGED <<done, cell, markers>>
      BY <1>12, LateCommitIs DEF Shape, Moves, Returns, OnlyOf
    <2> QED
      BY <2>1, <2>2 DEF Shape
  <1>13. ASSUME NEW w \in Workers, AfterWrite(w) PROVE Shape'
    BY <1>0, <1>13, AfterWriteIs
    DEF Moves, Returns, OnlyOf, At, fileVars, realmVars, Shape, OpShape
  <1>14. ASSUME NEW w \in Workers, HoldMarker(w) PROVE Shape'
    BY <1>0, <1>14, GotoIs
    DEF HoldMarker, Publishing, Steps, Moves, Returns, OnlyOf, At, fileVars, realmVars,
        Shape, OpShape
  <1>15. ASSUME NEW w \in Workers, SwapMarker(w) PROVE Shape'
    BY <1>0, <1>15, GotoIs
    DEF SwapMarker, Steps, Moves, Returns, OnlyOf, At, fileVars, realmVars, Shape,
        OpShape
  <1>16. ASSUME NEW w \in Workers, PublishFails(w) PROVE Shape'
    BY <1>0, <1>16, GotoIs
    DEF PublishFails, Steps, Moves, Returns, OnlyOf, At, fileVars, realmVars, Shape,
        OpShape
  <1>17. ASSUME NEW w \in Workers, Resolve(w) PROVE Shape'
    <2>1. op[w].made \in Nat /\ done' = done \cup ({op[w].made} \ {0})
      BY <1>0, <1>17 DEF Resolve, OpShape
    <2>2. op' \in [Workers -> OpShape]
      BY <1>17, GotoIs DEF Resolve, Steps, Moves, OnlyOf
    <2>3. UNCHANGED <<log, cell, markers, seen, view>>
      BY <1>17 DEF Resolve, realmVars
    <2> QED
      BY <2>1, <2>2, <2>3 DEF Shape
  <1>18. ASSUME NEW w \in Workers, Release(w) PROVE Shape'
    BY <1>0, <1>18, ReturnIs
    DEF Release, Unlocked, Moves, Returns, OnlyOf, At, fileVars, realmVars, Shape,
        OpShape
  <1>19. ASSUME NEW w \in Workers, Crash(w) PROVE Shape'
    <2>1. log' \in Seq(Realms)
      BY <1>0, <1>19, CrashIs
    <2>2. /\ op' \in [Workers -> OpShape] /\ view' \in [Workers -> SUBSET Nat]
          /\ seen' \in [Workers -> Nat \cup {-1}] /\ UNCHANGED <<done, cell, markers>>
      BY <1>19, CrashIs DEF Shape, Moves, Returns, OnlyOf
    <2> QED
      BY <2>1, <2>2 DEF Shape
  <1>20. ASSUME NEW r \in Realms, RealmDies(r) PROVE Shape'
    <2>1. /\ cell' = [cell EXCEPT ![r] = 0] /\ markers' = [markers EXCEPT ![r] = {}]
          /\ UNCHANGED <<log, done>> /\ op' \in [Workers -> OpShape]
          /\ seen' \in [Workers -> Nat \cup {-1}] /\ view' \in [Workers -> SUBSET Nat]
      BY <1>20, RealmDiesIs
    <2> QED
      BY <2>1 DEF Shape
  <1>21. CASE UNCHANGED vars
    BY <1>0, <1>21
    DEF vars, Moves, Returns, OnlyOf, At, fileVars, realmVars, Shape, OpShape
  <1> QED
    BY <1>1, <1>2, <1>3, <1>4, <1>5, <1>6, <1>7, <1>8, <1>9, <1>10, <1>11, <1>12, <1>13,
       <1>14, <1>15, <1>16, <1>17, <1>18, <1>19, <1>20, <1>21
    DEF Next

(* ... the lock to its writer ...                                           *)
LEMMA LockStep ==
    ASSUME Shape, MarkersFollowCell, WritersHoldTheLock, [Next]_vars
    PROVE  WritersHoldTheLock'
  <1>0. OriginEpoch \in Nat /\ \A w \in Workers : w # Nobody
    BY WorkersAreSomebody, EpochIs
  <1>1. ASSUME NEW w \in Workers, NEW t \in {"read", "write"}, Call(w, t)
        PROVE  WritersHoldTheLock'
    BY <1>0, <1>1, CallIs
    DEF Moves, Returns, OnlyOf, At, fileVars, realmVars, WritersHoldTheLock,
        PastStatement
  <1>2. ASSUME NEW w \in Workers, LockWrite(w) PROVE WritersHoldTheLock'
    BY <1>0, <1>2, GotoIs
    DEF LockWrite, Steps, Moves, Returns, OnlyOf, At, fileVars, realmVars,
        WritersHoldTheLock, PastStatement
  <1>3. ASSUME NEW w \in Workers, AskOrigin(w) PROVE WritersHoldTheLock'
    BY <1>0, <1>3, AskOriginIs
    DEF Moves, Returns, OnlyOf, At, fileVars, realmVars, WritersHoldTheLock,
        PastStatement
  <1>4. ASSUME NEW w \in Workers, AimBarrier(w) PROVE WritersHoldTheLock'
    BY <1>0, <1>4, AimBarrierIs
    DEF Moves, Returns, OnlyOf, At, fileVars, realmVars, WritersHoldTheLock,
        PastStatement
  <1>5. ASSUME NEW w \in Workers, RunBarrier(w) PROVE WritersHoldTheLock'
    BY <1>0, <1>5, GotoIs
    DEF RunBarrier, Steps, Moves, Returns, OnlyOf, At, fileVars, realmVars,
        WritersHoldTheLock, PastStatement
  <1>6. ASSUME NEW w \in Workers, EndBarrier(w) PROVE WritersHoldTheLock'
    BY <1>0, <1>6, EndBarrierIs
    DEF Moves, Returns, OnlyOf, At, fileVars, realmVars, WritersHoldTheLock,
        PastStatement
  <1>7. ASSUME NEW w \in Workers, AbandonBarrier(w) PROVE WritersHoldTheLock'
    BY ZenonT(60), <1>0, <1>7, AbandonIs
    DEF AbandonBarrier, Unlocked, Moves, Returns, OnlyOf, At, fileVars, realmVars,
        WritersHoldTheLock, PastStatement
  <1>8. ASSUME NEW w \in Workers, GiveUp(w) PROVE WritersHoldTheLock'
    BY <1>0, <1>8, ReturnIs
    DEF GiveUp, Unlocked, Moves, Returns, OnlyOf, At, fileVars, realmVars,
        WritersHoldTheLock, PastStatement
  <1>9. ASSUME NEW w \in Workers, Read(w) PROVE WritersHoldTheLock'
    BY <1>0, <1>9, ReturnIs
    DEF Read, Moves, Returns, OnlyOf, At, fileVars, realmVars, WritersHoldTheLock,
        PastStatement
  <1>10. ASSUME NEW w \in Workers, Write(w) PROVE WritersHoldTheLock'
    BY <1>0, <1>10, WriteIs
    DEF Moves, Returns, OnlyOf, At, fileVars, realmVars, WritersHoldTheLock,
        PastStatement
  <1>11. ASSUME NEW w \in Workers, FailWrite(w) PROVE WritersHoldTheLock'
    BY <1>0, <1>11, GotoIs
    DEF FailWrite, Steps, Moves, Returns, OnlyOf, At, fileVars, realmVars,
        WritersHoldTheLock, PastStatement
  <1>12. ASSUME NEW w \in Workers, LateCommit(w) PROVE WritersHoldTheLock'
    BY <1>0, <1>12, LateCommitIs
    DEF Moves, Returns, OnlyOf, At, fileVars, realmVars, WritersHoldTheLock,
        PastStatement
  <1>13. ASSUME NEW w \in Workers, AfterWrite(w) PROVE WritersHoldTheLock'
    BY <1>0, <1>13, AfterWriteIs
    DEF Moves, Returns, OnlyOf, At, fileVars, realmVars, WritersHoldTheLock,
        PastStatement
  <1>14. ASSUME NEW w \in Workers, HoldMarker(w) PROVE WritersHoldTheLock'
    BY <1>0, <1>14, GotoIs
    DEF HoldMarker, Publishing, Steps, Moves, Returns, OnlyOf, At, fileVars, realmVars,
        WritersHoldTheLock, PastStatement
  <1>15. ASSUME NEW w \in Workers, SwapMarker(w) PROVE WritersHoldTheLock'
    BY <1>0, <1>15, GotoIs
    DEF SwapMarker, Steps, Moves, Returns, OnlyOf, At, fileVars, realmVars,
        WritersHoldTheLock, PastStatement
  <1>16. ASSUME NEW w \in Workers, PublishFails(w) PROVE WritersHoldTheLock'
    BY <1>0, <1>16, GotoIs
    DEF PublishFails, Steps, Moves, Returns, OnlyOf, At, fileVars, realmVars,
        WritersHoldTheLock, PastStatement
  <1>17. ASSUME NEW w \in Workers, Resolve(w) PROVE WritersHoldTheLock'
    BY <1>0, <1>17, GotoIs
    DEF Resolve, Resolves, Steps, Moves, Returns, OnlyOf, At, fileVars, realmVars,
        WritersHoldTheLock, PastStatement
  <1>18. ASSUME NEW w \in Workers, Release(w) PROVE WritersHoldTheLock'
    BY <1>0, <1>18, ReturnIs
    DEF Release, Unlocked, Moves, Returns, OnlyOf, At, fileVars, realmVars,
        WritersHoldTheLock, PastStatement
  <1>19. ASSUME NEW w \in Workers, Crash(w) PROVE WritersHoldTheLock'
    BY <1>0, <1>19, CrashIs
    DEF Unlocked, Moves, Returns, OnlyOf, At, fileVars, realmVars, WritersHoldTheLock,
        PastStatement
  <1>20. ASSUME NEW r \in Realms, RealmDies(r) PROVE WritersHoldTheLock'
    BY <1>0, <1>20, RealmDiesIs
    DEF Moves, Returns, OnlyOf, At, fileVars, realmVars, WritersHoldTheLock,
        PastStatement
  <1>21. CASE UNCHANGED vars
    BY <1>0, <1>21
    DEF vars, Moves, Returns, OnlyOf, At, fileVars, realmVars, WritersHoldTheLock,
        PastStatement
  <1> QED
    BY <1>1, <1>2, <1>3, <1>4, <1>5, <1>6, <1>7, <1>8, <1>9, <1>10, <1>11, <1>12, <1>13,
       <1>14, <1>15, <1>16, <1>17, <1>18, <1>19, <1>20, <1>21
    DEF Next

(* ... the names of commits to commits ...                                  *)
LEMMA CommitsStep ==
    ASSUME Shape, MarkersFollowCell, CommitsExist, [Next]_vars
    PROVE  CommitsExist'
  <1>0. /\ OriginEpoch \in Nat /\ log \in Seq(Realms)
        /\ \A w \in Workers : RealmOf(w) \in Realms
    BY WorkersAreSomebody, EpochIs DEF Shape
  <1>a. \A r \in Realms :
           /\ Len(log) + 1 \in Nat \ {0} /\ Len(log) + 1 \notin DOMAIN log
           /\ DOMAIN Append(log, r) = DOMAIN log \cup {Len(log) + 1}
           /\ \A c \in DOMAIN log : Append(log, r)[c] = log[c]
           /\ Append(log, r)[Len(log) + 1] = r
    BY <1>0, OneMoreCommit
  <1>1. ASSUME NEW w \in Workers, NEW t \in {"read", "write"}, Call(w, t)
        PROVE  CommitsExist'
    BY <1>0, <1>a, <1>1, CallIs
    DEF Moves, Returns, OnlyOf, At, fileVars, realmVars, CommitsExist, PastStatement
  <1>2. ASSUME NEW w \in Workers, LockWrite(w) PROVE CommitsExist'
    BY <1>0, <1>a, <1>2, GotoIs
    DEF LockWrite, Steps, Moves, Returns, OnlyOf, At, fileVars, realmVars, CommitsExist,
        PastStatement
  <1>3. ASSUME NEW w \in Workers, AskOrigin(w) PROVE CommitsExist'
    BY <1>0, <1>a, <1>3, AskOriginIs
    DEF Moves, Returns, OnlyOf, At, fileVars, realmVars, CommitsExist, PastStatement
  <1>4. ASSUME NEW w \in Workers, AimBarrier(w) PROVE CommitsExist'
    BY SMTT(30), <1>0, <1>a, <1>4, AimBarrierIs
    DEF Moves, Returns, OnlyOf, At, fileVars, realmVars, CommitsExist, PastStatement
  <1>5. ASSUME NEW w \in Workers, RunBarrier(w) PROVE CommitsExist'
    BY <1>0, <1>a, <1>5, GotoIs
    DEF RunBarrier, Steps, Moves, Returns, OnlyOf, At, fileVars, realmVars,
        CommitsExist, PastStatement
  <1>6. ASSUME NEW w \in Workers, EndBarrier(w) PROVE CommitsExist'
    BY <1>0, <1>a, <1>6, EndBarrierIs
    DEF Moves, Returns, OnlyOf, At, fileVars, realmVars, CommitsExist, PastStatement
  <1>7. ASSUME NEW w \in Workers, AbandonBarrier(w) PROVE CommitsExist'
    BY <1>0, <1>a, <1>7, AbandonIs
    DEF AbandonBarrier, Unlocked, Moves, Returns, OnlyOf, At, fileVars, realmVars,
        CommitsExist, PastStatement
  <1>8. ASSUME NEW w \in Workers, GiveUp(w) PROVE CommitsExist'
    BY <1>0, <1>a, <1>8, ReturnIs
    DEF GiveUp, Unlocked, Moves, Returns, OnlyOf, At, fileVars, realmVars, CommitsExist,
        PastStatement
  <1>9. ASSUME NEW w \in Workers, Read(w) PROVE CommitsExist'
    BY <1>0, <1>a, <1>9, ReturnIs
    DEF Read, Moves, Returns, OnlyOf, At, fileVars, realmVars, CommitsExist,
        PastStatement
  <1>10. ASSUME NEW w \in Workers, Write(w) PROVE CommitsExist'
    BY <1>0, <1>a, <1>10, WriteIs, SMTT(30)
    DEF Moves, Returns, OnlyOf, At, fileVars, realmVars, CommitsExist, PastStatement
  <1>11. ASSUME NEW w \in Workers, FailWrite(w) PROVE CommitsExist'
    BY <1>0, <1>a, <1>11, GotoIs
    DEF FailWrite, Steps, Moves, Returns, OnlyOf, At, fileVars, realmVars, CommitsExist,
        PastStatement
  <1>12. ASSUME NEW w \in Workers, LateCommit(w) PROVE CommitsExist'
    BY <1>0, <1>a, <1>12, LateCommitIs
    DEF Moves, Returns, OnlyOf, At, fileVars, realmVars, CommitsExist, PastStatement
  <1>13. ASSUME NEW w \in Workers, AfterWrite(w) PROVE CommitsExist'
    BY <1>0, <1>a, <1>13, AfterWriteIs, SMTT(30)
    DEF Moves, Returns, OnlyOf, At, fileVars, realmVars, CommitsExist, PastStatement
  <1>14. ASSUME NEW w \in Workers, HoldMarker(w) PROVE CommitsExist'
    BY <1>0, <1>a, <1>14, GotoIs
    DEF HoldMarker, Publishing, Steps, Moves, Returns, OnlyOf, At, fileVars, realmVars,
        CommitsExist, PastStatement
  <1>15. ASSUME NEW w \in Workers, SwapMarker(w) PROVE CommitsExist'
    BY <1>0, <1>a, <1>15, GotoIs
    DEF SwapMarker, Steps, Moves, Returns, OnlyOf, At, fileVars, realmVars,
        CommitsExist, PastStatement
  <1>16. ASSUME NEW w \in Workers, PublishFails(w) PROVE CommitsExist'
    BY <1>0, <1>a, <1>16, GotoIs
    DEF PublishFails, Steps, Moves, Returns, OnlyOf, At, fileVars, realmVars,
        CommitsExist, PastStatement
  <1>17. ASSUME NEW w \in Workers, Resolve(w) PROVE CommitsExist'
    BY <1>0, <1>a, <1>17, GotoIs
    DEF Resolve, Resolves, Steps, Moves, Returns, OnlyOf, At, fileVars, realmVars,
        CommitsExist, PastStatement
  <1>18. ASSUME NEW w \in Workers, Release(w) PROVE CommitsExist'
    BY <1>0, <1>a, <1>18, ReturnIs
    DEF Release, Unlocked, Moves, Returns, OnlyOf, At, fileVars, realmVars,
        CommitsExist, PastStatement
  <1>19. ASSUME NEW w \in Workers, Crash(w) PROVE CommitsExist'
    <2>1. /\ DOMAIN log \subseteq DOMAIN log'
          /\ \A c \in DOMAIN log : log'[c] = log[c]
      BY <1>0, <1>a, <1>19, CrashIs
    <2>2. /\ view'[w] = {} /\ done' = done
          /\ \A x \in Workers \ {w} : view'[x] = view[x]
      BY <1>19, CrashIs
    <2>3. CASE At(w, "running") /\ Moves(w, "wrote")
      BY <2>1, <2>2, <2>3 DEF CommitsExist, PastStatement, Moves, OnlyOf, At
    <2>4. CASE Returns(w)
      BY <2>1, <2>2, <2>4 DEF CommitsExist, PastStatement, Returns, OnlyOf
    <2>5. CASE op' = op
      BY <2>1, <2>2, <2>5 DEF CommitsExist, PastStatement
    <2> QED
      BY <1>19, <2>3, <2>4, <2>5, CrashIs
  <1>20. ASSUME NEW r \in Realms, RealmDies(r) PROVE CommitsExist'
    BY <1>0, <1>a, <1>20, RealmDiesIs
    DEF Moves, Returns, OnlyOf, At, fileVars, realmVars, CommitsExist, PastStatement
  <1>21. CASE UNCHANGED vars
    BY <1>0, <1>a, <1>21
    DEF vars, Moves, Returns, OnlyOf, At, fileVars, realmVars, CommitsExist,
        PastStatement
  <1> QED
    BY <1>1, <1>2, <1>3, <1>4, <1>5, <1>6, <1>7, <1>8, <1>9, <1>10, <1>11, <1>12, <1>13,
       <1>14, <1>15, <1>16, <1>17, <1>18, <1>19, <1>20, <1>21
    DEF Next

(* Where neither a cell nor a marker changes, only a publication under way  *)
(* has something to keep.                                                   *)
LEMMA MarkersUntouched ==
    ASSUME Shape, MarkersFollowCell, NEW w \in Workers, UNCHANGED <<cell, markers>>,
           \A x \in Workers \ {w} : op'[x] = op[x],
           op'[w].origin \in {0, op[w].origin},
           op'[w].pc \notin {"publishing", "held", "published"}
    PROVE  MarkersFollowCell'
  <1>1. PICK N \in Nat : /\ \A r \in Realms : cell[r] <= N
                         /\ \A x \in Workers : op[x].origin <= N
    BY DEF MarkersFollowCell
  <1>2. /\ \A r \in Realms : cell'[r] <= N
        /\ \A x \in Workers : op'[x].origin <= N
    BY <1>1
  <1> QED
    BY <1>2 DEF MarkersFollowCell, At

(* ... a realm's markers behind its cell ...                                *)
LEMMA MarkersStep ==
    ASSUME Shape, WritersHoldTheLock, MarkersFollowCell, [Next]_vars
    PROVE  MarkersFollowCell'
  <1>0. /\ cell \in [Realms -> Nat] /\ markers \in [Realms -> SUBSET Nat]
        /\ OriginEpoch \in Nat
        /\ \A w \in Workers : /\ op[w].next \in Nat /\ op[w].origin \in Nat
                              /\ RealmOf(w) \in Realms
    BY WorkersAreSomebody, EpochIs DEF Shape, OpShape
  <1>a. PICK N \in Nat : /\ \A r \in Realms : cell[r] <= N
                         /\ \A w \in Workers : op[w].origin <= N
    BY DEF MarkersFollowCell
  <1>b. \A x, y \in Workers : op[x].pc \in {"publishing", "held"}
                              /\ op[y].pc \in {"publishing", "held"} => x = y
    BY DEF WritersHoldTheLock, PastStatement
  <1>c. OriginEpoch <= N
    BY <1>0, <1>a, EpochIs DEF MarkersFollowCell
  <1>1. ASSUME NEW w \in Workers, NEW t \in {"read", "write"}, Call(w, t)
        PROVE  MarkersFollowCell'
    BY <1>0, <1>a, <1>b, <1>c, <1>1, CallIs
    DEF Moves, Returns, OnlyOf, At, fileVars, realmVars, MarkersFollowCell
  <1>2. ASSUME NEW w \in Workers, LockWrite(w) PROVE MarkersFollowCell'
    <2>1. /\ UNCHANGED <<cell, markers>> /\ \A x \in Workers \ {w} : op'[x] = op[x]
          /\ op'[w].origin \in {0, op[w].origin}
          /\ op'[w].pc \notin {"publishing", "held", "published"}
      BY <1>2, GotoIs DEF LockWrite, Steps, Moves, OnlyOf, realmVars
    <2> QED
      BY <2>1, MarkersUntouched
  <1>3. ASSUME NEW w \in Workers, AskOrigin(w) PROVE MarkersFollowCell'
    BY <1>0, <1>a, <1>b, <1>c, <1>3, AskOriginIs
    DEF Moves, Returns, OnlyOf, At, fileVars, realmVars, MarkersFollowCell
  <1>4. ASSUME NEW w \in Workers, AimBarrier(w) PROVE MarkersFollowCell'
    BY <1>0, <1>a, <1>b, <1>c, <1>4, AimBarrierIs
    DEF Moves, Returns, OnlyOf, At, fileVars, realmVars, MarkersFollowCell
  <1>5. ASSUME NEW w \in Workers, RunBarrier(w) PROVE MarkersFollowCell'
    BY <1>0, <1>a, <1>b, <1>c, <1>5, GotoIs
    DEF RunBarrier, Steps, Moves, Returns, OnlyOf, At, fileVars, realmVars,
        MarkersFollowCell
  <1>6. ASSUME NEW w \in Workers, EndBarrier(w) PROVE MarkersFollowCell'
    BY SMTT(30), <1>0, <1>a, <1>b, <1>c, <1>6, EndBarrierIs
    DEF Moves, Returns, OnlyOf, At, fileVars, realmVars, MarkersFollowCell
  <1>7. ASSUME NEW w \in Workers, AbandonBarrier(w) PROVE MarkersFollowCell'
    BY <1>0, <1>a, <1>b, <1>c, <1>7, AbandonIs
    DEF AbandonBarrier, Unlocked, Moves, Returns, OnlyOf, At, fileVars, realmVars,
        MarkersFollowCell
  <1>8. ASSUME NEW w \in Workers, GiveUp(w) PROVE MarkersFollowCell'
    BY <1>0, <1>a, <1>b, <1>c, <1>8, ReturnIs
    DEF GiveUp, Unlocked, Moves, Returns, OnlyOf, At, fileVars, realmVars,
        MarkersFollowCell
  <1>9. ASSUME NEW w \in Workers, Read(w) PROVE MarkersFollowCell'
    BY <1>0, <1>a, <1>b, <1>c, <1>9, ReturnIs
    DEF Read, Moves, Returns, OnlyOf, At, fileVars, realmVars, MarkersFollowCell
  <1>10. ASSUME NEW w \in Workers, Write(w) PROVE MarkersFollowCell'
    <2>1. /\ UNCHANGED <<cell, markers>> /\ \A x \in Workers \ {w} : op'[x] = op[x]
          /\ op'[w].origin \in {0, op[w].origin}
          /\ op'[w].pc \notin {"publishing", "held", "published"}
      BY <1>10, WriteIs DEF Moves, OnlyOf, realmVars
    <2> QED
      BY <2>1, MarkersUntouched
  <1>11. ASSUME NEW w \in Workers, FailWrite(w) PROVE MarkersFollowCell'
    BY <1>0, <1>a, <1>b, <1>c, <1>11, GotoIs
    DEF FailWrite, Steps, Moves, Returns, OnlyOf, At, fileVars, realmVars,
        MarkersFollowCell
  <1>12. ASSUME NEW w \in Workers, LateCommit(w) PROVE MarkersFollowCell'
    BY <1>0, <1>a, <1>b, <1>c, <1>12, LateCommitIs
    DEF Moves, Returns, OnlyOf, At, fileVars, realmVars, MarkersFollowCell
  <1>13. ASSUME NEW w \in Workers, AfterWrite(w) PROVE MarkersFollowCell'
    BY <1>0, <1>a, <1>b, <1>c, <1>13, AfterWriteIs
    DEF Moves, Returns, OnlyOf, At, fileVars, realmVars, MarkersFollowCell
  <1>14. ASSUME NEW w \in Workers, HoldMarker(w) PROVE MarkersFollowCell'
    BY <1>0, <1>a, <1>b, <1>c, <1>14, GotoIs
    DEF HoldMarker, Publishing, Steps, Moves, Returns, OnlyOf, At, fileVars, realmVars,
        MarkersFollowCell
  <1>15. ASSUME NEW w \in Workers, SwapMarker(w) PROVE MarkersFollowCell'
    <2>1. /\ \A x \in Workers \ {w} : op'[x] = op[x]
          /\ op[w].pc = "held" /\ op'[w].pc = "published" /\ op'[w].next = op[w].next
          /\ op'[w].origin = op[w].origin /\ cell' = cell
      BY <1>15, GotoIs DEF SwapMarker, Steps, Moves, OnlyOf, At
    <2>2. /\ markers'[RealmOf(w)] = {op[w].next}
          /\ \A r \in Realms \ {RealmOf(w)} : markers'[r] = markers[r]
      BY <1>0, <1>15 DEF SwapMarker
    <2>3. \A x \in Workers : op'[x].origin <= N
      BY <1>a, <2>1
    <2>4. \A r \in Realms : \A m \in markers'[r] : m <= cell'[r]
      BY <1>0, <2>1, <2>2 DEF MarkersFollowCell
    <2>5. \A x \in Workers :
              /\ op'[x].pc \in {"publishing", "held", "published"} =>
                    op'[x].next <= cell'[RealmOf(x)]
              /\ op'[x].pc \notin {"publishing", "held"}
      BY <1>b, <2>1 DEF MarkersFollowCell
    <2> QED
      BY <1>a, <2>1, <2>3, <2>4, <2>5 DEF MarkersFollowCell, At
  <1>16. ASSUME NEW w \in Workers, PublishFails(w) PROVE MarkersFollowCell'
    BY <1>0, <1>a, <1>b, <1>c, <1>16, GotoIs
    DEF PublishFails, Steps, Moves, Returns, OnlyOf, At, fileVars, realmVars,
        MarkersFollowCell
  <1>17. ASSUME NEW w \in Workers, Resolve(w) PROVE MarkersFollowCell'
    BY <1>0, <1>a, <1>b, <1>c, <1>17, GotoIs
    DEF Resolve, Resolves, Steps, Moves, Returns, OnlyOf, At, fileVars, realmVars,
        MarkersFollowCell
  <1>18. ASSUME NEW w \in Workers, Release(w) PROVE MarkersFollowCell'
    BY <1>0, <1>a, <1>b, <1>c, <1>18, ReturnIs
    DEF Release, Unlocked, Moves, Returns, OnlyOf, At, fileVars, realmVars,
        MarkersFollowCell
  <1>19. ASSUME NEW w \in Workers, Crash(w) PROVE MarkersFollowCell'
    <2>1. UNCHANGED <<cell, markers>>
      BY <1>19, CrashIs
    <2>2. CASE Moves(w, "wrote") \/ Returns(w)
      BY <2>1, <2>2, MarkersUntouched DEF Moves, Returns, OnlyOf
    <2>3. CASE op' = op
      BY <2>1, <2>3 DEF MarkersFollowCell, At
    <2> QED
      BY <1>19, <2>2, <2>3, CrashIs
  <1>20. ASSUME NEW r \in Realms, RealmDies(r) PROVE MarkersFollowCell'
    <2>1. /\ \A x \in Workers : RealmOf(x) # r => op'[x] = op[x]
          /\ \A x \in Workers : RealmOf(x) = r => op'[x].pc = "gone" /\ op'[x].origin = 0
          /\ cell' = [cell EXCEPT ![r] = 0] /\ markers' = [markers EXCEPT ![r] = {}]
      BY <1>20, RealmDiesIs
    <2>2. /\ cell'[r] = 0 /\ markers'[r] = {}
          /\ \A q \in Realms \ {r} : cell'[q] = cell[q] /\ markers'[q] = markers[q]
      BY <1>0, <2>1
    <2>3. /\ \A q \in Realms : cell'[q] <= N
          /\ \A x \in Workers : op'[x].origin <= N
      BY <1>0, <1>a, <2>1, <2>2
    <2>4. \A q \in Realms : \A m \in markers'[q] : m <= cell'[q]
      BY <2>2 DEF MarkersFollowCell
    <2>5. \A x \in Workers :
              /\ op'[x].pc \in {"publishing", "held", "published"} =>
                    op'[x].next <= cell'[RealmOf(x)]
              /\ op'[x].pc \in {"publishing", "held"} =>
                    \A m \in markers'[RealmOf(x)] : m <= op'[x].next
              /\ op'[x].pc = "held" => op'[x].next \in markers'[RealmOf(x)]
      BY <1>0, <2>1, <2>2 DEF MarkersFollowCell, At
    <2> QED
      BY <1>a, <2>3, <2>4, <2>5 DEF MarkersFollowCell, At
  <1>21. CASE UNCHANGED vars
    BY <1>0, <1>a, <1>b, <1>c, <1>21
    DEF vars, Moves, Returns, OnlyOf, At, fileVars, realmVars, MarkersFollowCell
  <1> QED
    BY <1>1, <1>2, <1>3, <1>4, <1>5, <1>6, <1>7, <1>8, <1>9, <1>10, <1>11, <1>12, <1>13,
       <1>14, <1>15, <1>16, <1>17, <1>18, <1>19, <1>20, <1>21
    DEF Next

(* ... and what is claimed, covered. Where no commit, no cell and no claim  *)
(* changes, an operation only must not appear to be further than it is.     *)
LEMMA WithinUntouched ==
    ASSUME Shape, WithinRealm, NEW w \in Workers, UNCHANGED <<log, done, cell, seen, view>>,
           \A x \in Workers \ {w} : op'[x] = op[x],
           op'[w].pc \in {"barrier", "absorbed", "running", "wrote"} =>
               /\ \/ op'[w].pc = op[w].pc
                  \/ op[w].pc = "running" /\ op'[w].pc = "wrote" /\ op[w].made = 0
               /\ op'[w].target = op[w].target
               /\ op'[w].made = op[w].made /\ op'[w].owed = op[w].owed,
           op'[w].pc \in {"publishing", "held", "published"} =>
               /\ op[w].pc \in {"publishing", "held", "published"}
               /\ op'[w].made = op[w].made /\ op'[w].next = op[w].next
    PROVE  WithinRealm'
  <1>1. NobodyIsAhead'
    BY DEF WithinRealm, NobodyIsAhead, At
  <1>2. \A v \in Workers : At(v, "absorbed")' =>
            /\ At(v, "absorbed") /\ op'[v].target = op[v].target
            /\ op'[v].owed = op[v].owed
    BY DEF At
  <1>3. ClaimsCoverDone'
    BY <1>2 DEF WithinRealm, ClaimsCoverDone, Claims, DoneIn
  <1>4. ClaimsCoverWrites'
    BY <1>2 DEF WithinRealm, ClaimsCoverWrites, Claims
  <1>5. OwedHere'
    BY <1>2 DEF WithinRealm, OwedHere, At
  <1> QED
    BY <1>1, <1>3, <1>4, <1>5 DEF WithinRealm

LEMMA WithinStep ==
    ASSUME Shape, WritersHoldTheLock, CommitsExist, MarkersFollowCell, WithinRealm, [Next]_vars
    PROVE  WithinRealm'
  <1>0. /\ cell \in [Realms -> Nat] /\ log \in Seq(Realms)
        /\ op \in [Workers -> OpShape] /\ view \in [Workers -> SUBSET Nat]
        /\ OriginEpoch \in Nat
        /\ \A w \in Workers :
              /\ op[w].next \in Nat /\ op[w].target \in Nat /\ op[w].made \in Nat
              /\ seen[w] \in Nat \cup {-1} /\ RealmOf(w) \in Realms
              /\ ~PastStatement(w) => op[w].made = 0
    BY WorkersAreSomebody, EpochIs DEF Shape, OpShape, CommitsExist
  <1>a. \A r \in Realms :
           /\ Len(log) + 1 \in Nat \ {0} /\ Len(log) + 1 \notin DOMAIN log
           /\ \A c \in DOMAIN log : Append(log, r)[c] = log[c]
           /\ Append(log, r)[Len(log) + 1] = r
    BY <1>0, OneMoreCommit
  <1>1. ASSUME NEW w \in Workers, NEW t \in {"read", "write"}, Call(w, t)
        PROVE  WithinRealm'
    BY <1>0, <1>1, CallIs, WithinUntouched
    DEF Moves, Returns, OnlyOf, At, fileVars, realmVars
  <1>2. ASSUME NEW w \in Workers, LockWrite(w) PROVE WithinRealm'
    BY <1>0, <1>2, GotoIs, WithinUntouched
    DEF LockWrite, Steps, Moves, Returns, OnlyOf, At, fileVars, realmVars
  <1>3. ASSUME NEW w \in Workers, AskOrigin(w) PROVE WithinRealm'
    BY <1>0, <1>3, AskOriginIs, WithinUntouched
    DEF Moves, Returns, OnlyOf, At, fileVars, realmVars
  <1>4. ASSUME NEW w \in Workers, AimBarrier(w) PROVE WithinRealm'
    <2>1. /\ \A x \in Workers \ {w} : op'[x] = op[x]
          /\ UNCHANGED <<log, done, seen, view>>
          /\ op[w].pc = "answered"
          /\ \A r \in Realms : cell'[r] \in Nat /\ cell'[r] >= cell[r]
          /\ \/ op'[w].pc = "idle"
             \/ /\ op'[w].target = cell'[RealmOf(w)] /\ op'[w].owed = op[w].owed
                /\ \/ op'[w].pc = "barrier"
                   \/ op'[w].pc = "running" /\ seen[w] >= cell'[RealmOf(w)]
      <3>1. ASSUME NEW r \in Realms PROVE cell'[r] \in Nat /\ cell'[r] >= cell[r]
        <4>1. CASE r = RealmOf(w)
          BY <1>4, <4>1, AimBarrierIs
        <4>2. CASE r # RealmOf(w)
          BY <1>0, <1>4, <4>2, AimBarrierIs
        <4> QED
          BY <4>1, <4>2
      <3> QED
        BY <1>0, <1>4, <3>1, AimBarrierIs DEF OnlyOf, Returns
    <2>2. NobodyIsAhead'
      BY SMTT(30), <1>0, <1>a, <2>1 DEF WithinRealm, NobodyIsAhead, At, CommitsExist
    <2>3. ClaimsCoverDone'
      <3> SUFFICES ASSUME NEW v \in Workers, Claims(v, cell[RealmOf(v)])'
                   PROVE  DoneIn(RealmOf(v))' \subseteq view'[v]
        BY DEF ClaimsCoverDone
      <3>1. Claims(v, cell[RealmOf(v)])
        BY SMTT(30), <1>0, <2>1 DEF Claims, At
      <3> QED
        BY <2>1, <3>1 DEF WithinRealm, ClaimsCoverDone, DoneIn
    <2>4. ClaimsCoverWrites'
      BY <1>0, <1>a, <2>1 DEF WithinRealm, ClaimsCoverWrites, Claims, At, CommitsExist
    <2>5. OwedHere'
      <3>1. op'[w].pc = "running" => Claims(w, cell[RealmOf(w)])
        <4>1. cell[RealmOf(w)] \in Nat /\ cell'[RealmOf(w)] >= cell[RealmOf(w)]
              /\ cell'[RealmOf(w)] \in Nat
          BY <1>0, <2>1
        <4>2. seen[w] \in Nat \cup {-1} /\ (op'[w].pc = "running" => seen[w] >= cell'[RealmOf(w)])
          BY <1>0, <2>1
        <4> QED
          BY <4>1, <4>2 DEF Claims
      <3> QED
        BY <2>1, <3>1 DEF WithinRealm, ClaimsCoverDone, OwedHere, At, CommitsExist, DoneIn
    <2> QED
      BY <2>2, <2>3, <2>4, <2>5 DEF WithinRealm
  <1>5. ASSUME NEW w \in Workers, RunBarrier(w) PROVE WithinRealm'
    <2>1. /\ \A x \in Workers \ {w} : op'[x] = op[x]
          /\ UNCHANGED <<log, done, cell, seen>>
          /\ op[w].pc = "barrier" /\ op'[w].pc = "absorbed"
          /\ op'[w].target = op[w].target /\ op'[w].owed = op[w].owed
          /\ view'[w] = DOMAIN log
          /\ \A x \in Workers \ {w} : view'[x] = view[x]
      BY <1>0, <1>5, GotoIs DEF RunBarrier, Steps, OnlyOf, Moves, At, fileVars, realmVars, Shape
    <2>2. NobodyIsAhead'
      BY <1>0, <1>a, <2>1 DEF WithinRealm, NobodyIsAhead, At, CommitsExist
    <2>3. ClaimsCoverDone'
      BY <1>0, <1>a, <2>1 DEF WithinRealm, ClaimsCoverDone, Claims, DoneIn, At, CommitsExist
    <2>4. ClaimsCoverWrites'
      <3> SUFFICES ASSUME NEW v \in Workers, NEW x \in Workers,
                          op'[x].pc \in {"publishing", "held", "published"},
                          RealmOf(x) = RealmOf(v), op'[x].made # 0,
                          Claims(v, op[x].next)'
                   PROVE  op'[x].made \in view'[v]
        BY DEF ClaimsCoverWrites
      <3>1. op'[x] = op[x] /\ op[x].made \in DOMAIN log
        BY <2>1 DEF CommitsExist
      <3>2. CASE v # w
        BY <2>1, <3>1, <3>2 DEF WithinRealm, ClaimsCoverWrites, Claims, At
      <3> QED
        BY <2>1, <3>1, <3>2
    <2>5. OwedHere'
      BY <1>0, <1>a, <2>1 DEF WithinRealm, OwedHere, At, CommitsExist
    <2> QED
      BY <2>2, <2>3, <2>4, <2>5 DEF WithinRealm
  <1>6. ASSUME NEW w \in Workers, EndBarrier(w) PROVE WithinRealm'
    <2>1. /\ \A x \in Workers \ {w} : op'[x] = op[x] /\ seen'[x] = seen[x]
          /\ UNCHANGED <<log, done, cell, view>>
          /\ op[w].pc = "absorbed" /\ op'[w].pc \in {"idle", "running"}
          /\ op'[w].pc = "running" => /\ op'[w].target = op[w].target
                                     /\ op'[w].owed = op[w].owed
          /\ seen'[w] = op[w].target
      BY <1>0, <1>6, EndBarrierIs DEF OnlyOf, Moves, Returns
    <2>2. NobodyIsAhead'
      BY <1>0, <1>a, <2>1 DEF WithinRealm, NobodyIsAhead, At
    <2>3. ClaimsCoverDone'
      BY <1>0, <1>a, <2>1 DEF WithinRealm, ClaimsCoverDone, Claims, DoneIn, At
    <2>4. ClaimsCoverWrites'
      BY SMTT(30), <1>0, <1>a, <2>1 DEF WithinRealm, ClaimsCoverWrites, Claims, At
    <2>5. OwedHere'
      BY <1>0, <1>a, <2>1 DEF WithinRealm, OwedHere, At
    <2> QED
      BY <2>2, <2>3, <2>4, <2>5 DEF WithinRealm
  <1>7. ASSUME NEW w \in Workers, AbandonBarrier(w) PROVE WithinRealm'
    BY <1>0, <1>7, AbandonIs, WithinUntouched
    DEF Moves, Returns, OnlyOf, At, fileVars, realmVars
  <1>8. ASSUME NEW w \in Workers, GiveUp(w) PROVE WithinRealm'
    BY <1>0, <1>8, ReturnIs, WithinUntouched
    DEF GiveUp, Moves, Returns, OnlyOf, At, fileVars, realmVars
  <1>9. ASSUME NEW w \in Workers, Read(w) PROVE WithinRealm'
    BY <1>0, <1>9, ReturnIs, WithinUntouched
    DEF Read, Moves, Returns, OnlyOf, At, fileVars, realmVars
  <1>10. ASSUME NEW w \in Workers, Write(w) PROVE WithinRealm'
    <2>1. /\ \A x \in Workers \ {w} : op'[x] = op[x] /\ view'[x] = view[x]
          /\ UNCHANGED <<done, cell, seen>>
          /\ op[w].pc = "running" /\ op'[w].pc = "wrote"
          /\ op'[w].target = op[w].target
          /\ op'[w].made = Len(log) + 1 /\ view'[w] = view[w] \cup {Len(log) + 1}
          /\ \A c \in DOMAIN log : log'[c] = log[c]
      <3>1. log' \in {log, Append(log, RealmOf(w))}
        BY <1>0, <1>10, WriteIs
      <3>2. \A c \in DOMAIN log : log'[c] = log[c]
        BY <1>0, <1>a, <3>1
      <3> QED
        BY <1>0, <1>10, <3>2, WriteIs DEF OnlyOf
    <2>2. NobodyIsAhead'
      BY <1>0, <1>a, <2>1, SMTT(30) DEF WithinRealm, NobodyIsAhead, At, CommitsExist
    <2>3. ClaimsCoverDone'
      BY <1>0, <1>a, <2>1, SMTT(30) DEF WithinRealm, ClaimsCoverDone, Claims, DoneIn, At, CommitsExist
    <2>4. ClaimsCoverWrites'
      <3> SUFFICES ASSUME NEW v \in Workers, NEW x \in Workers,
                          op'[x].pc \in {"publishing", "held", "published"},
                          RealmOf(x) = RealmOf(v), op'[x].made # 0,
                          Claims(v, op[x].next)'
                   PROVE  op'[x].made \in view'[v]
        BY DEF ClaimsCoverWrites
      <3>1. op'[x] = op[x] /\ Claims(v, op[x].next) /\ view[v] \subseteq view'[v]
        BY <2>1 DEF Claims, At
      <3> QED
        BY <3>1 DEF WithinRealm, ClaimsCoverWrites
    <2>5. OwedHere'
      BY <1>0, <1>a, <2>1 DEF WithinRealm, OwedHere, At, CommitsExist
    <2> QED
      BY <2>2, <2>3, <2>4, <2>5 DEF WithinRealm
  <1>11. ASSUME NEW w \in Workers, FailWrite(w) PROVE WithinRealm'
    BY <1>0, <1>11, GotoIs, WithinUntouched
    DEF FailWrite, Steps, CommitsExist, PastStatement, Moves, Returns, OnlyOf, At, fileVars, realmVars
  <1>12. ASSUME NEW w \in Workers, LateCommit(w) PROVE WithinRealm'
    <2>1. /\ \A x \in Workers \ {w} : view'[x] = view[x]
          /\ UNCHANGED <<done, cell, seen, op>>
          /\ view'[w] = view[w] \cup {Len(log) + 1}
          /\ \A c \in DOMAIN log : log'[c] = log[c]
      <3>1. log' \in {log, Append(log, RealmOf(w))}
        BY <1>0, <1>12, LateCommitIs
      <3>2. \A c \in DOMAIN log : log'[c] = log[c]
        BY <1>0, <1>a, <3>1
      <3> QED
        BY <1>0, <1>12, <3>2, LateCommitIs DEF OnlyOf
    <2>2. NobodyIsAhead'
      BY <1>0, <1>a, <2>1 DEF WithinRealm, NobodyIsAhead, At, CommitsExist
    <2>3. ClaimsCoverDone'
      BY <1>0, <1>a, <2>1 DEF WithinRealm, ClaimsCoverDone, Claims, DoneIn, At, CommitsExist
    <2>4. ClaimsCoverWrites'
      BY <1>0, <1>a, <2>1 DEF WithinRealm, ClaimsCoverWrites, Claims, At, CommitsExist
    <2>5. OwedHere'
      BY <1>0, <1>a, <2>1 DEF WithinRealm, OwedHere, At, CommitsExist
    <2> QED
      BY <2>2, <2>3, <2>4, <2>5 DEF WithinRealm
  <1>13. ASSUME NEW w \in Workers, AfterWrite(w) PROVE WithinRealm'
    <2>1. /\ \A x \in Workers \ {w} : op'[x] = op[x] /\ seen'[x] = seen[x]
          /\ UNCHANGED <<log, done, view>>
          /\ op[w].pc = "wrote" /\ op'[w].pc = "publishing"
          /\ op'[w].next = cell[RealmOf(w)] + 1 /\ op'[w].made = op[w].made
          /\ cell'[RealmOf(w)] = cell[RealmOf(w)] + 1
          /\ \A r \in Realms \ {RealmOf(w)} : cell'[r] = cell[r]
          /\ \/ seen'[w] = seen[w]
             \/ /\ seen'[w] = cell[RealmOf(w)] + 1
                /\ seen[w] = cell[RealmOf(w)]
      BY <1>0, <1>13, AfterWriteIs DEF OnlyOf
    <2>2. NobodyIsAhead'
      <3>1. ASSUME NEW v \in Workers
            PROVE  /\ cell[RealmOf(v)] <= cell'[RealmOf(v)] /\ cell'[RealmOf(v)] \in Nat
                   /\ seen'[v] <= cell'[RealmOf(v)]
        <4>1. /\ RealmOf(v) \in Realms /\ cell[RealmOf(v)] \in Nat
              /\ seen[v] \in Nat \cup {-1} /\ seen[v] <= cell[RealmOf(v)]
          BY <1>0 DEF WithinRealm, NobodyIsAhead
        <4>2. CASE RealmOf(v) = RealmOf(w)
          <5>1. /\ cell'[RealmOf(v)] = cell[RealmOf(v)] + 1
                /\ seen'[v] \in {seen[v], cell[RealmOf(v)] + 1}
            BY <2>1, <4>2
          <5> QED
            BY <4>1, <5>1
        <4>3. CASE RealmOf(v) # RealmOf(w)
          BY <2>1, <4>1, <4>3
        <4> QED
          BY <4>2, <4>3
      <3>2. \A v \in Workers : seen'[v] <= cell'[RealmOf(v)]
        BY <3>1
      <3>3. \A v \in Workers : op'[v].pc \in {"barrier", "absorbed", "running", "wrote"} =>
                                 v # w /\ op'[v].target <= cell'[RealmOf(v)]
        BY <1>0, <2>1, <3>1 DEF WithinRealm, NobodyIsAhead
      <3> QED
        BY <2>1, <3>2, <3>3 DEF WithinRealm, NobodyIsAhead, At
    <2>3. ClaimsCoverDone'
      BY SMTT(30), <1>0, <1>a, <2>1 DEF WithinRealm, ClaimsCoverDone, Claims, DoneIn, At, CommitsExist
    <2>4. ClaimsCoverWrites'
      <3> SUFFICES ASSUME NEW v \in Workers, NEW x \in Workers,
                          op'[x].pc \in {"publishing", "held", "published"},
                          RealmOf(x) = RealmOf(v), op'[x].made # 0,
                          Claims(v, op[x].next)'
                   PROVE  op'[x].made \in view'[v]
        BY DEF ClaimsCoverWrites
      <3>1. CASE x # w
        <4>1. op'[x] = op[x] /\ op[x].next <= cell[RealmOf(x)]
          BY <2>1, <3>1 DEF MarkersFollowCell
        <4>2. Claims(v, op[x].next)
          BY <1>0, <2>1, <4>1 DEF Claims, At
        <4> QED
          BY <2>1, <4>1, <4>2 DEF WithinRealm, ClaimsCoverWrites
      <3>2. CASE x = w
        <4> DEFINE n == cell[RealmOf(w)] + 1
        <4>0. /\ op'[w].next = n /\ cell[RealmOf(v)] = cell[RealmOf(w)] /\ cell[RealmOf(w)] \in Nat
              /\ seen[v] <= cell[RealmOf(v)] /\ seen[v] \in Nat \cup {-1}
          BY <1>0, <2>1, <3>2 DEF WithinRealm, NobodyIsAhead
        <4>a. seen[v] < n /\ n \in Nat
          BY <4>0
        <4>1. ~(At(v, "absorbed")' /\ op'[v].target >= n)
          <5>1. ASSUME At(v, "absorbed")'
                PROVE  op'[v].target <= cell[RealmOf(v)] /\ op'[v].target \in Nat
            BY <1>0, <2>1, <5>1 DEF WithinRealm, NobodyIsAhead, At
          <5> QED
            BY <4>0, <5>1
        <4>b. seen'[v] >= n
          BY <3>2, <4>0, <4>1 DEF Claims
        <4>2. v = w /\ seen[w] >= 0
          BY <2>1, <4>0, <4>a, <4>b
        <4> QED
          BY <2>1, <3>2, <4>2 DEF WithinRealm, NobodyIsAhead, At
      <3> QED
        BY <3>1, <3>2
    <2>5. OwedHere'
      BY <1>0, <1>a, <2>1 DEF WithinRealm, OwedHere, At, CommitsExist
    <2> QED
      BY <2>2, <2>3, <2>4, <2>5 DEF WithinRealm
  <1>14. ASSUME NEW w \in Workers, HoldMarker(w) PROVE WithinRealm'
    BY <1>0, <1>14, GotoIs, WithinUntouched
    DEF HoldMarker, Steps, Moves, Returns, OnlyOf, At, fileVars, realmVars
  <1>15. ASSUME NEW w \in Workers, SwapMarker(w) PROVE WithinRealm'
    BY <1>0, <1>15, GotoIs, WithinUntouched
    DEF SwapMarker, Steps, Moves, Returns, OnlyOf, At, fileVars, realmVars
  <1>16. ASSUME NEW w \in Workers, PublishFails(w) PROVE WithinRealm'
    BY <1>0, <1>16, GotoIs, WithinUntouched
    DEF PublishFails, Steps, Moves, Returns, OnlyOf, At, fileVars, realmVars
  <1>17. ASSUME NEW w \in Workers, Resolve(w) PROVE WithinRealm'
    <2>1. /\ \A x \in Workers \ {w} : op'[x] = op[x]
          /\ UNCHANGED <<log, cell, seen, view>>
          /\ op[w].pc = "published" /\ op'[w].pc = "releasing"
          /\ done' = done \cup ({op[w].made} \ {0})
      BY <1>0, <1>17, GotoIs DEF Resolve, Resolves, Steps, OnlyOf, Moves, At, realmVars
    <2>2. NobodyIsAhead'
      BY <1>0, <1>a, <2>1 DEF WithinRealm, NobodyIsAhead, At, CommitsExist, MarkersFollowCell
    <2>3. ClaimsCoverDone'
      <3> SUFFICES ASSUME NEW v \in Workers, Claims(v, cell[RealmOf(v)])'
                   PROVE  DoneIn(RealmOf(v))' \subseteq view'[v]
        BY DEF ClaimsCoverDone
      <3>1. Claims(v, cell[RealmOf(v)])
        BY <2>1 DEF Claims, At
      <3>2. DoneIn(RealmOf(v)) \subseteq view[v]
        BY <3>1 DEF WithinRealm, ClaimsCoverDone
      <3>3. RealmOf(w) = RealmOf(v) => Claims(v, op[w].next)
        BY <1>0, <2>1, <3>1 DEF MarkersFollowCell, Claims
      <3>4. op[w].made # 0 /\ log[op[w].made] = RealmOf(v) => op[w].made \in view[v]
        BY <2>1, <3>3 DEF WithinRealm, ClaimsCoverWrites, CommitsExist
      <3> QED
        BY <2>1, <3>2, <3>4 DEF DoneIn
    <2>4. ClaimsCoverWrites'
      BY SMTT(30), <1>0, <1>a, <2>1 DEF WithinRealm, ClaimsCoverWrites, Claims, At, CommitsExist, MarkersFollowCell
    <2>5. OwedHere'
      BY <1>0, <1>a, <2>1 DEF WithinRealm, OwedHere, At, CommitsExist, MarkersFollowCell
    <2> QED
      BY <2>2, <2>3, <2>4, <2>5 DEF WithinRealm
  <1>18. ASSUME NEW w \in Workers, Release(w) PROVE WithinRealm'
    BY <1>0, <1>18, ReturnIs, WithinUntouched
    DEF Release, Moves, Returns, OnlyOf, At, fileVars, realmVars
  <1>19. ASSUME NEW w \in Workers, Crash(w) PROVE WithinRealm'
    <2>1. /\ \A x \in Workers \ {w} : seen'[x] = seen[x] /\ view'[x] = view[x]
          /\ UNCHANGED <<done, cell>> /\ seen'[w] = -1
          /\ \A c \in DOMAIN log : log'[c] = log[c]
      <3>1. log' \in {log, Append(log, RealmOf(w))}
        BY <1>0, <1>19, CrashIs
      <3>2. \A c \in DOMAIN log : log'[c] = log[c]
        BY <1>0, <1>a, <3>1
      <3> QED
        BY <1>0, <1>19, <3>2, CrashIs DEF OnlyOf
    <2>2. /\ \A x \in Workers \ {w} : op'[x] = op[x]
          /\ \/ op[w].pc = "running" /\ op'[w].pc = "wrote" /\ op'[w].target = op[w].target
             \/ PastStatement(w) /\ op'[w] = op[w]
             \/ op'[w].pc = "idle"
      BY <1>19, CrashIs DEF OnlyOf, Moves, Returns, At
    <2>3. NobodyIsAhead'
      BY <1>0, <1>a, <2>1, <2>2 DEF WithinRealm, NobodyIsAhead, At, CommitsExist, PastStatement
    <2>4. ClaimsCoverDone'
      BY <1>0, <1>a, <2>1, <2>2 DEF WithinRealm, ClaimsCoverDone, Claims, DoneIn, At, CommitsExist, PastStatement
    <2>5. ClaimsCoverWrites'
      <3> SUFFICES ASSUME NEW v \in Workers, NEW x \in Workers,
                          op'[x].pc \in {"publishing", "held", "published"},
                          RealmOf(x) = RealmOf(v), op'[x].made # 0,
                          Claims(v, op[x].next)'
                   PROVE  op'[x].made \in view'[v]
        BY DEF ClaimsCoverWrites
      <3>1. op'[x] = op[x]
        BY <2>2
      <3>2. v # w
        BY <1>0, <2>1, <2>2, <3>1 DEF Claims, At, PastStatement
      <3> QED
        BY <2>1, <2>2, <3>1, <3>2 DEF WithinRealm, ClaimsCoverWrites, Claims, At
    <2>6. OwedHere'
      BY <1>0, <1>a, <2>1, <2>2 DEF WithinRealm, OwedHere, At, CommitsExist, PastStatement
    <2> QED
      BY <2>3, <2>4, <2>5, <2>6 DEF WithinRealm
  <1>20. ASSUME NEW r \in Realms, RealmDies(r) PROVE WithinRealm'
    <2>1. /\ \A x \in Workers : RealmOf(x) # r =>
                op'[x] = op[x] /\ seen'[x] = seen[x] /\ view'[x] = view[x]
          /\ \A x \in Workers : RealmOf(x) = r => op'[x].pc = "gone" /\ seen'[x] = -1
          /\ cell'[r] = 0 /\ \A q \in Realms \ {r} : cell'[q] = cell[q]
          /\ UNCHANGED <<log, done>>
      BY <1>0, <1>20, RealmDiesIs
    <2>2. NobodyIsAhead'
      <3> SUFFICES ASSUME NEW v \in Workers
                   PROVE  /\ seen'[v] <= cell'[RealmOf(v)]
                          /\ op'[v].pc \in {"barrier", "absorbed", "running", "wrote"} =>
                                op'[v].target <= cell'[RealmOf(v)]
                          /\ At(v, "wrote")' /\ op'[v].made # 0 /\ seen'[v] >= 0 =>
                                op'[v].made \in view'[v]
        BY DEF NobodyIsAhead
      <3>1. CASE RealmOf(v) = r
        BY <2>1, <3>1 DEF At
      <3>2. CASE RealmOf(v) # r
        BY <1>0, <2>1, <3>2 DEF WithinRealm, NobodyIsAhead, At
      <3> QED
        BY <3>1, <3>2
    <2>3. ClaimsCoverDone'
      <3> SUFFICES ASSUME NEW v \in Workers, Claims(v, cell[RealmOf(v)])'
                   PROVE  DoneIn(RealmOf(v))' \subseteq view'[v]
        BY DEF ClaimsCoverDone
      <3>1. RealmOf(v) # r
        BY <2>1 DEF Claims, At
      <3> QED
        BY <1>0, <2>1, <3>1 DEF WithinRealm, ClaimsCoverDone, Claims, DoneIn, At
    <2>4. ClaimsCoverWrites'
      BY <1>0, <1>a, <2>1 DEF WithinRealm, ClaimsCoverWrites, Claims, At
    <2>5. OwedHere'
      BY <1>0, <1>a, <2>1 DEF WithinRealm, OwedHere, At
    <2> QED
      BY <2>2, <2>3, <2>4, <2>5 DEF WithinRealm
  <1>21. CASE UNCHANGED vars
    BY <1>21 DEF vars, fileVars, realmVars, WithinRealm, NobodyIsAhead, ClaimsCoverDone, ClaimsCoverWrites, OwedHere, Claims, DoneIn, At
  <1> QED
    BY <1>1, <1>2, <1>3, <1>4, <1>5, <1>6, <1>7, <1>8, <1>9, <1>10, <1>11, <1>12, <1>13,
       <1>14, <1>15, <1>16, <1>17, <1>18, <1>19, <1>20, <1>21
    DEF Next

(* ... and, where only workers die, the same across the realms. Where no    *)
(* commit, no cell, no claim and not the origin's epoch changes, an         *)
(* operation only must not appear to be further than it is.                 *)
LEMMA AcrossUntouched ==
    ASSUME Shape, MarkersFollowCell, AcrossRealms, NEW w \in Workers,
           UNCHANGED <<log, done, cell, seen, view, OriginEpoch>>, late' \subseteq late,
           \A x \in Workers \ {w} : op'[x] = op[x],
           op[w].pc \notin {"wrote", "publishing"}, op'[w].pc # "publishing",
           op'[w].origin \in {0, op[w].origin},
           op'[w].pc \in {"held", "published"} =>
               op[w].pc \in {"held", "published"} /\ op'[w].next = op[w].next,
           op'[w].pc \in {"answered", "barrier", "absorbed", "running", "wrote"} =>
               /\ \/ op'[w].pc = op[w].pc
                  \/ op[w].pc = "running" /\ op'[w].pc = "wrote"
               /\ op'[w].origin = op[w].origin /\ op'[w].target = op[w].target
               /\ op'[w].owed = op[w].owed
               /\ op'[w].kind = "write" => op[w].kind = "write"
    PROVE  AcrossRealms'
  <1>0. OriginEpoch \in Nat
    BY EpochIs
  <1>1. CellsFollowOrigin'
    BY <1>0 DEF AcrossRealms, CellsFollowOrigin, At
  <1>2. WritesAimAtOrigin'
    BY DEF AcrossRealms, WritesAimAtOrigin
  <1>3. \A v \in Workers : At(v, "absorbed")' =>
            At(v, "absorbed") /\ op'[v].target = op[v].target
    BY DEF At
  <1>4. \A v \in Workers :
            /\ Latest(v, seen[v])' => Latest(v, seen[v])
            /\ At(v, "absorbed")' /\ Latest(v, op[v].target)' => Latest(v, op[v].target)
    BY <1>3 DEF Latest, At
  <1>5. LatestSeesAll'
    BY <1>3, <1>4 DEF AcrossRealms, LatestSeesAll
  <1>6. ClaimsSeeDone'
    BY <1>3 DEF AcrossRealms, ClaimsSeeDone, Claims
  <1>7. OwedAnywhere'
    BY DEF AcrossRealms, OwedAnywhere, At
  <1> QED
    BY <1>1, <1>2, <1>5, <1>6, <1>7 DEF AcrossRealms

(* What a publication makes of the origin's epoch.                          *)
LEMMA HeldEpoch ==
    ASSUME Shape, MarkersFollowCell, NEW w \in Workers, HoldMarker(w),
           op[w].next = OriginEpoch + 1
    PROVE  OriginEpoch' = OriginEpoch + 1
  <1> DEFINE n == OriginEpoch + 1
  <1>1. /\ RealmOf(w) \in Realms /\ markers \in [Realms -> SUBSET Nat] /\ n \in Nat
        /\ \A r \in Realms : \A m \in markers[r] : m <= n
    BY WorkersAreSomebody, EpochIs DEF Shape
  <1>2. markers' = [markers EXCEPT ![RealmOf(w)] = @ \cup {n}]
    BY DEF HoldMarker, Publishing
  <1>3. /\ markers' \in [Realms -> SUBSET Nat] /\ n \in markers'[RealmOf(w)]
        /\ \A r \in Realms : \A m \in markers'[r] : m <= n
    BY <1>1, <1>2
  <1>4. /\ OriginEpoch' \in Nat
        /\ \A r \in Realms : \A m \in markers'[r] : m <= OriginEpoch'
        /\ OriginEpoch' = 0 \/ \E r \in Realms : OriginEpoch' \in markers'[r]
    BY <1>1, <1>3, MaxEpochIs DEF OriginEpoch
  <1> QED
    BY <1>1, <1>3, <1>4

LEMMA SwappedEpoch ==
    ASSUME Shape, MarkersFollowCell, NEW w \in Workers, SwapMarker(w),
           op[w].next = OriginEpoch
    PROVE  OriginEpoch' = OriginEpoch
  <1>1. /\ RealmOf(w) \in Realms /\ markers \in [Realms -> SUBSET Nat] /\ OriginEpoch \in Nat
        /\ \A r \in Realms : \A m \in markers[r] : m <= OriginEpoch
    BY WorkersAreSomebody, EpochIs DEF Shape
  <1>2. markers' = [markers EXCEPT ![RealmOf(w)] = {op[w].next}]
    BY DEF SwapMarker
  <1>3. /\ markers' \in [Realms -> SUBSET Nat] /\ OriginEpoch \in markers'[RealmOf(w)]
        /\ \A r \in Realms : \A m \in markers'[r] : m <= OriginEpoch
    BY <1>1, <1>2
  <1>4. /\ OriginEpoch' \in Nat
        /\ \A r \in Realms : \A m \in markers'[r] : m <= OriginEpoch'
        /\ OriginEpoch' = 0 \/ \E r \in Realms : OriginEpoch' \in markers'[r]
    BY <1>1, <1>3, MaxEpochIs DEF OriginEpoch
  <1> QED
    BY <1>1, <1>3, <1>4

(* Where neither a cell nor the origin's epoch changes, and no publication.  *)
LEMMA CellsUntouched ==
    ASSUME CellsFollowOrigin, NEW w \in Workers,
           UNCHANGED <<cell, OriginEpoch>>, late' \subseteq late,
           \A x \in Workers \ {w} : op'[x] = op[x],
           \/ op'[w] = op[w]
           \/ /\ op[w].pc # "publishing"
              /\ op'[w].pc \notin {"publishing", "held", "published"}
              /\ op'[w].origin <= OriginEpoch
    PROVE  CellsFollowOrigin'
  <1>1. late' = {}
    BY DEF CellsFollowOrigin
  <1>2. \A x \in Workers : At(x, "publishing") => At(x, "publishing")'
    BY DEF At
  <1>3. \A x \in Workers : op'[x].pc \in {"publishing", "held", "published"} => op'[x] = op[x]
    OBVIOUS
  <1>4. \A x \in Workers : op'[x].origin <= OriginEpoch'
    BY DEF CellsFollowOrigin
  <1> QED
    BY <1>1, <1>2, <1>3, <1>4 DEF CellsFollowOrigin, At

LEMMA AcrossStep ==
    ASSUME IInv, OnlyCrashes, [Next]_vars
    PROVE  AcrossRealms'
  <1>a. /\ Shape /\ WritersHoldTheLock /\ CommitsExist /\ MarkersFollowCell
        /\ WithinRealm /\ AcrossRealms
    BY DEF IInv
  <1>0. /\ cell \in [Realms -> Nat] /\ log \in Seq(Realms)
        /\ op \in [Workers -> OpShape] /\ view \in [Workers -> SUBSET Nat]
        /\ OriginEpoch \in Nat
        /\ \A w \in Workers :
              /\ op[w].next \in Nat /\ op[w].target \in Nat /\ op[w].origin \in Nat
              /\ seen[w] \in Nat \cup {-1} /\ RealmOf(w) \in Realms
    BY <1>a, WorkersAreSomebody, EpochIs DEF Shape, OpShape
  <1>b. /\ \A x \in Workers : PastStatement(x) => op[x].kind = "write"
        /\ \A x, y \in Workers :
              /\ op[x].kind = "write" /\ op[x].pc \notin {"idle", "locking", "gone"}
              /\ op[y].kind = "write" /\ op[y].pc \notin {"idle", "locking", "gone"}
              => x = y
    BY <1>a DEF WritersHoldTheLock
  <1>1. ASSUME NEW w \in Workers, NEW t \in {"read", "write"}, Call(w, t)
        PROVE  AcrossRealms'
    <2>1. OriginEpoch' = OriginEpoch
      BY <1>a, <1>1, CallIs DEF OriginEpoch, realmVars
    <2> QED
      BY <1>a, <1>0, <1>1, <2>1, CallIs, AcrossUntouched
      DEF Moves, Returns, OnlyOf, At, fileVars, realmVars
  <1>2. ASSUME NEW w \in Workers, LockWrite(w) PROVE AcrossRealms'
    <2>1. OriginEpoch' = OriginEpoch
      BY <1>a, <1>2, GotoIs DEF LockWrite, Steps, OriginEpoch, realmVars
    <2> QED
      BY <1>a, <1>0, <1>2, <2>1, GotoIs, AcrossUntouched
      DEF LockWrite, Steps, Moves, Returns, OnlyOf, At, fileVars, realmVars
  <1>3. ASSUME NEW w \in Workers, AskOrigin(w) PROVE AcrossRealms'
    <2>1. /\ \A x \in Workers \ {w} : op'[x] = op[x]
          /\ UNCHANGED <<log, done, cell, seen, view, late, OriginEpoch>>
          /\ op[w].pc = "asking" /\ op'[w].pc = "answered"
          /\ op'[w].origin = OriginEpoch /\ op'[w].owed = op[w].owed
      BY <1>a, <1>0, <1>3, AskOriginIs DEF OnlyOf, OriginEpoch
    <2>2. CellsFollowOrigin'
      <3>1. /\ op[w].pc # "publishing"
            /\ op'[w].pc \notin {"publishing", "held", "published"}
            /\ op'[w].origin <= OriginEpoch
        BY <1>0, <2>1
      <3> QED
        BY <1>a, <2>1, <3>1, CellsUntouched DEF AcrossRealms
    <2>3. WritesAimAtOrigin'
      BY <1>a, <1>0, <2>1 DEF AcrossRealms, WritesAimAtOrigin, At
    <2>4. LatestSeesAll'
      BY <1>a, <1>0, <2>1, ZenonT(60) DEF AcrossRealms, LatestSeesAll, At, Latest
    <2>5. ClaimsSeeDone'
      BY <1>a, <1>0, <2>1 DEF AcrossRealms, ClaimsSeeDone, At, Claims
    <2>6. OwedAnywhere'
      BY <1>a, <1>0, <2>1 DEF AcrossRealms, OwedAnywhere, ClaimsSeeDone, Claims, At, CommitsExist
    <2> QED
      BY <1>a, <2>2, <2>3, <2>4, <2>5, <2>6 DEF AcrossRealms
  <1>4. ASSUME NEW w \in Workers, AimBarrier(w) PROVE AcrossRealms'
    <2>1. /\ \A x \in Workers \ {w} : op'[x] = op[x]
          /\ UNCHANGED <<log, done, seen, view, late, OriginEpoch>>
          /\ op[w].pc = "answered"
          /\ cell'[RealmOf(w)] >= cell[RealmOf(w)] /\ cell'[RealmOf(w)] >= op[w].origin
          /\ cell'[RealmOf(w)] \in {cell[RealmOf(w)], op[w].origin}
          /\ \A r \in Realms \ {RealmOf(w)} : cell'[r] = cell[r]
          /\ \/ op'[w].pc = "idle" /\ op'[w].kind = "read" /\ op'[w].origin = 0
             \/ /\ op'[w].target = cell'[RealmOf(w)] /\ op'[w].owed = op[w].owed
                /\ op'[w].kind = op[w].kind /\ op'[w].origin = op[w].origin
                /\ \/ op'[w].pc = "barrier"
                   \/ op'[w].pc = "running" /\ seen[w] >= cell'[RealmOf(w)]
      BY <1>a, <1>0, <1>4, AimBarrierIs DEF OnlyOf, Returns, OriginEpoch
    <2>a. /\ cell'[RealmOf(w)] \in Nat /\ op'[w].origin <= OriginEpoch
          /\ op[w].origin <= OriginEpoch
      BY <1>a, <1>0, <2>1 DEF AcrossRealms, CellsFollowOrigin
    <2>2. CellsFollowOrigin'
      <3>1. ASSUME NEW x \in Workers, At(x, "publishing")'
            PROVE  /\ At(x, "publishing") /\ op'[x] = op[x]
                   /\ op[x].next = OriginEpoch + 1 /\ cell[RealmOf(x)] = OriginEpoch + 1
                   /\ cell'[RealmOf(x)] = OriginEpoch + 1
        <4>1. x # w /\ At(x, "publishing") /\ op'[x] = op[x]
          BY <2>1, <3>1 DEF At
        <4>2. op[x].next = OriginEpoch + 1 /\ cell[RealmOf(x)] = OriginEpoch + 1
          BY <1>a, <4>1 DEF AcrossRealms, CellsFollowOrigin
        <4>3. CASE RealmOf(x) = RealmOf(w)
          BY <1>0, <2>1, <2>a, <4>1, <4>2, <4>3
        <4> QED
          BY <1>0, <2>1, <4>1, <4>2, <4>3
      <3>2. ASSUME NEW r \in Realms, ~(cell'[r] <= OriginEpoch)
            PROVE  \E x \in Workers : RealmOf(x) = r /\ At(x, "publishing")'
        <4>1. ~(cell[r] <= OriginEpoch)
          <5>1. CASE r = RealmOf(w)
            BY <2>1, <2>a, <3>2, <5>1
          <5> QED
            BY <2>1, <3>2, <5>1
        <4>2. PICK x \in Workers : RealmOf(x) = r /\ At(x, "publishing")
          BY <1>a, <4>1 DEF AcrossRealms, CellsFollowOrigin
        <4> QED
          BY <2>1, <4>2 DEF At
      <3>3. \A x \in Workers : /\ op'[x].origin <= OriginEpoch
                               /\ op'[x].pc \in {"held", "published"} =>
                                     op'[x].next = OriginEpoch
        BY <1>a, <2>1, <2>a DEF AcrossRealms, CellsFollowOrigin
      <3>4. late' = {} /\ OriginEpoch' = OriginEpoch
        BY <1>a, <2>1 DEF AcrossRealms, CellsFollowOrigin
      <3> QED
        BY <3>1, <3>2, <3>3, <3>4 DEF CellsFollowOrigin
    <2>3. WritesAimAtOrigin'
      <3>1. op[w].kind = "write" => op[w].origin = OriginEpoch /\ cell[RealmOf(w)] <= OriginEpoch
        <4>1. SUFFICES ASSUME op[w].kind = "write"
                       PROVE  op[w].origin = OriginEpoch /\ cell[RealmOf(w)] <= OriginEpoch
          OBVIOUS
        <4>2. op[w].origin = OriginEpoch
          BY <1>a, <2>1, <4>1 DEF AcrossRealms, WritesAimAtOrigin
        <4>3. \A x \in Workers : ~At(x, "publishing")
          BY <1>b, <2>1, <4>1 DEF At, PastStatement
        <4> QED
          BY <1>a, <1>0, <4>2, <4>3 DEF AcrossRealms, CellsFollowOrigin
      <3>2. op[w].kind = "write" => cell'[RealmOf(w)] = OriginEpoch
        BY <1>0, <2>1, <2>a, <3>1
      <3> QED
        BY <1>a, <2>1, <3>1, <3>2 DEF AcrossRealms, WritesAimAtOrigin
    <2>4. LatestSeesAll'
      BY ZenonT(60), <1>a, <1>0, <2>1 DEF AcrossRealms, LatestSeesAll, At, Latest
    <2>5. ClaimsSeeDone'
      BY <1>a, <1>0, <2>1 DEF AcrossRealms, ClaimsSeeDone, At, Claims
    <2>6. OwedAnywhere'
      <3>1. op'[w].pc = "running" => op'[w].owed \subseteq view[w]
        <4>1. op'[w].pc = "running" => seen[w] >= op[w].origin
          BY <1>0, <2>1, <2>a
        <4> QED
          BY <1>a, <2>1, <4>1 DEF AcrossRealms, OwedAnywhere, At
      <3> QED
        BY <1>a, <2>1, <3>1 DEF AcrossRealms, OwedAnywhere, At
    <2> QED
      BY <1>a, <2>2, <2>3, <2>4, <2>5, <2>6 DEF AcrossRealms
  <1>5. ASSUME NEW w \in Workers, RunBarrier(w) PROVE AcrossRealms'
    <2>1. /\ \A x \in Workers \ {w} : op'[x] = op[x]
          /\ UNCHANGED <<log, done, cell, seen, late, OriginEpoch>>
          /\ op[w].pc = "barrier" /\ op'[w].pc = "absorbed"
          /\ op'[w].target = op[w].target /\ op'[w].owed = op[w].owed
          /\ op'[w].kind = op[w].kind /\ op'[w].origin = op[w].origin
          /\ view'[w] = DOMAIN log
          /\ \A x \in Workers \ {w} : view'[x] = view[x]
      BY <1>a, <1>0, <1>5, GotoIs
      DEF RunBarrier, Steps, OnlyOf, Moves, At, fileVars, realmVars, Shape, OriginEpoch
    <2>2. CellsFollowOrigin'
      BY ZenonT(60), <1>a, <1>0, <2>1 DEF AcrossRealms, CellsFollowOrigin, At
    <2>3. WritesAimAtOrigin'
      BY <1>a, <1>0, <2>1 DEF AcrossRealms, WritesAimAtOrigin, At
    <2>4. LatestSeesAll'
      <3>1. \A v \in Workers : \A n \in Int : Latest(v, n)' => Latest(v, n)
        BY <2>1 DEF Latest, At
      <3>2. \A v \in Workers \ {w} : /\ op'[v] = op[v] /\ seen'[v] = seen[v]
                                     /\ view'[v] = view[v]
        BY <2>1
      <3>3. \A v \in Workers : seen[v] \in Int /\ op[v].target \in Int
        BY <1>0
      <3> SUFFICES ASSUME NEW v \in Workers, v # w
                   PROVE  /\ Latest(v, seen[v])' => view'[v] = DOMAIN log'
                          /\ At(v, "absorbed")' /\ Latest(v, op[v].target)' =>
                                view'[v] = DOMAIN log'
        BY <2>1 DEF LatestSeesAll
      <3>4. /\ Latest(v, seen[v])' => Latest(v, seen[v])
            /\ At(v, "absorbed")' => At(v, "absorbed")
            /\ Latest(v, op[v].target)' => Latest(v, op[v].target)
        BY <3>1, <3>2, <3>3 DEF At
      <3> QED
        BY <1>a, <2>1, <3>2, <3>4 DEF AcrossRealms, LatestSeesAll
    <2>5. ClaimsSeeDone'
      BY <1>a, <1>0, <2>1 DEF AcrossRealms, ClaimsSeeDone, Claims, At, CommitsExist
    <2>6. OwedAnywhere'
      BY <1>a, <1>0, <2>1 DEF AcrossRealms, OwedAnywhere, At
    <2> QED
      BY <1>a, <2>2, <2>3, <2>4, <2>5, <2>6 DEF AcrossRealms
  <1>6. ASSUME NEW w \in Workers, EndBarrier(w) PROVE AcrossRealms'
    <2>1. /\ \A x \in Workers \ {w} : op'[x] = op[x] /\ seen'[x] = seen[x]
          /\ UNCHANGED <<log, done, cell, view, late, OriginEpoch>>
          /\ op[w].pc = "absorbed" /\ seen'[w] = op[w].target
          /\ \/ op'[w].pc = "idle" /\ op'[w].kind = "read" /\ op'[w].origin = 0
             \/ /\ op'[w].pc = "running" /\ op'[w].target = op[w].target
                /\ op'[w].owed = op[w].owed
                /\ op'[w].kind = op[w].kind /\ op'[w].origin = op[w].origin
      BY <1>a, <1>0, <1>6, EndBarrierIs DEF OnlyOf, Moves, Returns, OriginEpoch
    <2>2. CellsFollowOrigin'
      <3>1. /\ op[w].pc # "publishing"
            /\ op'[w].pc \notin {"publishing", "held", "published"}
        BY <2>1
      <3>2. op'[w].origin <= OriginEpoch
        BY <1>a, <1>0, <2>1 DEF AcrossRealms, CellsFollowOrigin
      <3> QED
        BY <1>a, <2>1, <3>1, <3>2, CellsUntouched DEF AcrossRealms
    <2>3. WritesAimAtOrigin'
      BY <1>a, <1>0, <2>1 DEF AcrossRealms, WritesAimAtOrigin, At
    <2>4. LatestSeesAll'
      BY ZenonT(60), <1>a, <1>0, <2>1 DEF AcrossRealms, LatestSeesAll, At, Latest
    <2>5. ClaimsSeeDone'
      BY <1>a, <1>0, <2>1 DEF AcrossRealms, ClaimsSeeDone, At, Claims
    <2>6. OwedAnywhere'
      BY <1>a, <1>0, <2>1 DEF AcrossRealms, OwedAnywhere, WithinRealm, OwedHere, At
    <2> QED
      BY <1>a, <2>2, <2>3, <2>4, <2>5, <2>6 DEF AcrossRealms
  <1>7. ASSUME NEW w \in Workers, AbandonBarrier(w) PROVE AcrossRealms'
    <2>1. OriginEpoch' = OriginEpoch
      BY <1>a, <1>7, AbandonIs DEF OriginEpoch, realmVars
    <2> QED
      BY <1>a, <1>0, <1>7, <2>1, AbandonIs, AcrossUntouched
      DEF Moves, Returns, OnlyOf, At, fileVars, realmVars
  <1>8. ASSUME NEW w \in Workers, GiveUp(w) PROVE AcrossRealms'
    <2>1. OriginEpoch' = OriginEpoch
      BY <1>a, <1>8, ReturnIs DEF GiveUp, OriginEpoch, realmVars
    <2> QED
      BY <1>a, <1>0, <1>8, <2>1, ReturnIs, AcrossUntouched
      DEF GiveUp, Moves, Returns, OnlyOf, At, fileVars, realmVars
  <1>9. ASSUME NEW w \in Workers, Read(w) PROVE AcrossRealms'
    <2>1. OriginEpoch' = OriginEpoch
      BY <1>a, <1>9, ReturnIs DEF Read, OriginEpoch, realmVars
    <2> QED
      BY <1>a, <1>0, <1>9, <2>1, ReturnIs, AcrossUntouched
      DEF Read, Moves, Returns, OnlyOf, At, fileVars, realmVars
  <1>10. ASSUME NEW w \in Workers, Write(w) PROVE AcrossRealms'
    <2>1. /\ \A x \in Workers \ {w} : op'[x] = op[x] /\ view'[x] = view[x]
          /\ UNCHANGED <<done, cell, seen, late, OriginEpoch>>
          /\ op[w].pc = "running" /\ op'[w].pc = "wrote"
          /\ op[w].kind = "write" /\ op'[w].kind = "write"
          /\ op'[w].target = op[w].target /\ op'[w].origin = op[w].origin
          /\ view'[w] = view[w] \cup {Len(log) + 1}
          /\ log' = Append(log, RealmOf(w))
      BY <1>a, <1>0, <1>10, WriteIs DEF OnlyOf, OriginEpoch
    <2>2. DOMAIN log' = DOMAIN log \cup {Len(log) + 1}
      BY <1>a, <1>0, <2>1, OneMoreCommit
    <2>3. \A x \in Workers \ {w} : ~At(x, "wrote") /\ ~At(x, "publishing")
      BY <1>a, <1>b, <2>1 DEF At, PastStatement
    <2>4. CellsFollowOrigin'
      BY <1>a, <1>0, <2>1 DEF AcrossRealms, CellsFollowOrigin, At
    <2>5. WritesAimAtOrigin'
      BY <1>a, <1>0, <2>1 DEF AcrossRealms, WritesAimAtOrigin, At
    <2>6. LatestSeesAll'
      <3>1. \A v \in Workers : \A n \in Int :
                Latest(v, n)' => v = w /\ Latest(w, n)
        BY <1>a, <2>1, <2>3 DEF Latest, At
      <3> QED
        BY SMTT(30), <1>a, <1>0, <2>1, <2>2, <3>1 DEF AcrossRealms, LatestSeesAll, At
    <2>7. ClaimsSeeDone'
      BY <1>a, <1>0, <2>1 DEF AcrossRealms, ClaimsSeeDone, At, Claims
    <2>8. OwedAnywhere'
      BY <1>a, <1>0, <2>1 DEF AcrossRealms, OwedAnywhere, At
    <2> QED
      BY <1>a, <2>4, <2>5, <2>6, <2>7, <2>8 DEF AcrossRealms
  <1>11. ASSUME NEW w \in Workers, FailWrite(w) PROVE AcrossRealms'
    <2>1. OriginEpoch' = OriginEpoch /\ late' = late
      BY <1>a, <1>11 DEF FailWrite, OriginEpoch, realmVars, OnlyCrashes
    <2> QED
      BY <1>a, <1>0, <1>11, <2>1, GotoIs, AcrossUntouched
      DEF FailWrite, Steps, Moves, OnlyOf, At, fileVars, realmVars
  <1>12. ASSUME NEW w \in Workers, LateCommit(w) PROVE AcrossRealms'
    BY <1>a, <1>12, LateCommitIs DEF AcrossRealms, CellsFollowOrigin
  <1>13. ASSUME NEW w \in Workers, AfterWrite(w) PROVE AcrossRealms'
    <2>1. /\ \A x \in Workers \ {w} : op'[x] = op[x] /\ seen'[x] = seen[x]
          /\ UNCHANGED <<log, done, view, late, OriginEpoch>>
          /\ op[w].pc = "wrote" /\ op'[w].pc = "publishing"
          /\ op'[w].next = cell[RealmOf(w)] + 1 /\ op'[w].origin = op[w].origin
          /\ cell'[RealmOf(w)] = cell[RealmOf(w)] + 1
          /\ \A r \in Realms \ {RealmOf(w)} : cell'[r] = cell[r]
          /\ \/ seen'[w] = seen[w]
             \/ seen'[w] = cell[RealmOf(w)] + 1 /\ seen[w] = cell[RealmOf(w)]
      BY <1>a, <1>0, <1>13, AfterWriteIs DEF OnlyOf, OriginEpoch
    <2>2. \A x \in Workers \ {w} : ~At(x, "wrote") /\ ~At(x, "publishing")
      BY <1>a, <1>b, <2>1 DEF At, PastStatement
    <2>3. \A r \in Realms : cell[r] <= OriginEpoch
      BY <1>a, <2>1, <2>2 DEF AcrossRealms, CellsFollowOrigin, At
    <2>4. cell[RealmOf(w)] = OriginEpoch
      <3>1. op[w].target = OriginEpoch
        BY <1>a, <1>b, <2>1 DEF AcrossRealms, WritesAimAtOrigin, PastStatement
      <3>2. op[w].target <= cell[RealmOf(w)]
        BY <1>a, <2>1 DEF WithinRealm, NobodyIsAhead
      <3> QED
        BY <1>a, <1>0, <2>3, <3>1, <3>2
    <2>5. \A v \in Workers : seen[v] <= OriginEpoch
                             /\ (At(v, "absorbed") => op[v].target <= OriginEpoch)
      BY <1>a, <1>0, <2>3 DEF WithinRealm, NobodyIsAhead, At
    <2>6. CellsFollowOrigin'
      BY <1>a, <1>0, <2>1, <2>2, <2>3, <2>4 DEF AcrossRealms, CellsFollowOrigin, At
    <2>7. WritesAimAtOrigin'
      BY <1>a, <1>0, <2>1 DEF AcrossRealms, WritesAimAtOrigin, At
    <2>8. LatestSeesAll'
      <3>1. \A v \in Workers : \A n \in Int : Latest(v, n)' => n >= OriginEpoch + 1
        BY <1>a, <1>0, <2>1, <2>4 DEF Latest, At
      <3>2. ASSUME NEW v \in Workers, Latest(v, seen[v])' PROVE view'[v] = DOMAIN log'
        <4>1. seen'[v] \in Int /\ seen'[v] >= OriginEpoch + 1
          <5>1. seen'[v] \in {seen[v], cell[RealmOf(w)] + 1}
            BY <2>1
          <5>2. seen'[v] \in Int
            BY <1>0, <5>1
          <5> QED
            BY <3>1, <3>2, <5>2
        <4>2. v = w /\ seen[w] = OriginEpoch
          <5>1. seen[v] <= OriginEpoch /\ seen[w] \in Int
            BY <1>0, <2>5
          <5>2. v = w
            BY <1>0, <2>1, <4>1, <5>1
          <5> QED
            BY <1>0, <2>1, <2>4, <4>1, <5>1, <5>2
        <4>3. Latest(w, seen[w])
          BY <1>a, <1>0, <2>1, <2>2, <4>2 DEF Latest, At
        <4> QED
          BY <1>a, <2>1, <4>2, <4>3 DEF AcrossRealms, LatestSeesAll
      <3>3. ASSUME NEW v \in Workers, At(v, "absorbed")', Latest(v, op[v].target)'
            PROVE  FALSE
        <4>1. v # w /\ op'[v] = op[v] /\ At(v, "absorbed") /\ op'[v].target \in Nat
          BY <1>a, <1>0, <2>1, <3>3 DEF At
        <4> QED
          BY <1>a, <1>0, <2>5, <3>1, <3>3, <4>1
      <3> QED
        BY <1>a, <3>2, <3>3 DEF LatestSeesAll
    <2>9. ClaimsSeeDone'
      <3> SUFFICES ASSUME NEW v \in Workers, Claims(v, OriginEpoch)'
                   PROVE  done' \subseteq view'[v]
        BY DEF ClaimsSeeDone
      <3>1. seen'[v] >= OriginEpoch => seen[v] >= OriginEpoch
        <4>1. CASE seen'[v] = seen[v]
          BY <4>1
        <4>2. CASE seen'[v] # seen[v]
          BY <1>0, <2>1, <2>4, <4>2
        <4> QED
          BY <4>1, <4>2
      <3>2. At(v, "absorbed")' => At(v, "absorbed") /\ op'[v] = op[v]
        BY <2>1 DEF At
      <3>3. Claims(v, OriginEpoch)
        BY <2>1, <3>1, <3>2 DEF Claims
      <3> QED
        BY <1>a, <2>1, <3>3 DEF AcrossRealms, ClaimsSeeDone
    <2>10. OwedAnywhere'
      BY <1>a, <1>0, <2>1 DEF AcrossRealms, OwedAnywhere, At
    <2> QED
      BY <1>a, <2>6, <2>7, <2>8, <2>9, <2>10 DEF AcrossRealms
  <1>14. ASSUME NEW w \in Workers, HoldMarker(w) PROVE AcrossRealms'
    <2>1. /\ \A x \in Workers \ {w} : op'[x] = op[x]
          /\ UNCHANGED <<log, done, cell, seen, view, late>>
          /\ op[w].pc = "publishing" /\ op'[w].pc = "held"
          /\ op'[w].next = op[w].next /\ op'[w].origin = op[w].origin
      BY <1>a, <1>0, <1>14, GotoIs DEF HoldMarker, Steps, OnlyOf, Moves, At, fileVars
    <2>2. op[w].next = OriginEpoch + 1 /\ OriginEpoch' = OriginEpoch + 1
      BY <1>a, <2>1, <1>14, HeldEpoch DEF AcrossRealms, CellsFollowOrigin, At
    <2>3. \A x \in Workers \ {w} : /\ ~PastStatement(x)
                                   /\ op[x].kind = "write" =>
                                         op[x].pc \in {"idle", "locking", "gone"}
      BY <1>a, <1>b, <2>1 DEF PastStatement
    <2>4. CellsFollowOrigin'
      <3>1. \A x \in Workers : ~At(x, "publishing")'
        BY <2>1, <2>3 DEF At, PastStatement
      <3>2. \A x \in Workers \ {w} : op'[x].pc \notin {"held", "published"}
        BY <2>1, <2>3 DEF PastStatement
      <3>3. \A r \in Realms : cell'[r] <= OriginEpoch'
        <4> SUFFICES ASSUME NEW r \in Realms PROVE cell[r] <= OriginEpoch + 1
          BY <2>1, <2>2
        <4>1. CASE cell[r] <= OriginEpoch
          BY <1>0, <4>1
        <4>2. CASE ~(cell[r] <= OriginEpoch)
          <5>1. PICK x \in Workers : RealmOf(x) = r /\ At(x, "publishing")
            BY <1>a, <4>2 DEF AcrossRealms, CellsFollowOrigin
          <5>2. cell[r] = OriginEpoch + 1
            BY <1>a, <5>1 DEF AcrossRealms, CellsFollowOrigin
          <5> QED
            BY <1>0, <5>2
        <4> QED
          BY <4>1, <4>2
      <3>4. \A x \in Workers : op'[x].origin <= OriginEpoch'
        <4>1. \A x \in Workers : op[x].origin <= OriginEpoch
          BY <1>a DEF AcrossRealms, CellsFollowOrigin
        <4>2. \A x \in Workers : op'[x].origin = op[x].origin
          BY <2>1
        <4> QED
          <5> SUFFICES ASSUME NEW x \in Workers PROVE op[x].origin <= OriginEpoch + 1
            BY <2>2, <4>2
          <5>1. op[x].origin \in Nat /\ op[x].origin <= OriginEpoch
            BY <1>0, <4>1
          <5> QED
            BY <1>0, <5>1
      <3>5. late' = {}
        BY <1>a, <2>1 DEF AcrossRealms, CellsFollowOrigin
      <3> QED
        BY <2>1, <2>2, <3>1, <3>2, <3>3, <3>4, <3>5 DEF CellsFollowOrigin
    <2>5. WritesAimAtOrigin'
      BY <1>a, <2>1, <2>3 DEF WritesAimAtOrigin
    <2>6. LatestSeesAll'
      <3>1. \A v \in Workers : \A n \in Int : Latest(v, n)' => Latest(v, n)
        BY <1>a, <1>0, <2>1, <2>2, <2>3 DEF Latest, At, PastStatement
      <3> QED
        <4> SUFFICES ASSUME NEW v \in Workers
                     PROVE  /\ Latest(v, seen[v])' => view'[v] = DOMAIN log'
                            /\ At(v, "absorbed")' /\ Latest(v, op[v].target)' =>
                                  view'[v] = DOMAIN log'
          BY DEF LatestSeesAll
        <4>1. Latest(v, seen[v])' => Latest(v, seen[v])
          BY <1>0, <2>1, <3>1
        <4>2. At(v, "absorbed")' /\ Latest(v, op[v].target)' =>
                 At(v, "absorbed") /\ Latest(v, op[v].target)
          <5>1. At(v, "absorbed")' => At(v, "absorbed") /\ op'[v] = op[v]
            BY <2>1 DEF At
          <5>2. op[v].target \in Int
            BY <1>0
          <5> QED
            BY <3>1, <5>1, <5>2
        <4> QED
          BY <1>a, <2>1, <4>1, <4>2 DEF AcrossRealms, LatestSeesAll
    <2>7. ClaimsSeeDone'
      <3> SUFFICES ASSUME NEW v \in Workers, Claims(v, OriginEpoch)'
                   PROVE  done' \subseteq view'[v]
        BY DEF ClaimsSeeDone
      <3>1. CASE seen'[v] >= OriginEpoch'
        <4>1. seen[v] >= OriginEpoch
          <5>1. seen[v] \in Int /\ seen[v] >= OriginEpoch + 1
            BY <1>0, <2>1, <2>2, <3>1
          <5> QED
            BY <1>0, <5>1
        <4> QED
          BY <1>a, <2>1, <4>1 DEF AcrossRealms, ClaimsSeeDone, Claims
      <3>2. CASE At(v, "absorbed")' /\ op'[v].target >= OriginEpoch'
        <4>1. At(v, "absorbed") /\ op'[v] = op[v] /\ op[v].target \in Nat
          BY <1>0, <2>1, <3>2 DEF At
        <4>2. op[v].target >= OriginEpoch
          BY <1>0, <2>2, <3>2, <4>1
        <4> QED
          BY <1>a, <2>1, <4>1, <4>2 DEF AcrossRealms, ClaimsSeeDone, Claims
      <3> QED
        BY <3>1, <3>2 DEF Claims
    <2>8. OwedAnywhere'
      BY <1>a, <1>0, <2>1 DEF AcrossRealms, OwedAnywhere, At
    <2> QED
      BY <1>a, <2>4, <2>5, <2>6, <2>7, <2>8 DEF AcrossRealms
  <1>15. ASSUME NEW w \in Workers, SwapMarker(w) PROVE AcrossRealms'
    <2>1. OriginEpoch' = OriginEpoch
      BY <1>a, <1>15, SwappedEpoch DEF SwapMarker, At, AcrossRealms, CellsFollowOrigin
    <2> QED
      BY <1>a, <1>0, <1>15, <2>1, GotoIs, AcrossUntouched
      DEF SwapMarker, Steps, Moves, OnlyOf, At, fileVars, realmVars
  <1>16. ASSUME NEW w \in Workers, PublishFails(w) PROVE AcrossRealms'
    BY <1>a, <1>16 DEF PublishFails, OnlyCrashes
  <1>17. ASSUME NEW w \in Workers, Resolve(w) PROVE AcrossRealms'
    <2>1. /\ \A x \in Workers \ {w} : op'[x] = op[x]
          /\ UNCHANGED <<log, cell, seen, view, late, OriginEpoch>>
          /\ op[w].pc = "published" /\ op'[w].pc = "releasing"
          /\ op'[w].next = op[w].next /\ op'[w].origin = op[w].origin
          /\ done' = done \cup ({op[w].made} \ {0})
      BY <1>a, <1>0, <1>17, GotoIs
      DEF Resolve, Resolves, Steps, OnlyOf, Moves, At, realmVars, OriginEpoch
    <2>2. \A x \in Workers : ~At(x, "wrote") /\ ~At(x, "publishing")
      BY <1>a, <1>b, <2>1 DEF At, PastStatement
    <2>3. CellsFollowOrigin'
      <3>1. CellsFollowOrigin /\ w \in Workers
        BY <1>a, <1>17 DEF AcrossRealms
      <3>2. late' = {}
        BY <2>1, <3>1 DEF CellsFollowOrigin
      <3>3. ASSUME NEW r \in Realms
            PROVE  \/ cell'[r] <= OriginEpoch'
                   \/ \E x \in Workers : RealmOf(x) = r /\ At(x, "publishing")'
        BY <2>1, <2>2, <3>1 DEF CellsFollowOrigin
      <3>4. ASSUME NEW x \in Workers
            PROVE  /\ op'[x].origin <= OriginEpoch'
                   /\ ~At(x, "publishing")'
                   /\ op'[x].pc \in {"held", "published"} => op'[x].next = OriginEpoch'
        BY <2>1, <2>2, <3>1 DEF CellsFollowOrigin, At
      <3> QED BY <3>2, <3>3, <3>4 DEF CellsFollowOrigin, At
    <2>4. WritesAimAtOrigin'
      BY <1>a, <1>0, <2>1 DEF AcrossRealms, WritesAimAtOrigin, At
    <2>5. LatestSeesAll'
      BY ZenonT(60), <1>a, <1>0, <2>1 DEF AcrossRealms, LatestSeesAll, At, Latest
    <2>6. ClaimsSeeDone'
      <3> SUFFICES ASSUME NEW v \in Workers, Claims(v, OriginEpoch)'
                   PROVE  done' \subseteq view'[v]
        BY <1>a DEF ClaimsSeeDone
      <3>1. view[v] = DOMAIN log
        BY <1>a, <2>1, <2>2 DEF AcrossRealms, LatestSeesAll, Latest, Claims, At
      <3> QED
        BY <1>a, <2>1, <3>1 DEF CommitsExist
    <2>7. OwedAnywhere'
      BY <1>a, <1>0, <2>1 DEF AcrossRealms, OwedAnywhere, At
    <2> QED
      BY <1>a, <2>3, <2>4, <2>5, <2>6, <2>7 DEF AcrossRealms
  <1>18. ASSUME NEW w \in Workers, Release(w) PROVE AcrossRealms'
    <2>1. OriginEpoch' = OriginEpoch
      BY <1>a, <1>18, ReturnIs DEF Release, OriginEpoch, realmVars
    <2> QED
      BY <1>a, <1>0, <1>18, <2>1, ReturnIs, AcrossUntouched
      DEF Release, Moves, Returns, OnlyOf, At, fileVars, realmVars
  <1>19. ASSUME NEW w \in Workers, Crash(w) PROVE AcrossRealms'
    <2>1. /\ \A x \in Workers \ {w} : seen'[x] = seen[x] /\ view'[x] = view[x]
          /\ UNCHANGED <<done, cell, OriginEpoch>> /\ seen'[w] = -1 /\ late' \subseteq late
      BY <1>a, <1>0, <1>19, CrashIs DEF OriginEpoch
    <2>2. /\ \A x \in Workers \ {w} : op'[x] = op[x]
          /\ \/ /\ op[w].pc = "running" /\ op'[w].pc = "wrote"
                /\ op[w].kind = "write" /\ op'[w].target = op[w].target
                /\ op'[w].origin = op[w].origin
             \/ PastStatement(w) /\ op'[w] = op[w] /\ log' = log
             \/ /\ ~PastStatement(w) /\ op'[w].pc = "idle" /\ op'[w].kind = "read"
                /\ op'[w].origin = 0 /\ log' = log
      BY <1>a, <1>19, CrashIs DEF OnlyOf, Moves, Returns, At
    <2>3. CellsFollowOrigin'
      <3>1. op'[w].origin <= OriginEpoch
        BY <1>a, <1>0, <2>2 DEF AcrossRealms, CellsFollowOrigin
      <3>2. \/ op'[w] = op[w]
            \/ /\ op[w].pc # "publishing"
               /\ op'[w].pc \notin {"publishing", "held", "published"}
        BY <2>2 DEF PastStatement
      <3> QED
        BY <1>a, <2>1, <2>2, <3>1, <3>2, CellsUntouched DEF AcrossRealms
    <2>4. WritesAimAtOrigin'
      BY <1>a, <1>0, <2>1, <2>2 DEF AcrossRealms, WritesAimAtOrigin, At
    <2>5. LatestSeesAll'
      <3>1. ~Latest(w, seen[w])' /\ ~At(w, "absorbed")'
        BY <1>a, <1>0, <2>1, <2>2 DEF Latest, At, PastStatement
      <3>2. ASSUME NEW v \in Workers \ {w}, NEW n \in Int, Latest(v, n)'
            PROVE  Latest(v, n) /\ log' = log
        BY <1>a, <2>1, <2>2, <3>2 DEF Latest, At, PastStatement
      <3> QED
        <4> SUFFICES ASSUME NEW v \in Workers
                     PROVE  /\ Latest(v, seen[v])' => view'[v] = DOMAIN log'
                            /\ At(v, "absorbed")' /\ Latest(v, op[v].target)' =>
                                  view'[v] = DOMAIN log'
          BY DEF LatestSeesAll
        <4>1. CASE v = w
          BY <3>1, <4>1
        <4>2. CASE v # w
          <5>1. /\ seen'[v] = seen[v] /\ op'[v] = op[v] /\ view'[v] = view[v]
                /\ seen[v] \in Int /\ op[v].target \in Int
            BY <1>0, <2>1, <2>2, <4>2
          <5>2. Latest(v, seen[v])' => Latest(v, seen[v]) /\ log' = log
            BY <3>2, <4>2, <5>1
          <5>3. Latest(v, op[v].target)' => Latest(v, op[v].target) /\ log' = log
            BY <3>2, <4>2, <5>1
          <5> QED
            BY <1>a, <5>1, <5>2, <5>3 DEF AcrossRealms, LatestSeesAll, At
        <4> QED
          BY <4>1, <4>2
    <2>6. ClaimsSeeDone'
      <3> SUFFICES ASSUME NEW v \in Workers, Claims(v, OriginEpoch)'
                   PROVE  done' \subseteq view'[v]
        BY DEF ClaimsSeeDone
      <3>1. v # w
        <4>1. ~(seen'[w] >= OriginEpoch')
          BY <1>0, <2>1
        <4>2. ~At(w, "absorbed")'
          BY <2>2 DEF At, PastStatement
        <4> QED
          BY <4>1, <4>2 DEF Claims
      <3>2. Claims(v, OriginEpoch)
        BY <2>1, <2>2, <3>1 DEF Claims, At
      <3> QED
        BY <1>a, <2>1, <3>1, <3>2 DEF AcrossRealms, ClaimsSeeDone
    <2>7. OwedAnywhere'
      BY <1>a, <1>0, <2>1, <2>2 DEF AcrossRealms, OwedAnywhere, At, PastStatement
    <2> QED
      BY <1>a, <2>3, <2>4, <2>5, <2>6, <2>7 DEF AcrossRealms
  <1>20. ASSUME NEW r \in Realms, RealmDies(r) PROVE AcrossRealms'
    BY <1>a, <1>20 DEF RealmDies, OnlyCrashes
  <1>21. CASE UNCHANGED vars
    <2>1. OriginEpoch' = OriginEpoch
      BY <1>a, <1>21 DEF vars, realmVars, OriginEpoch
    <2> QED
      BY <1>a, <1>21, <2>1 DEF vars, fileVars, realmVars, AcrossRealms, CellsFollowOrigin,
         WritesAimAtOrigin, LatestSeesAll, ClaimsSeeDone, OwedAnywhere, Latest, Claims, At
  <1> QED
    BY <1>1, <1>2, <1>3, <1>4, <1>5, <1>6, <1>7, <1>8, <1>9, <1>10, <1>11, <1>12, <1>13,
       <1>14, <1>15, <1>16, <1>17, <1>18, <1>19, <1>20, <1>21
    DEF Next

(* The invariant is inductive.                                              *)
LEMMA IInvStep == IInv /\ [Next]_vars => IInv'
  <1> SUFFICES ASSUME IInv, [Next]_vars PROVE IInv'
    OBVIOUS
  <1>1. Shape /\ WritersHoldTheLock /\ CommitsExist /\ MarkersFollowCell /\ WithinRealm
    BY DEF IInv
  <1>2. Shape' /\ WritersHoldTheLock' /\ CommitsExist' /\ MarkersFollowCell'
    BY <1>1, ShapeStep, LockStep, CommitsStep, MarkersStep
  <1>3. WithinRealm'
    BY <1>1, WithinStep
  <1>4. OnlyCrashes' => OnlyCrashes
    BY DEF OnlyCrashes, Next, vars
  <1>5. OnlyCrashes' => AcrossRealms'
    BY <1>4, AcrossStep
  <1> QED
    BY <1>2, <1>3, <1>5 DEF IInv

LEMMA IInvHolds == Spec => []IInv
  BY InitHolds, IInvStep, PTL DEF Spec

-----------------------------------------------------------------------------
(* Read-your-writes, for any number of tabs, workers and writes: the        *)
(* statement of an operation runs on a connection that has observed what    *)
(* was resolved when it was called, within a tab whatever goes wrong, and   *)
(* across tabs where only workers die.                                      *)
THEOREM ReadYourWrites == Spec => []Fresh
  <1>1. IInv => Fresh
    BY DEF IInv, Fresh, FreshWithinRealm, FreshAcrossRealms, WithinRealm, OwedHere,
           AcrossRealms, OwedAnywhere, At
  <1> QED
    BY <1>1, IInvHolds, PTL

(* No connection is taken for current that is not: with no write under way  *)
(* a worker that needs no barrier has every commit.                         *)
THEOREM SkippedBarriersAreNeedless == Spec => []MarkedIsCurrent
  <1>1. IInv => MarkedIsCurrent
    <2> SUFFICES ASSUME IInv, OnlyCrashes, NEW w \in Workers,
                        lock = Nobody,
                        ~NeedsBarrier(seen[w], RaisedTo(cell[RealmOf(w)], OriginEpoch))
                 PROVE  view[w] = DOMAIN log
      BY DEF MarkedIsCurrent, CurrentIsCurrent, OriginEpoch
    <2>1. /\ OriginEpoch \in Nat /\ seen[w] \in Nat \cup {-1}
          /\ RealmOf(w) \in Realms /\ cell[RealmOf(w)] \in Nat
      BY WorkersAreSomebody, EpochIs DEF IInv, Shape
    <2>2. seen[w] >= OriginEpoch
      BY <2>1 DEF NeedsBarrier, RaisedTo
    <2>3. \A x \in Workers : ~At(x, "publishing") /\ ~At(x, "wrote")
      BY WorkersAreSomebody DEF IInv, WritersHoldTheLock, PastStatement, At
    <2>4. Latest(w, seen[w])
      BY <2>2, <2>3 DEF Latest
    <2> QED
      BY <2>4 DEF IInv, AcrossRealms, LatestSeesAll
  <1> QED
    BY <1>1, IInvHolds, PTL

(* While its tabs live, the origin's epoch never goes back: the new marker  *)
(* is held before the old ones are released, and is the highest.            *)
THEOREM NeverDips == Spec => OriginNeverDips
  <1>1. IInv /\ IInv' /\ [Next]_vars =>
           [(\A w \in Workers : ~At(w, "gone") => op'[w].pc # "gone")
               => MaxEpochIn(markers') >= MaxEpochIn(markers)]_vars
    <2> SUFFICES ASSUME IInv, IInv', Next,
                        \A w \in Workers : ~At(w, "gone") => op'[w].pc # "gone"
                 PROVE  OriginEpoch' >= OriginEpoch
      BY DEF OriginEpoch
    <2>1. /\ OriginEpoch \in Nat
          /\ OriginEpoch = 0 \/ \E r \in Realms : OriginEpoch \in markers[r]
          /\ Shape /\ MarkersFollowCell
      BY EpochIs DEF IInv
    <2>2. /\ OriginEpoch' \in Nat
          /\ \A r \in Realms : \A m \in markers'[r] : m <= OriginEpoch'
      <3>1. PICK N \in Nat : \A r \in Realms : cell'[r] <= N
        BY DEF IInv, MarkersFollowCell
      <3>2. markers' \in [Realms -> SUBSET Nat] /\ cell' \in [Realms -> Nat]
        BY DEF IInv, Shape
      <3>3. \A r \in Realms : \A m \in markers'[r] : m <= N
        BY <3>1, <3>2 DEF IInv, MarkersFollowCell
      <3> QED
        BY <3>2, <3>3, MaxEpochIs DEF OriginEpoch
    <2>3. CASE UNCHANGED markers
      BY <2>1, <2>3 DEF OriginEpoch
    <2>4. CASE \A r \in Realms : \A m \in markers[r] : \E n \in markers'[r] : m <= n
      <3>1. CASE OriginEpoch = 0
        BY <2>2, <3>1
      <3>2. CASE \E r \in Realms : OriginEpoch \in markers[r]
        <4>1. PICK r \in Realms : \E n \in markers'[r] : OriginEpoch <= n
          BY <2>4, <3>2
        <4>2. PICK n \in markers'[r] : OriginEpoch <= n /\ n <= OriginEpoch'
          BY <2>2, <4>1
        <4>3. n \in Nat
          BY <4>2 DEF IInv, Shape
        <4> QED
          BY <2>1, <2>2, <4>2, <4>3
      <3> QED
        BY <2>1, <3>1, <3>2
    <2>5. ASSUME NEW w \in Workers, HoldMarker(w) PROVE OriginEpoch' >= OriginEpoch
      <3>1. /\ markers \in [Realms -> SUBSET Nat]
            /\ markers' = [markers EXCEPT ![RealmOf(w)] = @ \cup {op[w].next}]
        BY <2>1, <2>5 DEF Shape, HoldMarker, Publishing
      <3>2. \A r \in Realms : \A m \in markers[r] : m \in markers'[r] /\ m <= m
        BY <3>1
      <3> QED
        BY <2>4, <3>2
    <2>6. ASSUME NEW w \in Workers, SwapMarker(w) PROVE OriginEpoch' >= OriginEpoch
      <3>1. /\ markers \in [Realms -> SUBSET Nat]
            /\ markers' = [markers EXCEPT ![RealmOf(w)] = {op[w].next}]
            /\ \A m \in markers[RealmOf(w)] : m <= op[w].next
        BY <2>1, <2>6 DEF Shape, SwapMarker, At, MarkersFollowCell
      <3>2. ASSUME NEW r \in Realms, NEW m \in markers[r]
            PROVE  \E n \in markers'[r] : m <= n
        <4>1. CASE r = RealmOf(w)
          <5>1. op[w].next \in markers'[r] /\ m <= op[w].next
            BY <3>1, <4>1
          <5> QED
            BY <5>1
        <4>2. CASE r # RealmOf(w)
          <5>1. m \in markers'[r] /\ m \in Nat
            BY <3>1, <4>2
          <5> QED
            BY <5>1
        <4> QED
          BY <4>1, <4>2
      <3> QED
        BY <2>4, <3>2
    <2>7. ASSUME NEW r \in Realms, RealmDies(r) PROVE FALSE
      BY <2>7 DEF RealmDies, Idle, At
    <2> QED
      BY <2>3, <2>5, <2>6, <2>7
      DEF Next, Call, LockWrite, AskOrigin, AimBarrier, RunBarrier, EndBarrier,
          AbandonBarrier, GiveUp, Read, Write, FailWrite, LateCommit, AfterWrite,
          PublishFails, Resolve, Release, Crash, realmVars
  <1> QED
    BY <1>1, IInvHolds, PTL DEF Spec, OriginNeverDips

-----------------------------------------------------------------------------
(***************************************************************************)
(* Origin                                                                  *)
(***************************************************************************)


(* A worker that has been started and not ended.                            *)
Alive(c) == client[c].worker \notin {"none", "gone"}

HoldsConn(d) == deletion[d].at \in {"conn", "probe", "remove", "answer", "release"}

HoldsInit(d) == deletion[d].at \in {"probe", "remove", "answer"}

(* A worker is alive only while its page is open and its lock is asked for  *)
(* or held; where the VFS is exclusive it waits for the lock.               *)
WorkersHaveTheirLock ==
    \A c \in Clients :
        /\ client[c].page \in {"none", "ended", "gone"} => ~Alive(c)
        /\ client[c].page = "none" => client[c].conn = "none"
        /\ Alive(c) => \/ client[c].conn = "granted"
                       \/ env.connection = "shared" /\ client[c].conn = "asked"

(* bsq:conn: a deletion holds it alone, and so does an exclusive client.    *)
ConnIsHeldAlone ==
    /\ \A d \in Deletions : HoldsConn(d) =>
          /\ \A c \in Clients : client[c].conn # "granted"
          /\ \A e \in Deletions : HoldsConn(e) => d = e
    /\ env.connection = "exclusive" =>
          \A b, c \in Clients :
              client[b].conn = "granted" /\ client[c].conn = "granted" => b = c

(* bsq:init: nobody opens while a deletion has it.                          *)
InitIsHeldAlone ==
    \A d \in Deletions : HoldsInit(d) =>
        \A c \in Clients : client[c].worker # "opening"

(* How far a deletion is: what it went over is gone, unless jDelete failed. *)
RemovedSoFar ==
    \A d \in Deletions :
        /\ deletion[d].at \in {"none", "asked", "conn", "probe"} =>
              deletion[d].next = 1 /\ ~deletion[d].unseen
        /\ deletion[d].at = "remove" => deletion[d].next \in {1, 2}
        /\ env.storage = "folder" => ~deletion[d].unseen
        /\ deletion[d].at = "remove" /\ deletion[d].next = 2 =>
              \/ RemovalOrder(env.storage)[1] \notin files
              \/ deletion[d].unseen

OriginLockInv == WorkersHaveTheirLock /\ ConnIsHeldAlone /\ InitIsHeldAlone

OriginInv == OriginTypeOK /\ OriginLockInv /\ RemovedSoFar /\ RetryFindsTheRest

-----------------------------------------------------------------------------

(* The records of a deletion that is over, and of one that goes on.         *)
LEMMA OverType ==
    ASSUME NEW at \in {"none", "done", "dead"}
    PROVE  Over(at) \in DeletionState
  BY DEF Over, DeletionState

LEMMA AdvanceType ==
    ASSUME NEW r \in DeletionState, r.next \in {1, 2}
    PROVE  Advance(r) \in DeletionState
  <1>1. Len(RemovalOrder(env.storage)) = 2 /\ r.next + 1 \in 1 .. 3
    BY DEF RemovalOrder
  <1>2. [r EXCEPT !.at = "answer", !.next = r.next + 1, !.told = "deleted"]
            \in DeletionState
    BY <1>1 DEF DeletionState
  <1> QED
    BY <1>1, <1>2 DEF Advance, DeletionState

(* The locks make the property: a deletion that removes holds both.         *)
LEMMA LocksSuffice ==
    ASSUME OriginInv
    PROVE  ConnectedIsNeverDeleted
  BY DEF OriginInv, OriginLockInv, OriginTypeOK, WorkersHaveTheirLock, ConnIsHeldAlone, InitIsHeldAlone,
         ConnectedIsNeverDeleted, Removing, Alive, HoldsConn, HoldsInit

(* The state is well typed initially, and no lock is held.                  *)
LEMMA OriginInitHolds == OriginInit => OriginInv
  <1> SUFFICES ASSUME OriginInit PROVE OriginInv
    OBVIOUS
  <1> USE OriginAssumption
  <1>1. /\ env \in VFSs /\ held \in BOOLEAN /\ files \in SUBSET Parts
        /\ "sidecar" \in files => "main" \in files
    BY DEF OriginInit, Parts
  <1>2. /\ client = [c \in Clients |->
                       [page |-> "none", conn |-> "none", worker |-> "none"]]
        /\ \A c \in Clients : /\ client[c].page = "none" /\ client[c].conn = "none"
                              /\ client[c].worker = "none"
    BY DEF OriginInit
  <1>3. /\ deletion = [d \in Deletions |->
                        [at |-> "none", next |-> 1, told |-> "none", unseen |-> FALSE]]
        /\ \A d \in Deletions : /\ deletion[d].at = "none" /\ deletion[d].next = 1
                                /\ deletion[d].unseen = FALSE
    BY DEF OriginInit, Over
  <1>4. OriginTypeOK
    BY <1>1, <1>2, <1>3 DEF OriginTypeOK, ClientState, DeletionState
  <1>5. OriginLockInv
    BY <1>2, <1>3 DEF OriginLockInv, WorkersHaveTheirLock, ConnIsHeldAlone, InitIsHeldAlone,
                      Alive, HoldsConn, HoldsInit
  <1> QED
    BY <1>1, <1>3, <1>4, <1>5 DEF OriginInv, RemovedSoFar, RetryFindsTheRest

(* Every step keeps the types. A removal goes past the last part never.     *)
LEMMA OriginTypeStep ==
    ASSUME OriginTypeOK, RemovedSoFar, [OriginNext]_originVars
    PROVE  OriginTypeOK'
  <1> USE DEF OriginTypeOK
  <1>0. client \in [Clients -> ClientState] /\ deletion \in [Deletions -> DeletionState]
    OBVIOUS
  <1>1. ASSUME NEW c \in Clients, Construct(c) PROVE OriginTypeOK'
    BY <1>1 DEF Construct, ClientState
  <1>2. ASSUME NEW c \in Clients, GrantShared(c) PROVE OriginTypeOK'
    BY <1>2 DEF GrantShared, ClientState
  <1>3. ASSUME NEW c \in Clients, AnswerExclusive(c) PROVE OriginTypeOK'
    <2>1. \/ client' = [client EXCEPT ![c].conn = "granted", ![c].worker = "booting"]
          \/ client' = [client EXCEPT ![c].conn = "granted"]
          \/ client' = [client EXCEPT ![c].conn = "refused"]
      BY <1>3 DEF AnswerExclusive, ClientState
    <2>2. client' \in [Clients -> ClientState]
      <3> HIDE DEF OriginTypeOK
      <3> QED
        BY <1>0, <2>1 DEF ClientState
    <2> QED
      BY <1>3, <2>2 DEF AnswerExclusive
  <1>4. ASSUME NEW c \in Clients, Boot(c) PROVE OriginTypeOK'
    BY <1>4 DEF Boot, ClientState
  <1>5. ASSUME NEW c \in Clients, EnterOpen(c) PROVE OriginTypeOK'
    BY <1>5 DEF EnterOpen, ClientState
  <1>6. ASSUME NEW c \in Clients, Open(c) PROVE OriginTypeOK'
    BY <1>6 DEF Open, Parts, ClientState
  <1>7. ASSUME NEW c \in Clients, Serve(c) PROVE OriginTypeOK'
    BY <1>7 DEF Serve, Parts, ClientState
  <1>8. ASSUME NEW c \in Clients, Close(c) PROVE OriginTypeOK'
    BY <1>8 DEF Close, ClientState
  <1>9. ASSUME NEW c \in Clients, EndWorkers(c) PROVE OriginTypeOK'
    BY ZenonT(60), <1>9 DEF EndWorkers, MayLeaveHeld, ClientState
  <1>10. ASSUME NEW c \in Clients, CloseReleases(c) PROVE OriginTypeOK'
    <2>1. [client[c] EXCEPT !.page = "gone", !.worker = "gone", !.conn = "released"] \in ClientState
      BY DEF ClientState
    <2>2. client' = [client EXCEPT ![c] = [client[c] EXCEPT !.page = "gone", !.worker = "gone", !.conn = "released"]]
      BY <1>10 DEF CloseReleases
    <2> QED
      BY <1>10, <2>1, <2>2 DEF CloseReleases
  <1>11. ASSUME NEW c \in Clients, ClientTabDies(c) PROVE OriginTypeOK'
    BY <1>11 DEF ClientTabDies, MayLeaveHeld, ClientState
  <1>12. ASSUME NEW d \in Deletions, CallDelete(d) PROVE OriginTypeOK'
    BY <1>12 DEF CallDelete, DeletionState
  <1>13. ASSUME NEW d \in Deletions, TakeConn(d) PROVE OriginTypeOK'
    <2>1. [deletion[d] EXCEPT !.at = "conn"] \in DeletionState
      BY DEF DeletionState
    <2> QED
      BY <1>13, <2>1, OverType DEF TakeConn
  <1>14. ASSUME NEW d \in Deletions, TakeInit(d) PROVE OriginTypeOK'
    <2>1. /\ [deletion[d] EXCEPT !.at = "probe"] \in DeletionState
          /\ [deletion[d] EXCEPT !.at = "release", !.told = "busy"] \in DeletionState
      BY DEF DeletionState
    <2> QED
      BY <1>14, <2>1 DEF TakeInit
  <1>15. ASSUME NEW d \in Deletions, Probe(d) PROVE OriginTypeOK'
    BY ZenonT(60), <1>15 DEF Probe, DeletionState
  <1>16. ASSUME NEW d \in Deletions, Remove(d) PROVE OriginTypeOK'
    <2>1. Advance(deletion[d]) \in DeletionState
      BY <1>16, AdvanceType DEF Remove, RemovedSoFar
    <2> QED
      BY <1>16, <2>1 DEF Remove
  <1>17. ASSUME NEW d \in Deletions, RemoveFails(d) PROVE OriginTypeOK'
    BY ZenonT(60), <1>17 DEF RemoveFails, MayLeaveHeld, DeletionState
  <1>18. ASSUME NEW d \in Deletions, JDeleteFails(d) PROVE OriginTypeOK'
    <2>1. Advance(deletion[d]) \in DeletionState
      BY <1>18, AdvanceType DEF JDeleteFails, RemovedSoFar
    <2>2. [Advance(deletion[d]) EXCEPT !.unseen = TRUE] \in DeletionState
      BY <2>1 DEF DeletionState
    <2> QED
      BY <1>18, <2>2 DEF JDeleteFails
  <1>19. ASSUME NEW d \in Deletions, Timeout(d) PROVE OriginTypeOK'
    BY ZenonT(60), <1>19 DEF Timeout, MayLeaveHeld, DeletionState
  <1>20. ASSUME NEW d \in Deletions, Settle(d) PROVE OriginTypeOK'
    BY <1>20 DEF Settle, DeletionState
  <1>21. ASSUME NEW d \in Deletions, ReleaseConn(d) PROVE OriginTypeOK'
    BY <1>21, OverType DEF ReleaseConn
  <1>22. ASSUME NEW d \in Deletions, DeletionTabDies(d) PROVE OriginTypeOK'
    BY <1>22, OverType DEF DeletionTabDies, MayLeaveHeld
  <1>23. CASE LetGo
    BY <1>23 DEF LetGo
  <1>24. CASE UNCHANGED originVars
    BY <1>24 DEF originVars
  <1> QED
    BY <1>1, <1>2, <1>3, <1>4, <1>5, <1>6, <1>7, <1>8, <1>9, <1>10, <1>11, <1>12, <1>13, <1>14, <1>15, <1>16, <1>17, <1>18, <1>19, <1>20, <1>21, <1>22, <1>23, <1>24
    DEF OriginNext, Runs, Deletes, Removes

-----------------------------------------------------------------------------

(* A name nobody holds.                                                     *)
LEMMA NobodyHolds ==
    /\ ConnHolders = {} => /\ \A c \in Clients : client[c].conn # "granted"
                          /\ \A d \in Deletions : ~HoldsConn(d)
    /\ InitHolders = {} => /\ \A c \in Clients : client[c].worker # "opening"
                          /\ \A d \in Deletions : ~HoldsInit(d)
    /\ ~ConnAlone => \A d \in Deletions : ~HoldsConn(d)
  BY DEF ConnHolders, InitHolders, ConnAlone, HoldsConn, HoldsInit

(* One client changes: its worker has the lock it needs, it takes bsq:conn  *)
(* only from nobody who holds it alone, and bsq:init only from nobody.      *)
LEMMA ClientKeepsLocks ==
    ASSUME OriginLockInv, NEW c \in Clients, UNCHANGED <<env, deletion>>,
           \A b \in Clients \ {c} : client'[b] = client[b],
           client'[c].page \in {"none", "ended", "gone"} => ~Alive(c)',
           client'[c].page = "none" => client'[c].conn = "none",
           Alive(c)' => \/ client'[c].conn = "granted"
                        \/ env.connection = "shared" /\ client'[c].conn = "asked",
           client'[c].conn = "granted" =>
               \/ client[c].conn = "granted"
               \/ ConnHolders = {}
               \/ env.connection = "shared" /\ ~ConnAlone,
           client'[c].worker = "opening" =>
               client[c].worker = "opening" \/ InitHolders = {}
    PROVE  OriginLockInv'
  <1>1. WorkersHaveTheirLock'
    BY DEF OriginLockInv, WorkersHaveTheirLock, Alive
  <1>2. ConnIsHeldAlone'
    BY NobodyHolds DEF OriginLockInv, ConnIsHeldAlone, HoldsConn
  <1>3. InitIsHeldAlone'
    BY NobodyHolds DEF OriginLockInv, InitIsHeldAlone, HoldsInit
  <1> QED
    BY <1>1, <1>2, <1>3 DEF OriginLockInv

(* One deletion changes: it takes each name only from nobody.               *)
LEMMA DeletionKeepsLocks ==
    ASSUME OriginLockInv, NEW d \in Deletions, UNCHANGED <<env, client>>,
           \A e \in Deletions \ {d} : deletion'[e] = deletion[e],
           HoldsConn(d)' => HoldsConn(d) \/ ConnHolders = {},
           HoldsInit(d)' => HoldsInit(d) \/ InitHolders = {}
    PROVE  OriginLockInv'
  <1>1. WorkersHaveTheirLock'
    BY DEF OriginLockInv, WorkersHaveTheirLock, Alive
  <1>2. ConnIsHeldAlone'
    BY NobodyHolds DEF OriginLockInv, ConnIsHeldAlone, HoldsConn
  <1>3. InitIsHeldAlone'
    BY NobodyHolds DEF OriginLockInv, InitIsHeldAlone, HoldsInit
  <1> QED
    BY <1>1, <1>2, <1>3 DEF OriginLockInv

(* Every step keeps the locks to those who may hold them.                   *)
LEMMA OriginLockStep ==
    ASSUME OriginTypeOK, OriginLockInv, RemovedSoFar, [OriginNext]_originVars
    PROVE  OriginLockInv'
  <1>0. /\ client \in [Clients -> ClientState] /\ deletion \in [Deletions -> DeletionState]
        /\ env \in VFSs /\ env.connection \in {"shared", "exclusive"}
    BY OriginAssumption DEF OriginTypeOK
  <1>a. WorkersHaveTheirLock
    BY DEF OriginLockInv
  <1>1. ASSUME NEW c \in Clients, Construct(c) PROVE OriginLockInv'
    BY <1>0, <1>a, <1>1, ClientKeepsLocks
    DEF Construct, ClientState, WorkersHaveTheirLock, Alive
  <1>2. ASSUME NEW c \in Clients, GrantShared(c) PROVE OriginLockInv'
    BY <1>0, <1>a, <1>2, ClientKeepsLocks
    DEF GrantShared, ClientState, WorkersHaveTheirLock, Alive
  <1>3. ASSUME NEW c \in Clients, AnswerExclusive(c) PROVE OriginLockInv'
    BY ZenonT(60), <1>0, <1>a, <1>3, ClientKeepsLocks
    DEF AnswerExclusive, ClientState, WorkersHaveTheirLock, Alive
  <1>4. ASSUME NEW c \in Clients, Boot(c) PROVE OriginLockInv'
    BY <1>0, <1>a, <1>4, ClientKeepsLocks
    DEF Boot, ClientState, WorkersHaveTheirLock, Alive
  <1>5. ASSUME NEW c \in Clients, EnterOpen(c) PROVE OriginLockInv'
    BY <1>0, <1>a, <1>5, ClientKeepsLocks
    DEF EnterOpen, ClientState, WorkersHaveTheirLock, Alive
  <1>6. ASSUME NEW c \in Clients, Open(c) PROVE OriginLockInv'
    BY <1>0, <1>a, <1>6, ClientKeepsLocks
    DEF Open, ClientState, WorkersHaveTheirLock, Alive
  <1>7. ASSUME NEW c \in Clients, Close(c) PROVE OriginLockInv'
    BY <1>0, <1>a, <1>7, ClientKeepsLocks
    DEF Close, ClientState, WorkersHaveTheirLock, Alive
  <1>8. ASSUME NEW c \in Clients, EndWorkers(c) PROVE OriginLockInv'
    BY <1>0, <1>a, <1>8, ClientKeepsLocks
    DEF EndWorkers, ClientState, WorkersHaveTheirLock, Alive
  <1>9. ASSUME NEW c \in Clients, CloseReleases(c) PROVE OriginLockInv'
    BY <1>0, <1>a, <1>9, ClientKeepsLocks
    DEF CloseReleases, ClientState, WorkersHaveTheirLock, Alive
  <1>10. ASSUME NEW c \in Clients, ClientTabDies(c) PROVE OriginLockInv'
    BY <1>0, <1>a, <1>10, ClientKeepsLocks
    DEF ClientTabDies, ClientState, WorkersHaveTheirLock, Alive
  <1>11. ASSUME NEW c \in Clients, Serve(c) PROVE OriginLockInv'
    BY <1>11, ClientKeepsLocks, <1>0, <1>a DEF Serve, WorkersHaveTheirLock, Alive
  <1>12. ASSUME NEW d \in Deletions, CallDelete(d) PROVE OriginLockInv'
    BY <1>0, <1>12, DeletionKeepsLocks
    DEF CallDelete, DeletionState, HoldsConn, HoldsInit
  <1>13. ASSUME NEW d \in Deletions, TakeConn(d) PROVE OriginLockInv'
    BY <1>0, <1>13, DeletionKeepsLocks
    DEF TakeConn, DeletionState, HoldsConn, HoldsInit, ConnAvailable, Over
  <1>14. ASSUME NEW d \in Deletions, TakeInit(d) PROVE OriginLockInv'
    BY <1>0, <1>14, DeletionKeepsLocks
    DEF TakeInit, DeletionState, HoldsConn, HoldsInit, InitAvailable
  <1>15. ASSUME NEW d \in Deletions, Probe(d) PROVE OriginLockInv'
    BY <1>0, <1>15, DeletionKeepsLocks
    DEF Probe, DeletionState, HoldsConn, HoldsInit
  <1>16. ASSUME NEW d \in Deletions, Remove(d) PROVE OriginLockInv'
    BY <1>0, <1>16, DeletionKeepsLocks
    DEF Remove, DeletionState, HoldsConn, HoldsInit, Advance
  <1>17. ASSUME NEW d \in Deletions, RemoveFails(d) PROVE OriginLockInv'
    BY <1>0, <1>17, DeletionKeepsLocks
    DEF RemoveFails, DeletionState, HoldsConn, HoldsInit
  <1>18. ASSUME NEW d \in Deletions, JDeleteFails(d) PROVE OriginLockInv'
    BY <1>0, <1>18, DeletionKeepsLocks
    DEF JDeleteFails, DeletionState, HoldsConn, HoldsInit, Advance
  <1>19. ASSUME NEW d \in Deletions, Timeout(d) PROVE OriginLockInv'
    BY <1>0, <1>19, DeletionKeepsLocks
    DEF Timeout, DeletionState, HoldsConn, HoldsInit
  <1>20. ASSUME NEW d \in Deletions, Settle(d) PROVE OriginLockInv'
    BY <1>0, <1>20, DeletionKeepsLocks
    DEF Settle, DeletionState, HoldsConn, HoldsInit
  <1>21. ASSUME NEW d \in Deletions, ReleaseConn(d) PROVE OriginLockInv'
    BY <1>0, <1>21, DeletionKeepsLocks
    DEF ReleaseConn, DeletionState, HoldsConn, HoldsInit, Over
  <1>22. ASSUME NEW d \in Deletions, DeletionTabDies(d) PROVE OriginLockInv'
    BY <1>0, <1>22, DeletionKeepsLocks
    DEF DeletionTabDies, DeletionState, HoldsConn, HoldsInit, Over
  <1>23. CASE LetGo \/ UNCHANGED originVars
    BY <1>23 DEF LetGo, originVars, OriginLockInv, WorkersHaveTheirLock, ConnIsHeldAlone,
                InitIsHeldAlone, Alive, HoldsConn, HoldsInit
  <1> QED
    BY <1>1, <1>2, <1>3, <1>4, <1>5, <1>6, <1>7, <1>8, <1>9, <1>10, <1>11, <1>12, <1>13, <1>14, <1>15, <1>16, <1>17, <1>18, <1>19, <1>20, <1>21, <1>22, <1>23
    DEF OriginNext, Runs, Deletes, Removes

-----------------------------------------------------------------------------

(* While a deletion removes, no client creates a file.                      *)
LEMMA OnlyDeletionsTouch ==
    ASSUME OriginInv, NEW c \in Clients, Open(c) \/ Serve(c)
    PROVE  \A d \in Deletions : deletion[d].at # "remove"
  BY DEF OriginInv, OriginLockInv, ConnIsHeldAlone, InitIsHeldAlone, HoldsConn, HoldsInit, Open, Serve

(* Two deletions never remove at once.                                      *)
LEMMA OneRemoves ==
    ASSUME OriginInv, NEW d \in Deletions, NEW e \in Deletions,
           deletion[d].at = "remove", deletion[e].at = "remove"
    PROVE  d = e
  BY DEF OriginInv, OriginLockInv, ConnIsHeldAlone, HoldsConn

(* What a removal leaves of the files.                                      *)
LEMMA RemovalOrderIs ==
    /\ RemovalOrder("folder")[1] = "sidecar" /\ RemovalOrder("folder")[2] = "main"
    /\ env.storage # "folder" => /\ RemovalOrder(env.storage)[1] = "main"
                                 /\ RemovalOrder(env.storage)[2] = "sidecar"
    /\ Len(RemovalOrder(env.storage)) = 2
  BY DEF RemovalOrder

(* A removal goes on to the second part, and answers after it.              *)
LEMMA AdvanceIs ==
    ASSUME NEW r \in DeletionState
    PROVE  /\ r.next = 1 => /\ Advance(r).next = 2 /\ Advance(r).at = r.at
                            /\ Advance(r).told = r.told
           /\ r.next = 2 => Advance(r).at = "answer" /\ Advance(r).told = "deleted"
           /\ Advance(r).unseen = r.unseen
  <1>1. CASE r.next = 1
    <2>1. Advance(r) = [r EXCEPT !.next = 2]
      BY <1>1, RemovalOrderIs DEF Advance
    <2>2. Advance(r).unseen = r.unseen
      BY <2>1, Zenon DEF DeletionState
    <2>3. Advance(r).next = 2 /\ Advance(r).at = r.at /\ Advance(r).told = r.told
      BY <2>1 DEF DeletionState
    <2> QED
      BY <1>1, <2>2, <2>3
  <1>2. CASE r.next = 2
    <2>1. Advance(r) = [r EXCEPT !.at = "answer", !.next = 3, !.told = "deleted"]
      BY <1>2, RemovalOrderIs DEF Advance
    <2>2. Advance(r).unseen = r.unseen
      BY <2>1, Zenon DEF DeletionState
    <2>3. Advance(r).at = "answer" /\ Advance(r).told = "deleted"
      BY <2>1 DEF DeletionState
    <2> QED
      BY <1>2, <2>2, <2>3
  <1>3. CASE r.next \notin {1, 2}
    BY <1>3, RemovalOrderIs DEF Advance, DeletionState
  <1> QED
    BY <1>1, <1>2, <1>3

(* A deletion that has found the main file, or is done with the files,      *)
(* keeps what is known of them.                                             *)
LEMMA FilesUntouched ==
    ASSUME OriginInv, NEW d \in Deletions, UNCHANGED <<env, files>>,
           \A e \in Deletions \ {d} : deletion'[e] = deletion[e],
           deletion'[d].next = deletion[d].next,
           deletion'[d].unseen = deletion[d].unseen,
           deletion'[d].at \notin {"none", "asked", "conn", "probe"},
           deletion'[d].at = "remove" => deletion[d].at = "probe"
    PROVE  RemovedSoFar' /\ RetryFindsTheRest'
  BY DEF OriginInv, RemovedSoFar, RetryFindsTheRest

(* Every step keeps what a deletion knows of the files, and keeps the main  *)
(* file of a folder as long as its sidecar.                                 *)
LEMMA FilesStep ==
    ASSUME OriginInv, [OriginNext]_originVars
    PROVE  RemovedSoFar' /\ RetryFindsTheRest'
  <1>0. /\ deletion \in [Deletions -> DeletionState]
        /\ files \subseteq {"main", "sidecar"}
        /\ RemovedSoFar /\ RetryFindsTheRest
    BY DEF OriginInv, OriginTypeOK, Parts
  <1>1. ASSUME NEW c \in Clients, Open(c) \/ Serve(c)
        PROVE  RemovedSoFar' /\ RetryFindsTheRest'
    <2>1. \A d \in Deletions : deletion[d].at # "remove"
      BY <1>1, OnlyDeletionsTouch
    <2> QED
      BY <1>0, <1>1, <2>1 DEF Open, Serve, Parts, RemovedSoFar, RetryFindsTheRest
  <1>2. ASSUME UNCHANGED <<env, deletion, files>>
        PROVE  RemovedSoFar' /\ RetryFindsTheRest'
    BY <1>0, <1>2 DEF RemovedSoFar, RetryFindsTheRest
  <1>3. ASSUME NEW d \in Deletions, CallDelete(d)
        PROVE  RemovedSoFar' /\ RetryFindsTheRest'
    BY <1>0, <1>3 DEF CallDelete, DeletionState, RemovedSoFar, RetryFindsTheRest
  <1>4. ASSUME NEW d \in Deletions, TakeConn(d)
        PROVE  RemovedSoFar' /\ RetryFindsTheRest'
    BY <1>0, <1>4 DEF TakeConn, DeletionState, RemovedSoFar, RetryFindsTheRest, Over
  <1>5. ASSUME NEW d \in Deletions, TakeInit(d)
        PROVE  RemovedSoFar' /\ RetryFindsTheRest'
    BY <1>0, <1>5 DEF TakeInit, DeletionState, RemovedSoFar, RetryFindsTheRest
  <1>6. ASSUME NEW d \in Deletions, Probe(d)
        PROVE  RemovedSoFar' /\ RetryFindsTheRest'
    <2>1. /\ \A e \in Deletions \ {d} : deletion'[e] = deletion[e]
          /\ deletion'[d].at \in {"remove", "answer"}
          /\ deletion'[d].at = "remove" => deletion[d].at = "probe"
          /\ deletion'[d].next = deletion[d].next /\ deletion'[d].unseen = deletion[d].unseen
      BY <1>0, <1>6 DEF Probe, DeletionState
    <2> QED
      BY <1>6, <2>1, FilesUntouched DEF Probe
  <1>7. ASSUME NEW d \in Deletions, RemoveFails(d)
        PROVE  RemovedSoFar' /\ RetryFindsTheRest'
    <2>1. /\ \A e \in Deletions \ {d} : deletion'[e] = deletion[e]
          /\ deletion'[d].at \in {"remove", "answer"}
          /\ deletion'[d].at = "remove" => deletion[d].at = "probe"
          /\ deletion'[d].next = deletion[d].next /\ deletion'[d].unseen = deletion[d].unseen
      BY <1>0, <1>7 DEF RemoveFails, DeletionState
    <2> QED
      BY <1>7, <2>1, FilesUntouched DEF RemoveFails
  <1>8. ASSUME NEW d \in Deletions, Timeout(d)
        PROVE  RemovedSoFar' /\ RetryFindsTheRest'
    <2>1. /\ \A e \in Deletions \ {d} : deletion'[e] = deletion[e]
          /\ deletion'[d].at \in {"remove", "answer"}
          /\ deletion'[d].at = "remove" => deletion[d].at = "probe"
          /\ deletion'[d].next = deletion[d].next /\ deletion'[d].unseen = deletion[d].unseen
      BY <1>0, <1>8 DEF Timeout, DeletionState
    <2> QED
      BY <1>8, <2>1, FilesUntouched DEF Timeout
  <1>9. ASSUME NEW d \in Deletions, Settle(d)
        PROVE  RemovedSoFar' /\ RetryFindsTheRest'
    BY <1>0, <1>9 DEF Settle, DeletionState, RemovedSoFar, RetryFindsTheRest
  <1>10. ASSUME NEW d \in Deletions, ReleaseConn(d)
        PROVE  RemovedSoFar' /\ RetryFindsTheRest'
    BY <1>0, <1>10 DEF ReleaseConn, DeletionState, RemovedSoFar, RetryFindsTheRest, Over
  <1>11. ASSUME NEW d \in Deletions, DeletionTabDies(d)
        PROVE  RemovedSoFar' /\ RetryFindsTheRest'
    BY <1>0, <1>11 DEF DeletionTabDies, DeletionState, RemovedSoFar, RetryFindsTheRest, Over
  <1>12. ASSUME NEW d \in Deletions, Remove(d)
        PROVE  RemovedSoFar' /\ RetryFindsTheRest'
    <2>1. /\ deletion[d].at = "remove" /\ deletion[d].next \in {1, 2}
          /\ \A e \in Deletions \ {d} : deletion[e].at # "remove"
          /\ \A e \in Deletions \ {d} : deletion'[e] = deletion[e]
          /\ deletion'[d] = Advance(deletion[d]) /\ deletion'[d].unseen = deletion[d].unseen
          /\ env' = env /\ files' = files \ {RemovalOrder(env.storage)[deletion[d].next]}
      BY <1>0, <1>12, OneRemoves DEF Remove, Advance, DeletionState, RemovedSoFar
    <2>2. CASE deletion[d].next = 1
      <3>1. deletion'[d].next = 2 /\ deletion'[d].at = "remove"
        BY <1>0, <2>1, <2>2, AdvanceIs
      <3>2. RemovedSoFar'
        BY <1>0, <2>1, <2>2, <3>1 DEF RemovedSoFar
      <3>3. RetryFindsTheRest'
        BY <1>0, <2>1, <2>2, RemovalOrderIs DEF RetryFindsTheRest
      <3> QED
        BY <3>2, <3>3
    <2>3. CASE deletion[d].next = 2
      <3>1. deletion'[d].at = "answer"
        BY <1>0, <2>1, <2>3, AdvanceIs
      <3>2. RemovedSoFar'
        BY <1>0, <2>1, <3>1 DEF RemovedSoFar
      <3>3. env.storage = "folder" => "sidecar" \notin files
        BY <1>0, <2>1, <2>3, RemovalOrderIs DEF RemovedSoFar
      <3>4. RetryFindsTheRest'
        BY <1>0, <2>1, <3>3 DEF RetryFindsTheRest
      <3> QED
        BY <3>2, <3>4
    <2> QED
      BY <2>1, <2>2, <2>3
  <1>13. ASSUME NEW d \in Deletions, JDeleteFails(d)
        PROVE  RemovedSoFar' /\ RetryFindsTheRest'
    <2>1. /\ \A e \in Deletions \ {d} : deletion'[e] = deletion[e]
          /\ deletion'[d] = [Advance(deletion[d]) EXCEPT !.unseen = TRUE]
          /\ deletion[d].at = "remove" /\ deletion[d].next \in {1, 2}
          /\ env' = env /\ files' = files /\ env.storage # "folder"
      BY <1>0, <1>13 DEF JDeleteFails, DeletionState, RemovedSoFar
    <2>2. Advance(deletion[d]) \in DeletionState
      BY <1>0, <2>1, AdvanceType
    <2>3. /\ deletion'[d].unseen
          /\ deletion'[d].at = Advance(deletion[d]).at
          /\ deletion'[d].next = Advance(deletion[d]).next
      BY <2>1, <2>2 DEF DeletionState
    <2>4. /\ Advance(deletion[d]).at \in {"remove", "answer"}
          /\ Advance(deletion[d]).at = "remove" => Advance(deletion[d]).next \in {1, 2}
      <3>1. deletion[d] \in DeletionState
        BY <1>0
      <3> QED
        BY <2>1, <3>1, AdvanceIs
    <2> QED
      BY ZenonT(60), <1>0, <2>1, <2>3, <2>4 DEF RemovedSoFar, RetryFindsTheRest
  <1> QED
    BY <1>1, <1>2, <1>3, <1>4, <1>5, <1>6, <1>7, <1>8, <1>9, <1>10, <1>11, <1>12, <1>13
    DEF OriginNext, Runs, Deletes, Removes, originVars, Construct, GrantShared, AnswerExclusive, Boot,
        EnterOpen, Close, EndWorkers, CloseReleases, ClientTabDies, LetGo

LEMMA OriginInvStep == OriginInv /\ [OriginNext]_originVars => OriginInv'
  BY OriginTypeStep, OriginLockStep, FilesStep DEF OriginInv

(* Only the removal that goes over the last part answers "deleted".         *)
LEMMA ToldDeleted ==
    ASSUME OriginInv, [OriginNext]_originVars, NEW d \in Deletions,
           deletion'[d].told = "deleted", deletion[d].told # "deleted"
    PROVE  /\ deletion[d].at = "remove" /\ deletion[d].next = 2
           /\ \/ Remove(d)
              \/ JDeleteFails(d)
  <1>0. /\ deletion \in [Deletions -> DeletionState]
        /\ deletion[d].at = "remove" => deletion[d].next \in {1, 2}
    BY DEF OriginInv, OriginTypeOK, RemovedSoFar
  <1>a. deletion' # deletion
    OBVIOUS
  <1>1. PICK e \in Deletions :
            CallDelete(e) \/ Deletes(e) \/ Removes(e) \/ DeletionTabDies(e)
    BY <1>a DEF OriginNext, Runs, originVars, Construct, GrantShared, AnswerExclusive, Boot,
        EnterOpen, Open, Serve, Close, EndWorkers, CloseReleases, ClientTabDies, LetGo
  <1>2. CASE Remove(e)
    <2>1. d = e /\ deletion'[d] = Advance(deletion[d]) /\ deletion[d].at = "remove"
      BY <1>0, <1>2 DEF Remove
    <2> QED
      BY <1>0, <1>2, <2>1, AdvanceIs
  <1>3. CASE JDeleteFails(e)
    <2>1. d = e /\ deletion[d].at = "remove"
          /\ deletion'[d] = [Advance(deletion[d]) EXCEPT !.unseen = TRUE]
      BY <1>0, <1>3 DEF JDeleteFails
    <2>2. Advance(deletion[d]) \in DeletionState
      BY <1>0, <2>1, AdvanceType
    <2>3. deletion'[d].told = Advance(deletion[d]).told
      BY <2>1, <2>2 DEF DeletionState
    <2> QED
      BY <1>0, <1>3, <2>1, <2>3, AdvanceIs
  <1>4. CASE CallDelete(e)
    BY <1>0, <1>4 DEF CallDelete, DeletionState
  <1>5. CASE TakeConn(e)
    BY <1>0, <1>5 DEF TakeConn, DeletionState, Over
  <1>6. CASE TakeInit(e)
    BY <1>0, <1>6 DEF TakeInit, DeletionState
  <1>7. CASE Timeout(e)
    BY <1>0, <1>7 DEF Timeout, DeletionState
  <1>8. CASE Settle(e)
    BY <1>0, <1>8 DEF Settle, DeletionState
  <1>9. CASE ReleaseConn(e)
    BY <1>0, <1>9 DEF ReleaseConn, DeletionState, Over
  <1>10. CASE Probe(e)
    BY <1>0, <1>10 DEF Probe, DeletionState
  <1>11. CASE RemoveFails(e)
    BY <1>0, <1>11 DEF RemoveFails, DeletionState
  <1>12. CASE DeletionTabDies(e)
    BY <1>0, <1>12 DEF DeletionTabDies, DeletionState, Over
  <1> QED
    BY <1>1, <1>2, <1>3, <1>4, <1>5, <1>6, <1>7, <1>8, <1>9, <1>10, <1>11, <1>12
    DEF Deletes, Removes

(* With the first part gone, and nobody else at the files, the second       *)
(* leaves nothing.                                                          *)
LEMMA LastPartLeavesNothing ==
    ASSUME OriginInv, NEW d \in Deletions, Remove(d), deletion[d].next = 2
    PROVE  files' = {} \/ deletion'[d].unseen
  <1>0. /\ deletion \in [Deletions -> DeletionState]
        /\ files \subseteq {"main", "sidecar"}
        /\ deletion[d].at = "remove"
        /\ files' = files \ {RemovalOrder(env.storage)[2]}
        /\ RemovalOrder(env.storage)[1] \notin files \/ deletion[d].unseen
    BY DEF OriginInv, OriginTypeOK, Parts, RemovedSoFar, Remove
  <1>1. CASE deletion[d].unseen
    <2>1. deletion'[d] = Advance(deletion[d]) /\ deletion[d] \in DeletionState
      BY <1>0 DEF Remove
    <2>2. Advance(deletion[d]).unseen = deletion[d].unseen
      BY <2>1, AdvanceIs
    <2> QED
      BY <1>1, <2>1, <2>2
  <1>2. CASE RemovalOrder(env.storage)[1] \notin files
    BY <1>0, <1>2, RemovalOrderIs
  <1> QED
    BY <1>0, <1>1, <1>2

-----------------------------------------------------------------------------

LEMMA OriginInvCorrect == OriginSpec => []OriginInv
  BY OriginInitHolds, OriginInvStep, PTL DEF OriginSpec

(* The state of clients, deletions and files keeps its shape; in particular *)
(* no deletion removes past the last part, whoever fails beside it.         *)
THEOREM OriginTypes == OriginSpec => []OriginTypeOK
  <1>1. OriginInv => OriginTypeOK
    BY DEF OriginInv
  <1> QED
    BY <1>1, OriginInvCorrect, PTL

(* For any number of tabs: while deleteDatabase looks for the files or      *)
(* removes them no connected client's worker lives, and on an exclusive VFS *)
(* no two clients' workers live at once.                                    *)
THEOREM ConnectedKept == OriginSpec => []ConnectedIsNeverDeleted
  BY LocksSuffice, OriginInvCorrect, PTL

(* Wherever deletions were cut short, a sidecar in a folder still has its   *)
(* main file, so a retry finds what is left.                                *)
THEOREM RetryFinds == OriginSpec => []RetryFindsTheRest
  <1>1. OriginInv => RetryFindsTheRest
    BY DEF OriginInv
  <1> QED
    BY <1>1, OriginInvCorrect, PTL

(* A deletion answers "deleted" only in the step that leaves no file of the *)
(* database, unless a jDelete of its own failed unseen.                     *)
THEOREM DeletedGone == OriginSpec => DeletedIsGone
  <1>1. OriginInv /\ [OriginNext]_originVars =>
          [\A d \in Deletions :
             deletion'[d].told = "deleted" /\ deletion[d].told # "deleted" =>
                 files' = {} \/ deletion'[d].unseen]_originVars
    <2> SUFFICES ASSUME OriginInv, [OriginNext]_originVars, NEW d \in Deletions,
                        deletion'[d].told = "deleted", deletion[d].told # "deleted"
                 PROVE  files' = {} \/ deletion'[d].unseen
      OBVIOUS
    <2>1. CASE Remove(d)
      BY <2>1, ToldDeleted, LastPartLeavesNothing
    <2>2. CASE JDeleteFails(d)
      <3>1. deletion[d].at = "remove" /\ deletion[d].next = 2
        BY ToldDeleted
      <3>2. /\ deletion \in [Deletions -> DeletionState]
            /\ Advance(deletion[d]) \in DeletionState
        BY <3>1, AdvanceType DEF OriginInv, OriginTypeOK
      <3> QED
        BY <2>2, <3>2 DEF JDeleteFails, DeletionState
    <2> QED
      BY <2>1, <2>2, ToldDeleted
  <1> QED
    BY <1>1, OriginInvCorrect, PTL DEF OriginSpec, DeletedIsGone

=============================================================================
