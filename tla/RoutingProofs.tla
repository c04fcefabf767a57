--------------------------- MODULE RoutingProofs ---------------------------
(***************************************************************************)
(* What Routing promises, for any number of callers, any texts of the kinds  *)
(* it knows, any size of the memo and any number of verdicts.                *)
(***************************************************************************)
EXTENDS Routing, FiniteSetTheorems, TLAPS

-----------------------------------------------------------------------------
(* The inductive invariant.                                                 *)

(* A call that waits has changed nothing and shown nothing; one that runs   *)
(* has shown nothing; one sent as a read has changed nothing.               *)
CallSound(call) ==
    /\ call.counted \in {0, call.attempt}
    /\ call.pc \in {"made", "verdict", "leasing", "running"} =>
          call.wrote = 0 /\ call.from = {} /\ ~call.delivered
    /\ call.pc \in {"made", "verdict", "leasing"} => call.counted = 0
    /\ call.pc \in {"running", "delivering"} /\ call.kind = "read" /\ ~call.delivered =>
          call.counted = 0
    /\ call.pc = "delivering" =>
          /\ call.wrote <= 1 /\ (call.kind = "read" => call.wrote = 0)
          /\ call.from \subseteq {call.attempt}
          /\ ~call.delivered => call.from = {}
    /\ call.pc = "over" =>
          /\ call.wrote <= 1 /\ call.from \subseteq {call.attempt}
          /\ call.told \in Unwritten => call.wrote = 0
          /\ call.method = "stream" /\ call.told = "ok" => call.counted # 0
    /\ call.pc # "over" => call.told = "nothing"
    /\ call.told \in {"aborted", "cancelled"} => call.aborted

CallsSound == \A c \in Calls : calls[c] # NoCall => CallSound(calls[c])

(* The memo holds a text once, and a request it shares can be joined.       *)
Once(m) == \A i, j \in DOMAIN m : m[i].text = m[j].text => i = j

Entries(m) == {m[i] : i \in DOMAIN m}

MemoOnce == Once(memo)

(* A text too long for the memo is never in it.                             *)
MemoShort == \A e \in Entries(memo) : e.text \notin Long

Joinable(e) ==
    /\ e.ask \in DOMAIN asks
    /\ asks[e.ask].text = e.text
    /\ ~asks[e.ask].settled /\ ~asks[e.ask].cancelled

MemoJoinable == \A e \in Entries(memo) : e.verdict = "asking" => Joinable(e)

MemoSound == MemoOnce /\ MemoShort /\ MemoJoinable

(* A request is waited for by the callers that say so, is cancelled when    *)
(* nobody waits, and only then.                                             *)
Waits(c, k) == calls[c].pc = "verdict" /\ calls[c].ask = k

Waiters ==
    /\ \A k \in DOMAIN asks : \A c \in Calls : c \in asks[k].waiters <=> Waits(c, k)
    /\ \A c \in Calls : calls[c].pc = "verdict" => calls[c].ask \in DOMAIN asks

AskSound(a) ==
    /\ ~a.settled => (a.cancelled <=> a.waiters = {})
    /\ a.cancelled => a.waiters = {}
    /\ a.answer = "cancelled" => a.cancelled
    /\ a.settled <=> a.pc = "over"
    /\ a.settled <=> a.answer # "none"
    /\ a.knew => schema.now.table
    /\ a.pc = "again" /\ a.knew => a.sees.table
    /\ a.answer = "prepare" => ~a.knew

AsksSound == \A k \in DOMAIN asks : AskSound(asks[k])

IInv == TypeOK /\ CallsSound /\ MemoSound /\ Waiters /\ AsksSound

-----------------------------------------------------------------------------
(* What the memo's operations make of it.                                   *)

(* Taking a text out takes out its entry and leaves every other.            *)
LEMMA WithoutIs ==
    ASSUME NEW m \in Seq(Entry), Once(m), NEW text
    PROVE  /\ Without(m, text) \in Seq(Entry) /\ Once(Without(m, text))
           /\ \A e : e \in Entries(Without(m, text)) <=>
                       e \in Entries(m) /\ e.text # text
           /\ Len(Without(m, text)) <= Len(m)
  <1>1. CASE Held(m, text) = {}
    <2>1. \A e \in Entries(m) : e.text # text
      BY <1>1 DEF Entries, Held
    <2> QED
      BY <1>1, <2>1 DEF Without
  <1>2. CASE Held(m, text) # {}
    <2> DEFINE n == Len(m)
               j == CHOOSE i \in DOMAIN m : m[i].text = text
               w == [i \in 1 .. n - 1 |-> IF i < j THEN m[i] ELSE m[i + 1]]
    <2>1. n \in Nat /\ DOMAIN m = 1 .. n
      OBVIOUS
    <2>2. \E i \in DOMAIN m : m[i].text = text
      BY <1>2 DEF Held
    <2>3. j \in 1 .. n /\ m[j].text = text
      BY <2>1, <2>2
    <2>4. Without(m, text) = w
      BY <1>2 DEF Without
    <2> HIDE DEF j
    <2>5. \A i \in 1 .. n - 1 :
             /\ i < j => i \in 1 .. n /\ w[i] = m[i]
             /\ ~(i < j) => i + 1 \in 1 .. n /\ w[i] = m[i + 1]
      BY <2>1, <2>3
    <2>6. \A i \in 1 .. n - 1 : w[i] \in Entry
      BY <2>1, <2>5
    <2>7. w \in Seq(Entry) /\ Len(w) = n - 1 /\ DOMAIN w = 1 .. n - 1
      <3>1. n - 1 \in Nat
        BY <2>1, <2>3
      <3>2. w \in [1 .. n - 1 -> Entry]
        BY <2>6
      <3> QED
        BY <3>1, <3>2
    <2> HIDE DEF w
    <2>8. Once(w)
      <3> SUFFICES ASSUME NEW a \in 1 .. n - 1, NEW b \in 1 .. n - 1, w[a].text = w[b].text
                   PROVE  a = b
        BY <2>7 DEF Once
      <3> QED
        BY <2>1, <2>3, <2>5 DEF Once
    <2>9. ASSUME NEW e \in Entries(w) PROVE e \in Entries(m) /\ e.text # text
      <3>1. PICK i \in 1 .. n - 1 : e = w[i]
        BY <2>7, <2>9 DEF Entries
      <3>2. PICK x \in 1 .. n : e = m[x] /\ x # j
        BY <2>1, <2>3, <2>5, <3>1
      <3> QED
        BY <2>1, <2>3, <3>2 DEF Entries, Once
    <2>10. ASSUME NEW e \in Entries(m), e.text # text PROVE e \in Entries(w)
      <3>1. PICK x \in 1 .. n : e = m[x] /\ x # j
        BY <2>1, <2>3, <2>10 DEF Entries
      <3>2. CASE x < j
        <4>1. x \in 1 .. n - 1
          BY <2>1, <2>3, <3>2
        <4> QED
          BY <2>5, <2>7, <3>1, <3>2, <4>1 DEF Entries
      <3>3. CASE ~(x < j)
        <4>1. x - 1 \in 1 .. n - 1 /\ ~(x - 1 < j) /\ (x - 1) + 1 = x
          BY <2>1, <2>3, <3>1, <3>3
        <4>2. w[x - 1] = m[x]
          BY <2>5, <4>1
        <4> QED
          BY <2>7, <3>1, <4>1, <4>2 DEF Entries
      <3> QED
        BY <3>2, <3>3
    <2> QED
      BY <2>1, <2>4, <2>7, <2>8, <2>9, <2>10
  <1> QED
    BY <1>1, <1>2

(* An entry put last, after its text was taken out.                         *)
LEMMA AppendIs ==
    ASSUME NEW m \in Seq(Entry), Once(m), NEW e \in Entry,
           \A f \in Entries(m) : f.text # e.text
    PROVE  /\ Append(m, e) \in Seq(Entry) /\ Once(Append(m, e))
           /\ Entries(Append(m, e)) = Entries(m) \cup {e}
           /\ Len(Append(m, e)) = Len(m) + 1
  <1> DEFINE n == Len(m)
             g == Append(m, e)
  <1>1. /\ n \in Nat /\ g \in Seq(Entry) /\ Len(g) = n + 1
        /\ DOMAIN m = 1 .. n /\ DOMAIN g = 1 .. n + 1
    OBVIOUS
  <1>2. g[n + 1] = e /\ \A i \in 1 .. n : g[i] = m[i]
    OBVIOUS
  <1>3. \A i \in 1 .. n : m[i].text # e.text
    BY <1>1 DEF Entries
  <1> HIDE DEF g
  <1>4. \A i \in 1 .. n + 1 : i = n + 1 \/ i \in 1 .. n
    BY <1>1
  <1>5. Once(g)
    BY <1>1, <1>2, <1>3, <1>4 DEF Once
  <1>6. Entries(g) = Entries(m) \cup {e}
    <2>1. ASSUME NEW x \in Entries(g) PROVE x \in Entries(m) \cup {e}
      BY <1>1, <1>2, <1>4, <2>1 DEF Entries
    <2>2. ASSUME NEW x \in Entries(m) PROVE x \in Entries(g)
      <3>1. PICK i \in 1 .. n : x = m[i]
        BY <1>1, <2>2 DEF Entries
      <3>2. i \in 1 .. n + 1
        BY <1>1
      <3> QED
        BY <1>1, <1>2, <3>1, <3>2 DEF Entries
    <2>3. e \in Entries(g)
      <3>1. n + 1 \in 1 .. n + 1
        BY <1>1
      <3> QED
        BY <1>1, <1>2, <3>1 DEF Entries
    <2> QED
      BY <2>1, <2>2, <2>3
  <1> QED
    BY <1>1, <1>5, <1>6 DEF g

(* The oldest entry dropped.                                                *)
LEMMA TailIs ==
    ASSUME NEW m \in Seq(Entry), Once(m), m # <<>>
    PROVE  Tail(m) \in Seq(Entry) /\ Once(Tail(m)) /\ Entries(Tail(m)) \subseteq Entries(m)
  <1> DEFINE n == Len(m)
             g == Tail(m)
  <1>1. /\ n \in Nat \ {0} /\ g \in Seq(Entry) /\ Len(g) = n - 1
        /\ DOMAIN m = 1 .. n /\ DOMAIN g = 1 .. n - 1
    OBVIOUS
  <1>2. \A i \in 1 .. n - 1 : g[i] = m[i + 1] /\ i + 1 \in 1 .. n
    BY <1>1
  <1> HIDE DEF g
  <1>3. Once(g)
    <2> SUFFICES ASSUME NEW a \in 1 .. n - 1, NEW b \in 1 .. n - 1, g[a].text = g[b].text
                 PROVE  a = b
      BY <1>1 DEF Once
    <2>1. a + 1 = b + 1
      <3>1. /\ a + 1 \in DOMAIN m /\ b + 1 \in DOMAIN m
            /\ m[a + 1].text = m[b + 1].text
        BY <1>1, <1>2
      <3> QED
        BY <3>1 DEF Once
    <2> QED
      BY <1>1, <2>1
  <1>4. Entries(g) \subseteq Entries(m)
    BY <1>1, <1>2 DEF Entries
  <1> QED
    BY <1>1, <1>3, <1>4 DEF g

(* What the memo holds for a text, as its entries.                          *)
LEMMA HeldIs ==
    ASSUME NEW m \in Seq(Entry), Once(m), NEW text
    PROVE  /\ Entries(m) \subseteq Entry
           /\ Held(m, text) = {e \in Entries(m) : e.text = text}
           /\ \A e, f \in Held(m, text) : e = f
  <1>1. Entries(m) \subseteq Entry
    BY DEF Entries
  <1>2. Held(m, text) = {e \in Entries(m) : e.text = text}
    BY DEF Entries, Held
  <1>3. \A e, f \in Held(m, text) : e = f
    BY DEF Held, Once
  <1> QED
    BY <1>1, <1>2, <1>3

(* A lookup moves an entry and changes none.                                *)
LEMMA UsedIs ==
    ASSUME NEW m \in Seq(Entry), Once(m), NEW text
    PROVE  /\ Used(m, text) \in Seq(Entry) /\ Once(Used(m, text))
           /\ Entries(Used(m, text)) = Entries(m)
  <1>1. CASE Held(m, text) = {}
    BY <1>1 DEF Used
  <1>2. CASE Held(m, text) # {}
    <2> DEFINE e == CHOOSE f \in Held(m, text) : TRUE
               w == Without(m, text)
    <2>1. e \in Held(m, text)
      BY <1>2
    <2>2. Used(m, text) = Append(w, e)
      BY <1>2 DEF Used
    <2> HIDE DEF e
    <2>3. e \in Entries(m) /\ e \in Entry /\ e.text = text
      BY <2>1, HeldIs
    <2>4. /\ w \in Seq(Entry) /\ Once(w)
          /\ \A f : f \in Entries(w) <=> f \in Entries(m) /\ f.text # text
      BY WithoutIs
    <2> HIDE DEF w
    <2>5. /\ Append(w, e) \in Seq(Entry) /\ Once(Append(w, e))
          /\ Entries(Append(w, e)) = Entries(w) \cup {e}
      BY <2>3, <2>4, AppendIs
    <2>6. \A f \in Entries(m) : f.text = text => f = e
      BY <2>1, HeldIs
    <2> QED
      BY <2>2, <2>3, <2>4, <2>5, <2>6
  <1> QED
    BY <1>1, <1>2

(* set() replaces the entry of its text, drops the oldest where there are   *)
(* too many, and changes no other entry.                                    *)
LEMMA MemoSetIs ==
    ASSUME NEW m \in Seq(Entry), Once(m),
           NEW text \in Texts \cup TxTexts,
           NEW verdict \in {"asking", "read", "write", "refused"},
           NEW k \in 0 .. MaxAsks
    PROVE  /\ MemoSet(m, text, verdict, k) \in Seq(Entry)
           /\ Once(MemoSet(m, text, verdict, k))
           /\ \A e \in Entries(MemoSet(m, text, verdict, k)) :
                 \/ text \notin Long /\ e = [text |-> text, verdict |-> verdict, ask |-> k]
                 \/ e \in Entries(m) /\ (e.text # text \/ text \in Long)
  <1> DEFINE w == Without(m, text)
             e == [text |-> text, verdict |-> verdict, ask |-> k]
             g == Append(w, e)
  <1>1. e \in Entry /\ e.text = text
    BY DEF Entry
  <1>2. /\ w \in Seq(Entry) /\ Once(w)
        /\ \A f : f \in Entries(w) <=> f \in Entries(m) /\ f.text # text
    BY WithoutIs
  <1>3. MemoSet(m, text, verdict, k) =
            IF text \in Long THEN m ELSE IF Len(g) > MaxEntries THEN Tail(g) ELSE g
    BY DEF MemoSet
  <1> HIDE DEF w, e
  <1>4. /\ g \in Seq(Entry) /\ Once(g) /\ Entries(g) = Entries(w) \cup {e}
    BY <1>1, <1>2, AppendIs
  <1>5. Len(g) = Len(w) + 1 /\ Len(w) \in Nat
    BY <1>1, <1>2, AppendIs
  <1> HIDE DEF g
  <1>6. g # <<>>
    <2>1. Len(g) # 0 /\ Len(<<>>) = 0
      BY <1>5
    <2> QED
      BY <2>1
  <1>7. Tail(g) \in Seq(Entry) /\ Once(Tail(g)) /\ Entries(Tail(g)) \subseteq Entries(g)
    BY <1>4, <1>6, TailIs
  <1>8. \A f \in Entries(g) : f = e \/ (f \in Entries(m) /\ f.text # text)
    <2> TAKE f \in Entries(g)
    <2>1. f \in Entries(w) \/ f = e
      BY <1>4
    <2> QED
      BY <1>2, <2>1
  <1>9. CASE text \in Long
    BY <1>3, <1>9
  <1>10. CASE text \notin Long
    <2>1. \/ MemoSet(m, text, verdict, k) = g
          \/ MemoSet(m, text, verdict, k) = Tail(g)
      BY <1>3, <1>10
    <2> QED
      BY <1>4, <1>7, <1>8, <1>10, <2>1 DEF e
  <1> QED
    BY <1>9, <1>10

-----------------------------------------------------------------------------
(* What the client's small operations make of a call.                       *)

(* What a caller may be told.                                               *)
Told == {"nothing", "ok", "multiple", "prepare", "notARead", "closed",
         "aborted", "cancelled", "busy", "error", "passing", "death"}

(* A new call is sound.                                                     *)
LEMMA NewCallIs ==
    ASSUME NEW method \in {"run", "first", "stream"}, NEW text \in Texts
    PROVE  /\ NewCall(method, text) \in Call /\ CallSound(NewCall(method, text))
           /\ NewCall(method, text).pc = "made" /\ NewCall(method, text).method = method
           /\ NewCall(method, text).text = text
  <1>1. 0 \in 0 .. MaxAsks
    BY RoutingAssumption
  <1>2. NewCall(method, text) \in Call
    BY <1>1 DEF NewCall, Call, NoAsk
  <1>3. CallSound(NewCall(method, text))
    BY DEF NewCall, CallSound
  <1> QED
    BY <1>2, <1>3 DEF NewCall

(* A call that is over keeps what it did, and says what it was told.        *)
LEMMA OverIs ==
    ASSUME NEW call \in Call, NEW v \in Told
    PROVE  /\ Over(call, v) \in Call
           /\ Over(call, v).pc = "over" /\ Over(call, v).told = v
           /\ Over(call, v).wrote = call.wrote /\ Over(call, v).from = call.from
           /\ Over(call, v).counted = call.counted
           /\ Over(call, v).attempt = call.attempt
           /\ Over(call, v).method = call.method
           /\ Over(call, v).aborted = call.aborted
  <1>1. NoAsk \in 0 .. MaxAsks
    BY RoutingAssumption DEF NoAsk
  <1> QED
    BY <1>1 DEF Over, Call, Told

(* The count is settled once.                                               *)
LEMMA CountedIs ==
    ASSUME NEW call \in Call
    PROVE  /\ Counted(call) \in Call
           /\ Counted(call).counted = IF call.counted = 0 THEN call.attempt ELSE call.counted
           /\ Counted(call) = [call EXCEPT !.counted = Counted(call).counted]
  BY DEF Counted, Call

(* A call sent again waits for a lease with what it had.                    *)
LEMMA RetriedIs ==
    ASSUME NEW call \in Call
    PROVE  /\ Retried(call) \in Call
           /\ Retried(call).pc = "leasing" /\ Retried(call).attempt = call.attempt + 1
           /\ Retried(call).wrote = call.wrote /\ Retried(call).from = call.from
           /\ Retried(call).counted = call.counted /\ Retried(call).told = call.told
           /\ Retried(call).delivered = call.delivered
           /\ Retried(call).aborted = call.aborted
           /\ Retried(call).kind = call.kind
  <1>1. call.attempt + 1 \in Nat \ {0}
    BY DEF Call
  <1> QED
    BY <1>1 DEF Retried, Call
-----------------------------------------------------------------------------
(* What a step of the memo leaves.  Sticks is WriteSticks' action, said of   *)
(* the entries.                                                             *)
Sticks ==
    \A f \in Entries(memo) : f.verdict = "write" =>
        \A e \in Entries(memo') : e.text = f.text => e.verdict = "write"

MemoKept == memo' \in Seq(Entry) /\ MemoSound' /\ Sticks

(* Entries that are moved, or not touched.                                  *)
LEMMA MemoStays ==
    ASSUME TypeOK, MemoSound,
           memo' \in Seq(Entry), Once(memo'), Entries(memo') = Entries(memo),
           \A e \in Entries(memo) : e.verdict = "asking" => Joinable(e)'
    PROVE  MemoKept
  <1>1. MemoSound'
    BY DEF MemoSound, MemoOnce, MemoShort, MemoJoinable
  <1>2. \A e, f \in Entries(memo) : e.text = f.text => e = f
    BY DEF MemoSound, MemoOnce, Once, Entries
  <1>3. Sticks
    BY <1>2 DEF Sticks
  <1> QED
    BY <1>1, <1>3 DEF MemoKept

(* An entry that is taken out.                                              *)
LEMMA MemoForgets ==
    ASSUME TypeOK, MemoSound, NEW text, memo' = Without(memo, text),
           \A e \in Entries(memo) :
               e.text # text /\ e.verdict = "asking" => Joinable(e)'
    PROVE  MemoKept
  <1>1. /\ memo' \in Seq(Entry) /\ Once(memo')
        /\ \A e : e \in Entries(memo') <=> e \in Entries(memo) /\ e.text # text
    BY WithoutIs DEF TypeOK, MemoSound, MemoOnce
  <1>2. MemoSound'
    BY <1>1 DEF MemoSound, MemoOnce, MemoShort, MemoJoinable
  <1>3. \A e, f \in Entries(memo) : e.text = f.text => e = f
    BY DEF MemoSound, MemoOnce, Once, Entries
  <1>4. Sticks
    BY <1>1, <1>3 DEF Sticks
  <1> QED
    BY <1>1, <1>2, <1>4 DEF MemoKept

(* An entry that is set: over no settled verdict, unless to "write".        *)
LEMMA MemoLearns ==
    ASSUME TypeOK, MemoSound,
           NEW text \in Texts \cup TxTexts,
           NEW verdict \in {"asking", "read", "write", "refused"},
           NEW k \in 0 .. MaxAsks,
           memo' = MemoSet(memo, text, verdict, k),
           verdict = "write" \/ ~Settled(memo, text),
           \A e \in Entries(memo) :
               e.text # text /\ e.verdict = "asking" => Joinable(e)',
           verdict = "asking" =>
               Joinable([text |-> text, verdict |-> verdict, ask |-> k])'
    PROVE  MemoKept
  <1> DEFINE new == [text |-> text, verdict |-> verdict, ask |-> k]
  <1>1. /\ memo' \in Seq(Entry) /\ Once(memo')
        /\ \A e \in Entries(memo') :
              \/ text \notin Long /\ e = new
              \/ e \in Entries(memo) /\ (e.text # text \/ text \in Long)
    BY MemoSetIs DEF TypeOK, MemoSound, MemoOnce
  <1>2. \A e \in Entries(memo') :
           (text \notin Long /\ e = new) \/ (e \in Entries(memo) /\ e.text # text)
    BY <1>1 DEF MemoSound, MemoShort
  <1>3. MemoShort'
    BY <1>2 DEF MemoSound, MemoShort
  <1>4. MemoJoinable'
    BY <1>2 DEF MemoJoinable
  <1>5. \A e, f \in Entries(memo) : e.text = f.text => e = f
    BY DEF MemoSound, MemoOnce, Once, Entries
  <1>6. \A f \in Entries(memo) : f.text = text /\ f.verdict = "write" => verdict = "write"
    BY DEF Settled, Held, Entries
  <1>7. Sticks
    BY <1>2, <1>5, <1>6 DEF Sticks
  <1> QED
    BY <1>1, <1>3, <1>4, <1>7 DEF MemoKept, MemoSound, MemoOnce

-----------------------------------------------------------------------------
(* What a step of one request leaves.                                       *)

(* One request changes, and no other.                                       *)
LEMMA OneAsk ==
    ASSUME TypeOK, NEW k \in DOMAIN asks, NEW a \in Ask,
           asks' = [asks EXCEPT ![k] = a]
    PROVE  /\ asks' \in Seq(Ask) /\ Len(asks') = Len(asks) /\ Len(asks') <= MaxAsks
           /\ DOMAIN asks' = DOMAIN asks
           /\ asks'[k] = a /\ \A j \in DOMAIN asks \ {k} : asks'[j] = asks[j]
  <1>1. asks \in Seq(Ask) /\ Len(asks) <= MaxAsks
    BY DEF TypeOK
  <1> QED
    BY <1>1

(* A request is among those the bound allows, and has the fields of one.    *)
LEMMA AskTyped ==
    ASSUME TypeOK, NEW k \in DOMAIN asks
    PROVE  asks[k] \in Ask /\ k \in 0 .. MaxAsks /\ k # NoAsk
  BY RoutingAssumption DEF TypeOK, NoAsk

(* The requests stay sound when one of them does.                           *)
LEMMA OneAskSound ==
    ASSUME TypeOK, AsksSound, NEW k \in DOMAIN asks, NEW a \in Ask,
           asks' = [asks EXCEPT ![k] = a], schema' = schema, AskSound(a)
    PROVE  AsksSound'
  <1>1. /\ DOMAIN asks' = DOMAIN asks
        /\ asks'[k] = a /\ \A j \in DOMAIN asks \ {k} : asks'[j] = asks[j]
    BY OneAsk
  <1>2. AskSound(a)'
    BY DEF AskSound
  <1>3. \A j \in DOMAIN asks \ {k} : AskSound(asks[j])'
    BY <1>1 DEF AsksSound, AskSound
  <1> QED
    BY <1>1, <1>2, <1>3 DEF AsksSound
-----------------------------------------------------------------------------
(* What a step of one caller leaves.                                        *)

(* Every step keeps the invariant, and what the memo knows of a write.      *)
StepSound == IInv' /\ Sticks

(* A call that has begun is one of Call.                                    *)
LEMMA CallTyped ==
    ASSUME TypeOK, NEW c \in Calls, calls[c].pc # "idle"
    PROVE  calls[c] \in Call /\ calls[c] # NoCall
  BY DEF TypeOK, NoCall

(* One call changes, and no other.                                          *)
LEMMA OneCall ==
    ASSUME TypeOK, CallsSound, NEW c \in Calls, NEW call \in Call, CallSound(call),
           Becomes(c, call)
    PROVE  /\ calls' \in [Calls -> Call \cup {NoCall}] /\ CallsSound'
           /\ calls'[c] = call /\ \A d \in Calls \ {c} : calls'[d] = calls[d]
  <1>1. /\ calls' \in [Calls -> Call \cup {NoCall}]
        /\ calls'[c] = call /\ \A d \in Calls \ {c} : calls'[d] = calls[d]
    BY DEF Becomes, TypeOK
  <1>2. CallsSound'
    <2> SUFFICES ASSUME NEW d \in Calls, calls'[d] # NoCall
                 PROVE  CallSound(calls'[d])
      BY DEF CallsSound
    <2>1. CASE d = c
      BY <1>1, <2>1
    <2>2. CASE d # c
      BY <1>1, <2>2 DEF CallsSound
    <2> QED
      BY <2>1, <2>2
  <1> QED
    BY <1>1, <1>2

(* A call that neither begins nor ends to wait for a verdict.               *)
LEMMA QuietCall ==
    ASSUME IInv, NEW c \in Calls, NEW call \in Call, CallSound(call),
           Becomes(c, call),
           \/ call.pc # "verdict" /\ calls[c].pc # "verdict"
           \/ call.pc = calls[c].pc /\ call.ask = calls[c].ask,
           UNCHANGED <<asks, schema>>, MemoKept
    PROVE  StepSound
  <1>1. /\ calls' \in [Calls -> Call \cup {NoCall}] /\ CallsSound'
        /\ calls'[c] = call /\ \A d \in Calls \ {c} : calls'[d] = calls[d]
    BY OneCall DEF IInv
  <1>2. Waiters'
    BY <1>1 DEF IInv, Waiters, Waits
  <1>3. AsksSound'
    BY DEF IInv, AsksSound, AskSound
  <1>4. TypeOK'
    BY <1>1 DEF IInv, TypeOK, MemoKept
  <1> QED
    BY <1>1, <1>2, <1>3, <1>4 DEF IInv, StepSound, MemoKept

(* The memo is not touched.                                                 *)
LEMMA MemoUntouched ==
    ASSUME TypeOK, MemoSound, UNCHANGED <<memo, asks>>
    PROVE  MemoKept
  <1>1. \A e \in Entries(memo) : e.verdict = "asking" => Joinable(e)'
    BY DEF MemoSound, MemoJoinable, Joinable
  <1>2. memo' \in Seq(Entry) /\ Once(memo') /\ Entries(memo') = Entries(memo)
    BY DEF TypeOK, MemoSound, MemoOnce
  <1> QED
    BY <1>1, <1>2, MemoStays

(* A caller that waited leaves: the last of them cancels the request.       *)
LEMMA LeftIs ==
    ASSUME IInv, NEW c \in Calls, calls[c].pc = "verdict",
           NEW k, k = calls[c].ask, Left(k, c),
           NEW call \in Call, CallSound(call), call.pc # "verdict", Becomes(c, call),
           UNCHANGED schema
    PROVE  StepSound
  <1> DEFINE a == asks[k]
             last == a.waiters = {c} /\ ~a.settled
             b == [a EXCEPT !.waiters = @ \ {c}, !.cancelled = @ \/ last]
  <1>1. k \in DOMAIN asks /\ c \in a.waiters
    BY DEF IInv, Waiters, Waits
  <1>2. a \in Ask /\ AskSound(a)
    BY <1>1, AskTyped DEF IInv, AsksSound
  <1>3. asks' = [asks EXCEPT ![k] = b]
    BY <1>1 DEF Left
  <1>4. b \in Ask
    BY <1>2 DEF Ask
  <1>5. /\ b.waiters = a.waiters \ {c} /\ b.cancelled = (a.cancelled \/ last)
        /\ b.settled = a.settled /\ b.answer = a.answer /\ b.pc = a.pc /\ b.text = a.text
        /\ b.knew = a.knew /\ b.sees = a.sees
    BY <1>2 DEF Ask
  <1>6. ~a.cancelled
    BY <1>1, <1>2 DEF AskSound
  <1>7. AskSound(b)
    BY <1>1, <1>2, <1>5, <1>6 DEF AskSound
  <1>8. memo' = IF last /\ HoldsAsk(memo, a.text, k) THEN Without(memo, a.text) ELSE memo
    BY DEF Left
  <1> HIDE DEF b
  <1>9. /\ asks' \in Seq(Ask) /\ Len(asks') <= MaxAsks /\ DOMAIN asks' = DOMAIN asks
        /\ asks'[k] = b /\ \A j \in DOMAIN asks \ {k} : asks'[j] = asks[j]
    BY <1>1, <1>3, <1>4, OneAsk DEF IInv
  <1>10. AsksSound'
    BY <1>1, <1>3, <1>4, <1>7, OneAskSound DEF IInv
  <1>11. /\ calls' \in [Calls -> Call \cup {NoCall}] /\ CallsSound'
         /\ calls'[c] = call /\ \A d \in Calls \ {c} : calls'[d] = calls[d]
    BY OneCall DEF IInv
  <1>12. Waiters'
    <2>1. ASSUME NEW j \in DOMAIN asks, NEW d \in Calls
          PROVE  (d \in asks[j].waiters <=> Waits(d, j))'
      <3>0. d \in asks[j].waiters <=> Waits(d, j)
        BY DEF IInv, Waiters
      <3>1. CASE d = c
        <4>1. ~Waits(d, j)'
          BY <1>11, <3>1 DEF Waits
        <4>2. d \notin asks'[j].waiters
          <5>1. CASE j = k
            BY <1>5, <1>9, <3>1, <5>1
          <5>2. CASE j # k
            BY <1>9, <3>0, <3>1, <5>2 DEF Waits
          <5> QED
            BY <5>1, <5>2
        <4> QED
          BY <4>1, <4>2
      <3>2. CASE d # c
        <4>1. Waits(d, j)' <=> Waits(d, j)
          BY <1>11, <3>2 DEF Waits
        <4>2. d \in asks'[j].waiters <=> d \in asks[j].waiters
          BY <1>5, <1>9, <3>2
        <4> QED
          BY <3>0, <4>1, <4>2
      <3> QED
        BY <3>1, <3>2
    <2>2. \A d \in Calls : calls'[d].pc = "verdict" => calls'[d].ask \in DOMAIN asks'
      BY <1>9, <1>11 DEF IInv, Waiters
    <2> QED
      BY <1>9, <2>1, <2>2 DEF Waiters
  <1>13. ASSUME NEW e \in Entries(memo), e.verdict = "asking", e.ask # k \/ ~last
         PROVE  Joinable(e)'
    <2>1. Joinable(e)
      BY <1>13 DEF IInv, MemoSound, MemoJoinable
    <2>2. CASE e.ask = k
      BY <1>5, <1>6, <1>9, <1>13, <2>1, <2>2 DEF Joinable
    <2>3. CASE e.ask # k
      BY <1>9, <2>1, <2>3 DEF Joinable
    <2> QED
      BY <2>2, <2>3
  <1>14. \A e \in Entries(memo) : e.verdict = "asking" /\ e.ask = k => e.text = a.text
    BY DEF IInv, MemoSound, MemoJoinable, Joinable
  <1>15. MemoKept
    <2>1. CASE last /\ HoldsAsk(memo, a.text, k)
      <3>1. memo' = Without(memo, a.text)
        BY <1>8, <2>1
      <3> QED
        BY <1>13, <1>14, <3>1, MemoForgets DEF IInv
    <2>2. CASE ~(last /\ HoldsAsk(memo, a.text, k))
      <3>1. memo' = memo
        BY <1>8, <2>2
      <3>2. \A e \in Entries(memo) : e.verdict = "asking" => e.ask # k \/ ~last
        BY <1>14, <2>2 DEF HoldsAsk, Held, Entries
      <3>3. \A e \in Entries(memo) : e.verdict = "asking" => Joinable(e)'
        BY <1>13, <3>2
      <3>4. memo' \in Seq(Entry) /\ Once(memo') /\ Entries(memo') = Entries(memo)
        BY <3>1 DEF IInv, TypeOK, MemoSound, MemoOnce
      <3> QED
        BY <3>3, <3>4, MemoStays DEF IInv
    <2> QED
      BY <2>1, <2>2
  <1>16. TypeOK'
    BY <1>9, <1>11, <1>15 DEF IInv, TypeOK, MemoKept
  <1> QED
    BY <1>10, <1>11, <1>12, <1>15, <1>16 DEF IInv, StepSound, MemoKept
(* A request changes, its callers staying.                                  *)
LEMMA AskChanges ==
    ASSUME IInv, NEW k \in DOMAIN asks, NEW b \in Ask, AskSound(b),
           b.waiters = asks[k].waiters,
           asks' = [asks EXCEPT ![k] = b], UNCHANGED <<calls, schema>>, MemoKept
    PROVE  StepSound
  <1>1. /\ asks' \in Seq(Ask) /\ Len(asks') <= MaxAsks /\ DOMAIN asks' = DOMAIN asks
        /\ asks'[k] = b /\ \A j \in DOMAIN asks \ {k} : asks'[j] = asks[j]
    BY OneAsk DEF IInv
  <1>2. AsksSound'
    BY OneAskSound DEF IInv
  <1>3. \A j \in DOMAIN asks : asks'[j].waiters = asks[j].waiters
    BY <1>1
  <1>4. Waiters'
    BY <1>1, <1>3 DEF IInv, Waiters, Waits
  <1>5. TypeOK' /\ CallsSound'
    BY <1>1 DEF IInv, TypeOK, CallsSound, MemoKept
  <1> QED
    BY <1>2, <1>4, <1>5 DEF IInv, StepSound, MemoKept

(* The other requests can be joined as before.                              *)
LEMMA OthersJoinable ==
    ASSUME IInv, NEW k \in DOMAIN asks, NEW b \in Ask,
           asks' = [asks EXCEPT ![k] = b]
    PROVE  \A e \in Entries(memo) :
               e.verdict = "asking" /\ (e.text # asks[k].text \/ e.ask # k) => Joinable(e)'
  <1>1. /\ DOMAIN asks' = DOMAIN asks
        /\ asks'[k] = b /\ \A j \in DOMAIN asks \ {k} : asks'[j] = asks[j]
    BY OneAsk DEF IInv
  <1> SUFFICES ASSUME NEW e \in Entries(memo), e.verdict = "asking",
                      e.text # asks[k].text \/ e.ask # k
               PROVE  Joinable(e)'
    OBVIOUS
  <1>2. Joinable(e)
    BY DEF IInv, MemoSound, MemoJoinable
  <1>3. e.ask # k
    BY <1>2 DEF Joinable
  <1> QED
    BY <1>1, <1>2, <1>3 DEF Joinable

(* A turn of askVerdict's loop, which neither settles nor cancels.          *)
LEMMA QuietAsk ==
    ASSUME IInv, NEW k \in DOMAIN asks, NEW b \in Ask, AskSound(b),
           b.waiters = asks[k].waiters, b.text = asks[k].text,
           b.settled = asks[k].settled, b.cancelled = asks[k].cancelled,
           asks' = [asks EXCEPT ![k] = b], UNCHANGED <<memo, calls, schema>>
    PROVE  StepSound
  <1>1. /\ DOMAIN asks' = DOMAIN asks
        /\ asks'[k] = b /\ \A j \in DOMAIN asks \ {k} : asks'[j] = asks[j]
    BY OneAsk DEF IInv
  <1>2. \A e \in Entries(memo) : e.verdict = "asking" => Joinable(e)'
    <2> TAKE e \in Entries(memo)
    <2> HAVE e.verdict = "asking"
    <2>1. Joinable(e)
      BY DEF IInv, MemoSound, MemoJoinable
    <2>2. CASE e.ask = k
      BY <1>1, <2>1, <2>2 DEF Joinable
    <2>3. CASE e.ask # k
      BY <1>1, <2>1, <2>3 DEF Joinable
    <2> QED
      BY <2>2, <2>3
  <1>3. memo' \in Seq(Entry) /\ Once(memo') /\ Entries(memo') = Entries(memo)
    BY DEF IInv, TypeOK, MemoSound, MemoOnce
  <1>4. MemoKept
    BY <1>2, <1>3, MemoStays DEF IInv
  <1> QED
    BY <1>4, AskChanges

(* The request settles.                                                     *)
LEMMA SettleIs ==
    ASSUME IInv, NEW k \in DOMAIN asks, asks[k].pc # "over",
           NEW answer \in {"read", "write", "refused", "prepare", "passing",
                           "death", "error", "cancelled"},
           answer = "cancelled" => asks[k].cancelled,
           answer = "prepare" => ~asks[k].knew,
           SettleAsk(k, answer), UNCHANGED <<calls, schema>>
    PROVE  StepSound
  <1> DEFINE a == asks[k]
             b == [a EXCEPT !.pc = "over", !.settled = TRUE, !.answer = answer,
                            !.lease = "none", !.free = FALSE, !.failed = {},
                            !.sees = Empty]
             held == HoldsAsk(memo, a.text, k)
  <1>1. a \in Ask /\ AskSound(a) /\ NoAsk \in 0 .. MaxAsks
    BY AskTyped, RoutingAssumption DEF IInv, AsksSound, NoAsk
  <1>2. b \in Ask
    BY <1>1 DEF Ask, Schemas, Empty
  <1>3. /\ b.pc = "over" /\ b.settled /\ b.answer = answer
        /\ b.waiters = a.waiters /\ b.cancelled = a.cancelled /\ b.knew = a.knew
    BY <1>1 DEF Ask
  <1>4. AskSound(b)
    BY <1>1, <1>3 DEF AskSound
  <1>5. asks' = [asks EXCEPT ![k] = b]
    BY DEF SettleAsk
  <1>6. memo' = CASE ~held -> memo
                  [] held /\ answer \in {"read", "write", "refused"} ->
                        MemoSet(memo, a.text, answer, NoAsk)
                  [] OTHER -> Without(memo, a.text)
    BY DEF SettleAsk
  <1> HIDE DEF b
  <1>7. \A e \in Entries(memo) :
            e.verdict = "asking" /\ (e.text # a.text \/ e.ask # k) => Joinable(e)'
    BY <1>2, <1>5, OthersJoinable
  <1>8. MemoKept
    <2>1. CASE ~held
      <3>1. memo' = memo
        BY <1>6, <2>1
      <3>2. \A e \in Entries(memo) : e.verdict = "asking" => e.text # a.text \/ e.ask # k
        BY <2>1 DEF HoldsAsk, Held, Entries
      <3>3. memo' \in Seq(Entry) /\ Once(memo') /\ Entries(memo') = Entries(memo)
        BY <3>1 DEF IInv, TypeOK, MemoSound, MemoOnce
      <3> QED
        BY <1>7, <3>2, <3>3, MemoStays DEF IInv
    <2>2. CASE held /\ answer \in {"read", "write", "refused"}
      <3>1. memo' = MemoSet(memo, a.text, answer, NoAsk)
        BY <1>6, <2>2
      <3>2. ~Settled(memo, a.text)
        BY <2>2 DEF IInv, MemoSound, MemoOnce, Once, HoldsAsk, Settled, Held
      <3>3. a.text \in Texts \cup TxTexts
        BY <1>1 DEF Ask
      <3>4. answer # "asking" /\ answer \in {"asking", "read", "write", "refused"}
        BY <2>2
      <3> QED
        BY <1>1, <1>7, <3>1, <3>2, <3>3, <3>4, MemoLearns DEF IInv
    <2>3. CASE held /\ answer \notin {"read", "write", "refused"}
      <3>1. memo' = Without(memo, a.text)
        BY <1>6, <2>3
      <3> QED
        BY <1>7, <3>1, MemoForgets DEF IInv
    <2> QED
      BY <2>1, <2>2, <2>3
  <1> QED
    BY <1>2, <1>3, <1>4, <1>5, <1>8, AskChanges

(* What a prepare can say; a table that is there is found.                  *)
LEMMA PreparedIs ==
    ASSUME NEW text \in Texts \cup TxTexts, NEW s \in Schemas
    PROVE  /\ Prepared(text, s) \in {"read", "write", "refused", "prepare"}
           /\ Prepared(text, s) = "prepare" => ~s.table
  <1>1. text \in {"select", "ensure", "two"} /\ s.table \in BOOLEAN
    BY RoutingAssumption DEF Schemas
  <1>2. CASE text = "two"
    BY <1>2 DEF Prepared
  <1>3. CASE text = "select"
    BY <1>1, <1>3 DEF Prepared
  <1>4. CASE text = "ensure"
    BY <1>1, <1>4 DEF Prepared
  <1> QED
    BY <1>1, <1>2, <1>3, <1>4
-----------------------------------------------------------------------------
(* One lemma per step of askVerdict.                                        *)

(* The lease is granted, or the request was cancelled.                      *)
LEMMA AskAcquireStep ==
    ASSUME IInv, NEW k \in DOMAIN asks, AskAcquire(k)
    PROVE  StepSound
  <1>1. asks[k] \in Ask /\ AskSound(asks[k])
    BY AskTyped DEF IInv, AsksSound
  <1>2. CASE asks[k].cancelled /\ SettleAsk(k, "cancelled")
    BY <1>2, SettleIs DEF AskAcquire
  <1>3. ASSUME NEW lease \in {"free", "borrowed"}, UNCHANGED memo,
               asks' = [asks EXCEPT ![k].pc = "asked", ![k].lease = lease]
        PROVE  StepSound
    <2> DEFINE b == [asks[k] EXCEPT !.pc = "asked", !.lease = lease]
    <2>1. b \in Ask
      BY <1>1 DEF Ask
    <2>2. /\ b.waiters = asks[k].waiters /\ b.text = asks[k].text
          /\ b.settled = asks[k].settled /\ b.cancelled = asks[k].cancelled
          /\ b.pc = "asked" /\ b.answer = asks[k].answer /\ b.knew = asks[k].knew
      BY <1>1 DEF Ask
    <2>3. AskSound(b)
      BY <1>1, <2>2 DEF AskSound, AskAcquire
    <2>4. asks' = [asks EXCEPT ![k] = b]
      BY <1>3
    <2> QED
      BY <1>3, <2>1, <2>2, <2>3, <2>4, QuietAsk DEF AskAcquire
  <1> QED
    BY <1>2, <1>3 DEF AskAcquire

(* Another lease is asked for.                                              *)
LEMMA AskMoreIs ==
    ASSUME IInv, NEW k \in DOMAIN asks, asks[k].pc # "over",
           NEW change \in Ask,
           change.waiters = asks[k].waiters, change.text = asks[k].text,
           change.settled = asks[k].settled, change.cancelled = asks[k].cancelled,
           change.answer = asks[k].answer, change.knew = asks[k].knew,
           AskMore(k, change), UNCHANGED <<calls, schema>>
    PROVE  StepSound
  <1> DEFINE b == [change EXCEPT !.pc = "acquiring", !.lease = "none"]
  <1>1. AskSound(asks[k])
    BY DEF IInv, AsksSound
  <1>2. b \in Ask
    BY DEF Ask
  <1>3. /\ b.waiters = asks[k].waiters /\ b.text = asks[k].text
        /\ b.settled = asks[k].settled /\ b.cancelled = asks[k].cancelled
        /\ b.pc = "acquiring" /\ b.answer = asks[k].answer /\ b.knew = asks[k].knew
    BY DEF Ask
  <1>4. asks' = [asks EXCEPT ![k] = b] /\ memo' = memo
    BY DEF AskMore
  <1> HIDE DEF b
  <1>5. AskSound(b)
    BY <1>1, <1>3 DEF AskSound
  <1> QED
    BY <1>2, <1>3, <1>4, <1>5, QuietAsk

(* A passing failure or a death: once more, or the request fails, as it     *)
(* does of any other error.                                                 *)
LEMMA AskFailsStep ==
    ASSUME IInv, NEW k \in DOMAIN asks, NEW why \in {"passing", "death", "error"},
           AskFails(k, why)
    PROVE  StepSound
  <1>1. asks[k] \in Ask /\ asks[k].pc # "over" /\ UNCHANGED <<calls, schema>>
    BY AskTyped DEF IInv, AskFails
  <1>2. CASE SettleAsk(k, why)
    <2>1. /\ why \in {"read", "write", "refused", "prepare", "passing", "death", "error",
                     "cancelled"}
          /\ why # "cancelled" /\ why # "prepare"
      OBVIOUS
    <2> QED
      BY <1>1, <1>2, <2>1, SettleIs
  <1>3. CASE why # "error" /\ AskMore(k, [asks[k] EXCEPT !.failed = @ \cup {why}])
    <2> DEFINE b == [asks[k] EXCEPT !.failed = @ \cup {why}]
    <2>1. b \in Ask
      <3>1. why \in {"passing", "death"}
        BY <1>3
      <3>2. asks[k].failed \cup {why} \in SUBSET {"passing", "death"}
        BY <1>1, <3>1 DEF Ask
      <3> QED
        BY <1>1, <3>2 DEF Ask
    <2>2. /\ b.waiters = asks[k].waiters /\ b.text = asks[k].text
          /\ b.settled = asks[k].settled /\ b.cancelled = asks[k].cancelled
          /\ b.answer = asks[k].answer /\ b.knew = asks[k].knew
      BY <1>1 DEF Ask
    <2> HIDE DEF b
    <2>3. AskMore(k, b)
      BY <1>3 DEF b
    <2> QED
      BY <1>1, <2>1, <2>2, <2>3, AskMoreIs
  <1> QED
    BY <1>2, <1>3 DEF AskFails

(* The worker answers.                                                      *)
LEMMA AskAnswersStep ==
    ASSUME IInv, NEW k \in DOMAIN asks, AskAnswers(k)
    PROVE  StepSound
  <1>1. /\ asks[k] \in Ask /\ AskSound(asks[k])
        /\ asks[k].pc = "asked" /\ UNCHANGED <<calls, schema>>
    BY AskTyped DEF IInv, AsksSound, AskAnswers
  <1>2. Seen \subseteq Schemas /\ asks[k].text \in Texts \cup TxTexts
    BY <1>1 DEF IInv, TypeOK, Seen, Ask
  <1>3. PICK s \in Seen :
            LET a == asks[k]
                answer == Prepared(a.text, s)
            IN CASE answer # "prepare" -> SettleAsk(k, answer)
                 [] answer = "prepare" /\ a.lease = "borrowed" ->
                        AskMore(k, [a EXCEPT !.free = TRUE])
                 [] OTHER -> /\ asks' = [asks EXCEPT ![k].pc = "barrier"]
                             /\ UNCHANGED memo
    BY DEF AskAnswers
  <1> DEFINE answer == Prepared(asks[k].text, s)
  <1>4. answer \in {"read", "write", "refused", "prepare"}
    BY <1>2, PreparedIs
  <1> HIDE DEF answer
  <1>5. CASE answer # "prepare"
    <2>1. SettleAsk(k, answer)
      BY <1>3, <1>5 DEF answer
    <2>2. answer \in {"read", "write", "refused", "prepare", "passing", "death", "error",
                    "cancelled"}
      BY <1>4
    <2> QED
      BY <1>1, <1>4, <1>5, <2>1, <2>2, SettleIs
  <1>6. CASE answer = "prepare" /\ asks[k].lease = "borrowed"
    <2> DEFINE b == [asks[k] EXCEPT !.free = TRUE]
    <2>1. b \in Ask
      BY <1>1 DEF Ask
    <2>2. /\ b.waiters = asks[k].waiters /\ b.text = asks[k].text
          /\ b.settled = asks[k].settled /\ b.cancelled = asks[k].cancelled
          /\ b.answer = asks[k].answer /\ b.knew = asks[k].knew
      BY <1>1 DEF Ask
    <2>3. AskMore(k, b)
      BY <1>3, <1>6 DEF answer
    <2> HIDE DEF b
    <2> QED
      BY <1>1, <2>1, <2>2, <2>3, AskMoreIs
  <1>7. CASE answer = "prepare" /\ asks[k].lease # "borrowed"
    <2> DEFINE b == [asks[k] EXCEPT !.pc = "barrier"]
    <2>1. b \in Ask
      BY <1>1 DEF Ask
    <2>2. /\ b.waiters = asks[k].waiters /\ b.text = asks[k].text
          /\ b.settled = asks[k].settled /\ b.cancelled = asks[k].cancelled
          /\ b.pc = "barrier" /\ b.answer = asks[k].answer /\ b.knew = asks[k].knew
      BY <1>1 DEF Ask
    <2>3. asks' = [asks EXCEPT ![k] = b] /\ memo' = memo
      BY <1>3, <1>7 DEF answer
    <2> HIDE DEF b
    <2>4. AskSound(b)
      BY <1>1, <2>2 DEF AskSound
    <2> QED
      BY <1>1, <2>1, <2>2, <2>3, <2>4, QuietAsk
  <1> QED
    BY <1>5, <1>6, <1>7

(* The worker is past the barrier.                                          *)
LEMMA AskBarrierStep ==
    ASSUME IInv, NEW k \in DOMAIN asks, AskBarrier(k)
    PROVE  StepSound
  <1>1. /\ asks[k] \in Ask /\ AskSound(asks[k]) /\ asks[k].pc = "barrier"
        /\ schema.now \in Schemas /\ UNCHANGED <<memo, calls, schema>>
    BY AskTyped DEF IInv, AsksSound, AskBarrier, TypeOK
  <1> DEFINE b == [asks[k] EXCEPT !.pc = "again", !.sees = schema.now]
  <1>2. b \in Ask
    BY <1>1 DEF Ask
  <1>3. /\ b.waiters = asks[k].waiters /\ b.text = asks[k].text
        /\ b.settled = asks[k].settled /\ b.cancelled = asks[k].cancelled
        /\ b.pc = "again" /\ b.answer = asks[k].answer /\ b.knew = asks[k].knew
        /\ b.sees = schema.now
    BY <1>1 DEF Ask
  <1>4. asks' = [asks EXCEPT ![k] = b]
    BY DEF AskBarrier
  <1> HIDE DEF b
  <1>5. AskSound(b)
    BY <1>1, <1>3 DEF AskSound
  <1> QED
    BY <1>1, <1>2, <1>3, <1>4, <1>5, QuietAsk

(* Past the barrier the answer is the statement's.                          *)
LEMMA AskAgainStep ==
    ASSUME IInv, NEW k \in DOMAIN asks, AskAgain(k)
    PROVE  StepSound
  <1>1. /\ asks[k] \in Ask /\ AskSound(asks[k]) /\ asks[k].pc = "again"
        /\ schema.now \in Schemas /\ UNCHANGED <<calls, schema>>
    BY AskTyped DEF IInv, AsksSound, AskAgain, TypeOK
  <1>2. asks[k].sees \in Schemas /\ asks[k].text \in Texts \cup TxTexts
    BY <1>1 DEF Ask
  <1>3. PICK s \in {asks[k].sees, schema.now} : SettleAsk(k, Prepared(asks[k].text, s))
    BY DEF AskAgain
  <1> DEFINE answer == Prepared(asks[k].text, s)
  <1>4. s \in Schemas /\ (asks[k].knew => s.table)
    BY <1>1, <1>2 DEF AskSound
  <1>5. /\ answer \in {"read", "write", "refused", "prepare", "passing", "death", "error",
                    "cancelled"}
        /\ answer # "cancelled" /\ (answer = "prepare" => ~asks[k].knew)
    BY <1>2, <1>4, PreparedIs
  <1>6. SettleAsk(k, answer)
    BY <1>3
  <1> HIDE DEF answer
  <1> QED
    BY <1>1, <1>5, <1>6, SettleIs
-----------------------------------------------------------------------------
(* A call reaches kindFor.                                                  *)

(* A verdict's outcome: a lease is asked for, or the text is refused.       *)
LEMMA KindedIs ==
    ASSUME NEW call \in Call, CallSound(call), call.pc \in {"made", "verdict"},
           NEW verdict \in {"read", "write", "refused"}
    PROVE  /\ Kinded(call, verdict) \in Call /\ CallSound(Kinded(call, verdict))
           /\ Kinded(call, verdict).pc # "verdict"
  <1>1. CASE verdict = "refused"
    <2>1. Kinded(call, verdict) = Over(call, "multiple")
      BY <1>1 DEF Kinded
    <2>2. Over(call, "multiple") \in Call /\ CallSound(Over(call, "multiple"))
          /\ Over(call, "multiple").pc = "over"
      BY OverIs DEF CallSound, Told
    <2> QED
      BY <2>1, <2>2
  <1>2. CASE verdict # "refused"
    <2> DEFINE d == [call EXCEPT !.pc = "leasing", !.kind = verdict]
    <2>1. Kinded(call, verdict) = d
      BY <1>2 DEF Kinded
    <2>2. d \in Call
      BY <1>2 DEF Call
    <2>3. CallSound(d)
      BY DEF Call, CallSound
    <2> QED
      BY <2>1, <2>2, <2>3 DEF Call
  <1> QED
    BY <1>1, <1>2

(* The caller joins a request it finds in the memo.                         *)
LEMMA JoinIs ==
    ASSUME IInv, NEW c \in Calls, calls[c].pc # "verdict",
           NEW call \in Call, CallSound(call), call.pc = "verdict",
           NEW e \in Entries(memo), e.verdict = "asking", call.ask = e.ask,
           Becomes(c, call), memo' = Used(memo, e.text),
           asks' = [asks EXCEPT ![e.ask].waiters = @ \cup {c}],
           UNCHANGED schema
    PROVE  StepSound
  <1> DEFINE k == e.ask
             a == asks[k]
             b == [a EXCEPT !.waiters = @ \cup {c}]
  <1>1. Joinable(e)
    BY DEF IInv, MemoSound, MemoJoinable
  <1>2. k \in DOMAIN asks /\ ~a.settled /\ ~a.cancelled
    BY <1>1 DEF Joinable
  <1>3. a \in Ask /\ AskSound(a)
    BY <1>2, AskTyped DEF IInv, AsksSound
  <1>4. b \in Ask
    BY <1>3 DEF Ask
  <1>5. /\ b.waiters = a.waiters \cup {c} /\ b.text = a.text
        /\ b.settled = a.settled /\ b.cancelled = a.cancelled
        /\ b.pc = a.pc /\ b.answer = a.answer /\ b.knew = a.knew /\ b.sees = a.sees
    BY <1>3 DEF Ask
  <1>6. asks' = [asks EXCEPT ![k] = b]
    OBVIOUS
  <1> HIDE DEF b
  <1>7. AskSound(b)
    BY <1>2, <1>3, <1>5 DEF AskSound
  <1>8. /\ asks' \in Seq(Ask) /\ Len(asks') <= MaxAsks /\ DOMAIN asks' = DOMAIN asks
        /\ asks'[k] = b /\ \A j \in DOMAIN asks \ {k} : asks'[j] = asks[j]
    BY <1>2, <1>4, <1>6, OneAsk DEF IInv
  <1>9. AsksSound'
    BY <1>2, <1>4, <1>6, <1>7, OneAskSound DEF IInv
  <1>10. /\ calls' \in [Calls -> Call \cup {NoCall}] /\ CallsSound'
         /\ calls'[c] = call /\ \A d \in Calls \ {c} : calls'[d] = calls[d]
    BY OneCall DEF IInv
  <1>11. ASSUME NEW j \in DOMAIN asks, NEW d \in Calls
         PROVE  (d \in asks[j].waiters <=> Waits(d, j))'
    <2>0. d \in asks[j].waiters <=> Waits(d, j)
      BY DEF IInv, Waiters
    <2>1. CASE d = c
      <3>1. Waits(d, j)' <=> j = k
        BY <1>10, <2>1 DEF Waits
      <3>2. d \in asks'[j].waiters <=> j = k
        BY <1>5, <1>8, <2>0, <2>1 DEF Waits
      <3> QED
        BY <3>1, <3>2
    <2>2. CASE d # c
      <3>1. Waits(d, j)' <=> Waits(d, j)
        BY <1>10, <2>2 DEF Waits
      <3>2. d \in asks'[j].waiters <=> d \in asks[j].waiters
        BY <1>5, <1>8, <2>2
      <3> QED
        BY <2>0, <3>1, <3>2
    <2> QED
      BY <2>1, <2>2
  <1>12. \A d \in Calls : calls'[d].pc = "verdict" => calls'[d].ask \in DOMAIN asks'
    BY <1>2, <1>8, <1>10 DEF IInv, Waiters
  <1>13. Waiters'
    BY <1>8, <1>11, <1>12 DEF Waiters
  <1>14. \A f \in Entries(memo) : f.verdict = "asking" => Joinable(f)'
    <2> TAKE f \in Entries(memo)
    <2> HAVE f.verdict = "asking"
    <2>1. Joinable(f)
      BY DEF IInv, MemoSound, MemoJoinable
    <2>2. CASE f.ask = k
      BY ZenonT(60), <1>5, <1>8, <2>1, <2>2 DEF Joinable
    <2>3. CASE f.ask # k
      BY <1>8, <2>1, <2>3 DEF Joinable
    <2> QED
      BY <2>2, <2>3
  <1>15. memo' \in Seq(Entry) /\ Once(memo') /\ Entries(memo') = Entries(memo)
    BY UsedIs DEF IInv, TypeOK, MemoSound, MemoOnce
  <1>16. MemoKept
    BY <1>14, <1>15, MemoStays DEF IInv
  <1>17. TypeOK'
    BY <1>8, <1>10, <1>16 DEF IInv, TypeOK, MemoKept
  <1> QED
    BY <1>9, <1>10, <1>13, <1>16, <1>17 DEF IInv, StepSound, MemoKept

(* A verdict is asked for.                                                  *)
LEMMA NewAskIs ==
    ASSUME IInv, NEW c \in Calls, calls[c].pc # "verdict",
           NEW k, k = Len(asks) + 1, k <= MaxAsks,
           NEW text \in Texts, Held(memo, text) = {},
           NEW call \in Call, CallSound(call), call.pc = "verdict", call.ask = k,
           Becomes(c, call), memo' = MemoSet(memo, text, "asking", k),
           asks' = Append(asks, NewAsk(c, text)), UNCHANGED schema
    PROVE  StepSound
  <1> DEFINE n == Len(asks)
             a == NewAsk(c, text)
  <1>1. /\ n \in Nat /\ DOMAIN asks = 1 .. n /\ asks \in Seq(Ask) /\ MaxAsks \in Nat
        /\ schema.now \in Schemas
    BY RoutingAssumption DEF IInv, TypeOK
  <1>2. k \in 0 .. MaxAsks /\ k \notin DOMAIN asks
    BY <1>1
  <1>3. a \in Ask
    BY <1>1 DEF NewAsk, Ask, Schemas, Empty
  <1>4. /\ a.waiters = {c} /\ ~a.settled /\ ~a.cancelled /\ a.text = text
        /\ a.pc = "acquiring" /\ a.answer = "none" /\ (a.knew => schema.now.table)
    BY DEF NewAsk
  <1>a. asks' = Append(asks, a) /\ k = n + 1
    OBVIOUS
  <1> HIDE DEF a
  <1>5. /\ asks' \in Seq(Ask) /\ Len(asks') <= MaxAsks /\ DOMAIN asks' = 1 .. n + 1
        /\ asks'[k] = a /\ \A j \in DOMAIN asks : asks'[j] = asks[j]
    BY <1>1, <1>3, <1>a
  <1>6. \A j \in 1 .. n + 1 : j = k \/ j \in DOMAIN asks
    BY <1>1
  <1>7. k \in DOMAIN asks' /\ DOMAIN asks \subseteq DOMAIN asks'
    BY <1>1, <1>5
  <1>8. AsksSound'
    <2>1. AskSound(asks[k])'
      BY <1>4, <1>5 DEF AskSound
    <2>2. \A j \in DOMAIN asks : AskSound(asks[j])'
      BY <1>5 DEF IInv, AsksSound, AskSound
    <2>3. \A j \in DOMAIN asks' : AskSound(asks[j])'
      BY <1>5, <1>6, <2>1, <2>2
    <2> QED
      BY <2>3 DEF AsksSound
  <1>9. /\ calls' \in [Calls -> Call \cup {NoCall}] /\ CallsSound'
        /\ calls'[c] = call /\ \A d \in Calls \ {c} : calls'[d] = calls[d]
    BY OneCall DEF IInv
  <1>10. ASSUME NEW j \in DOMAIN asks', NEW d \in Calls
         PROVE  (d \in asks[j].waiters <=> Waits(d, j))'
    <2>0. j \in DOMAIN asks => (d \in asks[j].waiters <=> Waits(d, j))
      BY DEF IInv, Waiters
    <2>1. Waits(d, k) <=> FALSE
      BY <1>2 DEF IInv, Waiters, Waits
    <2>2. Waits(d, j)' <=> IF d = c THEN j = k ELSE Waits(d, j)
      BY <1>9 DEF Waits
    <2>3. CASE j = k
      BY <1>4, <1>5, <2>1, <2>2, <2>3
    <2>4. CASE j # k
      <3>1. j \in DOMAIN asks
        BY <1>5, <1>6, <2>4
      <3>2. d = c => ~Waits(d, j)
        BY DEF Waits
      <3> QED
        BY <1>5, <2>0, <2>2, <2>4, <3>1, <3>2
    <2> QED
      BY <2>3, <2>4
  <1>11. \A d \in Calls : calls'[d].pc = "verdict" => calls'[d].ask \in DOMAIN asks'
    BY <1>7, <1>9 DEF IInv, Waiters
  <1>12. Waiters'
    BY <1>10, <1>11 DEF Waiters
  <1>13. \A e \in Entries(memo) : e.text # text /\ e.verdict = "asking" => Joinable(e)'
    BY <1>5, <1>7 DEF IInv, MemoSound, MemoJoinable, Joinable
  <1>14. Joinable([text |-> text, verdict |-> "asking", ask |-> k])'
    BY <1>4, <1>5, <1>7 DEF Joinable
  <1>15. ~Settled(memo, text) /\ text \in Texts \cup TxTexts
    BY DEF Settled
  <1>16. "asking" \in {"asking", "read", "write", "refused"}
    OBVIOUS
  <1>17. MemoKept
    BY <1>2, <1>13, <1>14, <1>15, <1>16, MemoLearns DEF IInv
  <1>18. TypeOK'
    BY <1>5, <1>9, <1>17 DEF IInv, TypeOK, MemoKept
  <1> QED
    BY <1>8, <1>9, <1>12, <1>17, <1>18 DEF IInv, StepSound, MemoKept

(* kindFor.                                                                 *)
LEMMA KindForIs ==
    ASSUME IInv, NEW c \in Calls, calls[c].pc # "verdict",
           NEW call \in Call, CallSound(call), call.pc = "made",
           KindFor(c, call), UNCHANGED schema
    PROVE  StepSound
  <1> DEFINE held == Held(memo, call.text)
  <1>1. call.text \in Texts
    BY DEF Call
  <1>2. /\ Entries(memo) \subseteq Entry
        /\ held = {e \in Entries(memo) : e.text = call.text}
        /\ \A e, f \in held : e = f
    BY HeldIs DEF IInv, TypeOK, MemoSound, MemoOnce
  <1>3. ASSUME Settled(memo, call.text), memo' = Used(memo, call.text),
               NEW e \in held, Becomes(c, Kinded(call, e.verdict)), UNCHANGED asks
        PROVE  StepSound
    <2>1. e.verdict \in {"read", "write", "refused"}
      BY <1>2, <1>3 DEF Settled, Entry
    <2>2. /\ Kinded(call, e.verdict) \in Call /\ CallSound(Kinded(call, e.verdict))
          /\ Kinded(call, e.verdict).pc # "verdict"
      BY <2>1, KindedIs
    <2>3. memo' \in Seq(Entry) /\ Once(memo') /\ Entries(memo') = Entries(memo)
      BY <1>3, UsedIs DEF IInv, TypeOK, MemoSound, MemoOnce
    <2>4. \A f \in Entries(memo) : f.verdict = "asking" => Joinable(f)'
      BY <1>3 DEF IInv, MemoSound, MemoJoinable, Joinable
    <2>5. MemoKept
      BY <2>3, <2>4, MemoStays DEF IInv
    <2> QED
      BY <1>3, <2>2, <2>5, QuietCall
  <1> DEFINE waiting(k) == [call EXCEPT !.pc = "verdict", !.ask = k]
  <1>4. ASSUME NEW k \in 0 .. MaxAsks
        PROVE  /\ waiting(k) \in Call /\ CallSound(waiting(k))
               /\ waiting(k).pc = "verdict" /\ waiting(k).ask = k
    BY DEF Call, CallSound
  <1> HIDE DEF waiting
  <1>5. ASSUME ~Settled(memo, call.text), memo' = Used(memo, call.text),
               NEW e \in held, Becomes(c, waiting(e.ask)),
               asks' = [asks EXCEPT ![e.ask].waiters = @ \cup {c}]
        PROVE  StepSound
    <2>1. /\ e \in Entries(memo) /\ e.verdict = "asking" /\ e.text = call.text
          /\ e.ask \in 0 .. MaxAsks
      BY <1>2, <1>5 DEF Settled, Entry
    <2>2. memo' = Used(memo, e.text)
      BY <1>5, <2>1
    <2> QED
      BY <1>4, <1>5, <2>1, <2>2, JoinIs
  <1>6. ASSUME held = {}, Len(asks) + 1 <= MaxAsks,
               memo' = MemoSet(memo, call.text, "asking", Len(asks) + 1),
               Becomes(c, waiting(Len(asks) + 1)),
               asks' = Append(asks, NewAsk(c, call.text))
        PROVE  StepSound
    <2>1. Len(asks) + 1 \in 0 .. MaxAsks
      BY <1>6, RoutingAssumption DEF IInv, TypeOK
    <2> QED
      BY <1>1, <1>4, <1>6, <2>1, NewAskIs
  <1> QED
    BY <1>3, <1>5, <1>6 DEF KindFor, waiting
-----------------------------------------------------------------------------
(* One lemma per step of a caller, and of its worker.                       *)

(* A call that ends is sound if what it is told is true.                    *)
LEMMA OverSound ==
    ASSUME NEW call \in Call, CallSound(call), NEW v \in Told,
           v \in Unwritten => call.wrote = 0,
           v = "ok" /\ call.method = "stream" => call.counted # 0,
           v \in {"aborted", "cancelled"} => call.aborted
    PROVE  /\ Over(call, v) \in Call /\ CallSound(Over(call, v))
           /\ Over(call, v).pc = "over"
  <1>1. call.wrote <= 1 /\ call.from \subseteq {call.attempt}
    BY DEF CallSound, Call
  <1> QED
    BY <1>1, OverIs DEF CallSound, Unwritten

(* A step of a call that waits for no verdict, the memo not touched.        *)
LEMMA QuietStep ==
    ASSUME IInv, NEW c \in Calls, NEW call \in Call, CallSound(call),
           call.pc # "verdict", calls[c].pc # "verdict", Becomes(c, call),
           UNCHANGED <<memo, asks, schema>>
    PROVE  StepSound
  <1>1. MemoKept
    BY MemoUntouched DEF IInv
  <1> QED
    BY <1>1, QuietCall

(* A call that has begun is sound.                                          *)
LEMMA CallIs ==
    ASSUME IInv, NEW c \in Calls, calls[c].pc # "idle"
    PROVE  calls[c] \in Call /\ CallSound(calls[c])
  BY CallTyped DEF IInv, CallsSound

(* A call begins.                                                           *)
LEMMA BeginStep ==
    ASSUME IInv, NEW c \in Calls, NEW text \in Texts,
           Run(c, text) \/ First(c, text) \/ Stream(c, text)
    PROVE  StepSound
  <1>1. calls[c].pc = "idle"
    BY DEF Run, First, Stream
  <1>2. CASE Run(c, text)
    <2>1. NewCall("run", text) \in Call /\ CallSound(NewCall("run", text))
          /\ NewCall("run", text).pc = "made"
      BY NewCallIs
    <2> QED
      BY <1>1, <1>2, <2>1, KindForIs DEF Run
  <1>3. CASE First(c, text)
    <2> DEFINE new == NewCall("first", text)
               call == [new EXCEPT !.pc = "leasing"]
    <2>1. new \in Call /\ CallSound(new) /\ new.pc = "made"
      BY NewCallIs
    <2> HIDE DEF new
    <2>2. call \in Call /\ CallSound(call) /\ call.pc = "leasing"
      BY <2>1 DEF Call, CallSound
    <2>3. Becomes(c, call) /\ UNCHANGED <<memo, asks, schema>>
      BY <1>3 DEF First, new
    <2> QED
      BY <1>1, <2>2, <2>3, QuietStep
  <1>4. CASE Stream(c, text)
    <2>1. NewCall("stream", text) \in Call /\ CallSound(NewCall("stream", text))
          /\ NewCall("stream", text).pc = "made"
      BY NewCallIs
    <2> QED
      BY <1>1, <1>4, <2>1, QuietStep DEF Stream
  <1> QED
    BY <1>2, <1>3, <1>4

(* The first next() of a generator.                                         *)
LEMMA PullStep ==
    ASSUME IInv, NEW c \in Calls, Pull(c)
    PROVE  StepSound
  <1>1. calls[c].pc = "made" /\ calls[c] \in Call /\ CallSound(calls[c])
    BY CallIs DEF Pull
  <1>2. CASE calls[c].aborted
    <2>1. /\ Over(calls[c], "aborted") \in Call /\ CallSound(Over(calls[c], "aborted"))
          /\ Over(calls[c], "aborted").pc = "over"
      BY <1>1, <1>2, OverSound DEF Told, Unwritten
    <2> QED
      BY <1>1, <1>2, <2>1, QuietStep DEF Pull
  <1>3. CASE ~calls[c].aborted
    BY <1>1, <1>3, KindForIs DEF Pull
  <1> QED
    BY <1>2, <1>3

(* A caller's signal ends its wait for a verdict.                           *)
LEMMA LeaveVerdictStep ==
    ASSUME IInv, NEW c \in Calls, LeaveVerdict(c)
    PROVE  StepSound
  <1>1. /\ calls[c].pc = "verdict" /\ calls[c] \in Call /\ CallSound(calls[c])
        /\ calls[c].aborted
    BY CallIs DEF LeaveVerdict
  <1>2. /\ Over(calls[c], "aborted") \in Call /\ CallSound(Over(calls[c], "aborted"))
        /\ Over(calls[c], "aborted").pc = "over"
    BY <1>1, OverSound DEF Told, Unwritten
  <1> QED
    BY <1>1, <1>2, LeftIs DEF LeaveVerdict

(* The verdict reaches a caller: a request somebody waits for was not       *)
(* cancelled.                                                               *)
LEMMA HearVerdictStep ==
    ASSUME IInv, NEW c \in Calls, HearVerdict(c)
    PROVE  StepSound
  <1> DEFINE k == calls[c].ask
             answer == asks[k].answer
             call == IF answer \in {"read", "write", "refused"}
                     THEN Kinded(calls[c], answer) ELSE Over(calls[c], answer)
  <1>1. calls[c].pc = "verdict" /\ calls[c] \in Call /\ CallSound(calls[c])
    BY CallIs DEF HearVerdict
  <1>2. k \in DOMAIN asks /\ c \in asks[k].waiters
    BY <1>1 DEF IInv, Waiters, Waits
  <1>3. asks[k] \in Ask /\ AskSound(asks[k])
    BY <1>2, AskTyped DEF IInv, AsksSound
  <1>4. answer \in {"read", "write", "refused", "prepare", "passing", "death", "error"}
    BY <1>2, <1>3 DEF AskSound, Ask, HearVerdict
  <1> HIDE DEF answer
  <1>5. call \in Call /\ CallSound(call) /\ call.pc # "verdict"
    <2>1. CASE answer \in {"read", "write", "refused"}
      BY <1>1, <2>1, KindedIs
    <2>2. CASE answer \in {"prepare", "passing", "death", "error"}
      <3>1. calls[c].wrote = 0 /\ answer \in Told
        BY <1>1, <2>2 DEF CallSound, Told
      <3>2. Over(calls[c], answer) \in Call /\ CallSound(Over(calls[c], answer))
            /\ Over(calls[c], answer).pc = "over"
        BY <1>1, <2>2, <3>1, OverSound
      <3> QED
        BY <2>2, <3>2
    <2> QED
      BY <1>4, <2>1, <2>2
  <1>6. Left(k, c) /\ Becomes(c, call) /\ UNCHANGED schema
    BY DEF HearVerdict, answer
  <1> HIDE DEF call
  <1> QED
    BY <1>1, <1>5, <1>6, LeftIs

(* A generator is closed unread.                                            *)
LEMMA CloseUnreadStep ==
    ASSUME IInv, NEW c \in Calls, CloseUnread(c)
    PROVE  StepSound
  <1>1. calls[c].pc = "made" /\ calls[c] \in Call /\ CallSound(calls[c])
    BY CallIs DEF CloseUnread
  <1>2. /\ Over(calls[c], "closed") \in Call /\ CallSound(Over(calls[c], "closed"))
        /\ Over(calls[c], "closed").pc = "over"
    BY <1>1, OverSound DEF Told, CallSound
  <1> QED
    BY <1>1, <1>2, QuietStep DEF CloseUnread

(* The signal fires.                                                        *)
LEMMA AbortStep ==
    ASSUME IInv, NEW c \in Calls, Abort(c)
    PROVE  StepSound
  <1> DEFINE call == [calls[c] EXCEPT !.aborted = TRUE]
  <1>1. calls[c] \in Call /\ CallSound(calls[c])
    BY CallIs DEF Abort
  <1>2. call \in Call /\ call.pc = calls[c].pc /\ call.ask = calls[c].ask
    BY <1>1 DEF Call
  <1>3. CallSound(call)
    BY <1>1 DEF Call, CallSound
  <1>4. Becomes(c, call) /\ UNCHANGED <<memo, asks, schema>>
    BY DEF Abort, Becomes
  <1>5. MemoKept
    BY <1>4, MemoUntouched DEF IInv
  <1> HIDE DEF call
  <1> QED
    BY <1>2, <1>3, <1>4, <1>5, QuietCall

(* The lease is granted.                                                    *)
LEMMA LeaseStep ==
    ASSUME IInv, NEW c \in Calls, Lease(c)
    PROVE  StepSound
  <1>1. calls[c].pc = "leasing" /\ calls[c] \in Call /\ CallSound(calls[c])
    BY CallIs DEF Lease
  <1>2. CASE calls[c].aborted
    <2>1. /\ Over(calls[c], "aborted") \in Call /\ CallSound(Over(calls[c], "aborted"))
          /\ Over(calls[c], "aborted").pc = "over"
      BY <1>1, <1>2, OverSound DEF Told, Unwritten
    <2> QED
      BY <1>1, <1>2, <2>1, QuietStep DEF Lease
  <1>3. CASE ~calls[c].aborted
    <2> DEFINE call == [calls[c] EXCEPT !.pc = "running"]
    <2>1. call \in Call /\ CallSound(call) /\ call.pc = "running"
      BY <1>1 DEF Call, CallSound
    <2>2. Becomes(c, call) /\ UNCHANGED <<memo, asks, schema>>
      BY <1>3 DEF Lease
    <2> HIDE DEF call
    <2> QED
      BY <1>1, <2>1, <2>2, QuietStep
  <1> QED
    BY <1>2, <1>3

(* The statement cannot be prepared: nothing ran.                           *)
LEMMA UnpreparedStep ==
    ASSUME IInv, NEW c \in Calls, Unprepared(c)
    PROVE  StepSound
  <1>1. /\ calls[c].pc = "running" /\ calls[c] \in Call /\ CallSound(calls[c])
        /\ calls[c].wrote = 0
    BY CallIs DEF Unprepared, CallSound
  <1>2. PICK v \in {"multiple", "prepare"} : Becomes(c, Over(calls[c], v))
    BY DEF Unprepared
  <1>3. v \in Told /\ v # "ok" /\ v \notin {"aborted", "cancelled"}
    BY DEF Told
  <1>4. /\ Over(calls[c], v) \in Call /\ CallSound(Over(calls[c], v))
        /\ Over(calls[c], v).pc = "over"
    BY <1>1, <1>3, OverSound
  <1> QED
    BY <1>1, <1>2, <1>4, QuietStep DEF Unprepared

(* The worker refuses a write sent as a read, and the memo learns.          *)
LEMMA RefusedStep ==
    ASSUME IInv, NEW c \in Calls, Refused(c)
    PROVE  StepSound
  <1>1. /\ calls[c].pc = "running" /\ calls[c].kind = "read"
        /\ calls[c] \in Call /\ CallSound(calls[c]) /\ UNCHANGED <<asks, schema>>
    BY CallIs DEF Refused
  <1>2. /\ calls[c].wrote = 0 /\ calls[c].from = {} /\ ~calls[c].delivered
        /\ calls[c].counted = 0 /\ calls[c].told = "nothing"
        /\ calls[c].text \in Texts \cup TxTexts
    BY <1>1 DEF CallSound, Call
  <1>3. ASSUME Becomes(c, Over(calls[c], "notARead")), UNCHANGED memo
        PROVE  StepSound
    <2>1. /\ Over(calls[c], "notARead") \in Call /\ CallSound(Over(calls[c], "notARead"))
          /\ Over(calls[c], "notARead").pc = "over"
      BY <1>1, <1>2, OverSound DEF Told
    <2> QED
      BY <1>1, <1>3, <2>1, QuietStep
  <1>4. ASSUME memo' = Misrouted(memo, calls[c].text),
               Becomes(c, [Retried(calls[c]) EXCEPT !.kind = "write"])
        PROVE  StepSound
    <2> DEFINE again == Retried(calls[c])
               call == [again EXCEPT !.kind = "write"]
    <2>1. /\ again \in Call /\ again.pc = "leasing" /\ again.wrote = 0 /\ again.from = {}
          /\ again.counted = 0 /\ again.told = "nothing" /\ ~again.delivered
      BY <1>1, <1>2, RetriedIs
    <2> HIDE DEF again
    <2>2. call \in Call /\ CallSound(call) /\ call.pc = "leasing"
      BY <2>1 DEF Call, CallSound
    <2>3. Becomes(c, call)
      BY <1>4 DEF again
    <2>4. memo' = MemoSet(memo, calls[c].text, "write", NoAsk)
      BY <1>4 DEF Misrouted
    <2>5. /\ "write" \in {"asking", "read", "write", "refused"}
          /\ "write" # "asking" /\ NoAsk \in 0 .. MaxAsks
      BY RoutingAssumption DEF NoAsk
    <2>6. \A e \in Entries(memo) :
             e.text # calls[c].text /\ e.verdict = "asking" => Joinable(e)'
      BY <1>1 DEF IInv, MemoSound, MemoJoinable, Joinable
    <2>7. MemoKept
      BY <1>2, <2>4, <2>5, <2>6, MemoLearns DEF IInv
    <2> HIDE DEF call
    <2> QED
      BY <1>1, <2>2, <2>3, <2>7, QuietCall
  <1> QED
    BY <1>3, <1>4 DEF Refused
(* A count of 0 comes early: it is settled at once for a write only.        *)
LEMMA CountZeroStep ==
    ASSUME IInv, NEW c \in Calls, CountZero(c)
    PROVE  StepSound
  <1> DEFINE early == [calls[c] EXCEPT !.early = TRUE]
  <1>1. /\ calls[c].pc = "running" /\ calls[c] \in Call /\ CallSound(calls[c])
        /\ UNCHANGED <<memo, asks, schema>>
    BY CallIs DEF CountZero
  <1>2. early \in Call /\ CallSound(early) /\ early.pc = "running" /\ early.kind = calls[c].kind
    BY <1>1 DEF Call, CallSound
  <1>3. Becomes(c, IF calls[c].kind = "write" THEN Counted(early) ELSE early)
    BY DEF CountZero
  <1> HIDE DEF early
  <1>4. CASE calls[c].kind = "write"
    <2>1. Counted(early) \in Call /\ Counted(early).pc = "running"
      BY <1>2, CountedIs DEF Call
    <2>2. CallSound(Counted(early))
      BY <1>2, <1>4 DEF Counted, Call, CallSound
    <2> QED
      BY <1>1, <1>3, <1>4, <2>1, <2>2, QuietStep
  <1>5. CASE calls[c].kind # "write"
    BY <1>1, <1>2, <1>3, <1>5, QuietStep
  <1> QED
    BY <1>4, <1>5

(* The statement has run: only one sent as a write can have written.        *)
LEMMA RanStep ==
    ASSUME IInv, NEW c \in Calls, Ran(c)
    PROVE  StepSound
  <1> DEFINE writes == Writes(calls[c].text)
             done == [calls[c] EXCEPT !.wrote = IF writes THEN @ + 1 ELSE @]
  <1>1. /\ calls[c].pc = "running" /\ calls[c] \in Call /\ CallSound(calls[c])
        /\ UNCHANGED <<memo, asks, schema>> /\ (calls[c].kind = "read" => ~writes)
    BY CallIs DEF Ran
  <1>2. /\ calls[c].wrote = 0 /\ calls[c].from = {} /\ ~calls[c].delivered
        /\ calls[c].counted \in {0, calls[c].attempt} /\ calls[c].told = "nothing"
        /\ (calls[c].kind = "read" => calls[c].counted = 0)
    BY <1>1 DEF CallSound
  <1>3. /\ done \in Call /\ done.wrote = IF writes THEN 1 ELSE 0
        /\ done.from = {} /\ ~done.delivered /\ done.counted \in {0, done.attempt}
        /\ (done.kind = "read" => done.counted = 0 /\ done.wrote = 0)
        /\ done.told = "nothing" /\ done.aborted = calls[c].aborted
        /\ done.method = calls[c].method /\ done.attempt = calls[c].attempt
    BY <1>1, <1>2 DEF Call
  <1>4. Becomes(c,
            CASE calls[c].aborted -> Over(done, "aborted")
              [] ~calls[c].aborted /\ calls[c].method = "stream" ->
                     [IF writes THEN Counted(done) ELSE done EXCEPT !.pc = "delivering"]
              [] OTHER -> [Over(done, "ok") EXCEPT !.from = {calls[c].attempt}])
    BY DEF Ran
  <1> HIDE DEF writes, done
  <1>5. CASE calls[c].aborted
    <2> DEFINE over == Over(done, "aborted")
    <2>1. /\ over \in Call /\ over.pc = "over" /\ over.told = "aborted"
          /\ over.aborted = calls[c].aborted
          /\ over.wrote = done.wrote /\ over.from = {}
          /\ over.counted = done.counted /\ over.attempt = done.attempt
      BY <1>3, OverIs DEF Told
    <2>2. Becomes(c, over)
      BY <1>4, <1>5
    <2> HIDE DEF over
    <2>3. CallSound(over)
      BY <1>3, <1>5, <2>1 DEF CallSound, Unwritten
    <2> QED
      BY <1>1, <2>1, <2>2, <2>3, QuietStep
  <1>6. CASE ~calls[c].aborted /\ calls[c].method = "stream"
    <2> DEFINE told == IF writes THEN Counted(done) ELSE done
               call == [told EXCEPT !.pc = "delivering"]
    <2>1. /\ told \in Call /\ told.wrote = done.wrote /\ told.from = {} /\ ~told.delivered
          /\ told.counted \in {0, told.attempt} /\ told.kind = done.kind
          /\ (told.kind = "read" => told.counted = 0) /\ told.told = "nothing"
      <3>1. CASE writes
        BY ZenonT(60), <1>1, <1>3, <3>1 DEF Counted, Call, done
      <3>2. CASE ~writes
        BY <1>3, <3>2
      <3> QED
        BY <3>1, <3>2
    <2>2. Becomes(c, call)
      BY <1>4, <1>6
    <2> HIDE DEF told
    <2>3. call \in Call /\ call.pc = "delivering" /\ CallSound(call)
      BY <1>3, <2>1 DEF Call, CallSound
    <2> HIDE DEF call
    <2> QED
      BY <1>1, <2>2, <2>3, QuietStep
  <1>7. CASE ~calls[c].aborted /\ calls[c].method # "stream"
    <2> DEFINE over == Over(done, "ok")
               call == [over EXCEPT !.from = {calls[c].attempt}]
    <2>1. /\ over \in Call /\ over.pc = "over" /\ over.told = "ok" /\ over.wrote = done.wrote
          /\ over.counted = done.counted /\ over.attempt = calls[c].attempt
          /\ over.method = calls[c].method
      BY <1>3, OverIs DEF Told
    <2>2. Becomes(c, call)
      BY <1>4, <1>7
    <2> HIDE DEF over
    <2>3. call \in Call /\ call.pc = "over" /\ CallSound(call)
      BY <1>3, <1>7, <2>1 DEF Call, CallSound, Unwritten
    <2> HIDE DEF call
    <2> QED
      BY <1>1, <2>2, <2>3, QuietStep
  <1> QED
    BY <1>5, <1>6, <1>7

(* Rows are handed over, and the count with them.                           *)
LEMMA DeliverStep ==
    ASSUME IInv, NEW c \in Calls, Deliver(c)
    PROVE  StepSound
  <1> DEFINE counted == Counted(calls[c])
             call == [counted EXCEPT !.delivered = TRUE, !.from = @ \cup {calls[c].attempt}]
  <1>1. /\ calls[c].pc = "delivering" /\ calls[c] \in Call /\ CallSound(calls[c])
        /\ UNCHANGED <<memo, asks, schema>> /\ Becomes(c, call)
    BY CallIs DEF Deliver
  <1>2. /\ counted \in Call /\ CallSound([counted EXCEPT !.delivered = TRUE])
        /\ counted.attempt = calls[c].attempt /\ counted.pc = "delivering"
        /\ counted.from = calls[c].from
    BY <1>1 DEF Counted, Call, CallSound
  <1> HIDE DEF counted
  <1>3. call \in Call /\ call.pc = "delivering" /\ CallSound(call)
    BY <1>1, <1>2 DEF Call, CallSound
  <1> HIDE DEF call
  <1> QED
    BY <1>1, <1>3, QuietStep

(* The stream ends, its count settled.                                      *)
LEMMA EndStreamStep ==
    ASSUME IInv, NEW c \in Calls, EndStream(c)
    PROVE  StepSound
  <1>1. /\ calls[c].pc = "delivering" /\ calls[c] \in Call /\ CallSound(calls[c])
        /\ UNCHANGED <<memo, asks, schema>>
    BY CallIs DEF EndStream
  <1>2. CASE calls[c].aborted
    <2>1. /\ Over(calls[c], "aborted") \in Call /\ CallSound(Over(calls[c], "aborted"))
          /\ Over(calls[c], "aborted").pc = "over"
      BY <1>1, <1>2, OverSound DEF Told, Unwritten
    <2> QED
      BY <1>1, <1>2, <2>1, QuietStep DEF EndStream
  <1>3. CASE ~calls[c].aborted
    <2> DEFINE counted == Counted(calls[c])
    <2>1. /\ counted \in Call /\ counted.attempt # 0 /\ counted.counted = counted.attempt
          /\ counted.wrote <= 1 /\ counted.from \subseteq {counted.attempt}
      BY <1>1 DEF Counted, Call, CallSound
    <2>2. Becomes(c, Over(counted, "ok"))
      BY <1>3 DEF EndStream
    <2> HIDE DEF counted
    <2>3. /\ Over(counted, "ok") \in Call /\ CallSound(Over(counted, "ok"))
          /\ Over(counted, "ok").pc = "over"
      BY <2>1, OverIs DEF Told, CallSound, Unwritten
    <2> QED
      BY <1>1, <2>2, <2>3, QuietStep
  <1> QED
    BY <1>2, <1>3

(* The statement fails: only a read that showed nothing is sent again, and  *)
(* one told of a BUSY had written nothing.                                  *)
LEMMA FailsStep ==
    ASSUME IInv, NEW c \in Calls, Fails(c)
    PROVE  StepSound
  <1>1. /\ calls[c].pc \in {"running", "delivering"} /\ calls[c] \in Call
        /\ CallSound(calls[c]) /\ UNCHANGED <<memo, asks, schema>>
    BY CallIs DEF Fails
  <1>2. PICK why \in {"busy", "error"}, took \in {0, 1} :
            LET failed == [calls[c] EXCEPT !.wrote = @ + took] IN
            /\ why = "busy" => calls[c].pc = "running" \/ calls[c].wrote = 0
            /\ took = 1 => why = "error" /\ calls[c].pc = "running"
            /\ Becomes(c, IF Retries(calls[c], why) THEN Retried(failed)
                          ELSE FailedWith(failed, why))
    BY DEF Fails
  <1> DEFINE failed == [calls[c] EXCEPT !.wrote = @ + took]
  <1>3. took = 0 => failed = calls[c]
    BY <1>1 DEF Call
  <1>4. /\ failed \in Call /\ failed.wrote = calls[c].wrote + took
        /\ failed.pc = calls[c].pc /\ failed.from = calls[c].from
        /\ failed.counted = calls[c].counted /\ failed.attempt = calls[c].attempt
        /\ failed.aborted = calls[c].aborted /\ failed.method = calls[c].method
    BY <1>1 DEF Call
  <1>5. /\ why = "busy" => calls[c].wrote = 0 /\ took = 0
        /\ took = 1 => calls[c].wrote = 0
        /\ Becomes(c, IF Retries(calls[c], why) THEN Retried(failed)
                      ELSE FailedWith(failed, why))
    BY <1>1, <1>2 DEF CallSound
  <1> HIDE DEF failed
  <1>6. CASE Retries(calls[c], why)
    <2>1. failed = calls[c] /\ Becomes(c, Retried(calls[c]))
      BY <1>3, <1>5, <1>6 DEF Retries
    <2>2. /\ Retried(calls[c]) \in Call /\ Retried(calls[c]).pc = "leasing"
          /\ Retried(calls[c]).attempt = calls[c].attempt + 1
          /\ Retried(calls[c]).wrote = calls[c].wrote /\ Retried(calls[c]).from = calls[c].from
          /\ Retried(calls[c]).counted = calls[c].counted
          /\ Retried(calls[c]).told = calls[c].told
          /\ Retried(calls[c]).delivered = calls[c].delivered
          /\ Retried(calls[c]).aborted = calls[c].aborted
      BY <1>1, RetriedIs
    <2>3. /\ calls[c].wrote = 0 /\ calls[c].from = {} /\ ~calls[c].delivered
          /\ calls[c].counted = 0 /\ calls[c].told = "nothing"
      BY <1>1, <1>5, <1>6 DEF Retries, CallSound
    <2>4. CallSound(Retried(calls[c]))
      BY <2>2, <2>3 DEF CallSound
    <2> QED
      BY <1>1, <2>1, <2>2, <2>4, QuietStep
  <1>7. CASE ~Retries(calls[c], why)
    <2> DEFINE v == IF why = "error" /\ failed.aborted THEN "aborted" ELSE why
    <2>1. /\ v \in {"aborted", "busy", "error"} /\ (v = "aborted" => failed.aborted)
          /\ (v = "busy" => why = "busy") /\ v \in Told
      BY DEF Told
    <2>2. Becomes(c, Over(failed, v))
      BY <1>5, <1>7 DEF FailedWith
    <2> HIDE DEF v
    <2>3. /\ failed.wrote <= 1 /\ failed.from \subseteq {failed.attempt}
          /\ failed.counted \in {0, failed.attempt} /\ (v = "busy" => failed.wrote = 0)
      <3>1. calls[c].wrote \in Nat /\ calls[c].wrote <= 1
        BY <1>1 DEF CallSound, Call
      <3> QED
        BY <1>1, <1>4, <1>5, <2>1, <3>1 DEF CallSound
    <2>4. /\ Over(failed, v) \in Call /\ Over(failed, v).pc = "over"
          /\ Over(failed, v).told = v /\ Over(failed, v).wrote = failed.wrote
          /\ Over(failed, v).from = failed.from /\ Over(failed, v).counted = failed.counted
          /\ Over(failed, v).attempt = failed.attempt
          /\ Over(failed, v).aborted = failed.aborted
      BY <1>4, <2>1, OverIs
    <2>5. CallSound(Over(failed, v))
      BY <2>1, <2>3, <2>4 DEF CallSound, Unwritten
    <2> QED
      BY <1>1, <2>2, <2>4, <2>5, QuietStep
  <1> QED
    BY <1>6, <1>7

(* A transaction's answer is kept where the memo has none.                  *)
LEMMA TxVerdictStep ==
    ASSUME IInv, NEW text \in TxTexts, TxVerdict(text)
    PROVE  StepSound
  <1>1. PICK s \in Schemas :
            /\ Prepared(text, s) # "prepare"
            /\ memo' = MemoSet(memo, text, Prepared(text, s), NoAsk)
    BY DEF TxVerdict
  <1> DEFINE verdict == Prepared(text, s)
  <1>2. verdict \in {"read", "write", "refused"}
    BY <1>1, PreparedIs
  <1>3. memo' = MemoSet(memo, text, verdict, NoAsk)
    BY <1>1
  <1> HIDE DEF verdict
  <1>4. /\ NoAsk \in 0 .. MaxAsks /\ text \in Texts \cup TxTexts /\ ~Settled(memo, text)
        /\ verdict \in {"asking", "read", "write", "refused"} /\ verdict # "asking"
        /\ UNCHANGED <<asks, calls, schema>>
    BY <1>2, RoutingAssumption DEF NoAsk, TxVerdict
  <1>5. \A e \in Entries(memo) : e.text # text /\ e.verdict = "asking" => Joinable(e)'
    BY <1>4 DEF IInv, MemoSound, MemoJoinable, Joinable
  <1>6. MemoKept
    BY <1>3, <1>4, <1>5, MemoLearns DEF IInv
  <1>7. TypeOK' /\ CallsSound' /\ Waiters' /\ AsksSound'
    BY <1>4, <1>6
    DEF IInv, TypeOK, MemoKept, CallsSound, Waiters, Waits, AsksSound, AskSound
  <1> QED
    BY <1>6, <1>7 DEF IInv, StepSound, MemoKept

(* The schema changes; the table, once there, stays.                        *)
LEMMA ChangeStep ==
    ASSUME IInv, Change
    PROVE  StepSound
  <1>1. /\ UNCHANGED <<memo, asks, calls>> /\ (schema.now.table => schema'.now.table)
        /\ schema' \in [now : Schemas, past : SUBSET Schemas]
    BY DEF IInv, TypeOK, Change, Seen
  <1>2. MemoKept
    BY <1>1, MemoUntouched DEF IInv
  <1>3. TypeOK' /\ CallsSound' /\ Waiters'
    BY <1>1 DEF IInv, TypeOK, CallsSound, Waiters, Waits
  <1>4. AsksSound'
    BY <1>1 DEF IInv, AsksSound, AskSound
  <1> QED
    BY <1>2, <1>3, <1>4 DEF IInv, StepSound, MemoKept

-----------------------------------------------------------------------------
(* The invariant, and what it says.                                         *)

(* The client begins with nothing.                                          *)
LEMMA InitSound == Init => IInv
  <1> SUFFICES ASSUME Init PROVE IInv
    OBVIOUS
  <1>1. memo = <<>> /\ asks = <<>> /\ calls = [c \in Calls |-> NoCall]
    BY DEF Init
  <1>2. TypeOK
    <2>1. schema \in [now : Schemas, past : SUBSET Schemas]
      BY RoutingAssumption DEF Init, Schemas
    <2> QED
      BY <1>1, <2>1, RoutingAssumption DEF TypeOK
  <1>3. DOMAIN memo = {} /\ DOMAIN asks = {}
    BY <1>1
  <1>4. MemoSound
    BY <1>3 DEF MemoSound, MemoOnce, Once, MemoShort, MemoJoinable, Entries
  <1>5. CallsSound /\ Waiters
    BY <1>1, <1>3 DEF CallsSound, Waiters, NoCall
  <1>6. AsksSound
    BY <1>3 DEF AsksSound
  <1> QED
    BY <1>2, <1>4, <1>5, <1>6 DEF IInv

(* Every step keeps it.                                                     *)
LEMMA NextSound == IInv /\ [Next]_vars => StepSound
  <1> SUFFICES ASSUME IInv, [Next]_vars PROVE StepSound
    OBVIOUS
  <1>1. ASSUME NEW c \in Calls, NEW text \in Texts,
               Run(c, text) \/ First(c, text) \/ Stream(c, text)
        PROVE  StepSound
    BY <1>1, BeginStep
  <1>2. ASSUME NEW c \in Calls,
               \/ Pull(c) \/ CloseUnread(c) \/ Abort(c)
               \/ Client(c) \/ Worker(c) \/ Deliver(c) \/ EndStream(c) \/ Fails(c)
        PROVE  StepSound
    BY <1>2, PullStep, CloseUnreadStep, AbortStep, LeaveVerdictStep, HearVerdictStep,
       LeaseStep, UnpreparedStep, RefusedStep, CountZeroStep, RanStep, DeliverStep,
       EndStreamStep, FailsStep
    DEF Client, Worker
  <1>3. ASSUME NEW k \in DOMAIN asks,
               Asking(k) \/ AskFailing(k)
        PROVE  StepSound
    BY <1>3, AskAcquireStep, AskAnswersStep, AskBarrierStep, AskAgainStep, AskFailsStep
    DEF Asking, AskFailing
  <1>4. ASSUME NEW text \in TxTexts, TxVerdict(text) PROVE StepSound
    BY <1>4, TxVerdictStep
  <1>5. CASE Change
    BY <1>5, ChangeStep
  <1>6. CASE UNCHANGED vars
    <2>1. UNCHANGED <<memo, asks, calls, schema>>
      BY <1>6 DEF vars
    <2>2. MemoKept
      BY <2>1, MemoUntouched DEF IInv
    <2>3. TypeOK' /\ CallsSound' /\ Waiters' /\ AsksSound'
      BY <2>1 DEF IInv, TypeOK, CallsSound, Waiters, Waits, AsksSound, AskSound
    <2> QED
      BY <2>2, <2>3 DEF IInv, StepSound, MemoKept
  <1> QED
    BY <1>1, <1>2, <1>3, <1>4, <1>5, <1>6 DEF Next

(* The invariant holds.                                                     *)
LEMMA RoutingInvariant == Spec => []IInv
  <1>1. IInv /\ [Next]_vars => IInv'
    BY NextSound DEF StepSound
  <1> QED
    BY InitSound, <1>1, PTL DEF Spec

(* Every variable keeps its type.                                           *)
THEOREM RoutingTypes == Spec => []TypeOK
  <1>1. IInv => TypeOK
    BY DEF IInv
  <1> QED
    BY RoutingInvariant, <1>1, PTL

(* However often a call is sent it changes the file at most once, shows the *)
(* rows of one attempt, and one told of a BUSY, of a refusal or of a        *)
(* verdict that failed wrote nothing.                                       *)
THEOREM OnceOnly == Spec => []AtMostOnce
  <1>1. ASSUME IInv PROVE AtMostOnce
    <2> SUFFICES ASSUME NEW c \in Started
                 PROVE  /\ calls[c].wrote <= 1
                        /\ Cardinality(calls[c].from) <= 1
                        /\ calls[c].told \in Unwritten => calls[c].wrote = 0
      BY DEF AtMostOnce
    <2>1. calls[c] \in Call /\ CallSound(calls[c])
      BY <1>1, CallIs DEF Started
    <2>2. calls[c].wrote <= 1 /\ calls[c].from \subseteq {calls[c].attempt}
      BY <2>1 DEF CallSound, Call
    <2>3. Cardinality(calls[c].from) <= 1
      <3>1. calls[c].from = {} \/ calls[c].from = {calls[c].attempt}
        BY <2>2
      <3>2. CASE calls[c].from = {}
        BY <3>2, FS_EmptySet
      <3>3. CASE calls[c].from = {calls[c].attempt}
        <4>1. Cardinality({calls[c].attempt}) = 1
          BY FS_Singleton
        <4> QED
          BY <3>3, <4>1
      <3> QED
        BY <3>1, <3>2, <3>3
    <2>4. calls[c].told \in Unwritten => calls[c].wrote = 0
      <3>1. calls[c].told # "nothing" => calls[c].pc = "over"
        BY <2>1 DEF CallSound
      <3> QED
        BY <2>1, <3>1 DEF CallSound, Unwritten
    <2> QED
      BY <2>2, <2>3, <2>4
  <1> QED
    BY RoutingInvariant, <1>1, PTL

(* The count a stream's caller is told is that of the attempt that ran.     *)
THEOREM CountIsOfTheRun == Spec => []CountTruthful
  <1>1. ASSUME IInv PROVE CountTruthful
    <2> SUFFICES ASSUME NEW c \in Started
                 PROVE  /\ calls[c].counted \in {0, calls[c].attempt}
                        /\ calls[c].method = "stream" /\ calls[c].told = "ok"
                              => calls[c].counted # 0
      BY DEF CountTruthful
    <2>1. CallSound(calls[c])
      BY <1>1, CallIs DEF Started
    <2> QED
      BY <2>1 DEF CallSound
  <1> QED
    BY RoutingInvariant, <1>1, PTL

(* No caller is told of another's abort, nor that a table that existed when *)
(* it asked is missing.                                                     *)
THEOREM SharedAsksTellTheTruth == Spec => []SharedAskTruthful
  <1>1. ASSUME IInv PROVE NoForeignAbort
    <2>1. \A c \in Started : calls[c].told \in {"aborted", "cancelled"} => calls[c].aborted
      <3> TAKE c \in Started
      <3>1. CallSound(calls[c])
        BY <1>1, CallIs DEF Started
      <3> QED
        BY <3>1 DEF CallSound
    <2>2. \A k \in DOMAIN asks :
             ~asks[k].settled => (asks[k].cancelled <=> asks[k].waiters = {})
      BY <1>1 DEF IInv, AsksSound, AskSound
    <2>3. \A i \in DOMAIN memo : memo[i].verdict = "asking" => ~asks[memo[i].ask].cancelled
      BY <1>1 DEF IInv, MemoSound, MemoJoinable, Entries, Joinable
    <2> QED
      BY <2>1, <2>2, <2>3 DEF NoForeignAbort
  <1>2. ASSUME IInv PROVE NoStaleFailure
    BY <1>2 DEF IInv, AsksSound, AskSound, NoStaleFailure
  <1>3. IInv => SharedAskTruthful
    BY <1>1, <1>2 DEF SharedAskTruthful
  <1> QED
    BY RoutingInvariant, <1>3, PTL

(* A text the memo knows to write stays with the writer while it is known:  *)
(* no verdict that was still in flight replaces what a refusal taught.      *)
THEOREM WritesStickToTheWriter == Spec => WriteSticks
  <1>1. ASSUME IInv, [Next]_vars
        PROVE  \A i \in DOMAIN memo :
                  memo[i].verdict = "write" =>
                      \A e \in Held(memo', memo[i].text) : e.verdict = "write"
    <2>1. Sticks
      BY <1>1, NextSound DEF StepSound
    <2> SUFFICES ASSUME NEW i \in DOMAIN memo, memo[i].verdict = "write",
                        NEW e \in Held(memo', memo[i].text)
                 PROVE  e.verdict = "write"
      OBVIOUS
    <2>2. memo[i] \in Entries(memo) /\ e \in Entries(memo') /\ e.text = memo[i].text
      BY DEF Entries, Held
    <2> QED
      BY <2>1, <2>2 DEF Sticks
  <1> QED
    BY RoutingInvariant, <1>1, PTL DEF Spec, WriteSticks
=============================================================================
