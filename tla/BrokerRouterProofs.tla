-------------------------- MODULE BrokerRouterProofs --------------------------
(***************************************************************************)
(* The broker router under any number of concurrent record_outcome calls   *)
(* and manual fail-backs: its windows stay within their rings, and every   *)
(* switch of the active slot yields exactly one FailoverEvent, and every   *)
(* ring holds the last outcomes in order unless it wrapped while a reset   *)
(* was between the two stores it consists of.                              *)
(***************************************************************************)
EXTENDS BrokerRouter, FiniteSetTheorems, TLAPS

USE DEF stats, history

(***************************************************************************)
(* Type correctness                                                        *)
(***************************************************************************)
\* AdapterStats::record keeps a window within its ring.
LEMMA RingBounded ==
    ASSUME NEW w \in Seq(Sample), Len(w) <= WindowSize, NEW p \in 0..WindowSize, NEW x \in Sample
    PROVE  /\ Append1(w, p, x) \in Seq(Sample)
           /\ Len(Append1(w, p, x)) <= WindowSize
           /\ NextCursor(w, p) \in 0..WindowSize
  <1> USE WindowAssumption
  <1>1. CASE Len(w) < WindowSize
    BY <1>1 DEF Append1, NextCursor
  <1>2. CASE ~(Len(w) < WindowSize)
    <2>1. Len(w) = WindowSize /\ p % WindowSize \in 0..(WindowSize - 1)
      BY <1>2
    <2>2. (p % WindowSize) + 1 \in 1..Len(w)
      BY <2>1
    <2> DEFINE i == (p % WindowSize) + 1
               v == [w EXCEPT ![i] = x]
    <2>3. v \in [1..Len(w) -> Sample] /\ Len(w) \in Nat
      BY <2>2
    <2>4. v \in Seq(Sample) /\ Len(v) = Len(w)
      BY <2>3
    <2> QED BY <1>2, <2>1, <2>2, <2>4 DEF Append1, NextCursor
  <1> QED BY <1>1, <1>2

\* BrokerRouter::new starts with empty, well-formed windows.
LEMMA RouterTypeInit == RouterInit => RouterTypeOK
  BY WindowAssumption DEF RouterInit, RouterTypeOK, Slots, IdleCall, Call, CallPcs, NoSample, Sample

\* Entering record_outcome keeps the types.
LEMMA BeginRecordTyped ==
    ASSUME RouterTypeOK, NEW c \in Callers, NEW failed \in BOOLEAN,
           NEW latency \in Nat \cup {NoLatency}, BeginRecord(c, failed, latency)
    PROVE  RouterTypeOK'
  <1>1. [failed |-> failed, latency |-> latency] \in Sample
    BY DEF Sample
  <1>2. call' \in [Callers -> Call]
    BY <1>1 DEF BeginRecord, RouterTypeOK, Call, CallPcs
  <1> QED BY <1>2 DEF BeginRecord, RouterTypeOK

\* So does each of its steps between two locks or atomics.
LEMMA RecordStepTyped ==
    ASSUME RouterTypeOK, NEW c \in Callers, RecordStep(c)
    PROVE  RouterTypeOK'
  <1> USE DEF RouterTypeOK
  <1>1. call[c].slot \in Slots /\ call[c].sample \in Sample /\ Other(call[c].slot) \in Slots
    BY DEF Call, Slots, Other
  <1>2. ASSUME NEW l \in CallPcs, Goto(c, l) PROVE call' \in [Callers -> Call]
    BY <1>2 DEF Goto, Call
  <1>3. CASE AppendSample(c)
    <2> DEFINE s == call[c].slot
               w == Append1(samples[s], pos[s], call[c].sample)
    <2>1. w \in Seq(Sample) /\ Len(w) <= WindowSize /\ NextCursor(samples[s], pos[s]) \in 0..WindowSize
      BY <1>1, RingBounded
    <2>2. samples' = [samples EXCEPT ![s] = w] /\ pos' = [pos EXCEPT ![s] = NextCursor(samples[s], pos[s])]
      BY <1>3 DEF AppendSample
    <2> HIDE DEF w
    <2>3. samples' \in [Slots -> Seq(Sample)] /\ pos' \in [Slots -> 0..WindowSize]
      BY <1>1, <2>1, <2>2
    <2>4. \A z \in Slots : Len(samples'[z]) <= WindowSize
      BY <1>1, <2>1, <2>2
    <2>5. total' \in [Slots -> Nat] /\ stint' \in [Slots -> Nat]
      BY <1>1, <1>3, SMTT(30) DEF AppendSample
    <2>6. call' \in [Callers -> Call]
      BY <1>2, <1>3 DEF AppendSample, CallPcs
    <2> QED BY <1>3, <2>3, <2>4, <2>5, <2>6 DEF AppendSample
  <1>4. CASE CheckLength(c)
    BY <1>2, <1>4 DEF CheckLength, CallPcs
  <1>a. ASSUME NEW l \in CallPcs, NEW b \in BOOLEAN,
               call' = [call EXCEPT ![c].pc = l, ![c].breach = b]
        PROVE  call' \in [Callers -> Call]
    BY <1>a DEF Call
  <1>5. CASE ReadErrorRate(c)
    <2>1. call' \in [Callers -> Call]
      <3> DEFINE b == ErrorRateBps(samples[call[c].slot]) >= ErrorBps
      <3>1. b \in BOOLEAN /\ "latency" \in CallPcs
        BY DEF CallPcs
      <3>2. call' = [call EXCEPT ![c].pc = "latency", ![c].breach = b]
        BY <1>5 DEF ReadErrorRate
      <3> HIDE DEF b
      <3> QED BY <3>1, <3>2, <1>a
    <2> QED BY <1>5, <2>1 DEF ReadErrorRate
  <1>6. CASE ReadLatency(c)
    <2>1. call' \in [Callers -> Call]
      <3> DEFINE b == call[c].breach \/ P99LatencyMs(samples[call[c].slot]) >= LatencyLimit
                 l == IF b THEN "cas" ELSE "none"
      <3>1. l \in CallPcs /\ b \in BOOLEAN
        BY DEF CallPcs
      <3>2. call' = [call EXCEPT ![c].pc = l, ![c].breach = b]
        BY <1>6 DEF ReadLatency
      <3> HIDE DEF l, b
      <3> QED BY <3>1, <3>2, <1>a
    <2> QED BY <1>6, <2>1 DEF ReadLatency
  <1>7. CASE SwapActive(c)
    <2>1. call' \in [Callers -> Call]
      BY <1>2, <1>7 DEF SwapActive, CallPcs
    <2> QED BY <1>1, <1>7, <2>1, SMTT(30) DEF SwapActive
  <1>8. CASE ClearWindow(c)
    <2>1. call' \in [Callers -> Call]
      BY <1>2, <1>8 DEF ClearWindow, CallPcs
    <2>2. <<>> \in Seq(Sample) /\ Len(<<>>) = 0
      OBVIOUS
    <2> QED BY <1>1, <1>8, <2>1, <2>2, WindowAssumption, SMTT(30) DEF ClearWindow
  <1>9. CASE RewindCursor(c)
    <2>1. call' \in [Callers -> Call]
      BY <1>2, <1>9 DEF RewindCursor, CallPcs
    <2> QED BY <1>1, <1>9, <2>1, WindowAssumption DEF RewindCursor
  <1> QED BY <1>3, <1>4, <1>5, <1>6, <1>7, <1>8, <1>9 DEF RecordStep

\* The two together: any step of a record_outcome call.
LEMMA RecordTyped ==
    ASSUME RouterTypeOK, NEW c \in Callers, Record(c)
    PROVE  RouterTypeOK'
  <1>1. CASE BeginRecord(c, TRUE, NoLatency)
    BY <1>1, BeginRecordTyped
  <1>2. ASSUME NEW l \in Latencies, BeginRecord(c, FALSE, l)
        PROVE  RouterTypeOK'
    BY <1>2, BeginRecordTyped, LatencyAssumption
  <1> QED BY <1>1, <1>2 DEF Record

\* Every step of the router, force_primary included, keeps the types.
LEMMA RouterTypeNext ==
    RouterTypeOK /\ [RouterNext]_routerVars => RouterTypeOK'
  <1> SUFFICES ASSUME RouterTypeOK, [RouterNext]_routerVars PROVE RouterTypeOK'
    OBVIOUS
  <1>1. ASSUME NEW c \in Callers, ReturnToCaller(c) PROVE RouterTypeOK'
    <2>1. IdleCall \in Call
      BY DEF IdleCall, Call, CallPcs, NoSample, Sample, Slots
    <2> QED BY <1>1, <2>1 DEF ReturnToCaller, RouterTypeOK
  <1>2. CASE ForcePrimary
    BY <1>2 DEF ForcePrimary, RouterTypeOK, Slots
  <1>3. CASE UNCHANGED routerVars
    BY <1>3 DEF routerVars, RouterTypeOK
  <1> QED BY <1>1, <1>2, <1>3, RecordTyped, RecordStepTyped DEF RouterNext

\* Whatever the number of concurrent callers, no window outgrows its ring
\* (AdapterStats::record, router.rs 144-162) and every variable keeps its type.
THEOREM RouterTypes == RouterSpec => []RouterTypeOK
  <1> QED BY RouterTypeInit, RouterTypeNext, PTL DEF RouterSpec

(***************************************************************************)
(* One event per switch                                                    *)
(***************************************************************************)
\* Callers that have switched the slot and not yet returned their event.
Announcing == {c \in Callers : call[c].pc \in {"clear", "rewind"}}

\* Finitely many calls are between their swap and their return.
LEMMA AnnouncingFinite == IsFiniteSet(Announcing)
  BY WindowAssumption, FS_Subset DEF Announcing

\* A call that moves between other program points leaves the count alone.
LEMMA QuietStep ==
    ASSUME RouterTypeOK, OneEventPerSwitch, Announcing' = Announcing,
           UNCHANGED <<switches, emitted>>
    PROVE  OneEventPerSwitch'
  BY DEF OneEventPerSwitch, Announcing

\* A step of record_outcome counts a switch only by the call that will announce it.
LEMMA RecordStepCounts ==
    ASSUME RouterTypeOK, OneEventPerSwitch, NEW c \in Callers, RecordStep(c)
    PROVE  OneEventPerSwitch'
  <1>1. call \in [Callers -> Call] /\ switches \in Nat /\ emitted \in Nat
    BY DEF RouterTypeOK
  <1>2. Cardinality(Announcing) \in Nat
    BY AnnouncingFinite, FS_CardinalityType
  <1>3. switches = emitted + Cardinality(Announcing)
    BY DEF OneEventPerSwitch, Announcing
  <1>4. CASE SwapActive(c) /\ active = call[c].slot
    <2>1. Announcing' = Announcing \cup {c} /\ c \notin Announcing
      BY <1>1, <1>4 DEF SwapActive, Goto, Announcing, Call
    <2>2. Cardinality(Announcing') = Cardinality(Announcing) + 1
      BY <2>1, AnnouncingFinite, FS_AddElement
    <2>3. switches' = switches + 1 /\ emitted' = emitted
      BY <1>4 DEF SwapActive
    <2>4. switches' = emitted' + Cardinality(Announcing')
      BY <1>1, <1>2, <1>3, <2>2, <2>3
    <2> QED BY <2>4 DEF OneEventPerSwitch, Announcing
  <1>5. CASE RewindCursor(c)
    <2>1. Announcing' = Announcing \ {c} /\ c \in Announcing
      BY <1>1, <1>5 DEF RewindCursor, Goto, Announcing, Call
    <2>2. Cardinality(Announcing') = Cardinality(Announcing) - 1
      BY <2>1, AnnouncingFinite, FS_RemoveElement
    <2>3. switches' = switches /\ emitted' = emitted + 1
      BY <1>5 DEF RewindCursor
    <2>4. switches' = emitted' + Cardinality(Announcing')
      BY <1>1, <1>2, <1>3, <2>2, <2>3
    <2> QED BY <2>4 DEF OneEventPerSwitch, Announcing
  <1>6. CASE SwapActive(c) /\ active # call[c].slot
    BY <1>1, <1>6, QuietStep DEF SwapActive, Goto, Announcing, Call
  <1>7. CASE AppendSample(c)
    BY <1>1, <1>7, QuietStep DEF AppendSample, Goto, Announcing, Call
  <1>8. CASE CheckLength(c)
    BY <1>1, <1>8, QuietStep DEF CheckLength, Goto, Announcing, Call
  <1>9. CASE ReadErrorRate(c)
    BY <1>1, <1>9, QuietStep DEF ReadErrorRate, Announcing, Call
  <1>10. CASE ReadLatency(c)
    BY <1>1, <1>10, QuietStep DEF ReadLatency, Announcing, Call
  <1>11. CASE ClearWindow(c)
    BY <1>1, <1>11, QuietStep DEF ClearWindow, Goto, Announcing, Call
  <1> QED BY <1>4, <1>5, <1>6, <1>7, <1>8, <1>9, <1>10, <1>11 DEF RecordStep

\* No step of the router disturbs the balance of switches and events.
LEMMA OneEventNext ==
    RouterTypeOK /\ OneEventPerSwitch /\ [RouterNext]_routerVars => OneEventPerSwitch'
  <1> SUFFICES ASSUME RouterTypeOK, OneEventPerSwitch, [RouterNext]_routerVars
               PROVE  OneEventPerSwitch'
    OBVIOUS
  <1>1. call \in [Callers -> Call]
    BY DEF RouterTypeOK
  <1>2. ASSUME NEW c \in Callers, Record(c) PROVE OneEventPerSwitch'
    BY <1>1, <1>2, QuietStep DEF Record, BeginRecord, Announcing, Call
  <1>3. ASSUME NEW c \in Callers, ReturnToCaller(c) PROVE OneEventPerSwitch'
    BY <1>1, <1>3, QuietStep DEF ReturnToCaller, RecordReturned, Announcing, Call, IdleCall
  <1>4. CASE ForcePrimary
    BY <1>4, QuietStep DEF ForcePrimary, Announcing
  <1>5. CASE UNCHANGED routerVars
    BY <1>5, QuietStep DEF routerVars, Announcing
  <1> QED BY <1>2, <1>3, <1>4, <1>5, RecordStepCounts DEF RouterNext

\* A new router has neither switched nor announced.
LEMMA OneEventInit == RouterInit => OneEventPerSwitch
  <1> SUFFICES ASSUME RouterInit PROVE OneEventPerSwitch
    OBVIOUS
  <1>1. Announcing = {}
    BY DEF RouterInit, Announcing, IdleCall
  <1>2. Cardinality(Announcing) = 0
    BY <1>1, FS_EmptySet
  <1>3. switches = emitted + Cardinality(Announcing)
    BY <1>2 DEF RouterInit
  <1> QED BY <1>3 DEF OneEventPerSwitch, Announcing

\* However many record_outcome calls race on the active slot, and whatever the
\* operator forces in between, the compare-and-swap yields exactly one
\* FailoverEvent per switch (router.rs 383-415).
THEOREM OneEvent == RouterSpec => []OneEventPerSwitch
  <1> QED BY RouterTypes, OneEventInit, OneEventNext, PTL DEF RouterSpec

(***************************************************************************)
(* The ring                                                                *)
(***************************************************************************)
\* Element i of the ring of size n that starts at offset o.
At1(o, i, n) == ((o + i - 1) % n) + 1

\* The ring of w, read from its oldest outcome when it is full.
Ring(w, cursor) ==
    LET oldest == IF Len(w) < WindowSize THEN 0 ELSE cursor % WindowSize
    IN [i \in 1..Len(w) |-> w[At1(oldest, i, Len(w))]]

\* Going once round a ring is subtracting its size.
LEMMA RingIndex ==
    ASSUME NEW n \in Nat \ {0}, NEW o \in 0..(n - 1), NEW i \in 1..n
    PROVE  At1(o, i, n) = IF o + i <= n THEN o + i ELSE o + i - n
  <1>1. CASE o + i <= n
    <2>1. o + i - 1 \in 0..(n - 1)
      BY <1>1
    <2>2. (o + i - 1) % n = o + i - 1
      BY <2>1
    <2> QED BY <1>1, <2>2 DEF At1
  <1>2. CASE o + i > n
    <2> DEFINE a == o + i - 1
    <2>1. a \in n..(n + n - 1) /\ a \in Nat
      BY <1>2
    <2> HIDE DEF a
    <2>2. a % n = a - n
      <3>1. PICK q \in Nat, r \in 0..(n - 1) : a = q * n + r /\ q = a \div n /\ r = a % n
        BY <2>1
      <3>2. q = 1
        BY <2>1, <3>1
      <3> QED BY <3>1, <3>2
    <2> QED BY <1>2, <2>2 DEF At1, a
  <1> QED BY <1>1, <1>2

\* The cursor after an overwrite is one place further round.
LEMMA CursorAdvances ==
    ASSUME NEW n \in Nat \ {0}, NEW o \in 0..(n - 1)
    PROVE  (o + 1) % n = IF o + 1 < n THEN o + 1 ELSE 0
  <1>1. CASE o + 1 < n
    BY <1>1
  <1>2. CASE o + 1 = n
    BY <1>2
  <1> QED BY <1>1, <1>2

\* A ring that starts at its first place is the window itself.
LEMMA RingFromStart ==
    ASSUME NEW w \in Seq(Sample)
    PROVE  w = [i \in 1..Len(w) |-> w[At1(0, i, Len(w))]]
  <1>1. \A i \in 1..Len(w) : At1(0, i, Len(w)) = i
    <2> SUFFICES ASSUME NEW i \in 1..Len(w) PROVE At1(0, i, Len(w)) = i
      OBVIOUS
    <2>1. Len(w) \in Nat \ {0} /\ 0 \in 0..(Len(w) - 1)
      OBVIOUS
    <2> QED BY <2>1, RingIndex
  <1>2. w = [i \in 1..Len(w) |-> w[i]]
    OBVIOUS
  <1> QED BY <1>1, <1>2

\* AdapterStats::record on a window and its cursor is pushing the outcome and,
\* once the ring is full, forgetting the oldest.
LEMMA RecordPushes ==
    ASSUME NEW w \in Seq(Sample), Len(w) <= WindowSize, NEW p \in 0..WindowSize,
           NEW x \in Sample, Len(w) < WindowSize => p = 0
    PROVE  Remember(Ring(w, p), x) = Ring(Append1(w, p, x), NextCursor(w, p))
  <1> DEFINE W == WindowSize
  <1>0. W \in Nat \ {0} /\ Len(w) \in Nat
    BY WindowAssumption
  <1>1. CASE Len(w) < W
    <2> DEFINE v == Append(w, x)
    <2>1. v \in Seq(Sample) /\ Len(v) = Len(w) + 1 /\ 0 % W = 0
      BY <1>0
    <2>2. Append1(w, p, x) = v /\ NextCursor(w, p) = 0 /\ p = 0
      BY <1>1 DEF Append1, NextCursor
    <2>3. Ring(w, p) = w
      BY <1>1, RingFromStart DEF Ring
    <2> HIDE DEF v
    <2>4. Ring(v, 0) = v
      BY <2>1, RingFromStart DEF Ring
    <2> QED BY <1>1, <2>2, <2>3, <2>4 DEF Remember, v
  <1>2. CASE Len(w) = W
    <2> DEFINE o == p % W
               n == (o + 1) % W
               v == [w EXCEPT ![o + 1] = x]
               r == [i \in 1..W |-> w[At1(o, i, W)]]
               q == Append(Tail(r), x)
    <2>1. o \in 0..(W - 1) /\ n = IF o + 1 < W THEN o + 1 ELSE 0
      BY <1>0, CursorAdvances
    <2>2. Ring(w, p) = r
      BY <1>2 DEF Ring
    <2>3. \A i \in 1..W : At1(o, i, W) = IF o + i <= W THEN o + i ELSE o + i - W
      BY <1>0, <2>1, RingIndex
    <2>4. \A i \in 1..W : At1(n, i, W) = IF n + i <= W THEN n + i ELSE n + i - W
      <3>1. n \in 0..(W - 1)
        BY <1>0, <2>1
      <3> QED BY ONLY <1>0, <3>1, RingIndex
    <2>5. v \in Seq(Sample) /\ Len(v) = W /\ \A j \in 1..W : v[j] = IF j = o + 1 THEN x ELSE w[j]
      <3>1. v \in [1..W -> Sample]
        BY <1>0, <1>2, <2>1
      <3> QED BY <1>0, <1>2, <3>1
    <2>6. Append1(w, p, x) = v /\ NextCursor(w, p) = o + 1
      BY <1>0, <1>2 DEF Append1, NextCursor
    <2>7. Ring(v, o + 1) = [i \in 1..W |-> v[At1(n, i, W)]]
      <3> HIDE DEF v
      <3> QED BY <1>0, <2>5 DEF Ring
    <2>8. r \in Seq(Sample) /\ Len(r) = W
      <3>1. \A i \in 1..W : At1(o, i, W) \in 1..W
        BY <1>0, <2>1, <2>3
      <3>2. r \in [1..W -> Sample]
        BY <1>2, <3>1
      <3> QED BY <1>0, <3>2
    <2>9. q \in Seq(Sample) /\ Len(q) = W /\ q[W] = x /\ \A i \in 1..(W - 1) : q[i] = r[i + 1]
      <3> HIDE DEF r
      <3> QED BY <1>0, <2>8
    <2>10. \A i \in 1..W : q[i] = v[At1(n, i, W)]
      <3> SUFFICES ASSUME NEW i \in 1..W PROVE q[i] = v[At1(n, i, W)]
        OBVIOUS
      <3>1. CASE i = W
        <4>1. At1(n, i, W) = o + 1 /\ o + 1 \in 1..W
          BY <1>0, <2>1, <2>4, <3>1
        <4> HIDE DEF v, q, n, o
        <4> QED BY <2>5, <2>9, <3>1, <4>1
      <3>2. CASE i # W
        <4>1. i + 1 \in 1..W /\ i \in 1..(W - 1)
          BY <1>0, <3>2
        <4>2. At1(n, i, W) = At1(o, i + 1, W) /\ At1(n, i, W) \in 1..W /\ At1(n, i, W) # o + 1
          <5>1. /\ At1(n, i, W) = IF n + i <= W THEN n + i ELSE n + i - W
                /\ At1(o, i + 1, W) = IF o + (i + 1) <= W THEN o + (i + 1) ELSE o + (i + 1) - W
            BY <2>3, <2>4, <4>1
          <5> HIDE DEF n, o
          <5> QED BY <1>0, <2>1, <4>1, <5>1
        <4>3. r[i + 1] = w[At1(o, i + 1, W)]
          BY <4>1
        <4> HIDE DEF v, q, n, o, r
        <4> QED BY <2>5, <2>9, <4>1, <4>2, <4>3
      <3> QED BY <3>1, <3>2
    <2>11. Remember(r, x) = q
      <3> HIDE DEF r
      <3> QED BY <1>0, <2>8 DEF Remember
    <2>12. q = [i \in 1..W |-> v[At1(n, i, W)]]
      <3> HIDE DEF v, q, n
      <3>1. q = [i \in 1..W |-> q[i]]
        BY <2>9
      <3> QED BY <2>10, <3>1
    <2> QED BY <2>2, <2>6, <2>7, <2>11, <2>12
  <1> QED BY <1>0, <1>1, <1>2

\* The window read from its cursor is what was recorded, and the cursor of a
\* window that is not full is at its start.  Between the two stores of a reset
\* nothing is known of the cursor, and the window itself is what was recorded.
RingInv ==
    \A s \in Slots : ~torn[s] =>
        /\ RewindPending(s) => recent[s] = samples[s]
        /\ ~RewindPending(s) => /\ recent[s] = Ring(samples[s], pos[s])
                                /\ Len(samples[s]) < WindowSize => pos[s] = 0

\* A slot whose ring, reset and history a step leaves alone stays in order.
LEMMA RingKept ==
    ASSUME RingInv, NEW z \in Slots, RewindPending(z)' <=> RewindPending(z),
           samples'[z] = samples[z], pos'[z] = pos[z], recent'[z] = recent[z], torn'[z] = torn[z],
           ~torn'[z]
    PROVE  /\ RewindPending(z)' => recent'[z] = samples'[z]
           /\ ~RewindPending(z)' => /\ recent'[z] = Ring(samples'[z], pos'[z])
                                    /\ Len(samples'[z]) < WindowSize => pos'[z] = 0
  BY DEF RingInv

\* Every step of record_outcome keeps the rings in order, those of resets included.
LEMMA RecordStepRing ==
    ASSUME RouterTypeOK, recent \in [Slots -> Seq(Sample)], RingInv,
           NEW c \in Callers, RecordStep(c)
    PROVE  RingInv'
  <1> DEFINE s == call[c].slot
             W == WindowSize
  <1>1. /\ call \in [Callers -> Call] /\ pos \in [Slots -> 0..W] /\ s \in Slots
        /\ samples \in [Slots -> Seq(Sample)] /\ Other(s) \in Slots /\ Other(s) # s
        /\ call[c].sample \in Sample /\ recent \in [Slots -> Seq(Sample)]
        /\ torn \in [Slots -> BOOLEAN]
        /\ \A z \in Slots : Len(samples[z]) <= W
        /\ W \in Nat \ {0}
    BY WindowAssumption DEF RouterTypeOK, Call, Slots, Other
  <1> DEFINE InOrder(z) == /\ RewindPending(z)' => recent'[z] = samples'[z]
                           /\ ~RewindPending(z)' => /\ recent'[z] = Ring(samples'[z], pos'[z])
                                                    /\ Len(samples'[z]) < W => pos'[z] = 0
  <1> SUFFICES ASSUME NEW z \in Slots, ~torn'[z] PROVE InOrder(z)
    BY DEF RingInv, Ring
  <1>2. ASSUME UNCHANGED <<samples, pos, recent, torn>>, call[c].pc # "rewind",
               \A d \in Callers : call'[d].slot = call[d].slot,
               \A d \in Callers : call'[d].pc = "rewind" <=> call[d].pc = "rewind"
        PROVE  InOrder(z)
    <2>1. RewindPending(z)' <=> RewindPending(z)
      BY <1>2 DEF RewindPending
    <2> QED BY <1>2, <2>1, RingKept
  <1>3. CASE AppendSample(c)
    <2> DEFINE w == Append1(samples[s], pos[s], call[c].sample)
               p == NextCursor(samples[s], pos[s])
    <2>1. /\ samples' = [samples EXCEPT ![s] = w] /\ pos' = [pos EXCEPT ![s] = p]
          /\ recent' = [recent EXCEPT ![s] = Remember(@, call[c].sample)]
          /\ torn' = [torn EXCEPT ![s] = @ \/ (Len(samples[s]) = W /\ RewindPending(s))]
      BY <1>3 DEF AppendSample
    <2>2. RewindPending(z)' <=> RewindPending(z)
      BY <1>1, <1>3 DEF AppendSample, Goto, RewindPending, Call
    <2>3. CASE z # s
      <3>1. samples'[z] = samples[z] /\ pos'[z] = pos[z] /\ recent'[z] = recent[z] /\ torn'[z] = torn[z]
        BY <1>1, <2>1, <2>3
      <3> QED BY <2>2, <3>1, RingKept
    <2>4. CASE z = s
      <3>1. ~torn[s] /\ ~(Len(samples[s]) = W /\ RewindPending(s))
        BY <1>1, <2>1, <2>4
      <3>2. samples'[z] = w /\ pos'[z] = p /\ recent'[z] = Remember(recent[s], call[c].sample)
        BY <1>1, <2>1, <2>4
      <3>3. samples[s] \in Seq(Sample) /\ pos[s] \in 0..W /\ Len(samples[s]) <= W /\ Len(samples[s]) \in Nat
        BY <1>1
      <3>4. CASE RewindPending(s)
        <4>1. recent[s] = samples[s] /\ Len(samples[s]) < W
          BY <3>1, <3>3, <3>4, <1>1 DEF RingInv
        <4>2. w = Append(samples[s], call[c].sample)
          BY <4>1 DEF Append1
        <4>3. Remember(recent[s], call[c].sample) = w
          BY <4>1, <4>2 DEF Remember
        <4> HIDE DEF w, p
        <4> QED BY <2>2, <2>4, <3>2, <3>4, <4>3
      <3>5. CASE ~RewindPending(s)
        <4>1. recent[s] = Ring(samples[s], pos[s]) /\ (Len(samples[s]) < W => pos[s] = 0)
          BY <3>1, <3>5, <1>1 DEF RingInv
        <4>2. Remember(recent[s], call[c].sample) = Ring(w, p)
          BY <1>1, <3>3, <4>1, RecordPushes
        <4>3. Len(w) < W => p = 0
          <5>1. CASE Len(samples[s]) < W
            BY <4>1, <5>1 DEF NextCursor
          <5>2. CASE Len(samples[s]) = W
            <6>1. w = [samples[s] EXCEPT ![(pos[s] % W) + 1] = call[c].sample]
              BY <1>1, <5>2 DEF Append1
            <6>2. Len(w) = Len(samples[s])
              BY <3>3, <6>1
            <6> QED BY <1>1, <5>2, <6>2
          <5> QED BY <1>1, <3>3, <5>1, <5>2
        <4> HIDE DEF w, p
        <4> QED BY <2>2, <2>4, <3>2, <3>5, <4>2, <4>3
      <3> QED BY <3>4, <3>5
    <2> QED BY <2>3, <2>4
  <1>4. CASE CheckLength(c)
    BY <1>1, <1>2, <1>4 DEF CheckLength, Goto, Call
  <1>5. CASE ReadErrorRate(c)
    BY <1>1, <1>2, <1>5 DEF ReadErrorRate, Call
  <1>6. CASE ReadLatency(c)
    BY <1>1, <1>2, <1>6 DEF ReadLatency, Call
  <1>7. CASE SwapActive(c)
    <2>1. UNCHANGED <<samples, pos, recent, torn>> /\ call[c].pc = "cas"
      BY <1>7 DEF SwapActive
    <2>2. PICK l \in {"clear", "none"} : call' = [call EXCEPT ![c].pc = l]
      BY <1>7 DEF SwapActive, Goto
    <2> QED BY <1>1, <1>2, <2>1, <2>2 DEF Call
  <1>8. CASE ClearWindow(c)
    <2>1. /\ samples' = [samples EXCEPT ![Other(s)] = <<>>] /\ pos' = pos
          /\ recent' = [recent EXCEPT ![Other(s)] = <<>>]
          /\ torn' = [torn EXCEPT ![Other(s)] = FALSE]
          /\ call' = [call EXCEPT ![c].pc = "rewind"] /\ call[c].pc = "clear"
      BY <1>8 DEF ClearWindow, Goto
    <2>2. CASE z = Other(s)
      <3>1. RewindPending(z)'
        BY <1>1, <2>1, <2>2 DEF RewindPending, Call
      <3> QED BY <1>1, <2>1, <2>2, <3>1
    <2>3. CASE z # Other(s)
      <3>1. RewindPending(z)' <=> RewindPending(z)
        BY <1>1, <2>1, <2>3 DEF RewindPending, Call
      <3>2. samples'[z] = samples[z] /\ pos'[z] = pos[z] /\ recent'[z] = recent[z] /\ torn'[z] = torn[z]
        BY <1>1, <2>1, <2>3
      <3> QED BY <3>1, <3>2, RingKept
    <2> QED BY <2>2, <2>3
  <1>9. CASE RewindCursor(c)
    <2>1. /\ pos' = [pos EXCEPT ![Other(s)] = 0] /\ UNCHANGED <<samples, recent, torn>>
          /\ call' = [call EXCEPT ![c].pc = "some"] /\ call[c].pc = "rewind"
      BY <1>9 DEF RewindCursor, Goto
    <2>2. CASE z = Other(s)
      <3>1. RewindPending(z) /\ ~torn[z]
        BY <2>1, <2>2 DEF RewindPending
      <3>2. recent[z] = samples[z] /\ pos'[z] = 0
        BY <1>1, <2>1, <2>2, <3>1 DEF RingInv
      <3>3. Ring(samples[z], 0) = samples[z]
        <4>1. samples[z] \in Seq(Sample) /\ 0 % W = 0
          BY <1>1
        <4> QED BY <4>1, RingFromStart DEF Ring
      <3> QED BY <2>1, <3>2, <3>3
    <2>3. CASE z # Other(s)
      <3>1. RewindPending(z)' <=> RewindPending(z)
        BY <1>1, <2>1, <2>3 DEF RewindPending, Call
      <3>2. pos'[z] = pos[z]
        BY <1>1, <2>1, <2>3
      <3> QED BY <2>1, <3>1, <3>2, RingKept
    <2> QED BY <2>2, <2>3
  <1> QED BY <1>3, <1>4, <1>5, <1>6, <1>7, <1>8, <1>9 DEF RecordStep

\* So does every other step of the router.
LEMMA RingNext ==
    ASSUME RouterTypeOK, recent \in [Slots -> Seq(Sample)], RingInv, [RouterNext]_routerVars
    PROVE  RingInv'
  <1>1. call \in [Callers -> Call]
    BY DEF RouterTypeOK
  <1>0. ASSUME UNCHANGED <<samples, pos, recent, torn>>,
               \A s \in Slots : RewindPending(s)' <=> RewindPending(s)
        PROVE  RingInv'
    BY <1>0 DEF RingInv, Ring
  <1>2. ASSUME NEW c \in Callers, Record(c) PROVE RingInv'
    <2>1. UNCHANGED <<samples, pos, recent, torn>> /\ call[c].pc = "idle"
      BY <1>2 DEF Record, BeginRecord
    <2>2. call'[c].pc = "append" /\ \A d \in Callers \ {c} : call'[d] = call[d]
      BY <1>1, <1>2 DEF Record, BeginRecord
    <2> QED BY <1>0, <2>1, <2>2 DEF RewindPending
  <1>3. ASSUME NEW c \in Callers, ReturnToCaller(c) PROVE RingInv'
    BY <1>0, <1>1, <1>3 DEF ReturnToCaller, RecordReturned, IdleCall, Call, RewindPending
  <1>4. CASE ForcePrimary
    BY <1>0, <1>4 DEF ForcePrimary, RewindPending
  <1>5. CASE UNCHANGED routerVars
    BY <1>0, <1>5 DEF routerVars, RewindPending
  <1>6. ASSUME NEW c \in Callers, RecordStep(c) PROVE RingInv'
    BY <1>6, RecordStepRing
  <1> QED BY <1>2, <1>3, <1>4, <1>5, <1>6 DEF RouterNext

\* What was recorded stays a sequence of outcomes.
RecentOK == recent \in [Slots -> Seq(Sample)]

\* A record pushes one, a reset empties the list.
LEMMA RecentNext ==
    ASSUME RouterTypeOK, RecentOK, [RouterNext]_routerVars
    PROVE  RecentOK'
  <1>1. ASSUME NEW c \in Callers, AppendSample(c) PROVE RecentOK'
    <2>1. call[c].slot \in Slots /\ call[c].sample \in Sample
      BY DEF RouterTypeOK, Call
    <2>2. \A q \in Seq(Sample) : Remember(q, call[c].sample) \in Seq(Sample)
      BY <2>1, WindowAssumption DEF Remember
    <2> QED BY <1>1, <2>1, <2>2 DEF AppendSample, RecentOK
  <1>2. ASSUME NEW c \in Callers, ClearWindow(c) PROVE RecentOK'
    <2>1. <<>> \in Seq(Sample)
      OBVIOUS
    <2> QED BY <1>2, <2>1 DEF ClearWindow, RecentOK
  <1>3. CASE recent' = recent
    BY <1>3 DEF RecentOK
  <1> QED BY <1>1, <1>2, <1>3
       DEF RouterNext, Record, BeginRecord, RecordStep, CheckLength, ReadErrorRate, ReadLatency,
           SwapActive, RewindCursor, ReturnToCaller, ForcePrimary, routerVars

\* However many tasks record outcomes at the same time, the overwritten outcome
\* is the oldest (AdapterStats::record, router.rs 144-162): read from its cursor
\* the ring is the last WindowSize outcomes, through every failover and fail-back,
\* unless it wrapped between the clear and the rewind of a reset (router.rs 203-208).
THEOREM RingInOrder == RouterSpec => []RingHoldsLastOutcomes
  <1>1. RouterInit => RecentOK /\ RingInv
    <2> SUFFICES ASSUME RouterInit PROVE RecentOK /\ RingInv
      OBVIOUS
    <2>1. \A s \in Slots : samples[s] = <<>> /\ pos[s] = 0 /\ recent[s] = <<>> /\ ~RewindPending(s)
      BY DEF RouterInit, RewindPending, IdleCall
    <2>2. <<>> = Ring(<<>>, 0)
      BY RingFromStart, WindowAssumption DEF Ring
    <2>3. RecentOK
      BY DEF RouterInit, RecentOK
    <2> QED BY <2>1, <2>2, <2>3 DEF RingInv
  <1>2. RouterTypeOK /\ RecentOK /\ RingInv /\ [RouterNext]_routerVars => RecentOK' /\ RingInv'
    BY RingNext, RecentNext DEF RecentOK
  <1>3. RouterTypeOK /\ RingInv => RingHoldsLastOutcomes
    <2> SUFFICES ASSUME RouterTypeOK, RingInv, NEW s \in Slots, ~torn[s]
                 PROVE  LET w == samples[s]
                            oldest == IF Len(w) < WindowSize \/ RewindPending(s) THEN 0
                                      ELSE pos[s] % WindowSize
                        IN recent[s] = [i \in 1..Len(w) |-> w[((oldest + i - 1) % Len(w)) + 1]]
      BY DEF RingHoldsLastOutcomes
    <2>1. CASE RewindPending(s)
      <3>1. recent[s] = samples[s] /\ samples[s] \in Seq(Sample)
        BY <2>1 DEF RingInv, RouterTypeOK
      <3> QED BY <2>1, <3>1, RingFromStart DEF At1
    <2>2. CASE ~RewindPending(s)
      BY <2>2 DEF RingInv, Ring, At1
    <2> QED BY <2>1, <2>2
  <1> QED BY <1>1, <1>2, <1>3, RouterTypes, PTL DEF RouterSpec
=============================================================================
