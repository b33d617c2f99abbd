---------------------------- MODULE BrokerRouter ----------------------------
(***************************************************************************)
(* hedge-exec's BrokerRouter (router.rs): a primary and a backup adapter,  *)
(* an atomic active slot, and per slot a ring of the last WindowSize       *)
(* outcomes.  record_outcome is called by concurrent tasks and takes       *)
(* several steps, one per lock or atomic it touches:                       *)
(*   load the slot; append under the window's write lock; read the         *)
(*   window's length, error rate and p99 latency (one read lock each);     *)
(*   compare-and-swap the slot; clear the other window; rewind its cursor. *)
(* Each step is an action, so that two calls interleave as they can in     *)
(* the program.                                                            *)
(***************************************************************************)
EXTENDS Naturals, Integers, Sequences, FiniteSets

CONSTANTS
    Callers,        \* tasks that call record_outcome
    WindowSize,     \* WINDOW_SIZE
    MinSamples,     \* thresholds.min_samples
    ErrorBps,       \* thresholds.error_rate_bps
    LatencyLimit,   \* thresholds.p99_latency_ms
    MaxRecords      \* bound: outcomes recorded in a behaviour

ASSUME WindowAssumption ==
    /\ WindowSize \in Nat \ {0} /\ MinSamples \in Nat
    /\ IsFiniteSet(Callers)

VARIABLES
    active,     \* the AtomicU8: the slot that serves submissions
    samples,    \* samples[s]: the Vec of slot s's AdapterStats
    pos,        \* pos[s]: the cursor of slot s's ring
    total,      \* total[s]: total_recorded of slot s
    call,       \* call[c]: the locals of c's record_outcome call
    \* history, never read by an action's guard:
    recent,     \* recent[s]: the last WindowSize outcomes of s since its reset
    torn,       \* torn[s]: s's ring wrapped in the middle of its last reset
    stint,      \* stint[s]: outcomes recorded on s since a failover last chose it
    switches,   \* how often the compare-and-swap changed the active slot
    emitted     \* how many FailoverEvents record_outcome returned

stats == <<samples, pos, total>>
history == <<recent, torn, stint, switches, emitted>>
routerVars == <<active, samples, pos, total, call, recent, torn, stint, switches, emitted>>

Slots == {"primary", "backup"}
Other(s) == IF s = "primary" THEN "backup" ELSE "primary"

\* u32::MAX in a sample's latency: the request failed, there is no measurement.
NoLatency == -1

Sample == [failed: BOOLEAN, latency: Nat \cup {NoLatency}]

CallPcs == {"idle", "append", "length", "errors", "latency", "cas", "clear", "rewind", "some", "none"}

Call == [pc: CallPcs, slot: Slots, sample: Sample, breach: BOOLEAN]

NoSample == [failed |-> FALSE, latency |-> 0]
IdleCall == [pc |-> "idle", slot |-> "primary", sample |-> NoSample, breach |-> FALSE]

RouterInit ==
    /\ active = "primary"
    /\ samples = [s \in Slots |-> <<>>]
    /\ pos = [s \in Slots |-> 0]
    /\ total = [s \in Slots |-> 0]
    /\ call = [c \in Callers |-> IdleCall]
    /\ recent = [s \in Slots |-> <<>>]
    /\ torn = [s \in Slots |-> FALSE]
    /\ stint = [s \in Slots |-> 0]
    /\ switches = 0
    /\ emitted = 0

(***************************************************************************)
(* The aggregates of a window.                                             *)
(***************************************************************************)
Failures(w) == Cardinality({i \in DOMAIN w : w[i].failed})

ErrorRateBps(w) == IF w = <<>> THEN 0 ELSE (Failures(w) * 10000) \div Len(w)

Measured(w) == {i \in DOMAIN w : w[i].latency # NoLatency}

\* The 99th percentile is the k-th smallest measured latency, k = ceil(0.99 n).
P99LatencyMs(w) ==
    LET n == Cardinality(Measured(w))
        k == (99 * n + 99) \div 100
        AtMost(v) == Cardinality({i \in Measured(w) : w[i].latency <= v})
        Below(v) == Cardinality({i \in Measured(w) : w[i].latency < v})
        values == {w[i].latency : i \in Measured(w)}
    IN IF n = 0 THEN 0 ELSE CHOOSE v \in values : AtMost(v) >= k /\ Below(v) < k

(***************************************************************************)
(* record_outcome(outcome, latency), step by step.                         *)
(***************************************************************************)
InFlight == {c \in Callers : call[c].pc \notin {"idle", "some", "none"}}

Goto(c, l) == call' = [call EXCEPT ![c].pc = l]

\* The slot is read once; everything that follows is about that slot.
BeginRecord(c, failed, latency) ==
    /\ call[c].pc = "idle"
    /\ total["primary"] + total["backup"] + Cardinality(InFlight) < MaxRecords
    /\ call' = [call EXCEPT ![c] = [pc |-> "append", slot |-> active, breach |-> FALSE,
                                    sample |-> [failed |-> failed, latency |-> latency]]]
    /\ UNCHANGED <<active, stats, history>>

\* Mutant of Append1: the ring never wraps.
PushAlways(w, cursor, x) == Append(w, x)

\* AdapterStats::record: push until the ring is full, then overwrite at pos.
Append1(w, cursor, x) ==
    IF Len(w) < WindowSize THEN Append(w, x)
    ELSE [w EXCEPT ![(cursor % WindowSize) + 1] = x]

\* Mutant of NextCursor: the cursor is not stored back after an overwrite.
StuckCursor(w, cursor) == cursor

NextCursor(w, cursor) ==
    IF Len(w) < WindowSize THEN cursor ELSE (cursor % WindowSize) + 1

Remember(q, x) == IF Len(q) < WindowSize THEN Append(q, x) ELSE Append(Tail(q), x)

\* Slot s's window has been cleared and its cursor not yet stored back.
RewindPending(s) == \E c \in Callers : call[c].pc = "rewind" /\ Other(call[c].slot) = s

AppendSample(c) ==
    LET s == call[c].slot IN
    /\ call[c].pc = "append"
    /\ samples' = [samples EXCEPT ![s] = Append1(@, pos[s], call[c].sample)]
    /\ pos' = [pos EXCEPT ![s] = NextCursor(samples[s], @)]
    /\ total' = [total EXCEPT ![s] = @ + 1]
    /\ recent' = [recent EXCEPT ![s] = Remember(@, call[c].sample)]
    /\ torn' = [torn EXCEPT ![s] = @ \/ (Len(samples[s]) = WindowSize /\ RewindPending(s))]
    /\ stint' = [stint EXCEPT ![s] = @ + 1]
    /\ Goto(c, "length")
    /\ UNCHANGED <<active, switches, emitted>>

\* Too few samples: return None.
CheckLength(c) ==
    /\ call[c].pc = "length"
    /\ Goto(c, IF Len(samples[call[c].slot]) < MinSamples THEN "none" ELSE "errors")
    /\ UNCHANGED <<active, stats, history>>

ReadErrorRate(c) ==
    /\ call[c].pc = "errors"
    /\ call' = [call EXCEPT ![c].pc = "latency",
                            ![c].breach = ErrorRateBps(samples[call[c].slot]) >= ErrorBps]
    /\ UNCHANGED <<active, stats, history>>

ReadLatency(c) ==
    /\ call[c].pc = "latency"
    /\ LET breach == call[c].breach \/ P99LatencyMs(samples[call[c].slot]) >= LatencyLimit
       IN call' = [call EXCEPT ![c].pc = IF breach THEN "cas" ELSE "none",
                               ![c].breach = breach]
    /\ UNCHANGED <<active, stats, history>>

\* Mutant of SwapActive: a plain store instead of the compare-and-swap.
StoreActive(c) ==
    LET s == call[c].slot IN
    /\ call[c].pc = "cas"
    /\ active' = Other(s)
    /\ stint' = [stint EXCEPT ![Other(s)] = 0]
    /\ switches' = IF active = s THEN switches + 1 ELSE switches
    /\ Goto(c, "clear")
    /\ UNCHANGED <<stats, recent, torn, emitted>>

\* The compare-and-swap: it fails, and the call returns None, when the active
\* slot is no longer the one the call was about.
SwapActive(c) ==
    LET s == call[c].slot IN
    /\ call[c].pc = "cas"
    /\ IF active = s
       THEN /\ active' = Other(s)
            /\ stint' = [stint EXCEPT ![Other(s)] = 0]
            /\ switches' = switches + 1
            /\ Goto(c, "clear")
       ELSE /\ Goto(c, "none")
            /\ UNCHANGED <<active, stint, switches>>
    /\ UNCHANGED <<stats, recent, torn, emitted>>

\* AdapterStats::reset of the new active slot; the cursor is stored after the
\* write lock is released.
ClearWindow(c) ==
    LET s == Other(call[c].slot) IN
    /\ call[c].pc = "clear"
    /\ samples' = [samples EXCEPT ![s] = <<>>]
    /\ recent' = [recent EXCEPT ![s] = <<>>]
    /\ torn' = [torn EXCEPT ![s] = FALSE]
    /\ Goto(c, "rewind")
    /\ UNCHANGED <<active, pos, total, stint, switches, emitted>>

RewindCursor(c) ==
    LET s == Other(call[c].slot) IN
    /\ call[c].pc = "rewind"
    /\ pos' = [pos EXCEPT ![s] = 0]
    /\ emitted' = emitted + 1
    /\ Goto(c, "some")
    /\ UNCHANGED <<active, samples, total, recent, torn, stint, switches>>

RecordStep(c) ==
    \/ AppendSample(c)
    \/ CheckLength(c)
    \/ ReadErrorRate(c)
    \/ ReadLatency(c)
    \/ SwapActive(c)
    \/ ClearWindow(c)
    \/ RewindCursor(c)

RecordReturned(c) == call[c].pc \in {"some", "none"}

\* force_primary: the operator's manual fail-back; the windows are kept.
ForcePrimary ==
    /\ active = "backup"
    /\ active' = "primary"
    /\ UNCHANGED <<stats, call, history>>

(***************************************************************************)
(* The router on its own: callers record outcomes over and over.           *)
(***************************************************************************)
CONSTANT Latencies      \* bound: latencies a successful call can report

ASSUME LatencyAssumption == Latencies \subseteq Nat

\* Failures carry no latency, successes do.
Record(c) ==
    \/ BeginRecord(c, TRUE, NoLatency)
    \/ \E l \in Latencies : BeginRecord(c, FALSE, l)

ReturnToCaller(c) ==
    /\ RecordReturned(c)
    /\ call' = [call EXCEPT ![c] = IdleCall]
    /\ UNCHANGED <<active, stats, history>>

RouterNext ==
    \/ \E c \in Callers : Record(c) \/ RecordStep(c) \/ ReturnToCaller(c)
    \/ ForcePrimary

RouterSpec == RouterInit /\ [][RouterNext]_routerVars

(***************************************************************************)
(* Properties.                                                             *)
(***************************************************************************)
\* Every variable of the router has its type; a window never outgrows its ring.
RouterTypeOK ==
    /\ active \in Slots
    /\ samples \in [Slots -> Seq(Sample)]
    /\ \A s \in Slots : Len(samples[s]) <= WindowSize
    /\ pos \in [Slots -> 0..WindowSize]
    /\ total \in [Slots -> Nat]
    /\ call \in [Callers -> Call]
    /\ torn \in [Slots -> BOOLEAN]
    /\ stint \in [Slots -> Nat]
    /\ switches \in Nat
    /\ emitted \in Nat

\* Exactly one FailoverEvent per switch of the active slot, whatever the
\* interleaving of concurrent record_outcome calls (router.rs 383-415): events
\* already returned plus those on their way equal the switches made.
OneEventPerSwitch ==
    switches = emitted + Cardinality({c \in Callers : call[c].pc \in {"clear", "rewind"}})

\* Whatever the calls that overlap, the ring read from its cursor is the last
\* WindowSize outcomes in order, so that an overwrite hits the oldest one
\* (AdapterStats::record and reset, router.rs 144-162 and 213-218).  While a
\* reset is between its two stores the cleared window is read from its start;
\* only a window that filled up and wrapped inside that gap is out of order,
\* until the next reset.
RingHoldsLastOutcomes ==
    \A s \in Slots : ~torn[s] =>
        LET w == samples[s]
            oldest == IF Len(w) < WindowSize \/ RewindPending(s) THEN 0 ELSE pos[s] % WindowSize
        IN recent[s] = [i \in 1..Len(w) |-> w[((oldest + i - 1) % Len(w)) + 1]]

\* A failover leaves a slot only on the strength of min_samples outcomes recorded
\* on it since a failover last chose it: record_outcome resets the new active
\* slot's window so that it starts fresh (router.rs 401-406), and the floor is
\* there to not flap on the first failure (router.rs 248).  TLC refutes it with
\* two callers.
NoFlap ==
    [][switches' # switches => stint[active] >= MinSamples]_routerVars
=============================================================================
