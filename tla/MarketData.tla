----------------------------- MODULE MarketData -----------------------------
(***************************************************************************)
(* hedge-market-data: one task per exchange adapter reads its websocket,   *)
(* normalises each message into a tick (the symbol interned into an id     *)
(* shared by all tasks), publishes it, hands it to the in-process          *)
(* receivers and folds it into the task's breadth figures.  Any error of   *)
(* the read, a message that does not parse included, makes the task        *)
(* reconnect with a growing delay.                                         *)
(*                                                                         *)
(* The interner takes no lock around look-up, counter and insertion.  The  *)
(* look-up and the increment are one step here: the counter only hands out *)
(* numbers nobody else has, so what another task does between the two is   *)
(* seen by the insertion, a step of its own, which looks again.  The       *)
(* awaits (publish, dial) are steps of their own.                          *)
(***************************************************************************)
EXTENDS Integers, Sequences, FiniteSets, SequencesExt

CONSTANTS
    Sources,          \* adapter tasks
    MdSymbols,          \* upstream symbols
    Prices,           \* ltp_paise of a message; 0 may be among them
    SectorOf,         \* BreadthAggregator.sectors: a function on some ids
    PrevClose,        \* BreadthAggregator.prev_close: a function on some ids
    Receivers,        \* in-process subscribers of the distributor
    ChannelCapacity,  \* Distributor.capacity
    VolatilityWindow, \* returns kept per symbol
    BatchTicks,       \* ticks that make a breadth batch
    MaxAttempts,      \* attempts is saturating here instead of at u32::MAX
    Flaky,            \* bound: the sources whose connection drops
    MaxTicks          \* bound: messages read

VARIABLES
    ids,        \* SymbolInterner.map
    nextId,     \* SymbolInterner.next
    task,       \* per source: where its loop is and the tick in hand
    socket,     \* LiveWsAdapter.stream is Some
    dialAttempts,   \* LiveWsAdapter.attempts
    connEvent,  \* last md.connection event of a source: status and attempt
    channels,   \* Distributor.channels: ids that have one
    rx,         \* per receiver: the id it subscribed to and its pending ticks
    breadth,    \* per source: BreadthAggregator
    mdBreadth,  \* per source: the last sector and volatility figures published
    mdTicks     \* history: ticks published and handed on, in order

mdVars == <<ids, nextId, task, socket, dialAttempts, connEvent, channels, rx, breadth,
            mdBreadth, mdTicks>>

Idle == [pc |-> "read", sym |-> "none", px |-> 0, id |-> 0]
NoBreadth == [last |-> <<>>, returns |-> <<>>, batch |-> 0]
Unpublished == [sectors |-> <<>>, samples |-> 0, flat |-> TRUE]

MdInit ==
    /\ ids = <<>> /\ nextId = 1
    /\ task = [s \in Sources |-> Idle]
    /\ socket = [s \in Sources |-> TRUE]
    /\ dialAttempts = [s \in Sources |-> 0]
    /\ connEvent = [s \in Sources |-> [status |-> "none", attempt |-> 0]]
    /\ channels = {} /\ rx = [r \in Receivers |-> [id |-> 0, queue |-> <<>>]]
    /\ breadth = [s \in Sources |-> NoBreadth]
    /\ mdBreadth = [s \in Sources |-> Unpublished] /\ mdTicks = <<>>

Reading(s) == task[s].pc = "read"
InHand == Cardinality({s \in Sources : task[s].pc \in {"insert", "publish"}})

-----------------------------------------------------------------------------
(* Reading and normalising. *)

\* next_message parses a tick; intern finds the symbol, or takes a candidate
\* from the counter and goes on to insert it.
ReadTick(s, sym, px) ==
    /\ Reading(s) /\ socket[s] /\ Len(mdTicks) + InHand < MaxTicks
    /\ IF sym \in DOMAIN ids
       THEN /\ task' = [task EXCEPT ![s] = [pc |-> "publish", sym |-> sym, px |-> px, id |-> ids[sym]]]
            /\ UNCHANGED nextId
       ELSE /\ task' = [task EXCEPT ![s] = [pc |-> "insert", sym |-> sym, px |-> px, id |-> nextId]]
            /\ nextId' = nextId + 1
    /\ UNCHANGED <<ids, socket, dialAttempts, connEvent, channels, rx, breadth, mdBreadth, mdTicks>>

\* entry(sym).or_insert(candidate): the id that is there already wins.
OrInsert(sym, candidate) == IF sym \in DOMAIN ids THEN ids[sym] ELSE candidate

\* Mutant: the candidate is used although another task was first.
OrInsertOwn(sym, candidate) == candidate

InternedId(sym, candidate) == OrInsert(sym, candidate)

InternInsert(s) ==
    /\ task[s].pc = "insert"
    /\ LET sym == task[s].sym
           id == InternedId(sym, task[s].id)
       IN  /\ ids' = [x \in DOMAIN ids \cup {sym} |-> IF x = sym THEN id ELSE ids[x]]
           /\ task' = [task EXCEPT ![s].pc = "publish", ![s].id = id]
    /\ UNCHANGED <<nextId, socket, dialAttempts, connEvent, channels, rx, breadth, mdBreadth, mdTicks>>

-----------------------------------------------------------------------------
(* Breadth. *)

\* RingWindow::push.
PushRing(ring, x) == IF Len(ring) < VolatilityWindow THEN Append(ring, x) ELSE Append(Tail(ring), x)

\* A return is kept as the pair it was computed from; none when the previous
\* price is absent or 0.
OnPrice(b, id, px) ==
    LET seen == id \in DOMAIN b.last
        ring == IF seen THEN b.returns[id] ELSE <<>>
        known == DOMAIN b.last \cup {id}
        ring2 == IF seen /\ b.last[id] # 0 THEN PushRing(ring, <<b.last[id], px>>) ELSE ring
    IN  [last |-> [i \in known |-> IF i = id THEN px ELSE b.last[i]],
         returns |-> [i \in known |-> IF i = id THEN ring2 ELSE b.returns[i]],
         batch |-> b.batch + 1]

\* compute_sector: advancers less decliners, and the symbols counted, over
\* the symbols with a sector and a previous close.
Counted(b, sec) ==
    {i \in DOMAIN b.last : i \in DOMAIN SectorOf /\ SectorOf[i] = sec
                           /\ i \in DOMAIN PrevClose /\ PrevClose[i] # 0}
SectorFigures(b) ==
    [sec \in {SectorOf[i] : i \in {j \in DOMAIN SectorOf : j \in Counted(b, SectorOf[j])}} |->
        LET c == Counted(b, sec)
        IN  [net |-> Cardinality({i \in c : b.last[i] > PrevClose[i]})
                     - Cardinality({i \in c : b.last[i] < PrevClose[i]}),
             total |-> Cardinality(c)]]

\* compute_volatility: the number of returns, and whether their standard
\* deviation is 0 (fewer than two, or all equal).
Returns(b) == UNION {Range(b.returns[i]) : i \in DOMAIN b.returns}
Samples(b) == FoldFunction(LAMBDA ring, n : n + Len(ring), 0, b.returns)
SameReturn(p, q) == (p[2] - p[1]) * q[1] = (q[2] - q[1]) * p[1]
Figures(b) ==
    [sectors |-> SectorFigures(b), samples |-> Samples(b),
     flat |-> Samples(b) < 2 \/ \A p, q \in Returns(b) : SameReturn(p, q)]

-----------------------------------------------------------------------------
(* Publishing. *)

\* Distributor::broadcast: only a symbol somebody asked for has a channel; a
\* receiver that lags loses its oldest ticks.
Delivered(t) ==
    [r \in Receivers |->
        IF rx[r].id # t.id THEN rx[r]
        ELSE [rx[r] EXCEPT !.queue = IF Len(@) < ChannelCapacity THEN Append(@, t) ELSE Append(Tail(@), t)]]

\* ingest_tick and the breadth it triggers: the receivers and the breadth see
\* a tick only once it is published.  elapsed: the batch interval is over.
IngestStep(s, elapsed) ==
    LET t == [source |-> s, id |-> task[s].id, sym |-> task[s].sym, px |-> task[s].px]
        b == OnPrice(breadth[s], t.id, t.px)
        due == b.batch >= BatchTicks \/ elapsed
    IN  /\ mdTicks' = Append(mdTicks, t)
        /\ rx' = IF t.id \in channels THEN Delivered(t) ELSE rx
        /\ breadth' = [breadth EXCEPT ![s] = IF due THEN [b EXCEPT !.batch = 0] ELSE b]
        /\ mdBreadth' = IF due THEN [mdBreadth EXCEPT ![s] = Figures(b)] ELSE mdBreadth

\* Mutant: the figures are computed before the tick is folded in.
IngestStale(s, elapsed) ==
    LET t == [source |-> s, id |-> task[s].id, sym |-> task[s].sym, px |-> task[s].px]
        b == OnPrice(breadth[s], t.id, t.px)
        due == b.batch >= BatchTicks \/ elapsed
    IN  /\ mdTicks' = Append(mdTicks, t)
        /\ rx' = IF t.id \in channels THEN Delivered(t) ELSE rx
        /\ breadth' = [breadth EXCEPT ![s] = IF due THEN [b EXCEPT !.batch = 0] ELSE b]
        /\ mdBreadth' = IF due THEN [mdBreadth EXCEPT ![s] = Figures(breadth[s])] ELSE mdBreadth

IngestTick(s, elapsed) == IngestStep(s, elapsed)

PublishTick(s, elapsed) ==
    /\ task[s].pc = "publish"
    /\ IngestTick(s, elapsed)
    /\ task' = [task EXCEPT ![s] = Idle]
    /\ UNCHANGED <<ids, nextId, socket, dialAttempts, connEvent, channels>>

\* The publish fails: the tick is lost for receivers and breadth too.
PublishFails(s) ==
    /\ task[s].pc = "publish"
    /\ task' = [task EXCEPT ![s] = Idle]
    /\ UNCHANGED <<ids, nextId, socket, dialAttempts, connEvent, channels, rx, breadth, mdBreadth, mdTicks>>

\* Distributor::subscribe creates the channel of the id; the receiver starts empty.
SubscribeTicks(r, id) ==
    /\ rx[r].id = 0
    /\ channels' = channels \cup {id} /\ rx' = [rx EXCEPT ![r] = [id |-> id, queue |-> <<>>]]
    /\ UNCHANGED <<ids, nextId, task, socket, dialAttempts, connEvent, breadth, mdBreadth, mdTicks>>

ReceiveTick(r) ==
    /\ rx[r].queue # <<>>
    /\ rx' = [rx EXCEPT ![r].queue = Tail(@)]
    /\ UNCHANGED <<ids, nextId, task, socket, dialAttempts, connEvent, channels, breadth, mdBreadth, mdTicks>>

-----------------------------------------------------------------------------
(* Losing the connection. *)

\* next_message fails: close, transport error, end of stream, a message that
\* does not parse, or no stream since the last dial failed.  reconnect drops
\* the stream, announces it, sleeps (at most 30 s) and counts the
\* attempt.
DropConnection(s) ==
    /\ s \in Flaky /\ Reading(s)
    /\ socket' = [socket EXCEPT ![s] = FALSE]
    /\ connEvent' = [connEvent EXCEPT ![s] = [status |-> "disconnected", attempt |-> dialAttempts[s]]]
    /\ dialAttempts' = [dialAttempts EXCEPT ![s] = IF @ = MaxAttempts THEN @ ELSE @ + 1]
    /\ task' = [task EXCEPT ![s].pc = "dial"]
    /\ UNCHANGED <<ids, nextId, channels, rx, breadth, mdBreadth, mdTicks>>

DialFails(s) ==
    /\ task[s].pc = "dial"
    /\ task' = [task EXCEPT ![s] = Idle]
    /\ UNCHANGED <<ids, nextId, socket, dialAttempts, connEvent, channels, rx, breadth, mdBreadth, mdTicks>>

\* Whether the loop still dials.
Dials(s) == TRUE

\* Mutant: the task gives up when the counter saturates.
DialsAtFirst(s) == dialAttempts[s] < MaxAttempts

KeepsDialling(s) == Dials(s)

DialOk(s) ==
    /\ task[s].pc = "dial" /\ KeepsDialling(s)
    /\ socket' = [socket EXCEPT ![s] = TRUE]
    /\ connEvent' = [connEvent EXCEPT ![s] = [status |-> "reconnected", attempt |-> dialAttempts[s] - 1]]
    /\ dialAttempts' = [dialAttempts EXCEPT ![s] = 0]
    /\ task' = [task EXCEPT ![s] = Idle]
    /\ UNCHANGED <<ids, nextId, channels, rx, breadth, mdBreadth, mdTicks>>

MdNext ==
    \/ \E s \in Sources :
          \/ \E sym \in MdSymbols, px \in Prices : ReadTick(s, sym, px)
          \/ InternInsert(s)
          \/ \E elapsed \in BOOLEAN : PublishTick(s, elapsed)
          \/ PublishFails(s) \/ DropConnection(s) \/ DialFails(s) \/ DialOk(s)
    \/ \E r \in Receivers : ReceiveTick(r) \/ \E id \in 1..Cardinality(MdSymbols) : SubscribeTicks(r, id)

\* The runtime polls every task; a dial that is tried for ever succeeds again
\* and again (the exchange does not refuse for ever).
MdFairness ==
    \A s \in Sources : WF_mdVars(~socket[s] /\ DropConnection(s)) /\ SF_mdVars(DialOk(s))

MdSpec == MdInit /\ [][MdNext]_mdVars /\ MdFairness

-----------------------------------------------------------------------------
(* Properties. *)

\* However the adapter tasks race in SymbolInterner::intern, no two symbols
\* share an id, none has the sentinel 0, and every tick a task published or
\* holds for publishing carries the one id its symbol has for good.
OneIdPerSymbol ==
    /\ \A x, y \in DOMAIN ids : ids[x] = ids[y] => x = y
    /\ \A x \in DOMAIN ids : ids[x] \in 1..(nextId - 1)
    /\ \A i \in DOMAIN mdTicks : mdTicks[i].id = ids[mdTicks[i].sym]
    /\ \A s \in Sources : task[s].pc = "publish" => task[s].id = ids[task[s].sym]

\* The prices a source's breadth works from are those of the last tick of each
\* symbol that source published: a tick whose publish failed moves nothing,
\* and figures just published (batch 0) take in the tick that triggered them.
BreadthFollowsTicks ==
    \A s \in Sources :
        LET mine == SelectSeq(mdTicks, LAMBDA t : t.source = s)
            newest(id) == Last(SelectSeq(mine, LAMBDA t : t.id = id)).px
        IN  /\ DOMAIN breadth[s].last = {mine[i].id : i \in DOMAIN mine}
            /\ \A id \in DOMAIN breadth[s].last : breadth[s].last[id] = newest(id)
            /\ breadth[s].batch = 0 /\ mine # <<>> => mdBreadth[s] = Figures(breadth[s])

\* A source that lost its stream gets one back, however many dials fail.
FeedRecovers == \A s \in Sources : ~socket[s] ~> socket[s]

=============================================================================
