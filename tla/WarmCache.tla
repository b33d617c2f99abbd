------------------------------ MODULE WarmCache ------------------------------
(***************************************************************************)
(* hedge-warmcache: the last known scores of the AI services, kept for the *)
(* Risk_Engine.  One updater task takes the messages of five subjects, in  *)
(* any order between subjects, and is the only writer; readers load the    *)
(* current snapshot, or one trade's confidence, at any time.               *)
(*                                                                         *)
(* Scores are hundredths.  A payload that does not decode, or whose symbol *)
(* or correlation id does not parse, is dropped and changes nothing.       *)
(***************************************************************************)
EXTENDS Integers, Sequences, FiniteSets, SequencesExt

CONSTANTS
    Trades,          \* correlation ids
    WSymbols,        \* symbol ids
    Regimes,         \* labels of ai.regime.changed
    Scores,          \* scores a message may carry, out of range ones included
    ProducerStamps,  \* ts_ns a message may carry; 0 lets the updater stamp it
    LruSize,         \* trade_confidence_lru_size
    Staleness,       \* staleness_window_ms as a clock difference; 0: no limit
    MaxTracked,      \* MAX_TRACKED_SYMBOLS
    MaxClock,        \* bound: readings of the clock
    MaxAiEvents      \* bound: messages

\* ConfidenceLru::new refuses a capacity of 0.
ASSUME WarmCacheAssumption == LruSize \in Nat \ {0}

VARIABLES
    image,      \* Snapshot: market, trader, priority, news
    conf,      \* ConfidenceLru.map: score and stamp per trade
    order,     \* ConfidenceLru.order
    clock,     \* hedge_core::now_ns of this process
    told,      \* history: what each subject said last, per key
    arrivals,  \* history: the clock when a trade's score was stored
    aiEvents   \* messages so far

wcVars == <<image, conf, order, clock, told, arrivals, aiEvents>>

Clamp(v, lo, hi) == IF v < lo THEN lo ELSE IF v > hi THEN hi ELSE v

\* regime_to_market_stability; an unknown label is neutral.
Stability(label) ==
    CASE label = "Trending" -> 100 [] label = "Sideways" -> 80 [] label = "HighVolatility" -> 50
      [] label = "NewsDriven" -> 40 [] label = "LowParticipation" -> 30
      [] label = "LiquidityCrisis" -> 10 [] label = "Panic" -> 5 [] OTHER -> 100

\* parse_priority: an unknown label is P3.
Tier(label) == IF label \in {"P1", "P2", "P3", "P4"} THEN label ELSE "P3"

WcInit ==
    /\ image = [market |-> 100, trader |-> 100, priority |-> <<>>, news |-> <<>>]
    /\ conf = <<>> /\ order = <<>> /\ clock = 1
    /\ told = [market |-> 100, trader |-> 100, priority |-> <<>>, news |-> <<>>]
    /\ arrivals = <<>> /\ aiEvents = 0

MoreEvents == aiEvents < MaxAiEvents /\ aiEvents' = aiEvents + 1
Stamped(ts) == IF ts = 0 THEN clock ELSE ts
Put1(f, k, v) == [x \in DOMAIN f \cup {k} |-> IF x = k THEN v ELSE f[x]]

-----------------------------------------------------------------------------
(* The snapshot. *)

\* with_priority and with_news_impact: a table of pairs; when it is full the
\* first pair makes room, every time.
SetPair(tbl, sym, v) ==
    LET at == {i \in DOMAIN tbl : tbl[i][1] = sym}
    IN  IF at # {} THEN [i \in DOMAIN tbl |-> IF i \in at THEN <<sym, v>> ELSE tbl[i]]
        ELSE IF Len(tbl) < MaxTracked THEN Append(tbl, <<sym, v>>)
        ELSE [tbl EXCEPT ![1] = <<sym, v>>]

\* Mutant: the new pair is always appended and the look-up finds the old one.
SetPairAppend(tbl, sym, v) ==
    IF Len(tbl) < MaxTracked THEN Append(tbl, <<sym, v>>) ELSE [tbl EXCEPT ![1] = <<sym, v>>]

StorePair(tbl, sym, v) == SetPair(tbl, sym, v)

\* Snapshot::priority and news_impact: the first pair, or the default.
Lookup(tbl, sym, default) ==
    LET at == {i \in DOMAIN tbl : tbl[i][1] = sym}
    IN  IF at = {} THEN default ELSE tbl[CHOOSE i \in at : \A j \in at : i <= j][2]

HandleRegime(label) ==
    /\ MoreEvents
    /\ image' = [image EXCEPT !.market = Clamp(Stability(label), 0, 100)]
    /\ told' = [told EXCEPT !.market = Stability(label)]
    /\ UNCHANGED <<conf, order, clock, arrivals>>

HandlePsych(score) ==
    /\ MoreEvents
    /\ image' = [image EXCEPT !.trader = Clamp(score, 0, 100)]
    /\ told' = [told EXCEPT !.trader = Clamp(score, 0, 100)]
    /\ UNCHANGED <<conf, order, clock, arrivals>>

HandlePriority(sym, label) ==
    /\ MoreEvents
    /\ image' = [image EXCEPT !.priority = StorePair(@, sym, Tier(label))]
    /\ told' = [told EXCEPT !.priority = Put1(@, sym, Tier(label))]
    /\ UNCHANGED <<conf, order, clock, arrivals>>

HandleNews(sym, sentiment) ==
    /\ MoreEvents
    /\ image' = [image EXCEPT !.news = StorePair(@, sym, Clamp(sentiment, -100, 100))]
    /\ told' = [told EXCEPT !.news = Put1(@, sym, Clamp(sentiment, -100, 100))]
    /\ UNCHANGED <<conf, order, clock, arrivals>>

-----------------------------------------------------------------------------
(* Trade confidence. *)

\* ConfidenceLru::insert: an entry that is there keeps its place in the queue;
\* a new one may push the oldest out of queue and map.
InsertStep(c, score, ts) ==
    LET put == Put1(conf, c, [score |-> score, ts |-> ts])
        queue == IF c \in DOMAIN conf THEN order ELSE Append(order, c)
        out == IF Len(queue) > LruSize THEN {Head(queue)} ELSE {}
    IN  /\ order' = IF out = {} THEN queue ELSE Tail(queue)
        /\ conf' = [x \in DOMAIN put \ out |-> put[x]]

\* Mutant: an overwrite queues its key a second time.
InsertTwice(c, score, ts) ==
    LET put == Put1(conf, c, [score |-> score, ts |-> ts])
        queue == Append(order, c)
        out == IF Len(queue) > LruSize THEN {Head(queue)} ELSE {}
    IN  /\ order' = IF out = {} THEN queue ELSE Tail(queue)
        /\ conf' = [x \in DOMAIN put \ out |-> put[x]]

LruInsert(c, score, ts) == InsertStep(c, score, ts)

HandleRank(c, score, ts) ==
    /\ MoreEvents
    /\ LruInsert(c, score, Stamped(ts))
    /\ arrivals' = Put1(arrivals, c, clock)
    /\ UNCHANGED <<image, clock, told>>

\* ConfidenceLru::get at the reader's clock (saturating_sub).
ConfAge(c) == IF clock > conf[c].ts THEN clock - conf[c].ts ELSE 0
Confident(c) == c \in DOMAIN conf /\ (Staleness = 0 \/ ConfAge(c) <= Staleness)

\* trade_confidence(cid).unwrap_or(signal.confidence).
FallbackConfidence(c, own) == IF Confident(c) THEN conf[c].score ELSE own

CacheTick ==
    /\ clock < MaxClock /\ clock' = clock + 1
    /\ UNCHANGED <<image, conf, order, told, arrivals, aiEvents>>

WcNext ==
    \/ \E l \in Regimes : HandleRegime(l)
    \/ \E v \in Scores : HandlePsych(v)
    \/ \E s \in WSymbols, l \in {"P1", "P4", "P9"} : HandlePriority(s, l)
    \/ \E s \in WSymbols, v \in Scores : HandleNews(s, v)
    \/ \E c \in Trades, v \in Scores, ts \in ProducerStamps : HandleRank(c, v, ts)
    \/ CacheTick

WcSpec == WcInit /\ [][WcNext]_wcVars

-----------------------------------------------------------------------------
(* Properties. *)

\* A reader of any snapshot sees, for each subject, what that subject said
\* last, whatever the other subjects said in between; a symbol shows its
\* default instead only if the table is full and it lost its place.
LastKnownValues ==
    /\ image.market = told.market /\ image.trader = told.trader
    /\ \A s \in DOMAIN told.priority :
          \/ Lookup(image.priority, s, "P3") = told.priority[s]
          \/ Len(image.priority) = MaxTracked /\ \A i \in DOMAIN image.priority : image.priority[i][1] # s
    /\ \A s \in DOMAIN told.news :
          \/ Lookup(image.news, s, 0) = told.news[s]
          \/ Len(image.news) = MaxTracked /\ \A i \in DOMAIN image.news : image.news[i][1] # s

\* The insertion queue of the confidence map names exactly its keys, each
\* once, and never more than the configured number: no score is kept for
\* ever and none is lost while its key is still queued.
QueueNamesTheMap ==
    /\ IsInjective(order) /\ Range(order) = DOMAIN conf
    /\ Len(order) <= LruSize

\* An entry that was stored longer ago than the staleness window is not
\* reported (the module comment of lru.rs): the signal's own confidence (here
\* -1, which no message carries) is used instead.
StaleIsHidden ==
    \A c \in DOMAIN conf :
        Staleness > 0 /\ clock - arrivals[c] > Staleness => FallbackConfidence(c, -1) = -1

=============================================================================
