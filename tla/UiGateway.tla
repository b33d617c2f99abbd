----------------------------- MODULE UiGateway -----------------------------
(***************************************************************************)
(* hedge-ui-gateway: one task per WebSocket connection, each with its own  *)
(* subscriptions and its own receiver of the process-wide broadcast of bus *)
(* messages, over ONE join buffer, ONE alert buffer and ONE volatility     *)
(* flag that all of them share.                                            *)
(*                                                                         *)
(* Every connection feeds every message it receives to the shared state.   *)
(* A step is the code between two acquisitions of a shared lock; handling  *)
(* a message takes one step, and one more to list the alerts.  Messages    *)
(* carry their number, which stands for their payload and their ts_ns.     *)
(* The acks and errors that answer a client's frames are left out, and so  *)
(* are the frames that only get an answer (ping, a malformed frame).       *)
(***************************************************************************)
EXTENDS Integers, Sequences, FiniteSets, Functions, SequencesExt

CONSTANTS
    Conns,           \* WebSocket connections
    Wanted,          \* channels their clients may subscribe to
    Topics,          \* topics of a filter, and of a message
    Subjects,        \* subject families the other services publish on
    Rankers,         \* ranking components
    Shadowed,        \* config.ai.shadow_components
    Ttl,             \* join TTL, in ticks
    JoinCapacity,    \* capacity of SignalsJoiner
    AlertCapacity,   \* capacity of AlertBuffer
    BroadcastDepth,  \* capacity of the broadcast channel
    MaxMessages,     \* bound: messages on the bus
    MaxRequests      \* bound: changes of the clients' subscriptions

ASSUME GatewayAssumption ==
    /\ Shadowed \subseteq Rankers
    /\ Ttl \in Nat /\ JoinCapacity \in Nat \ {0} /\ AlertCapacity \in Nat \ {0}
    /\ BroadcastDepth \in Nat \ {0} /\ MaxMessages \in Nat /\ MaxRequests \in Nat

VARIABLES
    open,       \* connections that are up
    subs,       \* per connection: channel -> topic filter, {} for all topics
    inbox,         \* per connection: broadcast messages not yet received
    lagged,     \* per connection: the broadcast overwrote messages of it
    listing,    \* per connection: severity known, the alerts not yet listed
    sent,       \* what the last step sent: [to, channel, payload]
    mode,       \* per connection: the last Mode its client was sent
    joins,      \* SignalsJoiner map: correlation id -> PendingJoin
    order,      \* SignalsJoiner insertion order
    alerts,     \* AlertBuffer
    highVol,    \* VolatilityTracker.in_high_vol
    count,      \* messages broadcast so far
    asked       \* changes of subscription so far

gwVars == <<open, subs, inbox, lagged, listing, sent, mode, joins, order, alerts,
            highVol, count, asked>>

Channels == {"market", "orderflow", "signals", "risk", "exec", "news", "psych",
             "alerts", "replay", "latency", "control"}

\* The subject families the gateway subscribes to, by the channel they feed.
NatsPatterns ==
    [market    |-> {"md.tick", "md.book", "md.oi", "md.connection", "md.breadth.sector",
                    "md.breadth.volatility"},
     orderflow |-> {"of.event", "of.heatmap"},
     signals   |-> {"sig.emitted", "ai.rank"},
     risk      |-> {"risk.decision.approved", "risk.decision.rejected",
                    "risk.killswitch.activated", "risk.target.reached",
                    "risk.cooldown", "pos.update", "pos.risk_state"},
     exec      |-> {"exec.order", "exec.fill", "exec.broker.failover", "exec.trade.closed"},
     news      |-> {"ai.news.impact"},
     psych     |-> {"ai.psych.stability", "ai.psych.intervention"},
     alerts    |-> {},
     replay    |-> {"ops.action.replay"},
     latency   |-> {"obs.latency", "obs.budget.breach"},
     control   |-> {}]

\* Every subscribed family is routed back to the channel that asked for it.
ClassifySubject(s) == {ch \in Channels : s \in NatsPatterns[ch]}

Rank(severity) ==
    CASE severity = "critical" -> 3 [] severity = "error" -> 2
      [] severity = "warning" -> 1 [] severity = "info" -> 0

SeverityForSubject(s) ==
    CASE s = "risk.killswitch.activated" -> {"critical"}
      [] s = "risk.target.reached" -> {"info"}
      [] s \in {"exec.broker.failover", "ai.ollama.degraded", "obs.budget.breach",
                "ai.gov.action", "ai.psych.intervention", "md.connection"} -> {"warning"}
      [] s = "obs.error" -> {"error"}
      [] OTHER -> {}

\* decode_payload_shim drops the correlation id of a binary signal; a JSON
\* one keeps it.  A signal's number is its correlation id, NoCid when it is
\* gone.  Each pattern has its own task, so a rank may precede its signal.
NoCid == 0

Message(n) ==
    [id : {n}, subject : Subjects \ {"sig.emitted", "ai.rank", "md.breadth.volatility"},
     topic : Topics]
    \cup [id : {n}, subject : Subjects \cap {"sig.emitted"}, cid : {n, NoCid}]
    \cup [id : {n}, subject : Subjects \cap {"ai.rank"}, cid : 1 .. MaxMessages, source : Rankers]
    \cup [id : {n}, subject : Subjects \cap {"md.breadth.volatility"}, high : BOOLEAN]

-----------------------------------------------------------------------------
IsSubscribed(c, ch) == ch \in DOMAIN subs[c]

\* An empty filter takes every topic; the volatility message has none to match.
Accepts(c, ch, msg) ==
    /\ IsSubscribed(c, ch)
    /\ subs[c][ch] = {} \/ ("topic" \in DOMAIN msg /\ msg.topic \in subs[c][ch])

GwInit ==
    /\ open = {} /\ subs = [c \in Conns |-> <<>>] /\ inbox = [c \in Conns |-> <<>>]
    /\ lagged = [c \in Conns |-> FALSE] /\ listing = [c \in Conns |-> FALSE]
    /\ sent = <<>> /\ mode = [c \in Conns |-> FALSE]
    /\ joins = <<>> /\ order = <<>> /\ alerts = <<>>
    /\ highVol = FALSE /\ count = 0 /\ asked = 0

\* serve: a fresh Dispatcher and a receiver that starts at the present.
Accept(c) ==
    /\ c \notin open /\ open' = open \cup {c}
    /\ subs' = [subs EXCEPT ![c] = <<>>] /\ inbox' = [inbox EXCEPT ![c] = <<>>]
    /\ lagged' = [lagged EXCEPT ![c] = FALSE]
    /\ sent' = <<>> /\ mode' = [mode EXCEPT ![c] = FALSE]
    /\ UNCHANGED <<listing, joins, order, alerts, highVol, count, asked>>

\* A Close frame, the end of the stream or a failed send.
Close(c) ==
    /\ c \in open /\ open' = open \ {c}
    /\ subs' = [subs EXCEPT ![c] = <<>>] /\ inbox' = [inbox EXCEPT ![c] = <<>>]
    /\ lagged' = [lagged EXCEPT ![c] = FALSE] /\ listing' = [listing EXCEPT ![c] = FALSE]
    /\ sent' = <<>> /\ mode' = [mode EXCEPT ![c] = FALSE]
    /\ UNCHANGED <<joins, order, alerts, highVol, count, asked>>

\* The select loop of c is at its head.
Waiting(c) == c \in open /\ ~listing[c]

Published == <<[to |-> "bus", channel |-> "trader.intent", payload |-> "intent"]>>

Subscribe(c, ch, topics) ==
    /\ Waiting(c) /\ asked < MaxRequests /\ asked' = asked + 1
    /\ subs' = [subs EXCEPT ![c] =
                    [x \in DOMAIN subs[c] \cup {ch} |-> IF x = ch THEN topics ELSE subs[c][x]]]
    /\ sent' = <<>>
    /\ UNCHANGED <<open, inbox, lagged, listing, mode, joins, order, alerts, highVol, count>>

Unsubscribe(c, ch) ==
    /\ Waiting(c) /\ asked < MaxRequests /\ asked' = asked + 1
    /\ subs' = [subs EXCEPT ![c] = Restrict(subs[c], DOMAIN subs[c] \ {ch})]
    /\ sent' = <<>>
    /\ UNCHANGED <<open, inbox, lagged, listing, mode, joins, order, alerts, highVol, count>>

\* handle_intent: the control subscription, validate_intent, the publish.
Intent(c, valid, published) ==
    /\ Waiting(c)
    /\ sent' = IF IsSubscribed(c, "control") /\ valid /\ published THEN Published ELSE <<>>
    /\ UNCHANGED <<open, subs, inbox, lagged, listing, mode, joins, order, alerts, highVol,
                   count, asked>>

\* spawn_nats_to_broadcast: a send with no receiver is dropped, a full
\* receiver loses its oldest message.
Broadcast(msg) ==
    /\ count < MaxMessages /\ count' = count + 1
    /\ IF ClassifySubject(msg.subject) = {} THEN UNCHANGED <<inbox, lagged>>
       ELSE /\ inbox' = [c \in Conns |->
                        CASE c \notin open -> inbox[c]
                          [] c \in open /\ Len(inbox[c]) < BroadcastDepth -> Append(inbox[c], msg)
                          [] OTHER -> Append(Tail(inbox[c]), msg)]
            /\ lagged' = [c \in Conns |->
                        lagged[c] \/ (c \in open /\ Len(inbox[c]) = BroadcastDepth)]
    /\ sent' = <<>>
    /\ UNCHANGED <<open, subs, listing, mode, joins, order, alerts, highVol, asked>>

\* RecvError::Lagged is reported once and the loop goes on.
RecvLagged(c) ==
    /\ Waiting(c) /\ lagged[c]
    /\ lagged' = [lagged EXCEPT ![c] = FALSE] /\ sent' = <<>>
    /\ UNCHANGED <<open, subs, inbox, listing, mode, joins, order, alerts, highVol,
                   count, asked>>

-----------------------------------------------------------------------------
(* SignalsJoiner.  A buffer is the pair of its map and its order. *)

FreshJoin == [signal |-> 0, ranks |-> {}, shadowed |-> {}, age |-> 0]
Expired(j) == j.age > Ttl

\* order_remove of each key in gone.
Retain(keys, gone) ==
    LET kept[i \in 0 .. Len(keys)] ==
            IF i = 0 THEN <<>>
            ELSE IF keys[i] \in gone THEN kept[i - 1] ELSE Append(kept[i - 1], keys[i])
    IN  kept[Len(keys)]

Without(buf, gone) ==
    [map |-> Restrict(buf.map, DOMAIN buf.map \ gone), order |-> Retain(buf.order, gone)]

\* Expired entries that can never become a payload.
Hopeless(j) == Expired(j) /\ j.signal = 0 /\ j.ranks = {}

\* Mutant: an expired signal nobody has ranked is given up too.
Unranked(j) == Expired(j) /\ j.ranks = {}

Stale(j) == Hopeless(j)

PruneExpired(buf) == Without(buf, {k \in DOMAIN buf.map : Stale(buf.map[k])})

Entry(buf, k) == IF k \in DOMAIN buf.map THEN buf.map[k] ELSE FreshJoin

Put(buf, k, j) ==
    [map |-> [x \in DOMAIN buf.map \cup {k} |-> IF x = k THEN j ELSE buf.map[x]],
     order |-> IF k \in DOMAIN buf.map THEN buf.order ELSE Append(buf.order, k)]

\* One insertion at a time: at most the oldest entry is over the capacity.
EvictOldest(buf) ==
    IF Cardinality(DOMAIN buf.map) > JoinCapacity THEN Without(buf, {Head(buf.order)}) ELSE buf

\* Mutant: the newest entry is taken from the order, the oldest from the map.
EvictUneven(buf) ==
    IF Cardinality(DOMAIN buf.map) > JoinCapacity
    THEN [map |-> Without(buf, {Head(buf.order)}).map, order |-> Front(buf.order)] ELSE buf

EnforceCapacity(buf) == EvictOldest(buf)

Joined(j) == j.signal # 0 /\ j.ranks # {}
MergePayload(j) == [signal |-> j.signal, ranks |-> j.ranks]

\* The half a message adds: a rank of a shadowed component is only noted.
AddHalf(j, msg) ==
    CASE msg.subject = "sig.emitted" -> [j EXCEPT !.signal = msg.id]
      [] msg.subject # "sig.emitted" /\ msg.source \in Shadowed ->
            [j EXCEPT !.shadowed = @ \cup {msg.source}]
      [] OTHER -> [j EXCEPT !.ranks = @ \cup {msg.source}]

\* Mutant: the shadow filter is not consulted.
AddHalfUnfiltered(j, msg) ==
    IF msg.subject = "sig.emitted" THEN [j EXCEPT !.signal = msg.id]
    ELSE [j EXCEPT !.ranks = @ \cup {msg.source}]

AddToJoin(j, msg) == AddHalf(j, msg)

\* feed_signal and feed_rank: the buffer afterwards and what is shown.
Feed(msg) ==
    LET buf == PruneExpired([map |-> joins, order |-> order])
        j == AddToJoin(Entry(buf, msg.cid), msg)
        fed == Put(buf, msg.cid, j)
    IN  [buf |-> EnforceCapacity(IF Joined(j) THEN Without(fed, {msg.cid}) ELSE fed),
         shown |-> IF Joined(j) THEN <<MergePayload(j)>> ELSE <<>>]

OnChannel(c, ch, payloads) ==
    [i \in DOMAIN payloads |-> [to |-> c, channel |-> ch, payload |-> payloads[i]]]

\* observe and set: the flag is swapped, a change is reported to the caller.
Flipped(msg) == msg.subject = "md.breadth.volatility" /\ msg.high # highVol

\* handle_nats_event, and the push of ingest_for_alerts.
RecvStep(c) ==
    /\ Waiting(c) /\ ~lagged[c] /\ inbox[c] # <<>>
    /\ LET msg == Head(inbox[c])
           signals == msg.subject \in NatsPatterns.signals /\ IsSubscribed(c, "signals")
           routed == {ch \in ClassifySubject(msg.subject) \ {"signals"} : Accepts(c, ch, msg)}
           severity == SeverityForSubject(msg.subject)
           fed == Feed(msg)
       IN  /\ inbox' = [inbox EXCEPT ![c] = Tail(@)]
           /\ highVol' = IF msg.subject = "md.breadth.volatility" THEN msg.high ELSE highVol
           /\ mode' = IF Flipped(msg) /\ IsSubscribed(c, "market")
                      THEN [mode EXCEPT ![c] = msg.high] ELSE mode
           /\ joins' = IF signals THEN fed.buf.map ELSE joins
           /\ order' = IF signals THEN fed.buf.order ELSE order
           /\ sent' = OnChannel(c, "signals", IF signals THEN fed.shown ELSE <<>>)
                      \o SetToSeq({[to |-> c, channel |-> ch, payload |-> msg.id] : ch \in routed})
           /\ alerts' = IF severity = {} THEN alerts
                        ELSE Append(IF Len(alerts) < AlertCapacity THEN alerts ELSE Tail(alerts),
                                    [severity |-> CHOOSE s \in severity : TRUE, id |-> msg.id])
           /\ listing' = [listing EXCEPT ![c] = severity # {}]
    /\ UNCHANGED <<open, subs, lagged, count, asked>>

Recv(c) == RecvStep(c)

\* sort_by_key (Reverse(rank), Reverse(ts_ns)): a stable sort.
MoreUrgent(a, b) ==
    \/ Rank(a.severity) > Rank(b.severity)
    \/ Rank(a.severity) = Rank(b.severity) /\ a.id >= b.id

\* Mutant: the most recent alert first, whatever its severity.
MoreRecent(a, b) == a.id >= b.id

Before(a, b) == MoreUrgent(a, b)
Ordered == SortSeq(alerts, Before)

\* The second half of ingest_for_alerts: ordered() under the lock again.
ListAlerts(c) ==
    /\ c \in open /\ listing[c]
    /\ listing' = [listing EXCEPT ![c] = FALSE]
    /\ sent' = IF IsSubscribed(c, "alerts")
               THEN <<[to |-> c, channel |-> "alerts", payload |-> Ordered]>> ELSE <<>>
    /\ UNCHANGED <<open, subs, inbox, lagged, mode, joins, order, alerts, highVol,
                   count, asked>>

\* What flush_expired takes out of the buffer.
Due == {k \in DOMAIN joins : Expired(joins[k])}

\* Mutant: a signal that no component has ranked yet is left in the buffer.
DueRanked == {k \in DOMAIN joins : Expired(joins[k]) /\ joins[k].signal = 0}

FlushDue == Due

\* drain_signal_flushes: the expired entries, those with a signal shown.
Flush(c) ==
    /\ Waiting(c)
    /\ LET due == IF IsSubscribed(c, "signals") THEN FlushDue ELSE {}
           buf == Without([map |-> joins, order |-> order], due)
           shown == SetToSeq({MergePayload(joins[k]) : k \in {x \in due : joins[x].signal # 0}})
       IN  /\ joins' = buf.map /\ order' = buf.order
           /\ sent' = OnChannel(c, "signals", shown)
    /\ UNCHANGED <<open, subs, inbox, lagged, listing, mode, alerts, highVol, count, asked>>

\* The clock; ages past the TTL are alike.
Age ==
    /\ \E k \in DOMAIN joins : ~Expired(joins[k])
    /\ joins' = [k \in DOMAIN joins |->
                   IF Expired(joins[k]) THEN joins[k] ELSE [joins[k] EXCEPT !.age = @ + 1]]
    /\ sent' = <<>>
    /\ UNCHANGED <<open, subs, inbox, lagged, listing, mode, order, alerts, highVol,
                   count, asked>>

GwNext ==
    \/ \E c \in Conns :
        \/ Accept(c) \/ Close(c) \/ RecvLagged(c) \/ Recv(c) \/ ListAlerts(c) \/ Flush(c)
        \/ \E ch \in Wanted : Unsubscribe(c, ch) \/ \E ts \in SUBSET Topics : Subscribe(c, ch, ts)
        \/ \E valid, published \in BOOLEAN : Intent(c, valid, published)
    \/ \E msg \in Message(count + 1) : Broadcast(msg)
    \/ Age

\* The runtime polls every task, the flush interval ticks, time passes.
GwFairness ==
    /\ WF_gwVars(Age)
    /\ \A c \in Conns : /\ WF_gwVars(Flush(c))
                        /\ WF_gwVars(RecvLagged(c) \/ Recv(c) \/ ListAlerts(c))

GwSpec == GwInit /\ [][GwNext]_gwVars /\ GwFairness

-----------------------------------------------------------------------------
\* The join buffer's two halves agree and keep to its capacity, whichever
\* connections feed, flush and evict it.
JoinBufferInStep ==
    /\ {order[i] : i \in DOMAIN order} = DOMAIN joins
    /\ Len(order) = Cardinality(DOMAIN joins) /\ Len(order) <= JoinCapacity

\* A rank of a shadowed component never reaches a client (R23.2), however the
\* halves of a join and the flushes of several connections interleave.
ShadowedNeverShown ==
    \A i \in DOMAIN sent :
        sent[i].channel = "signals" => sent[i].payload.ranks \cap Shadowed = {}

\* Signal n is being shown on /signals to a subscriber of the channel.
ShownToSubscriber(n) ==
    \E i \in DOMAIN sent' : /\ sent'[i].channel = "signals" /\ sent'[i].payload.signal = n
                            /\ IsSubscribed(sent'[i].to, "signals")

\* However the connections that share it feed, flush and evict the join buffer, a
\* buffered signal leaves it only towards a /signals subscriber, or because the
\* buffer is full and a new entry needs its place; one without a correlation id
\* also gives way to the next such signal.
SignalsNotHidden ==
    [][\A k \in DOMAIN joins : joins[k].signal # 0 =>
          \/ k \in DOMAIN joins' /\ joins'[k].signal = joins[k].signal
          \/ ShownToSubscriber(joins[k].signal)
          \/ Cardinality(DOMAIN joins) = JoinCapacity /\ DOMAIN joins' \ DOMAIN joins # {}
          \/ k = NoCid /\ k \in DOMAIN joins']_gwVars

\* "Both halves are now present - forward the merged payload to `/signals`
\* subscribers" (signals_join.rs:103-104): a signal that has reached every receiver
\* is shown to each client on /signals, unless it leaves the channel.  TLC refutes
\* it with two connections.
EverySubscriberIsShown ==
    \A c \in Conns, n \in 1 .. MaxMessages :
        (/\ IsSubscribed(c, "signals")
         /\ \A d \in open : \E i \in DOMAIN inbox[d] :
                inbox[d][i].id = n /\ inbox[d][i].subject = "sig.emitted")
        ~> \/ \E i \in DOMAIN sent : /\ sent[i].to = c /\ sent[i].channel = "signals"
                                     /\ sent[i].payload.signal = n
           \/ ~IsSubscribed(c, "signals")

\* A rank buffer without a correlation id is harmless (dispatcher.rs,
\* feed_signals_join): with room to spare every buffered signal is shown.
EmptyKeyHarmless ==
    [][\A k \in DOMAIN joins : joins[k].signal # 0 =>
          \/ k \in DOMAIN joins' /\ joins'[k].signal = joins[k].signal
          \/ ShownToSubscriber(joins[k].signal)
          \/ Cardinality(DOMAIN joins) = JoinCapacity /\ DOMAIN joins' \ DOMAIN joins # {}]_gwVars

\* A list of alerts puts the urgent ones first, whatever the other
\* connections push between this connection's push and its listing.
AlertsByUrgency ==
    \A m \in DOMAIN sent : sent[m].channel = "alerts" =>
        \A i, j \in DOMAIN sent[m].payload :
            i < j => Rank(sent[m].payload[i].severity) >= Rank(sent[m].payload[j].severity)

\* Each buffered signal leaves the buffer while somebody is on /signals, however
\* fast others follow it and whichever connections feed and flush.
PendingSignalsLeave ==
    \A n \in 1 .. MaxMessages :
        (\E k \in DOMAIN joins : joins[k].signal = n) ~>
            \/ \A k \in DOMAIN joins : joins[k].signal # n
            \/ \A c \in Conns : ~IsSubscribed(c, "signals")

\* The breadth update applies to every connection on /market (dispatcher.rs,
\* handle_nats_event): one that has received everything shows the mode.
ModeReachesEveryConnection ==
    \A c, d \in open :
        inbox[c] = <<>> /\ inbox[d] = <<>> /\ IsSubscribed(c, "market") /\ mode[d] => mode[c] = mode[d]
=============================================================================
