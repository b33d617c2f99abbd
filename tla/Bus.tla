-------------------------------- MODULE Bus --------------------------------
(***************************************************************************)
(* hedge-bus: typed subjects over NATS, and Redis streams read through     *)
(* consumer groups.                                                        *)
(*                                                                         *)
(* The NATS server delivers a message to every open subscription whose     *)
(* pattern matches its subject; the Redis server keeps the stream, the     *)
(* group's position and its pending list.  Both are external and modelled  *)
(* by the commands the crate sends them.                                   *)
(***************************************************************************)
EXTENDS Integers, Sequences, FiniteSets, SequencesExt

CONSTANTS
    Args,          \* symbols, states, stages: the last token of a subject
    Subscribers,   \* NatsSubscriber values
    Families,      \* the subject families in use, a subset of AllFamilies
    Payloads,      \* whether an entry of the stream decodes: TRUE, FALSE
    GroupMembers,  \* consumers of the group
    MaxMessages,   \* bound: messages published
    MaxEntries,    \* bound: stream entries
    MaxBatch,      \* max_count of next_batch
    MaxCrashes     \* bound: crashes of a consumer

VARIABLES
    subscribers,      \* per subscriber: the family it asked for, its pending messages, open
    sentCount, \* messages published
    redis,     \* the stream: a sequence of entries
    groupAt,   \* the group's last-delivered position, -1 before it exists
    pel,       \* pending entries: delivered, not acknowledged
    inHand,    \* per consumer: entries returned to its caller, not yet done
    ackedAt,   \* entries acknowledged
    handledAt, \* history: entries a caller has processed
    busCrashes \* crashes so far

natsVars == <<subscribers, sentCount>>
redisVars == <<redis, groupAt, pel, inHand, ackedAt, handledAt, busCrashes>>
busVars == <<natsVars, redisVars>>

-----------------------------------------------------------------------------
(* Subjects: a sequence of tokens. *)

\* The constants of subject.rs that are subjects themselves.
PlainSubjects == {
    <<"md", "breadth", "sector">>, <<"md", "breadth", "volatility">>, <<"sig", "emitted">>,
    <<"risk", "decision", "approved">>, <<"risk", "decision", "rejected">>,
    <<"risk", "killswitch", "activated">>, <<"risk", "target", "reached">>,
    <<"exec", "broker", "failover">>, <<"exec", "trade", "closed">>, <<"pos", "risk_state">>,
    <<"ai", "regime", "changed">>, <<"ai", "psych", "stability">>, <<"ai", "psych", "intervention">>,
    <<"ai", "journal", "entry">>, <<"ai", "gov", "action">>, <<"ai", "ollama", "degraded">>,
    <<"trader", "intent", "killswitch">>, <<"trader", "intent", "strategy_toggle">>,
    <<"trader", "intent", "priority">>, <<"trader", "intent", "order">>,
    <<"trader", "intent", "trading_mode">>, <<"ops", "session", "start">>,
    <<"ops", "session", "end">>, <<"ops", "warmode", "start">>, <<"ops", "warmode", "end">>}

\* The constants that are prefixes of a subject with one more token.
PrefixSubjects == {
    <<"md", "tick">>, <<"md", "book">>, <<"md", "oi">>, <<"md", "connection">>,
    <<"of", "event">>, <<"of", "heatmap">>, <<"feat", "update">>, <<"risk", "cooldown">>,
    <<"exec", "order">>, <<"exec", "fill">>, <<"pos", "update">>, <<"ai", "rank">>,
    <<"ai", "news", "impact">>, <<"ai", "priority", "changed">>, <<"mem", "prev_day">>,
    <<"ops", "action">>, <<"obs", "latency">>, <<"obs", "budget", "breach">>, <<"obs", "error">>}

AllFamilies == PlainSubjects \cup PrefixSubjects

ASSUME BusAssumption == Families \subseteq AllFamilies /\ MaxBatch \in Nat \ {0}

\* The builders of module subjects: prefix and argument.
Built(f, arg) == IF f \in PrefixSubjects THEN Append(f, arg) ELSE f


SubjectOf(f, arg) == Built(f, arg)

\* What a subscriber of a family asks the server for: its wildcard.
PatternOf(f) == IF f \in PrefixSubjects THEN Append(f, "*") ELSE f

\* NATS matching: token by token, "*" stands for one token.
Matches(p, s) == Len(p) = Len(s) /\ \A i \in DOMAIN p : p[i] = "*" \/ p[i] = s[i]

\* SubjectDomain::classify.
Domains == {"md", "of", "feat", "sig", "risk", "exec", "pos", "ai", "mem", "trader", "ops", "obs"}
ClassOf(s) == IF s[1] \in Domains THEN s[1] ELSE "none"

-----------------------------------------------------------------------------
(* NATS. *)

NoSub == [family |-> <<>>, queue |-> <<>>, open |-> FALSE]

\* NatsClient::subscriber.
NatsSubscribe(s, f) ==
    /\ ~subscribers[s].open
    /\ subscribers' = [subscribers EXCEPT ![s] = [family |-> f, queue |-> <<>>, open |-> TRUE]]
    /\ UNCHANGED <<sentCount, redisVars>>

\* NatsPublisher::publish: the payload is encoded before anything is sent, so
\* an encode error sends nothing.
NatsPublish(f, arg, encodes) ==
    /\ sentCount < MaxMessages /\ sentCount' = sentCount + 1
    /\ LET subject == SubjectOf(f, arg)
           msg == [family |-> f, arg |-> arg, class |-> ClassOf(subject)]
       IN  subscribers' = [s \in Subscribers |->
                      IF encodes /\ subscribers[s].open /\ Matches(PatternOf(subscribers[s].family), subject)
                      THEN [subscribers[s] EXCEPT !.queue = Append(@, msg)] ELSE subscribers[s]]
    /\ UNCHANGED redisVars

\* recv_bytes and recv: the oldest message, decoded by the caller's codec.
NatsRecv(s) ==
    /\ subscribers[s].queue # <<>>
    /\ subscribers' = [subscribers EXCEPT ![s].queue = Tail(@)]
    /\ UNCHANGED <<sentCount, redisVars>>

\* The client closes: pending messages are gone, recv says SubscriptionClosed.
NatsClose(s) ==
    /\ subscribers[s].open /\ subscribers' = [subscribers EXCEPT ![s] = NoSub]
    /\ UNCHANGED <<sentCount, redisVars>>

-----------------------------------------------------------------------------
(* Redis streams. *)

\* RedisStreamProducer::xadd; an entry may lack a usable payload.
StreamAdd(wellFormed) ==
    /\ Len(redis) < MaxEntries /\ redis' = Append(redis, wellFormed)
    /\ UNCHANGED <<natsVars, groupAt, pel, inHand, ackedAt, handledAt, busCrashes>>

\* ensure_group: XGROUP CREATE at "$" (the end); BUSYGROUP is success.
EnsureGroup ==
    /\ groupAt' = IF groupAt = -1 THEN Len(redis) ELSE groupAt
    /\ UNCHANGED <<natsVars, redis, pel, inHand, ackedAt, handledAt, busCrashes>>

\* XREADGROUP with ">": entries never delivered to the group, which become
\* pending.  One that does not decode fails the call and with it the batch.
NextBatchStep(c, n) ==
    LET upto == IF groupAt + n < Len(redis) THEN groupAt + n ELSE Len(redis)
        ids1 == (groupAt + 1)..upto
    IN  /\ groupAt' = upto /\ pel' = pel \cup ids1
        /\ inHand' = [inHand EXCEPT ![c] = IF \A e \in ids1 : redis[e] THEN ids1 ELSE {}]

NextBatch(c, n) ==
    /\ groupAt # -1 /\ groupAt < Len(redis) /\ inHand[c] = {}
    /\ NextBatchStep(c, n)
    /\ UNCHANGED <<natsVars, redis, ackedAt, handledAt, busCrashes>>

\* The caller processes the entry, then acks it.
HandleEntry(c, e) ==
    /\ e \in inHand[c] \ handledAt /\ handledAt' = handledAt \cup {e}
    /\ UNCHANGED <<natsVars, redis, groupAt, pel, inHand, ackedAt, busCrashes>>

AckEntry(c, e) ==
    /\ e \in inHand[c] \cap handledAt
    /\ pel' = pel \ {e} /\ ackedAt' = ackedAt \cup {e} /\ inHand' = [inHand EXCEPT ![c] = @ \ {e}]
    /\ UNCHANGED <<natsVars, redis, groupAt, handledAt, busCrashes>>

\* The consumer's process dies and starts again with empty hands.
ConsumerRestart(c) ==
    /\ busCrashes < MaxCrashes /\ busCrashes' = busCrashes + 1
    /\ inHand' = [inHand EXCEPT ![c] = {}]
    /\ UNCHANGED <<natsVars, redis, groupAt, pel, ackedAt, handledAt>>

BusInit ==
    /\ subscribers = [s \in Subscribers |-> NoSub] /\ sentCount = 0
    /\ redis = <<>> /\ groupAt = -1 /\ pel = {} /\ inHand = [c \in GroupMembers |-> {}]
    /\ ackedAt = {} /\ handledAt = {} /\ busCrashes = 0

BusNext ==
    \/ \E s \in Subscribers : NatsRecv(s) \/ NatsClose(s) \/ \E f \in Families : NatsSubscribe(s, f)
    \/ \E f \in Families, a \in Args, ok \in BOOLEAN : NatsPublish(f, a, ok)
    \/ \E ok \in Payloads : StreamAdd(ok)
    \/ EnsureGroup
    \/ \E c \in GroupMembers :
          \/ ConsumerRestart(c) \/ \E n \in 1..MaxBatch : NextBatch(c, n)
          \/ \E e \in 1..MaxEntries : HandleEntry(c, e) \/ AckEntry(c, e)

BusSpec == BusInit /\ [][BusNext]_busVars

-----------------------------------------------------------------------------
(* Properties. *)


\* "consumer-group ack so a Risk_Engine restart does not drop in-flight
\* signals" (RedisStreamConsumer): an entry delivered and not handled is
\* still in some caller's hands, or a later read will return it.  TLC
\* refutes it: next_batch asks for new entries only, so what a crashed
\* consumer held stays pending for ever.
RestartKeepsInFlight ==
    \A e \in pel \ handledAt : (\E c \in GroupMembers : e \in inHand[c]) \/ e > groupAt

=============================================================================
