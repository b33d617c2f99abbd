----------------------------- MODULE Supervisor -----------------------------
(***************************************************************************)
(* hedge-supervisor: the Failure_Detector classifies what the other        *)
(* services report on the bus, the Recovery_Policy picks a recovery        *)
(* action, the state store saves it to a file and the Recovery_Actuator    *)
(* publishes it.  The detector and the run loop are two tasks joined by a  *)
(* bounded channel; a step of the run loop is the code between two effects *)
(* (file write, publish) a crash can separate.                             *)
(*                                                                         *)
(* Reports are external.  A publish may fail.  The supervisor subscribes   *)
(* to two of the subjects it publishes on, so its own announcements come   *)
(* back to it.                                                             *)
(***************************************************************************)
EXTENDS Integers, Sequences, FiniteSets, Functions

CONSTANTS
    Feeds,           \* upstream market-data feeds
    Apis,            \* external APIs, by stage name
    Mitigated,       \* those with an entry in the mitigation table
    Primary,         \* the configured primary broker
    Backup,          \* the configured backup broker
    OtherBroker,     \* a broker that is neither
    SpikeNs,         \* spike threshold and failover threshold, in units
    MaxDelay,        \* BackoffParams::max_delay, in units of base
    ChannelDepth,    \* FAILURE_CHANNEL_DEPTH
    MaxReports       \* bound: reports and restarts of a behaviour

AnyBroker == {Primary, Backup, OtherBroker}
\* The configured models by role; "unknown" is the name classify_obs_error makes up.
Models == {"deep", "primary", "fast", "lightweight", "unknown"}

ASSUME SupervisorAssumption ==
    /\ Primary # Backup /\ OtherBroker \notin {Primary, Backup}
    /\ Mitigated \subseteq Apis
    /\ SpikeNs \in Nat /\ MaxDelay \in Nat \ {0}
    /\ ChannelDepth \in Nat \ {0} /\ MaxReports \in Nat

\* What a subscription of the detector may deliver: the fields it reads.
Report ==
    [subject : {"md.connection"}, source : Feeds, status : {"connected", "disconnected"}]
    \cup [subject : {"cache.redis"}, state : {"degraded", "unavailable", "healthy"}]
    \cup [subject : {"broker.metric"}, broker : AnyBroker, error : BOOLEAN,
          latency : {SpikeNs, SpikeNs + 1}]
    \cup [subject : {"obs.latency"}, stage : Apis, nanos : {SpikeNs, SpikeNs + 1},
          breach : BOOLEAN]
    \cup [subject : {"obs.error"}, source : {"redis", "ollama", "other"},
          severity : {"warn", "error", "critical"}]
    \cup [subject : {"ai.ollama.degraded"}, model : Models]

\* Both latency thresholds are strict.
AboveThreshold(ns) == ns > SpikeNs

Failure(kind, of) == [kind |-> kind, of |-> of]
NoFailure == Failure("none", "none")

\* One classifier per subject: the failure a report stands for, if any.
ClassifyMdConnection(r) ==
    IF r.status = "disconnected" THEN Failure("ws_disconnected", r.source) ELSE NoFailure
ClassifyCacheRedis(r) ==
    IF r.state \in {"degraded", "unavailable"} THEN Failure("redis_unavailable", "none") ELSE NoFailure
ClassifyBrokerMetric(r) ==
    IF r.error \/ AboveThreshold(r.latency)
    THEN Failure("broker_error_rate_breach", r.broker) ELSE NoFailure
ClassifyObsLatency(r) ==
    IF r.breach \/ AboveThreshold(r.nanos)
    THEN Failure("external_api_latency_spike", r.stage) ELSE NoFailure
ClassifyObsError(r) ==
    IF r.severity \notin {"error", "critical"} THEN NoFailure
    ELSE CASE r.source = "redis" -> Failure("redis_unavailable", "none")
           [] r.source = "ollama" -> Failure("ollama_unresponsive", "unknown")
           [] OTHER -> NoFailure
ClassifyOllama(r) == Failure("ollama_unresponsive", r.model)

Classify(r) ==
    CASE r.subject = "md.connection" -> ClassifyMdConnection(r)
      [] r.subject = "cache.redis" -> ClassifyCacheRedis(r)
      [] r.subject = "broker.metric" -> ClassifyBrokerMetric(r)
      [] r.subject = "obs.latency" -> ClassifyObsLatency(r)
      [] r.subject = "obs.error" -> ClassifyObsError(r)
      [] r.subject = "ai.ollama.degraded" -> ClassifyOllama(r)

VARIABLES
    pc,          \* run loop: "down", "idle", "decided", "saved"
    detecting,        \* subscriptions of the detector are open
    channel,     \* failure events between detector and run loop
    echoes,      \* own announcements on their way back to the detector
    attempts,    \* RecoveryPolicy::attempts, zero where absent
    job,         \* the event being handled and the action decided for it
    mem,         \* SupervisorState in memory
    stateFile,        \* the state file: empty, or one SupervisorState
    reports,     \* reports delivered and restarts so far
    actuated    \* history: ops actions published since the last clean start

supVars == <<pc, detecting, channel, echoes, attempts, job, mem, stateFile, reports, actuated>>

\* RecoveryAction; attempt and delay belong to a reconnect.
Decision(kind, of, to) == [kind |-> kind, of |-> of, to |-> to, attempt |-> -1, delay |-> 0]
NoDecision == [event |-> NoFailure, action |-> Decision("none", "none", "none")]
\* SupervisorState::default; the timestamps are left out.
FreshState == [ws |-> [f \in Feeds |-> 0], broker |-> "none", model |-> "none",
               redis |-> FALSE, mitigations |-> [a \in Apis |-> "none"]]

Min2(a, b) == IF a < b THEN a ELSE b
\* t_n = min(max_delay, base * 2^n), in units of base; the shift saturates.
DelayFor(n) == IF n > MaxDelay THEN MaxDelay ELSE Min2(MaxDelay, 2 ^ n)

\* The (from, to) pair of a failover.
FailoverPair(b) ==
    CASE b = Primary -> <<Primary, Backup>>
      [] b = Backup -> <<Backup, Primary>>
      [] OTHER -> <<b, Backup>>

Mitigation(a) == IF a \in Mitigated THEN "throttle" ELSE "warn"

\* build_ollama_fallback_table; a model outside the table falls back to itself.
Fallback(m) ==
    CASE m = "deep" -> "primary"
      [] m = "primary" -> "fast"
      [] m = "fast" -> "lightweight"
      [] OTHER -> m

Target(kind) ==
    CASE kind = "reconnect" -> "market_data"
      [] kind = "failover" -> "execution_engine"
      [] kind = "redis_reconnect" -> "warmcache"
      [] kind \in {"mitigation", "fallback"} -> "warm_ai"

\* The action for an event, n being the attempts counted for its feed.
Decide(e, n) ==
    CASE e.kind = "ws_disconnected" ->
            [Decision("reconnect", e.of, "none") EXCEPT !.attempt = n, !.delay = DelayFor(n)]
      [] e.kind = "broker_error_rate_breach" ->
            Decision("failover", FailoverPair(e.of)[1], FailoverPair(e.of)[2])
      [] e.kind = "redis_unavailable" -> Decision("redis_reconnect", "none", "none")
      [] e.kind = "external_api_latency_spike" -> Decision("mitigation", e.of, Mitigation(e.of))
      [] e.kind = "ollama_unresponsive" -> Decision("fallback", e.of, Fallback(e.of))

\* build_ops_action_payload; of, to and delay are what its reason text spells out.
OpsAction(a) == [target |-> Target(a.kind), what |-> a]

RecordWsAttempt(s, feed) == [s EXCEPT !.ws[feed] = @ + 1]
RecordFailover(s, to) == [s EXCEPT !.broker = to]

\* The mutation of SupervisorState that belongs to an action.
Recorded(s, a) ==
    CASE a.kind = "reconnect" -> RecordWsAttempt(s, a.of)
      [] a.kind = "failover" -> RecordFailover(s, a.to)
      [] a.kind = "redis_reconnect" -> [s EXCEPT !.redis = TRUE]
      [] a.kind = "mitigation" -> [s EXCEPT !.mitigations[a.of] = a.to]
      [] a.kind = "fallback" -> [s EXCEPT !.model = a.to]

SupInit ==
    /\ pc = "down" /\ detecting = FALSE /\ channel = <<>> /\ echoes = <<>>
    /\ attempts = [f \in Feeds |-> 0] /\ job = NoDecision
    /\ mem = FreshState /\ stateFile = <<>> /\ reports = 0 /\ actuated = {}

\* load_or_default: a missing file is a fresh state.
LoadState == IF stateFile = <<>> THEN FreshState ELSE stateFile[1]

\* Process start, rehydrate_from_state succeeding: the file's counters are
\* replayed into the policy.
Rehydrate ==
    /\ pc = "down"
    /\ mem' = LoadState
    /\ attempts' = LoadState.ws
    /\ actuated' = IF stateFile = <<>> THEN {} ELSE actuated
    /\ pc' = "idle" /\ detecting' = TRUE
    /\ UNCHANGED <<channel, echoes, job, stateFile, reports>>

\* Process start, the file unreadable: a warning, and a clean state.
StartClean ==
    /\ pc = "down" /\ stateFile # <<>> /\ reports < MaxReports
    /\ mem' = FreshState /\ attempts' = [f \in Feeds |-> 0]
    /\ actuated' = {}
    /\ pc' = "idle" /\ detecting' = TRUE /\ reports' = reports + 1
    /\ UNCHANGED <<channel, echoes, job, stateFile>>

\* The detector receives a report and sends the failure it stands for.
Deliver(r) ==
    /\ detecting
    /\ \/ Classify(r) = NoFailure /\ channel' = channel
       \/ /\ Classify(r) # NoFailure /\ Len(channel) < ChannelDepth
          /\ channel' = Append(channel, Classify(r))
    /\ UNCHANGED <<pc, detecting, attempts, job, mem, stateFile, actuated>>

Detect(r) == reports < MaxReports /\ reports' = reports + 1 /\ Deliver(r) /\ UNCHANGED echoes

DetectEcho == echoes # <<>> /\ Deliver(Head(echoes)) /\ echoes' = Tail(echoes) /\ UNCHANGED reports

\* handle_one, up to the file write: the policy decides and counts the attempt.
TakeEvent ==
    /\ pc = "idle" /\ channel # <<>>
    /\ LET e == Head(channel)
           n == IF e.kind = "ws_disconnected" THEN attempts[e.of] ELSE 0
       IN  /\ job' = [event |-> e, action |-> Decide(e, n)]
           /\ attempts' = IF e.kind = "ws_disconnected"
                          THEN [attempts EXCEPT ![e.of] = n + 1] ELSE attempts
    /\ channel' = Tail(channel) /\ pc' = "decided"
    /\ UNCHANGED <<detecting, echoes, mem, stateFile, reports, actuated>>

\* update_and_save: memory first, then the file through a rename.
SaveStep(ok) ==
    /\ pc = "decided"
    /\ mem' = Recorded(mem, job.action)
    /\ stateFile' = IF ok THEN <<mem'>> ELSE stateFile
    /\ pc' = IF ok THEN "saved" ELSE "idle"
    /\ UNCHANGED <<detecting, channel, echoes, attempts, job, reports, actuated>>

\* Mutant: a failed write is ignored.
SaveIgnored(ok) ==
    /\ pc = "decided"
    /\ mem' = Recorded(mem, job.action)
    /\ stateFile' = IF ok THEN <<mem'>> ELSE stateFile
    /\ pc' = "saved"
    /\ UNCHANGED <<detecting, channel, echoes, attempts, job, reports, actuated>>

Save(ok) == SaveStep(ok)

\* The side-effect announcement of an action, on a subject the detector reads.
Announcement(a) ==
    CASE a.kind = "redis_reconnect" -> <<[subject |-> "cache.redis", state |-> "degraded"]>>
      [] a.kind = "fallback" -> <<[subject |-> "ai.ollama.degraded", model |-> a.of]>>
      [] OTHER -> <<>>

\* actuate: the announcement, best effort, then the ops action.
Actuate(announced, sent) ==
    /\ pc = "saved"
    /\ echoes' = IF announced /\ detecting THEN echoes \o Announcement(job.action) ELSE echoes
    /\ actuated' = IF sent THEN actuated \cup {OpsAction(job.action)} ELSE actuated
    /\ pc' = "idle"
    /\ UNCHANGED <<detecting, channel, attempts, job, mem, stateFile, reports>>

\* The bus closes the subscriptions; the loop ends once the channel is empty.
SubscriptionsClose ==
    /\ detecting /\ reports < MaxReports
    /\ detecting' = FALSE /\ reports' = reports + 1 /\ echoes' = <<>>
    /\ UNCHANGED <<pc, channel, attempts, job, mem, stateFile, actuated>>

RunEnds ==
    /\ ~detecting /\ channel = <<>> /\ pc = "idle"
    /\ pc' = "down"
    /\ UNCHANGED <<detecting, channel, echoes, attempts, job, mem, stateFile, reports, actuated>>

\* The process dies anywhere; the state file stays.
Crash ==
    /\ pc # "down" /\ reports < MaxReports
    /\ pc' = "down" /\ detecting' = FALSE /\ channel' = <<>> /\ echoes' = <<>>
    /\ reports' = reports + 1
    /\ UNCHANGED <<attempts, job, mem, stateFile, actuated>>

RunLoop == TakeEvent \/ (\E ok \in BOOLEAN : Save(ok)) \/ (\E x, y \in BOOLEAN : Actuate(x, y))

SupNext ==
    \/ Rehydrate \/ StartClean \/ DetectEcho \/ RunLoop
    \/ SubscriptionsClose \/ RunEnds \/ Crash
    \/ \E r \in Report : Detect(r)

SupSpec == SupInit /\ [][SupNext]_supVars /\ WF_supVars(RunLoop) /\ WF_supVars(Rehydrate)

-----------------------------------------------------------------------------
(***************************************************************************)
(* What the state file says of an action: what a restarted supervisor      *)
(* knows of it.                                                            *)
(***************************************************************************)
KnownTo(s, o) ==
    CASE o.kind = "reconnect" -> s.ws[o.of] > o.attempt
      [] o.kind = "failover" -> s.broker \in {Primary, Backup}
      [] o.kind = "redis_reconnect" -> s.redis
      [] o.kind = "mitigation" -> s.mitigations[o.of] = o.to
      [] o.kind = "fallback" -> s.model # "none"

\* Persist before publish (handle_one): whatever crashes and failed writes
\* do, every ops action the other services have seen is in the state file, so
\* a restarted supervisor never issues a reconnect attempt number again.
PublishedIsDurable ==
    /\ \A o \in actuated : stateFile # <<>> /\ KnownTo(stateFile[1], o.what)
    /\ pc \in {"idle", "saved"} => attempts = mem.ws
=============================================================================
