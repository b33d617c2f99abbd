---------------------------- MODULE RiskRestart ----------------------------
(***************************************************************************)
(* The parts of the Risk_Engine's soft state that have a life beyond one    *)
(* decision: the sliding-window trade counters (frequency.rs), the cooldown *)
(* registry (cooldown.rs) and the best-effort Redis snapshot that is to     *)
(* carry cooldowns and daily P&L over a restart (persistence.rs and the     *)
(* start-up and save loops of main.rs).                                     *)
(*                                                                         *)
(* The counters are driven as their contract asks: an entry is recorded     *)
(* only when would_breach was false.  (The engine asks would_breach, but    *)
(* nothing outside the tests calls record: as deployed the rings stay       *)
(* empty.)  The two Redis keys are written one after the other and either   *)
(* write may fail.                                                          *)
(***************************************************************************)
EXTENDS Integers, Sequences, FiniteSets

CONSTANTS MinuteSlots,      \* PER_MINUTE_CAP: slots of the per-minute ring
          HourSlots,        \* PER_HOUR_CAP
          SessionSlots,     \* PER_SESSION_CAP
          TradesPerMinute,  \* max_trades_per_minute
          TradesPerHour,    \* max_trades_per_hour
          TradesPerSession, \* max_trades_per_session
          MinuteLength,     \* NS_PER_MINUTE in steps of the clock
          HourLength,       \* NS_PER_HOUR
          CoolSymbols,
          MaxWall,         \* bound on the clock
          MaxRestarts       \* bound on crashes

ASSUME RestartAssumption ==
    /\ MinuteSlots \in Nat \ {0} /\ HourSlots \in Nat \ {0} /\ SessionSlots \in Nat \ {0}
    /\ TradesPerMinute \in Nat /\ TradesPerHour \in Nat /\ TradesPerSession \in Nat
    /\ MinuteLength \in Nat /\ HourLength \in Nat
    /\ MaxWall \in Nat /\ MaxRestarts \in Nat

VARIABLES wall,         \* now_ns
          minuteRing,   \* RingWindow of admission times, oldest first
          hourRing,
          sessionRing,
          expiry,       \* CooldownRegistry: expiry per symbol, 0 for no entry
          dailyPnl,     \* realized P&L
          stored,       \* the two Redis keys; "none" when absent
          saving,       \* the save loop is between its two writes
          restarts,
          admitted,     \* history: every admission since the process started
          session,      \* history: admissions since the last session reset
          incurred      \* history: cooldowns and P&L incurred today

rings == <<minuteRing, hourRing, sessionRing>>
restartVars == <<wall, rings, expiry, dailyPnl, stored, saving,
                 restarts, admitted, session, incurred>>

\* RingWindow::push: the oldest entry makes room.
PushRing(ring, slots, t) ==
    IF Len(ring) = slots THEN Append(Tail(ring), t) ELSE Append(ring, t)

\* live_count: both ends of the window belong to it.
LiveCountStep(ring, t, window) == Cardinality({k \in DOMAIN ring : t - ring[k] <= window})

\* A bug: an entry exactly one window old is out.
LiveCountShort(ring, t, window) == Cardinality({k \in DOMAIN ring : t - ring[k] < window})

LiveCount(ring, t, window) == LiveCountStep(ring, t, window)

WouldBreach(t) ==
    \/ LiveCount(minuteRing, t, MinuteLength) + 1 > TradesPerMinute
    \/ LiveCount(hourRing, t, HourLength) + 1 > TradesPerHour
    \/ Len(sessionRing) + 1 > TradesPerSession

\* record, by a caller that asked would_breach first.
RecordTrade ==
    /\ ~WouldBreach(wall)
    /\ minuteRing' = PushRing(minuteRing, MinuteSlots, wall)
    /\ hourRing' = PushRing(hourRing, HourSlots, wall)
    /\ sessionRing' = PushRing(sessionRing, SessionSlots, wall)
    /\ admitted' = Append(admitted, wall)
    /\ session' = Append(session, wall)
    /\ UNCHANGED <<wall, expiry, dailyPnl, stored, saving, restarts, incurred>>

\* ops.session.start: RiskState::reset_session clears the session window and
\* the P&L, and keeps the cooldowns.
ResetSession ==
    /\ sessionRing' = <<>> /\ session' = <<>>
    /\ dailyPnl' = 0
    /\ incurred' = [incurred EXCEPT !.pnl = 0]
    /\ UNCHANGED <<wall, minuteRing, hourRing, expiry, stored, saving, restarts, admitted>>

\* CooldownRegistry::engage: a later expiry wins, an earlier one changes nothing.
Engage(s, until) ==
    /\ expiry' = [expiry EXCEPT ![s] = IF until > @ THEN until ELSE @]
    /\ incurred' = [incurred EXCEPT !.expiry[s] = IF until > @ THEN until ELSE @]
    /\ UNCHANGED <<wall, rings, dailyPnl, stored, saving, restarts,
                   admitted, session>>

\* CooldownRegistry::prune drops what has run out.
Prune ==
    /\ \E s \in CoolSymbols : expiry[s] # 0 /\ expiry[s] <= wall
    /\ expiry' = [s \in CoolSymbols |-> IF expiry[s] <= wall THEN 0 ELSE expiry[s]]
    /\ UNCHANGED <<wall, rings, dailyPnl, stored, saving, restarts,
                   admitted, session, incurred>>

\* A loss is realised.
LoseMoney ==
    /\ dailyPnl = 0
    /\ dailyPnl' = -1
    /\ incurred' = [incurred EXCEPT !.pnl = -1]
    /\ UNCHANGED <<wall, rings, expiry, stored, saving, restarts,
                   admitted, session>>

\* RiskStateSnapshot::default(), which is what the save loop of main.rs writes
\* whatever the engine holds.
NoCooldowns == [s \in CoolSymbols |-> 0]

SaveCooldowns ==
    /\ ~saving
    /\ saving' = TRUE
    /\ \E ok \in BOOLEAN :
         stored' = IF ok THEN [stored EXCEPT !.cooldowns = NoCooldowns] ELSE stored
    /\ UNCHANGED <<wall, rings, expiry, dailyPnl, restarts, admitted,
                   session, incurred>>

SavePnl ==
    /\ saving
    /\ saving' = FALSE
    /\ \E ok \in BOOLEAN : stored' = IF ok THEN [stored EXCEPT !.pnl = 0] ELSE stored
    /\ UNCHANGED <<wall, rings, expiry, dailyPnl, restarts, admitted,
                   session, incurred>>

\* A crash and a restart: RiskState::new; the snapshot is loaded and logged,
\* and nothing of it reaches the engine.
RestartRisk ==
    /\ restarts < MaxRestarts
    /\ restarts' = restarts + 1
    /\ minuteRing' = <<>> /\ hourRing' = <<>> /\ sessionRing' = <<>>
    /\ admitted' = <<>> /\ session' = <<>>
    /\ expiry' = NoCooldowns /\ dailyPnl' = 0
    /\ saving' = FALSE
    /\ UNCHANGED <<wall, stored, incurred>>

PassTime ==
    /\ wall < MaxWall
    /\ wall' = wall + 1
    /\ UNCHANGED <<rings, expiry, dailyPnl, stored, saving, restarts,
                   admitted, session, incurred>>

RestartInit ==
    /\ wall = 0
    /\ minuteRing = <<>> /\ hourRing = <<>> /\ sessionRing = <<>>
    /\ expiry = NoCooldowns /\ dailyPnl = 0
    /\ stored = [cooldowns |-> NoCooldowns, pnl |-> 0]
    /\ saving = FALSE
    /\ restarts = 0
    /\ admitted = <<>> /\ session = <<>>
    /\ incurred = [expiry |-> NoCooldowns, pnl |-> 0]

RestartNext ==
    \/ RecordTrade
    \/ ResetSession
    \/ \E s \in CoolSymbols, until \in 1..MaxWall : Engage(s, until)
    \/ Prune
    \/ LoseMoney
    \/ SaveCooldowns
    \/ SavePnl
    \/ RestartRisk
    \/ PassTime

RestartSpec == RestartInit /\ [][RestartNext]_restartVars

-----------------------------------------------------------------------------
\* The admissions of the last minute or hour.
InLast(window) == {k \in DOMAIN admitted : wall - admitted[k] <= window}

\* Inline rings that overwrite their oldest slot answer as the full history
\* would: a trade is refused exactly when the minute, the hour or the session
\* already holds its limit, and a limit above the capacity of its ring never
\* refuses anything, however many trades there were
\* (FrequencyCounters::would_breach, record and reset_session).
CapsAreExact ==
    WouldBreach(wall) <=>
        \/ TradesPerMinute <= MinuteSlots /\ Cardinality(InLast(MinuteLength)) >= TradesPerMinute
        \/ TradesPerHour <= HourSlots /\ Cardinality(InLast(HourLength)) >= TradesPerHour
        \/ TradesPerSession <= SessionSlots /\ Len(session) >= TradesPerSession

\* No minute holds more trades than the configured limit, whatever that limit
\* is (frequency.rs: "capacity is set at construction-time to the configured
\* limit + 1").  TLC refutes it with a limit above its ring: the
\* capacities are constants.
CapsBind == Cardinality(InLast(MinuteLength)) <= TradesPerMinute

\* A symbol that was cooling, and the day's loss, are still known after a
\* restart (persistence.rs: "must survive a process restart so a crash
\* mid-session does not reset risk controls").
ControlsSurvive ==
    /\ \A s \in CoolSymbols : incurred.expiry[s] > wall => expiry[s] = incurred.expiry[s]
    /\ dailyPnl = incurred.pnl
=============================================================================
