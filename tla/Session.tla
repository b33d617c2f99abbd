------------------------------ MODULE Session ------------------------------
(***************************************************************************)
(* hedge-session: the War_Mode and the Trading_Session controller, two     *)
(* tasks of one process with the same state machine.  Each one compares    *)
(* the wall clock with its window of the day, announces the edge it finds, *)
(* and sleeps until the next deadline.  It reads the clock twice per turn: *)
(* once to reconcile, and again, after the publish, to pick the deadline.  *)
(*                                                                         *)
(* Time of day is counted in ticks, the date modulo two; a timer fires and *)
(* a turn completes at most MaxLag ticks late.  A failed publish ends the  *)
(* process, whose service manager starts it again.                         *)
(***************************************************************************)
EXTENDS Integers

CONSTANTS
    DayLength,       \* ticks of a day
    WarWindow,       \* <<start_ist, end_ist>> of WarModeConfig
    SessionWindow,   \* <<start_ist, end_ist>> of SessionConfig
    MaxLag,          \* ticks a turn may take, and a timer may be late
    MaxExits         \* bound: ends of the process

Controllers == {"warmode", "session"}
Window(c) == IF c = "warmode" THEN WarWindow ELSE SessionWindow

ASSUME SessionAssumption ==
    /\ DayLength \in Nat \ {0} /\ MaxLag \in Nat /\ MaxExits \in Nat
    /\ \A c \in Controllers :
          /\ 0 <= Window(c)[1] /\ Window(c)[1] < Window(c)[2]
          /\ Window(c)[2] < DayLength
          /\ MaxLag < Window(c)[2] - Window(c)[1]
          /\ MaxLag < DayLength - Window(c)[2]

VARIABLES
    clock,       \* wall clock: the date modulo two and the time of day
    up,          \* the process runs
    turn,        \* per controller: "reconcile", "emit", "plan" or "sleep"
    active,      \* per controller: WarModeState / SessionState is Active
    edge,        \* per controller: the event being published
    left,        \* per controller: ticks until its timer fires
    lag,         \* per controller: ticks it has been runnable in this turn
    heard,       \* per controller: the last event its consumers received
    emitted,     \* history, per controller: last event of this process
    exits        \* ends of the process so far

sesVars == <<clock, up, turn, active, edge, left, lag, heard, emitted, exits>>

Day(t) == t \div DayLength
TimeOfDay(t) == t % DayLength
Edge(phase, t) == [phase |-> phase, session |-> Day(t)]
NoEdge == [phase |-> "none", session |-> 0]

InWindow(c, t) == Window(c)[1] <= TimeOfDay(t) /\ TimeOfDay(t) < Window(c)[2]

\* Ticks from t to next_deadline: today's start, today's end, tomorrow's start.
UntilDeadline(c, t) ==
    LET now == TimeOfDay(t)
    IN  CASE now < Window(c)[1] -> Window(c)[1] - now
          [] now >= Window(c)[1] /\ now < Window(c)[2] -> Window(c)[2] - now
          [] OTHER -> DayLength - now + Window(c)[1]

\* Mutant: an open window is waited out until tomorrow's start.
UntilStart(c, t) ==
    LET now == TimeOfDay(t)
    IN  IF now < Window(c)[1] THEN Window(c)[1] - now ELSE DayLength - now + Window(c)[1]

NextDeadline(c, t) == UntilDeadline(c, t)

SesInit ==
    /\ clock \in 0 .. (DayLength - 1) /\ up = TRUE
    /\ turn = [c \in Controllers |-> "reconcile"]
    /\ active = [c \in Controllers |-> FALSE]
    /\ edge = [c \in Controllers |-> NoEdge]
    /\ left = [c \in Controllers |-> 0] /\ lag = [c \in Controllers |-> 0]
    /\ heard = [c \in Controllers |-> NoEdge]
    /\ emitted = [c \in Controllers |-> NoEdge]
    /\ exits = 0

\* reconcile_at: the four cases of (state, in_window).
ReconcileCases(c) ==
    /\ up /\ turn[c] = "reconcile"
    /\ IF active[c] = InWindow(c, clock)
       THEN turn' = [turn EXCEPT ![c] = "plan"] /\ edge' = edge
       ELSE /\ turn' = [turn EXCEPT ![c] = "emit"]
            /\ edge' = [edge EXCEPT ![c] = Edge(IF active[c] THEN "end" ELSE "start", clock)]
    /\ UNCHANGED <<clock, up, active, left, lag, heard, emitted, exits>>

\* Mutant: the state is not consulted, every turn announces where the clock is.
ReconcileLevel(c) ==
    /\ up /\ turn[c] = "reconcile"
    /\ turn' = [turn EXCEPT ![c] = "emit"]
    /\ edge' = [edge EXCEPT ![c] = Edge(IF InWindow(c, clock) THEN "start" ELSE "end", clock)]
    /\ UNCHANGED <<clock, up, active, left, lag, heard, emitted, exits>>

Reconcile(c) == ReconcileCases(c)

\* emit, and the state change that follows a successful publish.
Emit(c) ==
    /\ up /\ turn[c] = "emit"
    /\ heard' = [heard EXCEPT ![c] = edge[c]]
    /\ emitted' = [emitted EXCEPT ![c] = edge[c]]
    /\ active' = [active EXCEPT ![c] = edge[c].phase = "start"]
    /\ turn' = [turn EXCEPT ![c] = "plan"]
    /\ UNCHANGED <<clock, up, edge, left, lag, exits>>

\* A failed publish is returned by run, and main's select ends the process.
EmitFails(c) ==
    /\ up /\ turn[c] = "emit" /\ exits < MaxExits
    /\ up' = FALSE /\ exits' = exits + 1
    /\ UNCHANGED <<clock, turn, active, edge, left, lag, heard, emitted>>

\* The second clock reading and sleep_until_utc.
Plan(c) ==
    /\ up /\ turn[c] = "plan"
    /\ left' = [left EXCEPT ![c] = NextDeadline(c, clock)]
    /\ lag' = [lag EXCEPT ![c] = 0]
    /\ turn' = [turn EXCEPT ![c] = "sleep"]
    /\ UNCHANGED <<clock, up, active, edge, heard, emitted, exits>>

Wake(c) ==
    /\ up /\ turn[c] = "sleep" /\ left[c] = 0
    /\ turn' = [turn EXCEPT ![c] = "reconcile"]
    /\ UNCHANGED <<clock, up, active, edge, left, lag, heard, emitted, exits>>

\* The process dies between two steps.
Exit ==
    /\ up /\ exits < MaxExits
    /\ up' = FALSE /\ exits' = exits + 1
    /\ UNCHANGED <<clock, turn, active, edge, left, lag, heard, emitted>>

Restart ==
    /\ ~up
    /\ up' = TRUE
    /\ turn' = [c \in Controllers |-> "reconcile"]
    /\ active' = [c \in Controllers |-> FALSE]
    /\ edge' = [c \in Controllers |-> NoEdge]
    /\ left' = [c \in Controllers |-> 0] /\ lag' = [c \in Controllers |-> 0]
    /\ emitted' = [c \in Controllers |-> NoEdge]
    /\ UNCHANGED <<clock, heard, exits>>

Runnable(c) == turn[c] # "sleep" \/ left[c] = 0

WallClock ==
    /\ \A c \in Controllers : up /\ Runnable(c) => lag[c] < MaxLag
    /\ clock' = (clock + 1) % (2 * DayLength)
    /\ left' = [c \in Controllers |-> IF left[c] > 0 THEN left[c] - 1 ELSE 0]
    /\ lag' = [c \in Controllers |-> IF up /\ Runnable(c) THEN lag[c] + 1 ELSE lag[c]]
    /\ UNCHANGED <<up, turn, active, edge, heard, emitted, exits>>

Turn(c) == Reconcile(c) \/ Emit(c) \/ Plan(c) \/ Wake(c)

SesNext ==
    \/ \E c \in Controllers : Turn(c) \/ EmitFails(c)
    \/ Exit \/ Restart \/ WallClock

SesFairness ==
    /\ WF_sesVars(WallClock) /\ WF_sesVars(Restart)
    /\ \A c \in Controllers : WF_sesVars(Turn(c))

SesSpec == SesInit /\ [][SesNext]_sesVars /\ SesFairness

-----------------------------------------------------------------------------
\* Idempotent emission (Property 8 of controller.rs): within a process the
\* events of a controller alternate, beginning with a start.
EdgesAlternate ==
    [][\A c \in Controllers : heard'[c] # heard[c] \/ emitted'[c] # emitted[c] =>
          \/ ~up
          \/ emitted'[c].phase = "start" /\ emitted[c].phase \in {"none", "end"}
          \/ emitted'[c].phase = "end" /\ emitted[c].phase = "start"]_sesVars

\* Whatever boundary a slow turn steps over and wherever the process dies, a
\* window that was announced open is announced closed later.
WindowCloses ==
    \A c \in Controllers : heard[c].phase = "start" ~> heard[c].phase = "end"

\* Emission counts equal the distinct window transitions (controller.rs, run):
\* a process that is up and asleep has announced where the clock is.
EveryEdgeAnnounced ==
    \A c \in Controllers :
        up /\ turn[c] = "sleep" /\ left[c] > 0 => active[c] = InWindow(c, clock)
=============================================================================
