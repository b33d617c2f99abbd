------------------------------ MODULE KillSwitch ------------------------------
(***************************************************************************)
(* hedge-risk's KillSwitchState (kill_switch.rs): an AtomicBool and, apart *)
(* from it, a mutex-protected reason.  activate swaps the flag first and   *)
(* writes the reason afterwards: two steps, taken by concurrent tasks.     *)
(* reset is left out: nothing outside the unit tests calls it.             *)
(***************************************************************************)
EXTENDS Naturals, FiniteSets

CONSTANTS
    SwitchUsers,    \* tasks that activate the switch
    Reasons,        \* KillReason
    NoReason,       \* reason = None
    MaxEngagements  \* bound: how often the switch is engaged in a behaviour

ASSUME NoReasonAssumption == NoReason \notin Reasons

VARIABLES
    killed,       \* active: AtomicBool
    reason,       \* reason: Mutex<Option<KillReason>>
    use,          \* use[u]: locals of u's activate or reset call
    \* history
    engagements,  \* how often the flag went from false to true
    signalled,    \* how many activate calls returned true
    cause         \* the reason given by the call that engaged the flag last

killVars == <<killed, reason, use, engagements, signalled, cause>>

Use == [pc: {"idle", "write"}, arg: Reasons \cup {NoReason}]
IdleUse == [pc |-> "idle", arg |-> NoReason]

KillInit ==
    /\ killed = FALSE
    /\ reason = NoReason
    /\ use = [u \in SwitchUsers |-> IdleUse]
    /\ engagements = 0
    /\ signalled = 0
    /\ cause = NoReason

\* Mutant of Engage: a caller that finds the switch engaged signals as well.
EngageAlways(u, r) ==
    /\ use[u].pc = "idle"
    /\ engagements < MaxEngagements
    /\ killed' = TRUE
    /\ use' = [use EXCEPT ![u] = [pc |-> "write", arg |-> r]]
    /\ engagements' = IF killed THEN engagements ELSE engagements + 1
    /\ cause' = IF killed THEN cause ELSE r
    /\ UNCHANGED <<reason, signalled>>

\* activate, first step: compare_exchange(false, true).  A caller that finds the
\* switch engaged returns false and changes nothing.
Engage(u, r) ==
    /\ use[u].pc = "idle"
    /\ ~killed
    /\ engagements < MaxEngagements
    /\ killed' = TRUE
    /\ use' = [use EXCEPT ![u] = [pc |-> "write", arg |-> r]]
    /\ engagements' = engagements + 1
    /\ cause' = r
    /\ UNCHANGED <<reason, signalled>>

\* activate, second step: record the reason and return true.
WriteReason(u) ==
    /\ use[u].pc = "write"
    /\ reason' = use[u].arg
    /\ use' = [use EXCEPT ![u] = IdleUse]
    /\ signalled' = signalled + 1
    /\ UNCHANGED <<killed, engagements, cause>>

(***************************************************************************)
(* Properties                                                              *)
(***************************************************************************)
\* Every variable of the switch has its type.
KillTypeOK ==
    /\ killed \in BOOLEAN
    /\ reason \in Reasons \cup {NoReason}
    /\ use \in [SwitchUsers -> Use]
    /\ engagements \in Nat
    /\ signalled \in Nat
    /\ cause \in Reasons \cup {NoReason}

\* Exactly one activate call returns true per false -> true edge, however many
\* race (kill_switch.rs 86-105, Property 8 of the design): signals given plus
\* signals on their way equal the engagements.
OneSignalPerEngagement ==
    engagements = signalled + Cardinality({u \in SwitchUsers : use[u].pc = "write"})

\* Only the call that engaged the switch records a reason (kill_switch.rs 5-8):
\* the reason, once there, is the cause of the engagement.
ReasonIsCause ==
    reason # NoReason => killed /\ reason = cause
=============================================================================
