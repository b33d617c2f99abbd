-------------------------- MODULE ExecutionEngine --------------------------
(***************************************************************************)
(* hedge-exec's ExecutionEngine (engine.rs) with the retry loop (retry.rs) *)
(* and the error taxonomy (error.rs), on top of the order state machine    *)
(* and the broker router.  The engine is an Arc shared by concurrent       *)
(* tasks; the atomic steps are those between two awaits or two lock        *)
(* acquisitions:                                                           *)
(*   submit   verify + consume token; route (pick adapter, install         *)
(*            tracker, translate); send; receive a reply; fold it into     *)
(*            the tracker; record_outcome (BrokerRouter, step by step)     *)
(*   on_fill  read the prior cumulative quantity; apply partial_fill       *)
(*   cancel   read broker and id; call the adapter; cancel the tracker     *)
(*                                                                         *)
(* The brokers are external: a request on the wire may be accepted at any  *)
(* time, also after its reply was lost or timed out, an accepted order is  *)
(* executed in pieces, and execution reports arrive late, repeatedly and   *)
(* in any order.                                                           *)
(***************************************************************************)
EXTENDS BrokerRouter, OrderLifecycle

CONSTANTS
    Cids,           \* correlation ids
    Bodies,         \* what an approval is signed over: see ASSUME
    Minted,         \* the bodies the Risk_Engine has signed
    EngineKey,      \* the key shared by signer and verifier
    Keys,           \* all keys a presented token may be signed with
    FillTasks,      \* tasks that run on_fill
    CancelTasks,    \* tasks that run cancel
    MaxAttempts     \* RetryPolicy.max_attempts (at least one attempt is made)

\* A body is the canonical intent with its engine-controlled fields: cid,
\* sized quantity, sequence; `valid` says whether translate_intent knows its
\* side, order-type and exchange bytes.
ASSUME EngineAssumption ==
    /\ Bodies \subseteq [cid: Cids, qty: Nat, seq: Nat, valid: BOOLEAN]
    /\ Minted \subseteq Bodies
    /\ EngineKey \in Keys
    /\ MaxAttempts \in Nat \ {0}

\* The submit calls are the router's callers.
SubmitTasks == Callers

NoTracker == [state |-> "None"]
Nobody == [cid |-> "none"]

VARIABLES
    consumed,    \* consumed_tokens
    trackers,    \* trackers: the DashMap, NoTracker where there is no entry
    pc,          \* pc[t]: where submit call t is
    token,       \* token[t]: the token it was called with
    body,        \* body[t]: the body it was called with
    via,         \* via[t]: the adapter it picked
    attempt,     \* attempt[t]: the retry loop's counter
    err,         \* err[t]: the ExecError the retry loop ended with
    onFill,      \* onFill[f]: locals of an on_fill call
    onCancel,    \* onCancel[k]: locals of a cancel call
    \* the brokers (external)
    wire,        \* requests sent and not yet decided by the broker
    orders,      \* requests the broker accepted: live or finished orders
    executed,    \* executed[o]: quantity the broker executed of order o
    closed,      \* orders the broker cancelled
    reports,     \* execution reports on their way, never removed
    \* history
    delivered    \* delivered[c]: sum of the Fill quantities returned for c

orderVars == <<consumed, trackers>>
submitVars == <<pc, token, body, via, attempt, err>>
brokerVars == <<wire, orders, executed, closed, reports>>
engineVars == <<consumed, trackers, pc, token, body, via, attempt, err, onFill, onCancel,
                wire, orders, executed, closed, reports, delivered>>
vars == <<routerVars, engineVars>>

Requests == SubmitTasks \X (1..MaxAttempts)     \* request = attempt k of task t
Tokens == [key: Keys, body: Bodies]

\* Replies of an adapter's submit call, and the errors of the taxonomy.
BrokerErrors == {"Transient", "Http", "Rejected", "Auth"}
Retryable == {"Transient"}                         \* Transient | Network
CountsTowardFailover == {"Transient", "Http", "Rejected"}
Errors == BrokerErrors \cup {"Exhausted", "BadToken", "Duplicate", "BadIntent", "IllegalFsm", "None"}

SubmitPcs == {"idle", "route", "send", "wait", "acked", "failed", "record", "recording", "done"}

IdleFill == [pc |-> "idle", cid |-> "none", cum |-> 0, prior |-> 0]
IdleCancel == [pc |-> "idle", cid |-> "none", id |-> NoId, broker |-> "primary", adapter |-> "primary"]

Init ==
    /\ RouterInit
    /\ consumed = {}
    /\ trackers = [c \in Cids |-> NoTracker]
    /\ pc = [t \in SubmitTasks |-> "idle"]
    /\ token = [t \in SubmitTasks |-> Nobody]
    /\ body = [t \in SubmitTasks |-> Nobody]
    /\ via = [t \in SubmitTasks |-> "primary"]
    /\ attempt = [t \in SubmitTasks |-> 0]
    /\ err = [t \in SubmitTasks |-> "None"]
    /\ onFill = [f \in FillTasks |-> IdleFill]
    /\ onCancel = [k \in CancelTasks |-> IdleCancel]
    /\ wire = {}
    /\ orders = {}
    /\ executed = [r \in Requests |-> 0]
    /\ closed = {}
    /\ reports = {}
    /\ delivered = [c \in Cids |-> 0]

At(t, l) == pc[t] = l
Step(t, l) == pc' = [pc EXCEPT ![t] = l]

(***************************************************************************)
(* submit                                                                  *)
(***************************************************************************)
\* The tokens in circulation: those the Risk_Engine minted, and tokens over any
\* body made by someone who does not hold its key.
Presentable(tok) == tok.key = EngineKey => tok.body \in Minted

\* Mutant of Verify: any token of the right key is good for any body.
VerifyKeyOnly(tok, b) == tok.key = EngineKey

\* ApprovalVerifier::verify: the HMAC is over the canonical body.
Verify(tok, b) == tok.key = EngineKey /\ tok.body = b

\* Mutant of Fresh: consumed_tokens is never consulted.
AlwaysFresh(tok) == TRUE

\* consumed_tokens.insert returns true.
Fresh(tok) == tok \notin consumed

Refuse(t, e) ==
    /\ Step(t, "done")
    /\ err' = [err EXCEPT ![t] = e]
    /\ UNCHANGED <<consumed, trackers>>

\* Steps 1 and 2: no broker contact unless the token verifies and is fresh.
Present(t, tok, b) ==
    /\ At(t, "idle")
    /\ token' = [token EXCEPT ![t] = tok]
    /\ body' = [body EXCEPT ![t] = b]
    /\ \/ ~Verify(tok, b) /\ Refuse(t, "BadToken")
       \/ Verify(tok, b) /\ ~Fresh(tok) /\ Refuse(t, "Duplicate")
       \/ /\ Verify(tok, b) /\ Fresh(tok)
          /\ consumed' = consumed \cup {tok}
          /\ Step(t, "route")
          /\ UNCHANGED <<trackers, err>>
    /\ UNCHANGED <<routerVars, via, attempt, onFill, onCancel, brokerVars, delivered>>

\* Steps 3 to 5: pick the active adapter, install a tracker unless the cid has
\* one already, translate; a body that does not translate ends the call with
\* the token consumed and the tracker in New.
Route(t) ==
    LET c == body[t].cid IN
    /\ At(t, "route")
    /\ via' = [via EXCEPT ![t] = active]
    /\ trackers' = IF trackers[c] = NoTracker
                   THEN [trackers EXCEPT ![c] = NewTracker(active, body[t].qty)]
                   ELSE trackers
    /\ IF body[t].valid
       THEN /\ Step(t, "send")
            /\ attempt' = [attempt EXCEPT ![t] = 1]
            /\ UNCHANGED err
       ELSE /\ Step(t, "done")
            /\ err' = [err EXCEPT ![t] = "BadIntent"]
            /\ UNCHANGED attempt
    /\ UNCHANGED <<routerVars, consumed, token, body, onFill, onCancel, brokerVars,
                   delivered>>

\* Step 6: one attempt of the retry loop puts a request on the wire.
Send(t) ==
    /\ At(t, "send")
    /\ wire' = wire \cup {<<t, attempt[t]>>}
    /\ Step(t, "wait")
    /\ UNCHANGED <<routerVars, orderVars, token, body, via, attempt, err, onFill, onCancel,
                   orders, executed, closed, reports, delivered>>

ReplyOk(t) ==
    /\ At(t, "wait")
    /\ <<t, attempt[t]>> \in orders
    /\ Step(t, "acked")
    /\ UNCHANGED <<routerVars, orderVars, token, body, via, attempt, err, onFill, onCancel,
                   brokerVars, delivered>>

\* Mutant of MayRetry: one attempt more than the policy allows.
MayRetryOnceMore(t, e) == e \in Retryable /\ attempt[t] <= MaxAttempts

\* The retry loop goes round again.
MayRetry(t, e) == e \in Retryable /\ attempt[t] < MaxAttempts

\* Mutant of NextAttempt: the loop forgets to count.
SameAttempt(t) == attempt[t]

NextAttempt(t) == attempt[t] + 1

\* An error reply.  A refusal (Rejected, Auth) is the broker's decision on this
\* request; after a transport error (Transient, Http) the request may have been
\* accepted, or may still be.  Retryable errors are tried again until the
\* attempts are used up, and then become RetryExhausted.
ReplyError(t, e) ==
    LET r == <<t, attempt[t]>> IN
    /\ At(t, "wait")
    /\ IF e \in {"Rejected", "Auth"}
       THEN r \in wire /\ wire' = wire \ {r}
       ELSE UNCHANGED wire
    /\ IF MayRetry(t, e)
       THEN /\ attempt' = [attempt EXCEPT ![t] = NextAttempt(t)]
            /\ Step(t, "send")
            /\ UNCHANGED err
       ELSE /\ err' = [err EXCEPT ![t] = IF e \in Retryable THEN "Exhausted" ELSE e]
            /\ Step(t, "failed")
            /\ UNCHANGED attempt
    /\ UNCHANGED <<routerVars, orderVars, token, body, via, onFill, onCancel,
                   orders, executed, closed, reports, delivered>>

\* handle_submit_ok: New -> Submitted with the broker's id; on a tracker that is
\* past New the method returns InvalidFsmTransition and records nothing.
FoldOk(t) ==
    LET c == body[t].cid
        id == <<t, attempt[t]>> IN
    /\ At(t, "acked")
    /\ IF CanSubmit(trackers[c])
       THEN /\ trackers' = [trackers EXCEPT ![c] = Submit(@, id)]
            /\ Step(t, "record")
            /\ UNCHANGED err
       ELSE /\ Step(t, "done")
            /\ err' = [err EXCEPT ![t] = "IllegalFsm"]
            /\ UNCHANGED trackers
    /\ UNCHANGED <<routerVars, consumed, token, body, via, attempt, onFill, onCancel,
                   brokerVars, delivered>>

\* handle_submit_err: push the tracker through Submitted into Rejected when the
\* edges allow it; record a failure only for the variants that count.
Rejecting(tr) ==
    LET s == IF tr.state = "New" THEN Submit(tr, NoId) ELSE tr
    IN IF CanReject(s) THEN Reject(s) ELSE s

FoldError(t) ==
    LET c == body[t].cid IN
    /\ At(t, "failed")
    /\ trackers' = [trackers EXCEPT ![c] = Rejecting(@)]
    /\ Step(t, IF err[t] \in CountsTowardFailover THEN "record" ELSE "done")
    /\ UNCHANGED <<routerVars, consumed, token, body, via, attempt, err, onFill, onCancel,
                   brokerVars, delivered>>

\* router.record_outcome(Success, 0) or (Failure, u32::MAX).
StartRecord(t) ==
    /\ At(t, "record")
    /\ IF err[t] = "None" THEN BeginRecord(t, FALSE, 0) ELSE BeginRecord(t, TRUE, NoLatency)
    /\ Step(t, "recording")
    /\ UNCHANGED <<orderVars, token, body, via, attempt, err, onFill, onCancel,
                   brokerVars, delivered>>

RouterStep(t) ==
    /\ At(t, "recording")
    /\ RecordStep(t)
    /\ UNCHANGED engineVars

\* submit returns its events, or its error.
Return(t) ==
    /\ At(t, "recording")
    /\ RecordReturned(t)
    /\ Step(t, "done")
    /\ UNCHANGED <<routerVars, orderVars, token, body, via, attempt, err, onFill, onCancel,
                   brokerVars, delivered>>

(***************************************************************************)
(* on_fill                                                                 *)
(***************************************************************************)
\* Mutant of Prior: the cumulative quantity is passed on as if it were a delta.
NoPrior(tr) == 0

\* The cumulative quantity the delta is taken against.
Prior(tr) == tr.filled

\* First lock acquisition: snapshot the prior cumulative quantity.  Without a
\* tracker the call returns an error and changes nothing.
FillRead(f, rep) ==
    /\ onFill[f].pc = "idle"
    /\ trackers[rep.cid] # NoTracker
    /\ onFill' = [onFill EXCEPT ![f] = [pc |-> "apply", cid |-> rep.cid, cum |-> rep.cum,
                                        prior |-> Prior(trackers[rep.cid])]]
    /\ UNCHANGED <<routerVars, orderVars, submitVars, onCancel, brokerVars, delivered>>

SaturatingSub(a, b) == IF a >= b THEN a - b ELSE 0

\* Second acquisition: partial_fill, and the Fill event with the delta against
\* the snapshot.
FillApply(f) ==
    LET c == onFill[f].cid
        cum == onFill[f].cum IN
    /\ onFill[f].pc = "apply"
    /\ IF CanFill(trackers[c], cum)
       THEN /\ trackers' = [trackers EXCEPT ![c] = Fill(@, cum)]
            /\ delivered' = [delivered EXCEPT ![c] = @ + SaturatingSub(cum, onFill[f].prior)]
       ELSE UNCHANGED <<trackers, delivered>>
    /\ onFill' = [onFill EXCEPT ![f] = IdleFill]
    /\ UNCHANGED <<routerVars, consumed, submitVars, onCancel, brokerVars>>

(***************************************************************************)
(* cancel                                                                  *)
(***************************************************************************)
CancelRead(k, c) ==
    /\ onCancel[k].pc = "idle"
    /\ trackers[c] # NoTracker
    /\ onCancel' = [onCancel EXCEPT ![k] = [pc |-> "send", cid |-> c, id |-> trackers[c].id,
                                            broker |-> trackers[c].broker, adapter |-> active]]
    /\ UNCHANGED <<routerVars, orderVars, submitVars, onFill, brokerVars, delivered>>

\* The adapter is the one that is active NOW.
CancelSend(k) ==
    /\ onCancel[k].pc = "send"
    /\ onCancel' = [onCancel EXCEPT ![k].pc = "wait", ![k].adapter = active]
    /\ UNCHANGED <<routerVars, orderVars, submitVars, onFill, brokerVars, delivered>>

CancelError(k) ==
    /\ onCancel[k].pc = "wait"
    /\ onCancel' = [onCancel EXCEPT ![k].pc = "error"]
    /\ UNCHANGED <<routerVars, orderVars, submitVars, onFill, brokerVars, delivered>>

CancelOk(k) ==
    /\ onCancel[k].pc = "wait"
    /\ onCancel[k].id \in closed
    /\ onCancel' = [onCancel EXCEPT ![k].pc = "apply"]
    /\ UNCHANGED <<routerVars, orderVars, submitVars, onFill, brokerVars, delivered>>

CancelApply(k) ==
    LET c == onCancel[k].cid IN
    /\ onCancel[k].pc = "apply"
    /\ trackers' = IF CanCancel(trackers[c])
                   THEN [trackers EXCEPT ![c] = Cancel(@)] ELSE trackers
    /\ onCancel' = [onCancel EXCEPT ![k].pc = "done"]
    /\ UNCHANGED <<routerVars, consumed, submitVars, onFill, brokerVars, delivered>>

(***************************************************************************)
(* The brokers (external)                                                  *)
(***************************************************************************)
BrokerOf(o) == via[o[1]]
Quantity(o) == body[o[1]].qty
CidOf(o) == body[o[1]].cid

\* A request is accepted while its caller waits, or after it has given up.
BrokerAccept(r) ==
    /\ wire' = wire \ {r}
    /\ orders' = orders \cup {r}
    /\ UNCHANGED <<routerVars, orderVars, submitVars, onFill, onCancel,
                   executed, closed, reports, delivered>>

BrokerExecute(o, n) ==
    /\ o \notin closed
    /\ executed[o] < n /\ n <= Quantity(o)
    /\ executed' = [executed EXCEPT ![o] = n]
    /\ reports' = reports \cup {[cid |-> CidOf(o), cum |-> n]}
    /\ UNCHANGED <<routerVars, orderVars, submitVars, onFill, onCancel,
                   wire, orders, closed, delivered>>

\* The broker honours a cancel for an order of its own that is still open.
BrokerCancel(k) ==
    LET o == onCancel[k].id IN
    /\ onCancel[k].pc = "wait"
    /\ o \in orders
    /\ BrokerOf(o) = onCancel[k].adapter
    /\ executed[o] < Quantity(o)
    /\ closed' = closed \cup {o}
    /\ UNCHANGED <<routerVars, orderVars, submitVars, onFill, onCancel,
                   wire, orders, executed, reports, delivered>>

(***************************************************************************)
(* The specification                                                       *)
(***************************************************************************)
SubmitStep(t) ==
    \/ Route(t) \/ Send(t)
    \/ ReplyOk(t) \/ (\E e \in BrokerErrors : ReplyError(t, e))
    \/ FoldOk(t) \/ FoldError(t)
    \/ StartRecord(t) \/ RouterStep(t) \/ Return(t)

CancelStep(k) ==
    CancelSend(k) \/ CancelError(k) \/ CancelOk(k) \/ CancelApply(k)

BrokerStep ==
    \/ \E r \in wire : BrokerAccept(r)
    \/ \E o \in orders : \E n \in 1..Quantity(o) : BrokerExecute(o, n)
    \/ \E k \in CancelTasks : BrokerCancel(k)

Next ==
    \/ \E t \in SubmitTasks :
        \/ \E tok \in Tokens, b \in Bodies : Presentable(tok) /\ Present(t, tok, b)
        \/ SubmitStep(t)
    \/ \E f \in FillTasks : FillApply(f) \/ (\E rep \in reports : FillRead(f, rep))
    \/ \E k \in CancelTasks : CancelStep(k) \/ (\E c \in Cids : CancelRead(k, c))
    \/ BrokerStep

Spec == Init /\ [][Next]_vars

\* Every poll of a runnable task is eventually made by the async runtime, and an
\* adapter's call returns (the HTTP client has a timeout).  Nothing is assumed
\* of the brokers.
Fairness == \A t \in SubmitTasks : WF_vars(SubmitStep(t))

FairSpec == Spec /\ Fairness

(***************************************************************************)
(* Properties                                                              *)
(***************************************************************************)
FillCall == [pc: {"idle", "apply"}, cid: Cids \cup {"none"}, cum: Nat, prior: Nat]
CancelCall == [pc: {"idle", "send", "wait", "apply", "error", "done"}, cid: Cids \cup {"none"},
               id: Requests \cup {NoId}, broker: Slots, adapter: Slots]

\* Every variable of the engine has its type.
TypeOK ==
    /\ RouterTypeOK
    /\ consumed \subseteq Tokens
    /\ trackers \in [Cids -> Tracker(Slots, Requests) \cup {NoTracker}]
    /\ pc \in [SubmitTasks -> SubmitPcs]
    /\ token \in [SubmitTasks -> Tokens \cup {Nobody}]
    /\ body \in [SubmitTasks -> Bodies \cup {Nobody}]
    /\ via \in [SubmitTasks -> Slots]
    /\ attempt \in [SubmitTasks -> 0..MaxAttempts]
    /\ err \in [SubmitTasks -> Errors]
    /\ onFill \in [FillTasks -> FillCall]
    /\ onCancel \in [CancelTasks -> CancelCall]
    /\ wire \subseteq Requests
    /\ orders \subseteq Requests
    /\ executed \in [Requests -> Nat]
    /\ closed \subseteq orders
    /\ reports \subseteq [cid: Cids, cum: Nat]
    /\ delivered \in [Cids -> Nat]

\* Requests that reached, or may still reach, a broker.
Contacted == wire \cup orders

\* No order without a current approval (R6.8, engine.rs 223-246): whatever a
\* broker was asked to do was signed by the Risk_Engine, over exactly the body
\* that was submitted, and its token is spent.
ApprovedOrdersOnly ==
    \A r \in Contacted :
        /\ body[r[1]] \in Minted
        /\ [key |-> EngineKey, body |-> body[r[1]]] \in consumed

\* A token is consumed at most once (R5.14, engine.rs 115-117): all the requests
\* made under one approval come from one submit call, however many calls race
\* with the same token.
OneSubmitPerApproval ==
    \A r, q \in Contacted : body[r[1]] = body[q[1]] => r[1] = q[1]

\* A tracker never claims more than a broker executed for its correlation id,
\* with reports duplicated, late and out of order (lifecycle.rs 169-206).
NoPhantomFill ==
    \A c \in Cids :
        trackers[c] # NoTracker /\ trackers[c].filled > 0 =>
            \E o \in orders : CidOf(o) = c /\ executed[o] >= trackers[c].filled

\* The per-fill deltas handed to the Position_Engine add up to the cumulative
\* quantity of the tracker (engine.rs 311-365).
FillsDeliveredOnce ==
    \A c \in Cids :
        delivered[c] = IF trackers[c] = NoTracker THEN 0 ELSE trackers[c].filled

\* Whatever the calls that race, the approvals that share a correlation id and
\* the retries, late replies, fills and failovers, a submit that succeeds left
\* its broker's id in the tracker, where cancel will look for it (engine.rs
\* 423-456 and 374-390): of the calls for one correlation id at most one succeeds,
\* and what it reported is an order a broker really holds.
Succeeded(t) == pc[t] \in {"record", "recording", "done"} /\ err[t] = "None"

OkIsTracked ==
    \A t \in SubmitTasks : Succeeded(t) =>
        /\ <<t, attempt[t]>> \in orders
        /\ trackers[body[t].cid].id = <<t, attempt[t]>>
        /\ trackers[body[t].cid].state # "New"

\* "THE Execution_Engine SHALL track the lifecycle state of each order"
\* (requirements.md 142): an order the broker acknowledged is the order its
\* tracker knows, same broker, same id, and neither still New nor written off as
\* Rejected.  TLC refutes it with two approvals under one correlation id.
Acknowledged(t) == Succeeded(t) \/ err[t] = "IllegalFsm"

AcknowledgedIsTracked ==
    \A t \in SubmitTasks :
        Acknowledged(t) =>
            LET tr == trackers[body[t].cid] IN
            /\ tr.broker = via[t]
            /\ tr.id = <<t, attempt[t]>>
            /\ tr.state \notin {"New", "Rejected"}

\* Every order, seen through its tracker, behaves as OrderSpec promises.
Phase(s) ==
    CASE s = "New" -> "opened"
      [] s \in {"Submitted", "PartiallyFilled"} -> "working"
      [] s = "Filled" -> "done"
      [] s = "Cancelled" -> "withdrawn"
      [] s = "Rejected" -> "refused"

AbstractOrder(c) ==
    IF trackers[c] = NoTracker
    THEN [phase |-> "unseen", requested |-> 0, filled |-> 0]
    ELSE [phase |-> Phase(trackers[c].state), requested |-> trackers[c].requested,
          filled |-> trackers[c].filled]

Order(c) == INSTANCE OrderSpec WITH
    order <- AbstractOrder(c), Quantities <- {b.qty : b \in Bodies}

\* (\A c : Order(c)!Spec, with the quantifier moved inside the box for TLC.)
ImplementsOrderSpec ==
    /\ \A c \in Cids : Order(c)!Init
    /\ [][\A c \in Cids : Order(c)!Next \/ UNCHANGED AbstractOrder(c)]_vars

\* Every submit call returns: the retry loop is bounded and no path blocks
\* (retry.rs 210-252, engine.rs 182-301).
SubmitReturns == \A t \in SubmitTasks : pc[t] # "idle" ~> pc[t] = "done"
=============================================================================
