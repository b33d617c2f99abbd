------------------------ MODULE ExecutionEngineProofs ------------------------
(***************************************************************************)
(* The engine for every number of tasks, orders, keys and attempts: the    *)
(* authority of the Risk_Engine over the brokers, type correctness, the    *)
(* refinement of the abstract order, and what its trackers and its fill    *)
(* reports say of the orders the brokers hold.                             *)
(***************************************************************************)
EXTENDS ExecutionEngine, BrokerRouterProofs, TLAPS

(***************************************************************************)
(* The control state of the submit calls, typed: what the authority proof  *)
(* needs of TypeOK.                                                        *)
(***************************************************************************)
SubmitTypeOK ==
    /\ consumed \subseteq Tokens
    /\ pc \in [SubmitTasks -> SubmitPcs]
    /\ token \in [SubmitTasks -> Tokens \cup {Nobody}]
    /\ body \in [SubmitTasks -> Bodies \cup {Nobody}]
    /\ attempt \in [SubmitTasks -> 0..MaxAttempts]
    /\ err \in [SubmitTasks -> Errors]
    /\ wire \subseteq Requests
    /\ orders \subseteq Requests

\* A submit call that passed the token gate.
Cleared(t) == pc[t] # "idle" /\ err[t] \notin {"BadToken", "Duplicate"}

SpentToken(t) == [key |-> EngineKey, body |-> body[t]]

\* Where a call is tells what it has done: an idle call has no error yet, a
\* refused call is over, and a call that talks to the broker counts attempts.
ControlOK ==
    \A t \in SubmitTasks :
        /\ pc[t] = "idle" => err[t] = "None"
        /\ err[t] \in {"BadToken", "Duplicate"} => pc[t] = "done"
        /\ pc[t] \in {"send", "wait", "acked", "failed"} => attempt[t] >= 1

\* The gate: a cleared call holds an approval the Risk_Engine minted for its body,
\* its token is spent, and no other cleared call holds the same.
GateOK ==
    /\ \A t \in SubmitTasks :
        Cleared(t) => body[t] \in Minted /\ SpentToken(t) \in consumed
    /\ \A t, u \in SubmitTasks :
        Cleared(t) /\ Cleared(u) /\ body[t] = body[u] => t = u

\* Only cleared calls have contacted a broker.
ContactOK == \A r \in Contacted : Cleared(r[1])

\* The inductive invariant.
AuthorityInv == SubmitTypeOK /\ ControlOK /\ GateOK /\ ContactOK

\* Nothing is submitted, spent or sent when the engine is built.
LEMMA AuthorityInit == Init => AuthorityInv
  <1> SUFFICES ASSUME Init PROVE AuthorityInv
    OBVIOUS
  <1>1. SubmitTypeOK
    BY EngineAssumption DEF Init, SubmitTypeOK, SubmitPcs, Errors
  <1>2. ControlOK /\ GateOK /\ ContactOK
    BY DEF Init, ControlOK, GateOK, ContactOK, Cleared, Contacted
  <1> QED BY <1>1, <1>2 DEF AuthorityInv

\* Present is the only step that clears a call, and it clears it only with a fresh
\* token of the engine's key over the very body that was submitted.
LEMMA PresentStep ==
    ASSUME AuthorityInv, NEW t \in SubmitTasks, NEW tok \in Tokens, NEW b \in Bodies,
           Presentable(tok), Present(t, tok, b)
    PROVE  AuthorityInv'
  <1> USE DEF AuthorityInv
  <1>1. SubmitTypeOK'
    BY DEF SubmitTypeOK, Present, Refuse, At, Step, SubmitPcs, Errors, brokerVars
  <1>2. ControlOK'
    BY DEF SubmitTypeOK, ControlOK, Present, Refuse, At, Step
  <1>3. \A u \in SubmitTasks \ {t} : (Cleared(u)' <=> Cleared(u)) /\ body'[u] = body[u]
    BY DEF SubmitTypeOK, Cleared, Present, Refuse, At, Step
  <1>4. ~Cleared(t)
    BY DEF Present, At, Cleared
  <1>5. Cleared(t)' => /\ tok = [key |-> EngineKey, body |-> b]
                       /\ tok \notin consumed /\ consumed' = consumed \cup {tok}
                       /\ body'[t] = b
    BY DEF SubmitTypeOK, Cleared, Present, Refuse, At, Step, Verify, Fresh, Tokens
  <1>6. consumed \subseteq consumed'
    BY DEF Present, Refuse
  <1>7. GateOK'
    <2>1. ASSUME NEW u \in SubmitTasks, Cleared(u)'
          PROVE  body'[u] \in Minted /\ SpentToken(u)' \in consumed'
      <3>1. CASE u = t
        BY <2>1, <3>1, <1>5 DEF SpentToken, Presentable
      <3>2. CASE u # t
        BY <2>1, <3>2, <1>3, <1>6 DEF GateOK, SpentToken
      <3> QED BY <3>1, <3>2
    <2>2. ASSUME NEW u \in SubmitTasks, NEW v \in SubmitTasks,
                 Cleared(u)', Cleared(v)', body'[u] = body'[v]
          PROVE  u = v
      <3>1. ASSUME NEW w \in SubmitTasks \ {t}, Cleared(w)', Cleared(t)'
            PROVE  body'[w] # body'[t]
        BY <3>1, <1>3, <1>5 DEF GateOK, SpentToken
      <3> QED BY <2>2, <3>1, <1>3 DEF GateOK
    <2> QED BY <2>1, <2>2 DEF GateOK
  <1>8. ContactOK'
    <2>1. Contacted' = Contacted /\ \A r \in Contacted : r[1] \in SubmitTasks
      BY DEF SubmitTypeOK, Contacted, Present, brokerVars, Requests
    <2> QED BY <2>1, <1>3, <1>4 DEF ContactOK
  <1> QED BY <1>1, <1>2, <1>7, <1>8

\* What every other step does: the approvals and the set of cleared calls stay as
\* they are, and whoever contacts a broker anew is cleared.
Clearance ==
    /\ consumed' = consumed
    /\ body' = body
    /\ \A t \in SubmitTasks : Cleared(t)' <=> Cleared(t)
    /\ \A r \in Contacted' : r \in Contacted \/ Cleared(r[1])

\* A step that keeps every clearance keeps the gate and what was sent through it.
LEMMA ClearanceKeepsGate ==
    ASSUME AuthorityInv, SubmitTypeOK', Clearance
    PROVE  GateOK' /\ ContactOK'
  <1>1. GateOK'
    BY DEF AuthorityInv, GateOK, Clearance, SpentToken
  <1>2. \A r \in Contacted' : r[1] \in SubmitTasks
    BY DEF SubmitTypeOK, Contacted, Requests
  <1>3. ContactOK'
    BY <1>2 DEF AuthorityInv, ContactOK, Clearance
  <1> QED BY <1>1, <1>3

\* The steps of submit after the gate.
LEMMA SubmitStepKeeps ==
    ASSUME AuthorityInv, NEW t \in SubmitTasks, SubmitStep(t)
    PROVE  SubmitTypeOK' /\ ControlOK' /\ Clearance
  <1> USE EngineAssumption
      DEF AuthorityInv, SubmitTypeOK, ControlOK, Clearance, Cleared, Contacted, At, Step,
          SubmitPcs, Errors, BrokerErrors, Requests, orderVars, brokerVars
  <1>1. CASE Route(t)
    BY <1>1 DEF Route
  <1>2. CASE Send(t)
    BY <1>2 DEF Send
  <1>3. CASE ReplyOk(t)
    BY <1>3 DEF ReplyOk
  <1>4. CASE \E e \in BrokerErrors : ReplyError(t, e)
    <2>1. PICK e \in BrokerErrors : ReplyError(t, e)
      BY <1>4
    <2>2. CASE MayRetry(t, e)
      BY <2>1, <2>2 DEF ReplyError, MayRetry, NextAttempt
    <2>3. CASE ~MayRetry(t, e)
      BY <2>1, <2>3 DEF ReplyError
    <2> QED BY <2>2, <2>3
  <1>5. CASE FoldOk(t)
    BY <1>5 DEF FoldOk
  <1>6. CASE FoldError(t)
    BY <1>6 DEF FoldError
  <1>7. CASE StartRecord(t)
    BY <1>7 DEF StartRecord
  <1>8. CASE RouterStep(t)
    BY <1>8 DEF RouterStep, engineVars
  <1>9. CASE Return(t)
    BY <1>9 DEF Return
  <1> QED
    BY <1>1, <1>2, <1>3, <1>4, <1>5, <1>6, <1>7, <1>8, <1>9 DEF SubmitStep

\* Reports, cancels and the brokers' own steps.
LEMMA OtherStepKeeps ==
    ASSUME AuthorityInv,
           \/ \E f \in FillTasks : FillApply(f) \/ (\E rep \in reports : FillRead(f, rep))
           \/ \E k \in CancelTasks : CancelStep(k) \/ (\E c \in Cids : CancelRead(k, c))
           \/ BrokerStep
           \/ UNCHANGED vars
    PROVE  SubmitTypeOK' /\ ControlOK' /\ Clearance
  <1> USE DEF AuthorityInv, SubmitTypeOK, ControlOK, Clearance, Cleared, Contacted,
              orderVars, submitVars, brokerVars
  <1>1. ASSUME NEW f \in FillTasks, FillApply(f) PROVE SubmitTypeOK' /\ ControlOK' /\ Clearance
    BY <1>1 DEF FillApply
  <1>2. ASSUME NEW f \in FillTasks, NEW rep \in reports, FillRead(f, rep)
        PROVE  SubmitTypeOK' /\ ControlOK' /\ Clearance
    BY <1>2 DEF FillRead
  <1>3. ASSUME NEW k \in CancelTasks, CancelStep(k)
        PROVE  SubmitTypeOK' /\ ControlOK' /\ Clearance
    BY <1>3 DEF CancelStep, CancelSend, CancelError, CancelOk, CancelApply
  <1>4. ASSUME NEW k \in CancelTasks, NEW c \in Cids, CancelRead(k, c)
        PROVE  SubmitTypeOK' /\ ControlOK' /\ Clearance
    BY <1>4 DEF CancelRead
  <1>5. ASSUME NEW r \in wire, BrokerAccept(r) PROVE SubmitTypeOK' /\ ControlOK' /\ Clearance
    BY <1>5 DEF BrokerAccept
  <1>6. ASSUME NEW o \in orders, NEW n \in 1..Quantity(o), BrokerExecute(o, n)
        PROVE  SubmitTypeOK' /\ ControlOK' /\ Clearance
    BY <1>6 DEF BrokerExecute
  <1>7. ASSUME NEW k \in CancelTasks, BrokerCancel(k)
        PROVE  SubmitTypeOK' /\ ControlOK' /\ Clearance
    BY <1>7 DEF BrokerCancel
  <1>8. CASE UNCHANGED vars
    BY <1>8 DEF vars, engineVars
  <1> QED BY <1>1, <1>2, <1>3, <1>4, <1>5, <1>6, <1>7, <1>8 DEF BrokerStep

\* No step of submit, on_fill, cancel or a broker weakens the authority invariant.
LEMMA AuthorityNext == AuthorityInv /\ [Next]_vars => AuthorityInv'
  <1> SUFFICES ASSUME AuthorityInv, [Next]_vars PROVE AuthorityInv'
    OBVIOUS
  <1>1. CASE \E t \in SubmitTasks, tok \in Tokens, b \in Bodies :
                Presentable(tok) /\ Present(t, tok, b)
    BY <1>1, PresentStep
  <1>2. CASE \E t \in SubmitTasks : SubmitStep(t)
    BY <1>2, SubmitStepKeeps, ClearanceKeepsGate DEF AuthorityInv
  <1>3. CASE \/ \E f \in FillTasks : FillApply(f) \/ (\E rep \in reports : FillRead(f, rep))
             \/ \E k \in CancelTasks : CancelStep(k) \/ (\E c \in Cids : CancelRead(k, c))
             \/ BrokerStep
             \/ UNCHANGED vars
    BY <1>3, OtherStepKeeps, ClearanceKeepsGate DEF AuthorityInv
  <1> QED BY <1>1, <1>2, <1>3 DEF Next

\* The inductive invariant holds in every reachable state.
THEOREM AuthorityInvariant == Spec => []AuthorityInv
  BY AuthorityInit, AuthorityNext, PTL DEF Spec

\* No order without a current approval: every request a broker was sent, or may
\* still receive, was signed by the Risk_Engine over exactly its body and its
\* token is spent (engine.rs 223-246).
THEOREM ApprovedOrders == Spec => []ApprovedOrdersOnly
  <1>1. AuthorityInv => ApprovedOrdersOnly
    <2>1. ASSUME AuthorityInv, NEW r \in Contacted
          PROVE  /\ body[r[1]] \in Minted
                 /\ [key |-> EngineKey, body |-> body[r[1]]] \in consumed
      <3>1. r[1] \in SubmitTasks /\ Cleared(r[1])
        BY <2>1 DEF AuthorityInv, SubmitTypeOK, ContactOK, Contacted, Requests
      <3> QED BY <2>1, <3>1 DEF AuthorityInv, GateOK, SpentToken
    <2> QED BY <2>1 DEF ApprovedOrdersOnly
  <1> QED BY <1>1, AuthorityInvariant, PTL

\* An approval is spent by one submit call: requests made under the same approval
\* come from the same call, however many calls race with the token (engine.rs
\* 238-246).
THEOREM SingleSubmit == Spec => []OneSubmitPerApproval
  <1>1. AuthorityInv => OneSubmitPerApproval
    <2>1. ASSUME AuthorityInv, NEW r \in Contacted, NEW q \in Contacted,
                 body[r[1]] = body[q[1]]
          PROVE  r[1] = q[1]
      <3>1. /\ r[1] \in SubmitTasks /\ Cleared(r[1])
            /\ q[1] \in SubmitTasks /\ Cleared(q[1])
        BY <2>1 DEF AuthorityInv, SubmitTypeOK, ContactOK, Contacted, Requests
      <3> QED BY <2>1, <3>1 DEF AuthorityInv, GateOK
    <2> QED BY <2>1 DEF OneSubmitPerApproval
  <1> QED BY <1>1, AuthorityInvariant, PTL

(***************************************************************************)
(* Type correctness                                                        *)
(*                                                                         *)
(* The trackers are written by submit, on_fill and cancel alike.  What     *)
(* those calls can do to one tracker is stated once, as TrackerMove, and   *)
(* used for the types, for the refinement and for the fill properties.     *)
(***************************************************************************)
Trackers == Tracker(Slots, Requests)

\* What submit and cancel do to the tracker of one correlation id: leave it,
\* install it, acknowledge it, write it off or cancel it, each with its guard.
QuietMove(old, new) ==
    \/ new = old
    \/ old = NoTracker /\ \E s \in Slots, b \in Bodies : new = NewTracker(s, b.qty)
    \/ CanSubmit(old) /\ \E id \in Requests : new = Submit(old, id)
    \/ new = Rejecting(old)
    \/ CanCancel(old) /\ new = Cancel(old)

\* What any call does: on_fill besides folds a quantity in.
TrackerMove(old, new) ==
    \/ QuietMove(old, new)
    \/ \E n \in Nat : CanFill(old, n) /\ new = Fill(old, n)

\* A tracker is absent, or a record whose quantities agree with its state: filled
\* within the request, nothing filled before PartiallyFilled or once Rejected.
TrackerOK(tr) ==
    \/ tr = NoTracker
    \/ /\ tr \in Trackers
       /\ tr.filled <= tr.requested
       /\ tr.state \in {"New", "Submitted", "Rejected"} => tr.filled = 0

\* The locals of the calls, the brokers and the fills handed on.
CallsTypeOK ==
    /\ via \in [SubmitTasks -> Slots]
    /\ onFill \in [FillTasks -> FillCall]
    /\ \A f \in FillTasks : onFill[f].pc = "apply" => onFill[f].cid \in Cids
    /\ onCancel \in [CancelTasks -> CancelCall]
    /\ \A k \in CancelTasks : onCancel[k].pc # "idle" => onCancel[k].cid \in Cids
    /\ executed \in [Requests -> Nat]
    /\ closed \subseteq orders
    /\ reports \subseteq [cid: Cids, cum: Nat]
    /\ delivered \in [Cids -> Nat]

\* The variables that SubmitTypeOK does not cover.
EngineTypeOK ==
    /\ trackers \in [Cids -> Trackers \cup {NoTracker}]
    /\ \A c \in Cids : TrackerOK(trackers[c])
    /\ CallsTypeOK

\* The absent tracker is not a tracker.
LEMMA AbsentIsNoTracker == NoTracker \notin Trackers
  BY DEF NoTracker, Trackers, Tracker, States

\* transition_no_fill changes the state, and the broker's id when one is given.
LEMMA MovedFields ==
    ASSUME NEW tr \in Trackers, NEW to \in States, NEW id \in Requests \cup {NoId}
    PROVE  LET m == Moved(tr, to, id) IN
           /\ m \in Trackers
           /\ m.state = to /\ m.filled = tr.filled /\ m.requested = tr.requested
           /\ m.broker = tr.broker /\ m.id = IF id = NoId THEN tr.id ELSE id
  BY DEF Moved, Trackers, Tracker

\* partial_fill changes the state and the cumulative quantity.
LEMMA FillFields ==
    ASSUME NEW tr \in Trackers, NEW n \in Nat
    PROVE  LET m == Fill(tr, n) IN
           /\ m \in Trackers
           /\ m.state = FillTarget(tr, n) /\ m.filled = n /\ m.requested = tr.requested
           /\ m.broker = tr.broker /\ m.id = tr.id
           /\ m.state \in {"PartiallyFilled", "Filled"}
  BY DEF Fill, FillTarget, Trackers, Tracker, States

\* What handle_submit_err leaves of a tracker: New and Submitted become Rejected,
\* everything else stays.
LEMMA RejectingFields ==
    ASSUME NEW tr \in Trackers
    PROVE  LET m == Rejecting(tr) IN
           IF tr.state \in {"New", "Submitted"}
           THEN /\ m \in Trackers
                /\ m.state = "Rejected" /\ m.filled = tr.filled /\ m.requested = tr.requested
                /\ m.id = tr.id
           ELSE m = tr
  <1>1. /\ NoId \in Requests \cup {NoId} /\ "Submitted" \in States /\ "Rejected" \in States
    BY DEF States
  <1>2. CASE tr.state = "New"
    <2>1. Submit(tr, NoId) \in Trackers /\ Submit(tr, NoId).state = "Submitted"
      BY <1>1, MovedFields DEF Submit
    <2>2. Rejecting(tr) = Reject(Submit(tr, NoId))
      BY <1>2, <2>1 DEF Rejecting, CanReject, IsLegalTransition
    <2> QED BY <1>1, <1>2, <2>1, <2>2, MovedFields DEF Submit, Reject
  <1>3. CASE tr.state = "Submitted"
    BY <1>1, <1>3, MovedFields DEF Rejecting, CanReject, IsLegalTransition, Reject
  <1>4. CASE tr.state \notin {"New", "Submitted"}
    BY <1>4 DEF Rejecting, CanReject, IsLegalTransition
  <1> QED BY <1>2, <1>3, <1>4

\* Only an installed tracker can be acknowledged, filled or cancelled.
LEMMA GuardsNeedTracker ==
    /\ ~CanSubmit(NoTracker) /\ ~CanCancel(NoTracker) /\ \A n : ~CanFill(NoTracker, n)
    /\ Rejecting(NoTracker) = NoTracker
  BY DEF CanSubmit, CanCancel, CanFill, CanReject, Rejecting, IsLegalTransition, NoTracker

\* Every move leaves a well-formed tracker well-formed (lifecycle.rs).
LEMMA MoveKeepsTracker ==
    ASSUME NEW old, NEW new, TrackerOK(old), TrackerMove(old, new)
    PROVE  TrackerOK(new) /\ new \in Trackers \cup {NoTracker}
  <1> USE GuardsNeedTracker DEF TrackerOK
  <1>1. CASE new = old
    BY <1>1
  <1>2. CASE old = NoTracker /\ \E s \in Slots, b \in Bodies : new = NewTracker(s, b.qty)
    BY <1>2, EngineAssumption DEF NewTracker, Trackers, Tracker, States
  <1>3. CASE CanSubmit(old) /\ \E id \in Requests : new = Submit(old, id)
    <2>1. old \in Trackers /\ old.state = "New"
      BY <1>3 DEF CanSubmit, IsLegalTransition
    <2>2. PICK id \in Requests : new = Moved(old, "Submitted", id)
      BY <1>3 DEF Submit
    <2>3. id \in Requests \cup {NoId} /\ "Submitted" \in States
      BY DEF States
    <2> QED BY <2>1, <2>2, <2>3, MovedFields, AbsentIsNoTracker
  <1>4. CASE new = Rejecting(old)
    BY <1>4, RejectingFields
  <1>5. CASE \E n \in Nat : CanFill(old, n) /\ new = Fill(old, n)
    BY <1>5, FillFields DEF CanFill
  <1>6. CASE CanCancel(old) /\ new = Cancel(old)
    <2>1. old \in Trackers /\ old.state \in {"Submitted", "PartiallyFilled"}
      BY <1>6 DEF CanCancel, IsLegalTransition
    <2>2. NoId \in Requests \cup {NoId} /\ "Cancelled" \in States
      BY DEF States
    <2> QED BY <1>6, <2>1, <2>2, MovedFields DEF Cancel
  <1> QED BY <1>1, <1>2, <1>3, <1>4, <1>5, <1>6 DEF TrackerMove, QuietMove

\* A call past the gate works on a body the Risk_Engine signed.
LEMMA ClearedBody ==
    ASSUME AuthorityInv, NEW t \in SubmitTasks, Cleared(t)
    PROVE  body[t] \in Bodies /\ body[t].cid \in Cids /\ body[t].qty \in Nat
  BY EngineAssumption DEF AuthorityInv, GateOK

\* Every step moves every tracker by one of these moves, and only on_fill fills.
LEMMA StepMovesTrackers ==
    ASSUME AuthorityInv, EngineTypeOK, RouterTypeOK, [Next]_vars
    PROVE  /\ trackers' = [c \in Cids |-> trackers'[c]]
           /\ \A c \in Cids : TrackerMove(trackers[c], trackers'[c])
           /\ \/ \A c \in Cids : QuietMove(trackers[c], trackers'[c])
              \/ \E f \in FillTasks : FillApply(f)
  <1> DEFINE Goal == /\ trackers' = [c \in Cids |-> trackers'[c]]
                     /\ \A c \in Cids : TrackerMove(trackers[c], trackers'[c])
                     /\ \/ \A c \in Cids : QuietMove(trackers[c], trackers'[c])
                        \/ \E f \in FillTasks : FillApply(f)
  <1>0. trackers \in [Cids -> Trackers \cup {NoTracker}]
    BY DEF EngineTypeOK
  <1>1. ASSUME trackers' = trackers PROVE Goal
    BY <1>0, <1>1 DEF TrackerMove, QuietMove
  <1>2. ASSUME NEW t \in SubmitTasks, Route(t) PROVE Goal
    <2>1. Cleared(t)
      BY <1>2 DEF AuthorityInv, ControlOK, Route, At, Cleared
    <2>2. body[t] \in Bodies /\ body[t].cid \in Cids /\ active \in Slots
      BY <2>1, ClearedBody DEF RouterTypeOK
    <2>3. CASE trackers[body[t].cid] = NoTracker
      BY <1>0, <1>2, <2>2, <2>3 DEF Route, TrackerMove, QuietMove
    <2>4. CASE trackers[body[t].cid] # NoTracker
      BY <1>1, <1>2, <2>4 DEF Route
    <2> QED BY <2>3, <2>4
  <1>3. ASSUME NEW t \in SubmitTasks, FoldOk(t) PROVE Goal
    <2>1. Cleared(t) /\ <<t, attempt[t]>> \in Requests
      BY <1>3 DEF AuthorityInv, ControlOK, SubmitTypeOK, Requests, FoldOk, At, Cleared
    <2>2. body[t].cid \in Cids
      BY <2>1, ClearedBody
    <2> QED BY <1>0, <1>1, <1>3, <2>1, <2>2 DEF FoldOk, TrackerMove, QuietMove
  <1>4. ASSUME NEW t \in SubmitTasks, FoldError(t) PROVE Goal
    <2>1. Cleared(t)
      BY <1>4 DEF AuthorityInv, ControlOK, FoldError, At, Cleared
    <2>2. body[t].cid \in Cids
      BY <2>1, ClearedBody
    <2> QED BY <1>0, <1>4, <2>2 DEF FoldError, TrackerMove, QuietMove
  <1>5. ASSUME NEW f \in FillTasks, FillApply(f) PROVE Goal
    <2>1. onFill[f].cid \in Cids /\ onFill[f].cum \in Nat
      BY <1>5 DEF EngineTypeOK, CallsTypeOK, FillApply, FillCall
    <2> QED BY <1>0, <1>1, <1>5, <2>1 DEF FillApply, TrackerMove, QuietMove
  <1>6. ASSUME NEW k \in CancelTasks, CancelApply(k) PROVE Goal
    <2>1. onCancel[k].cid \in Cids
      BY <1>6 DEF EngineTypeOK, CallsTypeOK, CancelApply
    <2> QED BY <1>0, <1>1, <1>6, <2>1 DEF CancelApply, TrackerMove, QuietMove
  <1>7. CASE UNCHANGED vars
    BY <1>1, <1>7 DEF vars, engineVars
  <1>8. ASSUME NEW t \in SubmitTasks, NEW tok \in Tokens, NEW b \in Bodies, Present(t, tok, b)
        PROVE  Goal
    BY <1>1, <1>8 DEF Present, Refuse
  <1>9. ASSUME NEW t \in SubmitTasks, SubmitStep(t) PROVE Goal
    <2>1. CASE \/ Send(t) \/ ReplyOk(t) \/ (\E e \in BrokerErrors : ReplyError(t, e))
               \/ StartRecord(t) \/ RouterStep(t) \/ Return(t)
      BY <1>1, <2>1 DEF Send, ReplyOk, ReplyError, StartRecord, RouterStep, Return,
                        orderVars, engineVars
    <2> QED BY <1>2, <1>3, <1>4, <1>9, <2>1 DEF SubmitStep
  <1>10. ASSUME NEW f \in FillTasks, NEW rep \in reports, FillRead(f, rep) PROVE Goal
    BY <1>1, <1>10 DEF FillRead, orderVars
  <1>11. ASSUME NEW k \in CancelTasks, CancelStep(k) \/ (\E d \in Cids : CancelRead(k, d)) PROVE Goal
    <2>1. CASE CancelSend(k) \/ CancelError(k) \/ CancelOk(k) \/ (\E d \in Cids : CancelRead(k, d))
      BY <1>1, <2>1 DEF CancelSend, CancelError, CancelOk, CancelRead, orderVars
    <2> QED BY <1>6, <1>11, <2>1 DEF CancelStep
  <1>12. CASE BrokerStep
    BY <1>1, <1>12 DEF BrokerStep, BrokerAccept, BrokerExecute, BrokerCancel, orderVars
  <1> QED BY <1>5, <1>7, <1>8, <1>9, <1>10, <1>11, <1>12 DEF Next

\* The other variables of the engine and of the brokers keep their types.
LEMMA EngineTypeNext ==
    ASSUME AuthorityInv, EngineTypeOK, RouterTypeOK, [Next]_vars
    PROVE  EngineTypeOK'
  <1>0. trackers' \in [Cids -> Trackers \cup {NoTracker}] /\ \A c \in Cids : TrackerOK(trackers'[c])
    BY StepMovesTrackers, MoveKeepsTracker DEF EngineTypeOK
  <1> SUFFICES CallsTypeOK'
    BY <1>0 DEF EngineTypeOK
  <1>r. CallsTypeOK /\ active \in Slots
    BY DEF EngineTypeOK, RouterTypeOK
  <1>1. ASSUME NEW t \in SubmitTasks, NEW tok \in Tokens, NEW b \in Bodies, Present(t, tok, b)
        PROVE  CallsTypeOK'
    BY <1>r, <1>1 DEF CallsTypeOK, Present, brokerVars
  <1>2. ASSUME NEW t \in SubmitTasks, SubmitStep(t) PROVE CallsTypeOK'
    <2>1. CASE Route(t)
      BY <1>r, <2>1 DEF CallsTypeOK, Route, RouterTypeOK, brokerVars
    <2>2. CASE \/ Send(t) \/ ReplyOk(t) \/ (\E e \in BrokerErrors : ReplyError(t, e))
               \/ FoldOk(t) \/ FoldError(t) \/ StartRecord(t) \/ RouterStep(t) \/ Return(t)
      BY <1>r, <2>2 DEF CallsTypeOK, Send, ReplyOk, ReplyError, FoldOk, FoldError, StartRecord, RouterStep,
                        Return, orderVars, brokerVars, engineVars
    <2> QED BY <1>2, <2>1, <2>2 DEF SubmitStep
  <1>3. ASSUME NEW f \in FillTasks, FillApply(f) PROVE CallsTypeOK'
    <2>1. onFill[f] \in FillCall /\ onFill[f].cid \in Cids /\ IdleFill \in FillCall
      BY <1>r, <1>3 DEF CallsTypeOK, FillApply, IdleFill, FillCall
    <2>2. SaturatingSub(onFill[f].cum, onFill[f].prior) \in Nat
      BY <2>1 DEF FillCall, SaturatingSub
    <2>3. delivered' \in [Cids -> Nat]
      BY <1>r, <1>3, <2>1, <2>2 DEF CallsTypeOK, FillApply
    <2>4. /\ onFill' \in [FillTasks -> FillCall]
          /\ \A g \in FillTasks : onFill'[g].pc = "apply" => onFill'[g].cid \in Cids
      BY <1>r, <1>3, <2>1 DEF CallsTypeOK, FillApply, IdleFill
    <2> QED BY <1>r, <1>3, <2>3, <2>4 DEF CallsTypeOK, FillApply, submitVars, brokerVars
  <1>4. ASSUME NEW f \in FillTasks, NEW rep \in reports, FillRead(f, rep) PROVE CallsTypeOK'
    <2>1. rep.cid \in Cids /\ rep.cum \in Nat /\ Prior(trackers[rep.cid]) \in Nat
      BY <1>r, <1>4, AbsentIsNoTracker DEF CallsTypeOK, EngineTypeOK, FillRead, Prior, Trackers, Tracker
    <2> QED BY <1>r, <1>4, <2>1 DEF CallsTypeOK, FillRead, FillCall, submitVars, brokerVars
  <1>5. ASSUME NEW k \in CancelTasks, CancelStep(k) PROVE CallsTypeOK'
    <2> USE <1>r DEF CallsTypeOK, CancelCall, submitVars, brokerVars
    <2>1. CASE CancelSend(k)
      BY <2>1, ZenonT(60) DEF CancelSend
    <2>2. CASE CancelError(k)
      BY <2>2 DEF CancelError
    <2>3. CASE CancelOk(k)
      BY <2>3 DEF CancelOk
    <2>4. CASE CancelApply(k)
      BY <2>4 DEF CancelApply
    <2> QED BY <1>5, <2>1, <2>2, <2>3, <2>4 DEF CancelStep
  <1>6. ASSUME NEW k \in CancelTasks, NEW c \in Cids, CancelRead(k, c) PROVE CallsTypeOK'
    <2>1. /\ trackers[c].id \in Requests \cup {NoId} /\ trackers[c].broker \in Slots
          /\ active \in Slots
      BY <1>6, AbsentIsNoTracker DEF EngineTypeOK, RouterTypeOK, CancelRead, Trackers, Tracker
    <2> QED BY <1>r, <1>6, <2>1 DEF CallsTypeOK, CancelRead, CancelCall, submitVars, brokerVars
  <1>7. CASE BrokerStep
    <2>1. ASSUME NEW o \in orders, NEW n \in 1..Quantity(o), BrokerExecute(o, n) PROVE CallsTypeOK'
      <3>1. o \in Requests /\ o[1] \in SubmitTasks /\ Cleared(o[1])
        BY DEF AuthorityInv, SubmitTypeOK, ContactOK, Contacted, Requests
      <3>2. CidOf(o) \in Cids /\ n \in Nat
        BY <3>1, ClearedBody DEF CidOf, Quantity
      <3> QED BY <1>r, <2>1, <3>1, <3>2 DEF CallsTypeOK, BrokerExecute, submitVars
    <2>2. ASSUME NEW k \in CancelTasks, BrokerCancel(k) PROVE CallsTypeOK'
      BY <1>r, <2>2 DEF CallsTypeOK, BrokerCancel, submitVars
    <2>3. ASSUME NEW r \in wire, BrokerAccept(r) PROVE CallsTypeOK'
      BY <1>r, <2>3 DEF CallsTypeOK, BrokerAccept, submitVars
    <2> QED BY <1>7, <2>1, <2>2, <2>3 DEF BrokerStep
  <1>8. CASE UNCHANGED vars
    BY <1>r, <1>8 DEF CallsTypeOK, vars, engineVars
  <1> QED BY <1>1, <1>2, <1>3, <1>4, <1>5, <1>6, <1>7, <1>8 DEF Next

\* The router's part of a step of the engine is a step of record_outcome.
LEMMA RouterTypesInEngine ==
    ASSUME RouterTypeOK, [Next]_vars
    PROVE  RouterTypeOK'
  <1>1. ASSUME UNCHANGED routerVars PROVE RouterTypeOK'
    BY <1>1 DEF routerVars, RouterTypeOK
  <1>2. ASSUME NEW t \in SubmitTasks, StartRecord(t) PROVE RouterTypeOK'
    BY <1>2, BeginRecordTyped DEF StartRecord, SubmitTasks, NoLatency
  <1>3. ASSUME NEW t \in SubmitTasks, RouterStep(t) PROVE RouterTypeOK'
    BY <1>3, RecordStepTyped DEF RouterStep, SubmitTasks
  <1>4. ASSUME NEW t \in SubmitTasks, SubmitStep(t) PROVE RouterTypeOK'
    <2>1. CASE \/ Route(t) \/ Send(t) \/ ReplyOk(t) \/ (\E e \in BrokerErrors : ReplyError(t, e))
               \/ FoldOk(t) \/ FoldError(t) \/ Return(t)
      BY <1>1, <2>1 DEF Route, Send, ReplyOk, ReplyError, FoldOk, FoldError, Return
    <2> QED BY <1>2, <1>3, <1>4, <2>1 DEF SubmitStep
  <1>5. CASE \E t \in SubmitTasks, tok \in Tokens, b \in Bodies : Present(t, tok, b)
    BY <1>1, <1>5 DEF Present
  <1>6. CASE \E f \in FillTasks : FillApply(f) \/ (\E rep \in reports : FillRead(f, rep))
    BY <1>1, <1>6 DEF FillApply, FillRead
  <1>7. CASE \E k \in CancelTasks : CancelStep(k) \/ (\E c \in Cids : CancelRead(k, c))
    BY <1>1, <1>7 DEF CancelStep, CancelSend, CancelError, CancelOk, CancelApply, CancelRead
  <1>8. CASE BrokerStep
    BY <1>1, <1>8 DEF BrokerStep, BrokerAccept, BrokerExecute, BrokerCancel
  <1>9. CASE UNCHANGED vars
    BY <1>1, <1>9 DEF vars
  <1> QED BY <1>4, <1>5, <1>6, <1>7, <1>8, <1>9 DEF Next

\* What the later proofs build on.
EngineInv == AuthorityInv /\ EngineTypeOK /\ RouterTypeOK

\* The three together are inductive.
THEOREM EngineInvariant == Spec => []EngineInv
  <1>1. Init => EngineInv
    <2>1. Init => EngineTypeOK
      BY DEF Init, EngineTypeOK, CallsTypeOK, TrackerOK, IdleFill, FillCall, IdleCancel, CancelCall, Slots, NoId
    <2> QED BY <2>1, AuthorityInit, RouterTypeInit DEF EngineInv, Init
  <1>2. EngineInv /\ [Next]_vars => EngineInv'
    BY AuthorityNext, EngineTypeNext, RouterTypesInEngine DEF EngineInv
  <1> QED BY <1>1, <1>2, PTL DEF Spec

\* Every variable of the engine keeps its type (engine.rs, lifecycle.rs).
THEOREM EngineTypes == Spec => []TypeOK
  <1>1. EngineInv => TypeOK
    BY DEF EngineInv, AuthorityInv, SubmitTypeOK, EngineTypeOK, CallsTypeOK, TypeOK, Trackers
  <1> QED BY <1>1, EngineInvariant, PTL

(***************************************************************************)
(* The refinement: every order, seen through its tracker, is an OrderSpec. *)
(***************************************************************************)
\* The abstract order as a function of the tracker alone.
Abstract(tr) ==
    IF tr = NoTracker
    THEN [phase |-> "unseen", requested |-> 0, filled |-> 0]
    ELSE [phase |-> Phase(tr.state), requested |-> tr.requested, filled |-> tr.filled]

\* A tracker in a phase, spelled out.
LEMMA AbstractFields ==
    ASSUME NEW tr \in Trackers
    PROVE  /\ Abstract(tr) = [phase |-> Phase(tr.state), requested |-> tr.requested,
                              filled |-> tr.filled]
           /\ Phase("New") = "opened" /\ Phase("Submitted") = "working"
           /\ Phase("PartiallyFilled") = "working" /\ Phase("Filled") = "done"
           /\ Phase("Cancelled") = "withdrawn" /\ Phase("Rejected") = "refused"
  BY AbsentIsNoTracker DEF Abstract, Phase

\* Each move of a tracker is a step of its abstract order, or leaves it as it is.
LEMMA MoveImplements ==
    ASSUME NEW c \in Cids, TrackerOK(trackers[c]), TrackerMove(trackers[c], trackers'[c])
    PROVE  Order(c)!Next \/ UNCHANGED AbstractOrder(c)
  <1> DEFINE old == trackers[c]
             new == trackers'[c]
             abs == AbstractOrder(c)
  <1>1. abs = Abstract(old) /\ abs' = Abstract(new)
    BY DEF AbstractOrder, Abstract
  <1>2. CASE new = old
    BY <1>1, <1>2
  <1>3. CASE old = NoTracker /\ \E s \in Slots, b \in Bodies : new = NewTracker(s, b.qty)
    <2>1. PICK s \in Slots, b \in Bodies : new = NewTracker(s, b.qty)
      BY <1>3
    <2>2. new \in Trackers /\ new.state = "New" /\ new.requested = b.qty /\ new.filled = 0
      BY <2>1, EngineAssumption DEF NewTracker, Trackers, Tracker, States
    <2>3. abs' = [phase |-> "opened", requested |-> b.qty, filled |-> 0]
      BY <1>1, <2>2, AbstractFields
    <2>4. Order(c)!Open(b.qty)
      BY <1>1, <1>3, <2>3 DEF Abstract, Order!Open, Order!Unseen
    <2> QED BY <2>4 DEF Order!Next
  <1>4. CASE CanSubmit(old) /\ \E id \in Requests : new = Submit(old, id)
    <2>1. old \in Trackers /\ old.state = "New"
      BY <1>4, GuardsNeedTracker DEF CanSubmit, IsLegalTransition, TrackerOK
    <2>2. PICK id \in Requests : new = Moved(old, "Submitted", id)
      BY <1>4 DEF Submit
    <2>3. /\ new \in Trackers /\ new.state = "Submitted"
          /\ new.filled = old.filled /\ new.requested = old.requested
      <3>1. id \in Requests \cup {NoId} /\ "Submitted" \in States
        BY DEF States
      <3> QED BY <2>1, <2>2, <3>1, MovedFields
    <2>4. Order(c)!Accept
      BY <1>1, <2>1, <2>3, AbstractFields DEF Order!Accept
    <2> QED BY <2>4 DEF Order!Next
  <1>5. CASE new = Rejecting(old)
    <2>1. CASE old = NoTracker
      BY <1>1, <1>5, <2>1, GuardsNeedTracker
    <2>2. CASE old \in Trackers /\ old.state \in {"New", "Submitted"}
      <3>1. /\ new \in Trackers /\ new.state = "Rejected"
            /\ new.filled = old.filled /\ new.requested = old.requested /\ old.filled = 0
        BY <1>5, <2>2, RejectingFields, AbsentIsNoTracker DEF TrackerOK
      <3>2. Order(c)!Refuse
        BY <1>1, <2>2, <3>1, AbstractFields DEF Order!Refuse
      <3> QED BY <3>2 DEF Order!Next
    <2>3. CASE old \in Trackers /\ old.state \notin {"New", "Submitted"}
      BY <1>1, <1>5, <2>3, RejectingFields
    <2> QED BY <2>1, <2>2, <2>3 DEF TrackerOK
  <1>6. CASE \E n \in Nat : CanFill(old, n) /\ new = Fill(old, n)
    <2>1. PICK n \in Nat : CanFill(old, n) /\ new = Fill(old, n)
      BY <1>6
    <2>2. old \in Trackers /\ old.requested \in Nat
      BY <2>1, GuardsNeedTracker DEF TrackerOK, Trackers, Tracker
    <2>3. /\ old.state \in {"Submitted", "PartiallyFilled"}
          /\ old.filled <= n /\ n <= old.requested
      BY <2>1, <2>2 DEF CanFill, IsLegalTransition, FillTarget
    <2>4. /\ new \in Trackers /\ new.filled = n /\ new.requested = old.requested
          /\ new.state = IF n = old.requested /\ n > 0 THEN "Filled" ELSE "PartiallyFilled"
      BY <2>1, <2>2, <2>3, FillFields DEF FillTarget
    <2>5. Order(c)!Execute(n)
      <3>1. abs = [phase |-> "working", requested |-> old.requested, filled |-> old.filled]
        BY <1>1, <2>2, <2>3, AbstractFields
      <3>2. abs' = [phase |-> IF n = old.requested /\ n > 0 THEN "done" ELSE "working",
                    requested |-> old.requested, filled |-> n]
        BY <1>1, <2>4, AbstractFields
      <3>3. abs' = [abs EXCEPT !.filled = n,
                               !.phase = IF n = abs.requested /\ n > 0 THEN "done" ELSE "working"]
        <4> DEFINE p == IF n = old.requested /\ n > 0 THEN "done" ELSE "working"
        <4> HIDE DEF p
        <4>1. abs.requested = old.requested
          BY <3>1
        <4>2. [abs EXCEPT !.filled = n, !.phase = p]
                = [phase |-> p, requested |-> old.requested, filled |-> n]
          <5> DEFINE Only == [phase: {p}, requested: {old.requested}, filled: {n}]
          <5>0. abs \in [phase: {"working"}, requested: {old.requested}, filled: {old.filled}]
            BY <3>1
          <5>1. [abs EXCEPT !.filled = n, !.phase = p] \in Only
            BY <5>0
          <5>2. \A s \in Only : s = [phase |-> p, requested |-> old.requested, filled |-> n]
            OBVIOUS
          <5> QED BY <5>1, <5>2
        <4> QED BY <3>2, <4>1, <4>2 DEF p
      <3>4. abs.phase = "working" /\ abs.filled <= n /\ n <= abs.requested
        BY <2>3, <3>1
      <3> QED BY <3>3, <3>4 DEF Order!Execute
    <2>6. n \in 0..abs.requested
      BY <1>1, <2>2, <2>3, AbstractFields
    <2> QED BY <2>5, <2>6 DEF Order!Next
  <1>7. CASE CanCancel(old) /\ new = Cancel(old)
    <2>1. old \in Trackers /\ old.state \in {"Submitted", "PartiallyFilled"}
      BY <1>7, GuardsNeedTracker DEF CanCancel, IsLegalTransition, TrackerOK
    <2>2. NoId \in Requests \cup {NoId} /\ "Cancelled" \in States
      BY DEF States
    <2>3. /\ new \in Trackers /\ new.state = "Cancelled"
          /\ new.filled = old.filled /\ new.requested = old.requested
      BY <1>7, <2>1, <2>2, MovedFields DEF Cancel
    <2>4. Order(c)!Withdraw
      BY <1>1, <2>1, <2>3, AbstractFields DEF Order!Withdraw
    <2> QED BY <2>4 DEF Order!Next
  <1> QED BY <1>2, <1>3, <1>4, <1>5, <1>6, <1>7 DEF TrackerMove, QuietMove

\* The engine implements OrderSpec for every correlation id: whatever submissions,
\* reports, cancels and failovers do, an order is opened once, its executed
\* quantity never shrinks or exceeds the request, and a closed order never
\* changes again (lifecycle.rs 56-206, engine.rs 182-440).
THEOREM OrderRefinement == Spec => ImplementsOrderSpec
  <1>1. Init => \A c \in Cids : Order(c)!Init
    BY DEF Init, AbstractOrder, Order!Init, Order!Unseen
  <1>2. EngineInv /\ [Next]_vars
            => [\A c \in Cids : Order(c)!Next \/ UNCHANGED AbstractOrder(c)]_vars
    <2> SUFFICES ASSUME EngineInv, [Next]_vars
                 PROVE  \A c \in Cids : Order(c)!Next \/ UNCHANGED AbstractOrder(c)
      OBVIOUS
    <2>1. \A c \in Cids : TrackerOK(trackers[c]) /\ TrackerMove(trackers[c], trackers'[c])
      BY StepMovesTrackers DEF EngineInv, EngineTypeOK
    <2> QED BY <2>1, MoveImplements
  <1> QED BY <1>1, <1>2, EngineInvariant, PTL DEF Spec, ImplementsOrderSpec

(***************************************************************************)
(* Fills: nothing is claimed that a broker did not execute, and nothing is *)
(* handed on twice.                                                        *)
(***************************************************************************)
\* The cumulative quantity a tracker claims.
Claimed(tr) == IF tr = NoTracker THEN 0 ELSE tr.filled

\* Submitting, rejecting and cancelling leave the claim alone.
LEMMA QuietKeepsClaim ==
    ASSUME NEW old, NEW new, TrackerOK(old), QuietMove(old, new)
    PROVE  Claimed(new) = Claimed(old)
  <1>0. NoId \in Requests \cup {NoId} /\ {"Submitted", "Cancelled"} \subseteq States
    BY DEF States
  <1>1. CASE new = old
    BY <1>1
  <1>2. CASE old = NoTracker /\ \E s \in Slots, b \in Bodies : new = NewTracker(s, b.qty)
    BY <1>2 DEF Claimed, NewTracker
  <1>3. CASE CanSubmit(old) /\ \E id \in Requests : new = Submit(old, id)
    <2>1. old \in Trackers
      BY <1>3, GuardsNeedTracker DEF TrackerOK
    <2>2. PICK id \in Requests \cup {NoId} : new = Moved(old, "Submitted", id)
      BY <1>3 DEF Submit
    <2> QED BY <1>0, <2>1, <2>2, MovedFields, AbsentIsNoTracker DEF Claimed
  <1>4. CASE new = Rejecting(old)
    BY <1>4, RejectingFields, GuardsNeedTracker, AbsentIsNoTracker DEF Claimed, TrackerOK
  <1>5. CASE CanCancel(old) /\ new = Cancel(old)
    <2>1. old \in Trackers
      BY <1>5, GuardsNeedTracker DEF TrackerOK
    <2> QED BY <1>0, <1>5, <2>1, MovedFields, AbsentIsNoTracker DEF Claimed, Cancel
  <1> QED BY <1>1, <1>2, <1>3, <1>4, <1>5 DEF QuietMove

\* What applying a report does to the claims.
LEMMA FillSetsClaim ==
    ASSUME EngineInv, NEW f \in FillTasks, FillApply(f)
    PROVE  /\ onFill[f].cid \in Cids /\ onFill[f].cum \in Nat
           /\ \A c \in Cids :
                \/ Claimed(trackers'[c]) = Claimed(trackers[c]) /\ delivered'[c] = delivered[c]
                \/ /\ c = onFill[f].cid /\ onFill[f].cum >= Claimed(trackers[c])
                   /\ Claimed(trackers'[c]) = onFill[f].cum
                   /\ delivered'[c] = delivered[c] + SaturatingSub(onFill[f].cum, onFill[f].prior)
  <1> DEFINE d == onFill[f].cid
             n == onFill[f].cum
  <1>1. d \in Cids /\ n \in Nat
    BY DEF EngineInv, EngineTypeOK, CallsTypeOK, FillApply, FillCall
  <1>2. CASE ~CanFill(trackers[d], n)
    BY <1>1, <1>2 DEF FillApply
  <1>3. CASE CanFill(trackers[d], n)
    <2>1. trackers[d] \in Trackers /\ trackers[d] # NoTracker
      BY <1>1, <1>3, GuardsNeedTracker DEF EngineInv, EngineTypeOK
    <2>2. Claimed(Fill(trackers[d], n)) = n /\ n >= Claimed(trackers[d])
      BY <1>1, <1>3, <2>1, FillFields, AbsentIsNoTracker DEF Claimed, CanFill
    <2>3. /\ trackers' = [trackers EXCEPT ![d] = Fill(trackers[d], n)]
          /\ delivered' = [delivered EXCEPT ![d] = @ + SaturatingSub(n, onFill[f].prior)]
      BY <1>3 DEF FillApply
    <2>4. trackers \in [Cids -> Trackers \cup {NoTracker}] /\ delivered \in [Cids -> Nat]
      BY DEF EngineInv, EngineTypeOK, CallsTypeOK
    <2> QED BY <1>1, <2>2, <2>3, <2>4
  <1> QED BY <1>1, <1>2, <1>3

\* Some broker executed at least n of the order of c.
Backed(c, n) == n > 0 => \E o \in orders : CidOf(o) = c /\ executed[o] >= n

\* The inductive invariant behind NoPhantomFill: not only what is claimed, also
\* what is reported or being applied is backed.
BackedInv ==
    /\ \A rep \in reports : Backed(rep.cid, rep.cum)
    /\ \A f \in FillTasks : onFill[f].pc = "apply" => Backed(onFill[f].cid, onFill[f].cum)
    /\ \A c \in Cids : Backed(c, Claimed(trackers[c]))

\* Accepted orders stay, under their correlation id, and execute further only.
LEMMA EvidenceGrows ==
    ASSUME EngineInv, [Next]_vars
    PROVE  \A o \in orders : /\ o \in orders' /\ CidOf(o)' = CidOf(o)
                             /\ executed'[o] >= executed[o]
  <1> SUFFICES ASSUME NEW o \in orders
               PROVE  o \in orders' /\ CidOf(o)' = CidOf(o) /\ executed'[o] >= executed[o]
    OBVIOUS
  <1>0. o \in Requests /\ o[1] \in SubmitTasks /\ Cleared(o[1]) /\ executed[o] \in Nat
    BY DEF EngineInv, EngineTypeOK, CallsTypeOK, AuthorityInv, SubmitTypeOK, ContactOK, Contacted,
           Requests
  <1>1. CASE UNCHANGED <<body, orders, executed>>
    BY <1>0, <1>1 DEF CidOf
  <1>2. ASSUME NEW t \in SubmitTasks, NEW tok \in Tokens, NEW b \in Bodies, Present(t, tok, b)
        PROVE  o \in orders' /\ CidOf(o)' = CidOf(o) /\ executed'[o] >= executed[o]
    <2>1. o[1] # t
      BY <1>0, <1>2 DEF Present, At, Cleared
    <2> QED BY <1>0, <1>2, <2>1 DEF Present, CidOf, EngineInv, AuthorityInv, SubmitTypeOK, brokerVars
  <1>3. ASSUME NEW t \in SubmitTasks, SubmitStep(t) PROVE UNCHANGED <<body, orders, executed>>
    BY <1>3 DEF SubmitStep, Route, Send, ReplyOk, ReplyError, FoldOk, FoldError, StartRecord,
                RouterStep, Return, brokerVars, engineVars
  <1>4. CASE \/ \E f \in FillTasks : FillApply(f) \/ (\E rep \in reports : FillRead(f, rep))
             \/ \E k \in CancelTasks : CancelStep(k) \/ (\E c \in Cids : CancelRead(k, c))
    BY <1>1, <1>4 DEF FillApply, FillRead, CancelStep, CancelSend, CancelError, CancelOk,
                      CancelApply, CancelRead, submitVars, brokerVars
  <1>5. CASE BrokerStep
    <2>1. ASSUME NEW r \in wire, BrokerAccept(r)
          PROVE  o \in orders' /\ CidOf(o)' = CidOf(o) /\ executed'[o] >= executed[o]
      BY <1>0, <2>1 DEF BrokerAccept, CidOf, submitVars
    <2>2. ASSUME NEW p \in orders, NEW n \in 1..Quantity(p), BrokerExecute(p, n)
          PROVE  o \in orders' /\ CidOf(o)' = CidOf(o) /\ executed'[o] >= executed[o]
      <3>1. executed \in [Requests -> Nat] /\ n >= executed[p] /\ p \in Requests
        BY <2>2 DEF EngineInv, EngineTypeOK, CallsTypeOK, AuthorityInv, SubmitTypeOK, BrokerExecute
      <3> QED BY <1>0, <2>2, <3>1 DEF BrokerExecute, CidOf, submitVars
    <2>3. ASSUME NEW k \in CancelTasks, BrokerCancel(k) PROVE UNCHANGED <<body, orders, executed>>
      BY <2>3 DEF BrokerCancel, submitVars
    <2> QED BY <1>1, <1>5, <2>1, <2>2, <2>3 DEF BrokerStep
  <1>6. CASE UNCHANGED vars
    BY <1>1, <1>6 DEF vars, engineVars
  <1> QED BY <1>1, <1>2, <1>3, <1>4, <1>5, <1>6 DEF Next

\* What reads, applies and creates reports.  Every other step leaves the reports
\* and the on_fill calls as they are.
LEMMA ReportSteps ==
    ASSUME [Next]_vars
    PROVE  \/ UNCHANGED <<reports, onFill, delivered>>
           \/ \E f \in FillTasks : FillApply(f)
           \/ \E f \in FillTasks, rep \in reports : FillRead(f, rep)
           \/ \E o \in orders : \E n \in 1..Quantity(o) : BrokerExecute(o, n)
  <1>1. ASSUME NEW t \in SubmitTasks, SubmitStep(t) PROVE UNCHANGED <<reports, onFill, delivered>>
    BY <1>1 DEF SubmitStep, Route, Send, ReplyOk, ReplyError, FoldOk, FoldError, StartRecord,
                RouterStep, Return, brokerVars, engineVars
  <1>2. CASE \E t \in SubmitTasks, tok \in Tokens, b \in Bodies : Present(t, tok, b)
    BY <1>2 DEF Present, brokerVars
  <1>3. CASE \E k \in CancelTasks : CancelStep(k) \/ (\E c \in Cids : CancelRead(k, c))
    BY <1>3 DEF CancelStep, CancelSend, CancelError, CancelOk, CancelApply, CancelRead, brokerVars
  <1>4. CASE BrokerStep
    BY <1>4 DEF BrokerStep, BrokerAccept, BrokerCancel
  <1>5. CASE UNCHANGED vars
    BY <1>5 DEF vars, engineVars
  <1> QED BY <1>1, <1>2, <1>3, <1>4, <1>5 DEF Next

\* No step claims, reports or applies more than was executed.
LEMMA BackedNext ==
    ASSUME EngineInv, EngineInv', BackedInv, [Next]_vars
    PROVE  BackedInv'
  <1> DEFINE Later(c, n) == n > 0 => \E o \in orders' : body'[o[1]].cid = c /\ executed'[o] >= n
  <1>1. ASSUME NEW c, NEW n \in Nat, Backed(c, n) PROVE Later(c, n)
    <2> SUFFICES ASSUME n > 0 PROVE \E o \in orders' : CidOf(o)' = c /\ executed'[o] >= n
      BY DEF CidOf
    <2>1. PICK o \in orders : CidOf(o) = c /\ executed[o] >= n
      BY <1>1 DEF Backed
    <2>2. o \in orders' /\ CidOf(o)' = c /\ executed'[o] >= executed[o]
      BY <2>1, EvidenceGrows
    <2>3. executed[o] \in Nat /\ executed'[o] \in Nat
      BY <2>2 DEF EngineInv, EngineTypeOK, CallsTypeOK, AuthorityInv, SubmitTypeOK
    <2> QED BY <2>1, <2>2, <2>3
  <1>2. /\ \A rep \in reports : rep.cid \in Cids /\ rep.cum \in Nat
        /\ \A f \in FillTasks : onFill[f].cum \in Nat
        /\ \A c \in Cids : Claimed(trackers[c]) \in Nat
    BY DEF EngineInv, EngineTypeOK, CallsTypeOK, FillCall, Claimed, Trackers, Tracker
  <1> HIDE DEF Later
  <1>3. /\ \A rep \in reports : Later(rep.cid, rep.cum)
        /\ \A f \in FillTasks : onFill[f].pc = "apply" => Later(onFill[f].cid, onFill[f].cum)
        /\ \A c \in Cids : Later(c, Claimed(trackers[c]))
    BY <1>1, <1>2 DEF BackedInv
  <1>4. \A c \in Cids : Later(c, Claimed(trackers'[c]))
    <2>1. CASE \A c \in Cids : QuietMove(trackers[c], trackers'[c])
      BY <1>3, <2>1, QuietKeepsClaim DEF EngineInv, EngineTypeOK
    <2>2. ASSUME NEW f \in FillTasks, FillApply(f)
          PROVE  \A c \in Cids : Later(c, Claimed(trackers'[c]))
      BY <1>3, <2>2, FillSetsClaim DEF FillApply
    <2> QED BY <2>1, <2>2, StepMovesTrackers DEF EngineInv
  <1>5. /\ \A rep \in reports' : Later(rep.cid, rep.cum)
        /\ \A f \in FillTasks : onFill'[f].pc = "apply" => Later(onFill'[f].cid, onFill'[f].cum)
    <2>1. CASE UNCHANGED <<reports, onFill, delivered>>
      BY <1>3, <2>1
    <2>2. ASSUME NEW f \in FillTasks, FillApply(f) PROVE <1>5!1 /\ <1>5!2
      BY <1>3, <2>2 DEF FillApply, IdleFill, brokerVars, EngineInv, EngineTypeOK, CallsTypeOK
    <2>3. ASSUME NEW f \in FillTasks, NEW rep \in reports, FillRead(f, rep) PROVE <1>5!1 /\ <1>5!2
      BY <1>3, <2>3 DEF FillRead, brokerVars, EngineInv, EngineTypeOK, CallsTypeOK
    <2>4. ASSUME NEW o \in orders, NEW n \in 1..Quantity(o), BrokerExecute(o, n)
          PROVE  <1>5!1 /\ <1>5!2
      <3>1. o \in Requests /\ o[1] \in SubmitTasks
        BY DEF EngineInv, AuthorityInv, SubmitTypeOK, Requests
      <3>2. Later(CidOf(o), n)
        BY <2>4, <3>1 DEF Later, BrokerExecute, CidOf, submitVars, EngineInv, EngineTypeOK, CallsTypeOK
      <3> QED BY <1>3, <2>4, <3>2 DEF BrokerExecute
    <2> QED BY <2>1, <2>2, <2>3, <2>4, ReportSteps
  <1> QED BY <1>4, <1>5 DEF BackedInv, Backed, CidOf, Later

\* A tracker never claims more than some broker executed for its correlation id,
\* with reports lost, late, repeated and reordered, for any number of on_fill
\* calls (lifecycle.rs 169-206).
THEOREM ClaimsBacked == Spec => []NoPhantomFill
  <1>1. Init => BackedInv
    BY DEF Init, BackedInv, Backed, Claimed, IdleFill
  <1>2. EngineInv /\ EngineInv' /\ BackedInv /\ [Next]_vars => BackedInv'
    BY BackedNext
  <1>3. EngineInv /\ BackedInv => NoPhantomFill
    BY DEF BackedInv, Backed, Claimed, NoPhantomFill
  <1> QED BY <1>1, <1>2, <1>3, EngineInvariant, PTL DEF Spec

\* The inductive invariant behind FillsDeliveredOnce: the snapshot an on_fill call
\* took is still the tracker's quantity when it is used.
DeliveredInv ==
    /\ \A c \in Cids : delivered[c] = Claimed(trackers[c])
    /\ \A f \in FillTasks :
        onFill[f].pc = "apply" => onFill[f].prior = Claimed(trackers[onFill[f].cid])

\* With one on_fill call at a time every executed unit is handed to the
\* Position_Engine exactly once, whatever is lost, repeated or reordered
\* (engine.rs 311-365).  Without the hypothesis two calls can share a snapshot.
THEOREM DeliveredOnce ==
    ASSUME \A f, g \in FillTasks : f = g
    PROVE  Spec => []FillsDeliveredOnce
  <1>1. Init => DeliveredInv
    BY DEF Init, DeliveredInv, Claimed, IdleFill
  <1>2. EngineInv /\ DeliveredInv /\ [Next]_vars => DeliveredInv'
    <2> SUFFICES ASSUME EngineInv, DeliveredInv, [Next]_vars PROVE DeliveredInv'
      OBVIOUS
    <2>0. /\ delivered \in [Cids -> Nat] /\ onFill \in [FillTasks -> FillCall]
          /\ \A f \in FillTasks : onFill[f].pc = "apply" => onFill[f].cid \in Cids
          /\ \A c \in Cids : Claimed(trackers[c]) \in Nat
      BY DEF EngineInv, EngineTypeOK, CallsTypeOK, Claimed, Trackers, Tracker
    <2>1. ASSUME NEW f \in FillTasks, FillApply(f) PROVE DeliveredInv'
      <3>1. onFill[f].pc = "apply" /\ \A g \in FillTasks : onFill'[g].pc = "idle"
        BY <2>0, <2>1 DEF FillApply, IdleFill
      <3>2. onFill[f].prior = Claimed(trackers[onFill[f].cid])
        BY <3>1 DEF DeliveredInv
      <3>3. \A c \in Cids : delivered'[c] = Claimed(trackers'[c])
        BY <2>0, <2>1, <3>2, FillSetsClaim DEF DeliveredInv, SaturatingSub
      <3> QED BY <3>1, <3>3 DEF DeliveredInv
    <2>2. ASSUME \A c \in Cids : QuietMove(trackers[c], trackers'[c]),
                 ~ \E f \in FillTasks : FillApply(f)
          PROVE  DeliveredInv'
      <3>1. \A c \in Cids : Claimed(trackers'[c]) = Claimed(trackers[c])
        BY <2>2, QuietKeepsClaim DEF EngineInv, EngineTypeOK
      <3>2. CASE UNCHANGED <<reports, onFill, delivered>>
        BY <2>0, <3>1, <3>2 DEF DeliveredInv
      <3>3. ASSUME NEW f \in FillTasks, NEW rep \in reports, FillRead(f, rep) PROVE DeliveredInv'
        <4>1. rep.cid \in Cids /\ Prior(trackers[rep.cid]) = Claimed(trackers[rep.cid])
          BY <3>3 DEF FillRead, Prior, Claimed, EngineInv, EngineTypeOK, CallsTypeOK
        <4> QED BY <2>0, <3>1, <3>3, <4>1 DEF FillRead, DeliveredInv
      <3>4. ASSUME NEW o \in orders, NEW n \in 1..Quantity(o), BrokerExecute(o, n)
            PROVE  DeliveredInv'
        BY <2>0, <3>1, <3>4 DEF BrokerExecute, DeliveredInv
      <3> QED BY <2>2, <3>2, <3>3, <3>4, ReportSteps
    <2> QED BY <2>1, <2>2, StepMovesTrackers DEF EngineInv
  <1>3. DeliveredInv => FillsDeliveredOnce
    BY DEF DeliveredInv, FillsDeliveredOnce, Claimed
  <1> QED BY <1>1, <1>2, <1>3, EngineInvariant, PTL DEF Spec

(***************************************************************************)
(* What a successful submit left behind.                                   *)
(***************************************************************************)
\* Once a tracker has left New no move changes its id or brings it back to New.
LEMMA MoveKeepsId ==
    ASSUME NEW old \in Trackers, NEW new, old.state # "New", TrackerMove(old, new)
    PROVE  new \in Trackers /\ new.id = old.id /\ new.state # "New"
  <1>0. NoId \in Requests \cup {NoId} /\ "Cancelled" \in States /\ old # NoTracker
    BY AbsentIsNoTracker DEF States
  <1>1. ~CanSubmit(old)
    BY DEF CanSubmit, IsLegalTransition
  <1>2. CASE new = Rejecting(old)
    BY <1>2, RejectingFields
  <1>3. CASE CanCancel(old) /\ new = Cancel(old)
    BY <1>0, <1>3, MovedFields DEF Cancel
  <1>4. CASE \E n \in Nat : CanFill(old, n) /\ new = Fill(old, n)
    BY <1>4, FillFields
  <1> QED BY <1>0, <1>1, <1>2, <1>3, <1>4 DEF TrackerMove, QuietMove

\* What is known of a submit call, by where it is.
OkInv ==
    \A t \in SubmitTasks :
        /\ pc[t] = "failed" => err[t] # "None"
        /\ pc[t] = "acked" => <<t, attempt[t]>> \in orders
        /\ Succeeded(t) => LET tr == trackers[body[t].cid] IN
               /\ <<t, attempt[t]>> \in orders
               /\ tr \in Trackers /\ tr.id = <<t, attempt[t]>> /\ tr.state # "New"

\* A broker does not forget an order it accepted.
LEMMA OrdersStay ==
    ASSUME [Next]_vars
    PROVE  orders \subseteq orders'
  <1>1. ASSUME NEW t \in SubmitTasks, SubmitStep(t) PROVE orders' = orders
    BY <1>1 DEF SubmitStep, Route, Send, ReplyOk, ReplyError, FoldOk, FoldError, StartRecord,
                RouterStep, Return, brokerVars, engineVars
  <1>2. ASSUME NEW k \in CancelTasks, CancelStep(k) \/ (\E c \in Cids : CancelRead(k, c))
        PROVE  orders' = orders
    BY <1>2 DEF CancelStep, CancelSend, CancelError, CancelOk, CancelApply, CancelRead, brokerVars
  <1>3. CASE BrokerStep
    BY <1>3 DEF BrokerStep, BrokerAccept, BrokerExecute, BrokerCancel
  <1> QED BY <1>1, <1>2, <1>3
       DEF Next, Present, FillApply, FillRead, brokerVars, vars, engineVars

\* A call that stands still while others move keeps what is known of it.
LEMMA OthersKeepOk ==
    ASSUME EngineInv, OkInv, [Next]_vars, NEW t \in SubmitTasks,
           pc'[t] = pc[t], err'[t] = err[t], attempt'[t] = attempt[t], body'[t] = body[t]
    PROVE  /\ pc'[t] = "failed" => err'[t] # "None"
           /\ pc'[t] = "acked" => <<t, attempt'[t]>> \in orders'
           /\ Succeeded(t)' => LET tr == trackers'[body'[t].cid] IN
                  /\ <<t, attempt'[t]>> \in orders'
                  /\ tr \in Trackers /\ tr.id = <<t, attempt'[t]>> /\ tr.state # "New"
  <1>1. orders \subseteq orders'
    BY OrdersStay
  <1>2. ASSUME Succeeded(t)
        PROVE  LET tr == trackers'[body[t].cid] IN
               tr \in Trackers /\ tr.id = <<t, attempt[t]>> /\ tr.state # "New"
    <2>1. Cleared(t) /\ body[t].cid \in Cids
      BY <1>2, ClearedBody DEF Succeeded, Cleared, EngineInv
    <2>2. TrackerMove(trackers[body[t].cid], trackers'[body[t].cid])
      BY <2>1, StepMovesTrackers DEF EngineInv
    <2> QED BY <1>2, <2>2, MoveKeepsId DEF OkInv
  <1> QED BY <1>1, <1>2 DEF OkInv, Succeeded

\* The steps of submit: each leaves what its new place promises.
LEMMA SubmitStepOk ==
    ASSUME EngineInv, OkInv, [Next]_vars, NEW t \in SubmitTasks, SubmitStep(t)
    PROVE  OkInv'
  <1> DEFINE Known(u) ==
        /\ pc'[u] = "failed" => err'[u] # "None"
        /\ pc'[u] = "acked" => <<u, attempt'[u]>> \in orders'
        /\ Succeeded(u)' => LET tr == trackers'[body'[u].cid] IN
               /\ <<u, attempt'[u]>> \in orders'
               /\ tr \in Trackers /\ tr.id = <<u, attempt'[u]>> /\ tr.state # "New"
  <1>0. /\ pc \in [SubmitTasks -> SubmitPcs] /\ err \in [SubmitTasks -> Errors]
        /\ attempt \in [SubmitTasks -> 0..MaxAttempts]
        /\ trackers \in [Cids -> Trackers \cup {NoTracker}]
    BY DEF EngineInv, AuthorityInv, SubmitTypeOK, EngineTypeOK
  <1>1. Cleared(t) /\ body' = body /\ body[t].cid \in Cids
    <2>1. Cleared(t)
      BY DEF SubmitStep, Route, Send, ReplyOk, ReplyError, FoldOk, FoldError, StartRecord,
             RouterStep, Return, At, Cleared, EngineInv, AuthorityInv, ControlOK
    <2> QED BY <2>1, ClearedBody, SubmitStepKeeps DEF EngineInv, Clearance
  <1>2. ASSUME NEW u \in SubmitTasks, u # t PROVE Known(u)
    <2>1. pc'[u] = pc[u] /\ err'[u] = err[u] /\ attempt'[u] = attempt[u]
      BY <1>0, <1>2 DEF SubmitStep, Route, Send, ReplyOk, ReplyError, FoldOk, FoldError,
             StartRecord, RouterStep, Return, Step, engineVars
    <2> QED BY <1>1, <2>1, OthersKeepOk
  <1> HIDE DEF Known
  <1> SUFFICES Known(t)
    BY <1>2 DEF OkInv, Known
  <1>3. orders \subseteq orders'
    BY OrdersStay
  <1> USE <1>0 DEF At, Step, Succeeded, Known
  <1>4. CASE Route(t)
    <2>1. \/ pc'[t] = "send"
          \/ pc'[t] = "done" /\ err'[t] = "BadIntent"
      <3>1. CASE body[t].valid
        BY <1>4, <3>1 DEF Route
      <3>2. CASE ~body[t].valid
        BY <1>4, <3>2 DEF Route
      <3> QED BY <3>1, <3>2
    <2> QED BY <2>1
  <1>5. CASE Send(t)
    BY <1>5 DEF Send
  <1>6. CASE ReplyOk(t)
    BY <1>3, <1>6 DEF ReplyOk
  <1>7. ASSUME NEW e \in BrokerErrors, ReplyError(t, e) PROVE Known(t)
    <2>1. CASE MayRetry(t, e)
      BY <1>7, <2>1 DEF ReplyError
    <2>2. CASE ~MayRetry(t, e)
      BY <1>7, <2>2 DEF ReplyError, BrokerErrors
    <2> QED BY <2>1, <2>2
  <1>8. CASE FoldOk(t)
    <2> DEFINE tr == trackers[body[t].cid]
               id == <<t, attempt[t]>>
    <2>1. CASE ~CanSubmit(tr)
      BY <1>8, <2>1 DEF FoldOk
    <2>2. CASE CanSubmit(tr)
      <3>1. tr \in Trackers
        BY <1>1, <2>2, GuardsNeedTracker
      <3>2. id \in Requests \cup {NoId} /\ id # NoId /\ "Submitted" \in States
        <4>1. attempt[t] \in 1..MaxAttempts
          BY <1>8, EngineAssumption DEF FoldOk, EngineInv, AuthorityInv, ControlOK
        <4> QED BY <4>1 DEF Requests, NoId, States
      <3>3. LET n == Submit(tr, id) IN n \in Trackers /\ n.state = "Submitted" /\ n.id = id
        BY <3>1, <3>2, MovedFields DEF Submit
      <3>4. trackers' = [trackers EXCEPT ![body[t].cid] = Submit(tr, id)] /\ pc'[t] = "record"
        BY <1>8, <2>2 DEF FoldOk
      <3>5. attempt' = attempt /\ id \in orders
        BY <1>8 DEF FoldOk, OkInv
      <3>6. trackers'[body'[t].cid] = Submit(tr, id)
        BY <1>1, <3>4
      <3> QED BY <1>3, <3>3, <3>4, <3>5, <3>6
    <2> QED BY <2>1, <2>2
  <1>9. CASE FoldError(t)
    <2>1. err'[t] # "None" /\ pc'[t] \in {"record", "done"}
      BY <1>9 DEF FoldError, OkInv
    <2> QED BY <2>1
  <1>10. ASSUME pc[t] \in {"record", "recording"}, pc'[t] \in {"recording", "done"},
                UNCHANGED <<trackers, attempt, err>>
         PROVE  Known(t)
    BY <1>1, <1>3, <1>10 DEF OkInv
  <1>11. CASE StartRecord(t)
    BY <1>10, <1>11 DEF StartRecord, orderVars
  <1>12. CASE RouterStep(t)
    BY <1>10, <1>12 DEF RouterStep, engineVars
  <1>13. CASE Return(t)
    BY <1>10, <1>13 DEF Return, orderVars
  <1> QED BY <1>4, <1>5, <1>6, <1>7, <1>8, <1>9, <1>11, <1>12, <1>13 DEF SubmitStep

\* Presenting a token, and every step that is not submit's.
LEMMA OkNext ==
    ASSUME EngineInv, OkInv, [Next]_vars
    PROVE  OkInv'
  <1>0. pc \in [SubmitTasks -> SubmitPcs] /\ err \in [SubmitTasks -> Errors]
    BY DEF EngineInv, AuthorityInv, SubmitTypeOK
  <1>1. CASE \E t \in SubmitTasks : SubmitStep(t)
    BY <1>1, SubmitStepOk
  <1>2. ASSUME NEW t \in SubmitTasks, NEW tok \in Tokens, NEW b \in Bodies, Present(t, tok, b)
        PROVE  OkInv'
    <2>1. \/ pc'[t] = "done" /\ err'[t] \in {"BadToken", "Duplicate"}
          \/ pc'[t] = "route"
      BY <1>0, <1>2 DEF Present, Refuse, Step
    <2>2. ASSUME NEW u \in SubmitTasks, u # t
          PROVE  pc'[u] = pc[u] /\ err'[u] = err[u] /\ attempt'[u] = attempt[u] /\ body'[u] = body[u]
      BY <1>0, <1>2, <2>2 DEF Present, Refuse, Step, EngineInv, AuthorityInv, SubmitTypeOK
    <2> QED BY <2>1, <2>2, OthersKeepOk DEF OkInv, Succeeded
  <1>3. CASE UNCHANGED submitVars
    <2>1. \A u \in SubmitTasks :
            pc'[u] = pc[u] /\ err'[u] = err[u] /\ attempt'[u] = attempt[u] /\ body'[u] = body[u]
      BY <1>3 DEF submitVars
    <2> QED BY <2>1, OthersKeepOk DEF OkInv
  <1>4. CASE \/ \E f \in FillTasks : FillApply(f) \/ (\E rep \in reports : FillRead(f, rep))
             \/ \E k \in CancelTasks : CancelStep(k) \/ (\E c \in Cids : CancelRead(k, c))
             \/ BrokerStep
             \/ UNCHANGED vars
    BY <1>3, <1>4 DEF FillApply, FillRead, CancelStep, CancelSend, CancelError, CancelOk,
           CancelApply, CancelRead, BrokerStep, BrokerAccept, BrokerExecute, BrokerCancel, vars,
           engineVars, submitVars
  <1> QED BY <1>1, <1>2, <1>4 DEF Next

\* For any number of approvals under one correlation id, and whatever retries,
\* late replies, fills, cancels and failovers do, a submit that succeeded is the
\* order its tracker names and a broker holds (engine.rs 423-456).
THEOREM OkTracked == Spec => []OkIsTracked
  <1>1. Init => OkInv
    BY DEF Init, OkInv, Succeeded
  <1>2. EngineInv /\ OkInv /\ [Next]_vars => OkInv'
    BY OkNext
  <1>3. OkInv => OkIsTracked
    BY DEF OkInv, OkIsTracked
  <1> QED BY <1>1, <1>2, <1>3, EngineInvariant, PTL DEF Spec
=============================================================================
