----------------------- MODULE TradingServicesProofs -----------------------
(***************************************************************************)
(* Theorems about the deployed services, for any number of signals,        *)
(* symbols, toggles and polls: messages stay well-formed end to end,       *)
(* turning live mode off lets at most the order in hand reach a broker,    *)
(* the fills hedge-exec announces are true, and hedge-position books no    *)
(* more of a symbol than was approved or announced by the demo's chain.    *)
(***************************************************************************)
EXTENDS TradingServices, DataInduction, FiniteSetTheorems, TLAPS

USE DEF riskVars, demoVars, execVars, brokerVars, positionVars

(***************************************************************************)
(* Type correctness                                                        *)
(***************************************************************************)
\* Nothing is queued, booked or in hand at boot.
LEMMA ServicesTypeInit == Init => ServicesTypeOK
  BY ServicesAssumption
  DEF Init, ServicesTypeOK, ExecState, Idle, NoJob, NoOrder, Brokers

\* What build_decision_payload publishes is an approval.
LEMMA DecisionTyped ==
    ASSUME NEW s \in Signal, NEW q \in Nat
    PROVE  DecisionPayload(s, q) \in Approval
  BY DEF DecisionPayload, Signal, Approval, SideOf, Sides

\* The fill event of the order in hand is well-formed.
LEMMA FillTyped ==
    ASSUME ServicesTypeOK, exec.at # "idle", NEW q \in Nat, NEW p \in {"paper", "live"}, PublishFill(q, p)
    PROVE  fills' \in Seq(Fill) /\ filled' \subseteq Fill
  BY DEF ServicesTypeOK, PublishFill, Fill, Approval

\* The fill event of the demo's trade chain is well-formed, and counts more
\* than the ones before it.
LEMMA DemoFillTyped ==
    ASSUME ServicesTypeOK, DemoFill
    PROVE  /\ chain' \in ChainState \cup {NoChain}
           /\ fills' \in Seq(Fill) /\ filled' \subseteq Fill
           /\ chain \in ChainState
           /\ \/ chain' = NoChain /\ UNCHANGED <<fills, filled>>
              \/ \E f \in Fill :
                    /\ f.by = "demo" /\ f.cid = chain.sig.cid /\ f.symbol = chain.sig.symbol
                    /\ f.qty > chain.filled
                    /\ fills' = Append(fills, f) /\ filled' = filled \cup {f}
                    /\ \/ chain' = NoChain
                       \/ chain' # NoChain /\ chain'.sig = chain.sig /\ chain'.filled = f.qty
  <1> USE ServicesAssumption
  <1> DEFINE got == chain.filled + Chunk(chain)
             f == [cid |-> chain.sig.cid, symbol |-> chain.sig.symbol, qty |-> got, by |-> "demo"]
  <1>1. /\ chain \in ChainState /\ fills \in Seq(Fill) /\ filled \subseteq Fill
        /\ IF Chunk(chain) <= 0
           THEN chain' = NoChain /\ UNCHANGED <<fills, filled>>
           ELSE /\ chain' = IF chain.left = 1 THEN NoChain
                            ELSE [chain EXCEPT !.left = @ - 1, !.filled = got]
                /\ fills' = Append(fills, f)
                /\ filled' = filled \cup {f}
    BY DEF DemoFill, ServicesTypeOK
  <1>2. chain.filled \in Nat /\ chain.sig \in DemoSignals /\ chain.left \in 1 .. DemoFills
    BY <1>1 DEF ChainState
  <1>3. Chunk(chain) \in Int
    <2>1. chain.qty \in Nat /\ chain.n \in Nat \ {0} BY <1>1 DEF ChainState
    <2>2. chain.qty \div chain.n \in Int BY <2>1
    <2> QED BY <1>2, <2>1, <2>2 DEF Chunk
  <1>4. CASE Chunk(chain) <= 0
    BY <1>1, <1>4
  <1>5. CASE ~(Chunk(chain) <= 0)
    <2>1. got \in Nat /\ got > chain.filled BY <1>2, <1>3, <1>5
    <2> HIDE DEF got
    <2>2. chain.sig.cid \in Cids /\ chain.sig.symbol \in Symbols \cup {Unlisted}
      BY <1>2 DEF Signal
    <2>3. f \in Fill BY <2>1, <2>2 DEF Fill
    <2>4. f.by = "demo" /\ f.cid = chain.sig.cid /\ f.symbol = chain.sig.symbol /\ f.qty = got
      OBVIOUS
    <2>5. fills' = Append(fills, f) /\ filled' = filled \cup {f} BY <1>1, <1>5
    <2>6. CASE chain.left = 1
      <3>1. chain' = NoChain BY <1>1, <1>5, <2>6
      <3> HIDE DEF f
      <3> QED BY <1>1, <2>1, <2>3, <2>4, <2>5, <3>1
    <2>7. CASE chain.left # 1
      <3>1. chain' = [chain EXCEPT !.left = @ - 1, !.filled = got] BY <1>1, <1>5, <2>7
      <3>4. chain.left - 1 \in 1 .. DemoFills BY <1>2, <2>7
      <3>2. chain' \in ChainState /\ chain'.sig = chain.sig /\ chain'.filled = got
            /\ chain'.left \in 1 .. DemoFills
        BY <1>1, <2>1, <3>1, <3>4 DEF ChainState
      <3>3. chain' # NoChain BY <3>2 DEF NoChain
      <3> HIDE DEF f
      <3> QED BY <1>1, <2>1, <2>3, <2>4, <2>5, <3>2, <3>3
    <2> QED BY <2>6, <2>7
  <1> QED BY <1>4, <1>5

\* A broker that accepts the order in hand holds a well-formed order.
LEMMA AcceptTyped ==
    ASSUME ServicesTypeOK, exec.at = "submit", Accepts(exec.broker)
    PROVE  orders' \in [Brokers -> [Cids -> Order \cup {NoOrder}]]
  <1>1. Intent(exec.job) \in Order
    BY DEF ServicesTypeOK, Intent, Order, Approval, SideOf, Sides
  <1>2. exec.broker \in Brokers /\ exec.job.cid \in Cids
    BY DEF ServicesTypeOK, ExecState
  <1> QED BY <1>1, <1>2 DEF ServicesTypeOK, Accepts

\* Every action of every service keeps the types.
LEMMA ServicesTypeNext == ServicesTypeOK /\ [Next]_vars => ServicesTypeOK'
  <1> SUFFICES ASSUME ServicesTypeOK, [Next]_vars
               PROVE  ServicesTypeOK'
    OBVIOUS
  <1> USE ServicesAssumption
  <1>1. CASE PublishDemoApproval
    <2>1. PICK s \in DemoSignals \ demo :
              /\ demo' = demo \cup {s}
              /\ \/ UNCHANGED <<chain, approvals, approved>>
                 \/ \E q \in DemoQuantities, n \in 1 .. DemoFills :
                        /\ chain' = [sig |-> s, qty |-> q, n |-> n, left |-> n, filled |-> 0]
                        /\ approvals' = Append(approvals, DemoApproval(s, q))
                        /\ approved' = approved \cup {DemoApproval(s, q)}
              /\ UNCHANGED <<riskVars, execVars, brokerVars, fills, filled, positionVars>>
      BY <1>1 DEF PublishDemoApproval
    <2>2. ASSUME NEW q \in DemoQuantities PROVE DemoApproval(s, q) \in Approval
      BY <2>1 DEF DemoApproval, Approval, Signal, Sides
    <2>3. chain' \in ChainState \cup {NoChain}
      BY <2>1 DEF ChainState, ServicesTypeOK
    <2>4. approvals' \in Seq(Approval) /\ approved' \subseteq Approval
      <3>1. CASE UNCHANGED <<chain, approvals, approved>>
        BY <3>1 DEF ServicesTypeOK
      <3>2. ASSUME NEW q \in DemoQuantities, approvals' = Append(approvals, DemoApproval(s, q)),
                   approved' = approved \cup {DemoApproval(s, q)}
            PROVE  approvals' \in Seq(Approval) /\ approved' \subseteq Approval
        BY <2>2, <3>2 DEF ServicesTypeOK
      <3> QED BY <2>1, <3>1, <3>2
    <2> QED BY <2>1, <2>3, <2>4 DEF ServicesTypeOK
  <1>0. CASE DemoFill
    BY <1>0, DemoFillTyped DEF DemoFill, ServicesTypeOK
  <1>2. CASE LoseApproval
    BY <1>2 DEF LoseApproval, ServicesTypeOK
  <1>3. CASE LoseFill
    BY <1>3 DEF LoseFill, ServicesTypeOK
  <1>4. CASE ApproveSignal
    <2>1. PICK s \in Signals \ received, q \in Quantities :
              /\ approvals' = Append(approvals, DecisionPayload(s, q))
              /\ approved' = approved \cup {DecisionPayload(s, q)}
              /\ received' = received \cup {s}
              /\ UNCHANGED <<demoVars, execVars, brokerVars, fills, filled, positionVars>>
      BY <1>4 DEF ApproveSignal
    <2>2. DecisionPayload(s, q) \in Approval
      BY DecisionTyped
    <2> QED BY <2>1, <2>2 DEF ServicesTypeOK
  <1>5. CASE RefuseSignal
    BY <1>5 DEF RefuseSignal, ServicesTypeOK
  <1>6. CASE ToggleMode
    BY <1>6 DEF ToggleMode, ServicesTypeOK
  <1>7. CASE TakeApproval
    <2>1. Head(approvals) \in Approval /\ approvals' \in Seq(Approval)
      BY <1>7 DEF TakeApproval, ServicesTypeOK
    <2> DEFINE a == Head(approvals)
    <2>2. Idle \in ExecState /\ Job("submit", a) \in ExecState /\ Job("paper", a) \in ExecState
      BY <2>1 DEF Idle, Job, ExecState, Brokers
    <2>3. ~ Ignored(a) => a.cid \in Cids
      BY <2>1 DEF Ignored, Approval
    <2>4. exec' \in ExecState /\ rejected' \subseteq Approval
      BY <1>7, <2>2, <2>3 DEF TakeApproval, ServicesTypeOK
    <2>5. /\ exec'.at # "idle" => exec'.job \in Approval /\ exec'.job.cid \in Cids
          /\ exec'.at \in {"submit", "poll"} => exec'.job.symbol \in Symbols
      BY <1>7, <2>1, <2>3 DEF TakeApproval, Idle, Job
    <2> QED BY <1>7, <2>1, <2>4, <2>5 DEF TakeApproval, ServicesTypeOK
  <1>8. CASE PaperFill
    <2>1. fills' \in Seq(Fill) /\ filled' \subseteq Fill
      BY <1>8, FillTyped DEF PaperFill, ServicesTypeOK, Approval
    <2> QED BY <1>8, <2>1 DEF PaperFill, ServicesTypeOK, ExecState, Idle, Brokers
  <1>9. CASE SubmitOk
    <2>1. orders' \in [Brokers -> [Cids -> Order \cup {NoOrder}]]
      BY <1>9, AcceptTyped DEF SubmitOk
    <2>2. late' \subseteq Cids
      BY <1>9 DEF SubmitOk, Contact, ServicesTypeOK
    <2> QED BY <1>9, <2>1, <2>2 DEF SubmitOk, ServicesTypeOK, ExecState
  <1>10. CASE SubmitError
    <2>1. orders' \in [Brokers -> [Cids -> Order \cup {NoOrder}]]
      BY <1>10, AcceptTyped DEF SubmitError, ServicesTypeOK
    <2>2. late' \subseteq Cids
      BY <1>10 DEF SubmitError, Contact, ServicesTypeOK
    <2>3. rejected' \subseteq Approval
      BY <1>10 DEF SubmitError, ServicesTypeOK
    <2>4. exec' = [exec EXCEPT !.broker = "backup"] \/ exec' = Idle
      BY <1>10 DEF SubmitError
    <2>5. /\ exec' \in ExecState
          /\ exec'.at # "idle" => exec'.at = exec.at /\ exec'.job = exec.job
      <3>1. CASE exec' = Idle
        BY <3>1 DEF ExecState, Idle, Brokers
      <3>2. CASE exec' = [exec EXCEPT !.broker = "backup"]
        BY <3>2 DEF ServicesTypeOK, ExecState, Brokers
      <3> QED BY <2>4, <3>1, <3>2
    <2> QED BY <1>10, <2>1, <2>2, <2>3, <2>5 DEF SubmitError, ServicesTypeOK
  <1>11. CASE PollFilled
    <2>1. Status \in Order
      BY <1>11 DEF PollFilled, Executed, Status, ServicesTypeOK, ExecState, NoOrder
    <2>2. fills' \in Seq(Fill) /\ filled' \subseteq Fill
      BY <1>11, <2>1, FillTyped DEF PollFilled, Order
    <2> QED BY <1>11, <2>2 DEF PollFilled, StopPolling, ServicesTypeOK, ExecState, Idle, Brokers
  <1>12. CASE PollDead
    BY <1>12 DEF PollDead, StopPolling, ServicesTypeOK, ExecState, Idle, Brokers
  <1>13. CASE PollOpen
    <2>1. \/ exec' = [exec EXCEPT !.polls = @ + 1] /\ exec.polls + 1 < MaxPolls
          \/ exec' = Idle
      BY <1>13 DEF PollOpen, KeepPolling
    <2>2. /\ exec' \in ExecState
          /\ exec'.at # "idle" => exec'.at = exec.at /\ exec'.job = exec.job
      BY <2>1 DEF ServicesTypeOK, ExecState, Idle, Brokers
    <2> QED BY <1>13, <2>2 DEF PollOpen, ServicesTypeOK
  <1>14. CASE BrokerExecutes
    <2>1. PICK b \in Brokers, c \in Cids :
              /\ orders[b][c].state = "open"
              /\ orders' = [orders EXCEPT ![b][c] =
                    [orders[b][c] EXCEPT !.filled = orders[b][c].filled + 1,
                        !.state = IF orders[b][c].filled + 1 = orders[b][c].qty
                                  THEN "filled" ELSE @]]
              /\ UNCHANGED <<riskVars, demoVars, approvals, approved, execVars, fills, filled, positionVars>>
      BY <1>14 DEF BrokerExecutes
    <2>2. orders[b][c] \in Order
      BY <2>1 DEF ServicesTypeOK, NoOrder
    <2> DEFINE o == [orders[b][c] EXCEPT !.filled = orders[b][c].filled + 1,
                        !.state = IF orders[b][c].filled + 1 = orders[b][c].qty
                                  THEN "filled" ELSE @]
    <2>3. o \in Order
      <3>1. orders[b][c].filled + 1 \in Nat
        BY <2>2 DEF Order
      <3>2. CASE orders[b][c].filled + 1 = orders[b][c].qty
        <4>1. o = [orders[b][c] EXCEPT !.filled = orders[b][c].filled + 1, !.state = "filled"]
          BY <3>2
        <4> QED BY <2>2, <3>1, <4>1 DEF Order
      <3>3. CASE orders[b][c].filled + 1 # orders[b][c].qty
        <4>1. o = [orders[b][c] EXCEPT !.filled = orders[b][c].filled + 1]
          BY <2>2, <3>3 DEF Order
        <4> QED BY <2>2, <3>1, <4>1 DEF Order
      <3> QED BY <3>2, <3>3
    <2>4. orders' = [orders EXCEPT ![b][c] = o]
      BY <2>1
    <2> HIDE DEF o
    <2>5. orders' \in [Brokers -> [Cids -> Order \cup {NoOrder}]]
      BY <2>3, <2>4 DEF ServicesTypeOK
    <2> QED BY <2>1, <2>5 DEF ServicesTypeOK
  <1>15. CASE BrokerKills
    <2>1. PICK b \in Brokers, c \in Cids :
              /\ orders[b][c].state = "open"
              /\ orders' = [orders EXCEPT ![b][c].state = "dead"]
              /\ UNCHANGED <<riskVars, demoVars, approvals, approved, execVars, fills, filled, positionVars>>
      BY <1>15 DEF BrokerKills
    <2>2. orders[b][c] \in Order
      BY <2>1 DEF ServicesTypeOK, NoOrder
    <2>3. orders' \in [Brokers -> [Cids -> Order \cup {NoOrder}]]
      BY <2>1, <2>2 DEF ServicesTypeOK, Order
    <2> QED BY <2>1, <2>3 DEF ServicesTypeOK
  <1>16. CASE HandleFill
    <2>1. Head(fills) \in Fill /\ fills' \in Seq(Fill)
      BY <1>16 DEF HandleFill, ServicesTypeOK
    <2>2. booked' \in [Symbols -> Int]
      BY <1>16, <2>1 DEF HandleFill, ServicesTypeOK, Fill, Signed, BookedSide, SideOf
    <2> QED BY <1>16, <2>1, <2>2 DEF HandleFill, ServicesTypeOK
  <1>17. CASE UNCHANGED vars
    BY <1>17 DEF vars, ServicesTypeOK
  <1> QED BY <1>0, <1>1, <1>2, <1>3, <1>4, <1>5, <1>6, <1>7, <1>8, <1>9, <1>10, <1>11, <1>12,
             <1>13, <1>14, <1>15, <1>16, <1>17 DEF Next, ExecStep

\* Messages, orders and positions of the deployed services stay well-formed.
THEOREM ServicesTypes == Spec => []ServicesTypeOK
  BY ServicesTypeInit, ServicesTypeNext, PTL DEF Spec

(***************************************************************************)
(* The mode toggle                                                         *)
(***************************************************************************)
\* While live nothing is late; with live mode off, an order that is still
\* being submitted was taken before, and only it can have been sent late.
ModeInv ==
    /\ live => late = {}
    /\ exec.at = "submit" => late \subseteq {exec.job.cid}
    /\ late = {} \/ \E c \in Cids : late = {c}

\* No approval taken in paper mode is ever submitted.
LEMMA ModeNext == ServicesTypeOK /\ ModeInv /\ [Next]_vars => ModeInv'
  <1> SUFFICES ASSUME ServicesTypeOK, ModeInv, [Next]_vars
               PROVE  ModeInv'
    OBVIOUS
  <1>1. CASE ToggleMode
    BY <1>1 DEF ToggleMode, ModeInv
  <1>2. CASE TakeApproval
    BY <1>2 DEF TakeApproval, ModeInv, LoadMode, Job, Idle
  <1>3. CASE SubmitOk
    BY <1>3 DEF SubmitOk, Contact, ModeInv, ServicesTypeOK, ExecState
  <1>4. CASE SubmitError
    <2>1. exec' = [exec EXCEPT !.broker = "backup"] \/ exec' = Idle
      BY <1>4 DEF SubmitError
    <2>2. exec'.at = "submit" => exec'.job = exec.job
      BY <2>1 DEF ServicesTypeOK, ExecState, Idle
    <2> QED BY <1>4, <2>2 DEF SubmitError, Contact, ModeInv, ServicesTypeOK
  <1>5. CASE PaperFill \/ PollFilled \/ PollDead
    <2>1. exec' = Idle /\ late' = late /\ live' = live
      <3>1. CASE PaperFill
        BY <3>1 DEF PaperFill
      <3>2. CASE PollFilled
        BY <3>2 DEF PollFilled, StopPolling
      <3>3. CASE PollDead
        BY <3>3 DEF PollDead, StopPolling
      <3> QED BY <1>5, <3>1, <3>2, <3>3
    <2> QED BY <2>1 DEF ModeInv, Idle
  <1>6. CASE PollOpen
    <2>1. exec'.at # "submit"
      BY <1>6 DEF PollOpen, KeepPolling, ServicesTypeOK, ExecState, Idle
    <2> QED BY <1>6, <2>1 DEF PollOpen, ModeInv
  <1>7. CASE UNCHANGED <<live, exec, late>>
    BY <1>7 DEF ModeInv
  <1>8. CASE \/ PublishDemoApproval \/ DemoFill \/ LoseApproval \/ LoseFill \/ ApproveSignal \/ RefuseSignal
             \/ BrokerExecutes \/ BrokerKills \/ HandleFill \/ UNCHANGED vars
    BY <1>7, <1>8 DEF PublishDemoApproval, DemoFill, LoseApproval, LoseFill, ApproveSignal, RefuseSignal,
                      BrokerExecutes, BrokerKills, HandleFill, vars
  <1> QED BY <1>1, <1>2, <1>3, <1>4, <1>5, <1>6, <1>8 DEF Next, ExecStep

\* A set with at most one member.
LEMMA ModeCardinality == ModeInv => PaperStopsNextOrder
  <1>1. ASSUME late = {} PROVE Cardinality(late) <= 1
    <2>1. Cardinality(late) = 0
      BY <1>1, FS_EmptySet
    <2> QED BY <2>1
  <1>2. ASSUME NEW c \in Cids, late = {c} PROVE Cardinality(late) <= 1
    <2>1. Cardinality(late) = 1
      BY <1>2, FS_Singleton
    <2> QED BY <2>1
  <1> QED BY <1>1, <1>2 DEF ModeInv, PaperStopsNextOrder

\* Once the cockpit's switch to paper is stored, hedge-exec sends at most the
\* one order its consumer had already taken, whatever is queued behind it.
THEOREM PaperStops == Spec => []PaperStopsNextOrder
  <1>1. Init => ModeInv
    BY DEF Init, ModeInv, Idle
  <1> QED BY <1>1, ServicesTypes, ModeNext, ModeCardinality, PTL DEF Spec

(***************************************************************************)
(* Fills are true                                                          *)
(*                                                                         *)
(* hedge-exec keys its orders by the correlation id alone, so the result   *)
(* is about signals that carry ids of their own.  The demo's trade chain   *)
(* approves under its signal's id, beside hedge-risk: an approval is       *)
(* known by its id and by whether it names a listed symbol.                *)
(***************************************************************************)
DistinctIds == \A s, z \in Signals : s.cid \in Cids /\ s.cid = z.cid => s = z

Same(x, y) == x.cid = y.cid /\ (x.symbol \in Symbols <=> y.symbol \in Symbols)

IsApproved(a) == \E z \in approved : Same(z, a)
IsFilled(a) == \E f \in filled : f.by # "demo" /\ Same(f, a)

\* hedge-exec has acted on a: rejected it, filled it, or sent it to a broker.
Used(a) == a \in rejected \/ IsFilled(a) \/ AtBrokers(a) # {}

\* The consumer task works on a.
Held(a) == exec.at # "idle" /\ exec.job = a

\* The approvals hedge-exec does not ignore for want of an id.
Named == {a \in approved : a.cid \in Cids}

\* An approval is published once, and only after its signal arrived at
\* hedge-risk or was taken up by the demo's trade chain.
ApprovedOnce ==
    \A a \in Named :
        /\ IF a.symbol \in Symbols THEN \E s \in received : s.cid = a.cid
           ELSE \E s \in demo : s.cid = a.cid
        /\ \A z \in approved : Same(z, a) => z = a

\* What is queued is an approval nobody has acted on, and is queued once.
QueueInv ==
    \A i \in 1..Len(approvals) :
        /\ approvals[i] \in approved
        /\ \A a \in Approval : approvals[i] = a /\ a.cid \in Cids =>
               /\ ~Used(a) /\ ~Held(a)
               /\ \A j \in 1..Len(approvals) : approvals[j] = a => j = i

\* What the consumer holds is approved and not answered yet; the paper route
\* has not been near a broker.
HandInv ==
    exec.at # "idle" =>
        /\ exec.job \in approved /\ exec.job.qty > 0
        /\ exec.job \notin rejected /\ ~IsFilled(exec.job)
        /\ exec.at = "paper" => AtBrokers(exec.job) = {}

\* An order o at a broker is what a asks for, and done exactly when all of it
\* is executed.
OrderFor(o, a) ==
    /\ o \in Order
    /\ o.symbol = a.symbol /\ o.qty = a.qty /\ o.side = SideOf(a.side) /\ o.filled <= o.qty
    /\ o.state = "filled" => o.filled = o.qty
    /\ o.state = "open" => o.filled < o.qty

OrdersInv ==
    \A c \in Cids, b \in Brokers : orders[b][c] # NoOrder =>
        \E a \in approved : a.cid = c /\ OrderFor(orders[b][c], a)

BackedInv ==
    /\ ApprovedOnce /\ QueueInv /\ HandInv /\ OrdersInv
    /\ rejected \subseteq approved
    /\ FillIsBacked

\* The order a broker holds for an approval is the one it asks for.
LEMMA OrderIsFor ==
    ASSUME ServicesTypeOK, BackedInv, NEW a \in Named, NEW b \in Brokers,
           orders[b][a.cid] # NoOrder, a.symbol \in Symbols
    PROVE  OrderFor(orders[b][a.cid], a)
  <1>1. PICK z \in approved : z.cid = a.cid /\ OrderFor(orders[b][a.cid], z)
    BY DEF BackedInv, OrdersInv, Named
  <1>2. z.symbol \in Symbols
    BY <1>1 DEF OrderFor, Order
  <1>3. z = a
    BY <1>1, <1>2 DEF BackedInv, ApprovedOnce, Same
  <1> QED BY <1>1, <1>3

\* Brokers hold nothing for an approval that names no listed symbol.
LEMMA UnlistedNowhere ==
    ASSUME ServicesTypeOK, NEW a \in Named, a.symbol \notin Symbols
    PROVE  AtBrokers(a) = {}
  BY DEF ServicesTypeOK, AtBrokers, Named, Order

\* Announced fills stay true when their closed orders and their approvals are
\* left alone.
LEMMA FillsKept ==
    ASSUME ServicesTypeOK, BackedInv, approved \subseteq approved',
           \A f \in filled' : f.by # "demo" => f \in filled,
           \A a \in Named : IsFilled(a) /\ a \notin rejected =>
               /\ a \notin rejected'
               /\ AtBrokers(a)' = AtBrokers(a)
               /\ \A b \in AtBrokers(a) :
                      orders[b][a.cid].state # "open" => orders'[b][a.cid] = orders[b][a.cid]
    PROVE  FillIsBacked'
  <1> SUFFICES ASSUME NEW f \in filled, f.by # "demo"
               PROVE  \E a \in approved' \ rejected' :
                        /\ f.cid = a.cid /\ f.symbol = a.symbol /\ f.qty = a.qty
                        /\ IF f.by = "paper" THEN AtBrokers(a)' = {}
                           ELSE \E b \in AtBrokers(a)' :
                                    /\ orders'[b][a.cid].filled = a.qty
                                    /\ orders'[b][a.cid].side = SideOf(a.side)
    BY DEF FillIsBacked
  <1>1. PICK a \in approved \ rejected :
            /\ f.cid = a.cid /\ f.symbol = a.symbol /\ f.qty = a.qty
            /\ IF f.by = "paper" THEN AtBrokers(a) = {}
               ELSE \E b \in AtBrokers(a) :
                        /\ orders[b][a.cid].filled = a.qty
                        /\ orders[b][a.cid].side = SideOf(a.side)
    BY DEF BackedInv, FillIsBacked
  <1>2. a \in Named /\ IsFilled(a)
    BY <1>1 DEF ServicesTypeOK, Fill, Named, IsFilled, Same
  <1>3. AtBrokers(a)' = AtBrokers(a) /\ a \in approved' \ rejected'
    BY <1>1, <1>2
  <1>4. CASE f.by = "paper"
    BY <1>1, <1>3, <1>4
  <1>5. CASE f.by # "paper"
    <2>1. PICK b \in AtBrokers(a) :
              orders[b][a.cid].filled = a.qty /\ orders[b][a.cid].side = SideOf(a.side)
      BY <1>1, <1>5
    <2>2. b \in Brokers /\ orders[b][a.cid] # NoOrder /\ a.symbol \in Symbols
      BY <1>2, <2>1 DEF AtBrokers, ServicesTypeOK, Named, Order
    <2>3. OrderFor(orders[b][a.cid], a)
      BY <1>2, <2>2, OrderIsFor
    <2>4. orders[b][a.cid].state # "open"
      BY <2>1, <2>3 DEF OrderFor, Order
    <2>5. orders'[b][a.cid] = orders[b][a.cid]
      BY <1>1, <1>2, <2>1, <2>4
    <2> QED BY <1>1, <1>3, <1>5, <2>1, <2>5
  <1> QED BY <1>4, <1>5

\* What hedge-exec acted on was approved.
LEMMA UsedIsApproved ==
    ASSUME ServicesTypeOK, BackedInv, NEW a \in Approval, Used(a) \/ Held(a), a.cid \in Cids
    PROVE  IsApproved(a)
  <1>1. ASSUME a \in rejected \/ Held(a) PROVE IsApproved(a)
    BY <1>1 DEF BackedInv, HandInv, Held, IsApproved, Same
  <1>2. ASSUME IsFilled(a) PROVE IsApproved(a)
    BY <1>2 DEF BackedInv, FillIsBacked, IsFilled, IsApproved, Same
  <1>3. ASSUME NEW b \in AtBrokers(a) PROVE IsApproved(a)
    <2>1. b \in Brokers /\ orders[b][a.cid] # NoOrder /\ orders[b][a.cid].symbol = a.symbol
      BY <1>3 DEF AtBrokers
    <2>2. PICK z \in approved : z.cid = a.cid /\ OrderFor(orders[b][a.cid], z)
      BY <2>1 DEF BackedInv, OrdersInv
    <2> QED BY <2>1, <2>2 DEF OrderFor, IsApproved, Same
  <1> QED BY <1>1, <1>2, <1>3 DEF Used

\* A new approval, never approved before, joins the queue.
LEMMA ApprovalJoins ==
    ASSUME ServicesTypeOK, BackedInv, NEW a \in Approval, a.cid \in Cids => ~IsApproved(a),
           demo \subseteq demo', received \subseteq received',
           IF a.symbol \in Symbols THEN \E s \in received' : s.cid = a.cid
           ELSE \E s \in demo' : s.cid = a.cid,
           approvals' = Append(approvals, a), approved' = approved \cup {a},
           UNCHANGED <<execVars, brokerVars, fills, filled, positionVars>>
    PROVE  BackedInv'
  <1>1. approvals \in Seq(Approval) /\ approved \subseteq Approval /\ filled \subseteq Fill
    BY DEF ServicesTypeOK
  <1>2. ApprovedOnce'
    <2> SUFFICES ASSUME NEW x \in approved', x.cid \in Cids
                 PROVE  /\ IF x.symbol \in Symbols THEN \E s \in received' : s.cid = x.cid
                           ELSE \E s \in demo' : s.cid = x.cid
                        /\ \A z \in approved' : Same(z, x) => z = x
      BY DEF ApprovedOnce, Named, Same
    <2>1. CASE x = a
      BY <2>1 DEF IsApproved, Same
    <2>2. CASE x \in approved
      <3>1. x \in Named BY <2>2 DEF Named
      <3>2. /\ IF x.symbol \in Symbols THEN \E s \in received : s.cid = x.cid
               ELSE \E s \in demo : s.cid = x.cid
            /\ \A z \in approved : Same(z, x) => z = x
        BY <3>1 DEF BackedInv, ApprovedOnce
      <3>3. ~Same(a, x) BY <2>2 DEF IsApproved, Same
      <3> QED BY <3>2, <3>3
    <2> QED BY <2>1, <2>2
  <1>3. \A x \in Approval : (Used(x)' <=> Used(x)) /\ (Held(x)' <=> Held(x))
    BY DEF Used, Held, IsFilled, AtBrokers, Same
  <1>4. QueueInv'
    <2>1. /\ Len(approvals') = Len(approvals) + 1 /\ Len(approvals) \in Nat
          /\ approvals'[Len(approvals) + 1] = a
          /\ \A i \in 1..Len(approvals) : approvals'[i] = approvals[i] /\ approvals[i] \in approved
      BY <1>1 DEF BackedInv, QueueInv
    <2>2. \A i \in 1..Len(approvals) : a.cid \in Cids => approvals[i] # a
      BY <2>1 DEF IsApproved, Same
    <2>3. ASSUME NEW i \in 1..Len(approvals'), NEW x \in Approval, approvals'[i] = x, x.cid \in Cids
          PROVE  ~Used(x)' /\ ~Held(x)' /\ \A j \in 1..Len(approvals') : approvals'[j] = x => j = i
      <3>1. CASE i = Len(approvals) + 1
        <4>1. x = a BY <2>1, <2>3, <3>1
        <4>2. ~Used(x) /\ ~Held(x) BY <2>3, <4>1, UsedIsApproved
        <4>3. ~Used(x)' /\ ~Held(x)' BY <1>3, <4>2
        <4>4. \A j \in 1..Len(approvals') : approvals'[j] = x => j = i
          BY <2>1, <2>2, <2>3, <3>1, <4>1
        <4> QED BY <4>3, <4>4
      <3>2. CASE i \in 1..Len(approvals)
        <4>1. approvals[i] = x BY <2>1, <2>3, <3>2
        <4>2. ~Used(x) /\ ~Held(x) /\ \A j \in 1..Len(approvals) : approvals[j] = x => j = i
          BY <2>3, <3>2, <4>1 DEF BackedInv, QueueInv
        <4>3. x # a BY <2>2, <2>3, <3>2, <4>1
        <4>4. ~Used(x)' /\ ~Held(x)' BY <1>3, <4>2
        <4>5. \A j \in 1..Len(approvals') : approvals'[j] = x => j = i
          BY <2>1, <4>2, <4>3
        <4> QED BY <4>4, <4>5
      <3> QED BY <2>1, <3>1, <3>2
    <2>4. \A i \in 1..Len(approvals') : approvals'[i] \in approved'
      BY <2>1
    <2> QED BY <2>3, <2>4 DEF QueueInv
  <1>5. HandInv'
    BY DEF BackedInv, HandInv, IsFilled, AtBrokers, Same
  <1>6. OrdersInv'
    BY DEF BackedInv, OrdersInv, OrderFor
  <1>7. FillIsBacked'
    <2>1. \A x \in Named : AtBrokers(x)' = AtBrokers(x) BY DEF AtBrokers
    <2> QED BY <2>1, FillsKept DEF BackedInv
  <1> QED BY <1>2, <1>4, <1>5, <1>6, <1>7 DEF BackedInv

\* The head of the queue leaves it; the rest keeps its place.
LEMMA QueueTail ==
    ASSUME ServicesTypeOK, BackedInv, approvals # <<>>, approvals' = Tail(approvals),
           approved' = approved,
           \A a \in Named : a # Head(approvals) =>
               (Used(a)' <=> Used(a)) /\ (Held(a)' => Held(a))
    PROVE  QueueInv'
  <1>1. /\ approvals \in Seq(Approval) /\ Len(approvals') = Len(approvals) - 1
        /\ Len(approvals) \in Nat \ {0} /\ Head(approvals) = approvals[1]
        /\ \A i \in 1..Len(approvals') : approvals'[i] = approvals[i + 1]
    BY DEF ServicesTypeOK
  <1>2. ASSUME NEW i \in 1..Len(approvals')
        PROVE  /\ i + 1 \in 1..Len(approvals) /\ 1 \in 1..Len(approvals) /\ i + 1 # 1
               /\ approvals'[i] = approvals[i + 1]
    BY <1>1
  <1>3. \A i \in 1..Len(approvals') : approvals'[i] \in approved'
    BY <1>2 DEF BackedInv, QueueInv
  <1>4. ASSUME NEW i \in 1..Len(approvals'), NEW x \in Approval, approvals'[i] = x, x.cid \in Cids
        PROVE  ~Used(x)' /\ ~Held(x)' /\ \A j \in 1..Len(approvals') : approvals'[j] = x => j = i
    <2>1. /\ x \in Named /\ ~Used(x) /\ ~Held(x)
          /\ \A j \in 1..Len(approvals) : approvals[j] = x => j = i + 1
      BY <1>2, <1>3, <1>4 DEF BackedInv, QueueInv, Named
    <2>2. \A j \in 1..Len(approvals') : approvals'[j] = x => j = i
      BY <1>1, <1>2, <2>1
    <2>3. x # Head(approvals)
      BY <1>1, <1>2, <2>1
    <2> QED BY <2>1, <2>2, <2>3
  <1> QED BY <1>3, <1>4 DEF QueueInv

\* Only what hedge-exec has acted on, or has in hand, matters to the queue.
LEMMA QueueStays ==
    ASSUME ServicesTypeOK, BackedInv, UNCHANGED <<approvals, approved>>,
           \A a \in Named : (Used(a)' => Used(a) \/ Held(a)) /\ (Held(a)' => Held(a))
    PROVE  QueueInv'
  <1>1. ASSUME NEW i \in 1..Len(approvals), NEW x \in Approval, approvals[i] = x, x.cid \in Cids
        PROVE  ~Used(x)' /\ ~Held(x)'
    <2>1. x \in Named /\ ~Used(x) /\ ~Held(x) BY <1>1 DEF BackedInv, QueueInv, Named
    <2> QED BY <2>1
  <1> QED BY <1>1 DEF BackedInv, QueueInv

\* Taking the head of the queue: ignored, refused, or in hand.
LEMMA TakeKeeps ==
    ASSUME ServicesTypeOK, BackedInv, TakeApproval
    PROVE  BackedInv'
  <1>1. /\ approvals # <<>> /\ approvals' = Tail(approvals) /\ exec.at = "idle"
        /\ UNCHANGED <<received, demo, approved, orders, filled>>
    BY DEF TakeApproval, Idle
  <1>2. PICK a \in Approval : a = Head(approvals) /\ a = approvals[1] /\ 1 \in 1..Len(approvals)
    BY <1>1 DEF ServicesTypeOK
  <1>3. a \in approved /\ (a.cid \in Cids => ~Used(a))
    BY <1>2 DEF BackedInv, QueueInv
  <1>4. ~Ignored(a) => a.cid \in Cids /\ a.qty > 0
    BY <1>2 DEF Ignored, Approval
  <1>5. /\ exec' = Idle \/ (~Ignored(a) /\ rejected' = rejected
                              /\ exec' \in {Job("submit", a), Job("paper", a)})
        /\ rejected' = rejected \/ (~Ignored(a) /\ exec' = Idle /\ rejected' = rejected \cup {a})
    BY <1>2 DEF TakeApproval
  <1>6. exec'.at # "idle" => exec'.job = a /\ ~Ignored(a) /\ rejected' = rejected
    BY <1>5 DEF Idle, Job
  <1>7. ApprovedOnce' /\ OrdersInv'
    BY <1>1 DEF BackedInv, ApprovedOnce, OrdersInv, Named, Same, OrderFor
  <1>8. QueueInv'
    <2>1. ASSUME NEW x \in Named, x # a
          PROVE  (Used(x)' <=> Used(x)) /\ (Held(x)' => Held(x))
      BY <1>1, <1>5, <1>6, <2>1 DEF Used, Held, IsFilled, AtBrokers, Same
    <2> QED BY <1>1, <1>2, <2>1, QueueTail
  <1>9. HandInv'
    <2>1. exec'.at # "idle" => ~Used(a)
      BY <1>3, <1>4, <1>6
    <2>2. a \notin rejected /\ ~IsFilled(a) /\ AtBrokers(a) = {} =>
              ~IsFilled(a)' /\ AtBrokers(a)' = {}
      BY <1>1 DEF IsFilled, AtBrokers, Same
    <2>3. exec'.at # "idle" =>
              /\ exec'.job = a /\ a \in approved' /\ a.qty > 0 /\ a \notin rejected'
              /\ ~IsFilled(a)' /\ AtBrokers(a)' = {}
      BY <1>1, <1>3, <1>4, <1>6, <2>1, <2>2 DEF Used
    <2> QED BY <2>3 DEF HandInv, IsFilled, AtBrokers, Same
  <1>10. rejected' \subseteq approved'
    BY <1>1, <1>3, <1>5 DEF BackedInv
  <1>11. FillIsBacked'
    <2>1. ASSUME NEW x \in Named, IsFilled(x), x \notin rejected PROVE x \notin rejected'
      BY <1>3, <1>4, <1>5, <2>1 DEF Used
    <2>2. \A x \in Named : AtBrokers(x)' = AtBrokers(x) BY <1>1 DEF AtBrokers
    <2> QED BY <1>1, <2>1, <2>2, FillsKept
  <1> QED BY <1>7, <1>8, <1>9, <1>10, <1>11 DEF BackedInv

\* An order as the broker takes it.
LEMMA IntentIsFor ==
    ASSUME ServicesTypeOK, BackedInv, exec.at = "submit"
    PROVE  OrderFor(Intent(exec.job), exec.job)
  <1>1. /\ exec.job \in Approval /\ exec.job.symbol \in Symbols /\ exec.job.qty > 0
    BY DEF ServicesTypeOK, BackedInv, HandInv
  <1>2. Intent(exec.job) \in Order
    BY <1>1 DEF Intent, Order, Approval, SideOf, Sides
  <1> QED BY <1>1, <1>2 DEF OrderFor, Intent, Approval

\* Submitting the order in hand, whether the broker takes it or not, and
\* whether the answer is an order, a second try or a rejection.
LEMMA SubmitKeeps ==
    ASSUME ServicesTypeOK, BackedInv, SubmitOk \/ SubmitError
    PROVE  BackedInv'
  <1>1. PICK k \in Approval : k = exec.job
    BY DEF SubmitOk, SubmitError, ServicesTypeOK
  <1> DEFINE d == k.cid
  <1>2. /\ exec.at = "submit" /\ exec \in ExecState
        /\ d \in Cids /\ exec.broker \in Brokers /\ k.symbol \in Symbols
        /\ orders \in [Brokers -> [Cids -> Order \cup {NoOrder}]]
        /\ UNCHANGED <<received, demo, approvals, approved, filled>>
    BY <1>1 DEF SubmitOk, SubmitError, ServicesTypeOK, ExecState
  <1>3. orders' = orders \/ orders' = [orders EXCEPT ![exec.broker][d] = Intent(k)]
    BY <1>1 DEF SubmitOk, SubmitError, Accepts
  <1>4. k \in approved /\ k.qty > 0 /\ k \notin rejected /\ ~IsFilled(k) /\ k \in Named
    BY <1>1, <1>2 DEF BackedInv, HandInv, Named
  <1>5. \/ exec' = Idle /\ rejected' \in {rejected, rejected \cup {k}}
        \/ exec'.at # "paper" /\ exec'.job = k /\ rejected' = rejected
    <2>1. CASE SubmitOk
      BY <1>1, <1>2, <2>1 DEF SubmitOk, ExecState
    <2>2. CASE SubmitError
      BY <1>1, <1>2, <2>2 DEF SubmitError, ExecState
    <2> QED BY <2>1, <2>2
  <1>6. OrderFor(Intent(k), k)
    BY <1>1, <1>2, IntentIsFor
  <1>7. \A b \in Brokers, c \in Cids :
            orders'[b][c] = orders[b][c] \/ (c = d /\ orders'[b][c] = Intent(k))
    BY <1>2, <1>3
  <1>8. ASSUME NEW x \in Named, x # k
        PROVE  AtBrokers(x)' = AtBrokers(x) /\ \A b \in AtBrokers(x) : orders'[b][x.cid] = orders[b][x.cid]
    <2>1. CASE x.cid # d
      BY <1>7, <2>1 DEF AtBrokers, Named
    <2>2. CASE x.cid = d
      <3>1. x.symbol \notin Symbols
        BY <1>2, <1>4, <1>8, <2>2 DEF BackedInv, ApprovedOnce, Same, Named
      <3>2. AtBrokers(x) = {}
        BY <3>1, UnlistedNowhere
      <3>3. Intent(k).symbol = k.symbol
        BY <1>6 DEF OrderFor
      <3>4. AtBrokers(x)' = {}
        BY <1>2, <1>7, <2>2, <3>1, <3>2, <3>3 DEF AtBrokers
      <3> QED BY <3>2, <3>4
    <2> QED BY <2>1, <2>2
  <1>9. ApprovedOnce'
    BY <1>2 DEF BackedInv, ApprovedOnce, Named, Same
  <1>10. QueueInv'
    <2>1. ASSUME NEW x \in Named
          PROVE  (Used(x)' => Used(x) \/ Held(x)) /\ (Held(x)' => Held(x))
      <3>1. CASE x = k
        BY <1>1, <1>2, <3>1 DEF Held
      <3>2. CASE x # k
        BY <1>2, <1>5, <1>8, <3>2 DEF Used, Held, IsFilled, Same, Idle
      <3> QED BY <3>1, <3>2
    <2> QED BY <1>2, <2>1, QueueStays
  <1>11. HandInv'
    <2>1. ~IsFilled(k)' BY <1>2, <1>4 DEF IsFilled, Same
    <2>2. exec'.at # "idle" =>
              exec'.job = k /\ exec'.at # "paper" /\ k \in approved' /\ k.qty > 0 /\ k \notin rejected'
      BY <1>2, <1>4, <1>5 DEF Idle
    <2> QED BY <2>1, <2>2 DEF HandInv, IsFilled, Same
  <1>12. OrdersInv'
    <2> SUFFICES ASSUME NEW c \in Cids, NEW b \in Brokers, orders'[b][c] # NoOrder
                 PROVE  \E a \in approved' : a.cid = c /\ OrderFor(orders'[b][c], a)
      BY DEF OrdersInv, OrderFor
    <2>1. CASE orders'[b][c] = orders[b][c]
      BY <1>2, <2>1 DEF BackedInv, OrdersInv
    <2>2. CASE orders'[b][c] # orders[b][c]
      <3>1. orders'[b][c] = Intent(k) /\ c = d
        BY <1>7, <2>2
      <3> QED BY <1>2, <1>4, <1>6, <3>1
    <2> QED BY <2>1, <2>2
  <1>13. rejected' \subseteq approved'
    BY <1>2, <1>4, <1>5 DEF BackedInv
  <1>14. FillIsBacked'
    <2>1. \A x \in Named : IsFilled(x) /\ x \notin rejected =>
              /\ x \notin rejected' /\ AtBrokers(x)' = AtBrokers(x)
              /\ \A b \in AtBrokers(x) : orders'[b][x.cid] = orders[b][x.cid]
      BY <1>4, <1>5, <1>8
    <2> QED BY <1>2, <2>1, FillsKept
  <1> QED BY <1>9, <1>10, <1>11, <1>12, <1>13, <1>14 DEF BackedInv

\* The poll that saw a dead order, or none yet: no fill.
LEMMA PollKeeps ==
    ASSUME ServicesTypeOK, BackedInv, PollDead \/ PollOpen
    PROVE  BackedInv'
  <1>1. PICK k \in Approval : k = exec.job
    BY DEF PollDead, PollOpen, ServicesTypeOK
  <1>2. /\ exec.at = "poll" /\ exec \in ExecState
        /\ UNCHANGED <<received, demo, approvals, approved, filled, orders>>
    BY DEF PollDead, PollOpen, ServicesTypeOK
  <1>3. k \in approved /\ k.qty > 0 /\ k \notin rejected /\ ~IsFilled(k)
    BY <1>1, <1>2 DEF BackedInv, HandInv
  <1>4. \/ exec' = Idle /\ rejected' \in {rejected, rejected \cup {k}}
        \/ exec'.at = "poll" /\ exec'.job = k /\ rejected' = rejected
    <2>1. CASE PollDead
      BY <1>1, <2>1 DEF PollDead, StopPolling
    <2>2. CASE PollOpen
      <3>1. rejected' = rejected /\ (exec' = Idle \/ exec' = [exec EXCEPT !.polls = @ + 1])
        BY <2>2 DEF PollOpen, KeepPolling
      <3> QED BY <1>1, <1>2, <3>1 DEF ExecState
    <2> QED BY <2>1, <2>2
  <1>5. ApprovedOnce' /\ OrdersInv'
    BY <1>2 DEF BackedInv, ApprovedOnce, OrdersInv, Named, Same, OrderFor
  <1>6. QueueInv'
    <2>1. ASSUME NEW x \in Named
          PROVE  (Used(x)' => Used(x) \/ Held(x)) /\ (Held(x)' => Held(x))
      BY <1>1, <1>2, <1>4 DEF Used, Held, IsFilled, AtBrokers, Idle, Same
    <2> QED BY <1>2, <2>1, QueueStays
  <1>7. HandInv'
    <2>1. ~IsFilled(k)' BY <1>2, <1>3 DEF IsFilled, Same
    <2>2. exec'.at # "idle" =>
              exec'.job = k /\ exec'.at # "paper" /\ k \in approved' /\ k.qty > 0 /\ k \notin rejected'
      BY <1>2, <1>3, <1>4 DEF Idle
    <2> QED BY <2>1, <2>2 DEF HandInv, IsFilled, Same
  <1>8. rejected' \subseteq approved'
    BY <1>2, <1>3, <1>4 DEF BackedInv
  <1>9. FillIsBacked'
    <2>1. \A x \in Named : IsFilled(x) /\ x \notin rejected =>
              x \notin rejected' /\ AtBrokers(x)' = AtBrokers(x)
      BY <1>2, <1>3, <1>4 DEF AtBrokers
    <2> QED BY <1>2, <2>1, FillsKept
  <1> QED BY <1>5, <1>6, <1>7, <1>8, <1>9 DEF BackedInv

\* A fill for the job in hand: it is backed if the job's own orders back it.
LEMMA FillJoins ==
    ASSUME ServicesTypeOK, BackedInv, exec.at # "idle", NEW q \in Nat,
           NEW p \in {"paper", "live"}, PublishFill(q, p), q = exec.job.qty,
           IF p = "paper" THEN AtBrokers(exec.job) = {}
           ELSE \E b \in AtBrokers(exec.job) :
                    /\ orders[b][exec.job.cid].filled = q
                    /\ orders[b][exec.job.cid].side = SideOf(exec.job.side),
           exec' = Idle,
           UNCHANGED <<received, demo, approvals, approved, rejected, orders>>
    PROVE  BackedInv'
  <1>1. PICK k \in Approval : k = exec.job /\ k.cid \in Cids
    BY DEF ServicesTypeOK
  <1> DEFINE g == [cid |-> k.cid, symbol |-> k.symbol, qty |-> q, by |-> p]
  <1>2. filled' = filled \cup {g}
    BY <1>1 DEF PublishFill
  <1>3. k \in approved \ rejected /\ k \in Named
    BY <1>1 DEF BackedInv, HandInv, Named
  <1>4. ApprovedOnce' /\ OrdersInv' /\ rejected' \subseteq approved'
    BY DEF BackedInv, ApprovedOnce, OrdersInv, Named, Same, OrderFor
  <1>5. QueueInv'
    <2>1. ASSUME NEW x \in Named
          PROVE  (Used(x)' => Used(x) \/ Held(x)) /\ (Held(x)' => Held(x))
      <3>1. IsFilled(x)' => IsFilled(x) \/ Same(g, x)
        BY <1>2 DEF IsFilled, Same
      <3>2. Same(g, x) => x = k
        BY <1>3 DEF BackedInv, ApprovedOnce, Same
      <3>3. AtBrokers(x)' = AtBrokers(x) BY DEF AtBrokers
      <3> QED BY <1>1, <3>1, <3>2, <3>3 DEF Used, Held, Idle
    <2> QED BY <2>1, QueueStays
  <1>6. HandInv'
    BY DEF HandInv, Idle
  <1>7. FillIsBacked'
    <2> SUFFICES ASSUME NEW f \in filled', f.by # "demo"
                 PROVE  \E a \in approved \ rejected :
                          /\ f.cid = a.cid /\ f.symbol = a.symbol /\ f.qty = a.qty
                          /\ IF f.by = "paper" THEN AtBrokers(a) = {}
                             ELSE \E b \in AtBrokers(a) :
                                      /\ orders[b][a.cid].filled = a.qty
                                      /\ orders[b][a.cid].side = SideOf(a.side)
      BY DEF FillIsBacked, AtBrokers
    <2>1. CASE f \in filled
      BY <2>1 DEF BackedInv, FillIsBacked
    <2>2. CASE f = g
      <3>1. f.cid = k.cid /\ f.symbol = k.symbol /\ f.qty = k.qty /\ f.by = p
        BY <1>1, <2>2
      <3>2. IF f.by = "paper" THEN AtBrokers(k) = {}
            ELSE \E b \in AtBrokers(k) :
                     /\ orders[b][k.cid].filled = k.qty
                     /\ orders[b][k.cid].side = SideOf(k.side)
        BY <1>1, <3>1
      <3> QED BY <1>3, <3>1, <3>2
    <2> QED BY <1>2, <2>1, <2>2
  <1> QED BY <1>4, <1>5, <1>6, <1>7 DEF BackedInv

\* route_paper fills what no broker has seen.
LEMMA PaperFillKeeps ==
    ASSUME ServicesTypeOK, BackedInv, PaperFill
    PROVE  BackedInv'
  <1>1. /\ exec.at = "paper" /\ PublishFill(exec.job.qty, "paper") /\ exec' = Idle
        /\ UNCHANGED <<received, demo, approvals, approved, rejected, orders>>
    BY DEF PaperFill
  <1>2. exec.job.qty \in Nat /\ AtBrokers(exec.job) = {}
    BY <1>1 DEF ServicesTypeOK, Approval, BackedInv, HandInv
  <1> QED BY <1>1, <1>2, FillJoins

\* poll_fill announces the quantity of an order that is executed in full.
LEMMA PollFilledKeeps ==
    ASSUME ServicesTypeOK, BackedInv, PollFilled
    PROVE  BackedInv'
  <1>1. /\ exec.at = "poll" /\ PublishFill(Status.filled, "live") /\ exec' = Idle
        /\ Status.state = "filled"
        /\ UNCHANGED <<received, demo, approvals, approved, rejected, orders>>
    BY DEF PollFilled, StopPolling, Executed
  <1>2. exec.job.cid \in Cids /\ exec.broker \in Brokers /\ exec.job \in Named
        /\ exec.job.symbol \in Symbols
    BY <1>1 DEF ServicesTypeOK, ExecState, BackedInv, HandInv, Named
  <1>3. Status # NoOrder /\ Status = orders[exec.broker][exec.job.cid]
    BY <1>1 DEF Status, NoOrder
  <1>4. OrderFor(Status, exec.job)
    BY <1>2, <1>3, OrderIsFor
  <1>5. exec.broker \in AtBrokers(exec.job)
    BY <1>2, <1>3, <1>4 DEF AtBrokers, OrderFor
  <1>6. Status.filled \in Nat /\ Status.filled = exec.job.qty /\ Status.side = SideOf(exec.job.side)
    BY <1>1, <1>4 DEF OrderFor, Order
  <1> QED BY <1>1, <1>3, <1>5, <1>6, FillJoins

\* A broker executes or kills an open order: what was announced is closed.
LEMMA BrokerKeeps ==
    ASSUME ServicesTypeOK, BackedInv, NEW b \in Brokers, NEW c \in Cids, NEW o \in Order,
           orders[b][c].state = "open", orders' = [orders EXCEPT ![b][c] = o],
           o.symbol = orders[b][c].symbol,
           \A a \in approved : OrderFor(orders[b][c], a) => OrderFor(o, a),
           UNCHANGED <<riskVars, demoVars, approvals, approved, execVars, fills, filled,
                       positionVars>>
    PROVE  BackedInv'
  <1>1. orders \in [Brokers -> [Cids -> Order \cup {NoOrder}]] /\ NoOrder \notin Order
    BY DEF ServicesTypeOK, NoOrder, Order
  <1>2. orders[b][c] # NoOrder
    BY DEF NoOrder
  <1>3. \A x \in Brokers, y \in Cids :
            /\ orders'[x][y] = IF x = b /\ y = c THEN o ELSE orders[x][y]
            /\ orders'[x][y] = NoOrder <=> orders[x][y] = NoOrder
            /\ orders'[x][y].symbol = orders[x][y].symbol
    BY <1>1, <1>2
  <1>4. \A a \in Named : AtBrokers(a)' = AtBrokers(a)
    BY <1>3 DEF AtBrokers, Named
  <1>5. ApprovedOnce' /\ rejected' \subseteq approved'
    BY DEF BackedInv, ApprovedOnce, Named, Same
  <1>6. QueueInv'
    <2>1. ASSUME NEW y \in Named
          PROVE  (Used(y)' => Used(y) \/ Held(y)) /\ (Held(y)' => Held(y))
      BY <1>4 DEF Used, Held, IsFilled, Same
    <2> QED BY <2>1, QueueStays
  <1>7. HandInv'
    <2>1. exec.at # "idle" => exec.job.cid \in Cids
      BY DEF ServicesTypeOK
    <2>2. exec.at # "idle" => AtBrokers(exec.job)' = AtBrokers(exec.job)
      BY <1>3, <2>1 DEF AtBrokers
    <2> QED BY <2>2 DEF BackedInv, HandInv, IsFilled, Same
  <1>8. OrdersInv'
    <2> SUFFICES ASSUME NEW y \in Cids, NEW x \in Brokers, orders'[x][y] # NoOrder
                 PROVE  \E a \in approved : a.cid = y /\ OrderFor(orders'[x][y], a)
      BY DEF OrdersInv, OrderFor
    <2>1. PICK a \in approved : a.cid = y /\ OrderFor(orders[x][y], a)
      BY <1>3 DEF BackedInv, OrdersInv
    <2> QED BY <1>3, <2>1
  <1>9. FillIsBacked'
    <2>1. ASSUME NEW a \in Named, NEW x \in AtBrokers(a), orders[x][a.cid].state # "open"
          PROVE  orders'[x][a.cid] = orders[x][a.cid]
      BY <1>3, <2>1 DEF AtBrokers, Named
    <2> QED BY <1>4, <2>1, FillsKept
  <1> QED BY <1>5, <1>6, <1>7, <1>8, <1>9 DEF BackedInv

\* A decision of the demo's trade chain: nothing, or an approval under the
\* signal's id.
LEMMA DemoApproves ==
    ASSUME ServicesTypeOK, PublishDemoApproval
    PROVE  \E s \in DemoSignals \ demo :
              /\ demo' = demo \cup {s} /\ s.cid \in Cids /\ s \in Signals
              /\ UNCHANGED <<received, execVars, brokerVars, fills, filled, positionVars>>
              /\ \/ UNCHANGED <<chain, approvals, approved>>
                 \/ \E a \in Approval :
                        /\ a.cid = s.cid /\ a.symbol \notin Symbols
                        /\ approvals' = Append(approvals, a) /\ approved' = approved \cup {a}
                        /\ chain' # NoChain /\ chain'.sig = s /\ chain'.filled = 0
  <1> USE ServicesAssumption
  <1>1. PICK s \in DemoSignals \ demo :
            /\ demo' = demo \cup {s}
            /\ \/ UNCHANGED <<chain, approvals, approved>>
               \/ \E q \in DemoQuantities, n \in 1 .. DemoFills :
                      /\ chain' = [sig |-> s, qty |-> q, n |-> n, left |-> n, filled |-> 0]
                      /\ approvals' = Append(approvals, DemoApproval(s, q))
                      /\ approved' = approved \cup {DemoApproval(s, q)}
            /\ UNCHANGED <<riskVars, execVars, brokerVars, fills, filled, positionVars>>
    BY DEF PublishDemoApproval
  <1>2. s.cid \in Cids /\ s \in Signals
    OBVIOUS
  <1>3. ASSUME NEW q \in DemoQuantities, NEW n \in 1 .. DemoFills,
               chain' = [sig |-> s, qty |-> q, n |-> n, left |-> n, filled |-> 0],
               approvals' = Append(approvals, DemoApproval(s, q)),
               approved' = approved \cup {DemoApproval(s, q)}
        PROVE  \E a \in Approval :
                   /\ a.cid = s.cid /\ a.symbol \notin Symbols
                   /\ approvals' = Append(approvals, a) /\ approved' = approved \cup {a}
                   /\ chain' # NoChain /\ chain'.sig = s /\ chain'.filled = 0
    <2>1. DemoApproval(s, q) \in Approval /\ DemoApproval(s, q).cid = s.cid
          /\ DemoApproval(s, q).symbol \notin Symbols
      BY <1>2 DEF DemoApproval, Approval, Sides
    <2>2. chain'.left = n /\ chain'.sig = s /\ chain'.filled = 0
      BY <1>3
    <2>3. chain' # NoChain BY <2>2 DEF NoChain
    <2> QED BY <1>3, <2>1, <2>2, <2>3
  <1> QED BY <1>1, <1>2, <1>3

\* hedge-risk approves a signal it has not seen.
LEMMA RiskApproves ==
    ASSUME ServicesTypeOK, ApproveSignal
    PROVE  \E s \in Signals \ received, a \in Approval :
              /\ a.cid = s.cid /\ a.symbol \in Symbols
              /\ approvals' = Append(approvals, a) /\ approved' = approved \cup {a}
              /\ received' = received \cup {s}
              /\ UNCHANGED <<demoVars, execVars, brokerVars, fills, filled, positionVars>>
  <1> USE ServicesAssumption
  <1>1. PICK s \in Signals \ received, q \in Quantities :
            /\ s.symbol \in Symbols
            /\ approvals' = Append(approvals, DecisionPayload(s, q))
            /\ approved' = approved \cup {DecisionPayload(s, q)}
            /\ received' = received \cup {s}
            /\ UNCHANGED <<demoVars, execVars, brokerVars, fills, filled, positionVars>>
    BY DEF ApproveSignal
  <1>2. /\ DecisionPayload(s, q) \in Approval /\ DecisionPayload(s, q).cid = s.cid
        /\ DecisionPayload(s, q).symbol = s.symbol
    BY DecisionTyped DEF DecisionPayload
  <1> QED BY <1>1, <1>2

\* With ids of their own, what either of them approves is new.
LEMMA ApprovalIsNew ==
    ASSUME DistinctIds, ServicesTypeOK, BackedInv, NEW s \in Signals, NEW a \in Approval,
           a.cid = s.cid, a.cid \in Cids,
           a.symbol \in Symbols => s \notin received,
           a.symbol \notin Symbols => s \notin demo
    PROVE  ~IsApproved(a)
  <1> SUFFICES ASSUME NEW z \in approved, Same(z, a) PROVE FALSE
    BY DEF IsApproved
  <1>1. z \in Named BY DEF Same, Named
  <1>2. IF z.symbol \in Symbols THEN \E x \in received : x.cid = z.cid
        ELSE \E x \in demo : x.cid = z.cid
    BY <1>1 DEF BackedInv, ApprovedOnce
  <1>3. received \subseteq Signals /\ demo \subseteq Signals
    BY ServicesAssumption DEF ServicesTypeOK
  <1> QED BY <1>2, <1>3 DEF DistinctIds, Same

\* Every action of every service keeps the announced fills true.
LEMMA BackedNext ==
    ASSUME DistinctIds, ServicesTypeOK, BackedInv, [Next]_vars
    PROVE  BackedInv'
  <1> USE ServicesAssumption
  <1>1. ASSUME received \subseteq received', demo \subseteq demo',
               UNCHANGED <<approvals, approved, exec, rejected, orders>>,
               filled \subseteq filled', \A f \in filled' : f.by # "demo" => f \in filled
        PROVE  BackedInv'
    <2>1. ApprovedOnce'
      <3> SUFFICES ASSUME NEW x \in approved, x.cid \in Cids
                   PROVE  /\ IF x.symbol \in Symbols THEN \E s \in received' : s.cid = x.cid
                             ELSE \E s \in demo' : s.cid = x.cid
                          /\ \A z \in approved : Same(z, x) => z = x
        BY <1>1 DEF ApprovedOnce, Named, Same
      <3>1. /\ IF x.symbol \in Symbols THEN \E s \in received : s.cid = x.cid
               ELSE \E s \in demo : s.cid = x.cid
            /\ \A z \in approved : Same(z, x) => z = x
        BY DEF BackedInv, ApprovedOnce, Named
      <3> QED BY <1>1, <3>1
    <2>2. \A a \in Approval : /\ IsFilled(a)' <=> IsFilled(a)
                              /\ Used(a)' <=> Used(a)
                              /\ Held(a)' <=> Held(a)
                              /\ AtBrokers(a)' = AtBrokers(a)
      BY <1>1 DEF IsFilled, Used, Held, AtBrokers, Same
    <2>3. QueueInv'
      BY <1>1, <2>2, QueueStays DEF ServicesTypeOK, Named
    <2>4. HandInv'
      <3>1. ASSUME exec.at # "idle", IsFilled(exec.job)' PROVE IsFilled(exec.job)
        BY <1>1, <3>1 DEF IsFilled, Same
      <3>2. AtBrokers(exec.job)' = AtBrokers(exec.job) BY <1>1 DEF AtBrokers
      <3> QED BY <1>1, <3>1, <3>2 DEF BackedInv, HandInv
    <2>5. OrdersInv' /\ rejected' \subseteq approved'
      BY <1>1 DEF BackedInv, OrdersInv, OrderFor
    <2>6. FillIsBacked'
      <3>1. \A a \in Named : AtBrokers(a)' = AtBrokers(a) BY <1>1 DEF AtBrokers
      <3> QED BY <1>1, <3>1, FillsKept
    <2> QED BY <2>1, <2>3, <2>4, <2>5, <2>6 DEF BackedInv
  <1>2. CASE PublishDemoApproval
    <2>1. PICK s \in DemoSignals \ demo :
              /\ demo' = demo \cup {s} /\ s.cid \in Cids /\ s \in Signals
              /\ UNCHANGED <<received, execVars, brokerVars, fills, filled, positionVars>>
              /\ \/ UNCHANGED <<chain, approvals, approved>>
                 \/ \E a \in Approval :
                        /\ a.cid = s.cid /\ a.symbol \notin Symbols
                        /\ approvals' = Append(approvals, a) /\ approved' = approved \cup {a}
      BY <1>2, DemoApproves
    <2>2. CASE UNCHANGED <<chain, approvals, approved>>
      BY <1>1, <2>1, <2>2
    <2>3. ASSUME NEW a \in Approval, a.cid = s.cid, a.symbol \notin Symbols,
                 approvals' = Append(approvals, a), approved' = approved \cup {a}
          PROVE  BackedInv'
      <3>1. ~IsApproved(a) BY <2>1, <2>3, ApprovalIsNew
      <3> QED BY <2>1, <2>3, <3>1, ApprovalJoins
    <2> QED BY <2>1, <2>2, <2>3
  <1>3. CASE DemoFill
    <2>1. UNCHANGED <<received, demo, approvals, approved, exec, rejected, orders>>
      BY <1>3 DEF DemoFill
    <2>2. filled' = filled \/ \E f \in Fill : f.by = "demo" /\ filled' = filled \cup {f}
      BY <1>3, DemoFillTyped
    <2> QED BY <1>1, <2>1, <2>2
  <1>4. CASE ApproveSignal
    <2>1. PICK s \in Signals \ received, a \in Approval :
              /\ a.cid = s.cid /\ a.symbol \in Symbols
              /\ approvals' = Append(approvals, a) /\ approved' = approved \cup {a}
              /\ received' = received \cup {s}
              /\ UNCHANGED <<demoVars, execVars, brokerVars, fills, filled, positionVars>>
      BY <1>4, RiskApproves
    <2>2. a.cid \in Cids => ~IsApproved(a) BY <2>1, ApprovalIsNew
    <2> QED BY <2>1, <2>2, ApprovalJoins
  <1>5. CASE LoseApproval
    <2>1. /\ approvals # <<>> /\ approvals' = Tail(approvals)
          /\ UNCHANGED <<received, demo, approved, exec, rejected, orders, filled>>
      BY <1>5 DEF LoseApproval
    <2>2. \A a \in Named : (Used(a)' <=> Used(a)) /\ (Held(a)' <=> Held(a))
      BY <2>1 DEF Used, Held, IsFilled, AtBrokers, Same
    <2>3. QueueInv'
      BY <2>1, <2>2, QueueTail
    <2>4. ApprovedOnce' /\ OrdersInv' /\ HandInv' /\ rejected' \subseteq approved'
      BY <2>1 DEF BackedInv, ApprovedOnce, OrdersInv, HandInv, AtBrokers, Named, IsFilled, Same,
                  OrderFor
    <2>5. FillIsBacked'
      <3>1. \A a \in Named : AtBrokers(a)' = AtBrokers(a) BY <2>1 DEF AtBrokers
      <3> QED BY <2>1, <3>1, FillsKept
    <2> QED BY <2>3, <2>4, <2>5 DEF BackedInv
  <1>6. CASE RefuseSignal
    <2>1. received \subseteq received'
          /\ UNCHANGED <<demo, approvals, approved, exec, rejected, orders, filled>>
      BY <1>6 DEF RefuseSignal
    <2> QED BY <1>1, <2>1
  <1>7. CASE ToggleMode \/ LoseFill \/ HandleFill \/ UNCHANGED vars
    <2>1. UNCHANGED <<received, demo, approvals, approved, exec, rejected, orders, filled>>
      BY <1>7 DEF ToggleMode, LoseFill, HandleFill, vars
    <2> QED BY <1>1, <2>1
  <1>8. CASE BrokerExecutes
    <2>1. PICK b \in Brokers, c \in Cids :
              /\ orders[b][c].state = "open"
              /\ orders' = [orders EXCEPT ![b][c] =
                    [orders[b][c] EXCEPT !.filled = orders[b][c].filled + 1,
                        !.state = IF orders[b][c].filled + 1 = orders[b][c].qty
                                  THEN "filled" ELSE @]]
              /\ UNCHANGED <<riskVars, demoVars, approvals, approved, execVars, fills, filled,
                             positionVars>>
      BY <1>8 DEF BrokerExecutes
    <2> DEFINE x == orders[b][c]
               n == x.filled + 1
               o == [x EXCEPT !.filled = n, !.state = IF n = x.qty THEN "filled" ELSE @]
    <2>2. x \in Order /\ n \in Nat
      BY <2>1 DEF ServicesTypeOK, NoOrder, Order
    <2>3. /\ o \in Order /\ o.qty = x.qty /\ o.side = x.side /\ o.filled = n
          /\ o.symbol = x.symbol
          /\ o.state = IF n = x.qty THEN "filled" ELSE "open"
      BY <2>1, <2>2 DEF Order
    <2>4. \A a \in approved : OrderFor(x, a) => OrderFor(o, a)
      <3> HIDE DEF o
      <3> QED BY <2>1, <2>2, <2>3 DEF OrderFor, Order
    <2>5. orders' = [orders EXCEPT ![b][c] = o]
      BY <2>1
    <2> HIDE DEF o
    <2> QED BY <2>1, <2>3, <2>4, <2>5, BrokerKeeps
  <1>9. CASE BrokerKills
    <2>1. PICK b \in Brokers, c \in Cids :
              /\ orders[b][c].state = "open"
              /\ orders' = [orders EXCEPT ![b][c].state = "dead"]
              /\ UNCHANGED <<riskVars, demoVars, approvals, approved, execVars, fills, filled,
                             positionVars>>
      BY <1>9 DEF BrokerKills
    <2> DEFINE o == [orders[b][c] EXCEPT !.state = "dead"]
    <2>2. orders[b][c] \in Order
      BY <2>1 DEF ServicesTypeOK, NoOrder
    <2>3. /\ o \in Order /\ o.symbol = orders[b][c].symbol
          /\ \A a \in approved : OrderFor(orders[b][c], a) => OrderFor(o, a)
      BY <2>2 DEF Order, OrderFor
    <2>4. orders' = [orders EXCEPT ![b][c] = o]
      BY <2>1
    <2> HIDE DEF o
    <2> QED BY <2>1, <2>3, <2>4, BrokerKeeps
  <1> QED BY <1>2, <1>3, <1>4, <1>5, <1>6, <1>7, <1>8, <1>9, TakeKeeps, SubmitKeeps, PollKeeps,
             PaperFillKeeps, PollFilledKeeps DEF Next, ExecStep

\* When every signal has an id of its own, a fill hedge-exec announces is for an
\* approval, of its symbol and full quantity, never beside a rejection; a paper
\* fill is at no broker and a live one was executed in full on the approved
\* side, through failovers, lost answers and repeated polls, and also when the
\* demo's trade chain approves and fills the same id.
THEOREM FillsBacked ==
    ASSUME DistinctIds
    PROVE  Spec => []FillIsBacked
  <1>1. Init => BackedInv
    BY DEF Init, BackedInv, ApprovedOnce, QueueInv, HandInv, OrdersInv, FillIsBacked, Named,
           Idle
  <1>2. ServicesTypeOK /\ BackedInv /\ [Next]_vars => BackedInv'
    BY BackedNext
  <1>3. BackedInv => FillIsBacked
    BY DEF BackedInv
  <1> QED BY <1>1, <1>2, <1>3, ServicesTypes, PTL DEF Spec

(***************************************************************************)
(* The book stays within what was approved and announced                   *)
(***************************************************************************)
Counted(S) == IsFiniteSet(S) /\ \A x \in S : x.qty \in Nat
QtyOf(S) == [a \in S |-> a.qty]

\* The fold behind the sum of the quantities, as the equation it solves.
AddsUp(S, g) ==
    g = [t \in SUBSET S |->
            IF t = {} THEN 0
            ELSE (CHOOSE x \in t : TRUE).qty + g[t \ {CHOOSE x \in t : TRUE}]]

\* The sum of the quantities of a set of messages is a sum.
LEMMA QtySumIs ==
    ASSUME NEW S, Counted(S)
    PROVE  \E g : SumSolution(S, QtyOf(S), g) /\ QtySum(S) = g[S]
<1> DEFINE g == CHOOSE h : AddsUp(S, h)
<1>1. QtySum(S) = g[S] BY DEF QtySum, MapThenSumSet, MapThenFoldSet, AddsUp
<1>2. QtyOf(S) \in [S -> Int] /\ \A a \in S : QtyOf(S)[a] = a.qty BY DEF QtyOf, Counted
<1>3. PICK h : SumSolution(S, QtyOf(S), h) BY <1>2, SumExists DEF Counted
<1>4. AddsUp(S, h)
  <2>1. ASSUME NEW t \in SUBSET S, t # {}
        PROVE  h[t] = (CHOOSE x \in t : TRUE).qty + h[t \ {CHOOSE x \in t : TRUE}]
    <3>1. (CHOOSE x \in t : TRUE) \in S BY <2>1
    <3> QED BY <1>2, <1>3, <2>1, <3>1 DEF SumSolution
  <2>2. h[{}] = 0 /\ h \in [SUBSET S -> Int] BY <1>3 DEF SumSolution
  <2> QED BY <2>1, <2>2 DEF AddsUp
<1>5. AddsUp(S, g) BY <1>4
<1> HIDE DEF g
<1>6. \A t \in SUBSET S : g[t] = IF t = {} THEN 0
          ELSE (CHOOSE x \in t : TRUE).qty + g[t \ {CHOOSE x \in t : TRUE}]
  BY <1>5 DEF AddsUp
<1> DEFINE T == {t \in SUBSET S : g[t] = h[t]}
<1>7. {} \in T BY <1>3, <1>6 DEF SumSolution
<1>8. ASSUME NEW t \in SUBSET S, t # {}, \A x \in t : t \ {x} \in T PROVE t \in T
  <2> DEFINE p == CHOOSE x \in t : TRUE
  <2>1. p \in t /\ g[t] = p.qty + g[t \ {p}] BY <1>6, <1>8
  <2>2. h[t] = QtyOf(S)[p] + h[t \ {p}] BY <1>3, <1>8 DEF SumSolution
  <2> HIDE DEF p
  <2>3. g[t \ {p}] = h[t \ {p}] /\ p.qty = QtyOf(S)[p] BY <1>2, <1>8, <2>1
  <2> QED BY <2>1, <2>2, <2>3
<1>9. S \in T
  <2> HIDE DEF T
  <2>1. SUBSET S \subseteq T BY <1>7, <1>8, SubsetInduction DEF Counted
  <2> QED BY <2>1
<1>10. g[S] = h[S] BY <1>9
<1> QED BY <1>1, <1>3, <1>10

\* One message more adds its quantity; a part never exceeds the whole.
LEMMA QtySumSteps ==
    ASSUME NEW S, Counted(S)
    PROVE  /\ QtySum(S) \in Int
           /\ QtySum({}) = 0
           /\ \A a \in S : QtySum(S) = a.qty + QtySum(S \ {a})
           /\ \A R \in SUBSET S : QtySum(R) <= QtySum(S)
<1>1. PICK g : SumSolution(S, QtyOf(S), g) /\ QtySum(S) = g[S] BY QtySumIs
<1>2. QtySum(S) \in Int /\ g[{}] = 0 BY <1>1 DEF SumSolution
<1>3. ASSUME NEW R \in SUBSET S PROVE QtySum(R) = g[R]
  <2>1. Counted(R) BY FS_Subset DEF Counted
  <2>2. PICK h : SumSolution(R, QtyOf(R), h) /\ QtySum(R) = h[R] BY <2>1, QtySumIs
  <2>3. \A x \in R : QtyOf(R)[x] = QtyOf(S)[x] BY DEF QtyOf
  <2>4. \A t \in SUBSET R : h[t] = g[t] BY <1>1, <2>1, <2>2, <2>3, SumUnique DEF Counted
  <2> QED BY <2>2, <2>4
<1>4. \A a \in S : QtyOf(S)[a] = a.qty BY DEF QtyOf
<1>5. ASSUME NEW a \in S PROVE QtySum(S) = a.qty + QtySum(S \ {a})
  <2>1. g[S] = QtyOf(S)[a] + g[S \ {a}] BY <1>1, SumAnyOrder DEF Counted
  <2>2. QtySum(S \ {a}) = g[S \ {a}] BY <1>3
  <2> QED BY <1>1, <1>4, <2>1, <2>2
<1>6. ASSUME NEW R \in SUBSET S PROVE QtySum(R) <= QtySum(S)
  <2>1. QtyOf(S) \in [S -> Nat] BY DEF QtyOf, Counted
  <2>2. g[R] <= g[S] BY <1>1, <2>1, SumGrows DEF Counted
  <2> QED BY <1>1, <1>3, <2>2
<1>7. QtySum({}) = 0 BY <1>2, <1>3
<1> QED BY <1>2, <1>5, <1>6, <1>7

\* The approvals of a symbol whose fill hedge-position has handled, and the
\* fills of the demo's trade chain that it has handled.
Accounted(s) == {a \in approved : a.symbol = s /\ \E f \in handled : f.by # "demo" /\ Same(f, a)}
MadeUp(s) == {f \in handled : f.by = "demo" /\ f.symbol = s}

\* A fill is announced, queued and handled at most once, and hedge-exec
\* announces one per approval.
FillsOnce ==
    /\ handled \subseteq filled
    /\ \A i \in 1..Len(fills) :
          /\ fills[i] \in filled \ handled
          /\ \A j \in 1..Len(fills) : fills[j] = fills[i] => j = i
    /\ \A f, g \in filled : f.by # "demo" /\ g.by # "demo" /\ Same(f, g) => f = g

\* The trade chain's fills are of signals it took up, and no larger than what
\* the order it plays out has filled.
ChainInv ==
    /\ chain # NoChain => chain.sig \in demo
    /\ \A f \in filled : f.by = "demo" =>
          /\ \E s \in demo : s.cid = f.cid
          /\ chain # NoChain /\ chain.sig.cid = f.cid => f.qty <= chain.filled

\* The book is what the handled approvals and the made-up fills add up to.
BookInv ==
    /\ IsFiniteSet(approved) /\ IsFiniteSet(handled)
    /\ FillsOnce /\ ChainInv
    /\ \A s \in Symbols : booked[s] = QtySum(Accounted(s)) + QtySum(MadeUp(s))

\* Both sums are sums of finitely many quantities.
LEMMA BookSums ==
    ASSUME ServicesTypeOK, BookInv, NEW s \in Symbols
    PROVE  /\ Counted({a \in approved : a.symbol = s}) /\ Counted(Accounted(s)) /\ Counted(MadeUp(s))
           /\ QtySum(Accounted(s)) \in Int /\ QtySum(MadeUp(s)) \in Int
<1>1. \A a \in approved : a.qty \in Nat BY DEF ServicesTypeOK, Approval
<1>2. \A f \in handled : f.qty \in Nat BY DEF ServicesTypeOK, Fill
<1>3. IsFiniteSet({a \in approved : a.symbol = s}) BY FS_Subset DEF BookInv
<1>4. IsFiniteSet(Accounted(s)) /\ IsFiniteSet(MadeUp(s)) BY FS_Subset DEF BookInv, Accounted, MadeUp
<1>5. Counted({a \in approved : a.symbol = s}) /\ Counted(Accounted(s)) /\ Counted(MadeUp(s))
  BY <1>1, <1>2, <1>3, <1>4 DEF Counted, Accounted, MadeUp
<1> QED BY <1>5, QtySumSteps

\* What is accounted for is part of what was approved.
LEMMA BookIsWithin == ASSUME ServicesTypeOK, BookInv PROVE BookWithinApprovals
<1> SUFFICES ASSUME NEW s \in Symbols
             PROVE  booked[s] <= QtySum({a \in approved : a.symbol = s}) + QtySum(MadeUp(s))
  BY DEF BookWithinApprovals, MadeUp
<1> DEFINE S == {a \in approved : a.symbol = s}
<1>1. Counted(S) /\ QtySum(Accounted(s)) \in Int /\ QtySum(MadeUp(s)) \in Int BY BookSums
<1>2. Accounted(s) \in SUBSET S BY DEF Accounted
<1> HIDE DEF S
<1>3. QtySum(Accounted(s)) <= QtySum(S) /\ QtySum(S) \in Int BY <1>1, <1>2, QtySumSteps
<1>4. booked[s] = QtySum(Accounted(s)) + QtySum(MadeUp(s)) BY DEF BookInv
<1>5. booked[s] <= QtySum(S) + QtySum(MadeUp(s)) BY <1>1, <1>3, <1>4
<1> QED BY <1>5 DEF S

\* A new approval has no fill yet.
LEMMA ApprovalBooks ==
    ASSUME ServicesTypeOK, BackedInv, BookInv, NEW a \in Approval,
           a.cid \in Cids => ~IsApproved(a), approved' = approved \cup {a},
           UNCHANGED <<fills, filled, handled, booked>>, ChainInv'
    PROVE  BookInv'
<1>1. ASSUME NEW f \in handled, f.by # "demo" PROVE ~Same(f, a)
  <2>1. f \in filled /\ f.cid \in Cids BY DEF BookInv, FillsOnce, ServicesTypeOK, Fill
  <2>2. PICK z \in approved : f.cid = z.cid /\ f.symbol = z.symbol
    BY <1>1, <2>1 DEF BackedInv, FillIsBacked
  <2> QED BY <2>1, <2>2 DEF IsApproved, Same
<1>2. \A s \in Symbols : Accounted(s)' = Accounted(s) /\ MadeUp(s)' = MadeUp(s)
  <2> SUFFICES ASSUME NEW s \in Symbols PROVE Accounted(s)' = Accounted(s)
    BY DEF MadeUp
  <2>1. Accounted(s)' = {x \in approved \cup {a} :
                            x.symbol = s /\ \E f \in handled : f.by # "demo" /\ Same(f, x)}
    BY DEF Accounted, Same
  <2> QED BY <1>1, <2>1 DEF Accounted
<1>3. IsFiniteSet(approved') BY FS_AddElement DEF BookInv
<1>4. FillsOnce' BY DEF BookInv, FillsOnce, Same
<1> QED BY <1>2, <1>3, <1>4 DEF BookInv

\* A fill that was never announced joins the queue.
LEMMA FillBooks ==
    ASSUME ServicesTypeOK, BookInv, NEW g \in Fill, g \notin filled,
           g.by # "demo" => \A f \in filled : f.by # "demo" => ~Same(f, g),
           fills' = Append(fills, g), filled' = filled \cup {g},
           UNCHANGED <<approved, handled, booked>>, ChainInv'
    PROVE  BookInv'
<1> DEFINE n == Len(fills)
<1>1. fills \in Seq(Fill) BY DEF ServicesTypeOK
<1>2. /\ n \in Nat /\ Len(fills') = n + 1 /\ fills'[n + 1] = g
      /\ \A i \in 1..n : fills'[i] = fills[i]
  BY <1>1
<1>3. /\ \A i \in 1..n : /\ fills[i] \in filled \ handled
                         /\ \A j \in 1..n : fills[j] = fills[i] => j = i
      /\ handled \subseteq filled
  BY DEF BookInv, FillsOnce
<1> HIDE DEF n
<1>4. \A i \in 1..(n + 1) : i \in 1..n \/ i = n + 1 BY <1>2
<1>5. ASSUME NEW i \in 1..(n + 1)
      PROVE  /\ fills'[i] \in filled' \ handled'
             /\ \A j \in 1..(n + 1) : fills'[j] = fills'[i] => j = i
  <2>1. CASE i \in 1..n BY <1>2, <1>3, <1>4, <2>1
  <2>2. CASE i = n + 1 BY <1>2, <1>3, <1>4, <2>2
  <2> QED BY <1>4, <2>1, <2>2
<1>6. ASSUME NEW x \in filled', NEW y \in filled', x.by # "demo", y.by # "demo", Same(x, y)
      PROVE  x = y
  <2>1. Same(y, x) BY <1>6 DEF Same
  <2>2. \A f, h \in filled : f.by # "demo" /\ h.by # "demo" /\ Same(f, h) => f = h
    BY DEF BookInv, FillsOnce
  <2> QED BY <1>6, <2>1, <2>2
<1>7. FillsOnce' BY <1>2, <1>3, <1>5, <1>6 DEF FillsOnce, Same
<1>8. \A s \in Symbols : Accounted(s)' = Accounted(s) /\ MadeUp(s)' = MadeUp(s)
  BY DEF Accounted, MadeUp, Same
<1> QED BY <1>7, <1>8 DEF BookInv

\* The fill of the job in hand is its first.
LEMMA JobFillBooks ==
    ASSUME ServicesTypeOK, BackedInv, BookInv, exec.at # "idle", NEW q \in Nat,
           NEW p \in {"paper", "live"}, PublishFill(q, p),
           UNCHANGED <<approved, handled, booked, demo, chain>>
    PROVE  BookInv'
<1>1. PICK g : g = [cid |-> exec.job.cid, symbol |-> exec.job.symbol, qty |-> q, by |-> p] OBVIOUS
<1>2. fills' = Append(fills, g) /\ filled' = filled \cup {g} BY <1>1 DEF PublishFill
<1>3. g \in Fill /\ g.by # "demo" BY <1>1 DEF ServicesTypeOK, Fill, Approval
<1>4. \A f \in filled : f.by # "demo" => ~Same(f, g) BY <1>1 DEF BackedInv, HandInv, IsFilled, Same
<1>5. g \notin filled BY <1>3, <1>4 DEF Same
<1>6. ChainInv' BY <1>2, <1>3 DEF BookInv, ChainInv
<1> QED BY <1>2, <1>3, <1>4, <1>5, <1>6, FillBooks

\* A fill leaves the queue: what is left was queued, after it.
LEMMA FillLeaves ==
    ASSUME ServicesTypeOK, FillsOnce, fills # <<>>, fills' = Tail(fills), filled' = filled,
           handled' \in {handled, handled \cup {Head(fills)}}
    PROVE  /\ FillsOnce' /\ Head(fills) \in filled \ handled /\ Head(fills) \in Fill
<1> DEFINE n == Len(fills)
<1>1. /\ n \in Nat /\ n >= 1 /\ Head(fills) = fills[1] /\ Len(fills') = n - 1
      /\ \A i \in 1..(n - 1) : fills'[i] = fills[i + 1]
  BY DEF ServicesTypeOK
<1>2. fills[1] \in Fill BY <1>1 DEF ServicesTypeOK
<1>3. \A i \in 1..n : /\ fills[i] \in filled \ handled
                      /\ \A j \in 1..n : fills[j] = fills[i] => j = i
  BY DEF FillsOnce
<1> HIDE DEF n
<1>4. 1 \in 1..n BY <1>1
<1>5. ASSUME NEW i \in 1..(n - 1)
      PROVE  /\ fills'[i] \in filled' \ handled'
             /\ \A j \in 1..(n - 1) : fills'[j] = fills'[i] => j = i
  <2>1. i + 1 \in 1..n /\ i + 1 # 1 BY <1>1
  <2>2. \A j \in 1..(n - 1) : j + 1 \in 1..n /\ (j + 1 = i + 1 => j = i) BY <1>1
  <2>3. fills'[i] = fills[i + 1] BY <1>1
  <2>4. fills[1] # fills[i + 1] BY <1>3, <1>4, <2>1
  <2> QED BY <1>1, <1>3, <2>1, <2>2, <2>3, <2>4
<1>6. handled' \subseteq filled' BY <1>1, <1>3, <1>4 DEF FillsOnce
<1>7. \A f, g \in filled' : f.by # "demo" /\ g.by # "demo" /\ Same(f, g) => f = g
  BY DEF FillsOnce
<1> QED BY <1>1, <1>2, <1>3, <1>4, <1>5, <1>6, <1>7 DEF FillsOnce, Same

\* handle_fill books the quantity of the approval the fill is for, or what the
\* trade chain made up.
LEMMA HandleBooks == ASSUME ServicesTypeOK, BackedInv, BookInv, HandleFill PROVE BookInv'
<1>1. PICK f : f = Head(fills) OBVIOUS
<1>2. /\ fills # <<>> /\ fills' = Tail(fills) /\ filled' = filled /\ approved' = approved
      /\ handled' = handled \cup {f} /\ UNCHANGED <<demo, chain>>
      /\ booked' = IF f.symbol \in Symbols /\ f.qty > 0
                   THEN [booked EXCEPT ![f.symbol] = @ + f.qty] ELSE booked
  BY <1>1 DEF HandleFill, Signed, BookedSide, SideOf
<1>3. FillsOnce' /\ f \in filled \ handled /\ f \in Fill
  BY <1>1, <1>2, FillLeaves DEF BookInv
<1>4. IsFiniteSet(handled') BY <1>2, FS_AddElement DEF BookInv
<1>5. f.qty \in Nat BY <1>3 DEF Fill
<1>6. ASSUME NEW s \in Symbols
      PROVE  booked'[s] = IF f.symbol = s THEN booked[s] + f.qty ELSE booked[s]
  <2>1. booked[s] \in Int BY DEF ServicesTypeOK
  <2>2. CASE f.qty > 0 BY <1>2, <2>2 DEF ServicesTypeOK
  <2>3. CASE f.qty = 0 BY <1>2, <2>1, <2>3
  <2> QED BY <1>5, <2>2, <2>3
<1>7. ASSUME NEW s \in Symbols
      PROVE  booked'[s] = QtySum(Accounted(s)') + QtySum(MadeUp(s)')
  <2>1. /\ booked[s] = QtySum(Accounted(s)) + QtySum(MadeUp(s))
        /\ QtySum(Accounted(s)) \in Int /\ QtySum(MadeUp(s)) \in Int
        /\ Counted(Accounted(s)) /\ Counted(MadeUp(s))
    BY BookSums DEF BookInv
  <2>2. /\ MadeUp(s)' = {x \in handled \cup {f} : x.by = "demo" /\ x.symbol = s}
        /\ Accounted(s)' = {a \in approved : a.symbol = s /\
                               \E x \in handled \cup {f} : x.by # "demo" /\ Same(x, a)}
    BY <1>2 DEF MadeUp, Accounted, Same
  <2>3. CASE f.by = "demo" /\ f.symbol = s
    <3>1. Accounted(s)' = Accounted(s) /\ MadeUp(s)' = MadeUp(s) \cup {f} /\ f \notin MadeUp(s)
      BY <1>3, <2>2, <2>3 DEF Accounted, MadeUp
    <3> DEFINE S == MadeUp(s) \cup {f}
    <3>2. S \ {f} = MadeUp(s) /\ f \in S BY <3>1
    <3>3. Counted(S) BY <1>5, <2>1, FS_AddElement DEF Counted
    <3> HIDE DEF S
    <3>4. QtySum(S) = f.qty + QtySum(MadeUp(s)) BY <3>2, <3>3, QtySumSteps
    <3>5. QtySum(MadeUp(s)') = QtySum(S) /\ QtySum(Accounted(s)') = QtySum(Accounted(s))
      BY <3>1 DEF S
    <3> QED BY <1>5, <1>6, <2>1, <2>3, <3>4, <3>5
  <2>4. CASE f.by # "demo" /\ f.symbol = s
    <3>1. PICK a \in approved : f.cid = a.cid /\ f.symbol = a.symbol /\ f.qty = a.qty
      BY <1>3, <2>4 DEF BackedInv, FillIsBacked
    <3>2. a \in Named BY <1>3, <3>1 DEF Named, Fill
    <3>3. \A z \in approved : Same(f, z) => z = a
      BY <3>1, <3>2 DEF BackedInv, ApprovedOnce, Same
    <3>4. \A x \in handled : x.by # "demo" => ~Same(x, a)
      <4>1. handled \subseteq filled /\ \A x, y \in filled : x.by # "demo" /\ y.by # "demo" /\ Same(x, y) => x = y
        BY DEF BookInv, FillsOnce
      <4>2. ASSUME NEW x \in handled, x.by # "demo", Same(x, a) PROVE FALSE
        <5>1. Same(x, f) BY <3>1, <4>2 DEF Same
        <5> QED BY <1>3, <2>4, <4>1, <4>2, <5>1
      <4> QED BY <4>2
    <3>5. Same(f, a) BY <3>1 DEF Same
    <3>6. Accounted(s)' = Accounted(s) \cup {a} /\ a \notin Accounted(s) /\ MadeUp(s)' = MadeUp(s)
      BY <2>2, <2>4, <3>1, <3>3, <3>4, <3>5 DEF Accounted, MadeUp
    <3> DEFINE S == Accounted(s) \cup {a}
    <3>7. S \ {a} = Accounted(s) /\ a \in S BY <3>6
    <3>8. Counted(S) BY <1>5, <2>1, <3>1, FS_AddElement DEF Counted
    <3> HIDE DEF S
    <3>9. QtySum(S) = a.qty + QtySum(Accounted(s)) BY <3>7, <3>8, QtySumSteps
    <3>10. QtySum(Accounted(s)') = QtySum(S) /\ QtySum(MadeUp(s)') = QtySum(MadeUp(s))
      BY <3>6 DEF S
    <3>11. booked'[s] = booked[s] + f.qty /\ a.qty = f.qty BY <1>6, <2>4, <3>1
    <3>12. QtySum(Accounted(s)') = f.qty + QtySum(Accounted(s)) BY <3>9, <3>10, <3>11
    <3> QED BY <1>5, <2>1, <3>10, <3>11, <3>12
  <2>5. CASE f.symbol # s
    <3>1. MadeUp(s)' = MadeUp(s) BY <2>2, <2>5 DEF MadeUp
    <3>2. Accounted(s)' = Accounted(s)
      <4>1. ASSUME f.by # "demo", NEW a \in approved, a.symbol = s, Same(f, a) PROVE FALSE
        <5>1. PICK z \in approved : f.cid = z.cid /\ f.symbol = z.symbol
          BY <1>3, <4>1 DEF BackedInv, FillIsBacked
        <5>2. z \in Named BY <1>3, <5>1 DEF Named, Fill
        <5>3. a = z BY <4>1, <5>1, <5>2 DEF BackedInv, ApprovedOnce, Same
        <5> QED BY <2>5, <4>1, <5>1, <5>3
      <4> QED BY <2>2, <4>1 DEF Accounted
    <3>3. booked'[s] = booked[s] BY <1>6, <2>5
    <3> QED BY <2>1, <3>1, <3>2, <3>3
  <2> QED BY <2>3, <2>4, <2>5
<1>8. ChainInv' BY <1>2 DEF BookInv, ChainInv
<1> QED BY <1>2, <1>3, <1>4, <1>7, <1>8 DEF BookInv

\* Every action of every service keeps the book within what was announced.
LEMMA BookNext ==
    ASSUME DistinctIds, ServicesTypeOK, BackedInv, BookInv, [Next]_vars
    PROVE  BookInv'
<1> USE ServicesAssumption
<1>1. ASSUME UNCHANGED <<approved, fills, filled, handled, booked>>, ChainInv' PROVE BookInv'
  <2>1. \A s \in Symbols : Accounted(s)' = Accounted(s) /\ MadeUp(s)' = MadeUp(s)
    BY <1>1 DEF Accounted, MadeUp, Same
  <2> QED BY <1>1, <2>1 DEF BookInv, FillsOnce, Same
<1>2. CASE PublishDemoApproval
  <2>1. PICK s \in DemoSignals \ demo :
            /\ demo' = demo \cup {s} /\ s.cid \in Cids /\ s \in Signals
            /\ UNCHANGED <<fills, filled, handled, booked>>
            /\ \/ UNCHANGED <<chain, approvals, approved>>
               \/ \E a \in Approval :
                      /\ a.cid = s.cid /\ a.symbol \notin Symbols
                      /\ approved' = approved \cup {a}
                      /\ chain' # NoChain /\ chain'.sig = s /\ chain'.filled = 0
    BY <1>2, DemoApproves
  <2>2. CASE UNCHANGED <<chain, approvals, approved>>
    <3>1. ChainInv' BY <2>1, <2>2 DEF BookInv, ChainInv
    <3> QED BY <1>1, <2>1, <2>2, <3>1
  <2>3. ASSUME NEW a \in Approval, a.cid = s.cid, a.symbol \notin Symbols,
               approved' = approved \cup {a},
               chain' # NoChain, chain'.sig = s, chain'.filled = 0
        PROVE  BookInv'
    <3>1. ~IsApproved(a) BY <2>1, <2>3, ApprovalIsNew
    <3>2. ASSUME NEW f \in filled, f.by = "demo" PROVE f.cid # s.cid
      <4>1. PICK z \in demo : z.cid = f.cid BY <3>2 DEF BookInv, ChainInv
      <4>2. z \in Signals /\ z # s BY <2>1 DEF ServicesTypeOK
      <4> QED BY <2>1, <4>1, <4>2 DEF DistinctIds
    <3>3. ChainInv'
      <4>1. s \in demo' /\ demo \subseteq demo' /\ filled' = filled BY <2>1
      <4>2. ASSUME NEW f \in filled, f.by = "demo" PROVE \E z \in demo' : z.cid = f.cid
        BY <4>1, <4>2 DEF BookInv, ChainInv
      <4> QED BY <2>3, <3>2, <4>1, <4>2 DEF ChainInv
    <3> QED BY <2>1, <2>3, <3>1, <3>3, ApprovalBooks
  <2> QED BY <2>1, <2>2, <2>3
<1>3. CASE DemoFill
  <2>1. UNCHANGED <<demo, approved, handled, booked>> /\ chain # NoChain BY <1>3 DEF DemoFill
  <2>2. CASE chain' = NoChain /\ UNCHANGED <<fills, filled>>
    <3>1. ChainInv' BY <2>1, <2>2 DEF BookInv, ChainInv
    <3> QED BY <1>1, <2>1, <2>2, <3>1
  <2>3. ASSUME NEW f \in Fill, f.by = "demo", f.cid = chain.sig.cid, f.qty > chain.filled,
               fills' = Append(fills, f), filled' = filled \cup {f},
               \/ chain' = NoChain
               \/ chain' # NoChain /\ chain'.sig = chain.sig /\ chain'.filled = f.qty
        PROVE  BookInv'
    <3>1. chain.sig \in demo /\ \A x \in filled : x.by = "demo" =>
              /\ \E s \in demo : s.cid = x.cid
              /\ chain.sig.cid = x.cid => x.qty <= chain.filled
      BY <2>1 DEF BookInv, ChainInv
    <3>2. /\ chain.filled \in Nat /\ f.qty \in Nat /\ \A x \in filled : x.qty \in Nat
      <4>1. chain \in ChainState BY <1>3, DemoFillTyped
      <4> QED BY <4>1 DEF ChainState, Fill, ServicesTypeOK
    <3>3. f \notin filled BY <2>3, <3>1, <3>2
    <3>4. ChainInv'
      <4>1. ASSUME NEW x \in filled', x.by = "demo"
            PROVE  /\ \E s \in demo' : s.cid = x.cid
                   /\ chain' # NoChain /\ chain'.sig.cid = x.cid => x.qty <= chain'.filled
        <5>1. CASE x \in filled BY <2>1, <2>3, <3>1, <3>2, <4>1, <5>1
        <5>2. CASE x = f BY <2>1, <2>3, <3>1, <3>2, <5>2
        <5> QED BY <2>3, <5>1, <5>2
      <4>2. chain' # NoChain => chain'.sig \in demo' BY <2>1, <2>3, <3>1
      <4> QED BY <4>1, <4>2 DEF ChainInv
    <3> QED BY <2>1, <2>3, <3>3, <3>4, FillBooks
  <2> QED BY <1>3, <2>2, <2>3, DemoFillTyped
<1>4. ASSUME UNCHANGED <<demo, chain, filled>> PROVE ChainInv'
  BY <1>4 DEF BookInv, ChainInv
<1>5. CASE ApproveSignal
  <2>1. PICK s \in Signals \ received, a \in Approval :
            /\ a.cid = s.cid /\ a.symbol \in Symbols /\ approved' = approved \cup {a}
            /\ UNCHANGED <<demo, chain, fills, filled, handled, booked>>
    BY <1>5, RiskApproves
  <2>2. a.cid \in Cids => ~IsApproved(a) BY <2>1, ApprovalIsNew
  <2> QED BY <1>4, <2>1, <2>2, ApprovalBooks
<1>6. CASE LoseFill
  <2>1. /\ fills # <<>> /\ fills' = Tail(fills)
        /\ UNCHANGED <<demo, chain, approved, filled, handled, booked>>
    BY <1>6 DEF LoseFill
  <2>2. FillsOnce' BY <2>1, FillLeaves DEF BookInv
  <2>3. \A s \in Symbols : Accounted(s)' = Accounted(s) /\ MadeUp(s)' = MadeUp(s)
    BY <2>1 DEF Accounted, MadeUp, Same
  <2> QED BY <1>4, <2>1, <2>2, <2>3 DEF BookInv
<1>7. CASE PaperFill
  <2>1. exec.job.qty \in Nat BY <1>7 DEF PaperFill, ServicesTypeOK, Approval
  <2> QED BY <1>7, <2>1, JobFillBooks DEF PaperFill
<1>8. CASE PollFilled
  <2>1. Status \in Order
    BY <1>8 DEF PollFilled, Executed, Status, ServicesTypeOK, ExecState, NoOrder
  <2> QED BY <1>8, <2>1, JobFillBooks DEF PollFilled, Order
<1>9. CASE \/ LoseApproval \/ RefuseSignal \/ ToggleMode \/ TakeApproval \/ SubmitOk \/ SubmitError
           \/ PollDead \/ PollOpen \/ BrokerExecutes \/ BrokerKills \/ UNCHANGED vars
  <2>1. UNCHANGED <<demo, chain, approved, fills, filled, handled, booked>>
    BY <1>9 DEF LoseApproval, RefuseSignal, ToggleMode, TakeApproval, SubmitOk, SubmitError,
                PollDead, PollOpen, BrokerExecutes, BrokerKills, vars
  <2> QED BY <1>1, <1>4, <2>1
<1> QED BY <1>2, <1>3, <1>5, <1>6, <1>7, <1>8, <1>9, HandleBooks DEF Next, ExecStep

\* When every signal has an id of its own, hedge-position never books more of a
\* symbol than hedge-risk approved for it and the demo's trade chain announced
\* as filled, through lost messages, failovers to the backup and repeated polls
\* (position main.rs handle_fill).
THEOREM BookStaysWithin ==
    ASSUME DistinctIds
    PROVE  Spec => []BookWithinApprovals
<1>1. Init => BackedInv
  BY DEF Init, BackedInv, ApprovedOnce, QueueInv, HandInv, OrdersInv, FillIsBacked, Named,
         Idle
<1>2. Init => BookInv
  <2> SUFFICES ASSUME Init PROVE BookInv OBVIOUS
  <2>1. /\ approved = {} /\ handled = {} /\ fills = <<>> /\ booked = [s \in Symbols |-> 0]
        /\ filled = {} /\ chain = NoChain
    BY DEF Init
  <2>2. IsFiniteSet({}) BY FS_EmptySet
  <2>3. FillsOnce /\ ChainInv BY <2>1 DEF FillsOnce, ChainInv
  <2>4. \A s \in Symbols : Accounted(s) = {} /\ MadeUp(s) = {} BY <2>1 DEF Accounted, MadeUp
  <2>5. Counted({}) BY <2>2 DEF Counted
  <2>6. QtySum({}) = 0 BY <2>5, QtySumSteps
  <2>7. ASSUME NEW s \in Symbols PROVE booked[s] = QtySum(Accounted(s)) + QtySum(MadeUp(s))
    <3>1. booked[s] = 0 BY <2>1
    <3>2. QtySum(Accounted(s)) = 0 /\ QtySum(MadeUp(s)) = 0 BY <2>4, <2>6
    <3> QED BY <3>1, <3>2
  <2> QED BY <2>1, <2>2, <2>3, <2>7 DEF BookInv
<1>3. ServicesTypeOK /\ BackedInv /\ [Next]_vars => BackedInv' BY BackedNext
<1>4. ServicesTypeOK /\ BackedInv /\ BookInv /\ [Next]_vars => BookInv' BY BookNext
<1>5. ServicesTypeOK /\ BookInv => BookWithinApprovals BY BookIsWithin
<1> QED BY <1>1, <1>2, <1>3, <1>4, <1>5, ServicesTypes, PTL DEF Spec
=============================================================================
