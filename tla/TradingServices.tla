-------------------------- MODULE TradingServices --------------------------
(***************************************************************************)
(* The hedge-risk, hedge-exec and hedge-position binaries as they are      *)
(* deployed: three processes that exchange JSON messages over NATS.        *)
(*                                                                         *)
(*   sig.emitted -> hedge-risk -> risk.decision.approved -> hedge-exec     *)
(*               -> exec.fill.<symbol> -> hedge-position                   *)
(*                                                                         *)
(* Every service handles the messages of a subscription one at a time, in  *)
(* order; NATS delivers at most once, so a message may be lost.            *)
(* hedge-exec routes orders itself (it does not use ExecutionEngine): one  *)
(* action below is the code between two awaits of its consumer task.  The  *)
(* cockpit's mode toggle is handled by a second task of the same process.  *)
(* hedge-demo-synth's trade chain plays the part of all three for the      *)
(* signals it makes up: its approval and its fills go to the same subjects *)
(* under the signal's own id.  The brokers are external.                   *)
(*                                                                         *)
(* A message is the fields its reader looks at.  The gates of hedge-risk   *)
(* are the subject of RiskEngine; here its decision is any of its results. *)
(* Correlation ids stand for strings that differ in the 16 bytes parse_cid *)
(* keeps.  entry_price_paise is 0 where the message does not carry it.     *)
(***************************************************************************)
EXTENDS Integers, Sequences, FiniteSets, FiniteSetsExt

CONSTANTS
    Cids,            \* correlation ids
    NoCid,           \* the empty correlation id of a message that has none
    Symbols,         \* the symbols of the symbol table
    Unlisted,        \* a symbol that is not in it
    Signals,         \* what may be published on sig.emitted, each once
    DemoSignals,     \* those of them that hedge-demo-synth makes up
    DemoQuantities,  \* quantities its trade chain approves (10 .. 99 in the code)
    DemoFills,       \* the most fills it splits one into (3 in the code)
    Quantities,      \* sized quantities of the Risk_Engine
    Price,           \* market price of a symbol, in paise
    MaxNotional,     \* HEDGE_EXEC_MAX_NOTIONAL_INR, in rupees
    StartModes,      \* HEDGE_EXEC_LIVE at boot
    MaxPolls,        \* status requests per order (10 in the code)
    MaxToggles       \* bound: uses of the cockpit's mode toggle

Sides == {"buy", "sell"}
Brokers == {"primary", "backup"}

\* "none" is a message without the field.
Signal == [cid : Cids \cup {NoCid}, symbol : Symbols \cup {Unlisted},
           side : Sides \cup {"none"}]
Approval == [cid : Cids \cup {NoCid}, symbol : Symbols \cup {Unlisted},
             side : Sides \cup {"none"}, qty : Nat, price : Nat]
\* "by" is who published it: a route of hedge-exec, or the demo's trade chain.
Fill == [cid : Cids, symbol : Symbols \cup {Unlisted}, qty : Nat, by : {"paper", "live", "demo"}]
Order == [symbol : Symbols, side : Sides, qty : Nat, filled : Nat,
          state : {"open", "filled", "dead"}]

ASSUME ServicesAssumption ==
    /\ NoCid \notin Cids
    /\ Unlisted \notin Symbols
    /\ Signals \subseteq Signal
    /\ DemoSignals \subseteq {s \in Signals : s.cid \in Cids}
    /\ DemoQuantities \subseteq Nat \ {0}
    /\ DemoFills \in Nat \ {0}
    /\ Quantities \subseteq Nat \ {0}
    /\ Price \in [Symbols -> Nat \ {0}]
    /\ MaxNotional \in Nat
    /\ StartModes \subseteq BOOLEAN
    /\ MaxPolls \in Nat \ {0}
    /\ MaxToggles \in Nat

NoOrder == [state |-> "none"]
NoJob == [cid |-> NoCid]
NoChain == [left |-> 0]

VARIABLES
    received,    \* the messages of sig.emitted that reached hedge-risk
    demo,        \* the signals the demo's trade chain has taken up
    chain,       \* the trade chain: the order it plays out, if any
    approvals,   \* the risk.decision.approved subscription of hedge-exec
    fills,       \* the exec.fill.> subscription of hedge-position
    live,        \* hedge-exec: live_mode
    toggles,     \* uses of the toggle
    exec,        \* hedge-exec: where its consumer task is, and with what
    orders,      \* the orders of each broker, by correlation id
    booked,      \* hedge-position: net quantity per symbol
    approved,    \* history: every approval published
    filled,      \* history: every fill event published
    rejected,    \* history: the approvals exec.order.rejected was published for
    handled,     \* history: the fills hedge-position has processed
    late         \* history: ids sent to a broker since paper mode was confirmed

riskVars == <<received>>
demoVars == <<demo, chain>>
execVars == <<live, toggles, exec, rejected, late>>
brokerVars == <<orders>>
positionVars == <<booked, handled>>
vars == <<riskVars, demoVars, approvals, approved, execVars, brokerVars, fills, filled, positionVars>>

ExecState == [at : {"idle", "paper", "submit", "poll"}, job : Approval \cup {NoJob},
              broker : Brokers, polls : 0 .. MaxPolls - 1]
ChainState == [sig : DemoSignals, qty : DemoQuantities, n : 1 .. DemoFills,
               left : 1 .. DemoFills, filled : Nat]
Idle == [at |-> "idle", job |-> NoJob, broker |-> "primary", polls |-> 0]

Init ==
    /\ received = {} /\ demo = {} /\ chain = NoChain
    /\ approvals = <<>> /\ fills = <<>>
    /\ live \in StartModes
    /\ toggles = 0
    /\ exec = Idle
    /\ orders = [b \in Brokers |-> [c \in Cids |-> NoOrder]]
    /\ booked = [s \in Symbols |-> 0]
    /\ approved = {} /\ filled = {} /\ rejected = {} /\ handled = {} /\ late = {}

-----------------------------------------------------------------------------
(* hedge-demo-synth: process_signal, one signal at a time.                 *)

\* The chain's approval names neither symbol nor side.
DemoApproval(s, q) ==
    [cid |-> s.cid, symbol |-> Unlisted, side |-> "none", qty |-> q, price |-> 0]

\* The decision; a rejection (which nobody here reads) ends the chain.  A
\* publish that is suppressed or fails is a message the bus loses.
PublishDemoApproval ==
    /\ chain = NoChain
    /\ \E s \in DemoSignals \ demo :
           /\ demo' = demo \cup {s}
           /\ \/ UNCHANGED <<chain, approvals, approved>>
              \/ \E q \in DemoQuantities, n \in 1 .. DemoFills :
                     /\ chain' = [sig |-> s, qty |-> q, n |-> n, left |-> n, filled |-> 0]
                     /\ approvals' = Append(approvals, DemoApproval(s, q))
                     /\ approved' = approved \cup {DemoApproval(s, q)}
    /\ UNCHANGED <<riskVars, execVars, brokerVars, fills, filled, positionVars>>

\* The last fill is the rest, the others equal parts of at least one unit.
Chunk(c) ==
    IF c.left = 1 THEN c.qty - c.filled
    ELSE IF c.qty \div c.n > 1 THEN c.qty \div c.n ELSE 1

\* One round of the fill loop: the event carries what is filled so far.
DemoFill ==
    /\ chain # NoChain
    /\ LET got == chain.filled + Chunk(chain)
           f == [cid |-> chain.sig.cid, symbol |-> chain.sig.symbol, qty |-> got, by |-> "demo"]
       IN  IF Chunk(chain) <= 0
           THEN chain' = NoChain /\ UNCHANGED <<fills, filled>>
           ELSE /\ chain' = IF chain.left = 1 THEN NoChain
                            ELSE [chain EXCEPT !.left = @ - 1, !.filled = got]
                /\ fills' = Append(fills, f)
                /\ filled' = filled \cup {f}
    /\ UNCHANGED <<riskVars, demo, approvals, approved, execVars, brokerVars, positionVars>>

-----------------------------------------------------------------------------
(* The message bus.                                                        *)

LoseApproval ==
    /\ approvals # <<>>
    /\ approvals' = Tail(approvals)
    /\ UNCHANGED <<riskVars, demoVars, approved, execVars, brokerVars, fills, filled, positionVars>>

LoseFill ==
    /\ fills # <<>>
    /\ fills' = Tail(fills)
    /\ UNCHANGED <<riskVars, demoVars, approvals, approved, execVars, brokerVars, filled, positionVars>>

-----------------------------------------------------------------------------
(* hedge-risk: handle_signal.  Signals are published independently of each *)
(* other, so the next one to arrive is any of them.                        *)

SideOf(field) == IF field = "sell" THEN "sell" ELSE "buy"

\* The approved message: the signal's id, the parsed side and symbol, no price.
DecisionPayload(s, q) ==
    [cid |-> s.cid, symbol |-> s.symbol, side |-> SideOf(s.side), qty |-> q, price |-> 0]

ApproveSignal ==
    \E s \in Signals \ received, q \in Quantities :
        /\ s.symbol \in Symbols
        /\ approvals' = Append(approvals, DecisionPayload(s, q))
        /\ approved' = approved \cup {DecisionPayload(s, q)}
        /\ received' = received \cup {s}
        /\ UNCHANGED <<demoVars, execVars, brokerVars, fills, filled, positionVars>>

\* Rejected by a gate (nobody here reads risk.decision.rejected), or dropped
\* because the symbol is unknown.
RefuseSignal ==
    \E s \in Signals \ received :
        /\ received' = received \cup {s}
        /\ UNCHANGED <<demoVars, approvals, approved, execVars, brokerVars, fills, filled,
                       positionVars>>

-----------------------------------------------------------------------------
(* hedge-exec: the mode toggle, which is stored and then confirmed.        *)

ToggleMode ==
    /\ toggles < MaxToggles
    /\ \E wantLive \in BOOLEAN :
           /\ live' = wantLive
           /\ late' = {}
    /\ toggles' = toggles + 1
    /\ UNCHANGED <<riskVars, demoVars, approvals, approved, exec, rejected, brokerVars, fills, filled,
                   positionVars>>

\* Mutation: the mode, once live, is kept.
EverLive == live \/ toggles > 0

\* The consumer loads the mode once per message.
LoadMode == live

\* handle_approval returns early on these.
Ignored(a) == a.cid = NoCid \/ a.qty = 0

\* Rupees of so many units at a price in paise.
Notional(price, qty) == (price * qty) \div 100

\* The notional cap: an absent price disables it.
CapBlocks(a) == a.price > 0 /\ Notional(a.price, a.qty) > MaxNotional

Job(at, a) == [at |-> at, job |-> a, broker |-> "primary", polls |-> 0]

\* Head of the queue into the consumer's hands, up to its first await.
TakeApproval ==
    /\ exec = Idle
    /\ approvals # <<>>
    /\ approvals' = Tail(approvals)
    /\ LET a == Head(approvals)
           blocked == LoadMode /\ (CapBlocks(a) \/ a.symbol \notin Symbols)
       IN  /\ exec' = IF Ignored(a) \/ blocked THEN Idle
                      ELSE IF LoadMode THEN Job("submit", a) ELSE Job("paper", a)
           /\ rejected' = IF blocked /\ ~ Ignored(a) THEN rejected \cup {a} ELSE rejected
    /\ UNCHANGED <<riskVars, demoVars, approved, live, toggles, late, brokerVars, fills, filled,
                   positionVars>>

\* The fill event: the symbol's string and the quantity, but no side.
PublishFill(q, by) ==
    LET f == [cid |-> exec.job.cid, symbol |-> exec.job.symbol, qty |-> q, by |-> by]
    IN  /\ fills' = Append(fills, f)
        /\ filled' = filled \cup {f}

\* route_paper after its sleep.
PaperFill ==
    /\ exec.at = "paper"
    /\ PublishFill(exec.job.qty, "paper")
    /\ exec' = Idle
    /\ UNCHANGED <<riskVars, demoVars, approvals, approved, live, toggles, rejected, late, brokerVars,
                   positionVars>>

-----------------------------------------------------------------------------
(* hedge-exec: route_live.  A call of a broker is one step.  An error may  *)
(* hide an accepted order: the answer timed out, or could not be decoded.  *)

\* OrderIntent: the side of a message that names none is Buy.
Intent(a) == [symbol |-> a.symbol, side |-> SideOf(a.side), qty |-> a.qty, filled |-> 0,
              state |-> "open"]

Accepts(b) ==
    orders' = [orders EXCEPT ![b][exec.job.cid] = Intent(exec.job)]

Contact == late' = IF live THEN late ELSE late \cup {exec.job.cid}

SubmitOk ==
    /\ exec.at = "submit"
    /\ Contact
    /\ Accepts(exec.broker)
    /\ exec' = [exec EXCEPT !.at = "poll"]
    /\ UNCHANGED <<riskVars, demoVars, approvals, approved, live, toggles, rejected, fills, filled,
                   positionVars>>

\* "degraded" is Transient, Network or Http, "final" every other BrokerError:
\* only the former, and only of the primary, is worth a second broker.
FailsOver(b, err) == b = "primary" /\ err = "degraded"

SubmitError ==
    /\ exec.at = "submit"
    /\ Contact
    /\ \E err \in {"degraded", "final"} :
           /\ UNCHANGED orders \/ Accepts(exec.broker)
           /\ IF FailsOver(exec.broker, err)
              THEN /\ exec' = [exec EXCEPT !.broker = "backup"]
                   /\ UNCHANGED rejected
              ELSE /\ exec' = Idle
                   /\ rejected' = rejected \cup {exec.job}
    /\ UNCHANGED <<riskVars, demoVars, approvals, approved, live, toggles, fills, filled, positionVars>>

-----------------------------------------------------------------------------
(* hedge-exec: poll_fill.                                                  *)

Status == orders[exec.broker][exec.job.cid]

\* Mutations: one request too many; no end of the window.
KeepPollingOnceMore ==
    exec' = IF exec.polls < MaxPolls THEN [exec EXCEPT !.polls = @ + 1] ELSE Idle
KeepPollingForever ==
    exec' = [exec EXCEPT !.polls = (@ + 1) % MaxPolls]

\* One more request, or the end of the poll window.
KeepPolling ==
    exec' = IF exec.polls + 1 < MaxPolls THEN [exec EXCEPT !.polls = @ + 1] ELSE Idle

\* What a poll that saw a terminal state does next: it returns.
StopPolling == exec' = Idle

\* Mutation: a partial execution is taken for the whole.
AnyExecution == Status.state = "filled" \/ (Status.state = "open" /\ Status.filled > 0)
Executed == Status.state = "filled"

PollFilled ==
    /\ exec.at = "poll"
    /\ Executed
    /\ PublishFill(Status.filled, "live")
    /\ StopPolling
    /\ UNCHANGED <<riskVars, demoVars, approvals, approved, live, toggles, rejected, late, brokerVars,
                   positionVars>>

PollDead ==
    /\ exec.at = "poll"
    /\ Status.state = "dead"
    /\ rejected' = rejected \cup {exec.job}
    /\ StopPolling
    /\ UNCHANGED <<riskVars, demoVars, approvals, approved, live, toggles, late, brokerVars, fills, filled,
                   positionVars>>

\* Open or partially filled; a failed status request continues in any state.
PollOpen ==
    /\ exec.at = "poll"
    /\ KeepPolling
    /\ UNCHANGED <<riskVars, demoVars, approvals, approved, live, toggles, rejected, late, brokerVars,
                   fills, filled, positionVars>>

ExecStep ==
    \/ TakeApproval \/ PaperFill
    \/ SubmitOk \/ SubmitError
    \/ PollFilled \/ PollDead \/ PollOpen

-----------------------------------------------------------------------------
(* The brokers execute, reject or cancel what they accepted.               *)

BrokerExecutes ==
    \E b \in Brokers, c \in Cids :
        /\ orders[b][c].state = "open"
        /\ LET o == orders[b][c]
               n == o.filled + 1
           IN  orders' = [orders EXCEPT ![b][c] =
                             [o EXCEPT !.filled = n, !.state = IF n = o.qty THEN "filled" ELSE @]]
        /\ UNCHANGED <<riskVars, demoVars, approvals, approved, execVars, fills, filled, positionVars>>

BrokerKills ==
    \E b \in Brokers, c \in Cids :
        /\ orders[b][c].state = "open"
        /\ orders' = [orders EXCEPT ![b][c].state = "dead"]
        /\ UNCHANGED <<riskVars, demoVars, approvals, approved, execVars, fills, filled, positionVars>>

-----------------------------------------------------------------------------
(* hedge-position: handle_fill.  The event carries no side: Buy.           *)

Signed(side, q) == IF side = "sell" THEN 0 - q ELSE q
BookedSide(f) == SideOf("none")

HandleFill ==
    /\ fills # <<>>
    /\ fills' = Tail(fills)
    /\ LET f == Head(fills)
       IN  /\ booked' = IF f.symbol \in Symbols /\ f.qty > 0
                        THEN [booked EXCEPT ![f.symbol] = @ + Signed(BookedSide(f), f.qty)]
                        ELSE booked
           /\ handled' = handled \cup {f}
    /\ UNCHANGED <<riskVars, demoVars, approvals, approved, execVars, brokerVars, filled>>

Next ==
    \/ PublishDemoApproval \/ DemoFill
    \/ LoseApproval \/ LoseFill
    \/ ApproveSignal \/ RefuseSignal
    \/ ToggleMode \/ ExecStep
    \/ BrokerExecutes \/ BrokerKills
    \/ HandleFill

Spec == Init /\ [][Next]_vars

\* The runtime keeps polling the consumer task, and every broker call ends:
\* the HTTP clients carry a timeout.
FairSpec == Spec /\ WF_vars(ExecStep)

-----------------------------------------------------------------------------
(* Type invariant.                                                         *)

\* What the variables of the three services and of the brokers hold: every
\* message has the fields its reader looks at, what hedge-exec works on has a
\* correlation id and, on the live route, a listed symbol, and poll_fill never
\* has more than MaxPolls - 1 finished status requests behind it.
ServicesTypeOK ==
    /\ received \subseteq Signals /\ demo \subseteq DemoSignals
    /\ chain \in ChainState \cup {NoChain}
    /\ approvals \in Seq(Approval) /\ approved \subseteq Approval
    /\ fills \in Seq(Fill) /\ filled \subseteq Fill /\ handled \subseteq Fill
    /\ live \in BOOLEAN /\ toggles \in 0 .. MaxToggles
    /\ exec \in ExecState
    /\ exec.at # "idle" => exec.job \in Approval /\ exec.job.cid \in Cids
    /\ exec.at \in {"submit", "poll"} => exec.job.symbol \in Symbols
    /\ orders \in [Brokers -> [Cids -> Order \cup {NoOrder}]]
    /\ booked \in [Symbols -> Int]
    /\ rejected \subseteq Approval /\ late \subseteq Cids

-----------------------------------------------------------------------------
(* Safety.                                                                 *)

\* The brokers that hold an order for approval a.
AtBrokers(a) == {b \in Brokers : /\ orders[b][a.cid] # NoOrder
                                 /\ orders[b][a.cid].symbol = a.symbol}

\* A fill that hedge-exec announces is true: it is for an approval, of its
\* symbol and full quantity, and no rejection is announced for that approval; a
\* paper fill has no order at any broker, and for a live fill some broker
\* executed all of it on the approved side, even when the order moved to the
\* backup after a failed request, and even when the demo's trade chain approves
\* and fills the same correlation id beside hedge-risk.
FillIsBacked ==
    \A f \in filled : f.by # "demo" =>
        \E a \in approved \ rejected :
            /\ f.cid = a.cid /\ f.symbol = a.symbol /\ f.qty = a.qty
            /\ IF f.by = "paper" THEN AtBrokers(a) = {}
               ELSE \E b \in AtBrokers(a) :
                        /\ orders[b][a.cid].filled = a.qty
                        /\ orders[b][a.cid].side = SideOf(a.side)

\* Turning live mode off stops trading at the next approval: after the toggle
\* was confirmed at most the one order that the consumer already holds still
\* goes to a broker.
PaperStopsNextOrder == Cardinality(late) <= 1

QtySum(S) == MapThenSumSet(LAMBDA x : x.qty, S)

\* hedge-position never books more of a symbol than hedge-risk approved for it
\* and the demo's trade chain announced as filled, across lost messages,
\* failovers and repeated polls: no fill of either is booked twice.
BookWithinApprovals ==
    \A s \in Symbols :
        booked[s] <= QtySum({a \in approved : a.symbol = s})
                     + QtySum({f \in handled : f.by = "demo" /\ f.symbol = s})

-----------------------------------------------------------------------------
(* Liveness.                                                               *)

\* No order, however silent its broker, blocks the approvals behind it: the
\* consumer works its queue off and comes back to wait for the next message.
QueueDrains == (approvals # <<>>) ~> (approvals = <<>> /\ exec = Idle)

-----------------------------------------------------------------------------
(* Statements of the documentation, for runs that refute them.             *)

\* The safety contract at the head of hedge-exec's main.rs, guard 2: no single
\* order at a broker is worth more than the cap, at the market's price.
LiveWithinCap ==
    \A b \in Brokers : \A c \in {d \in Cids : orders[b][d] # NoOrder} :
        Notional(Price[orders[b][c].symbol], orders[b][c].qty) <= MaxNotional

\* Requirement 8: hedge-position's quantity of a symbol is what the fills it
\* received add up to, each with the side of the order it is for.
BookMatchesFills ==
    \A s \in Symbols :
        booked[s] = MapThenSumSet(
            LAMBDA f : LET a == CHOOSE a \in approved : a.cid = f.cid /\ a.symbol = f.symbol
                       IN  Signed(SideOf(a.side), f.qty),
            {f \in handled : f.symbol = s})
=============================================================================
