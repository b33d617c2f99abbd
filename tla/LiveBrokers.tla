---------------------------- MODULE LiveBrokers ----------------------------
(***************************************************************************)
(* The five live adapters of the BrokerAdapter trait: Zerodha Kite, Upstox, *)
(* Dhan, Shoonya and Angel One.  Each one wraps a REST client, translates   *)
(* intents to its broker's order form, classifies what comes back, and      *)
(* keeps a cached readiness that makes it fail closed on bad credentials.   *)
(*                                                                         *)
(* The adapters are five copies of one state machine over five wire         *)
(* formats, so the machine (AdapterBegin, AdapterAnswer, AdapterReturn) is  *)
(* written once and each adapter names the parts it plugs in.  Any number   *)
(* of its calls may be in flight: the readiness is read before the request  *)
(* and written after the answer, under a lock held for neither.             *)
(*                                                                         *)
(* An HTTP answer is a status and the shape of its body: "data" (what was   *)
(* asked for), "bare" (a success without the data), "nothing" (an empty     *)
(* list), "refused" (an error about the request in a well-formed body),     *)
(* "unauth" and "throttled" (errors Angel One gives a code for, which its   *)
(* adapter knows), "session" (the session is refused, in words or with a    *)
(* code the adapter does not look at) and "torn" (undecodable).  No answer  *)
(* at all is the status 0 (connection) or 1 (timeout).                      *)
(***************************************************************************)
EXTENDS Integers, Sequences, FiniteSets

CONSTANTS LiveCallers,        \* concurrent callers of one adapter
          Intents,        \* order intents they submit
          Changes,        \* modifications they ask for
          MaxCalls        \* bound on the calls of a behaviour

VARIABLES adapter,        \* which adapter this is
          missing,        \* the credential fields that are empty
          readyState,     \* ready_state: "ready", "disconnected", "config_error"
          liveCalls,          \* what each caller is doing
          verdict,        \* history: what the broker's answers said of the credentials last,
                          \* "fine", "refused", or "unheard": refused in a body that only
                          \* a reader of its words could tell from a rejected order
          returned        \* calls that published their BrokerMetric and returned

liveVars == <<adapter, missing, readyState, liveCalls, verdict, returned>>

Adapters == {"zerodha", "upstox", "dhan", "shoonya", "angelone"}
NoCall == [phase |-> "none"]

\* The fields that *Credentials::validate wants non-empty.
ZerodhaCredentials == {"api_key", "access_token"}
UpstoxCredentials == {"api_key", "access_token"}
DhanCredentials == {"client_id", "access_token"}
ShoonyaCredentials == {"user_id", "account_id", "session_token"}
AngelOneCredentials == {"api_key", "jwt_token", "client_code"}

Credentials == [zerodha |-> ZerodhaCredentials, upstox |-> UpstoxCredentials,
                dhan |-> DhanCredentials, shoonya |-> ShoonyaCredentials,
                angelone |-> AngelOneCredentials]

CredsValid == missing = {}

-----------------------------------------------------------------------------
(* Prices on the wire.  A decimal is its sign, its whole part and the digits *)
(* after the point.                                                          *)

Magnitude(p) == IF p < 0 THEN -p ELSE p

\* "{}.{:02}": rupees and two digits, padded with zeros.
RupeeStringText(p) ==
    LET a == Magnitude(p)
    IN  [neg |-> p < 0, whole |-> a \div 100, frac |-> <<(a % 100) \div 10, a % 10>>]

\* "{}.{}": the digits without their padding.
RupeeStringUnpadded(p) ==
    LET a == Magnitude(p)
    IN  [neg |-> p < 0, whole |-> a \div 100,
         frac |-> IF a % 100 < 10 THEN <<a % 10>> ELSE <<(a % 100) \div 10, a % 10>>]

RupeeString(p) == RupeeStringText(p)

\* p / 100 as a float, which JSON writes with as few digits as it needs.
RupeeFloat(p) ==
    LET a == Magnitude(p)
    IN  [neg |-> p < 0, whole |-> a \div 100,
         frac |-> IF a % 10 = 0 THEN <<(a % 100) \div 10>>
                  ELSE <<(a % 100) \div 10, a % 10>>]

Zero == [neg |-> FALSE, whole |-> 0, frac |-> <<>>]

\* The broker's reading of a decimal, in paise.
PaiseOf(d) ==
    LET hundredths == IF d.frac = <<>> THEN 0
                      ELSE 10 * d.frac[1] + IF Len(d.frac) = 2 THEN d.frac[2] ELSE 0
        value == 100 * d.whole + hundredths
    IN  IF d.neg THEN -value ELSE value

-----------------------------------------------------------------------------
(* Order forms.  A vocabulary gives a broker's words; product and validity    *)
(* are the constants the translators write.                                  *)

Long == [buy |-> "BUY", sell |-> "SELL"]
Short == [buy |-> "B", sell |-> "S"]
FullKinds == [market |-> "MARKET", limit |-> "LIMIT"]
ShortKinds == [market |-> "MKT", limit |-> "LMT"]
PlainVenues == [nse |-> "NSE", bse |-> "BSE"]
Segments == [nse |-> "NSE_EQ", bse |-> "BSE_EQ"]

Spell(i, sides, kinds, venues, product, price) ==
    [side |-> sides[i.side], kind |-> kinds[i.kind], venue |-> venues[i.venue],
     product |-> product, validity |-> "DAY", symbol |-> i.symbol, qty |-> i.qty,
     price |-> price]

KiteForm(i) ==
    Spell(i, Long, FullKinds, PlainVenues, "MIS",
          IF i.kind = "market" THEN Zero ELSE RupeeString(i.paise))

UpstoxBody(i) ==
    Spell(i, Long, FullKinds, Segments, "I",
          IF i.kind = "market" THEN Zero ELSE RupeeFloat(i.paise))

DhanBody(i) ==
    Spell(i, Long, FullKinds, Segments, "INTRADAY",
          IF i.kind = "market" THEN Zero ELSE RupeeFloat(i.paise))

ShoonyaJData(i) ==
    Spell(i, Short, ShortKinds, PlainVenues, "I",
          IF i.kind = "market" THEN Zero ELSE RupeeString(i.paise))

SmartApiBody(i) ==
    Spell(i, Long, FullKinds, PlainVenues, "INTRADAY",
          IF i.kind = "market" THEN Zero ELSE RupeeString(i.paise))

\* A modification carries only the fields that change (an option is a sequence
\* of at most one element); a new price makes the order a limit order, except
\* on Kite's form, which has no field for it.
OptionMap(x, f(_)) == [k \in DOMAIN x |-> f(x[k])]
LimitWord(x, word) == [k \in DOMAIN x |-> word]

KiteChange(m) == [qty |-> m.qty, price |-> OptionMap(m.paise, RupeeString)]

UpstoxChange(m) ==
    [qty |-> m.qty, price |-> OptionMap(m.paise, RupeeFloat),
     kind |-> LimitWord(m.paise, "LIMIT")]

DhanChange(m) ==
    [qty |-> m.qty, price |-> OptionMap(m.paise, RupeeFloat),
     kind |-> LimitWord(m.paise, "LIMIT")]

\* Shoonya wants the symbol and the venue again; the adapter, which did not
\* keep them, sends placeholders.
ShoonyaChange(m) ==
    [qty |-> m.qty, price |-> OptionMap(m.paise, RupeeString),
     kind |-> LimitWord(m.paise, "LMT"),
     symbol |-> "UNKNOWN-EQ", venue |-> "NSE"]

SmartApiChange(m) ==
    [qty |-> m.qty, price |-> OptionMap(m.paise, RupeeString),
     kind |-> LimitWord(m.paise, "LIMIT")]

-----------------------------------------------------------------------------
(* Order states.  A broker's words (lower case where the adapter folds them),*)
(* each with the lifecycle state it stands for; an unknown word is           *)
(* "submitted".                                                              *)

KiteStates ==
    [filled |-> {"COMPLETE"}, cancelled |-> {"CANCELLED"}, rejected |-> {"REJECTED"},
     partially_filled |-> {}]

UpstoxStates ==
    [filled |-> {"complete", "filled"}, cancelled |-> {"cancelled", "expired"},
     rejected |-> {"rejected"},
     partially_filled |-> {"partial filled", "partially filled", "partial"}]

DhanStates ==
    [filled |-> {"TRADED", "FILLED"}, cancelled |-> {"CANCELLED", "EXPIRED"},
     rejected |-> {"REJECTED"}, partially_filled |-> {"PARTIAL", "PARTIALLY_TRADED"}]

ShoonyaStates ==
    [filled |-> {"COMPLETE"}, cancelled |-> {"CANCELED", "CANCELLED"},
     rejected |-> {"REJECTED"}, partially_filled |-> {"PARTIAL", "PARTIALLY_TRADED"}]

SmartApiStates ==
    [filled |-> {"complete"}, cancelled |-> {"cancelled", "canceled"},
     rejected |-> {"rejected"}, partially_filled |-> {"partially filled", "partial"}]

\* One word of each spelling, and one that no adapter knows.
Words == {"COMPLETE", "complete", "TRADED", "CANCELLED", "expired", "REJECTED",
          "PARTIAL", "partial", "OPEN"}

StateOf(states, word) ==
    IF \E s \in DOMAIN states : word \in states[s]
    THEN CHOOSE s \in DOMAIN states : word \in states[s]
    ELSE "submitted"

-----------------------------------------------------------------------------
(* What the REST clients make of an answer.                                  *)

\* map_status and map_network_err, the same five times over.
HttpError(http) ==
    CASE http = 0 -> "network"
      [] http = 1 -> "transient"
      [] http \in {401, 403} -> "auth"
      [] http = 429 \/ http \in 500..599 -> "transient"
      [] http \in {400, 404, 422} -> "rejected"
      [] OTHER -> "http"

\* Only Angel One's envelope names its errors by code.
SmartApiCode(body) ==
    CASE body = "unauth" -> "auth"
      [] body = "throttled" -> "transient"
      [] OTHER -> "rejected"

Refusals == {"refused", "unauth", "session", "throttled"}

KiteResult(op, body) ==
    CASE op \in {"modify", "cancel", "ready"} -> "ok"
      [] body = "data" -> "ok"
      [] body \in Refusals -> "rejected"
      [] body = "nothing" /\ op = "status" -> "unknown_order"
      [] OTHER -> "internal"

UpstoxResult(op, body) ==
    CASE op \in {"modify", "cancel", "ready"} -> "ok"
      [] body = "data" -> "ok"
      [] op = "submit" /\ body \in Refusals \union {"bare"} -> "rejected"
      [] OTHER -> "internal"

DhanResult(op, body) ==
    IF op \in {"modify", "cancel", "ready"} \/ body = "data" THEN "ok" ELSE "internal"

ShoonyaResult(op, body) ==
    CASE body = "data" -> "ok"
      [] body \in Refusals -> "rejected"
      [] body = "bare" /\ op \in {"modify", "cancel", "ready"} -> "ok"
      [] body = "nothing" /\ op = "status" -> "unknown_order"
      [] OTHER -> "internal"

SmartApiResult(op, body) ==
    CASE body = "data" -> "ok"
      [] body \in Refusals -> SmartApiCode(body)
      [] OTHER -> "internal"

\* External: the answers of each broker's interface.  NorenAPI (Shoonya) and
\* SmartAPI (Angel One) report every error in a body with status 200, a refused
\* session too; the others refuse credentials by status, as far as their
\* clients know.
BodyErrors ==
    [zerodha |-> {}, upstox |-> {}, dhan |-> {}, shoonya |-> {"session"},
     angelone |-> {"unauth", "session", "throttled"}]

Answers ==
    ({0, 1, 302, 400, 401, 429, 503} \X {"torn"})
        \union ({200} \X ({"data", "bare", "nothing", "refused", "torn"} \union BodyErrors[adapter]))

\* What an answer says of the credentials, whatever the adapter makes of it.
SaysOfCredentials(answer, before) ==
    CASE answer[1] \in {401, 403} \/ answer[2] = "unauth" -> "refused"
      [] answer[2] = "session" -> IF before = "fine" THEN "unheard" ELSE before
      [] answer[1] = 200 -> "fine"
      [] OTHER -> before

Outcome(op, answer, Result(_, _)) ==
    IF answer[1] = 200 THEN Result(op, answer[2]) ELSE HttpError(answer[1])

-----------------------------------------------------------------------------
(* The readiness cache.                                                      *)

\* update_ready_from_result: credentials the broker refused are not forgotten
\* because the network then fails.
UpdateReadyStep(g, result) ==
    CASE result = "ok" -> "ready"
      [] result \in {"auth", "not_ready"} -> "config_error"
      [] result \in {"network", "transient"} /\ g # "config_error" -> "disconnected"
      [] OTHER -> g

\* A bug: any network failure marks the adapter disconnected.
UpdateReadyForgetful(g, result) ==
    CASE result = "ok" -> "ready"
      [] result \in {"auth", "not_ready"} -> "config_error"
      [] result \in {"network", "transient"} -> "disconnected"
      [] OTHER -> g

UpdateReady(g, result) == UpdateReadyStep(g, result)

\* fail_closed_if_misconfigured.
FailsClosed(g) == g = "config_error"

\* The five adapters carry their own copy of the two helpers above.
ZerodhaReady(g, result) == UpdateReady(g, result)
UpstoxReady(g, result) == UpdateReady(g, result)
DhanReady(g, result) == UpdateReady(g, result)
ShoonyaReady(g, result) == UpdateReady(g, result)
AngelOneReady(g, result) == UpdateReady(g, result)

\* with_base_url: not yet probed, or unusable.
StartState == IF CredsValid THEN "disconnected" ELSE "config_error"

-----------------------------------------------------------------------------
(* The calls.                                                                *)

\* The top of an operation: fail closed (the metric is published, the error
\* returned), or send the request.  ready() looks at the credentials instead
\* of at the cache.
AdapterBegin(c, op, form) ==
    /\ liveCalls[c] = NoCall
    /\ returned < MaxCalls
    /\ \/ /\ op # "ready" /\ FailsClosed(readyState)
          /\ liveCalls' = [liveCalls EXCEPT ![c] = [phase |-> "answered", op |-> op,
                                            result |-> "not_ready"]]
          /\ UNCHANGED readyState
       \/ /\ op = "ready" /\ ~CredsValid
          /\ readyState' = "config_error"
          /\ liveCalls' = [liveCalls EXCEPT ![c] = [phase |-> "answered", op |-> op,
                                            result |-> "not_ready"]]
       \/ /\ IF op = "ready" THEN CredsValid ELSE ~FailsClosed(readyState)
          /\ liveCalls' = [liveCalls EXCEPT ![c] = [phase |-> "sent", op |-> op, form |-> form,
                                            verdict |-> verdict]]
          /\ UNCHANGED readyState
    /\ UNCHANGED <<adapter, missing, verdict, returned>>

\* What a call will return; a status query that succeeds returns the state.
Answered(op, result, state) ==
    [phase |-> "answered", op |-> op,
     result |-> IF result = "ok" /\ op = "status" THEN state ELSE result]

\* The answer arrives: it is classified and the cache updated.
\* A status answer names the order's state in the broker's words.
AdapterAnswer(c, Result(_, _), Ready(_, _), states) ==
    /\ liveCalls[c].phase = "sent"
    /\ \E answer \in Answers, word \in Words :
         LET result == Outcome(liveCalls[c].op, answer, Result)
         IN  /\ readyState' = Ready(readyState, result)
             /\ verdict' = SaysOfCredentials(answer, verdict)
             /\ liveCalls' = [liveCalls EXCEPT
                    ![c] = Answered(liveCalls[c].op, result, StateOf(states, word))]
    /\ UNCHANGED <<adapter, missing, returned>>

\* record_metric, then the caller gets its result.
AdapterReturn(c) ==
    /\ liveCalls[c].phase = "answered"
    /\ liveCalls' = [liveCalls EXCEPT ![c] = NoCall]
    /\ returned' = returned + 1
    /\ UNCHANGED <<adapter, missing, readyState, verdict>>

\* The forms of the operations: an order, a change, or an order id alone.
Operation(c, Form(_), Change(_)) ==
    \/ \E i \in Intents : AdapterBegin(c, "submit", [intent |-> i, wire |-> Form(i)])
    \/ \E m \in Changes : AdapterBegin(c, "modify", [change |-> m, wire |-> Change(m)])
    \/ \E op \in {"cancel", "status", "ready"} : AdapterBegin(c, op, [wire |-> "id"])

ZerodhaBroker(c) ==
    /\ adapter = "zerodha"
    /\ \/ Operation(c, KiteForm, KiteChange)
       \/ AdapterAnswer(c, KiteResult, ZerodhaReady, KiteStates)
       \/ AdapterReturn(c)

UpstoxBroker(c) ==
    /\ adapter = "upstox"
    /\ \/ Operation(c, UpstoxBody, UpstoxChange)
       \/ AdapterAnswer(c, UpstoxResult, UpstoxReady, UpstoxStates)
       \/ AdapterReturn(c)

DhanBroker(c) ==
    /\ adapter = "dhan"
    /\ \/ Operation(c, DhanBody, DhanChange)
       \/ AdapterAnswer(c, DhanResult, DhanReady, DhanStates)
       \/ AdapterReturn(c)

ShoonyaBroker(c) ==
    /\ adapter = "shoonya"
    /\ \/ Operation(c, ShoonyaJData, ShoonyaChange)
       \/ AdapterAnswer(c, ShoonyaResult, ShoonyaReady, ShoonyaStates)
       \/ AdapterReturn(c)

AngelOneBroker(c) ==
    /\ adapter = "angelone"
    /\ \/ Operation(c, SmartApiBody, SmartApiChange)
       \/ AdapterAnswer(c, SmartApiResult, AngelOneReady, SmartApiStates)
       \/ AdapterReturn(c)

LiveInit ==
    /\ adapter \in Adapters
    /\ missing \in SUBSET Credentials[adapter]
    /\ readyState = StartState
    /\ liveCalls = [c \in LiveCallers |-> NoCall]
    /\ verdict = IF CredsValid THEN "fine" ELSE "refused"
    /\ returned = 0

LiveNext ==
    \E c \in LiveCallers : \/ ZerodhaBroker(c)
                       \/ UpstoxBroker(c)
                       \/ DhanBroker(c)
                       \/ ShoonyaBroker(c)
                       \/ AngelOneBroker(c)

LiveSpec == LiveInit /\ [][LiveNext]_liveVars

-----------------------------------------------------------------------------
(* Properties.                                                               *)

\* Once a broker has refused the credentials by its status (401, 403) or with
\* an error code of SmartAPI's AB10 group, or they were never there, no order,
\* change, cancellation or query is begun until some answer shows them
\* accepted: neither a network failure nor any other answer in between, to
\* whichever of the overlapping calls it belongs, reopens the adapter
\* (update_ready_from_result and fail_closed_if_misconfigured).
CodedRefusalCloses ==
    \A c \in LiveCallers : liveCalls[c].phase = "sent" /\ liveCalls[c].op # "ready"
                          => liveCalls[c].verdict # "refused"

\* R7.5 without that restriction: no request after the broker refused the
\* credentials, in whichever way.  TLC refutes it: a Shoonya body
\* {"stat":"Not_Ok"} that refuses the session, even in answer to the probe of
\* ready(), is Rejected like an order, and so is a SmartAPI error AB2000; the
\* adapter stays open.
ClosedAfterRefusal ==
    \A c \in LiveCallers : liveCalls[c].phase = "sent" /\ liveCalls[c].op # "ready"
                          => liveCalls[c].verdict = "fine"

\* What the broker reads off the wire is the order that was meant: its limit
\* price to the paisa, however small the fraction and whichever notation the
\* broker uses, and a side and a kind that no other intent would spell alike
\* (the intent_to_* translators and paise_to_rupee_*).
OrderSurvivesTheWire ==
    \A c \in LiveCallers : liveCalls[c].phase = "sent" /\ liveCalls[c].op = "submit" =>
        LET i == liveCalls[c].form.intent  w == liveCalls[c].form.wire
        IN  /\ PaiseOf(w.price) = IF i.kind = "limit" THEN i.paise ELSE 0
            /\ w.qty = i.qty /\ w.symbol = i.symbol
            /\ \A d \in LiveCallers : liveCalls[d].phase = "sent" /\ liveCalls[d].op = "submit"
                                     /\ liveCalls[d].form.wire = w
                                  => liveCalls[d].form.intent = i
=============================================================================
