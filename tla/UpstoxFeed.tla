----------------------------- MODULE UpstoxFeed -----------------------------
(***************************************************************************)
(* bin/upstox_feed.rs: the process that polls the Upstox REST interface    *)
(* and publishes to the bus.  After a start-up probe three loops run side  *)
(* by side: last prices (which also announce the state of the feed on      *)
(* md.connection.upstox), order books and option chains.                   *)
(*                                                                         *)
(* The option loop resolves an expiry, awaits the chain and publishes it;  *)
(* the date may change in between, so these are two steps.                 *)
(***************************************************************************)
EXTENDS Integers, Sequences, FiniteSets, FiniteSetsExt

CONSTANTS
    Instruments,    \* HEDGE_UPSTOX_INSTRUMENTS
    Registered,     \* instruments whose symbol hedge_bus::symbol_id_for knows
    Underlyings,    \* HEDGE_UPSTOX_OI_UNDERLYINGS, in polling order
    Expiries,       \* expiry dates the contract endpoint may list
    Strikes,        \* strike prices a chain may hold
    Spots,          \* spot prices, 0 when the chain has none
    KeepStrikes,    \* strikes published around the spot (11)
    DownAfter,      \* more errors than this show as down (5)
    MaxFeedErrors,  \* bound on consecutive errors
    MaxDay          \* bound: dates

VARIABLES
    upProc,      \* the process: "start", "run", "exited"
    ltpErrors,   \* consecutive_errors of run_ltp_loop (those of the other loops only
                 \* choose log lines and an extra sleep)
    upStatus,    \* last md.connection event that reached the bus: status, the cockpit's, attempt
    upMissed,    \* history: the last md.connection publish failed
    upSubjects,  \* subjects the last poll of prices or books published to
    expiryCache, \* expiry per underlying, 0 when absent
    chainCall,   \* the option-chain request in flight: underlying, expiry, its today
    oiTurn,      \* position of the option loop in Underlyings
    oiOut,       \* last md.oi message
    today        \* the date, UTC

upVars == <<upProc, ltpErrors, upStatus, upMissed, upSubjects, expiryCache, chainCall,
            oiTurn, oiOut, today>>

NoChainCall == [u |-> "none", expiry |-> 0, today |-> 0]
NoOi == [u |-> "none", expiry |-> 0, today |-> 0, chain |-> {}, spot |-> 0, kept |-> {}]
Silent == [status |-> "none", cockpit |-> "none", attempt |-> 0]

UpInit ==
    /\ upProc = "start" /\ ltpErrors = 0
    /\ upStatus = Silent /\ upMissed = FALSE /\ upSubjects = {}
    /\ expiryCache = [u \in {Underlyings[i] : i \in DOMAIN Underlyings} |-> 0]
    /\ chainCall = NoChainCall /\ oiTurn = 1 /\ oiOut = NoOi /\ today = 1

\* publish_connected and publish_disconnected.
ConnectedMsg == [status |-> "reconnected", cockpit |-> "ok", attempt |-> 0]
DisconnectedMsg(n) ==
    [status |-> "disconnected", cockpit |-> IF n > DownAfter THEN "down" ELSE "degraded", attempt |-> n]

\* publish_connected(..).await.ok() and publish_disconnected(..).await.ok(): a
\* publish that fails is forgotten, and the caller goes on as if it had not.
Announce(msg, delivered) ==
    /\ upStatus' = IF delivered THEN msg ELSE upStatus
    /\ upMissed' = ~delivered

OneMore(n) == IF n = MaxFeedErrors THEN n ELSE n + 1

\* is_power_of_two: the only odd divisor is one.
PowerOfTwo(n) == n > 0 /\ \A d \in 1..n : n % d = 0 => d = 1 \/ d % 2 = 0

-----------------------------------------------------------------------------
(* Start-up and end. *)

\* probe_token on the first instrument decides whether the loops start.
Probe(ok, delivered) ==
    /\ upProc = "start"
    /\ upProc' = IF ok THEN "run" ELSE "exited"
    /\ Announce(IF ok THEN ConnectedMsg ELSE DisconnectedMsg(0), delivered)
    /\ UNCHANGED <<ltpErrors, upSubjects, expiryCache, chainCall, oiTurn, oiOut, today>>

\* select!: one loop ends (a panic: none of them returns) and the process with it.
LoopExits(delivered) ==
    /\ upProc = "run"
    /\ upProc' = "exited" /\ Announce(DisconnectedMsg(0), delivered)
    /\ UNCHANGED <<ltpErrors, upSubjects, expiryCache, chainCall, oiTurn, oiOut, today>>

-----------------------------------------------------------------------------
(* Prices and books. *)

\* publish_tick: by trading symbol, by ISIN, and in binary for a registered symbol.
TickSubjects(got) ==
    {<<"tick", i>> : i \in got} \cup {<<"isin", i>> : i \in got}
    \cup {<<"bin", i>> : i \in got \cap Registered}

BookSubjects(got) == {<<"book", i>> : i \in got} \cup {<<"isin", i>> : i \in got}

\* One round of run_ltp_loop that gets an answer; got: the instruments of the
\* request that extract_data_map finds in it.  The count is reset whether or
\* not the recovery could be published.
PollPrices(got, delivered) ==
    /\ upProc = "run"
    /\ IF ltpErrors > 0 THEN Announce(ConnectedMsg, delivered) ELSE UNCHANGED <<upStatus, upMissed>>
    /\ ltpErrors' = 0 /\ upSubjects' = TickSubjects(got)
    /\ UNCHANGED <<upProc, expiryCache, chainCall, oiTurn, oiOut, today>>

\* A failed round is announced when the count is one or a power of two.
AnnounceFailure(n) == PowerOfTwo(n)

\* Mutant: only the thresholds of the cockpit are announced.
AnnounceLate(n) == n > DownAfter /\ PowerOfTwo(n)

LtpFailure(n) == AnnounceFailure(n)

PricesFail(delivered) ==
    /\ upProc = "run"
    /\ ltpErrors' = OneMore(ltpErrors)
    /\ IF LtpFailure(ltpErrors') THEN Announce(DisconnectedMsg(ltpErrors'), delivered)
       ELSE UNCHANGED <<upStatus, upMissed>>
    /\ UNCHANGED <<upProc, upSubjects, expiryCache, chainCall, oiTurn, oiOut, today>>

\* run_book_loop announces nothing; a failed round only logs and sleeps.
PollBooks(got) ==
    /\ upProc = "run"
    /\ upSubjects' = BookSubjects(got)
    /\ UNCHANGED <<upProc, ltpErrors, upStatus, upMissed, expiryCache, chainCall, oiTurn, oiOut, today>>

-----------------------------------------------------------------------------
(* Option chains. *)

OiNext(i) == IF i = Len(Underlyings) THEN 1 ELSE i + 1
Polled == Underlyings[oiTurn]

\* The cached expiry serves until its date is over.
CacheServes(u) == expiryCache[u] >= today /\ expiryCache[u] # 0

\* Mutant: a cached expiry serves for ever.
CacheAlways(u) == expiryCache[u] # 0

CacheHit(u) == CacheServes(u)

\* resolve_expiry from the cache, or discover_nearest_expiry in what is listed.
ResolveExpiry(listed) ==
    LET u == Polled
        future == {e \in listed : e >= today}
        e == IF CacheHit(u) THEN expiryCache[u] ELSE Min(future)
    IN  /\ upProc = "run" /\ chainCall = NoChainCall
        /\ CacheHit(u) \/ future # {}
        /\ expiryCache' = [expiryCache EXCEPT ![u] = e]
        /\ chainCall' = [u |-> u, expiry |-> e, today |-> today]
        /\ UNCHANGED <<upProc, ltpErrors, upStatus, upMissed, upSubjects, oiTurn, oiOut, today>>

\* The contract request fails or lists no future expiry: the next underlying.
ResolveFails ==
    /\ upProc = "run" /\ chainCall = NoChainCall /\ ~CacheHit(Polled)
    /\ oiTurn' = OiNext(oiTurn)
    /\ UNCHANGED <<upProc, ltpErrors, upStatus, upMissed, upSubjects, expiryCache, chainCall, oiOut, today>>

Distance(n) == IF n < 0 THEN -n ELSE n

\* The strikes published: all, or the KeepStrikes nearest to a known spot; of
\* two at the same distance the lower one first (the sort is stable).
Nearer(a, b, spot) == Distance(a - spot) < Distance(b - spot) \/ (Distance(a - spot) = Distance(b - spot) /\ a < b)
Trimmed(chain, spot) ==
    IF spot = 0 \/ Cardinality(chain) <= KeepStrikes THEN chain
    ELSE {a \in chain : Cardinality({b \in chain : Nearer(b, a, spot)}) < KeepStrikes}

\* publish_oi: an empty chain publishes nothing.
ChainArrives(chain, spot) ==
    /\ upProc = "run" /\ chainCall # NoChainCall
    /\ chainCall' = NoChainCall /\ oiTurn' = OiNext(oiTurn)
    /\ oiOut' = IF chain = {} THEN oiOut
                ELSE [u |-> chainCall.u, expiry |-> chainCall.expiry, today |-> chainCall.today,
                      chain |-> chain, spot |-> spot, kept |-> Trimmed(chain, spot)]
    /\ UNCHANGED <<upProc, ltpErrors, upStatus, upMissed, upSubjects, expiryCache, today>>

\* A failing expiry is not tried again: the cache forgets it.
ChainFails ==
    /\ upProc = "run" /\ chainCall # NoChainCall
    /\ oiTurn' = OiNext(oiTurn)
    /\ expiryCache' = [expiryCache EXCEPT ![chainCall.u] = 0] /\ chainCall' = NoChainCall
    /\ UNCHANGED <<upProc, ltpErrors, upStatus, upMissed, upSubjects, oiOut, today>>

\* External: the date changes.
NextDay ==
    /\ today < MaxDay /\ today' = today + 1
    /\ UNCHANGED <<upProc, ltpErrors, upStatus, upMissed, upSubjects, expiryCache, chainCall, oiTurn, oiOut>>

UpNext ==
    \/ \E d \in BOOLEAN :
          \/ LoopExits(d) \/ PricesFail(d)
          \/ \E ok \in BOOLEAN : Probe(ok, d)
          \/ \E got \in SUBSET Instruments : PollPrices(got, d)
    \/ ResolveFails \/ ChainFails \/ NextDay
    \/ \E got \in SUBSET Instruments : PollBooks(got)
    \/ \E listed \in SUBSET Expiries : ResolveExpiry(listed)
    \/ \E chain \in SUBSET Strikes, spot \in Spots : ChainArrives(chain, spot)

UpSpec == UpInit /\ [][UpNext]_upVars

-----------------------------------------------------------------------------
(* Properties. *)

\* Unless the last publish on md.connection.upstox failed, what the subject
\* said last is what the price loop is doing: a failing feed is announced as
\* disconnected, with the largest power of two its error count has reached
\* (so the cockpit shows "down" from the eighth error, not from the sixth),
\* and a feed that answers is announced as connected.  One publish that gets
\* through repairs whatever failed before it; run_ltp_loop does not repeat
\* one that did not, so after a lost "reconnected" the subject says
\* "disconnected" until the feed has failed and recovered again.
AnnouncedState ==
    upProc = "run" /\ ~upMissed =>
        IF ltpErrors = 0 THEN upStatus = ConnectedMsg
        ELSE /\ upStatus.status = "disconnected"
             /\ PowerOfTwo(upStatus.attempt)
             /\ upStatus.attempt <= ltpErrors /\ ltpErrors < 2 * upStatus.attempt
             /\ upStatus.cockpit = "down" <=> upStatus.attempt > DownAfter

\* A chain that is published is of an expiry that was not over on the date
\* its request was prepared, however old the cached expiry is, and its
\* strikes are a block of neighbours with no nearer strike left out.
ChainIsCurrent ==
    oiOut # NoOi =>
        /\ oiOut.expiry >= oiOut.today
        /\ oiOut.kept # {} /\ oiOut.kept \subseteq oiOut.chain
        /\ \A k \in oiOut.kept, d \in oiOut.chain \ oiOut.kept :
              /\ Distance(k - oiOut.spot) <= Distance(d - oiOut.spot)
              /\ \A j \in oiOut.kept : ~(k < d /\ d < j)

=============================================================================
