----------------------------- MODULE MarketFeed -----------------------------
(***************************************************************************)
(* The subscription to a market: subscribeMarket and unSubscribeMarket of  *)
(* src/app/actions/MarketsActions.js with the handlers of                  *)
(* stores/MarketsStore.js that their dispatches reach.                     *)
(*                                                                         *)
(* Pages, the chart and the quick trade subscribe and unsubscribe in any   *)
(* order, most without waiting.  The node notifies; notifications of half  *)
(* a second are one batch, for which the market is asked again.  Answers   *)
(* arrive in any order, and are not compared with the market of the page.  *)
(***************************************************************************)
EXTENDS Integers, FiniteSets

CONSTANTS Markets,
          Options,      \* bucket size and group limit
          None,
          Requests      \* bound: requests to the node under way

ASSUME MarketFeedAssumption ==
    /\ None \notin Markets /\ None \notin Options
    /\ IsFiniteSet(Requests)

VARIABLES subs,         \* markets of subs
          options,      \* currentBucketSize and currentGroupLimit
          currentMarket,
          timer,        \* dispatchSubTimeout: the market of its closure
          batch,        \* subBatchResults: kinds of notifications
          notified,     \* the markets the node notifies
          request,      \* requests to the node
          activeMarket, \* MarketsStore.activeMarket
          limits,       \* the market of marketLimitOrders
          history,      \* the market of activeMarketHistory and priceHistory
          marketReady,
          restored      \* history: an unsubscribe failed since the market was cleared

feedActionVars == <<subs, options, currentMarket, timer, batch, notified, request>>
storeVars == <<activeMarket, limits, history, marketReady, restored>>
feedVars == <<feedActionVars, storeVars>>

Free == [kind |-> "free", market |-> None, fills |-> FALSE]
Pending == [kind : {"subscribe", "batch", "unsubscribe"}, market : Markets, fills : BOOLEAN]

TypeOK ==
    /\ subs \subseteq Markets /\ notified \subseteq Markets
    /\ options \in Options \cup {None}
    /\ {currentMarket, timer, activeMarket, limits, history} \subseteq Markets \cup {None}
    /\ batch \subseteq {"limitOrder", "fill"}
    /\ request \in [Requests -> {Free} \cup Pending]
    /\ marketReady \in BOOLEAN /\ restored \in BOOLEAN

Init ==
    /\ subs = {} /\ options = None /\ currentMarket = None
    /\ timer = None /\ batch = {} /\ notified = {}
    /\ request = [r \in Requests |-> Free]
    /\ activeMarket = None /\ limits = None /\ history = None
    /\ marketReady = FALSE /\ restored = FALSE

\* A free slot of the bounded pool takes the request.
Send(kind, m, fills) ==
    \E r \in Requests :
        /\ request[r] = Free
        /\ request' = [request EXCEPT ![r] = [kind |-> kind, market |-> m, fills |-> fills]]

Answered(r) == request' = [request EXCEPT ![r] = Free]

clearBatchTimeouts == timer' = None

-----------------------------------------------------------------------------
(* The pages.                                                              *)

\* Mutant: the timer of the previous market goes on.
SubscribeOnly(m, o) ==
    /\ currentMarket' = m
    /\ IF m \notin subs \/ options # o
       THEN /\ marketReady' = FALSE /\ options' = o
            /\ notified' = notified \cup {m}
            /\ Send("subscribe", m, TRUE)
       ELSE UNCHANGED <<marketReady, options, notified, request>>
    /\ UNCHANGED <<subs, batch, timer, activeMarket, limits, history, restored>>

\* A market that is subscribed with the same options is not asked for again.
subscribeMarket(m, o) ==
    /\ clearBatchTimeouts
    /\ currentMarket' = m
    /\ IF m \notin subs \/ options # o
       THEN /\ marketReady' = FALSE /\ options' = o
            /\ notified' = notified \cup {m}
            /\ Send("subscribe", m, TRUE)
       ELSE UNCHANGED <<marketReady, options, notified, request>>
    /\ UNCHANGED <<subs, batch, activeMarket, limits, history, restored>>

unSubscribeMarket(m) ==
    /\ clearBatchTimeouts
    /\ IF m \in subs THEN notified' = notified \ {m} /\ Send("unsubscribe", m, FALSE)
       ELSE UNCHANGED <<notified, request>>
    /\ UNCHANGED <<subs, options, currentMarket, batch, storeVars>>

\* A link to a market was followed.
switchMarket ==
    /\ marketReady' = FALSE
    /\ UNCHANGED <<feedActionVars, activeMarket, limits, history, restored>>

-----------------------------------------------------------------------------
(* Notifications.                                                          *)

\* Mutant: notifications of other markets are not disregarded.
NotifiedAny(m, kind) ==
    /\ \/ m \in notified
       \/ \E r \in Requests : request[r].kind = "unsubscribe" /\ request[r].market = m
    /\ batch' = batch \cup {kind}
    /\ timer' = IF timer = None THEN m ELSE timer
    /\ UNCHANGED <<subs, options, currentMarket, notified, request, storeVars>>

\* Those of an earlier market are disregarded.
subscription(m, kind) ==
    /\ \/ m \in notified
       \/ \E r \in Requests : request[r].kind = "unsubscribe" /\ request[r].market = m
    /\ m = currentMarket
    /\ batch' = batch \cup {kind}
    /\ timer' = IF timer = None THEN m ELSE timer
    /\ UNCHANGED <<subs, options, currentMarket, notified, request, storeVars>>

\* Half a second later the market of the timer is asked again; history and prices
\* only if the batch has a fill.
sendBatch ==
    /\ timer # None
    /\ Send("batch", timer, "fill" \in batch)
    /\ batch' = {} /\ clearBatchTimeouts
    /\ UNCHANGED <<subs, options, currentMarket, notified, storeVars>>

-----------------------------------------------------------------------------
(* Answers.                                                                *)

\* Mutant: another market's data is not cleared.
ShowOnly(m, fills) ==
    /\ activeMarket' = m /\ limits' = m
    /\ history' = IF fills THEN m ELSE history
    /\ restored' = IF m = activeMarket THEN restored ELSE FALSE
    /\ marketReady' = TRUE

\* onSubscribeMarket: data of another market than the active one is cleared first.
onSubscribeMarket(m, fills) ==
    /\ activeMarket' = m /\ limits' = m
    /\ history' = IF fills THEN m ELSE IF m = activeMarket THEN history ELSE None
    /\ restored' = IF m = activeMarket THEN restored ELSE FALSE
    /\ marketReady' = TRUE

subscribeAnswer(r) ==
    /\ request[r].kind = "subscribe" /\ Answered(r)
    /\ subs' = subs \cup {request[r].market}
    /\ onSubscribeMarket(request[r].market, TRUE)
    /\ UNCHANGED <<options, currentMarket, timer, batch, notified>>

batchAnswer(r) ==
    /\ request[r].kind = "batch" /\ Answered(r)
    /\ onSubscribeMarket(request[r].market, request[r].fills)
    /\ UNCHANGED <<subs, options, currentMarket, timer, batch, notified>>

\* The store forgets the active market, whichever it is, and keeps its data.
unsubscribeAnswer(r) ==
    /\ request[r].kind = "unsubscribe" /\ Answered(r)
    /\ subs' = subs \ {request[r].market}
    /\ activeMarket' = None
    /\ UNCHANGED <<options, currentMarket, timer, batch, notified, limits, history, marketReady,
                   restored>>

\* Mutant: the failed unsubscribe restores the market of the store, not of the call.
FailsActive(r) ==
    /\ request[r] # Free /\ Answered(r)
    /\ IF request[r].kind = "unsubscribe"
       THEN subs' = subs \cup {activeMarket} /\ restored' = TRUE
       ELSE UNCHANGED <<subs, restored>>
    /\ UNCHANGED <<options, currentMarket, timer, batch, notified, activeMarket, limits, history,
                   marketReady>>

\* "Unsub failed, restore activeMarket"; other failures are logged.
requestFails(r) ==
    /\ request[r] # Free /\ Answered(r)
    /\ \/ notified' = notified
       \/ /\ request[r].kind = "subscribe" /\ request[r].market \notin subs
          /\ notified' = notified \ {request[r].market}
       \/ request[r].kind = "unsubscribe" /\ notified' = notified \cup {request[r].market}
    /\ IF request[r].kind = "unsubscribe"
       THEN /\ subs' = subs \cup {request[r].market}
            /\ activeMarket' = request[r].market /\ restored' = TRUE
       ELSE UNCHANGED <<subs, activeMarket, restored>>
    /\ UNCHANGED <<options, currentMarket, timer, batch, limits, history, marketReady>>

Next ==
    \/ \E m \in Markets, o \in Options : subscribeMarket(m, o)
    \/ \E m \in Markets : unSubscribeMarket(m)
    \/ switchMarket
    \/ \E m \in Markets, kind \in {"limitOrder", "fill"} : subscription(m, kind)
    \/ sendBatch
    \/ \E r \in Requests : subscribeAnswer(r) \/ batchAnswer(r) \/ unsubscribeAnswer(r)
                           \/ requestFails(r)

Spec == Init /\ [][Next]_feedVars

-----------------------------------------------------------------------------
(* What is promised.                                                       *)

\* Whoever subscribed last: a batch that will be asked for is of that market.
BatchIsCurrent == timer # None => timer = currentMarket

\* The order book, the history and the active market are of one market, however
\* late the answers are; only a failed unsubscribe, which puts its market's name
\* on what is shown, mixes them until the next change of market.
OneMarketShown ==
    ~ restored =>
        /\ history \in {None, limits}
        /\ activeMarket \in {None, limits}
=============================================================================
