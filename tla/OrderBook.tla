----------------------------- MODULE OrderBook -----------------------------
(* The order book and the depth chart of the market on show                *)
(* (stores/MarketsStore.js, lib/common/MarketClasses.js), fed by the        *)
(* batches of MarketsActions.js.  The node changes the orders, notifies    *)
(* and answers over one socket, in order; an answer may be a failure, and  *)
(* gives up its batch.  The store compares each answer with the orders it  *)
(* has and builds the rows anew only if they differ.                       *)
(* Amounts and prices are numbers, with the rounding of the code.  The     *)
(* market has no call orders: _marginCallsDisabledForMarket is true of     *)
(* every bitasset but prediction markets, and those have no margin calls.  *)
EXTENDS Integers, FiniteSets, SequencesExt, FiniteSetsExt, Functions

CONSTANTS
    Orders,     \* ids of limit orders
    Terms,      \* bid or ask, seller, amount, and the two amounts of the price of an order
    FirstOrders,    \* bound of the orders there are at first: some of these sets
    Limit,      \* orders of each side that an answer has at most (300 in the code)
    Scale,      \* a price keeps so many parts of one (eight decimals in the code)
    MaxChanges, \* bound of the changes on the node
    MaxFaults   \* bound of the answers that fail and of the subscriptions that ask again

ASSUME OrderBookAssumption ==
    /\ IsFiniteSet(Orders) /\ FirstOrders \subseteq SUBSET Orders
    /\ Limit \in Nat \ {0} /\ Scale \in Nat \ {0}
    /\ MaxChanges \in Nat /\ MaxFaults \in Nat
    /\ \A o \in Orders : /\ Terms[o].sell \in Nat \ {0} /\ Terms[o].receive \in Nat \ {0}
                          /\ Terms[o].amount \in Nat \ {0}

VARIABLES
    node,               \* amount for sale of every order of the market, on the node
    created,            \* orders there have been
    changes,            \* number of changes on the node
    faults,             \* number of answers that failed and subscriptions that asked again
    toNode,             \* requests on the socket, by what is asked
    toClient,           \* notifications and answers on the socket
    results,            \* first answers of the batches whose other answers are missing
    dispatchSubTimeout, dispatchCancelTimeout,
    cancelBatchIDs,
    lost,               \* nothing was asked again since the last batch was given up, or a
                        \* batch that was due was dropped
    marketLimitOrders,  \* amount for sale of every order the store has
    bids, asks,         \* marketData.bids and asks: rows, by increasing price
    flatBids, flatAsks, \* points of the depth chart
    totals

nodeVars == <<node, created, changes>>
removalVars == <<dispatchCancelTimeout, cancelBatchIDs>>
askVars == <<dispatchSubTimeout, lost>>
actionVars == <<results, removalVars, askVars, faults>>
bookVars == <<bids, asks, flatBids, flatAsks, totals>>
orderBookVars == <<nodeVars, toNode, toClient, actionVars, marketLimitOrders, bookVars>>

Batch == <<"limits", "rest">>

-----------------------------------------------------------------------------
(* Orders and rows.                                                        *)

isBid(o) == Terms[o].bid

\* The price in base per quote, rounded to the decimals that toReal keeps.
getPrice(o) ==
    LET base == IF isBid(o) THEN Terms[o].sell ELSE Terms[o].receive
        quote == IF isBid(o) THEN Terms[o].receive ELSE Terms[o].sell
    IN  (2 * Scale * base + quote) \div (2 * quote)

\* Asset.times with the price of order o: a bid pays one more than the floor when
\* it is not exact, and nobody receives nothing.
times(o, amount) ==
    LET product == amount * Terms[o].receive
        floor == product \div Terms[o].sell
        exact == product % Terms[o].sell = 0
    IN  Max({1, IF isBid(o) /\ ~ exact THEN floor + 1 ELSE floor})

Row(o, amount, sellers) ==
    [order |-> o, sellers |-> sellers, for_sale |-> amount, to_receive |-> times(o, amount),
     total_for_sale |-> amount, total_to_receive |-> times(o, amount)]

\* What LimitOrder.sum makes of an order and the row of the same price behind it: a
\* copy of the order, with the first of the other's sellers only.
sum(o, amount, row) ==
    Row(o, amount + row.for_sale, {Terms[o].seller, Terms[row.order].seller})

\* One order of a side is in front of another, by the price itself.
Better(o, p) == Terms[o].sell * Terms[p].receive > Terms[p].sell * Terms[o].receive

\* What get_limit_orders returns: the best orders of each side, as many as the limit
\* allows, and which ones of equal price is not said.
Listings(orders) ==
    {Restrict(orders, ids) : ids \in {s \in SUBSET DOMAIN orders : \A bid \in BOOLEAN :
        LET side == {o \in DOMAIN orders : isBid(o) = bid}
        IN  /\ Cardinality(side \cap s) = Min({Limit, Cardinality(side)})
            /\ \A o \in side \ s, p \in side \cap s : ~ Better(o, p)}}

\* Orders in the sequence one after the other become one row if their prices agree.
construct(sorted, amounts) ==
    LET Add(o, rows) ==
            IF rows # <<>> /\ getPrice(rows[1].order) = getPrice(o)
            THEN <<sum(o, amounts[o], rows[1])>> \o Tail(rows)
            ELSE <<Row(o, amounts[o], {Terms[o].seller})>> \o rows
    IN  FoldRight(Add, sorted, <<>>)

\* Orders by increasing price; the map does not say in which order equal ones come.
Sortings(ids) ==
    {s \in SetToSeqs(ids) : \A i, j \in DOMAIN s : i < j => getPrice(s[i]) =< getPrice(s[j])}

\* _combineOrders gives each row the sums of all rows from the best price to it.
WithTotals(rows) ==
    LET Add(done, row) ==
            Append(done, [row EXCEPT
                !.total_for_sale = @ + (IF done = <<>> THEN 0 ELSE Last(done).total_for_sale),
                !.total_to_receive = @ + (IF done = <<>> THEN 0 ELSE Last(done).total_to_receive)])
    IN  FoldLeft(Add, <<>>, rows)

\* Sums of the amounts from the left, or from the right (inverse): the steps of the
\* chart.  A single point gets a second one.  Abscissas are in quarters of a price, as
\* the chart is drawn to one and a half times its last price, twice for one order.
flatten_orderbookchart(array, inverse) ==
    LET Add(done, point) ==
            Append(done, [point EXCEPT !.y = @ + (IF done = <<>> THEN 0 ELSE Last(done).y)])
        summed == IF inverse THEN Reverse(FoldLeft(Add, <<>>, Reverse(array)))
                  ELSE FoldLeft(Add, <<>>, array)
    IN  CASE Len(array) # 1 -> summed
          [] inverse -> <<[summed[1] EXCEPT !.x = 0]>> \o summed
          [] OTHER -> Append(summed, [summed[1] EXCEPT !.x = (@ * 3) \div 2])

Points(rows, Amount(_)) ==
    [i \in DOMAIN rows |-> [x |-> 4 * getPrice(rows[i].order), y |-> Amount(rows[i])]]

ToReceive(row) == row.to_receive
ForSale(row) == row.for_sale

FlatBids(rows) ==
    LET flat == flatten_orderbookchart(Points(rows, ToReceive), TRUE)
    IN  IF flat = <<>> THEN flat ELSE <<[flat[1] EXCEPT !.x = 0]>> \o flat

FlatAsks(rows) ==
    LET flat == flatten_orderbookchart(Points(rows, ForSale), FALSE)
    IN  IF flat = <<>> THEN flat
        ELSE Append(flat, [Last(flat) EXCEPT !.x = (@ * 3) \div 2])

\* _orderBook and _depthChart after it: the rows, their totals and the chart.
_orderBook(orders) ==
    \E sortedBids \in Sortings({o \in DOMAIN orders : isBid(o)}),
       sortedAsks \in Sortings({o \in DOMAIN orders : ~ isBid(o)}) :
        /\ bids' = Reverse(WithTotals(Reverse(construct(sortedBids, orders))))
        /\ asks' = WithTotals(construct(sortedAsks, orders))
        /\ flatBids' = FlatBids(bids')
        /\ flatAsks' = FlatAsks(asks')
        /\ totals' = [bid |-> FoldLeft(LAMBDA n, row : n + row.for_sale, 0, bids'),
                      ask |-> IF flatAsks' = <<>> THEN 0 ELSE Last(flatAsks').y]

\* Mutant: the number of orders is compared only.
SizeChanged(new, old) == Cardinality(DOMAIN new) # Cardinality(DOMAIN old)

\* Price and seller of an order never change, the amount does when it is filled.
didOrdersChange(new, old) ==
    \/ Cardinality(DOMAIN new) # Cardinality(DOMAIN old)
    \/ \E o \in DOMAIN new : o \notin DOMAIN old \/ new[o] # old[o]

-----------------------------------------------------------------------------
(* The page has just asked for the subscription and the first answers.     *)

BookInit ==
    /\ created \in FirstOrders
    /\ node \in [created -> UNION {1..Terms[o].amount : o \in created}]
    /\ \A o \in created : node[o] =< Terms[o].amount
    /\ changes = 0 /\ faults = 0
    /\ toNode = Batch
    /\ toClient = <<>> /\ results = <<>>
    /\ dispatchSubTimeout = FALSE /\ dispatchCancelTimeout = FALSE
    /\ cancelBatchIDs = {}
    /\ lost = FALSE
    /\ marketLimitOrders = <<>>
    /\ bids = <<>> /\ asks = <<>> /\ flatBids = <<>> /\ flatAsks = <<>>
    /\ totals = [bid |-> 0, ask |-> 0]

-----------------------------------------------------------------------------
(* The node.                                                               *)

Change == [kind |-> "change"]

\* An order is made, or filled in part.
Create ==
    /\ changes < MaxChanges
    /\ changes' = changes + 1
    /\ \E o \in Orders \ created : \E amount \in 1..Terms[o].amount :
        /\ created' = created \cup {o}
        /\ node' = [p \in DOMAIN node \cup {o} |-> IF p = o THEN amount ELSE node[p]]
        /\ toClient' = Append(toClient, Change)
        /\ UNCHANGED <<toNode, actionVars, marketLimitOrders, bookVars>>

Fill ==
    /\ changes < MaxChanges
    /\ changes' = changes + 1
    /\ \E o \in DOMAIN node : \E amount \in 1..(node[o] - 1) :
        /\ node' = [node EXCEPT ![o] = amount]
        /\ toClient' = Append(toClient, Change)
        /\ UNCHANGED <<created, toNode, actionVars, marketLimitOrders, bookVars>>

\* An order is cancelled, filled or expires; of orders that it follows the client is
\* told by the removal of the object too (cancel-order), before or after the market.
Cancel ==
    /\ changes < MaxChanges
    /\ changes' = changes + 1
    /\ \E o \in DOMAIN node :
        /\ node' = Restrict(node, DOMAIN node \ {o})
        /\ \E told \in {<<Change>>, <<[kind |-> "cancel", order |-> o], Change>>,
                        <<Change, [kind |-> "cancel", order |-> o]>>} :
               toClient' = toClient \o told
        /\ UNCHANGED <<created, toNode, actionVars, marketLimitOrders, bookVars>>

\* The orders, and what else a batch asks for, or the failure of either.
Answer ==
    /\ toNode # <<>>
    /\ toNode' = Tail(toNode)
    /\ \E failed \in BOOLEAN, orders \in Listings(node) :
        /\ failed => faults < MaxFaults
        /\ faults' = IF failed THEN faults + 1 ELSE faults
        /\ toClient' = Append(toClient,
               IF toNode[1] = "limits"
               THEN [kind |-> "limits", failed |-> failed,
                     orders |-> IF failed THEN <<>> ELSE orders]
               ELSE [kind |-> "rest", failed |-> failed])
    /\ UNCHANGED <<nodeVars, results, removalVars, askVars, marketLimitOrders, bookVars>>

-----------------------------------------------------------------------------
(* MarketsActions.                                                         *)

Heard(kind) ==
    /\ toClient # <<>> /\ toClient[1].kind = kind
    /\ toClient' = Tail(toClient)

\* No batch of later orders is on its way.
NoneFollows(requests, messages) ==
    /\ \A i \in DOMAIN requests : requests[i] # "limits"
    /\ \A i \in DOMAIN messages : messages[i].kind # "limits"

\* Mutant: a batch that waits for answers is taken to cover what is notified meanwhile.
ChangeNotifiedOnce ==
    /\ Heard("change")
    /\ dispatchSubTimeout' = (results = <<>>)
    /\ UNCHANGED <<nodeVars, toNode, results, removalVars, lost, faults,
                   marketLimitOrders, bookVars>>

\* A notification starts the timer of the next batch if none runs.
changeNotified ==
    /\ Heard("change")
    /\ dispatchSubTimeout' = TRUE
    /\ UNCHANGED <<nodeVars, toNode, results, removalVars, lost, faults,
                   marketLimitOrders, bookVars>>

\* The timer fires: the orders are asked for, and other things after them.
askBatch ==
    /\ dispatchSubTimeout
    /\ dispatchSubTimeout' = FALSE
    /\ lost' = FALSE
    /\ toNode' = toNode \o Batch
    /\ UNCHANGED <<nodeVars, toClient, results, removalVars, faults,
                   marketLimitOrders, bookVars>>

\* The timers are cleared, and what they were to do is not done: by a subscription of
\* this market that finds it subscribed, by the end of another one, by changeBase.
batchTimeoutsCleared ==
    /\ dispatchSubTimeout' = FALSE /\ dispatchCancelTimeout' = FALSE
    /\ lost' = (lost \/ (dispatchSubTimeout /\ NoneFollows(toNode, toClient)))
    /\ UNCHANGED <<nodeVars, toNode, toClient, results, cancelBatchIDs, faults,
                   marketLimitOrders, bookVars>>

\* Another subscription of this market clears them too, but asks for the orders: with
\* another size of its buckets or groups, or when the first one failed.
marketSubscribed ==
    /\ faults < MaxFaults
    /\ faults' = faults + 1
    /\ dispatchSubTimeout' = FALSE /\ dispatchCancelTimeout' = FALSE
    /\ lost' = FALSE
    /\ toNode' = toNode \o Batch
    /\ UNCHANGED <<nodeVars, toClient, results, cancelBatchIDs, marketLimitOrders, bookVars>>

\* The first answer waits for the other ones of its batch.
limitsAnswered ==
    /\ Heard("limits")
    /\ results' = Append(results, [failed |-> toClient[1].failed,
                                   orders |-> toClient[1].orders])
    /\ UNCHANGED <<nodeVars, toNode, removalVars, askVars, faults, marketLimitOrders, bookVars>>

cancelLimitOrderSuccess ==
    /\ Heard("cancel")
    /\ cancelBatchIDs' = cancelBatchIDs \cup {toClient[1].order}
    /\ dispatchCancelTimeout' = TRUE
    /\ UNCHANGED <<nodeVars, toNode, results, askVars, faults, marketLimitOrders, bookVars>>

-----------------------------------------------------------------------------
(* MarketsStore.                                                           *)

\* The last answer of a batch without a failure: its orders replace those of the store,
\* and the book is built anew if they differ.
restAnswered ==
    /\ Heard("rest") /\ ~ toClient[1].failed /\ ~ results[1].failed
    /\ marketLimitOrders' = results[1].orders
    /\ results' = Tail(results)
    /\ IF didOrdersChange(marketLimitOrders', marketLimitOrders)
       THEN _orderBook(marketLimitOrders')
       ELSE UNCHANGED bookVars
    /\ UNCHANGED <<nodeVars, toNode, removalVars, askVars, faults>>

\* One of its answers was a failure: the batch is given up and not asked again.
batchFailed ==
    /\ Heard("rest") /\ (toClient[1].failed \/ results[1].failed)
    /\ results' = Tail(results)
    /\ lost' = (lost \/ NoneFollows(toNode, toClient'))
    /\ UNCHANGED <<nodeVars, toNode, removalVars, dispatchSubTimeout, faults,
                   marketLimitOrders, bookVars>>

\* The timer of the removals fires.
onCancelLimitOrderSuccess ==
    /\ dispatchCancelTimeout
    /\ marketLimitOrders' = Restrict(marketLimitOrders,
                                     DOMAIN marketLimitOrders \ cancelBatchIDs)
    /\ IF cancelBatchIDs \cap DOMAIN marketLimitOrders # {}
       THEN _orderBook(marketLimitOrders')
       ELSE UNCHANGED bookVars
    /\ dispatchCancelTimeout' = FALSE
    /\ cancelBatchIDs' = {}
    /\ UNCHANGED <<nodeVars, toNode, toClient, results, askVars, faults>>

-----------------------------------------------------------------------------
BookNext ==
    \/ Create \/ Fill \/ Cancel \/ Answer
    \/ changeNotified \/ askBatch \/ limitsAnswered \/ cancelLimitOrderSuccess
    \/ batchTimeoutsCleared \/ marketSubscribed
    \/ restAnswered \/ batchFailed \/ onCancelLimitOrderSuccess

BookSpec == BookInit /\ [][BookNext]_orderBookVars

-----------------------------------------------------------------------------
(* Properties, against definitions by sets of orders.                      *)

Known(bid) == {o \in DOMAIN marketLimitOrders : isBid(o) = bid}
Prices(bid) == {getPrice(o) : o \in Known(bid)}
AmountOf(os) == MapThenSumSet(LAMBDA o : marketLimitOrders[o], os)
NotWorse(bid, price) ==
    {o \in Known(bid) : IF bid THEN getPrice(o) >= price ELSE getPrice(o) =< price}

\* One row for each price, dearest last, with what all its orders sell, priced as one of
\* them is; its total is what orders at that price or a better one sell, and the total to
\* receive what those rows bring.  It is marked as the user's for no one but its sellers,
\* and for both of two.
RowsAre(bid, rows) ==
    /\ Len(rows) = Cardinality(Prices(bid))
    /\ \A i \in DOMAIN rows :
           LET price == getPrice(rows[i].order)
               same == {o \in Known(bid) : getPrice(o) = price}
               sellers == {Terms[o].seller : o \in same}
           IN  /\ rows[i].order \in same
               /\ i > 1 => getPrice(rows[i - 1].order) < price
               /\ rows[i].for_sale = AmountOf(same)
               /\ rows[i].to_receive = times(rows[i].order, AmountOf(same))
               /\ rows[i].total_for_sale = AmountOf(NotWorse(bid, price))
               /\ rows[i].total_to_receive =
                      MapThenSumSet(LAMBDA j : rows[j].to_receive,
                                    IF bid THEN i..Len(rows) ELSE 1..i)
               /\ rows[i].sellers \subseteq sellers
               /\ Cardinality(same) < 3 => rows[i].sellers = sellers

\* The chart has a point at every price, and its height there is what may be bought, or
\* sold, at that price or a better one; beyond the last price it is level.
ChartIs(bid, rows, flat, Amount(_)) ==
    /\ {4 * price : price \in Prices(bid)} \subseteq {flat[i].x : i \in DOMAIN flat}
    /\ \A i \in DOMAIN flat :
           flat[i].y = MapThenSumSet(LAMBDA j : Amount(rows[j]),
               {j \in DOMAIN rows : LET x == 4 * getPrice(rows[j].order)
                                    IN  IF bid THEN x >= flat[i].x ELSE x =< flat[i].x})

\* The book and the chart on show are those of the orders that the store has, after
\* every answer that replaced them and every removal (MarketsStore.js:332-381,
\* 491-497, 538-567): the rows are built anew only if didOrdersChange says so.
BookIsReference ==
    /\ RowsAre(TRUE, bids) /\ RowsAre(FALSE, asks)
    /\ ChartIs(TRUE, bids, flatBids, ToReceive) /\ ChartIs(FALSE, asks, flatAsks, ForSale)
    /\ totals = [bid |-> AmountOf(Known(TRUE)), ask |-> AmountOf(Known(FALSE))]

\* When nothing is under way and no timer runs, the store has the orders that the node
\* would answer now: an answer that brings back a removed order, because the batch waited
\* for its other answers, is followed by another batch, and a batch that failed by the one
\* asked after it.  The exception is what is lost for good: the last batch failed
\* (MarketsActions.js:355-360, 516-522), or its timer was cleared (26-31) and nothing was
\* asked since.
QuietIsCurrent ==
    /\ toNode \o toClient \o results = <<>>
    /\ ~ dispatchSubTimeout /\ ~ dispatchCancelTimeout /\ ~ lost
    => marketLimitOrders \in Listings(node)
=============================================================================
