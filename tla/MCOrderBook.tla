---------------------------- MODULE MCOrderBook ----------------------------
(* Four bids, two of them of one price that is rounded and one too many for *)
(* an answer, and an ask.                                                   *)
EXTENDS OrderBook

CONSTANTS b1, b2, b3, b4, a1, alice, bob

MCFirstOrders == {{}, {b1, b3}, {b1, b2, b3, a1}, {b1, b2, b3, b4}}

MCTerms ==
    [o \in Orders |->
        CASE o = b1 -> [bid |-> TRUE, seller |-> alice, amount |-> 2, sell |-> 1, receive |-> 2]
          [] o = b2 -> [bid |-> TRUE, seller |-> bob, amount |-> 1, sell |-> 2, receive |-> 3]
          [] o = b3 -> [bid |-> TRUE, seller |-> alice, amount |-> 1, sell |-> 2, receive |-> 1]
          [] o = b4 -> [bid |-> TRUE, seller |-> bob, amount |-> 1, sell |-> 3, receive |-> 1]
          [] OTHER -> [bid |-> FALSE, seller |-> bob, amount |-> 1, sell |-> 2, receive |-> 5]]
=============================================================================
